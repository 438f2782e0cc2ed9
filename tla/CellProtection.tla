---------------------------- MODULE CellProtection ----------------------------
(*****************************************************************************)
(* _protect() of rendering.py: what render_export() does with a cell before  *)
(* it is written to a CSV file, so that no spreadsheet takes it for a        *)
(* formula.  Characters are represented by what the function asks of them;   *)
(* one step is one round of its loop.                                        *)
(*****************************************************************************)
EXTENDS Integers, Sequences

\* "break" is a tab, carriage return or newline; "ignored" any other space,
\* control or format character; "sign" one of = + - @.
Character == {"sign", "break", "ignored", "apostrophe", "other"}

VARIABLES
  value,   \* the cell
  index,   \* characters skipped
  result,  \* the cell as it is written
  done

cellVars == <<value, index, result, done>>

Skipped(c) == c \in {"break", "ignored"}

CellTypeOK ==
  /\ value \in Seq(Character) /\ result \in Seq(Character)
  /\ index \in 0..Len(value)
  /\ \A i \in 1..index : Skipped(value[i])
  /\ done \in BOOLEAN

CellInit == value \in Seq(Character) /\ index = 0 /\ result = value /\ done = FALSE

Return(r) == done' = TRUE /\ result' = r /\ UNCHANGED <<value, index>>
Quoted == <<"apostrophe">> \o value

\* value.startswith((...)), before the scan.
StartsWith == value # <<>> /\ value[1] \in {"sign", "break"}
AtSign == index < Len(value) /\ value[index + 1] = "sign"

Protect ==
  /\ ~done
  /\ IF index = 0 /\ StartsWith THEN Return(Quoted)
     ELSE IF index < Len(value) /\ Skipped(value[index + 1])
     THEN index' = index + 1 /\ UNCHANGED <<value, result, done>>
     ELSE Return(IF AtSign THEN Quoted ELSE value)

CellSpec == CellInit /\ [][Protect]_cellVars

-----------------------------------------------------------------------------
(* Properties. *)

\* A cell is read as a formula if a sign is the first character that counts.
Ignorable(c) == c \in {"break", "ignored"}
Formula(s) ==
  \E i \in 1..Len(s) : s[i] = "sign" /\ \A j \in 1..i - 1 : Ignorable(s[j])

\* No cell is written that is read as a formula, whatever unprintable
\* characters it hides behind.
NoFormulaWritten == done => ~Formula(result)

\* Only cells that are read as formulas, or that begin with a line break or a
\* tab, are changed, by one character; all others are written as they are.
Suspect == Formula(value) \/ (value # <<>> /\ value[1] = "break")
OthersUntouched ==
  done => result = value \/ (Suspect /\ result = Quoted)

=============================================================================
