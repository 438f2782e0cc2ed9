---------------------------- MODULE DiagnosticsPaging ----------------------------
(*****************************************************************************)
(* ControlApiClient.diagnostics() of control_client.py: the loop that pages  *)
(* the rows of a snapshot by offset, against an API that answers each        *)
(* request on its own.  By contract the rows of a snapshot do not change;    *)
(* here they may be inserted and removed between two pages, and a faulty API *)
(* may answer with anything.                                                 *)
(*****************************************************************************)
EXTENDS Integers, Sequences, FiniteSets

CONSTANTS
  Row,            \* records with fields at (the time), id and org
  Held,           \* rows an honest API may hold
  Organization,   \* the organization of the scope
  Limits,         \* the bounds a call may be given; bytes are counted in rows,
                  \* an empty page takes one row's
  MaxMoves        \* bound: rows inserted or removed while paging

ASSUME PagingAssumption ==
  /\ \A r \in Row : r.at \in Int /\ r.id \in Int
  /\ \A l \in Limits : {l.pageSize, l.maxPages, l.maxRows, l.maxBytes} \subseteq Nat \ {0}
  /\ Held \subseteq {r \in Row : r.org = Organization}
  /\ IsFiniteSet(Held)
  /\ MaxMoves \in Nat

VARIABLES
  limits,    \* the bounds of this call
  honest,    \* FALSE: the API may answer anything
  table,     \* what the API holds for the snapshot
  lasting,   \* history: rows it held from the first request on
  ever,      \* history: rows it held at some time
  moves,     \* insertions and removals so far
  rows,      \* rows accepted
  offset,
  requests,  \* iterations of the loop
  bytes,     \* total_bytes
  outcome

apiVars == <<honest, table, lasting, ever, moves>>
PageSize == limits.pageSize
MaxPages == limits.maxPages
MaxRows == limits.maxRows
MaxBytes == limits.maxBytes
loopVars == <<rows, offset, requests, bytes, outcome>>
vars == <<limits, apiVars, loopVars>>

Outcome == {"open", "returned", "failed", "invalid", "too large", "too many rows",
            "too many pages"}

TypeOK ==
  /\ limits \in Limits
  /\ honest \in BOOLEAN
  /\ table \subseteq Row /\ lasting \subseteq table /\ table \subseteq ever
  /\ ever \subseteq Row
  /\ moves \in Nat
  /\ rows \in Seq(Row)
  /\ offset \in Nat /\ offset <= PageSize * requests
  /\ requests \in 0..MaxPages
  /\ bytes \in Nat
  /\ outcome \in Outcome
  /\ outcome = "open" => offset = Len(rows) /\ requests < MaxPages

Init ==
  /\ limits \in Limits
  /\ honest \in BOOLEAN
  /\ table \in IF honest THEN SUBSET Held ELSE {{}}
  /\ \A r, q \in table : r.id = q.id => r = q
  /\ lasting = table /\ ever = table
  /\ moves = 0
  /\ rows = <<>>
  /\ offset = 0 /\ requests = 0 /\ bytes = 0
  /\ outcome = "open"

-----------------------------------------------------------------------------
(* The API: external. *)

\* The order of the rows, and of the checks on them.
Before(q, r) == q.at < r.at \/ (q.at = r.at /\ q.id < r.id)

\* LIMIT PageSize OFFSET offset: identifiers are unique, so that there is one
\* such page.
Ahead(r) == Cardinality({q \in table : Before(q, r)})
Rest == {r \in table : Ahead(r) >= offset}
Served ==
  LET n == IF Cardinality(Rest) < PageSize THEN Cardinality(Rest) ELSE PageSize IN
  {items \in [1..n -> table] : \A i \in 1..n : Ahead(items[i]) = offset + i - 1}

Answers ==
  Served \cup
    (IF honest THEN {} ELSE UNION {[1..n -> Row] : n \in 0..PageSize + 1})

Insert(r) ==
  /\ \A q \in ever : q.id # r.id
  /\ table' = table \cup {r} /\ ever' = ever \cup {r}
  /\ UNCHANGED <<honest, lasting>>

Remove(r) ==
  /\ table' = table \ {r} /\ lasting' = lasting \ {r}
  /\ UNCHANGED <<honest, ever>>

Move ==
  /\ outcome = "open" /\ honest /\ moves < MaxMoves
  /\ (\E r \in Held : Insert(r)) \/ (\E r \in table : Remove(r))
  /\ moves' = moves + 1
  /\ UNCHANGED <<limits, loopVars>>

-----------------------------------------------------------------------------
(* The loop. *)

\* What is checked of the i-th item of a page: organization, seen, previous.
Unchecked(all, i) == all[i].org # Organization
Invalid(all, i) ==
  \/ all[i].org # Organization
  \/ \E j \in 1..i - 1 : all[j].id = all[i].id
  \/ i > 1 /\ ~Before(all[i - 1], all[i])

\* The items are taken one by one; the first that is refused ends the loop.
Refused(all, i) == Invalid(all, i) \/ i > MaxRows
AcceptedTo(all, i) == \A j \in Len(rows) + 1..i : ~Refused(all, j)

PageBytes(items) == Len(items) + 1

Stop(o) == outcome' = o /\ UNCHANGED <<rows, offset>>

\* A full page is followed by a request for the next, a short one is the last.
IsFull(items) == Len(items) <= PageSize
IsEmpty(items) == items = <<>>
IsLast(items) == Len(items) < PageSize
Restarted(items) == Len(items)
Advanced(items) == offset + Len(items)
Accept(items) ==
  /\ rows' = rows \o items
  /\ IF IsLast(items) THEN outcome' = "returned" /\ UNCHANGED offset
     ELSE /\ offset' = Advanced(items)
          /\ outcome' = IF requests' = MaxPages THEN "too many pages" ELSE "open"

Examine(items) ==
  IF bytes' > MaxBytes THEN Stop("too large")
  ELSE IF Len(items) > PageSize THEN Stop("invalid")
  ELSE LET all == rows \o items IN
    \/ AcceptedTo(all, Len(all)) /\ Accept(items)
    \/ \E i \in Len(rows) + 1..Len(all) :
         /\ AcceptedTo(all, i - 1) /\ Refused(all, i)
         /\ Stop(IF Invalid(all, i) THEN "invalid" ELSE "too many rows")

\* One request.  It may fail (no or an unusable answer, 401 to 409, the paging
\* deadline), and the page may echo another limit, offset or snapshot.
Request ==
  /\ outcome = "open"
  /\ requests' = requests + 1
  /\ \/ \E items \in Answers : bytes' = bytes + PageBytes(items) /\ Examine(items)
     \/ UNCHANGED bytes /\ Stop("failed")
     \/ ~honest /\ UNCHANGED bytes /\ Stop("invalid")
  /\ UNCHANGED <<limits, apiVars>>

Next == Request \/ Move

Spec == Init /\ [][Next]_vars

-----------------------------------------------------------------------------
(* Properties. *)

Returned == {rows[i] : i \in 1..Len(rows)}

\* Whatever the API answers, the rows are of the scope's organization, in
\* order, none twice, and no more than allowed: also across pages.
RowsAreSound ==
  /\ \A i \in 1..Len(rows) : rows[i].org = Organization
  /\ \A i, j \in 1..Len(rows) :
       i < j => Before(rows[i], rows[j]) /\ rows[i].id # rows[j].id
  /\ outcome = "returned" => Len(rows) <= MaxRows /\ bytes <= MaxBytes

\* An API that pages its rows honestly gives every row it held all along, unless
\* one was removed meanwhile, and nothing it never held: a row inserted before
\* the offset is noticed and costs none.  Rows that do not move, as the contract
\* has it, are all returned and nothing else is.
NothingLost ==
  outcome = "returned" /\ honest =>
    /\ Returned \subseteq ever
    /\ ever = table => lasting \subseteq Returned
    /\ moves = 0 => Returned = table

\* A result set is refused as too big only if it is: it has more than max_rows
\* rows, fills max_pages pages, or has, with what each requested page takes of
\* itself, more than max_total_bytes.
RefusedOnlyIfTooBig ==
  honest /\ moves = 0 =>
    /\ outcome = "too many rows" => Cardinality(table) > MaxRows
    /\ outcome = "too many pages" => Cardinality(table) >= PageSize * MaxPages
    /\ outcome = "too large" => Cardinality(table) + requests > MaxBytes
    /\ outcome # "invalid"

=============================================================================
