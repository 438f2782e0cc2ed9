--------------------------- MODULE MCExportProcessor ---------------------------
(* Instances of ExportProcessor for TLC. *)
EXTENDS ExportProcessor, TLC

\* The misaddressed attempt and the unrenderable snapshot stand out; the others
\* are alike, and so are the bodies.
Alike ==
  Permutations(Attempt \ Misaddressed) \cup Permutations(Snapshot \ Unrenderable)
    \cup Permutations(Body)
=============================================================================
