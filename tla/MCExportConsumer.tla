--------------------------- MODULE MCExportConsumer ---------------------------
(* TLC instances of ExportConsumer. *)
EXTENDS ExportConsumer, TLC

CONSTANTS p1, p2

\* Safety runs may exchange the processes; liveness runs do not.
Symmetry == Permutations(Process)
First == {1}
Second == {2}
None == {}
OnceSecond == {p2}
=============================================================================
