---------------------------- MODULE MCExportSystem ----------------------------
(* Instances of ExportSystem for TLC. *)
EXTENDS ExportSystem, TLC

CONSTANTS p1, p2

None == {}
OnceSecond == {p2}
Alike == Permutations(Body)
=============================================================================
