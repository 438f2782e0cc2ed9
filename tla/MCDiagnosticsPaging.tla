-------------------------- MODULE MCDiagnosticsPaging --------------------------
(* Instances of DiagnosticsPaging for TLC. *)
EXTENDS DiagnosticsPaging

R(at, id, org) == [at |-> at, id |-> id, org |-> org]

\* Six rows of the organization, some written at the same time.
Ours == {R(1, 2, "us"), R(1, 4, "us"), R(2, 1, "us"), R(2, 5, "us"),
         R(3, 3, "us"), R(3, 6, "us")}
\* Few rows allowed, few pages, or few bytes.
Bounds(p, r, b) == [pageSize |-> 2, maxPages |-> p, maxRows |-> r, maxBytes |-> b]
Each == {Bounds(3, 4, 9), Bounds(2, 6, 9), Bounds(4, 6, 8)}

\* ... and some that should not be among them: of another organization, or with
\* an identifier used before.
Mixed == Ours \cup {R(1, 1, "them"), R(2, 2, "us"), R(3, 1, "us")}
=============================================================================
