---------------------------- MODULE ArtifactContract ----------------------------
(*****************************************************************************)
(* What ArtifactStore.put_or_verify promises its callers, without requests,  *)
(* races or replies: each snapshot of the job gets one canonical digest, the *)
(* job gets one final object, a copy of the canonical bytes of one snapshot, *)
(* and a call that returns an artifact returns that object's digest.         *)
(* ArtifactStore implements this module in a bucket nobody else writes to;   *)
(* ExportProcessor is built on it.                                           *)
(*****************************************************************************)
CONSTANTS
  Attempt,    \* the calls
  Snapshot,   \* snapshots the job may be claimed at
  Body,       \* artifact bytes, identified with their digest
  Nothing     \* no digest, no object

ASSUME ContractAssumption ==
  Nothing \notin Body /\ Nothing \notin [snapshot : Snapshot, sha256 : Body]

VARIABLES
  canonical,  \* the canonical digest of each snapshot
  final,      \* the final object of the job
  outcome,    \* of each call, "open" until it ends
  returned    \* the artifact it returned, or Nothing

contractVars == <<canonical, final, outcome, returned>>

Artifact == [snapshot : Snapshot, sha256 : Body]

ContractTypeOK ==
  /\ canonical \in [Snapshot -> Body \cup {Nothing}]
  /\ final \in Artifact \cup {Nothing}
  /\ outcome \in [Attempt -> {"open", "stored", "mismatch", "failed"}]
  /\ returned \in [Attempt -> Artifact \cup {Nothing}]

ContractInit ==
  /\ canonical = [s \in Snapshot |-> Nothing]
  /\ final = Nothing
  /\ outcome = [a \in Attempt |-> "open"]
  /\ returned = [a \in Attempt |-> Nothing]

End(a, o, r) ==
  /\ outcome[a] = "open"
  /\ outcome' = [outcome EXCEPT ![a] = o]
  /\ returned' = [returned EXCEPT ![a] = r]

\* The first bytes rendered for a snapshot become its canonical ones.
FixCanonical(s, b) ==
  /\ canonical[s] = Nothing
  /\ canonical' = [canonical EXCEPT ![s] = b]
  /\ UNCHANGED <<final, outcome, returned>>

\* A final object is a copy of canonical bytes, and there is one.
CopyOf(s) == [snapshot |-> s, sha256 |-> canonical[s]]
CreateFinal(s) ==
  /\ canonical[s] # Nothing
  /\ final = Nothing
  /\ final' = CopyOf(s)
  /\ UNCHANGED canonical

\* ... created by a call that fails, or by one whose reply came, or late.
CreateUnanswered(s) == CreateFinal(s) /\ UNCHANGED <<outcome, returned>>
CreateAndReturn(a, s) ==
  /\ CreateFinal(s)
  /\ End(a, "stored", CopyOf(s))

\* The final object exists and is of the call's snapshot: it is returned.
ReturnExisting(a, s) ==
  /\ final # Nothing /\ final.snapshot = s
  /\ End(a, "stored", final)
  /\ UNCHANGED <<canonical, final>>

\* The final object is of another snapshot.
RefuseExisting(a, s) ==
  /\ final # Nothing /\ final.snapshot # s
  /\ End(a, "mismatch", Nothing)
  /\ UNCHANGED <<canonical, final>>

\* The call ends without an answer; what it created stays.
GiveUp(a) ==
  /\ End(a, "failed", Nothing)
  /\ UNCHANGED <<canonical, final>>

ContractNext ==
  \/ \E s \in Snapshot, b \in Body : FixCanonical(s, b)
  \/ \E s \in Snapshot : CreateUnanswered(s)
  \/ \E a \in Attempt, s \in Snapshot :
       CreateAndReturn(a, s) \/ ReturnExisting(a, s) \/ RefuseExisting(a, s)
  \/ \E a \in Attempt : GiveUp(a)

ContractSpec == ContractInit /\ [][ContractNext]_contractVars

=============================================================================
