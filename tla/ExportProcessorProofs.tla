-------------------------- MODULE ExportProcessorProofs --------------------------
(*****************************************************************************)
(* Proofs about ExportProcessor for any attempts, snapshots, bodies and any  *)
(* number of interruptions.                                                  *)
(*                                                                           *)
(* The final object is created once and never replaced, so what an attempt   *)
(* was given by the store, and every completion it reports, stays the digest *)
(* of that object.  If the job is never claimed again at another snapshot,   *)
(* every scope, and so the final object, is of the job's snapshot.           *)
(*****************************************************************************)
EXTENDS ExportProcessor, TLAPS

\* What the store returned is the final object, and of the attempt's snapshot.
ReturnedIsFinal ==
  \A a \in Attempt : returned[a] # Nothing =>
    /\ returned[a] = final /\ returned[a].snapshot = scope[a]
    /\ stage[a] \notin {"claim", "claimFetch"}

\* So is what a completion on its way will report.
LateIsFinal ==
  \A r \in late : r.op = "complete" => r.artifact = final /\ final # Nothing

CompletedHasArtifact == job.status = "completed" => completedWith # Nothing

\* Nothing is under way for a queued job; afterwards, unless the job is
\* claimed again, everything is of its one snapshot.
QueuedIsFresh ==
  job.status = "queued" =>
    final = Nothing /\ \A a \in Attempt : scope[a] = Nothing
OneSnapshot ==
  ~JobReclaimable =>
    /\ final # Nothing => final.snapshot = job.snapshot
    /\ \A a \in Attempt : scope[a] # Nothing => scope[a] = job.snapshot

IInv ==
  /\ TypeOK
  /\ ReturnedIsFinal
  /\ LateIsFinal
  /\ CompletedHasArtifact
  /\ QueuedIsFresh
  /\ OneSnapshot
  /\ CompletedIsStored
  /\ AckOnlyWhenCompleted
  /\ TerminalHasCause
USE ContractAssumption, ProcessorAssumption DEF ContractAssumption, ProcessorAssumption

LEMMA TypeInit == Init => TypeOK
  BY DEF Init, TypeOK, ContractInit, ContractTypeOK, Status, Stage, Verdict

LEMMA TypeStep ==
  ASSUME TypeOK, Next
  PROVE  TypeOK'
<1> USE DEF TypeOK, ContractTypeOK, Goto, Finish, apiVars, attemptVars, faultVars,
            contractVars, Status, Stage, Verdict, Terminal
<1>1. ASSUME NEW a \in Attempt, Claim(a) PROVE TypeOK'
  BY <1>1 DEF Claim, Claimed, WorkOn, FetchAfterConflict
<1>2. ASSUME NEW a \in Attempt, ClaimFetch(a) PROVE TypeOK'
  BY <1>2 DEF ClaimFetch, WorkOn
<1>3. ASSUME NEW a \in Attempt, Diagnostics(a) PROVE TypeOK'
  BY <1>3 DEF Diagnostics
<1>4. ASSUME NEW a \in Attempt, Render(a) PROVE TypeOK'
  BY <1>4 DEF Render
<1>5. ASSUME NEW a \in Attempt, Canonicalize(a) PROVE TypeOK'
  BY <1>5 DEF Canonicalize, FixCanonical
<1>6. ASSUME NEW a \in Attempt, Store(a) PROVE TypeOK'
  <2>1. CASE CreateAndReturn(a, scope[a]) /\ Goto(a, "complete")
    <3>1. CopyOf(scope[a]) \in Artifact
      BY <1>6, <2>1 DEF Store, CreateAndReturn, CreateFinal, CopyOf, Artifact
    <3>2. QED
      BY <1>6, <2>1, <3>1 DEF Store, CreateAndReturn, CreateFinal, End
  <2>2. CASE ReturnExisting(a, scope[a]) /\ Goto(a, "complete")
    BY <1>6, <2>2 DEF Store, ReturnExisting, End
  <2>3. CASE RefuseExisting(a, scope[a]) /\ Finish(a, "existing_object_mismatch")
    BY <1>6, <2>3 DEF Store, RefuseExisting, End
  <2>4. QED
    BY <1>6, <2>1, <2>2, <2>3 DEF Store
<1>7. ASSUME NEW a \in Attempt, Complete(a) PROVE TypeOK'
  BY <1>7 DEF Complete, Completed, AlreadyCompleted, CompletionConflicts, Report, Artifact
<1>8. ASSUME NEW a \in Attempt, Recover(a) PROVE TypeOK'
  BY <1>8 DEF Recover, Recovered
<1>9. ASSUME NEW a \in Attempt, Interrupt(a) PROVE TypeOK'
  <2>1. Sent(a) \subseteq Post
    BY <1>9 DEF Sent, Post, Report, Artifact
  <2>2. late' \subseteq Post
    BY <1>9, <2>1 DEF Interrupt
  <2>3. QED
    BY <1>9, <2>2 DEF Interrupt, GiveUp, End
<1>10. ASSUME NEW a \in Attempt, LatePut(a) PROVE TypeOK'
  <2>1. CASE FixCanonical(scope[a], candidate[a])
    BY <1>10, <2>1 DEF LatePut, FixCanonical
  <2>2. CASE CreateUnanswered(scope[a])
    <3>1. CopyOf(scope[a]) \in Artifact
      BY <1>10, <2>2 DEF LatePut, CreateUnanswered, CreateFinal, CopyOf, Artifact
    <3>2. QED
      BY <1>10, <2>2, <3>1 DEF LatePut, CreateUnanswered, CreateFinal
  <2>3. QED
    BY <1>10, <2>1, <2>2 DEF LatePut
<1>11. ASSUME NEW r \in late, LatePost(r) PROVE TypeOK'
  <2>1. r.artifact \in Artifact \cup {Nothing}
    BY DEF Post
  <2>2. CASE r.op = "claim" /\ \E s \in Snapshot : Claimed(s)
    BY <1>11, <2>2 DEF LatePost, Claimed
  <2>3. CASE r.op = "complete" /\ Completed(r.artifact)
    BY <1>11, <2>1, <2>3 DEF LatePost, Completed
  <2>4. QED
    BY <1>11, <2>2, <2>3 DEF LatePost
<1>12. ASSUME Delete PROVE TypeOK'
  BY <1>12 DEF Delete
<1>13. QED
  BY <1>1, <1>2, <1>3, <1>4, <1>5, <1>6, <1>7, <1>8, <1>9, <1>10, <1>11, <1>12
     DEF Next, Step
-----------------------------------------------------------------------------
(* What a step may do to the final object, the completion and the job. *)

WriteOnce ==
  /\ final # Nothing => final' = final
  /\ completedWith # Nothing => completedWith' = completedWith
  /\ job.status = "deleted" => job' = job

LEMMA WriteOnceStep ==
  ASSUME TypeOK, CompletedHasArtifact, CompletedIsStored, LateIsFinal, ReturnedIsFinal, Next
  PROVE  WriteOnce
<1> USE DEF WriteOnce, TypeOK, apiVars, contractVars
<1>1. ASSUME NEW a \in Attempt, Claim(a) PROVE WriteOnce
  BY <1>1 DEF Claim, Claimed
<1>2. ASSUME NEW a \in Attempt, ClaimFetch(a) \/ Diagnostics(a) \/ Render(a) \/ Recover(a)
      PROVE WriteOnce
  BY <1>2 DEF ClaimFetch, Diagnostics, Render, Recover
<1>3. ASSUME NEW a \in Attempt, Canonicalize(a) \/ Store(a) \/ LatePut(a) PROVE WriteOnce
  BY <1>3 DEF Canonicalize, FixCanonical, Store, LatePut, CreateAndReturn, CreateUnanswered,
              CreateFinal, ReturnExisting, RefuseExisting, attemptVars, faultVars
<1>4. ASSUME NEW a \in Attempt, Complete(a) PROVE WriteOnce
  <2>1. returned[a] = final /\ Report(a) = final
    BY <1>4 DEF Complete, ReturnedIsFinal, Report, Artifact
  <2>2. QED
    BY <1>4, <2>1 DEF Complete, Completed, CompletedIsStored
<1>5. ASSUME NEW a \in Attempt, Interrupt(a) PROVE WriteOnce
  BY <1>5 DEF Interrupt, GiveUp
<1>6. ASSUME NEW r \in late, LatePost(r) PROVE WriteOnce
  BY <1>6 DEF LatePost, Claimed, Completed, LateIsFinal, CompletedIsStored
<1>7. ASSUME Delete PROVE WriteOnce
  BY <1>7 DEF Delete
<1>8. QED
  BY <1>1, <1>2, <1>3, <1>4, <1>5, <1>6, <1>7 DEF Next, Step

-----------------------------------------------------------------------------
(* What attempts and the API know of the final object. *)

StoreFacts ==
  ReturnedIsFinal /\ LateIsFinal /\ CompletedHasArtifact /\ CompletedIsStored

LEMMA ReportIsFinal ==
  ASSUME TypeOK, StoreFacts, NEW a \in Attempt, stage[a] \in {"complete", "recover"}
  PROVE  Report(a) = final /\ final # Nothing
  BY DEF TypeOK, StoreFacts, ReturnedIsFinal, Report, Artifact

LEMMA StoreFactsStep ==
  ASSUME TypeOK, StoreFacts, Next
  PROVE  StoreFacts'
<1> USE DEF TypeOK, ContractTypeOK, apiVars, contractVars, StoreFacts, ReturnedIsFinal,
            LateIsFinal, CompletedHasArtifact, CompletedIsStored
<1>0. WriteOnce
  BY WriteOnceStep
<1>1. ASSUME NEW a \in Attempt, Claim(a) PROVE StoreFacts'
  <2>1. UNCHANGED <<final, returned, late, completedWith>> /\ returned[a] = Nothing
    BY <1>1 DEF Claim, Claimed, faultVars
  <2>2. CompletedHasArtifact'
    BY <1>1 DEF Claim, Claimed
  <2>3. ReturnedIsFinal'
    BY <1>1, <2>1 DEF Claim, WorkOn, Goto, Finish, FetchAfterConflict
  <2>4. QED
    BY <2>1, <2>2, <2>3
<1>2. ASSUME NEW a \in Attempt, ClaimFetch(a) PROVE StoreFacts'
  <2>1. UNCHANGED <<final, returned, late, completedWith, job>> /\ returned[a] = Nothing
    BY <1>2 DEF ClaimFetch, faultVars
  <2>2. QED
    BY <1>2, <2>1 DEF ClaimFetch, WorkOn, Goto, Finish
<1>3. ASSUME NEW a \in Attempt, Diagnostics(a) \/ Render(a) \/ Recover(a)
      PROVE StoreFacts'
  <2>1. UNCHANGED <<final, returned, late, completedWith, job, scope>>
    BY <1>3 DEF Diagnostics, Render, Recover, faultVars
  <2>2. stage[a] \notin {"claim", "claimFetch"}
    BY <1>3 DEF Diagnostics, Render, Recover
  <2>3. \A b \in Attempt : stage'[b] \in {"claim", "claimFetch"} => stage'[b] = stage[b]
    BY <1>3 DEF Diagnostics, Render, Recover, Goto, Finish
  <2>4. QED
    BY <2>1, <2>3
<1>4. ASSUME NEW a \in Attempt, Canonicalize(a) PROVE StoreFacts'
  BY <1>4 DEF Canonicalize, FixCanonical, attemptVars, faultVars
<1>5. ASSUME NEW a \in Attempt, LatePut(a) PROVE StoreFacts'
  BY <1>0, <1>5 DEF WriteOnce, LatePut, FixCanonical, CreateUnanswered, CreateFinal,
                    attemptVars, faultVars
<1>6. ASSUME NEW a \in Attempt, Store(a) PROVE StoreFacts'
  <2>1. UNCHANGED <<late, completedWith, job, scope>>
    BY <1>6 DEF Store, faultVars
  <2>2. \A b \in Attempt : stage'[b] \in {"claim", "claimFetch"} => stage'[b] = stage[b]
    BY <1>6 DEF Store, Goto, Finish
  <2>3. \/ returned' = [returned EXCEPT ![a] = final'] /\ final'.snapshot = scope[a]
        \/ returned' = [returned EXCEPT ![a] = Nothing]
    BY <1>6 DEF Store, CreateAndReturn, CreateFinal, CopyOf, ReturnExisting,
                RefuseExisting, End
  <2>4. stage'[a] \notin {"claim", "claimFetch"}
    BY <1>6 DEF Store, Goto, Finish
  <2>5. ReturnedIsFinal'
    BY <1>0, <2>1, <2>2, <2>3, <2>4 DEF WriteOnce
  <2>6. QED
    BY <1>0, <2>1, <2>5 DEF WriteOnce
<1>7. ASSUME NEW a \in Attempt, Complete(a) PROVE StoreFacts'
  <2>1. UNCHANGED <<final, returned, late, scope>> /\ Report(a) = final /\ final # Nothing
    BY <1>7, ReportIsFinal DEF Complete, faultVars
  <2>2. CompletedHasArtifact' /\ CompletedIsStored'
    BY <1>7, <2>1 DEF Complete, Completed
  <2>3. ReturnedIsFinal'
    BY <1>7, <2>1 DEF Complete, Goto, Finish
  <2>4. QED
    BY <2>1, <2>2, <2>3
<1>8. ASSUME NEW a \in Attempt, Interrupt(a) PROVE StoreFacts'
  <2>1. UNCHANGED <<final, completedWith, job, scope>>
    BY <1>8 DEF Interrupt, GiveUp
  <2>2. returned' = returned \/ returned' = [returned EXCEPT ![a] = Nothing]
    BY <1>8 DEF Interrupt, GiveUp, End
  <2>3. \A b \in Attempt : stage'[b] \in {"claim", "claimFetch"} => stage'[b] = stage[b]
    BY <1>8 DEF Interrupt, Finish
  <2>4. \A r \in Sent(a) : r.op = "complete" => r.artifact = final /\ final # Nothing
    BY ReportIsFinal DEF Sent
  <2>5. LateIsFinal'
    BY <1>8, <2>1, <2>4 DEF Interrupt
  <2>6. ReturnedIsFinal'
    BY <2>1, <2>2, <2>3
  <2>7. QED
    BY <2>1, <2>5, <2>6
<1>9. ASSUME NEW r \in late, LatePost(r) PROVE StoreFacts'
  <2>1. UNCHANGED <<final, returned, scope, stage>>
    BY <1>9 DEF LatePost, attemptVars
  <2>2. LateIsFinal'
    BY <1>9, <2>1 DEF LatePost
  <2>3. CompletedHasArtifact' /\ CompletedIsStored'
    BY <1>9, <2>1 DEF LatePost, Claimed, Completed
  <2>4. QED
    BY <2>1, <2>2, <2>3
<1>10. ASSUME Delete PROVE StoreFacts'
  BY <1>10 DEF Delete, attemptVars, faultVars
<1>11. QED
  BY <1>1, <1>2, <1>3, <1>4, <1>5, <1>6, <1>7, <1>8, <1>9, <1>10 DEF Next, Step
-----------------------------------------------------------------------------
(* The snapshots of the scopes and of the final object. *)

SnapshotFacts == QueuedIsFresh /\ OneSnapshot

LEMMA SnapshotFactsStep ==
  ASSUME TypeOK, StoreFacts, SnapshotFacts, Next
  PROVE  SnapshotFacts'
<1> USE DEF TypeOK, ContractTypeOK, apiVars, contractVars, SnapshotFacts, QueuedIsFresh,
            OneSnapshot
<1>1. ASSUME NEW a \in Attempt, Claim(a) PROVE SnapshotFacts'
  <2>1. UNCHANGED final
    BY <1>1 DEF Claim
  <2>2. ASSUME NEW s \in Snapshot, Claimed(s), scope' = [scope EXCEPT ![a] = s]
        PROVE  SnapshotFacts'
    BY <2>1, <2>2 DEF Claimed
  <2>3. QED
    BY <1>1, <2>1, <2>2 DEF Claim, WorkOn
<1>2. ASSUME NEW a \in Attempt, ClaimFetch(a) PROVE SnapshotFacts'
  BY <1>2 DEF ClaimFetch, WorkOn
<1>3. ASSUME NEW a \in Attempt, Diagnostics(a) \/ Render(a) \/ Recover(a)
      PROVE SnapshotFacts'
  BY <1>3 DEF Diagnostics, Render, Recover
<1>4. ASSUME NEW a \in Attempt, Canonicalize(a) \/ Store(a) \/ LatePut(a)
      PROVE SnapshotFacts'
  <2>1. UNCHANGED <<job, scope>> /\ scope[a] \in Snapshot
    BY <1>4 DEF Canonicalize, Store, LatePut, attemptVars
  <2>2. final' = final \/ final'.snapshot = scope[a]
    BY <1>4 DEF Canonicalize, Store, LatePut, FixCanonical, CreateAndReturn,
                CreateUnanswered, CreateFinal, CopyOf, ReturnExisting, RefuseExisting
  <2>3. job.status # "queued"
    BY <2>1
  <2>4. QED
    BY <2>1, <2>2, <2>3
<1>5. ASSUME NEW a \in Attempt, Complete(a) PROVE SnapshotFacts'
  BY <1>5 DEF Complete, Completed
<1>6. ASSUME NEW a \in Attempt, Interrupt(a) PROVE SnapshotFacts'
  BY <1>6 DEF Interrupt, GiveUp
<1>7. ASSUME NEW r \in late, LatePost(r) PROVE SnapshotFacts'
  BY <1>7 DEF LatePost, Claimed, Completed, attemptVars
<1>8. ASSUME Delete PROVE SnapshotFacts'
  BY <1>8 DEF Delete, attemptVars
<1>9. QED
  BY <1>1, <1>2, <1>3, <1>4, <1>5, <1>6, <1>7, <1>8 DEF Next, Step

-----------------------------------------------------------------------------
(* How attempts end. *)

Ended(a) ==
  /\ verdict[a] = "ack" => completedWith # Nothing
  /\ verdict[a] \in Terminal => Cause(a)

\* What an attempt ended with stays justified while others go on.
LEMMA EndedStays ==
  ASSUME TypeOK, WriteOnce, NEW a \in Attempt, Ended(a),
         verdict'[a] = verdict[a], scope'[a] = scope[a]
  PROVE  Ended(a)'
  BY DEF Ended, WriteOnce, Cause, Terminal, TypeOK, ContractTypeOK

\* A step of a leaves the other attempts alone.
LEMMA OthersEnded ==
  ASSUME TypeOK, WriteOnce, NEW a \in Attempt, \A b \in Attempt : Ended(b), Ended(a)',
         \A b \in Attempt \ {a} : verdict'[b] = verdict[b] /\ scope'[b] = scope[b]
  PROVE  \A b \in Attempt : Ended(b)'
  BY EndedStays

LEMMA EndedStep ==
  ASSUME TypeOK, StoreFacts, SnapshotFacts, \A a \in Attempt : Ended(a), Next
  PROVE  \A a \in Attempt : Ended(a)'
<1>0. WriteOnce
  BY WriteOnceStep DEF StoreFacts
<1>1. ASSUME NEW a \in Attempt, Step(a) \/ Interrupt(a) \/ LatePut(a)
      PROVE  \A b \in Attempt \ {a} : verdict'[b] = verdict[b] /\ scope'[b] = scope[b]
  BY <1>1 DEF Step, Claim, ClaimFetch, Diagnostics, Render, Canonicalize, Store, Complete,
              Recover, Interrupt, LatePut, WorkOn, FetchAfterConflict, Goto, Finish,
              attemptVars, TypeOK
<1> USE DEF TypeOK, ContractTypeOK, apiVars, Ended, Terminal, Cause, Finish, Goto
<1>2. ASSUME NEW a \in Attempt, Claim(a) PROVE Ended(a)'
  BY <1>2 DEF Claim, WorkOn, FetchAfterConflict
<1>3. ASSUME NEW a \in Attempt, ClaimFetch(a) PROVE Ended(a)'
  BY <1>3 DEF ClaimFetch, WorkOn, StoreFacts, CompletedHasArtifact
<1>4. ASSUME NEW a \in Attempt, Diagnostics(a) PROVE Ended(a)'
  BY <1>4 DEF Diagnostics
<1>5. ASSUME NEW a \in Attempt, Render(a) PROVE Ended(a)'
  BY <1>5 DEF Render
<1>6. ASSUME NEW a \in Attempt, Canonicalize(a) \/ LatePut(a) PROVE Ended(a)'
  BY <1>0, <1>6, EndedStays DEF Canonicalize, LatePut, attemptVars
<1>7. ASSUME NEW a \in Attempt, Store(a) PROVE Ended(a)'
  <2>1. CASE RefuseExisting(a, scope[a]) /\ Finish(a, "existing_object_mismatch")
    BY <1>7, <2>1 DEF Store, RefuseExisting, SnapshotFacts, OneSnapshot
  <2>2. CASE Goto(a, "complete")
    BY <1>7, <2>2 DEF Store
  <2>3. QED
    BY <1>7, <2>1, <2>2 DEF Store
<1>8. ASSUME NEW a \in Attempt, Complete(a) PROVE Ended(a)'
  BY <1>8, ReportIsFinal DEF Complete, Completed, AlreadyCompleted
<1>9. ASSUME NEW a \in Attempt, Recover(a) PROVE Ended(a)'
  <2>1. Report(a) = final /\ final # Nothing
    BY <1>9, ReportIsFinal DEF Recover
  <2>2. QED
    BY <1>9, <2>1 DEF Recover, Recovered, StoreFacts, CompletedHasArtifact,
                      CompletedIsStored, SnapshotFacts, OneSnapshot
<1>10. ASSUME NEW a \in Attempt, Interrupt(a) PROVE Ended(a)'
  BY <1>10 DEF Interrupt
<1>11. ASSUME NEW r \in late, LatePost(r) PROVE \A b \in Attempt : Ended(b)'
  BY <1>0, <1>11, EndedStays DEF LatePost, attemptVars
<1>12. ASSUME Delete PROVE \A b \in Attempt : Ended(b)'
  BY <1>0, <1>12, EndedStays DEF Delete, attemptVars
<1>13. ASSUME NEW a \in Attempt, Step(a) \/ Interrupt(a) \/ LatePut(a)
       PROVE  \A b \in Attempt : Ended(b)'
  <2>1. Ended(a)'
    BY <1>2, <1>3, <1>4, <1>5, <1>6, <1>7, <1>8, <1>9, <1>10, <1>13 DEF Step
  <2>2. QED
    BY <1>0, <1>1, <1>13, <2>1, OthersEnded
<1>14. QED
  BY <1>11, <1>12, <1>13 DEF Next
-----------------------------------------------------------------------------
(* The theorems. *)

LEMMA Initially == Init => IInv
  BY TypeInit DEF IInv, Init, ContractInit, ReturnedIsFinal, LateIsFinal,
                  CompletedHasArtifact, QueuedIsFresh, OneSnapshot, CompletedIsStored,
                  AckOnlyWhenCompleted, TerminalHasCause, Terminal

LEMMA Stutters ==
  ASSUME IInv, UNCHANGED vars
  PROVE  IInv'
  BY DEF IInv, vars, contractVars, apiVars, attemptVars, faultVars, TypeOK, ContractTypeOK,
         ReturnedIsFinal, LateIsFinal, CompletedHasArtifact, QueuedIsFresh, OneSnapshot,
         CompletedIsStored, AckOnlyWhenCompleted, TerminalHasCause, Cause

LEMMA Inductive ==
  ASSUME IInv, [Next]_vars
  PROVE  IInv'
<1>1. CASE Next
  <2>1. TypeOK /\ StoreFacts /\ SnapshotFacts /\ \A a \in Attempt : Ended(a)
    BY DEF IInv, StoreFacts, SnapshotFacts, Ended, AckOnlyWhenCompleted, TerminalHasCause
  <2>2. TypeOK' /\ StoreFacts' /\ SnapshotFacts' /\ \A a \in Attempt : Ended(a)'
    BY <1>1, <2>1, TypeStep, StoreFactsStep, SnapshotFactsStep, EndedStep
  <2>3. QED
    BY <2>2 DEF IInv, StoreFacts, SnapshotFacts, Ended, AckOnlyWhenCompleted,
                TerminalHasCause
<1>2. CASE UNCHANGED vars
  BY <1>2, Stutters
<1>3. QED
  BY <1>1, <1>2

\* process(): every reachable state of the attempts, the API's job and the
\* store satisfies the inductive invariant.
THEOREM Invariance == Spec => []IInv
<1>1. Init => IInv
  BY Initially
<1>2. IInv /\ [Next]_vars => IInv'
  BY Inductive
<1>3. QED
  BY <1>1, <1>2, PTL DEF Spec

\* An attempt has a scope from the claim on, an artifact from the store on,
\* and a verdict exactly when it has ended.
THEOREM TypeCorrect == Spec => []TypeOK
<1>1. IInv => TypeOK
  BY DEF IInv
<1>2. QED
  BY <1>1, Invariance, PTL

\* However attempts interleave and replies are lost, complete() is only ever
\* applied with the digest of the object under the job's final key.
THEOREM CompletionTheorem == Spec => []CompletedIsStored
<1>1. IInv => CompletedIsStored
  BY DEF IInv
<1>2. QED
  BY <1>1, Invariance, PTL

\* process() returns "ack" only when the job is completed.
THEOREM AckTheorem == Spec => []AckOnlyWhenCompleted
<1>1. IInv => AckOnlyWhenCompleted
  BY DEF IInv
<1>2. QED
  BY <1>1, Invariance, PTL

\* process() returns "terminal" only for a deleted job, a wrong event, an
\* export that cannot be rendered or a job claimed again at another snapshot.
THEOREM TerminalTheorem == Spec => []TerminalHasCause
<1>1. IInv => TerminalHasCause
  BY DEF IInv
<1>2. QED
  BY <1>1, Invariance, PTL

=============================================================================
