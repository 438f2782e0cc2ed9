---------------------------- MODULE ExportProcessor ----------------------------
(*****************************************************************************)
(* ExportProcessor.process of processor.py, for the events of one export     *)
(* job: several attempts, by several workers or redeliveries, each claims    *)
(* the job at the control API, pages the diagnostics of the snapshot it was  *)
(* given, renders, stores and completes.  The attempts share the API's job   *)
(* record and the object store (the contract of ArtifactStore); they         *)
(* interleave at every request, a request whose reply is lost may be         *)
(* applied later, and any guard or request may end an attempt.               *)
(*****************************************************************************)
EXTENDS ArtifactContract, Integers, FiniteSets

CONSTANTS
  Misaddressed,      \* attempts whose event names another organization
  Unrenderable,      \* snapshots whose export render_export() refuses
  Deletable,         \* TRUE: the job may be deleted at any time
  JobReclaimable,    \* FALSE: the API's contract, one immutable snapshot per
                     \* job; TRUE: it may claim the job again at another one
  MaxInterruptions   \* bound: attempts that a failure ends, in a behaviour

ASSUME ProcessorAssumption ==
  /\ Misaddressed \subseteq Attempt
  /\ Unrenderable \subseteq Snapshot
  /\ Deletable \in BOOLEAN
  /\ JobReclaimable \in BOOLEAN
  /\ MaxInterruptions \in Nat
  /\ Nothing \notin Snapshot

VARIABLES
  job,            \* the API's record: status and the snapshot it is claimed at
  completedWith,  \* the artifact the job was completed with, or Nothing
  late,           \* requests to the API whose reply was lost, not yet applied
  stage,          \* the request each attempt is at
  scope,          \* the snapshot of the scope it works on
  candidate,      \* the bytes it rendered
  verdict,        \* what process() returned
  interruptions   \* how many attempts a failure ended

apiVars == <<job, completedWith>>
attemptVars == <<stage, scope, candidate, verdict>>
faultVars == <<late, interruptions>>
vars == <<contractVars, apiVars, attemptVars, faultVars>>

Status == {"queued", "claimed", "completed", "deleted"}
Stage == {"claim", "claimFetch", "diagnostics", "render", "store", "complete",
          "recover", "done"}
Terminal == {"job_not_found", "scope_mismatch", "export_too_large_or_invalid",
             "existing_object_mismatch", "completion_artifact_mismatch"}
Verdict == {"none", "ack", "transient"} \cup Terminal
Post == [op : {"claim", "complete"}, artifact : Artifact \cup {Nothing}]

TypeOK ==
  /\ ContractTypeOK
  /\ job \in [status : Status, snapshot : Snapshot \cup {Nothing}]
  /\ job.status \in {"claimed", "completed"} => job.snapshot \in Snapshot
  /\ completedWith \in Artifact \cup {Nothing}
  /\ late \subseteq Post
  /\ stage \in [Attempt -> Stage]
  /\ scope \in [Attempt -> Snapshot \cup {Nothing}]
  /\ candidate \in [Attempt -> Body \cup {Nothing}]
  /\ verdict \in [Attempt -> Verdict]
  /\ interruptions \in Nat
  /\ \A a \in Attempt :
       /\ stage[a] \in {"diagnostics", "render", "store", "complete", "recover"}
            => scope[a] \in Snapshot
       /\ stage[a] \in {"complete", "recover"} => returned[a] \in Artifact
       /\ candidate[a] # Nothing => scope[a] \in Snapshot
       /\ verdict[a] = "none" <=> stage[a] # "done"

Init ==
  /\ ContractInit
  /\ job = [status |-> "queued", snapshot |-> Nothing]
  /\ completedWith = Nothing
  /\ late = {}
  /\ stage = [a \in Attempt |-> "claim"]
  /\ scope = [a \in Attempt |-> Nothing]
  /\ candidate = [a \in Attempt |-> Nothing]
  /\ verdict = [a \in Attempt |-> "none"]
  /\ interruptions = 0

Goto(a, s) == stage' = [stage EXCEPT ![a] = s] /\ UNCHANGED verdict
Finish(a, v) ==
  /\ stage' = [stage EXCEPT ![a] = "done"]
  /\ verdict' = [verdict EXCEPT ![a] = v]

-----------------------------------------------------------------------------
(* The control API: external, modelled from the statuses and bodies the      *)
(* client accepts and what the processor does with them.                     *)

\* A queued job is claimed at a snapshot; a claimed one may be given out again,
\* at the snapshot it has or, if JobReclaimable, at a new one.
Claimed(s) ==
  /\ \/ job.status = "queued"
     \/ job.status = "claimed" /\ (JobReclaimable \/ job.snapshot = s)
  /\ job' = [status |-> "claimed", snapshot |-> s]
  /\ UNCHANGED completedWith

\* 409: it was claimed or completed before.
ClaimConflicts == job.status \in {"claimed", "completed"}

\* A claimed job is completed at its snapshot.
Completed(art) ==
  /\ job.status = "claimed" /\ job.snapshot = art.snapshot
  /\ job' = [job EXCEPT !.status = "completed"]
  /\ completedWith' = art

\* Completing again with the same artifact may be accepted.
AlreadyCompleted(art) == job.status = "completed" /\ completedWith = art

\* 409 to a completion: completed before, or claimed at another snapshot.
CompletionConflicts(art) ==
  \/ job.status \in {"queued", "completed"}
  \/ job.status = "claimed" /\ job.snapshot # art.snapshot

Delete ==
  /\ Deletable /\ job.status # "deleted"
  /\ job' = [job EXCEPT !.status = "deleted"]
  /\ UNCHANGED <<completedWith, contractVars, attemptVars, faultVars>>

-----------------------------------------------------------------------------
(* process(). *)

\* _matches() and the status of a scope obtained by claim or fetch.
WorkOn(a, s) ==
  /\ scope' = [scope EXCEPT ![a] = s]
  /\ IF a \in Misaddressed THEN Finish(a, "scope_mismatch") ELSE Goto(a, "diagnostics")

\* The claim; a conflict is no failure, the scope is then fetched.
ConflictIsFinal(a) == Finish(a, "transient")
SkipFetch(a) == Goto(a, "diagnostics")
FetchAfterConflict(a) == Goto(a, "claimFetch")
Claim(a) ==
  /\ stage[a] = "claim"
  /\ \/ \E s \in Snapshot : Claimed(s) /\ WorkOn(a, s)
     \/ /\ ClaimConflicts
        /\ FetchAfterConflict(a) /\ UNCHANGED <<apiVars, scope>>
     \/ /\ job.status = "deleted"
        /\ Finish(a, "job_not_found") /\ UNCHANGED <<apiVars, scope>>
  /\ UNCHANGED <<contractVars, candidate, faultVars>>

\* A completed job needs no more work: the event is acknowledged.
ClaimFetch(a) ==
  /\ stage[a] = "claimFetch"
  /\ \/ job.status = "claimed" /\ WorkOn(a, job.snapshot)
     \/ /\ job.status = "completed"
        /\ Finish(a, IF a \in Misaddressed THEN "scope_mismatch" ELSE "ack")
        /\ UNCHANGED scope
     \/ job.status = "deleted" /\ Finish(a, "job_not_found") /\ UNCHANGED scope
  /\ UNCHANGED <<contractVars, apiVars, candidate, faultVars>>

\* The pages of the scope's snapshot; 409 when the API no longer serves it.
Diagnostics(a) ==
  /\ stage[a] = "diagnostics"
  /\ \/ job.status \in {"claimed", "completed"} /\ Goto(a, "render")
     \/ job.snapshot # scope[a] /\ Finish(a, "transient")
     \/ job.status = "deleted" /\ Finish(a, "job_not_found")
  /\ UNCHANGED <<contractVars, apiVars, scope, candidate, faultVars>>

\* Workers of different versions may render different bytes.
Render(a) ==
  /\ stage[a] = "render"
  /\ IF scope[a] \in Unrenderable
     THEN Finish(a, "export_too_large_or_invalid") /\ UNCHANGED candidate
     ELSE \E b \in Body : /\ candidate' = [candidate EXCEPT ![a] = b]
                          /\ Goto(a, "store")
  /\ UNCHANGED <<contractVars, apiVars, scope, faultVars>>

\* put_or_verify(), as its contract has it.
Canonicalize(a) ==
  /\ stage[a] = "store"
  /\ FixCanonical(scope[a], candidate[a])
  /\ UNCHANGED <<apiVars, attemptVars, faultVars>>

Store(a) ==
  /\ stage[a] = "store"
  /\ \/ /\ CreateAndReturn(a, scope[a]) \/ ReturnExisting(a, scope[a])
        /\ Goto(a, "complete")
     \/ RefuseExisting(a, scope[a]) /\ Finish(a, "existing_object_mismatch")
  /\ UNCHANGED <<apiVars, scope, candidate, faultVars>>

\* The completion reports what the store returned, not what was rendered.
ReportCandidate(a) == [snapshot |-> scope[a], sha256 |-> candidate[a]]
Report(a) == [snapshot |-> scope[a], sha256 |-> returned[a].sha256]
Complete(a) ==
  /\ stage[a] = "complete"
  /\ \/ Completed(Report(a)) /\ Finish(a, "ack")
     \/ AlreadyCompleted(Report(a)) /\ Finish(a, "ack") /\ UNCHANGED apiVars
     \/ CompletionConflicts(Report(a)) /\ Goto(a, "recover") /\ UNCHANGED apiVars
     \/ /\ job.status = "deleted"
        /\ Finish(a, "job_not_found") /\ UNCHANGED apiVars
  /\ UNCHANGED <<contractVars, scope, candidate, faultVars>>

\* _completion_recovery(): the event is acknowledged only if the job is
\* completed with this attempt's artifact.
TrustConflict(a) == "ack"
Recovered(a) ==
  CASE job.status = "deleted" -> "job_not_found"
    [] job.status \in {"claimed", "completed"} /\ job.snapshot # scope[a]
         -> "scope_mismatch"
    [] job.status = "completed" /\ job.snapshot = scope[a] /\ completedWith # Report(a)
         -> "completion_artifact_mismatch"
    [] job.status = "completed" /\ job.snapshot = scope[a] /\ completedWith = Report(a)
         -> "ack"
    [] OTHER -> "transient"
Recover(a) ==
  /\ stage[a] = "recover"
  /\ Finish(a, Recovered(a))
  /\ UNCHANGED <<contractVars, apiVars, scope, candidate, faultVars>>

-----------------------------------------------------------------------------
(* Failures. *)

\* The request the attempt has in hand, for the API.
Sent(a) ==
  CASE stage[a] = "claim" -> {[op |-> "claim", artifact |-> Nothing]}
    [] stage[a] = "complete" -> {[op |-> "complete", artifact |-> Report(a)]}
    [] OTHER -> {}

\* _guard() finds the deadline near, the lease lost or Redis silent; a request
\* fails or its response is malformed; the store is unavailable; or the worker
\* dies.  The POST or the PUT it had sent may be applied later.
Interrupt(a) ==
  /\ stage[a] # "done"
  /\ interruptions < MaxInterruptions
  /\ interruptions' = interruptions + 1
  /\ Finish(a, "transient")
  /\ late' = late \/ \E r \in Sent(a) : late' = late \cup {r}
  /\ IF stage[a] = "store" THEN GiveUp(a) ELSE UNCHANGED contractVars
  /\ UNCHANGED <<apiVars, scope, candidate>>

LatePut(a) ==
  /\ verdict[a] = "transient" /\ candidate[a] # Nothing
  /\ FixCanonical(scope[a], candidate[a]) \/ CreateUnanswered(scope[a])
  /\ UNCHANGED <<apiVars, attemptVars, faultVars>>

LatePost(r) ==
  /\ late' = late \ {r}
  /\ \/ r.op = "claim" /\ \E s \in Snapshot : Claimed(s)
     \/ r.op = "complete" /\ Completed(r.artifact)
     \/ UNCHANGED apiVars
  /\ UNCHANGED <<contractVars, attemptVars, interruptions>>

-----------------------------------------------------------------------------
Step(a) ==
  \/ Claim(a) \/ ClaimFetch(a) \/ Diagnostics(a) \/ Render(a)
  \/ Canonicalize(a) \/ Store(a) \/ Complete(a) \/ Recover(a)

Next ==
  \/ \E a \in Attempt : Step(a) \/ Interrupt(a) \/ LatePut(a)
  \/ \E r \in late : LatePost(r)
  \/ Delete

Spec == Init /\ [][Next]_vars

\* An attempt that is not interrupted goes on.
FairSpec == Spec /\ \A a \in Attempt : WF_vars(Step(a))

-----------------------------------------------------------------------------
(* Properties. *)

\* The job is completed with the digest of the object under its final key:
\* never with that of bytes that lost a race or were only rendered.
CompletedIsStored ==
  completedWith # Nothing => completedWith = final

\* An event is acknowledged only when the job is completed.
AckOnlyWhenCompleted ==
  \A a \in Attempt : verdict[a] = "ack" => completedWith # Nothing

\* An event is dead-lettered by the processor only for a cause outside the
\* races of the workers: the job was deleted, the event or the snapshot is
\* wrong, or the job moved on to another snapshot.  Racing attempts and lost
\* replies alone never make a verdict terminal, and two artifacts of one
\* snapshot never conflict.
Cause(a) ==
  CASE verdict[a] = "job_not_found" -> job.status = "deleted"
    [] verdict[a] = "scope_mismatch" -> a \in Misaddressed \/ JobReclaimable
    [] verdict[a] = "export_too_large_or_invalid" -> scope[a] \in Unrenderable
    [] verdict[a] = "existing_object_mismatch" ->
         JobReclaimable /\ final # Nothing /\ final.snapshot # scope[a]
    [] verdict[a] = "completion_artifact_mismatch" -> FALSE
TerminalHasCause ==
  \A a \in Attempt : verdict[a] \in Terminal => Cause(a)

\* If one attempt more is made than failures interrupt, the job is completed,
\* also when an earlier attempt claimed it and died, or its completion was
\* applied after its reply was lost.
EventuallyCompleted == <>(completedWith # Nothing)

=============================================================================
