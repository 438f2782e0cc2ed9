----------------------------- MODULE ExportSystem -----------------------------
(*****************************************************************************)
(* The workers composed: ExportConsumer's processes over one Redis group,    *)
(* each of whose calls of process() is an attempt of ExportProcessor at the  *)
(* one job all entries ask for.  Here the lease and the requests meet: every *)
(* phase (a request to the API, all pages of the diagnostics, the rendering, *)
(* or what the store is asked up to and including one PUT) follows a renewal *)
(* of its own, a renewal that is refused ends the attempt, and what          *)
(* process() returned decides what is settled.  A step of the system is a    *)
(* step of the consumers, of the attempts, or of both.                       *)
(*****************************************************************************)
EXTENDS ExportConsumer

CONSTANTS
  Snapshot, Body, Nothing, Unrenderable, Deletable, JobReclaimable,
  MaxInterruptions,  \* as in ExportProcessor
  MaxCalls           \* bound: calls of process(), enough for every handover

ASSUME SystemAssumption ==
  /\ MaxCalls \in Nat
  /\ Nothing \notin Body \cup Snapshot \cup [snapshot : Snapshot, sha256 : Body]
  /\ Unrenderable \subseteq Snapshot
  /\ Deletable \in BOOLEAN
  /\ JobReclaimable \in BOOLEAN
  /\ MaxInterruptions \in Nat

Attempt == 1..MaxCalls

VARIABLES
  canonical, final, outcome, returned, job, completedWith, late, stage, scope,
  candidate, result, interruptions,  \* of ExportProcessor; result is its verdict
  calls,       \* how many times process() was called
  call,        \* the call each process is in
  cleared,     \* its guard was passed, and the phase it guards has not begun
  unanswered,  \* PUTs without a reply that the bucket may still apply
  afterLoss    \* history: phases each attempt began after its lease was gone

P == INSTANCE ExportProcessor
       WITH Misaddressed <- {}, verdict <- result

callVars == <<calls, call, cleared, unanswered, afterLoss>>
processorVars == <<canonical, final, outcome, returned, job, completedWith, late,
                   stage, scope, candidate, result, interruptions>>
systemVars == <<vars, processorVars, callVars>>

Put == [attempt : Attempt, key : {"canonical", "final"}]

SystemTypeOK ==
  /\ TypeOK
  /\ P!TypeOK
  /\ calls \in 0..MaxCalls
  /\ call \in [Process -> 0..calls]
  /\ \A p \in Process :
       pc[p] \in {"guard", "work"} => call[p] # 0 /\ stage[call[p]] # "done"
  /\ cleared \in [Process -> BOOLEAN]
  /\ unanswered \subseteq Put
  /\ afterLoss \in [Attempt -> Nat]

SystemInit ==
  /\ Init
  /\ P!Init
  /\ calls = 0
  /\ call = [p \in Process |-> 0]
  /\ cleared = [p \in Process |-> FALSE]
  /\ unanswered = {}
  /\ afterLoss = [a \in Attempt |-> 0]

Holds(p) == Fence(p, entry[p], attempts[p])
Processing(p) == pc[p] \in {"guard", "work"}

-----------------------------------------------------------------------------
(* Steps of a process outside process(). *)

Outside(p) ==
  /\ \/ Setup(p) \/ Loop(p) \/ Claim(p) \/ Read(p) \/ NextEntry(p) \/ BatchDone(p)
     \/ Settle(p) \/ Stop(p) \/ LoseReply(p)
  /\ UNCHANGED <<processorVars, callVars>>

\* _process_entry() reads the count and, unless the event is invalid, calls
\* process().
Begin(p) ==
  /\ calls < MaxCalls
  /\ CountDeliveries(p)
  /\ IF entry[p] \in Malformed
     THEN UNCHANGED <<calls, call>>
     ELSE calls' = calls + 1 /\ call' = [call EXCEPT ![p] = calls + 1]
  /\ UNCHANGED <<processorVars, cleared, unanswered, afterLoss>>

-----------------------------------------------------------------------------
(* process(), seen from both sides. *)

\* The phase the attempt is at begins.  One that begins when the lease is gone
\* already is counted.
BeginRepeatedly(p) ==
  /\ cleared[p] /\ cleared' = cleared
  /\ afterLoss' = IF Holds(p) THEN afterLoss
                  ELSE [afterLoss EXCEPT ![call[p]] = @ + 1]
BeginPhase(p) ==
  /\ cleared[p]
  /\ cleared' = [cleared EXCEPT ![p] = FALSE]
  /\ afterLoss' = IF Holds(p) THEN afterLoss
                  ELSE [afterLoss EXCEPT ![call[p]] = @ + 1]

\* The attempt ends before its next phase ...
EndBefore(p) ==
  /\ ~cleared[p]
  /\ P!Interrupt(call[p])
  /\ late' = late
  /\ UNCHANGED callVars

\* ... or in it: a POST may be applied later, and so may a PUT.
KeyAt(a) == IF canonical[scope[a]] = Nothing THEN "canonical" ELSE "final"
EndWithin(p) ==
  /\ BeginPhase(p)
  /\ P!Interrupt(call[p])
  /\ \/ UNCHANGED unanswered
     \/ /\ stage[call[p]] = "store"
        /\ unanswered' = unanswered \cup
             {[attempt |-> call[p], key |-> KeyAt(call[p])]}
  /\ UNCHANGED <<calls, call>>

\* _guard(): a refused renewal ends the attempt, a renewal clears one phase.
Guard(p) ==
  /\ ~cleared[p]
  /\ Renew(p)
  /\ IF Holds(p)
     THEN /\ cleared' = [cleared EXCEPT ![p] = TRUE]
          /\ UNCHANGED <<processorVars, calls, call, unanswered, afterLoss>>
     ELSE EndBefore(p)

\* The deadline is near or Redis does not answer the renewal.
GuardRaises(p) == GuardFails(p) /\ EndBefore(p)

\* A phase that ends with an answer.  Unless process() returns, only the attempt
\* moves.
AckTransient(v) == IF v \in P!Terminal THEN "terminal" ELSE "ack"
ConsumerAction(v) == IF v \in P!Terminal THEN "terminal" ELSE v
ReplyIgnored(p) == UNCHANGED vars
Reply(p) ==
  IF result'[call[p]] = "none" THEN UNCHANGED vars
  ELSE Return(p) /\ verdict'[p] = ConsumerAction(result'[call[p]])
Request(p) ==
  /\ pc[p] = "work"
  /\ BeginPhase(p)
  /\ P!Step(call[p])
  /\ Reply(p)
  /\ UNCHANGED <<calls, call, unanswered>>

\* A phase that fails, or whose answer is malformed.
RequestFails(p) ==
  /\ pc[p] = "work"
  /\ EndWithin(p)
  /\ Reply(p)

Kill(p) ==
  /\ Crash(p)
  /\ IF Processing(p) THEN EndBefore(p) \/ EndWithin(p)
                      ELSE UNCHANGED <<processorVars, callVars>>

-----------------------------------------------------------------------------
(* The environment. *)

ApplyPut(u) ==
  /\ P!LatePut(u.attempt)
  /\ IF u.key = "canonical" THEN final' = final ELSE canonical' = canonical
  /\ unanswered' = unanswered \ {u}
  /\ UNCHANGED <<vars, calls, call, cleared, afterLoss>>

Elsewhere ==
  \/ /\ Publish \/ (\E c \in inflight : ApplyLate(c)) \/ (\E e \in Entry : GoStale(e))
     /\ UNCHANGED <<processorVars, callVars>>
  \/ /\ P!Delete \/ \E r \in late : P!LatePost(r)
     /\ UNCHANGED <<vars, callVars>>
  \/ \E u \in unanswered : ApplyPut(u)

Progress(p) == Outside(p) \/ Begin(p) \/ Guard(p) \/ Request(p)
SystemNext ==
  \/ \E p \in Process : Progress(p) \/ GuardRaises(p) \/ RequestFails(p) \/ Kill(p)
  \/ Elsewhere

SystemSpec == SystemInit /\ [][SystemNext]_systemVars

\* As in ExportConsumer and ExportProcessor: a running process goes on, an
\* entry nobody holds becomes stale, and what was published stays published.
Moves(p) ==
  \/ Guard(p) \/ Request(p) \/ Begin(p)
  \/ /\ Loop(p) \/ Claim(p) \/ Read(p) \/ NextEntry(p) \/ BatchDone(p) \/ Settle(p)
     /\ UNCHANGED <<processorVars, callVars>>
FairSystem ==
  /\ SystemSpec
  /\ \A p \in Process : WF_systemVars(Moves(p))
  /\ \A e \in Entry : WF_systemVars(GoStale(e) /\ UNCHANGED <<processorVars, callVars>>)

-----------------------------------------------------------------------------
(* Properties. *)

\* An acknowledged event's job is completed, and with the object under its
\* key: whatever was killed, taken over, repeated or applied late between the
\* store, the API and Redis.
AckedJobIsCompleted ==
  acked # {} => completedWith # Nothing /\ completedWith = final

\* A worker whose entry was taken over or settled by another goes through with
\* the one phase it was cleared for, and begins no other: at most one PUT or
\* POST of it reaches the store or the API.
OnePhaseAfterLoss == \A a \in Attempt : afterLoss[a] <= 1

\* The workers implement ExportJob.
Fate(e) == CASE e \in acked -> "acknowledged"
             [] dlq[e] # <<>> -> "dead-lettered"
             [] OTHER -> "open"
Job == INSTANCE ExportJob
         WITH Event <- Entry, Export <- P!Artifact, NoExport <- Nothing,
              object <- final, completion <- completedWith,
              fate <- [e \in Entry |-> Fate(e)]
ImplementsExportJob == Job!JobSpec

\* If from some moment on a worker is up, fewer attempts fail than an event is
\* granted, and the lease holds, then every valid event published is
\* acknowledged: also when its worker was killed after the object was stored or
\* the job was completed, and when claim or completion are answered by 409.
EventuallyAcknowledged ==
  <>[]SomeUp => \A e \in Entry \ Malformed : e <= published ~> e \in acked

=============================================================================
