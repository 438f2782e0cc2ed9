---------------------------- MODULE ExportConsumer ----------------------------
(*****************************************************************************)
(* The worker processes: ExportConsumer of consumer.py, one per process, and *)
(* the process around it (cli.run_worker, the signal handler, the crash that *)
(* ends it).  Each process is sequential; they interleave with each other    *)
(* and with time at every Redis command, and a command whose reply is lost   *)
(* may be applied later, after the client repeated it or died.  The          *)
(* processor is abstract here: it renews the lease before its first outside  *)
(* effect, renews again any number of times, and returns one verdict.        *)
(*****************************************************************************)
EXTENDS StreamGroup

CONSTANTS
  MaxDeliveries,  \* Settings.max_deliveries
  Malformed,      \* entries that fail the validation of _process_entry
  Once,           \* processes started with --once
  LeaseHolds,     \* TRUE: renewals come in time, the entry in hand stays fresh
  MaxHandovers,   \* bound: an entry becomes stale only below this many deliveries
  MaxFaults       \* bound: commands whose reply is lost, in a behaviour

ASSUME ConsumerAssumption ==
  /\ MaxDeliveries \in Nat \ {0}
  /\ Malformed \subseteq Entry
  /\ Once \subseteq Process
  /\ LeaseHolds \in BOOLEAN
  /\ MaxHandovers \in Nat
  /\ MaxFaults \in Nat

NoEntry == 0

VARIABLES
  pc,        \* where each process is
  batch,     \* entries it was handed and has not started
  entry,     \* the entry it works on, or NoEntry
  attempts,  \* the delivery count it read for that entry
  verdict,   \* what it will do with that entry
  cursor,    \* _autoclaim_cursor
  stop,      \* stop_event is set
  inflight,  \* commands sent whose reply was lost, not (yet) applied
  faults     \* how many there have been

processVars == <<pc, batch, entry, attempts, verdict, cursor, stop>>
faultVars == <<inflight, faults>>
vars == <<streamVars, processVars, faultVars>>

PC == {"new", "loop", "claim", "read", "batch", "count", "guard", "work",
       "settle", "down"}
Op == {"claim", "read", "renew", "ack", "dlq"}
Command == [op : Op, process : Process, entry : Cursor,
            attempts : Nat, code : Verdict]

TypeOK ==
  /\ StreamTypeOK
  /\ pc \in [Process -> PC]
  /\ batch \in [Process -> SUBSET Entry]
  /\ entry \in [Process -> Cursor]
  /\ \A p \in Process :
       pc[p] \in {"count", "guard", "work", "settle"} => entry[p] \in Entry
  /\ attempts \in [Process -> Nat]
  /\ \A p \in Process :
       pc[p] \in {"guard", "work", "settle"} => attempts[p] >= 1
  /\ verdict \in [Process -> Verdict]
  /\ cursor \in [Process -> Cursor]
  /\ stop \in [Process -> BOOLEAN]
  /\ inflight \subseteq Command
  /\ \A c \in inflight : c.op \in {"renew", "ack", "dlq"} => c.entry \in Entry
  /\ faults \in Nat

Init ==
  /\ StreamInit
  /\ pc = [p \in Process |-> "new"]
  /\ batch = [p \in Process |-> {}]
  /\ entry = [p \in Process |-> NoEntry]
  /\ attempts = [p \in Process |-> 0]
  /\ verdict = [p \in Process |-> "transient"]
  /\ cursor = [p \in Process |-> 0]
  /\ stop = [p \in Process |-> FALSE]
  /\ inflight = {}
  /\ faults = 0

Up(p) == pc[p] \notin {"new", "down"}
Goto(p, l) == pc' = [pc EXCEPT ![p] = l]

-----------------------------------------------------------------------------
(* Starting and leaving. *)

\* setup(): the topology check, then the group.  process_once() comes first
\* with --once, the while test of run() without.
Setup(p) ==
  /\ pc[p] = "new"
  /\ \/ Goto(p, "down") /\ UNCHANGED streamVars          \* TopologyError
     \/ /\ CreateGroup
        /\ Goto(p, IF p \in Once THEN "claim" ELSE "loop")
  /\ UNCHANGED <<batch, entry, attempts, verdict, cursor, stop, faultVars>>

\* The while test of run().
LoopForever(p) ==
  /\ pc[p] = "loop"
  /\ Goto(p, "claim")
  /\ UNCHANGED <<streamVars, batch, entry, attempts, verdict, cursor, stop, faultVars>>
Loop(p) ==
  /\ pc[p] = "loop"
  /\ Goto(p, IF stop[p] THEN "down" ELSE "claim")
  /\ UNCHANGED <<streamVars, batch, entry, attempts, verdict, cursor, stop, faultVars>>

\* SIGTERM or SIGINT sets the stop event.
Stop(p) ==
  /\ Up(p) /\ ~stop[p]
  /\ stop' = [stop EXCEPT ![p] = TRUE]
  /\ UNCHANGED <<streamVars, pc, batch, entry, attempts, verdict, cursor, faultVars>>

\* The process is killed, or an exception (a Redis error, a rejected
\* credential, an unexpected script reply) leaves process_once().  The entries
\* it was handed stay in the PEL.
Crash(p) ==
  /\ Up(p)
  /\ Goto(p, "down")
  /\ batch' = [batch EXCEPT ![p] = {}]
  /\ entry' = [entry EXCEPT ![p] = NoEntry]
  /\ attempts' = [attempts EXCEPT ![p] = 0]
  /\ verdict' = [verdict EXCEPT ![p] = "transient"]
  /\ UNCHANGED <<streamVars, cursor, stop, faultVars>>

AfterOnce(p) == IF p \in Once THEN "down" ELSE "loop"

-----------------------------------------------------------------------------
(* process_once(): one batch, reclaimed before new. *)

\* The cursor is saved whether or not anything was reclaimed.
SaveCursorIfClaimed(p, c) ==
  cursor' = IF Reclaimable(cursor[p]) = {} THEN cursor
            ELSE [cursor EXCEPT ![p] = c]
SaveCursor(p, c) == cursor' = [cursor EXCEPT ![p] = c]

Claim(p) ==
  /\ pc[p] = "claim"
  /\ AutoClaim(p, cursor[p])
  /\ \E c \in ReturnedCursor(cursor[p]) : SaveCursor(p, c)
  /\ batch' = [batch EXCEPT ![p] = Reclaimable(cursor[p])]
  /\ Goto(p, IF Reclaimable(cursor[p]) = {} THEN "read" ELSE "batch")
  /\ UNCHANGED <<entry, attempts, verdict, stop, faultVars>>

\* XREADGROUP blocks for block_time_ms at most; with nothing new it returns
\* empty and process_once() returns 0.
Read(p) ==
  /\ pc[p] = "read"
  /\ ReadGroup(p)
  /\ batch' = [batch EXCEPT ![p] = NewEntries]
  /\ Goto(p, IF NewEntries = {} THEN AfterOnce(p) ELSE "batch")
  /\ UNCHANGED <<entry, attempts, verdict, cursor, stop, faultVars>>

\* The for loop takes the entries in the order Redis returned them.
NextEntry(p) ==
  /\ pc[p] = "batch" /\ ~stop[p]
  /\ \E e \in batch[p] :
       /\ \A f \in batch[p] : e <= f
       /\ entry' = [entry EXCEPT ![p] = e]
       /\ batch' = [batch EXCEPT ![p] = @ \ {e}]
  /\ Goto(p, "count")
  /\ UNCHANGED <<streamVars, attempts, verdict, cursor, stop, faultVars>>

\* ... and ends with the batch, or when the stop event is set: what is left
\* of the batch stays pending under this process' identity.
BatchDone(p) ==
  /\ pc[p] = "batch"
  /\ batch[p] = {} \/ stop[p]
  /\ batch' = [batch EXCEPT ![p] = {}]
  /\ Goto(p, AfterOnce(p))
  /\ UNCHANGED <<streamVars, entry, attempts, verdict, cursor, stop, faultVars>>

-----------------------------------------------------------------------------
(* _process_entry(). *)

\* _delivery_count() is read after the handover, then the fields are checked.
CountDeliveries(p) ==
  /\ pc[p] = "count"
  /\ attempts' = [attempts EXCEPT ![p] = DeliveryCount(entry[p])]
  /\ IF entry[p] \in Malformed
     THEN Goto(p, "settle") /\ verdict' = [verdict EXCEPT ![p] = "invalid"]
     ELSE Goto(p, "guard") /\ UNCHANGED verdict
  /\ UNCHANGED <<streamVars, batch, entry, cursor, stop, faultVars>>

Decide(p, v) ==
  /\ verdict' = [verdict EXCEPT ![p] = v]
  /\ Goto(p, "settle")

\* A stage of the processor renews the lease: before the first outside effect
\* ("guard") and between later ones ("work").  A lost lease ends the work with
\* a transient verdict.
Renew(p) ==
  /\ pc[p] \in {"guard", "work"}
  /\ RenewScript(p, entry[p], attempts[p])
  /\ IF Fence(p, entry[p], attempts[p])
     THEN Goto(p, "work") /\ UNCHANGED verdict
     ELSE Decide(p, "transient")
  /\ UNCHANGED <<batch, entry, attempts, cursor, stop, faultVars>>

\* The work deadline leaves no room for the stage, or the renewal raised: the
\* work ends with a transient verdict too.
GuardFails(p) ==
  /\ pc[p] \in {"guard", "work"}
  /\ Decide(p, "transient")
  /\ UNCHANGED <<streamVars, batch, entry, attempts, cursor, stop, faultVars>>

\* The processor returns.
Return(p) ==
  /\ pc[p] = "work"
  /\ \E v \in {"ack", "terminal", "transient"} : Decide(p, v)
  /\ UNCHANGED <<streamVars, batch, entry, attempts, cursor, stop, faultVars>>

\* What _process_entry() sends for a verdict; "none" leaves the entry pending.
Settlement(p) ==
  CASE verdict[p] = "ack" -> "ack"
    [] verdict[p] = "transient" /\ attempts[p] < MaxDeliveries -> "none"
    [] OTHER -> "dlq"

\* _ack() or _dead_letter(); a lost lease is reported and ignored.
Settle(p) ==
  /\ pc[p] = "settle"
  /\ CASE Settlement(p) = "ack" -> AckScript(p, entry[p], attempts[p])
       [] Settlement(p) = "dlq" ->
            DlqScript(p, entry[p], attempts[p], verdict[p])
       [] OTHER -> UNCHANGED streamVars
  /\ Goto(p, "batch")
  /\ entry' = [entry EXCEPT ![p] = NoEntry]
  /\ attempts' = [attempts EXCEPT ![p] = 0]
  /\ verdict' = [verdict EXCEPT ![p] = "transient"]
  /\ UNCHANGED <<batch, cursor, stop, faultVars>>

-----------------------------------------------------------------------------
(* Lost replies: the client times out on a command the server still holds.   *)
(* redis-py repeats it on a new connection, or raises and the process dies   *)
(* (Crash); the server may apply the first copy at any later time.           *)

Sent(p) ==
  CASE pc[p] = "claim" -> {<<"claim", cursor[p]>>}
    [] pc[p] = "read" -> {<<"read", NoEntry>>}
    [] pc[p] \in {"guard", "work"} -> {<<"renew", entry[p]>>}
    [] pc[p] = "settle" /\ Settlement(p) # "none" ->
         {<<Settlement(p), entry[p]>>}
    [] OTHER -> {}

LoseReply(p) ==
  /\ faults < MaxFaults
  /\ \E s \in Sent(p) :
       inflight' = inflight \cup
         {[op |-> s[1], process |-> p, entry |-> s[2],
           attempts |-> attempts[p], code |-> verdict[p]]}
  /\ faults' = faults + 1
  /\ UNCHANGED <<streamVars, processVars>>

ApplyLate(c) ==
  /\ c \in inflight
  /\ inflight' = inflight \ {c}
  /\ CASE c.op = "claim" -> AutoClaim(c.process, c.entry)
       [] c.op = "read" -> ReadGroup(c.process)
       [] c.op = "renew" -> RenewScript(c.process, c.entry, c.attempts)
       [] c.op = "ack" -> AckScript(c.process, c.entry, c.attempts)
       [] c.op = "dlq" -> DlqScript(c.process, c.entry, c.attempts, c.code)
  /\ UNCHANGED <<processVars, faults>>

-----------------------------------------------------------------------------
(* The environment. *)

Publish == PublishEvent /\ UNCHANGED <<processVars, faultVars>>

InHand(e) ==
  \E p \in Process : /\ owner[e] = ConsumerIdentity(p)
                     /\ e \in batch[p] \cup {entry[p]}

GoStale(e) ==
  /\ timesDelivered[e] < MaxHandovers
  /\ LeaseHolds => ~InHand(e)
  /\ BecomeStale(e)
  /\ UNCHANGED <<processVars, faultVars>>

Step(p) ==
  \/ Loop(p) \/ Claim(p) \/ Read(p) \/ NextEntry(p) \/ BatchDone(p)
  \/ CountDeliveries(p) \/ Renew(p) \/ GuardFails(p) \/ Return(p) \/ Settle(p)

Next ==
  \/ \E p \in Process : Setup(p) \/ Step(p) \/ Stop(p) \/ Crash(p) \/ LoseReply(p)
  \/ \E c \in inflight : ApplyLate(c)
  \/ Publish
  \/ \E e \in Entry : GoStale(e)

Spec == Init /\ [][Next]_vars

\* A running process keeps running, work on an entry ends (max_work_seconds
\* and the timeouts of every call bound it), and an entry nobody works on
\* eventually becomes stale.
Fairness ==
  /\ \A p \in Process : WF_vars(Step(p)) /\ WF_vars(Return(p) \/ GuardFails(p))
  /\ \A e \in Entry : WF_vars(GoStale(e))

FairSpec == Spec /\ Fairness

-----------------------------------------------------------------------------
(* Properties. *)

\* A delivered entry is in exactly one place: still pending, acknowledged, or
\* in the dead-letter stream, there once; an undelivered one is in none.  No
\* crash, handover, repeated or late script loses an event or records it twice.
Fates(e) == (IF e \in pending THEN 1 ELSE 0) + (IF e \in acked THEN 1 ELSE 0)
            + Len(dlq[e])
ExactlyOneFate ==
  \A e \in Entry : Fates(e) = IF e \in Delivered THEN 1 ELSE 0

\* The attempt count of a dead-letter record is the delivery count the entry
\* really left the PEL with, and a transient failure is recorded only at the
\* delivery ceiling: a stale count read by a worker never ends an event early.
CeilingRespected ==
  \A e \in Entry : \A i \in 1..Len(dlq[e]) :
    /\ dlq[e][i].attempts = timesDelivered[e]
    /\ dlq[e][i].code = "transient" => dlq[e][i].attempts >= MaxDeliveries

\* An entry leaves the PEL only by a script of the process Redis last handed
\* it to: a stalled worker that comes back after its entry was reclaimed, or a
\* late script of a dead incarnation, settles nothing.
SettledBy(p, e) ==
  \/ pc[p] = "settle" /\ entry[p] = e /\ pc'[p] = "batch"
  \/ \E c \in inflight \ inflight' :
       c.process = p /\ c.entry = e /\ c.op \in {"ack", "dlq"}
OnlyHolderSettles ==
  [][\A e \in Entry : e \in pending /\ e \notin pending' => SettledBy(taker[e], e)]_vars

\* A lease changes hands, or its delivery budget is spent, only when the entry
\* is new to the group or has been idle for stale_idle_ms, and then by exactly
\* one: renewing never spends budget, and no fresh lease is taken over.
Handed(e) == timesDelivered'[e] # timesDelivered[e] \/ owner'[e] # owner[e]
BudgetSpentOnHandoverOnly ==
  [][\A e \in Entry : Handed(e) =>
       /\ e \in stale \/ e \notin Delivered
       /\ timesDelivered'[e] = timesDelivered[e] + 1]_vars

\* If from some moment on a worker is always up, every published event is
\* acknowledged or dead-lettered, also when every attempt fails transiently,
\* when it was published before the group existed, or when its worker died.
Settled(e) == e \in acked \/ dlq[e] # <<>>
SomeUp == \E p \in Process : Up(p)
EveryEventSettled ==
  <>[]SomeUp => \A e \in Entry : e <= published ~> Settled(e)

\* A process asked to stop finishes the entry in hand and leaves.
StopDrains == \A p \in Process : stop[p] ~> pc[p] = "down"

=============================================================================
