------------------------------ MODULE StreamGroup ------------------------------
(*****************************************************************************)
(* The Redis stream of export events, its consumer group and the pending     *)
(* entries list (PEL) the group keeps, as the worker uses them: the group    *)
(* creation of setup(), the two commands that hand entries over (XREADGROUP, *)
(* XAUTOCLAIM), the XPENDING query, and the three Lua scripts of consumer.py *)
(* that fence on the PEL before they change it.  Redis executes one command  *)
(* or script at a time, so each operator below is one atomic change of the   *)
(* state; the module that models the callers decides when it happens.        *)
(*****************************************************************************)
EXTENDS Integers, FiniteSets, Sequences

CONSTANTS
  Process,        \* worker process incarnations; a restart is another member
  NumEntries,     \* how many events the API publishes
  BatchSize,      \* Settings.batch_size, the COUNT of both handing commands
  Label           \* Settings.consumer_name, the same for every incarnation

ASSUME ConfigAssumption ==
  /\ NumEntries \in Nat
  /\ BatchSize \in Nat \ {0}

Entry == 1..NumEntries         \* entry ids, in stream order
Cursor == 0..NumEntries        \* a scan position of XAUTOCLAIM; 0 is "0-0"

\* Why an entry is settled: the processor's verdict, or "invalid" for an event
\* that fails validation before the processor sees it.
Verdict == {"ack", "terminal", "transient", "invalid"}

\* The identity Redis sees: the label and a fresh uuid, here the incarnation.
SharedIdentity(p) == <<Label, Label>>
ConsumerIdentity(p) == <<Label, p>>

VARIABLES
  published,      \* entries 1..published are in the stream
  group,          \* the consumer group exists
  lastDelivered,  \* the group's last-delivered id
  pending,        \* the PEL: delivered and not acknowledged
  owner,          \* consumer of each PEL entry (its last one, once it left)
  timesDelivered, \* delivery count of each PEL entry (its last, once it left)
  stale,          \* PEL entries idle for stale_idle_ms or longer
  acked,          \* entries removed by the acknowledge script
  dlq,            \* for each entry, its records in the dead-letter stream
  taker           \* history: the process Redis last handed the entry to

pelVars == <<pending, owner, timesDelivered, stale, acked, dlq, taker>>
groupVars == <<group, lastDelivered, pelVars>>
streamVars == <<published, groupVars>>

Delivered == 1..lastDelivered

StreamTypeOK ==
  /\ published \in Cursor
  /\ group \in BOOLEAN
  /\ lastDelivered \in Cursor
  /\ lastDelivered <= published
  /\ pending \subseteq Entry
  /\ owner \in [Entry -> {Label} \X (Process \cup {Label})]
  /\ timesDelivered \in [Entry -> Nat]
  /\ \A e \in pending : timesDelivered[e] >= 1
  /\ stale \subseteq pending
  /\ acked \subseteq Entry
  /\ dlq \in [Entry -> Seq([code : Verdict, attempts : Nat])]
  /\ taker \in [Entry -> Process \cup {Label}]

StreamInit ==
  /\ published = 0
  /\ group = FALSE
  /\ lastDelivered = 0
  /\ pending = {}
  /\ owner = [e \in Entry |-> <<Label, Label>>]
  /\ timesDelivered = [e \in Entry |-> 0]
  /\ stale = {}
  /\ acked = {}
  /\ dlq = [e \in Entry |-> <<>>]
  /\ taker = [e \in Entry |-> Label]

-----------------------------------------------------------------------------
(* Handing entries over. *)

\* XGROUP CREATE ... id 0-0 MKSTREAM: the group starts before the first event,
\* so a backlog published before the first worker came up is delivered too.
GroupStart == 0

\* BUSYGROUP from a second creation is swallowed and changes nothing.
CreateGroup ==
  /\ group' = TRUE
  /\ lastDelivered' = IF group THEN lastDelivered ELSE GroupStart
  /\ UNCHANGED <<published, pelVars>>

\* The first BatchSize entries of S in stream order: what COUNT admits.
Batch(S) == {e \in S : Cardinality({f \in S : f < e}) < BatchSize}

\* p is handed the entries E: each one's idle time restarts and its delivery
\* count goes up by one.
HandOver(p, E) ==
  /\ pending' = pending \cup E
  /\ owner' = [e \in Entry |-> IF e \in E THEN ConsumerIdentity(p) ELSE owner[e]]
  /\ timesDelivered' =
       [e \in Entry |-> IF e \in E THEN timesDelivered[e] + 1 ELSE timesDelivered[e]]
  /\ stale' = stale \ E
  /\ taker' = [e \in Entry |-> IF e \in E THEN p ELSE taker[e]]
  /\ UNCHANGED <<published, group, acked, dlq>>

\* XREADGROUP GROUP ... > COUNT BatchSize: entries never delivered to the group.
LastRead ==
  IF lastDelivered + BatchSize <= published
  THEN lastDelivered + BatchSize ELSE published
NewEntries == {e \in Entry : lastDelivered < e /\ e <= LastRead}
ReadGroup(p) ==
  /\ HandOver(p, NewEntries)
  /\ lastDelivered' = LastRead

\* XAUTOCLAIM ... min-idle stale_idle_ms, from a cursor, COUNT BatchSize: the
\* stale entries, whoever owns them (the caller included).
Reclaimable(start) == Batch({e \in stale : start <= e})
AutoClaim(p, start) ==
  /\ HandOver(p, Reclaimable(start))
  /\ UNCHANGED lastDelivered

\* The cursor XAUTOCLAIM returns: the next PEL entry when COUNT cut the scan
\* short, 0-0 when the scan reached the end of the PEL.
Unscanned(start) ==
  {e \in pending : \A c \in Reclaimable(start) : c < e}
ReturnedCursor(start) ==
  {c \in Cursor :
     IF Cardinality(Reclaimable(start)) = BatchSize /\ Unscanned(start) # {}
     THEN c \in Unscanned(start) /\ \A e \in Unscanned(start) : c <= e
     ELSE c = 0}

-----------------------------------------------------------------------------
(* The fenced scripts.  Each reads the PEL first and changes nothing unless  *)
(* the entry is pending for this identity at this delivery count.            *)

OwnerFence(p, e, n) == e \in pending /\ owner[e] = ConsumerIdentity(p)
Fence(p, e, n) ==
  /\ e \in pending
  /\ owner[e] = ConsumerIdentity(p)
  /\ timesDelivered[e] = n

\* _ACK_SCRIPT
AckScript(p, e, n) ==
  /\ IF Fence(p, e, n)
     THEN /\ pending' = pending \ {e}
          /\ stale' = stale \ {e}
          /\ acked' = acked \cup {e}
     ELSE UNCHANGED <<pending, stale, acked>>
  /\ UNCHANGED <<published, group, lastDelivered, owner, timesDelivered, dlq, taker>>

\* _DLQ_SCRIPT: XADD to the dead-letter stream, then XACK.
DlqKeepsPending(p, e, n, code) ==
  /\ IF Fence(p, e, n)
     THEN dlq' = [dlq EXCEPT ![e] = Append(@, [code |-> code, attempts |-> n])]
     ELSE UNCHANGED dlq
  /\ UNCHANGED <<published, group, lastDelivered, pending, stale, owner,
                 timesDelivered, acked, taker>>
DlqScript(p, e, n, code) ==
  /\ IF Fence(p, e, n)
     THEN /\ dlq' = [dlq EXCEPT ![e] = Append(@, [code |-> code, attempts |-> n])]
          /\ pending' = pending \ {e}
          /\ stale' = stale \ {e}
     ELSE UNCHANGED <<dlq, pending, stale>>
  /\ UNCHANGED <<published, group, lastDelivered, owner, timesDelivered, acked, taker>>

\* _RENEW_SCRIPT: XCLAIM ... IDLE 0 JUSTID resets the idle time; JUSTID leaves
\* the delivery count alone.
RenewCounting(p, e, n) ==
  /\ stale' = IF Fence(p, e, n) THEN stale \ {e} ELSE stale
  /\ timesDelivered' = IF Fence(p, e, n)
                       THEN [timesDelivered EXCEPT ![e] = @ + 1]
                       ELSE timesDelivered
  /\ UNCHANGED <<published, group, lastDelivered, pending, owner, acked, dlq, taker>>
RenewScript(p, e, n) ==
  /\ stale' = IF Fence(p, e, n) THEN stale \ {e} ELSE stale
  /\ UNCHANGED <<published, group, lastDelivered, pending, owner,
                 timesDelivered, acked, dlq, taker>>

\* XPENDING for one entry: its delivery count, 1 when it is not pending.
UnclampedCount(e) == IF e \in pending THEN timesDelivered[e] ELSE 0
DeliveryCount(e) == IF e \in pending THEN timesDelivered[e] ELSE 1

-----------------------------------------------------------------------------
(* The environment: the API publishes, and time passes. *)

\* The API's outbox publisher adds an event.
PublishEvent ==
  /\ published < NumEntries
  /\ published' = published + 1
  /\ UNCHANGED groupVars

\* The idle time of a pending entry reaches stale_idle_ms.
BecomeStale(e) ==
  /\ e \in pending \ stale
  /\ stale' = stale \cup {e}
  /\ UNCHANGED <<published, group, lastDelivered, pending, owner,
                 timesDelivered, acked, dlq, taker>>

=============================================================================
