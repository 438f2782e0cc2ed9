-------------------------- MODULE ExportConsumerProofs --------------------------
(*****************************************************************************)
(* Proofs about ExportConsumer for every number of processes, entries, batch *)
(* size, delivery ceiling and bound.                                         *)
(*                                                                           *)
(* Every step of a process changes the stream and its group by one of the    *)
(* atomic operations of StreamGroup, or not at all (StreamStep).  What is    *)
(* said of the stream alone is therefore proved against StreamStep, operation*)
(* by operation, and only the lemma NextIsStreamStep looks at the processes. *)
(*****************************************************************************)
EXTENDS ExportConsumer, TLAPS

\* Before the group exists nothing was delivered; a process that is up, and a
\* command that is in flight, come after the creation of the group.
GroupFirst ==
  /\ ~group => lastDelivered = 0
  /\ \A p \in Process : Up(p) => group
  /\ inflight # {} => group

\* A dead-letter command for a transient failure was sent at the ceiling.
CommandsRespectCeiling ==
  \A c \in inflight :
    c.op = "dlq" /\ c.code = "transient" => c.attempts >= MaxDeliveries

\* The identity in the PEL is that of the process last handed the entry.
OwnerIsTaker ==
  \A e \in pending : taker[e] \in Process /\ owner[e] = ConsumerIdentity(taker[e])

IInv ==
  /\ TypeOK
  /\ GroupFirst
  /\ CommandsRespectCeiling
  /\ OwnerIsTaker
  /\ ExactlyOneFate
  /\ CeilingRespected

-----------------------------------------------------------------------------
(* The changes of the stream. *)

Handing ==
  /\ group
  /\ \E p \in Process :
       ReadGroup(p) \/ \E start \in Cursor : AutoClaim(p, start)

Scripting ==
  \E p \in Process, e \in Entry, n \in Nat :
    \/ AckScript(p, e, n)
    \/ RenewScript(p, e, n)
    \/ \E code \in Verdict :
         /\ code = "transient" => n >= MaxDeliveries
         /\ DlqScript(p, e, n, code)

StreamStep ==
  \/ UNCHANGED streamVars
  \/ CreateGroup
  \/ PublishEvent
  \/ \E e \in Entry : BecomeStale(e)
  \/ Handing
  \/ Scripting

\* What COUNT admits is part of what it selects from.
LEMMA BatchSubset == \A S : Batch(S) \subseteq S
  BY DEF Batch

LEMMA NewEntriesFacts ==
  ASSUME StreamTypeOK
  PROVE  /\ NewEntries \subseteq Entry
         /\ NewEntries = {e \in Entry : lastDelivered < e /\ e <= LastRead}
         /\ LastRead \in Cursor
         /\ lastDelivered <= LastRead
         /\ LastRead <= published
  BY ConfigAssumption DEF ConfigAssumption, Entry, NewEntries, LastRead, StreamTypeOK, Cursor

LEMMA HandOverType ==
  ASSUME StreamTypeOK,
         NEW p \in Process, NEW E \in SUBSET Entry, HandOver(p, E),
         lastDelivered' \in Cursor, lastDelivered' <= published
  PROVE  StreamTypeOK'
<1> USE DEF StreamTypeOK, HandOver
<1>1. owner' \in [Entry -> {Label} \X (Process \cup {Label})]
  BY DEF ConsumerIdentity
<1>2. timesDelivered' \in [Entry -> Nat]
  OBVIOUS
<1>3. \A e \in pending' : timesDelivered'[e] >= 1
  OBVIOUS
<1>4. taker' \in [Entry -> Process \cup {Label}]
  OBVIOUS
<1>5. pending' \subseteq Entry /\ stale' \subseteq pending'
  OBVIOUS
<1>6. QED
  BY <1>1, <1>2, <1>3, <1>4, <1>5

LEMMA StreamTypeStep == StreamTypeOK /\ StreamStep => StreamTypeOK'
<1> SUFFICES ASSUME StreamTypeOK, StreamStep PROVE StreamTypeOK'
  OBVIOUS
<1>1. CASE UNCHANGED streamVars
  BY <1>1 DEF streamVars, groupVars, pelVars, StreamTypeOK
<1>2. CASE CreateGroup
  <2>1. UNCHANGED <<published, pending, owner, timesDelivered, stale, acked, dlq, taker>>
    BY <1>2 DEF CreateGroup, pelVars
  <2>2. group' = TRUE /\ lastDelivered' \in Cursor /\ lastDelivered' <= published'
    BY <1>2, ConfigAssumption
    DEF ConfigAssumption, Cursor, CreateGroup, GroupStart, StreamTypeOK
  <2>3. QED
    BY <2>1, <2>2 DEF StreamTypeOK
<1>3. CASE PublishEvent
  <2>1. UNCHANGED <<group, lastDelivered, pending, owner, timesDelivered, stale,
                    acked, dlq, taker>>
    BY <1>3 DEF PublishEvent, groupVars, pelVars
  <2>2. published' \in Cursor /\ lastDelivered <= published'
    BY <1>3, ConfigAssumption DEF ConfigAssumption, Cursor, PublishEvent, StreamTypeOK
  <2>3. QED
    BY <2>1, <2>2 DEF StreamTypeOK
<1>4. CASE \E e \in Entry : BecomeStale(e)
  BY <1>4 DEF BecomeStale, StreamTypeOK
<1>5. CASE Handing
  <2>1. PICK p \in Process :
          ReadGroup(p) \/ \E start \in Cursor : AutoClaim(p, start)
    BY <1>5 DEF Handing
  <2>2. CASE ReadGroup(p)
    BY <2>2, NewEntriesFacts, HandOverType DEF ReadGroup
  <2>3. ASSUME NEW start \in Cursor, AutoClaim(p, start) PROVE StreamTypeOK'
    <3>1. Reclaimable(start) \subseteq Entry
      BY BatchSubset DEF Reclaimable, StreamTypeOK
    <3>2. QED
      BY <2>3, <3>1, HandOverType DEF AutoClaim, StreamTypeOK
  <2>4. QED
    BY <2>1, <2>2, <2>3
<1>6. CASE Scripting
  <2>1. PICK p \in Process, e \in Entry, n \in Nat :
          \/ AckScript(p, e, n)
          \/ RenewScript(p, e, n)
          \/ \E code \in Verdict : DlqScript(p, e, n, code)
    BY <1>6 DEF Scripting
  <2>2. CASE AckScript(p, e, n)
    BY <2>2 DEF AckScript, StreamTypeOK
  <2>3. CASE RenewScript(p, e, n)
    BY <2>3 DEF RenewScript, StreamTypeOK
  <2>4. ASSUME NEW code \in Verdict, DlqScript(p, e, n, code) PROVE StreamTypeOK'
    <3> DEFINE r == [code |-> code, attempts |-> n]
    <3>1. Append(dlq[e], r) \in Seq([code : Verdict, attempts : Nat])
      <4> DEFINE Records == [code : Verdict, attempts : Nat]
      <4>1. r \in Records
        OBVIOUS
      <4>2. dlq[e] \in Seq(Records)
        BY DEF StreamTypeOK
      <4> HIDE DEF r, Records
      <4>3. Append(dlq[e], r) \in Seq(Records)
        BY <4>1, <4>2
      <4>4. QED
        BY <4>3 DEF Records
    <3>2. dlq' \in [Entry -> Seq([code : Verdict, attempts : Nat])]
      <4> HIDE DEF r
      <4>1. dlq' = [dlq EXCEPT ![e] = Append(dlq[e], r)] \/ dlq' = dlq
        BY <2>4 DEF DlqScript, r
      <4>2. QED
        BY <3>1, <4>1 DEF StreamTypeOK
    <3>3. QED
      BY <2>4, <3>2 DEF DlqScript, StreamTypeOK
  <2>5. QED
    BY <2>1, <2>2, <2>3, <2>4
<1>7. QED
  BY <1>1, <1>2, <1>3, <1>4, <1>5, <1>6 DEF StreamStep

-----------------------------------------------------------------------------
(* The fate of an entry. *)

\* What the dead-letter script does to the dead-letter stream.
LEMMA DlqAppends ==
  ASSUME StreamTypeOK, NEW p \in Process, NEW e \in Entry, NEW n \in Nat,
         NEW code \in Verdict, DlqScript(p, e, n, code), Fence(p, e, n)
  PROVE  /\ dlq'[e] = Append(dlq[e], [code |-> code, attempts |-> n])
         /\ Len(dlq'[e]) = Len(dlq[e]) + 1
         /\ \A f \in Entry \ {e} : dlq'[f] = dlq[f]
         /\ pending' = pending \ {e}
<1> DEFINE r == [code |-> code, attempts |-> n]
<1>1. dlq' = [dlq EXCEPT ![e] = Append(dlq[e], r)] /\ pending' = pending \ {e}
  BY DEF DlqScript
<1>2. dlq[e] \in Seq([code : Verdict, attempts : Nat])
  BY DEF StreamTypeOK
<1> HIDE DEF r
<1>3. Len(Append(dlq[e], r)) = Len(dlq[e]) + 1
  BY <1>2
<1>4. dlq'[e] = Append(dlq[e], r) /\ \A f \in Entry \ {e} : dlq'[f] = dlq[f]
  BY <1>1 DEF StreamTypeOK
<1>5. QED
  BY <1>1, <1>3, <1>4 DEF r

LEMMA LenIsNat == StreamTypeOK => \A e \in Entry : Len(dlq[e]) \in Nat
<1> SUFFICES ASSUME StreamTypeOK, NEW e \in Entry PROVE Len(dlq[e]) \in Nat
  OBVIOUS
<1> DEFINE Records == [code : Verdict, attempts : Nat]
<1>1. dlq[e] \in Seq(Records)
  BY DEF StreamTypeOK
<1> HIDE DEF Records
<1>2. QED
  BY <1>1

\* A handover of new or stale entries keeps every delivered entry in one place.
LEMMA HandingKeepsFates ==
  StreamTypeOK /\ ExactlyOneFate /\ Handing => ExactlyOneFate'
<1> SUFFICES ASSUME StreamTypeOK, ExactlyOneFate, Handing, NEW f \in Entry
             PROVE  Fates(f)' = (IF f \in Delivered THEN 1 ELSE 0)'
  BY DEF ExactlyOneFate
<1> DEFINE len == Len(dlq[f])
<1>0. len \in Nat
  BY LenIsNat
<1>1. PICK p \in Process :
        ReadGroup(p) \/ \E start \in Cursor : AutoClaim(p, start)
  BY DEF Handing
<1>2. (IF f \in pending THEN 1 ELSE 0) + (IF f \in acked THEN 1 ELSE 0) + len
      = IF f \in Delivered THEN 1 ELSE 0
  BY DEF ExactlyOneFate, Fates
<1>3. CASE ReadGroup(p)
  <2>1. /\ pending' = pending \cup NewEntries
        /\ acked' = acked /\ dlq' = dlq /\ lastDelivered' = LastRead
    BY <1>3 DEF ReadGroup, HandOver
  <2>2. /\ f \in Int /\ 1 <= f /\ lastDelivered \in Int /\ LastRead \in Int
        /\ lastDelivered <= LastRead
        /\ f \in NewEntries <=> lastDelivered < f /\ f <= LastRead
    <3>1. lastDelivered \in Cursor /\ LastRead \in Cursor /\ lastDelivered <= LastRead
      BY NewEntriesFacts DEF StreamTypeOK
    <3>2. f \in NewEntries <=> lastDelivered < f /\ f <= LastRead
      BY NewEntriesFacts
    <3>3. QED
      BY <3>1, <3>2, ConfigAssumption DEF ConfigAssumption, Entry, Cursor
  <2>3. f \in Delivered' <=> f \in Delivered \/ f \in NewEntries
    BY <2>1, <2>2 DEF Delivered
  <2>4. f \in NewEntries => f \notin Delivered
    BY <2>2 DEF Delivered
  <2>5. Len(dlq'[f]) = len
    BY <2>1
  <2> HIDE DEF len
  <2>6. QED
    BY <1>0, <1>2, <2>1, <2>3, <2>4, <2>5 DEF Fates
<1>4. ASSUME NEW start \in Cursor, AutoClaim(p, start)
      PROVE  Fates(f)' = (IF f \in Delivered THEN 1 ELSE 0)'
  <2>1. /\ pending' = pending \cup Reclaimable(start)
        /\ acked' = acked /\ dlq' = dlq /\ lastDelivered' = lastDelivered
    BY <1>4 DEF AutoClaim, HandOver
  <2>2. Reclaimable(start) \subseteq pending
    BY BatchSubset DEF Reclaimable, StreamTypeOK
  <2>3. pending' = pending
    BY <2>1, <2>2
  <2>4. QED
    BY <1>2, <2>1, <2>3 DEF Fates, Delivered
<1>5. QED
  BY <1>1, <1>3, <1>4

\* A fenced script moves the entry it settles from the PEL to one other place.
LEMMA ScriptingKeepsFates ==
  StreamTypeOK /\ ExactlyOneFate /\ Scripting => ExactlyOneFate'
<1> SUFFICES ASSUME StreamTypeOK, ExactlyOneFate, Scripting, NEW f \in Entry
             PROVE  Fates(f)' = (IF f \in Delivered THEN 1 ELSE 0)'
  BY DEF ExactlyOneFate
<1> DEFINE len == Len(dlq[f])
<1>0. len \in Nat
  BY LenIsNat
<1>1. PICK p \in Process, e \in Entry, n \in Nat :
        \/ AckScript(p, e, n)
        \/ RenewScript(p, e, n)
        \/ \E code \in Verdict : DlqScript(p, e, n, code)
  BY DEF Scripting
<1>2. (IF f \in pending THEN 1 ELSE 0) + (IF f \in acked THEN 1 ELSE 0) + len
      = IF f \in Delivered THEN 1 ELSE 0
  BY DEF ExactlyOneFate, Fates
<1>3. CASE AckScript(p, e, n)
  <2>1. dlq' = dlq /\ lastDelivered' = lastDelivered
    BY <1>3 DEF AckScript
  <2>2. \/ UNCHANGED <<pending, acked>>
        \/ e \in pending /\ pending' = pending \ {e} /\ acked' = acked \cup {e}
    BY <1>3 DEF AckScript, Fence
  <2>3. Len(dlq'[f]) = len /\ Delivered' = Delivered
    BY <2>1 DEF Delivered
  <2> HIDE DEF len
  <2>4. QED
    BY <1>0, <1>2, <2>2, <2>3 DEF Fates
<1>4. CASE RenewScript(p, e, n)
  BY <1>2, <1>4 DEF RenewScript, Fates, Delivered
<1>5. ASSUME NEW code \in Verdict, DlqScript(p, e, n, code)
      PROVE  Fates(f)' = (IF f \in Delivered THEN 1 ELSE 0)'
  <2>1. acked' = acked /\ lastDelivered' = lastDelivered
    BY <1>5 DEF DlqScript
  <2>2. CASE Fence(p, e, n)
    <3>1. e \in pending
      BY <2>2 DEF Fence
    <3>2. /\ pending' = pending \ {e}
          /\ f = e => Len(dlq'[f]) = len + 1
          /\ f # e => Len(dlq'[f]) = len
      BY <1>5, <2>2, DlqAppends
    <3>3. Delivered' = Delivered
      BY <2>1 DEF Delivered
    <3> HIDE DEF len
    <3>4. CASE f = e
      <4>1. /\ f \in pending /\ f \notin pending'
            /\ f \in acked' <=> f \in acked
            /\ f \in Delivered' <=> f \in Delivered
        BY <2>1, <3>1, <3>2, <3>3, <3>4
      <4>2. Len(dlq'[f]) = len + 1
        BY <3>2, <3>4
      <4>3. 1 + (IF f \in acked THEN 1 ELSE 0) + len = IF f \in Delivered THEN 1 ELSE 0
        BY <1>2, <4>1
      <4>4. QED
        BY <1>0, <4>1, <4>2, <4>3 DEF Fates
    <3>5. CASE f # e
      BY <1>0, <1>2, <2>1, <3>2, <3>3, <3>5 DEF Fates
    <3>6. QED
      BY <3>4, <3>5
  <2>3. CASE ~Fence(p, e, n)
    <3>1. pending' = pending /\ dlq' = dlq
      BY <1>5, <2>3 DEF DlqScript
    <3>2. QED
      BY <1>2, <2>1, <3>1 DEF Fates, Delivered
  <2>4. QED
    BY <2>2, <2>3
<1>6. QED
  BY <1>1, <1>3, <1>4, <1>5

LEMMA FatesStep ==
  StreamTypeOK /\ GroupFirst /\ ExactlyOneFate /\ StreamStep => ExactlyOneFate'
<1> SUFFICES ASSUME StreamTypeOK, GroupFirst, ExactlyOneFate, StreamStep
             PROVE  ExactlyOneFate'
  OBVIOUS
<1>1. ASSUME UNCHANGED <<pending, acked, dlq, lastDelivered>> PROVE ExactlyOneFate'
  BY <1>1 DEF ExactlyOneFate, Fates, Delivered
<1>2. CASE UNCHANGED streamVars
  BY <1>1, <1>2 DEF streamVars, groupVars, pelVars
<1>3. CASE CreateGroup
  <2>1. lastDelivered' = lastDelivered
    BY <1>3 DEF CreateGroup, GroupStart, GroupFirst
  <2>2. QED
    BY <1>1, <1>3, <2>1 DEF CreateGroup, pelVars
<1>4. CASE PublishEvent
  BY <1>1, <1>4 DEF PublishEvent, groupVars, pelVars
<1>5. CASE \E e \in Entry : BecomeStale(e)
  BY <1>1, <1>5 DEF BecomeStale
<1>6. QED
  BY <1>2, <1>3, <1>4, <1>5, HandingKeepsFates, ScriptingKeepsFates DEF StreamStep

-----------------------------------------------------------------------------
(* Delivery counts and owners. *)

LEMMA DeadLetteredHasLeft ==
  ASSUME StreamTypeOK, ExactlyOneFate, NEW e \in Entry, NEW i \in 1..Len(dlq[e])
  PROVE  e \in Delivered /\ e \notin pending
<1> DEFINE len == Len(dlq[e])
<1>1. len \in Nat
  BY LenIsNat
<1>2. (IF e \in pending THEN 1 ELSE 0) + (IF e \in acked THEN 1 ELSE 0) + len
      = IF e \in Delivered THEN 1 ELSE 0
  BY DEF ExactlyOneFate, Fates
<1>3. i \in 1..len
  OBVIOUS
<1> HIDE DEF len
<1>4. QED
  BY <1>1, <1>2, <1>3

\* A handover starts from entries that are new or stale, and counts one.
LEMMA HandingEffect ==
  ASSUME StreamTypeOK, Handing
  PROVE  /\ dlq' = dlq
         /\ \A e \in Entry :
              \/ UNCHANGED <<timesDelivered[e], owner[e], taker[e]>>
                 /\ (e \in pending' => e \in pending)
              \/ /\ e \in stale \/ e \notin Delivered
                 /\ timesDelivered'[e] = timesDelivered[e] + 1
                 /\ taker'[e] \in Process
                 /\ owner'[e] = ConsumerIdentity(taker'[e])
<1>1. PICK p \in Process :
        ReadGroup(p) \/ \E start \in Cursor : AutoClaim(p, start)
  BY DEF Handing
<1>2. ASSUME NEW E \in SUBSET Entry, HandOver(p, E),
             \A e \in E : e \in stale \/ e \notin Delivered
      PROVE  /\ dlq' = dlq
             /\ \A e \in Entry :
                  \/ UNCHANGED <<timesDelivered[e], owner[e], taker[e]>>
                     /\ (e \in pending' => e \in pending)
                  \/ /\ e \in stale \/ e \notin Delivered
                     /\ timesDelivered'[e] = timesDelivered[e] + 1
                     /\ taker'[e] \in Process
                     /\ owner'[e] = ConsumerIdentity(taker'[e])
  BY <1>2 DEF HandOver
<1>3. CASE ReadGroup(p)
  <2>1. \A e \in NewEntries : e \notin Delivered
    <3>1. lastDelivered \in Nat
      BY ConfigAssumption DEF ConfigAssumption, Cursor, StreamTypeOK
    <3>2. \A e \in NewEntries : lastDelivered < e /\ e \in Int
      BY NewEntriesFacts, ConfigAssumption DEF ConfigAssumption, Entry
    <3>3. QED
      BY <3>1, <3>2 DEF Delivered
  <2>2. QED
    BY <1>2, <1>3, <2>1, NewEntriesFacts DEF ReadGroup
<1>4. ASSUME NEW start \in Cursor, AutoClaim(p, start)
      PROVE  HandOver(p, Reclaimable(start)) /\ Reclaimable(start) \subseteq stale
  BY <1>4, BatchSubset DEF AutoClaim, Reclaimable
<1>5. QED
  BY <1>1, <1>2, <1>3, <1>4 DEF StreamTypeOK

\* What the other operations leave alone.
LEMMA ScriptingEffect ==
  Scripting => UNCHANGED <<timesDelivered, owner, taker, lastDelivered>>
               /\ pending' \subseteq pending
  BY DEF Scripting, AckScript, RenewScript, DlqScript

LEMMA EnvironmentEffect ==
  ASSUME StreamTypeOK, GroupFirst,
         UNCHANGED streamVars \/ CreateGroup \/ PublishEvent
           \/ \E e \in Entry : BecomeStale(e)
  PROVE  UNCHANGED <<timesDelivered, owner, taker, dlq, pending, lastDelivered>>
<1>1. CASE UNCHANGED streamVars
  BY <1>1 DEF streamVars, groupVars, pelVars
<1>2. CASE CreateGroup
  <2>1. lastDelivered' = lastDelivered
    BY <1>2 DEF CreateGroup, GroupStart, GroupFirst
  <2>2. QED
    BY <1>2, <2>1 DEF CreateGroup, pelVars
<1>3. CASE PublishEvent
  BY <1>3 DEF PublishEvent, groupVars, pelVars
<1>4. CASE \E e \in Entry : BecomeStale(e)
  BY <1>4 DEF BecomeStale
<1>5. QED
  BY <1>1, <1>2, <1>3, <1>4

LEMMA OwnerStep ==
  StreamTypeOK /\ GroupFirst /\ OwnerIsTaker /\ StreamStep => OwnerIsTaker'
<1> SUFFICES ASSUME StreamTypeOK, GroupFirst, OwnerIsTaker, StreamStep
             PROVE  OwnerIsTaker'
  OBVIOUS
<1>1. ASSUME UNCHANGED <<owner, taker>>, pending' \subseteq pending
      PROVE  OwnerIsTaker'
  BY <1>1 DEF OwnerIsTaker, ConsumerIdentity
<1>2. CASE Handing
  <2>1. StreamTypeOK'
    BY <1>2, StreamTypeStep
  <2>2. SUFFICES ASSUME NEW e \in pending'
                 PROVE  taker'[e] \in Process /\ owner'[e] = ConsumerIdentity(taker'[e])
    BY DEF OwnerIsTaker, ConsumerIdentity
  <2>3. e \in Entry
    BY <2>1, <2>2 DEF StreamTypeOK
  <2>4. QED
    BY <1>2, <2>3, HandingEffect DEF OwnerIsTaker
<1>3. CASE Scripting
  BY <1>1, <1>3, ScriptingEffect
<1>4. QED
  BY <1>1, <1>2, <1>3, EnvironmentEffect DEF StreamStep

LEMMA CeilingStep ==
  StreamTypeOK /\ GroupFirst /\ ExactlyOneFate /\ CeilingRespected /\ StreamStep
    => CeilingRespected'
<1> SUFFICES ASSUME StreamTypeOK, GroupFirst, ExactlyOneFate, CeilingRespected,
                    StreamStep, NEW f \in Entry, NEW i \in 1..Len(dlq'[f])
             PROVE  /\ dlq'[f][i].attempts = timesDelivered'[f]
                    /\ dlq'[f][i].code = "transient"
                         => dlq'[f][i].attempts >= MaxDeliveries
  BY DEF CeilingRespected
<1>1. ASSUME dlq'[f] = dlq[f], timesDelivered'[f] = timesDelivered[f]
      PROVE  /\ dlq'[f][i].attempts = timesDelivered'[f]
             /\ dlq'[f][i].code = "transient"
                  => dlq'[f][i].attempts >= MaxDeliveries
  BY <1>1 DEF CeilingRespected
<1>2. CASE Handing
  <2>1. dlq' = dlq
    BY <1>2, HandingEffect
  <2>2. f \in Delivered /\ f \notin stale
    BY <2>1, DeadLetteredHasLeft DEF StreamTypeOK
  <2>3. QED
    BY <1>1, <1>2, <2>1, <2>2, HandingEffect
<1>3. CASE Scripting
  <2>1. PICK p \in Process, e \in Entry, n \in Nat :
          \/ AckScript(p, e, n)
          \/ RenewScript(p, e, n)
          \/ \E code \in Verdict : /\ code = "transient" => n >= MaxDeliveries
                                   /\ DlqScript(p, e, n, code)
    BY <1>3 DEF Scripting
  <2>2. timesDelivered' = timesDelivered
    BY <1>3, ScriptingEffect
  <2>3. CASE AckScript(p, e, n)
    BY <1>1, <2>2, <2>3 DEF AckScript
  <2>4. CASE RenewScript(p, e, n)
    BY <1>1, <2>2, <2>4 DEF RenewScript
  <2>5. ASSUME NEW code \in Verdict, code = "transient" => n >= MaxDeliveries,
               DlqScript(p, e, n, code)
        PROVE  /\ dlq'[f][i].attempts = timesDelivered'[f]
               /\ dlq'[f][i].code = "transient"
                    => dlq'[f][i].attempts >= MaxDeliveries
    <3>1. CASE Fence(p, e, n) /\ f = e
      <4> DEFINE r == [code |-> code, attempts |-> n]
                 len == Len(dlq[e])
      <4>1. dlq'[e] = Append(dlq[e], r) /\ Len(dlq'[e]) = len + 1
        BY <2>5, <3>1, DlqAppends
      <4>2. len = 0
        <5>1. len \in Nat
          BY LenIsNat
        <5>2. e \in pending
          BY <3>1 DEF Fence
        <5>3. len # 0 => 1 \in 1..len
          BY <5>1
        <5>4. QED
          BY <5>2, <5>3, DeadLetteredHasLeft
      <4>3. i = 1
        BY <3>1, <4>1, <4>2
      <4>4. dlq[e] \in Seq([code : Verdict, attempts : Nat])
        BY DEF StreamTypeOK
      <4>5. dlq'[e][1] = r
        <5> HIDE DEF r
        <5>1. QED
          BY <4>1, <4>2, <4>4
      <4>6. QED
        BY <2>2, <2>5, <3>1, <4>3, <4>5 DEF Fence
    <3>2. CASE Fence(p, e, n) /\ f # e
      BY <1>1, <2>2, <2>5, <3>2, DlqAppends
    <3>3. CASE ~Fence(p, e, n)
      BY <1>1, <2>2, <2>5, <3>3 DEF DlqScript
    <3>4. QED
      BY <3>1, <3>2, <3>3
  <2>6. QED
    BY <2>1, <2>3, <2>4, <2>5
<1>4. QED
  BY <1>1, <1>2, <1>3, EnvironmentEffect DEF StreamStep

-----------------------------------------------------------------------------
(* The processes. *)

\* A verdict that becomes a dead-letter record respects the ceiling.
LEMMA SettlementFacts ==
  ASSUME TypeOK, NEW p \in Process
  PROVE  /\ Settlement(p) \in {"ack", "dlq", "none"}
         /\ Settlement(p) = "dlq" /\ verdict[p] = "transient"
              => attempts[p] >= MaxDeliveries
  BY ConsumerAssumption DEF ConsumerAssumption, Settlement, TypeOK

LEMMA ProcessStepIsStreamStep ==
  ASSUME TypeOK, GroupFirst, NEW p \in Process, Setup(p) \/ Step(p)
  PROVE  StreamStep
<1> USE DEF StreamStep
<1>1. CASE Setup(p)
  BY <1>1 DEF Setup
<1>2. CASE Claim(p)
  BY <1>2 DEF Claim, Handing, GroupFirst, Up, TypeOK
<1>3. CASE Read(p)
  BY <1>3 DEF Read, Handing, GroupFirst, Up
<1>4. CASE Renew(p)
  BY <1>4 DEF Renew, Scripting, TypeOK
<1>5. CASE Settle(p)
  <2>1. entry[p] \in Entry /\ attempts[p] \in Nat /\ verdict[p] \in Verdict
    BY <1>5 DEF Settle, TypeOK
  <2>2. CASE AckScript(p, entry[p], attempts[p])
    BY <2>1, <2>2 DEF Scripting
  <2>3. CASE Settlement(p) = "dlq" /\ DlqScript(p, entry[p], attempts[p], verdict[p])
    BY <2>1, <2>3, SettlementFacts DEF Scripting
  <2>4. CASE UNCHANGED streamVars
    BY <2>4
  <2>5. QED
    BY <1>5, <2>2, <2>3, <2>4 DEF Settle
<1>6. CASE \/ Loop(p) \/ NextEntry(p) \/ BatchDone(p) \/ CountDeliveries(p)
           \/ GuardFails(p) \/ Return(p)
  BY <1>6 DEF Loop, NextEntry, BatchDone, CountDeliveries, GuardFails, Return
<1>7. QED
  BY <1>1, <1>2, <1>3, <1>4, <1>5, <1>6 DEF Step

LEMMA ApplyLateIsStreamStep ==
  ASSUME TypeOK, GroupFirst, CommandsRespectCeiling,
         NEW c \in inflight, ApplyLate(c)
  PROVE  StreamStep
<1>1. /\ c.op \in Op /\ c.process \in Process /\ c.attempts \in Nat
      /\ c.entry \in Cursor /\ c.code \in Verdict
      /\ c.op \in {"renew", "ack", "dlq"} => c.entry \in Entry
      /\ c.op = "dlq" /\ c.code = "transient" => c.attempts >= MaxDeliveries
  BY DEF TypeOK, Command, CommandsRespectCeiling
<1>2. group
  BY DEF GroupFirst
<1>3. CASE c.op = "claim"
  BY <1>1, <1>2, <1>3 DEF ApplyLate, StreamStep, Handing
<1>4. CASE c.op = "read"
  BY <1>1, <1>2, <1>4 DEF ApplyLate, StreamStep, Handing
<1>5. CASE c.op = "renew"
  BY <1>1, <1>5 DEF ApplyLate, StreamStep, Scripting
<1>6. CASE c.op = "ack"
  BY <1>1, <1>6 DEF ApplyLate, StreamStep, Scripting
<1>7. CASE c.op = "dlq"
  BY <1>1, <1>7 DEF ApplyLate, StreamStep, Scripting
<1>8. QED
  BY <1>1, <1>3, <1>4, <1>5, <1>6, <1>7 DEF Op

\* Every step of the system changes the stream by one of its operations.
LEMMA NextIsStreamStep ==
  ASSUME TypeOK, GroupFirst, CommandsRespectCeiling, [Next]_vars
  PROVE  StreamStep
<1>1. ASSUME NEW p \in Process, Stop(p) \/ Crash(p) \/ LoseReply(p)
      PROVE  StreamStep
  BY <1>1 DEF Stop, Crash, LoseReply, StreamStep
<1>2. CASE Publish
  BY <1>2 DEF Publish, StreamStep
<1>3. ASSUME NEW e \in Entry, GoStale(e) PROVE StreamStep
  BY <1>3 DEF GoStale, StreamStep
<1>4. CASE UNCHANGED vars
  BY <1>4 DEF vars, StreamStep
<1>5. QED
  BY <1>1, <1>2, <1>3, <1>4, ProcessStepIsStreamStep, ApplyLateIsStreamStep DEF Next

LEMMA TypeStep ==
  ASSUME TypeOK, GroupFirst, CommandsRespectCeiling, [Next]_vars
  PROVE  TypeOK'
<1>1. StreamTypeOK'
  BY NextIsStreamStep, StreamTypeStep DEF TypeOK
<1> USE <1>1 DEF TypeOK, Goto, PC
<1>2. ASSUME NEW p \in Process, Setup(p) PROVE TypeOK'
  BY <1>2 DEF Setup, faultVars
<1>3. ASSUME NEW p \in Process, Loop(p) PROVE TypeOK'
  BY <1>3 DEF Loop, faultVars
<1>4. ASSUME NEW p \in Process, Claim(p) PROVE TypeOK'
  <2>1. Reclaimable(cursor[p]) \subseteq Entry
    BY BatchSubset DEF Reclaimable, StreamTypeOK
  <2>2. batch' \in [Process -> SUBSET Entry]
    BY <1>4, <2>1 DEF Claim
  <2>3. cursor' \in [Process -> Cursor]
    BY <1>4 DEF Claim, SaveCursor, ReturnedCursor
  <2>4. QED
    BY <1>4, <2>2, <2>3 DEF Claim, faultVars
<1>5. ASSUME NEW p \in Process, Read(p) PROVE TypeOK'
  <2>1. batch' \in [Process -> SUBSET Entry]
    BY <1>5, NewEntriesFacts DEF Read
  <2>2. QED
    BY <1>5, <2>1 DEF Read, AfterOnce, faultVars
<1>6. ASSUME NEW p \in Process, NextEntry(p) PROVE TypeOK'
  <2>1. PICK e \in batch[p] : /\ entry' = [entry EXCEPT ![p] = e]
                              /\ batch' = [batch EXCEPT ![p] = @ \ {e}]
    BY <1>6 DEF NextEntry
  <2>2. e \in Entry /\ e \in Cursor
    BY ConfigAssumption DEF ConfigAssumption, Entry, Cursor
  <2>3. QED
    BY <1>6, <2>1, <2>2 DEF NextEntry, faultVars
<1>7. ASSUME NEW p \in Process, BatchDone(p) PROVE TypeOK'
  BY <1>7 DEF BatchDone, AfterOnce, faultVars
<1>8. ASSUME NEW p \in Process, CountDeliveries(p) PROVE TypeOK'
  <2>1. DeliveryCount(entry[p]) \in Nat /\ DeliveryCount(entry[p]) >= 1
    BY <1>8 DEF CountDeliveries, DeliveryCount, StreamTypeOK
  <2>2. QED
    BY <1>8, <2>1 DEF CountDeliveries, Verdict, faultVars
<1>9. ASSUME NEW p \in Process, Renew(p) PROVE TypeOK'
  BY <1>9 DEF Renew, Decide, Verdict, faultVars
<1>10. ASSUME NEW p \in Process, GuardFails(p) PROVE TypeOK'
  BY <1>10 DEF GuardFails, Decide, Verdict, faultVars
<1>11. ASSUME NEW p \in Process, Return(p) PROVE TypeOK'
  BY <1>11 DEF Return, Decide, Verdict, faultVars
<1>12. ASSUME NEW p \in Process, Settle(p) PROVE TypeOK'
  BY <1>12, ConfigAssumption
  DEF Settle, NoEntry, Cursor, ConfigAssumption, Verdict, faultVars
<1>13. ASSUME NEW p \in Process, Stop(p) PROVE TypeOK'
  BY <1>13 DEF Stop, faultVars
<1>14. ASSUME NEW p \in Process, Crash(p) PROVE TypeOK'
  BY <1>14, ConfigAssumption
  DEF Crash, NoEntry, Cursor, ConfigAssumption, Verdict, faultVars
<1>15. ASSUME NEW p \in Process, LoseReply(p) PROVE TypeOK'
  <2>1. PICK s \in Sent(p) :
          inflight' = inflight \cup
            {[op |-> s[1], process |-> p, entry |-> s[2],
              attempts |-> attempts[p], code |-> verdict[p]]}
    BY <1>15 DEF LoseReply
  <2>2. /\ s[1] \in Op /\ s[2] \in Cursor
        /\ s[1] \in {"renew", "ack", "dlq"} => s[2] \in Entry
    BY ConfigAssumption, SettlementFacts
    DEF Sent, Op, NoEntry, Cursor, ConfigAssumption
  <2>3. inflight' \subseteq Command
    BY <2>1, <2>2 DEF Command
  <2>4. \A c \in inflight' : c.op \in {"renew", "ack", "dlq"} => c.entry \in Entry
    BY <2>1, <2>2
  <2>5. QED
    BY <1>15, <2>3, <2>4 DEF LoseReply, processVars
<1>16. ASSUME NEW c \in inflight, ApplyLate(c) PROVE TypeOK'
  BY <1>16 DEF ApplyLate, processVars
<1>17. ASSUME Publish \/ (\E e \in Entry : GoStale(e)) PROVE TypeOK'
  BY <1>17 DEF Publish, GoStale, processVars, faultVars
<1>18. CASE UNCHANGED vars
  BY <1>18 DEF vars, processVars, faultVars
<1>19. QED
  BY <1>2, <1>3, <1>4, <1>5, <1>6, <1>7, <1>8, <1>9, <1>10, <1>11, <1>12,
     <1>13, <1>14, <1>15, <1>16, <1>17, <1>18 DEF Next, Step

\* No step destroys the group, and only its creation brings a process up.
LEMMA GroupFirstStep ==
  ASSUME TypeOK, GroupFirst, CommandsRespectCeiling, [Next]_vars
  PROVE  GroupFirst'
<1>1. group => group'
  <2>1. StreamStep
    BY NextIsStreamStep
  <2>2. QED
    BY <2>1 DEF StreamStep, streamVars, groupVars, CreateGroup, PublishEvent,
       BecomeStale, Handing, ReadGroup, AutoClaim, HandOver, Scripting,
       AckScript, RenewScript, DlqScript
<1>2. ~group' => lastDelivered' = 0
  <2>1. CASE Handing
    BY <1>1, <2>1 DEF Handing
  <2>2. CASE Scripting
    BY <1>1, <2>2, ScriptingEffect DEF GroupFirst
  <2>3. CASE UNCHANGED streamVars \/ CreateGroup \/ PublishEvent
               \/ \E e \in Entry : BecomeStale(e)
    BY <1>1, <2>3, EnvironmentEffect DEF GroupFirst, TypeOK
  <2>4. QED
    BY <2>1, <2>2, <2>3, NextIsStreamStep DEF StreamStep
<1>3. \A p \in Process : Up(p)' => Up(p) \/ group'
  <2>1. pc \in [Process -> PC]
    BY DEF TypeOK
  <2>2. ASSUME NEW p \in Process, Setup(p)
        PROVE  \A q \in Process : Up(q)' => Up(q) \/ group'
    BY <2>1, <2>2 DEF Setup, CreateGroup, Goto, Up
  <2>3. ASSUME NEW p \in Process, Step(p)
        PROVE  Up(p) /\ \E l \in PC : Goto(p, l)
    BY <2>3 DEF Step, Loop, Claim, Read, NextEntry, BatchDone, CountDeliveries, Renew,
                GuardFails, Return, Settle, Decide, Goto, AfterOnce, Up, PC
  <2>4. ASSUME NEW p \in Process, Step(p)
        PROVE  \A q \in Process : Up(q)' => Up(q)
    BY <2>1, <2>3, <2>4 DEF Goto, Up
  <2>5. ASSUME NEW p \in Process, Crash(p)
        PROVE  \A q \in Process : Up(q)' => Up(q)
    BY <2>1, <2>5 DEF Crash, Goto, Up
  <2>6. ASSUME UNCHANGED pc
        PROVE  \A q \in Process : Up(q)' => Up(q)
    BY <2>6 DEF Up
  <2>7. CASE \/ UNCHANGED vars \/ Publish \/ \E e \in Entry : GoStale(e)
             \/ \E c \in inflight : ApplyLate(c)
             \/ \E p \in Process : Stop(p) \/ LoseReply(p)
    BY <2>6, <2>7 DEF vars, processVars, Publish, GoStale, ApplyLate, Stop, LoseReply
  <2>8. QED
    BY <2>2, <2>4, <2>5, <2>7 DEF Next
<1>4. inflight' # {} => inflight # {} \/ \E p \in Process : Up(p)
  BY DEF Next, Step, vars, faultVars, Up, Setup, Loop, Claim, Read, NextEntry,
     BatchDone, CountDeliveries, Renew, GuardFails, Return, Settle, Stop, Crash,
     LoseReply, Sent, ApplyLate, Publish, GoStale
<1>5. QED
  BY <1>1, <1>2, <1>3, <1>4 DEF GroupFirst

LEMMA CommandsStep ==
  ASSUME TypeOK, CommandsRespectCeiling, [Next]_vars
  PROVE  CommandsRespectCeiling'
<1>1. ASSUME inflight' \subseteq inflight PROVE CommandsRespectCeiling'
  BY <1>1 DEF CommandsRespectCeiling
<1>2. ASSUME NEW p \in Process, LoseReply(p) PROVE CommandsRespectCeiling'
  <2>1. PICK s \in Sent(p) :
          inflight' = inflight \cup
            {[op |-> s[1], process |-> p, entry |-> s[2],
              attempts |-> attempts[p], code |-> verdict[p]]}
    BY <1>2 DEF LoseReply
  <2>2. s[1] = "dlq" => Settlement(p) = "dlq"
    BY DEF Sent
  <2>3. QED
    BY <2>1, <2>2, SettlementFacts DEF CommandsRespectCeiling
<1>3. ASSUME NEW c \in inflight, ApplyLate(c) PROVE CommandsRespectCeiling'
  BY <1>1, <1>3 DEF ApplyLate
<1>4. ASSUME NEW p \in Process, Setup(p) \/ Step(p) \/ Stop(p) \/ Crash(p)
      PROVE  CommandsRespectCeiling'
  BY <1>1, <1>4 DEF Step, faultVars, Setup, Loop, Claim, Read, NextEntry,
     BatchDone, CountDeliveries, Renew, GuardFails, Return, Settle, Stop, Crash
<1>5. CASE UNCHANGED vars \/ Publish \/ \E e \in Entry : GoStale(e)
  BY <1>1, <1>5 DEF vars, faultVars, Publish, GoStale
<1>6. QED
  BY <1>2, <1>3, <1>4, <1>5 DEF Next

-----------------------------------------------------------------------------
(* The inductive invariant and the theorems. *)

LEMMA InitIInv == Init => IInv
<1> SUFFICES ASSUME Init PROVE IInv
  OBVIOUS
<1> USE DEF Init, StreamInit
<1>1. 0 \in Cursor
  BY ConfigAssumption DEF ConfigAssumption, Cursor
<1>2. StreamTypeOK
  <2>1. <<>> \in Seq([code : Verdict, attempts : Nat])
    OBVIOUS
  <2>2. dlq \in [Entry -> Seq([code : Verdict, attempts : Nat])]
    BY <2>1
  <2>3. owner \in [Entry -> {Label} \X (Process \cup {Label})]
    OBVIOUS
  <2>4. taker \in [Entry -> Process \cup {Label}] /\ timesDelivered \in [Entry -> Nat]
    OBVIOUS
  <2>5. published \in Cursor /\ lastDelivered \in Cursor /\ lastDelivered <= published
    BY <1>1
  <2>6. QED
    BY <2>2, <2>3, <2>4, <2>5 DEF StreamTypeOK
<1>3. TypeOK
  BY <1>1, <1>2 DEF TypeOK, PC, NoEntry, Verdict
<1>4. GroupFirst /\ CommandsRespectCeiling /\ OwnerIsTaker
  BY DEF GroupFirst, CommandsRespectCeiling, OwnerIsTaker, Up
<1>5. \A e \in Entry : Len(dlq[e]) = 0 /\ e \notin Delivered
  BY DEF Delivered, Entry
<1>6. ExactlyOneFate /\ CeilingRespected
  BY <1>5 DEF ExactlyOneFate, CeilingRespected, Fates
<1>7. QED
  BY <1>3, <1>4, <1>6 DEF IInv

LEMMA NextIInv == IInv /\ [Next]_vars => IInv'
<1> SUFFICES ASSUME IInv, [Next]_vars PROVE IInv'
  OBVIOUS
<1> USE DEF IInv
<1>1. StreamStep /\ StreamTypeOK
  BY NextIsStreamStep DEF TypeOK
<1>2. QED
  BY <1>1, TypeStep, GroupFirstStep, CommandsStep, OwnerStep, FatesStep, CeilingStep

\* The variables of the consumer and of the stream keep their types; what a
\* process acts on is an entry, at a delivery count of at least one.
THEOREM TypeCorrect == Spec => []TypeOK
<1>1. Spec => []IInv
  BY InitIInv, NextIInv, PTL DEF Spec
<1>2. IInv => TypeOK
  BY DEF IInv
<1>3. QED
  BY <1>1, <1>2, PTL

\* The inductive invariant holds in every reachable state.
THEOREM Invariance == Spec => []IInv
  BY InitIInv, NextIInv, PTL DEF Spec

\* No event is lost or recorded twice, for any number of workers, crashes,
\* handovers and late or repeated scripts.
THEOREM FateTheorem == Spec => []ExactlyOneFate
<1>1. IInv => ExactlyOneFate
  BY DEF IInv
<1>2. QED
  BY <1>1, Invariance, PTL

\* The dead-letter stream tells the true delivery count, and transient
\* failures end there only at the ceiling.
THEOREM CeilingTheorem == Spec => []CeilingRespected
<1>1. IInv => CeilingRespected
  BY DEF IInv
<1>2. QED
  BY <1>1, Invariance, PTL

\* Only the process Redis last handed an entry to settles it.
THEOREM HolderTheorem == Spec => OnlyHolderSettles
<1> DEFINE A == \A e \in Entry :
                  e \in pending /\ e \notin pending' => SettledBy(taker[e], e)
<1>1. IInv /\ [Next]_vars => [A]_vars
  <2> SUFFICES ASSUME IInv, [Next]_vars, NEW e \in Entry,
                      e \in pending, e \notin pending'
               PROVE  SettledBy(taker[e], e)
    OBVIOUS
  <2>1. ASSUME NEW p \in Process, NEW f \in Entry, NEW n \in Nat,
               \/ AckScript(p, f, n)
               \/ \E code \in Verdict : DlqScript(p, f, n, code)
        PROVE  e = f /\ p = taker[e]
    <3>1. e = f /\ owner[e] = ConsumerIdentity(p)
      BY <2>1 DEF AckScript, DlqScript, Fence
    <3>2. QED
      BY <3>1 DEF IInv, OwnerIsTaker, ConsumerIdentity
  <2>2. ASSUME NEW p \in Process, Settle(p) PROVE SettledBy(taker[e], e)
    <3>1. /\ pc[p] = "settle" /\ pc'[p] = "batch"
          /\ entry[p] \in Entry /\ attempts[p] \in Nat /\ verdict[p] \in Verdict
      BY <2>2 DEF Settle, Goto, IInv, TypeOK
    <3>2. \/ AckScript(p, entry[p], attempts[p])
          \/ DlqScript(p, entry[p], attempts[p], verdict[p])
          \/ UNCHANGED streamVars
      BY <2>2 DEF Settle
    <3>3. ~UNCHANGED streamVars
      BY DEF streamVars, groupVars, pelVars
    <3>4. QED
      BY <2>1, <3>1, <3>2, <3>3 DEF SettledBy
  <2>3. ASSUME NEW c \in inflight, ApplyLate(c) PROVE SettledBy(taker[e], e)
    <3>1. /\ c \notin inflight' /\ c.process \in Process /\ c.attempts \in Nat
          /\ c.code \in Verdict /\ c.op \in Op
          /\ c.op \in {"renew", "ack", "dlq"} => c.entry \in Entry
      BY <2>3 DEF ApplyLate, IInv, TypeOK, Command
    <3>2. c.op \in {"ack", "dlq"}
      <4>1. c.op # "claim" /\ c.op # "read"
        BY <2>3 DEF ApplyLate, AutoClaim, ReadGroup, HandOver
      <4>2. c.op # "renew"
        BY <2>3 DEF ApplyLate, RenewScript
      <4>3. QED
        BY <3>1, <4>1, <4>2 DEF Op
    <3>3. c.entry = e /\ c.process = taker[e]
      BY <2>1, <2>3, <3>1, <3>2 DEF ApplyLate
    <3>4. QED
      BY <3>1, <3>2, <3>3 DEF SettledBy
  <2>4. ASSUME NEW p \in Process, Setup(p) \/ (Step(p) /\ ~Settle(p))
        PROVE  FALSE
    BY <2>4 DEF Setup, Step, Loop, Claim, Read, NextEntry, BatchDone,
       CountDeliveries, Renew, GuardFails, Return, CreateGroup, AutoClaim,
       ReadGroup, HandOver, RenewScript, streamVars, groupVars, pelVars
  <2>5. ASSUME NEW p \in Process, Stop(p) \/ Crash(p) \/ LoseReply(p) PROVE FALSE
    BY <2>5 DEF Stop, Crash, LoseReply, streamVars, groupVars, pelVars
  <2>6. CASE UNCHANGED vars \/ Publish \/ \E f \in Entry : GoStale(f)
    BY <2>6 DEF vars, streamVars, groupVars, pelVars, Publish, PublishEvent,
       GoStale, BecomeStale
  <2>7. QED
    BY <2>2, <2>3, <2>4, <2>5, <2>6 DEF Next
<1>2. QED
  BY <1>1, Invariance, PTL DEF Spec, OnlyHolderSettles

\* Delivery budget is spent, and an owner replaced, only by the handover of a
\* new or a stale entry, and by one.
THEOREM BudgetTheorem == Spec => BudgetSpentOnHandoverOnly
<1> DEFINE A == \A e \in Entry : Handed(e) =>
                  /\ e \in stale \/ e \notin Delivered
                  /\ timesDelivered'[e] = timesDelivered[e] + 1
<1>1. IInv /\ [Next]_vars => [A]_vars
  <2> SUFFICES ASSUME IInv, [Next]_vars PROVE A
    OBVIOUS
  <2>1. StreamStep /\ StreamTypeOK /\ GroupFirst
    BY NextIsStreamStep DEF IInv, TypeOK
  <2>2. CASE Handing
    BY <2>1, <2>2, HandingEffect DEF Handed
  <2>3. CASE Scripting
    BY <2>3, ScriptingEffect DEF Handed
  <2>4. CASE UNCHANGED streamVars \/ CreateGroup \/ PublishEvent
               \/ \E e \in Entry : BecomeStale(e)
    BY <2>1, <2>4, EnvironmentEffect DEF Handed
  <2>5. QED
    BY <2>1, <2>2, <2>3, <2>4 DEF StreamStep
<1>2. QED
  BY <1>1, Invariance, PTL DEF Spec, BudgetSpentOnHandoverOnly

=============================================================================
