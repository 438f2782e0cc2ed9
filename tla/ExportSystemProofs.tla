-------------------------- MODULE ExportSystemProofs --------------------------
(*****************************************************************************)
(* Proofs about ExportSystem for every number of processes, entries and      *)
(* calls.  A step of the system is a step of the consumers and a step of the *)
(* attempts, so the invariants proved of ExportConsumer and ExportProcessor  *)
(* hold of the system; what is new here is what relates the two sides.       *)
(*****************************************************************************)
EXTENDS ExportSystem, ExportConsumerProofs

PP == INSTANCE ExportProcessorProofs
        WITH Misaddressed <- {}, verdict <- result

\* What ExportProcessor assumes of its constants.
LEMMA AttemptAssumptions == PP!ContractAssumption /\ PP!ProcessorAssumption
BY SystemAssumption DEF SystemAssumption, PP!ContractAssumption, PP!ProcessorAssumption

\* The attempts of ExportSystem are those ExportProcessorProofs speaks of.
LEMMA SameInit == P!Init <=> PP!Init
BY DEF P!Init, PP!Init, P!ContractInit, PP!ContractInit

LEMMA SameType == (P!TypeOK <=> PP!TypeOK) /\ (P!TypeOK' <=> PP!TypeOK')
BY DEF P!TypeOK, PP!TypeOK, P!ContractTypeOK, PP!ContractTypeOK,
   P!Artifact, PP!Artifact, P!Status, PP!Status, P!Post, PP!Post,
   P!Stage, PP!Stage, P!Verdict, PP!Verdict, P!Terminal, PP!Terminal

LEMMA SameStore ==
  ASSUME NEW a, NEW s, NEW b
  PROVE  /\ P!FixCanonical(s, b) <=> PP!FixCanonical(s, b)
         /\ P!CreateUnanswered(s) <=> PP!CreateUnanswered(s)
         /\ P!CreateAndReturn(a, s) <=> PP!CreateAndReturn(a, s)
         /\ P!ReturnExisting(a, s) <=> PP!ReturnExisting(a, s)
         /\ P!RefuseExisting(a, s) <=> PP!RefuseExisting(a, s)
         /\ P!GiveUp(a) <=> PP!GiveUp(a)
BY DEF P!FixCanonical, PP!FixCanonical, P!CreateUnanswered, PP!CreateUnanswered,
   P!CreateAndReturn, PP!CreateAndReturn, P!ReturnExisting, PP!ReturnExisting,
   P!RefuseExisting, PP!RefuseExisting, P!GiveUp, PP!GiveUp, P!End, PP!End,
   P!CreateFinal, PP!CreateFinal, P!CopyOf, PP!CopyOf

LEMMA SameStep == ASSUME NEW a, P!Step(a) PROVE PP!Step(a)
<1> USE SameStore DEF P!contractVars, PP!contractVars, P!apiVars, PP!apiVars,
      P!faultVars, PP!faultVars, P!attemptVars, PP!attemptVars, P!Goto, PP!Goto,
      P!Finish, PP!Finish, P!WorkOn, PP!WorkOn, P!Claimed, PP!Claimed,
      P!Report, PP!Report
<1>1. P!Claim(a) => PP!Claim(a)
  BY DEF P!Claim, PP!Claim, P!ClaimConflicts, PP!ClaimConflicts,
     P!FetchAfterConflict, PP!FetchAfterConflict
<1>2. P!ClaimFetch(a) => PP!ClaimFetch(a)
  BY DEF P!ClaimFetch, PP!ClaimFetch
<1>3. P!Diagnostics(a) => PP!Diagnostics(a)
  BY DEF P!Diagnostics, PP!Diagnostics
<1>4. P!Render(a) => PP!Render(a)
  BY DEF P!Render, PP!Render
<1>5. P!Canonicalize(a) => PP!Canonicalize(a)
  BY DEF P!Canonicalize, PP!Canonicalize
<1>6. P!Store(a) => PP!Store(a)
  BY DEF P!Store, PP!Store
<1>7. P!Complete(a) => PP!Complete(a)
  BY DEF P!Complete, PP!Complete, P!Completed, PP!Completed, P!AlreadyCompleted,
     PP!AlreadyCompleted, P!CompletionConflicts, PP!CompletionConflicts
<1>8. P!Recover(a) => PP!Recover(a)
  BY DEF P!Recover, PP!Recover, P!Recovered, PP!Recovered
<1> QED
  BY <1>1, <1>2, <1>3, <1>4, <1>5, <1>6, <1>7, <1>8 DEF P!Step, PP!Step

LEMMA SameNext == P!Next => PP!Next
<1> USE SameStore DEF P!contractVars, PP!contractVars, P!apiVars, PP!apiVars,
      P!faultVars, PP!faultVars, P!attemptVars, PP!attemptVars,
      P!Finish, PP!Finish, P!Report, PP!Report
<1>1. ASSUME NEW a, P!Interrupt(a) PROVE PP!Interrupt(a)
  BY <1>1 DEF P!Interrupt, PP!Interrupt, P!Sent, PP!Sent
<1>2. ASSUME NEW a, P!LatePut(a) PROVE PP!LatePut(a)
  BY <1>2 DEF P!LatePut, PP!LatePut
<1>3. ASSUME NEW r, P!LatePost(r) PROVE PP!LatePost(r)
  BY <1>3 DEF P!LatePost, PP!LatePost, P!Claimed, PP!Claimed, P!Completed, PP!Completed
<1>4. P!Delete => PP!Delete
  BY DEF P!Delete, PP!Delete
<1> QED
  BY <1>1, <1>2, <1>3, <1>4, SameStep DEF P!Next, PP!Next

\* What ExportProcessorProofs proves, of the attempts of ExportSystem.
LEMMA AttemptsInit == P!Init => PP!IInv
BY SameInit, AttemptAssumptions, PP!Initially

LEMMA AttemptsStep ==
  ASSUME PP!IInv, [P!Next]_P!vars
  PROVE  PP!IInv' /\ (completedWith # Nothing => completedWith' = completedWith)
                  /\ (final # Nothing => final' = final)
<1>1. [PP!Next]_PP!vars
  BY SameNext DEF P!vars, PP!vars, P!contractVars, PP!contractVars, P!apiVars, PP!apiVars,
     P!faultVars, PP!faultVars, P!attemptVars, PP!attemptVars
<1>2. PP!IInv'
  BY <1>1, AttemptAssumptions, PP!Inductive
<1>3. CASE UNCHANGED PP!vars
  BY <1>2, <1>3 DEF PP!vars, PP!contractVars, PP!apiVars
<1>4. CASE PP!Next
  <2>1. PP!WriteOnce
    BY <1>4, AttemptAssumptions, PP!WriteOnceStep DEF PP!IInv
  <2> QED
    BY <1>2, <2>1 DEF PP!WriteOnce
<1> QED
  BY <1>1, <1>3, <1>4

-----------------------------------------------------------------------------
(* The consumers: what is delivered, and how often. *)

\* What a process has in hand was delivered, and at least as often as it
\* believes.
BudgetKnown ==
  /\ \A e \in Delivered : timesDelivered[e] >= 1
  /\ \A p \in Process : batch[p] \subseteq Delivered
  /\ \A p \in Process : pc[p] \in {"count", "guard", "work", "settle"} =>
       entry[p] \in Delivered
  /\ \A p \in Process : pc[p] \in {"guard", "work", "settle"} =>
       attempts[p] <= timesDelivered[entry[p]]

LEMMA DeliveredType ==
  ASSUME StreamTypeOK
  PROVE  Delivered \subseteq Entry /\ \A e \in Delivered : timesDelivered[e] \in Nat
<1>1. lastDelivered \in Int /\ lastDelivered <= NumEntries
  BY ConfigAssumption DEF ConfigAssumption, StreamTypeOK, Cursor
<1>2. Delivered \subseteq Entry
  BY <1>1, ConfigAssumption DEF ConfigAssumption, Delivered, Entry
<1> QED
  BY <1>2 DEF StreamTypeOK

LEMMA PendingIsDelivered ==
  ASSUME StreamTypeOK, ExactlyOneFate, NEW e \in pending
  PROVE  e \in Delivered
<1> DEFINE len == Len(dlq[e])
<1>1. e \in Entry /\ len \in Nat
  BY LenIsNat DEF StreamTypeOK
<1>2. 1 + (IF e \in acked THEN 1 ELSE 0) + len = IF e \in Delivered THEN 1 ELSE 0
  BY <1>1 DEF ExactlyOneFate, Fates
<1> HIDE DEF len
<1> QED
  BY <1>1, <1>2

\* Reading delivers exactly the new entries.
LEMMA ReadDelivers ==
  ASSUME StreamTypeOK, NEW p \in Process, ReadGroup(p)
  PROVE  /\ Delivered' = Delivered \cup NewEntries
         /\ \A e \in NewEntries : timesDelivered'[e] = timesDelivered[e] + 1
<1>1. /\ lastDelivered \in Int /\ LastRead \in Int /\ 0 <= lastDelivered
      /\ lastDelivered <= LastRead /\ LastRead <= NumEntries
  <2>1. lastDelivered \in Cursor /\ LastRead \in Cursor /\ lastDelivered <= LastRead
    BY NewEntriesFacts DEF StreamTypeOK
  <2> QED
    BY <2>1, ConfigAssumption DEF ConfigAssumption, Cursor
<1>2. \A e : e \in NewEntries <=> e \in Entry /\ lastDelivered < e /\ e <= LastRead
  BY NewEntriesFacts
<1>3. \A e : e \in 1..LastRead <=> e \in 1..lastDelivered \/ e \in NewEntries
  BY <1>1, <1>2, ConfigAssumption DEF ConfigAssumption, Entry
<1>4. NewEntries \subseteq Entry
  BY NewEntriesFacts
<1> QED
  BY <1>3, <1>4 DEF ReadGroup, HandOver, Delivered

\* No operation takes a delivery back.
LEMMA DeliveriesGrow ==
  ASSUME StreamTypeOK, GroupFirst, StreamStep
  PROVE  /\ Delivered \subseteq Delivered'
         /\ \A e \in Delivered : timesDelivered'[e] >= timesDelivered[e]
         /\ (\A e \in Delivered : timesDelivered[e] >= 1)
              => \A e \in Delivered' : timesDelivered'[e] >= 1
<1>0. Delivered \subseteq Entry /\ \A e \in Entry : timesDelivered[e] \in Nat
  BY DeliveredType DEF StreamTypeOK
<1>1. ASSUME UNCHANGED <<timesDelivered, lastDelivered>> 
      PROVE  /\ Delivered \subseteq Delivered'
             /\ \A e \in Delivered : timesDelivered'[e] >= timesDelivered[e]
             /\ (\A e \in Delivered : timesDelivered[e] >= 1)
                  => \A e \in Delivered' : timesDelivered'[e] >= 1
  BY <1>0, <1>1 DEF Delivered
<1>2. CASE Handing
  <2>1. \A e \in Entry : \/ timesDelivered'[e] = timesDelivered[e]
                         \/ timesDelivered'[e] = timesDelivered[e] + 1
    BY <1>2, HandingEffect
  <2>2. PICK p \in Process :
          ReadGroup(p) \/ \E start \in Cursor : AutoClaim(p, start)
    BY <1>2 DEF Handing
  <2>3. CASE ReadGroup(p)
    <3>1. \A e \in NewEntries : timesDelivered'[e] = timesDelivered[e] + 1 /\ e \in Entry
      BY <2>3, ReadDelivers, NewEntriesFacts
    <3> QED
      BY <1>0, <2>1, <2>3, <3>1, ReadDelivers
  <2>4. CASE \E start \in Cursor : AutoClaim(p, start)
    <3>1. Delivered' = Delivered
      BY <2>4 DEF AutoClaim, Delivered
    <3> QED
      BY <1>0, <2>1, <3>1
  <2> QED
    BY <2>2, <2>3, <2>4
<1> QED
  BY <1>1, <1>2, ScriptingEffect, EnvironmentEffect DEF StreamStep

\* A lease that is gone does not come back: another handover counts further,
\* and an entry that left the PEL does not return.
LEMMA LostStays ==
  ASSUME StreamTypeOK, GroupFirst, StreamStep, NEW p \in Process, NEW e \in Delivered,
         NEW n \in Nat, n <= timesDelivered[e], ~Fence(p, e, n)
  PROVE  ~Fence(p, e, n)'
<1>0. e \in Entry /\ timesDelivered[e] \in Nat
  BY DeliveredType
<1>1. CASE Handing
  <2>1. \/ UNCHANGED <<timesDelivered[e], owner[e]>> /\ (e \in pending' => e \in pending)
        \/ timesDelivered'[e] = timesDelivered[e] + 1
        \/ e \notin Delivered
    BY <1>0, <1>1, HandingEffect
  <2> QED
    BY <1>0, <2>1 DEF Fence, ConsumerIdentity
<1>2. CASE Scripting
  BY <1>2, ScriptingEffect DEF Fence, ConsumerIdentity
<1> QED
  BY <1>1, <1>2, EnvironmentEffect DEF StreamStep, Fence, ConsumerIdentity

LEMMA BudgetKnownStep ==
  ASSUME IInv, BudgetKnown, [Next]_vars
  PROVE  BudgetKnown'
<1>0. StreamTypeOK /\ GroupFirst /\ StreamStep /\ ExactlyOneFate /\ TypeOK
  BY NextIsStreamStep DEF IInv, TypeOK
<1> DEFINE Grown == /\ Delivered \subseteq Delivered'
                    /\ \A e \in Delivered : /\ timesDelivered'[e] >= timesDelivered[e]
                                            /\ timesDelivered'[e] \in Nat
                                            /\ timesDelivered[e] \in Nat
                    /\ \A e \in Delivered' : timesDelivered'[e] >= 1
<1>1. Grown
  <2>1. StreamTypeOK'
    BY <1>0, StreamTypeStep
  <2>2. \A e \in Delivered : timesDelivered'[e] \in Nat /\ timesDelivered[e] \in Nat
    BY <1>0, <2>1, DeliveredType DEF StreamTypeOK
  <2> QED
    BY <1>0, <2>2, DeliveriesGrow DEF BudgetKnown
<1> DEFINE Held(p) ==
      /\ batch[p] \subseteq Delivered
      /\ pc[p] \in {"count", "guard", "work", "settle"} => entry[p] \in Delivered
      /\ pc[p] \in {"guard", "work", "settle"} => attempts[p] <= timesDelivered[entry[p]]
      Same(p) == UNCHANGED <<batch[p], entry[p], attempts[p]>>
                 /\ (pc'[p] \in {"count", "guard", "work", "settle"} => pc'[p] = pc[p])
<1>2. \A p \in Process : Held(p) /\ attempts[p] \in Nat
  BY <1>0 DEF BudgetKnown, TypeOK
<1>3. ASSUME NEW p \in Process, Same(p) PROVE Held(p)'
  BY <1>1, <1>2, <1>3
<1>4. CASE UNCHANGED processVars
  BY <1>1, <1>3, <1>4 DEF processVars, BudgetKnown
<1>5. ASSUME NEW p \in Process, Held(p)', \A q \in Process \ {p} : Same(q)
      PROVE  BudgetKnown'
  BY <1>1, <1>3, <1>5 DEF BudgetKnown
<1> HIDE DEF Held, Same, Grown
<1>6. ASSUME NEW p \in Process,
             Setup(p) \/ Step(p) \/ Stop(p) \/ Crash(p) \/ LoseReply(p)
      PROVE  \A q \in Process \ {p} : Same(q)
  BY <1>0, <1>6 DEF Same, TypeOK, Setup, Step, Loop, Claim, Read, NextEntry, BatchDone,
     CountDeliveries, Renew, GuardFails, Return, Settle, Stop, Crash, LoseReply, Goto,
     Decide, processVars
<1>7. ASSUME NEW p \in Process,
             Setup(p) \/ Loop(p) \/ BatchDone(p) \/ Crash(p) \/ Settle(p)
      PROVE  Held(p)'
  <2>1. batch'[p] \subseteq batch[p] /\ pc'[p] \in {"loop", "claim", "down", "batch"}
    BY <1>0, <1>7 DEF TypeOK, Setup, Loop, BatchDone, Crash, Settle, AfterOnce, Goto
  <2> QED
    BY <1>1, <1>2, <2>1 DEF Held, Grown
<1>8. ASSUME NEW p \in Process, Claim(p) PROVE Held(p)'
  <2>1. batch'[p] = Reclaimable(cursor[p]) /\ pc'[p] \in {"read", "batch"}
    BY <1>0, <1>8 DEF TypeOK, Claim, Goto
  <2>2. Reclaimable(cursor[p]) \subseteq pending
    BY <1>0, BatchSubset DEF Reclaimable, StreamTypeOK
  <2> QED
    BY <1>0, <1>1, <2>1, <2>2, PendingIsDelivered DEF Held, Grown
<1>9. ASSUME NEW p \in Process, Read(p) PROVE Held(p)'
  <2>1. batch'[p] = NewEntries /\ pc'[p] \in {"loop", "down", "batch"} /\ ReadGroup(p)
    BY <1>0, <1>9 DEF TypeOK, Read, Goto, AfterOnce
  <2> QED
    BY <1>0, <2>1, ReadDelivers DEF Held
<1>10. ASSUME NEW p \in Process, NextEntry(p) PROVE Held(p)'
  <2>1. batch'[p] \subseteq batch[p] /\ entry'[p] \in batch[p] /\ pc'[p] = "count"
    BY <1>0, <1>10 DEF TypeOK, NextEntry, Goto
  <2> QED
    BY <1>1, <1>2, <2>1 DEF Held, Grown
<1>11. ASSUME NEW p \in Process, CountDeliveries(p) PROVE Held(p)'
  <2>1. /\ batch'[p] = batch[p] /\ entry'[p] = entry[p] /\ pc[p] = "count"
        /\ attempts'[p] = DeliveryCount(entry[p]) /\ UNCHANGED <<timesDelivered, lastDelivered>>
    BY <1>0, <1>11 DEF TypeOK, CountDeliveries, streamVars, groupVars, pelVars
  <2>2. entry[p] \in Delivered /\ DeliveryCount(entry[p]) <= timesDelivered[entry[p]]
    BY <1>1, <1>2, <2>1 DEF Held, Grown, BudgetKnown, DeliveryCount
  <2> QED
    BY <1>1, <1>2, <2>1, <2>2 DEF Held, Grown
<1>12. ASSUME NEW p \in Process, Renew(p) \/ GuardFails(p) \/ Return(p) PROVE Held(p)'
  <2>1. /\ batch'[p] = batch[p] /\ entry'[p] = entry[p] /\ attempts'[p] = attempts[p]
        /\ pc[p] \in {"guard", "work"}
    BY <1>0, <1>12 DEF TypeOK, Renew, GuardFails, Return, Decide
  <2> QED
    BY <1>1, <1>2, <2>1 DEF Held, Grown
<1>13. ASSUME NEW p \in Process, Stop(p) \/ LoseReply(p) PROVE Held(p)'
  <2>1. UNCHANGED <<pc, batch, entry, attempts>>
    BY <1>13 DEF Stop, LoseReply, processVars
  <2> QED
    BY <1>3, <2>1 DEF Same
<1>14. CASE UNCHANGED vars \/ Publish \/ (\E e \in Entry : GoStale(e))
              \/ (\E c \in inflight : ApplyLate(c))
  BY <1>4, <1>14 DEF vars, Publish, GoStale, ApplyLate
<1> QED
  BY <1>5, <1>6, <1>7, <1>8, <1>9, <1>10, <1>11, <1>12, <1>13, <1>14 DEF Next, Step

-----------------------------------------------------------------------------
(* The steps of the system, and what they leave alone. *)

\* A process moves and no attempt does.
Alone(p) ==
  /\ \/ Setup(p) \/ Loop(p) \/ Claim(p) \/ Read(p) \/ NextEntry(p) \/ BatchDone(p)
     \/ Settle(p) \/ Stop(p) \/ LoseReply(p) \/ (Crash(p) /\ ~Processing(p))
  /\ UNCHANGED <<processorVars, callVars>>
Renewed(p) ==
  /\ Renew(p) /\ Holds(p)
  /\ cleared' = [cleared EXCEPT ![p] = TRUE]
  /\ UNCHANGED <<processorVars, calls, call, unanswered, afterLoss>>
\* An attempt ends between two phases, or a phase of it takes place.
Ends(p) ==
  /\ (Renew(p) /\ ~Holds(p)) \/ GuardFails(p) \/ (Crash(p) /\ Processing(p))
  /\ EndBefore(p)
Phase(p) ==
  \/ Request(p) \/ RequestFails(p)
  \/ Crash(p) /\ Processing(p) /\ EndWithin(p)

LEMMA Kinds ==
  SystemNext =>
    \/ \E p \in Process : Alone(p) \/ Begin(p) \/ Renewed(p) \/ Ends(p) \/ Phase(p)
    \/ Elsewhere
BY DEF SystemNext, Progress, Outside, Guard, GuardRaises, Kill, Alone, Renewed, Ends, Phase

LEMMA ConsumersMove ==
  ASSUME [SystemNext]_systemVars
  PROVE  [Next]_vars
<1>1. ASSUME NEW p \in Process, Alone(p) \/ Begin(p) \/ Renewed(p) \/ Ends(p) \/ Phase(p)
      PROVE  [Next]_vars
  BY <1>1 DEF Alone, Begin, Renewed, Ends, Phase, Request, RequestFails, Reply, Next, Step
<1>2. CASE Elsewhere
  BY <1>2 DEF Elsewhere, ApplyPut, Next
<1> QED
  BY <1>1, <1>2, Kinds DEF systemVars

\* Which attempt a process is in.
LEMMA CallType ==
  ASSUME SystemTypeOK, NEW p \in Process
  PROVE  /\ call[p] \in 0..calls /\ calls \in 0..MaxCalls
         /\ Processing(p) => call[p] \in Attempt /\ stage[call[p]] # "done"
<1>1. call[p] \in 0..calls /\ calls \in 0..MaxCalls
  BY DEF SystemTypeOK
<1>2. Processing(p) => call[p] # 0 /\ stage[call[p]] # "done"
  BY DEF SystemTypeOK, Processing
<1> QED
  BY <1>1, <1>2, SystemAssumption DEF SystemAssumption, Attempt

LEMMA WhoEnds ==
  ASSUME NEW p \in Process, Ends(p) \/ Phase(p)
  PROVE  Processing(p)
BY DEF Ends, Phase, Request, RequestFails, Renew, GuardFails, Processing

LEMMA AttemptsMove ==
  ASSUME SystemTypeOK, [SystemNext]_systemVars
  PROVE  [P!Next]_P!vars
<1> USE DEF processorVars, P!vars, P!contractVars, P!apiVars, P!attemptVars, P!faultVars
<1>1. ASSUME NEW p \in Process, Alone(p) \/ Begin(p) \/ Renewed(p)
      PROVE  [P!Next]_P!vars
  BY <1>1 DEF Alone, Begin, Renewed
<1>2. ASSUME NEW p \in Process, Ends(p) \/ Phase(p)
      PROVE  [P!Next]_P!vars
  <2>1. call[p] \in Attempt
    BY <1>2, WhoEnds, CallType
  <2> QED
    BY <1>2, <2>1 DEF Ends, Phase, EndBefore, EndWithin, Request, RequestFails, P!Next
<1>3. CASE Elsewhere
  <2>1. ASSUME NEW u \in unanswered, ApplyPut(u) PROVE P!Next
    <3>1. u.attempt \in Attempt
      BY DEF SystemTypeOK, Put
    <3> QED
      BY <2>1, <3>1 DEF ApplyPut, P!Next
  <2> QED
    BY <1>3, <2>1 DEF Elsewhere, P!Next
<1> QED
  BY <1>1, <1>2, <1>3, Kinds DEF systemVars

\* A process moves itself and its own attempt, nothing of another process.
Kept(p) == UNCHANGED <<pc[p], entry[p], attempts[p], verdict[p], call[p], cleared[p]>>

LEMMA OthersKept ==
  ASSUME TypeOK, SystemTypeOK, NEW p \in Process,
         Alone(p) \/ Begin(p) \/ Renewed(p) \/ Ends(p) \/ Phase(p)
  PROVE  \A q \in Process \ {p} : Kept(q)
<1>1. \A q \in Process \ {p} : UNCHANGED <<pc[q], entry[q], attempts[q], verdict[q]>>
  BY DEF TypeOK, Alone, Begin, Renewed, Ends, Phase, Request, RequestFails, Reply, Setup,
     Loop, Claim, Read, NextEntry, BatchDone, CountDeliveries, Renew, GuardFails, Return,
     Settle, Stop, Crash, LoseReply, Goto, Decide, processVars, vars
<1>2. cleared \in [Process -> BOOLEAN]
  BY DEF SystemTypeOK
<1>3. cleared' = cleared \/ \E b \in BOOLEAN : cleared' = [cleared EXCEPT ![p] = b]
  BY DEF Alone, Begin, Renewed, Ends, Phase, EndBefore, EndWithin, Request, RequestFails,
     BeginPhase, callVars
<1>4. call \in [Process -> 0..calls]
  BY DEF SystemTypeOK
<1>5. call' = call \/ \E n : call' = [call EXCEPT ![p] = n]
  BY DEF Alone, Begin, Renewed, Ends, Phase, EndBefore, EndWithin, Request, RequestFails,
     callVars
<1> QED
  BY <1>1, <1>2, <1>3, <1>4, <1>5 DEF Kept

LEMMA ElsewhereKeeps ==
  ASSUME Elsewhere
  PROVE  /\ \A p \in Process : Kept(p)
         /\ UNCHANGED <<calls, call, cleared, afterLoss, stage, result>>
BY DEF Elsewhere, ApplyPut, Publish, ApplyLate, GoStale, processVars, vars, callVars,
   processorVars, Kept, P!Delete, P!LatePost, P!LatePut, P!attemptVars

\* An attempt moves its own stage and result, nothing of another attempt.
LEMMA OtherAttemptsKept ==
  ASSUME PP!IInv, NEW p \in Process, Ends(p) \/ Phase(p)
  PROVE  \A b \in Attempt \ {call[p]} : stage'[b] = stage[b] /\ result'[b] = result[b]
<1> DEFINE a == call[p]
<1>1. P!Step(a) \/ P!Interrupt(a)
  BY DEF Ends, Phase, EndBefore, EndWithin, Request, RequestFails
<1>2. DOMAIN stage = Attempt /\ DOMAIN result = Attempt
  BY DEF PP!IInv, PP!TypeOK
<1> HIDE DEF a
<1>3. \/ UNCHANGED <<stage, result>>
      \/ \E s, v : stage' = [stage EXCEPT ![a] = s] /\ result' = [result EXCEPT ![a] = v]
      \/ \E s : stage' = [stage EXCEPT ![a] = s] /\ result' = result
  BY <1>1 DEF P!Step, P!Interrupt, P!Claim, P!ClaimFetch, P!Diagnostics, P!Render,
     P!Canonicalize, P!Store, P!Complete, P!Recover, P!WorkOn, P!FetchAfterConflict,
     P!Goto, P!Finish, P!attemptVars
<1>4. \A b \in Attempt \ {a} : stage'[b] = stage[b] /\ result'[b] = result[b]
  BY <1>2, <1>3
<1> QED
  BY <1>4 DEF a

-----------------------------------------------------------------------------
(* Every process is in a call of its own. *)

OwnCalls ==
  /\ \A p, q \in Process :
       Processing(p) /\ Processing(q) /\ call[p] = call[q] => p = q
  /\ \A a \in Attempt : a > calls => stage[a] = "claim" /\ afterLoss[a] = 0
  /\ \A p \in Process : cleared[p] => pc[p] = "work"

LEMMA PhaseEffect ==
  ASSUME TypeOK, PP!IInv, SystemTypeOK, NEW p \in Process, Phase(p)
  PROVE  /\ cleared[p] /\ ~cleared'[p]
         /\ UNCHANGED <<calls, call>>
         /\ afterLoss' = IF Holds(p) THEN afterLoss
                         ELSE [afterLoss EXCEPT ![call[p]] = @ + 1]
         /\ Processing(p)' => UNCHANGED vars /\ stage'[call[p]] # "done"
<1>1. /\ cleared[p] /\ cleared' = [cleared EXCEPT ![p] = FALSE]
      /\ UNCHANGED <<calls, call>>
      /\ afterLoss' = IF Holds(p) THEN afterLoss
                      ELSE [afterLoss EXCEPT ![call[p]] = @ + 1]
  BY DEF Phase, Request, RequestFails, EndWithin, BeginPhase
<1>2. ~cleared'[p]
  BY <1>1 DEF SystemTypeOK
<1>3. call[p] \in Attempt
  BY WhoEnds, CallType
<1>4. [P!Next]_P!vars
  BY <1>3 DEF Phase, EndWithin, Request, RequestFails, P!Next
<1>5. result'[call[p]] = "none" <=> stage'[call[p]] # "done"
  BY <1>3, <1>4, AttemptsStep DEF PP!IInv, PP!TypeOK
<1>6. Crash(p) \/ Return(p) => ~Processing(p)'
  BY DEF Crash, Return, Goto, Decide, Processing, TypeOK
<1>7. Crash(p) \/ Reply(p)
  BY DEF Phase, Request, RequestFails
<1> QED
  BY <1>1, <1>2, <1>5, <1>6, <1>7 DEF Reply

LEMMA EndsEffect ==
  ASSUME TypeOK, NEW p \in Process, Ends(p)
  PROVE  ~Processing(p)' /\ ~cleared[p] /\ UNCHANGED callVars
BY DEF Ends, EndBefore, Renew, GuardFails, Crash, Goto, Decide, Processing, TypeOK, Holds

LEMMA AloneEffect ==
  ASSUME TypeOK, NEW p \in Process, Alone(p)
  PROVE  /\ UNCHANGED <<processorVars, callVars>>
         /\ \/ UNCHANGED <<pc[p], entry[p], attempts[p], verdict[p]>>
            \/ ~Processing(p) /\ ~Processing(p)'
BY DEF Alone, Setup, Loop, Claim, Read, NextEntry, BatchDone, Settle, Stop, LoseReply, Crash,
       Goto, Processing, TypeOK, processVars, AfterOnce

\* A call begins with an attempt nobody has used.
LEMMA BeginEffect ==
  ASSUME TypeOK, SystemTypeOK, NEW p \in Process, Begin(p)
  PROVE  /\ UNCHANGED <<processorVars, cleared, unanswered, afterLoss>>
         /\ pc[p] = "count" /\ pc'[p] \in {"guard", "settle"} /\ entry'[p] = entry[p]
         /\ pc'[p] = "settle" => UNCHANGED <<calls, call>> /\ verdict'[p] = "invalid"
         /\ pc'[p] = "guard" =>
              calls' = calls + 1 /\ call'[p] = calls + 1 /\ calls + 1 \in Attempt
<1>1. calls \in 0..MaxCalls /\ calls < MaxCalls
  BY DEF Begin, SystemTypeOK
<1>2. calls + 1 \in Attempt
  BY <1>1, SystemAssumption DEF SystemAssumption, Attempt
<1> QED
  BY <1>2 DEF Begin, CountDeliveries, Goto, TypeOK, SystemTypeOK

\* The variables of the composition, without what relates them to the stages.
LEMMA CallVarsType ==
  ASSUME TypeOK, SystemTypeOK, [SystemNext]_systemVars
  PROVE  /\ calls' \in 0..MaxCalls /\ call' \in [Process -> 0..calls']
         /\ cleared' \in [Process -> BOOLEAN]
         /\ unanswered' \subseteq Put
         /\ afterLoss' \in [Attempt -> Nat]
<1>1. calls \in Nat /\ call \in [Process -> 0..calls]
  BY SystemAssumption DEF SystemAssumption, SystemTypeOK
<1>2. calls' \in 0..MaxCalls /\ call' \in [Process -> 0..calls']
  <2>1. ASSUME NEW p \in Process, Begin(p)
        PROVE  calls' \in 0..MaxCalls /\ call' \in [Process -> 0..calls']
    <3>1. \/ UNCHANGED <<calls, call>>
          \/ /\ calls' = calls + 1 /\ call' = [call EXCEPT ![p] = calls + 1]
             /\ calls < MaxCalls
      BY <2>1 DEF Begin
    <3> QED
      BY <1>1, <3>1, SystemAssumption DEF SystemAssumption, SystemTypeOK
  <2>2. (\E p \in Process : Begin(p)) \/ UNCHANGED <<calls, call>>
    BY Kinds DEF Alone, Renewed, Ends, EndBefore, Phase, Request, RequestFails, EndWithin,
       Elsewhere, ApplyPut, callVars, systemVars
  <2> QED
    BY <2>1, <2>2 DEF SystemTypeOK
<1>3. cleared' \in [Process -> BOOLEAN]
  <2>1. UNCHANGED cleared
        \/ \E p \in Process, b \in BOOLEAN : cleared' = [cleared EXCEPT ![p] = b]
    BY Kinds DEF Alone, Begin, Renewed, Ends, EndBefore, Phase, Request, RequestFails,
       EndWithin, BeginPhase, Elsewhere, ApplyPut, callVars, systemVars
  <2> QED
    BY <2>1 DEF SystemTypeOK
<1>4. afterLoss' \in [Attempt -> Nat]
  <2>1. UNCHANGED afterLoss \/ \E p \in Process : BeginPhase(p)
    BY Kinds DEF Alone, Begin, Renewed, Ends, EndBefore, Phase, Request, RequestFails,
       EndWithin, Elsewhere, ApplyPut, callVars, systemVars
  <2>2. ASSUME NEW a, afterLoss' = [afterLoss EXCEPT ![a] = @ + 1]
        PROVE  afterLoss' \in [Attempt -> Nat]
    <3>1. afterLoss \in [Attempt -> Nat]
      BY DEF SystemTypeOK
    <3>2. afterLoss' = [b \in Attempt |-> IF b = a THEN afterLoss[b] + 1 ELSE afterLoss[b]]
      BY <2>2, <3>1
    <3> QED
      BY <3>1, <3>2
  <2>3. afterLoss' = afterLoss
        \/ \E p \in Process : afterLoss' = [afterLoss EXCEPT ![call[p]] = @ + 1]
    BY <2>1 DEF BeginPhase
  <2> QED
    BY <2>2, <2>3 DEF SystemTypeOK
<1>5. unanswered' \subseteq Put
  <2>1. ASSUME NEW p \in Process, Ends(p) \/ Phase(p) PROVE unanswered' \subseteq Put
    <3>1. \/ UNCHANGED unanswered
          \/ unanswered' = unanswered \cup
               {[attempt |-> call[p], key |-> KeyAt(call[p])]}
      BY <2>1 DEF Ends, EndBefore, Phase, Request, RequestFails, EndWithin, callVars
    <3>2. call[p] \in Attempt
      BY <2>1, WhoEnds, CallType
    <3>3. [attempt |-> call[p], key |-> KeyAt(call[p])] \in Put
      BY <3>2 DEF Put, KeyAt
    <3> QED
      BY <3>1, <3>3 DEF SystemTypeOK
  <2>2. (\E p \in Process : Ends(p) \/ Phase(p)) \/ unanswered' \subseteq unanswered
    BY Kinds DEF Alone, Begin, Renewed, Elsewhere, ApplyPut, callVars, systemVars
  <2> QED
    BY <2>1, <2>2 DEF SystemTypeOK
<1> QED
  BY <1>2, <1>3, <1>4, <1>5

LEMMA CallsStep ==
  ASSUME IInv, PP!IInv, SystemTypeOK, OwnCalls, [SystemNext]_systemVars
  PROVE  SystemTypeOK' /\ OwnCalls'
<1> DEFINE Running(p) == Processing(p) => call[p] # 0 /\ stage[call[p]] # "done"
           Separate == \A p, q \in Process :
                         Processing(p) /\ Processing(q) /\ call[p] = call[q] => p = q
           Unused == \A a \in Attempt : a > calls => stage[a] = "claim" /\ afterLoss[a] = 0
           Clear == \A p \in Process : cleared[p] => pc[p] = "work"
<1>0. /\ TypeOK /\ (\A p \in Process : Running(p)) /\ Separate /\ Unused /\ Clear
      /\ \A p \in Process : Processing(p) => call[p] \in Attempt
      /\ calls \in Nat /\ \A p \in Process : call[p] \in Nat /\ call[p] <= calls
      /\ \A a \in Attempt : a \in Nat
  <2>1. \A p \in Process : Processing(p) => call[p] \in Attempt
    BY CallType
  <2>2. calls \in Nat /\ \A p \in Process : call[p] \in Nat /\ call[p] <= calls
    BY SystemAssumption DEF SystemAssumption, SystemTypeOK
  <2>3. TypeOK /\ (\A p \in Process : Running(p)) /\ Separate /\ Unused /\ Clear
    BY DEF IInv, SystemTypeOK, OwnCalls, Processing
  <2> QED
    BY <2>1, <2>2, <2>3, SystemAssumption DEF SystemAssumption, Attempt
<1> SUFFICES (\A p \in Process : Running(p)') /\ Separate' /\ Unused' /\ Clear'
  <2>1. TypeOK'
    BY TypeStep, ConsumersMove DEF IInv
  <2>2. PP!TypeOK'
    BY AttemptsMove, AttemptsStep DEF PP!IInv
  <2>3. P!TypeOK'
    BY <2>2, SameType
  <2> QED
    BY <1>0, <2>1, <2>3, CallVarsType DEF SystemTypeOK, OwnCalls, Processing
<1>1. CASE UNCHANGED <<vars, stage, calls, call, cleared, afterLoss>>
  BY <1>0, <1>1 DEF vars, processVars, Processing
<1>2. CASE Elsewhere
  BY <1>0, <1>2, ElsewhereKeeps DEF Kept, Processing
<1>3. ASSUME NEW p \in Process, Alone(p)
      PROVE  (\A q \in Process : Running(q)') /\ Separate' /\ Unused' /\ Clear'
  BY <1>0, <1>3, OthersKept, AloneEffect
     DEF Kept, Processing, callVars, processorVars
<1>4. ASSUME NEW p \in Process, Begin(p)
      PROVE  (\A q \in Process : Running(q)') /\ Separate' /\ Unused' /\ Clear'
  BY <1>0, <1>4, OthersKept, BeginEffect
     DEF Kept, Processing, callVars, processorVars
<1>5. ASSUME NEW p \in Process, Renewed(p)
      PROVE  (\A q \in Process : Running(q)') /\ Separate' /\ Unused' /\ Clear'
  <2>1. Processing(p) /\ pc'[p] = "work"
    BY <1>0, <1>5 DEF Renewed, Renew, Holds, Goto, Processing, TypeOK
  <2>2. \A q \in Process \ {p} : Kept(q)
    BY <1>0, <1>5, OthersKept
  <2>3. Clear'
    BY <1>0, <2>1, <2>2 DEF Kept
  <2>4. UNCHANGED <<stage, calls, call, afterLoss>>
    BY <1>5 DEF Renewed, processorVars
  <2>5. (\A q \in Process : Running(q)') /\ Separate' /\ Unused'
    BY <1>0, <2>1, <2>2, <2>4 DEF Kept, Processing
  <2> QED
    BY <2>3, <2>5
<1>6. ASSUME NEW p \in Process, Ends(p)
      PROVE  (\A q \in Process : Running(q)') /\ Separate' /\ Unused' /\ Clear'
  <2>1. Processing(p)
    BY <1>6, WhoEnds
  <2> QED
    BY <1>0, <1>6, <2>1, OthersKept, EndsEffect, OtherAttemptsKept
       DEF Kept, Processing, callVars
<1>7. ASSUME NEW p \in Process, Phase(p)
      PROVE  (\A q \in Process : Running(q)') /\ Separate' /\ Unused' /\ Clear'
  <2>1. Processing(p)
    BY <1>7, WhoEnds
  <2>2. \A a \in Attempt \ {call[p]} : afterLoss'[a] = afterLoss[a]
    BY <1>0, <1>7, PhaseEffect DEF SystemTypeOK
  <2> QED
    BY <1>0, <1>7, <2>1, <2>2, OthersKept, PhaseEffect, OtherAttemptsKept
       DEF Kept, Processing, vars, processVars
<1> QED
  BY <1>1, <1>2, <1>3, <1>4, <1>5, <1>6, <1>7, Kinds DEF systemVars, callVars, processorVars

-----------------------------------------------------------------------------
(* What an attempt does after its lease is gone. *)

\* An attempt that went on after its lease was gone has the lease no more, and
\* nothing it is cleared for.
Unleased ==
  \A p \in Process : Processing(p) /\ afterLoss[call[p]] > 0 => ~Holds(p) /\ ~cleared[p]

LEMMA LostLeaseStays ==
  ASSUME IInv, BudgetKnown, [Next]_vars, NEW p \in Process, Processing(p),
         UNCHANGED <<entry[p], attempts[p]>>, ~Holds(p)
  PROVE  ~Holds(p)'
<1>1. StreamTypeOK /\ GroupFirst /\ StreamStep
  BY NextIsStreamStep DEF IInv, TypeOK
<1>2. entry[p] \in Delivered /\ attempts[p] \in Nat /\ attempts[p] <= timesDelivered[entry[p]]
  BY DEF IInv, TypeOK, BudgetKnown, Processing
<1>3. ~Fence(p, entry[p], attempts[p])'
      \/ \E e \in Delivered, n \in Nat :
           e = entry[p] /\ n = attempts[p] /\ ~Fence(p, e, n)'
  BY <1>1, <1>2, LostStays DEF Holds
<1> QED
  BY <1>3 DEF Holds, Fence, ConsumerIdentity

LEMMA UnleasedStep ==
  ASSUME IInv, PP!IInv, SystemTypeOK, OwnCalls, BudgetKnown, Unleased,
         OnePhaseAfterLoss, [SystemNext]_systemVars
  PROVE  Unleased' /\ OnePhaseAfterLoss'
<1> DEFINE Ok(p) == Processing(p) /\ afterLoss[call[p]] > 0 => ~Holds(p) /\ ~cleared[p]
<1>0. /\ TypeOK /\ [Next]_vars /\ \A p \in Process : Ok(p)
      /\ \A a \in Attempt : afterLoss[a] \in Nat /\ afterLoss[a] <= 1
      /\ \A p \in Process : Processing(p) => call[p] \in Attempt
  BY ConsumersMove, CallType DEF IInv, Unleased, SystemTypeOK, OnePhaseAfterLoss
\* What is left as it was, or lost, stays unleased.
<1>1. ASSUME NEW p \in Process, Kept(p), afterLoss'[call[p]] = afterLoss[call[p]]
      PROVE  Ok(p)'
  <2>1. Processing(p)' => Processing(p)
    BY <1>1 DEF Kept, Processing
  <2>2. Processing(p) /\ ~Holds(p) => ~Holds(p)'
    BY <1>0, <1>1, LostLeaseStays DEF Kept
  <2> QED
    BY <1>0, <1>1, <2>1, <2>2 DEF Kept
<1>2. ASSUME UNCHANGED afterLoss, \A p \in Process : Kept(p) \/ Ok(p)'
      PROVE  Unleased' /\ OnePhaseAfterLoss'
  BY <1>0, <1>1, <1>2 DEF Unleased, OnePhaseAfterLoss
<1>3. CASE UNCHANGED systemVars
  BY <1>2, <1>3 DEF systemVars, vars, processVars, callVars, Kept
<1>4. CASE Elsewhere
  BY <1>2, <1>4, ElsewhereKeeps
<1>5. ASSUME NEW p \in Process, Alone(p) PROVE Unleased' /\ OnePhaseAfterLoss'
  <2>1. Kept(p) \/ Ok(p)'
    BY <1>0, <1>5, AloneEffect DEF Kept, callVars
  <2> QED
    BY <1>0, <1>2, <1>5, <2>1, OthersKept, AloneEffect DEF callVars
<1>6. ASSUME NEW p \in Process, Begin(p) PROVE Unleased' /\ OnePhaseAfterLoss'
  <2>1. UNCHANGED afterLoss /\ pc'[p] \in {"guard", "settle"}
    BY <1>0, <1>6, BeginEffect
  <2>2. pc'[p] = "guard" => afterLoss'[call'[p]] = 0
    <3>1. calls \in Nat
      BY SystemAssumption DEF SystemAssumption, SystemTypeOK
    <3> QED
      BY <1>0, <1>6, <2>1, <3>1, BeginEffect DEF OwnCalls
  <2>3. Ok(p)'
    BY <2>1, <2>2 DEF Processing
  <2> QED
    BY <1>0, <1>2, <1>6, <2>1, <2>3, OthersKept
<1>7. ASSUME NEW p \in Process, Renewed(p) PROVE Unleased' /\ OnePhaseAfterLoss'
  <2>1. Processing(p) /\ Holds(p) /\ UNCHANGED <<call, afterLoss>>
    BY <1>7 DEF Renewed, Renew, Processing
  <2>2. Ok(p)'
    BY <1>0, <2>1
  <2> QED
    BY <1>0, <1>2, <1>7, <2>1, <2>2, OthersKept
<1>8. ASSUME NEW p \in Process, Ends(p) PROVE Unleased' /\ OnePhaseAfterLoss'
  <2>1. UNCHANGED afterLoss /\ Ok(p)'
    BY <1>0, <1>8, EndsEffect DEF callVars
  <2> QED
    BY <1>0, <1>2, <1>8, <2>1, OthersKept
<1>9. ASSUME NEW p \in Process, Phase(p) PROVE Unleased' /\ OnePhaseAfterLoss'
  <2>1. Processing(p) /\ call[p] \in Attempt /\ afterLoss[call[p]] = 0
    BY <1>0, <1>9, WhoEnds, PhaseEffect
  <2>2. /\ \A a \in Attempt \ {call[p]} : afterLoss'[a] = afterLoss[a]
        /\ afterLoss'[call[p]] <= 1
        /\ Holds(p) => afterLoss'[call[p]] = 0
    BY <1>0, <1>9, <2>1, PhaseEffect DEF SystemTypeOK
  <2>3. Ok(p)'
    <3>1. ~cleared'[p] /\ (Processing(p)' => UNCHANGED vars /\ call'[p] = call[p])
      BY <1>0, <1>9, PhaseEffect
    <3>2. Processing(p)' => (Holds(p)' <=> Holds(p))
      BY <3>1 DEF Holds, Fence, ConsumerIdentity, vars, streamVars, groupVars, pelVars,
                  processVars
    <3> QED
      BY <2>2, <3>1, <3>2
  <2>4. \A q \in Process \ {p} : Ok(q)'
    <3> TAKE q \in Process \ {p}
    <3>1. Kept(q)
      BY <1>0, <1>9, OthersKept
    <3>2. CASE Processing(q)
      <4>1. call[q] \in Attempt \ {call[p]}
        BY <1>0, <2>1, <3>2 DEF OwnCalls
      <4> QED
        BY <1>1, <2>2, <3>1, <4>1
    <3>3. CASE ~Processing(q)
      BY <3>1, <3>3 DEF Kept, Processing
    <3> QED
      BY <3>2, <3>3
  <2> QED
    BY <1>0, <2>2, <2>3, <2>4 DEF Unleased, OnePhaseAfterLoss
<1> QED
  BY <1>3, <1>4, <1>5, <1>6, <1>7, <1>8, <1>9, Kinds

-----------------------------------------------------------------------------
(* An acknowledgement comes after the completion. *)

\* Whoever is about to acknowledge an entry, or has sent the script, knows that
\* the job is completed.
AcksAreLate ==
  /\ \A p \in Process : pc[p] = "settle" /\ verdict[p] = "ack" => completedWith # Nothing
  /\ \A c \in inflight : c.op = "ack" => completedWith # Nothing
  /\ acked # {} => completedWith # Nothing

\* The attempt decides what the process settles.
LEMMA PhaseDecides ==
  ASSUME TypeOK, PP!IInv, SystemTypeOK, NEW p \in Process, Phase(p),
         pc'[p] = "settle", verdict'[p] = "ack"
  PROVE  completedWith' # Nothing
<1>1. call[p] \in Attempt /\ pc[p] \in {"guard", "work"}
  BY WhoEnds, CallType DEF Processing
<1>2. [P!Next]_P!vars
  BY <1>1 DEF Phase, EndWithin, Request, RequestFails, P!Next
<1>3. PP!IInv'
  BY <1>2, AttemptsStep
<1>4. ~Crash(p) /\ ~UNCHANGED vars
  BY <1>1 DEF Crash, Goto, TypeOK, vars, processVars
<1>5. ConsumerAction(result'[call[p]]) = "ack"
  BY <1>4 DEF Phase, Request, RequestFails, Reply
<1>6. result'[call[p]] = "ack"
  BY <1>5 DEF ConsumerAction
<1> QED
  BY <1>1, <1>3, <1>6 DEF PP!IInv, PP!AckOnlyWhenCompleted

LEMMA AcksStep ==
  ASSUME TypeOK, PP!IInv, SystemTypeOK, AcksAreLate, [SystemNext]_systemVars
  PROVE  AcksAreLate'
<1> DEFINE Deciding(p) == pc[p] = "settle" /\ verdict[p] = "ack"
           Known == completedWith # Nothing
<1>0. [Next]_vars /\ (Known => Known')
  BY ConsumersMove, AttemptsMove, AttemptsStep
\* Only the end of an attempt brings a process to an acknowledgement ...
<1>1. ASSUME NEW p \in Process, Deciding(p)' PROVE Known'
  <2>1. ASSUME Kept(p) PROVE Known'
    BY <1>0, <1>1, <2>1 DEF Kept, AcksAreLate
  <2>2. ASSUME NEW q \in Process, Alone(q) \/ Begin(q) \/ Renewed(q) \/ Ends(q) \/ Phase(q)
        PROVE  Known'
    <3>1. CASE p # q
      BY <2>1, <2>2, <3>1, OthersKept
    <3>2. CASE p = q /\ Alone(p)
      <4>1. UNCHANGED <<pc[p], verdict[p]>>
        BY <1>1, <3>2 DEF Alone, Setup, Loop, Claim, Read, NextEntry, BatchDone, Settle,
           Stop, LoseReply, Crash, Goto, TypeOK, processVars, AfterOnce
      <4> QED
        BY <1>0, <1>1, <4>1 DEF AcksAreLate
    <3>3. CASE p = q /\ (Begin(p) \/ Renewed(p) \/ Ends(p))
      BY <1>1, <3>3 DEF Begin, Renewed, Ends, CountDeliveries, Renew, Holds, GuardFails,
         Crash, Decide, Goto, TypeOK
    <3>4. CASE p = q /\ Phase(p)
      BY <1>1, <3>4, PhaseDecides
    <3> QED
      BY <2>2, <3>1, <3>2, <3>3, <3>4
  <2>3. CASE UNCHANGED systemVars
    BY <1>0, <1>1, <2>3 DEF systemVars, vars, processVars, AcksAreLate
  <2> QED
    BY <2>1, <2>2, <2>3, Kinds, ElsewhereKeeps
\* ... only such a process sends the script ...
<1>2. ASSUME NEW c \in inflight', c.op = "ack" PROVE Known'
  <2>1. CASE c \in inflight
    BY <1>0, <1>2, <2>1 DEF AcksAreLate
  <2>2. CASE c \notin inflight
    <3>1. PICK p \in Process : LoseReply(p)
      BY <1>0, <2>2 DEF Next, Step, vars, faultVars, Setup, Loop, Claim, Read, NextEntry,
         BatchDone, CountDeliveries, Renew, GuardFails, Return, Settle, Stop, Crash,
         ApplyLate, Publish, GoStale
    <3>2. PICK s \in Sent(p) :
            inflight' = inflight \cup
              {[op |-> s[1], process |-> p, entry |-> s[2],
                attempts |-> attempts[p], code |-> verdict[p]]}
      BY <3>1 DEF LoseReply
    <3>3. s[1] = "ack"
      BY <1>2, <2>2, <3>2
    <3>4. pc[p] = "settle" /\ Settlement(p) = "ack"
      BY <3>3 DEF Sent
    <3>5. verdict[p] = "ack"
      BY <3>4 DEF Settlement
    <3> QED
      BY <1>0, <3>4, <3>5 DEF AcksAreLate
  <2> QED
    BY <2>1, <2>2
\* ... and only the script acknowledges.
<1>3. ASSUME acked' # {} PROVE Known'
  <2>1. CASE acked # {}
    BY <1>0, <2>1 DEF AcksAreLate
  <2>2. CASE acked' # acked
    <3>1. \/ \E p \in Process : Settle(p) /\ Settlement(p) = "ack"
          \/ \E c \in inflight : c.op = "ack"
      <4>1. ASSUME NEW p \in Process, Settle(p), Settlement(p) # "ack" PROVE acked' = acked
        BY <4>1 DEF Settle, DlqScript, streamVars, groupVars, pelVars
      <4>2. ASSUME NEW c \in inflight, ApplyLate(c), c.op # "ack" PROVE acked' = acked
        <5>1. c.op \in Op
          BY DEF TypeOK, Command
        <5> QED
          BY <4>2, <5>1 DEF Op, ApplyLate, AutoClaim, ReadGroup, HandOver, RenewScript,
                           DlqScript
      <4>3. ASSUME NEW p \in Process, Setup(p) \/ (Step(p) /\ ~Settle(p)) \/ Stop(p)
                     \/ Crash(p) \/ LoseReply(p)
            PROVE  acked' = acked
        BY <4>3 DEF Setup, Step, Loop, Claim, Read, NextEntry, BatchDone, CountDeliveries,
           Renew, GuardFails, Return, Stop, Crash, LoseReply, CreateGroup, AutoClaim,
           ReadGroup, HandOver, RenewScript, streamVars, groupVars, pelVars
      <4>4. ASSUME UNCHANGED vars \/ Publish \/ \E e \in Entry : GoStale(e)
            PROVE  acked' = acked
        BY <4>4 DEF vars, streamVars, groupVars, pelVars, Publish, PublishEvent, GoStale,
           BecomeStale
      <4>5. \/ \E p \in Process : Settle(p)
            \/ \E c \in inflight : ApplyLate(c)
        BY <1>0, <2>2, <4>3, <4>4 DEF Next
      <4> QED
        BY <2>2, <4>1, <4>2, <4>5
    <3>2. \A p \in Process : Settle(p) /\ Settlement(p) = "ack" => Deciding(p)
      BY DEF Settle, Settlement
    <3> QED
      BY <1>0, <3>1, <3>2 DEF AcksAreLate
  <2> QED
    BY <1>3, <2>1, <2>2
<1> QED
  BY <1>1, <1>2, <1>3 DEF AcksAreLate

-----------------------------------------------------------------------------
(* The inductive invariant of the system, and what follows from it. *)

SystemInv ==
  /\ IInv
  /\ PP!IInv
  /\ SystemTypeOK
  /\ OwnCalls
  /\ BudgetKnown
  /\ Unleased
  /\ OnePhaseAfterLoss
  /\ AcksAreLate

LEMMA InitSystemInv == SystemInit => SystemInv
<1> SUFFICES ASSUME SystemInit PROVE SystemInv
  OBVIOUS
<1>1. IInv /\ PP!IInv
  BY InitIInv, AttemptsInit DEF SystemInit
<1>2. P!TypeOK
  BY <1>1, SameType DEF PP!IInv
<1>3. /\ \A p \in Process : pc[p] = "new" /\ batch[p] = {}
      /\ lastDelivered = 0 /\ inflight = {} /\ acked = {}
  BY DEF SystemInit, Init, StreamInit
<1>4. /\ calls = 0 /\ call = [p \in Process |-> 0] /\ unanswered = {}
      /\ afterLoss = [a \in Attempt |-> 0] /\ \A a \in Attempt : stage[a] = "claim"
  BY DEF SystemInit, P!Init
<1>5. cleared \in [Process -> BOOLEAN] /\ \A p \in Process : ~cleared[p]
  BY DEF SystemInit
<1>6. SystemTypeOK
  <2>1. calls \in 0..MaxCalls /\ call \in [Process -> 0..calls]
    BY <1>4, SystemAssumption DEF SystemAssumption
  <2>2. afterLoss \in [Attempt -> Nat] /\ unanswered \subseteq Put
    BY <1>4
  <2> QED
    BY <1>1, <1>2, <1>3, <1>5, <2>1, <2>2 DEF SystemTypeOK, IInv
<1>7. OwnCalls
  BY <1>3, <1>4, <1>5 DEF OwnCalls, Processing
<1>8. BudgetKnown /\ OnePhaseAfterLoss
  BY <1>3, <1>4 DEF BudgetKnown, Delivered, OnePhaseAfterLoss
<1>9. Unleased /\ AcksAreLate
  BY <1>3 DEF Unleased, AcksAreLate, Processing
<1> QED
  BY <1>1, <1>6, <1>7, <1>8, <1>9 DEF SystemInv

LEMMA NextSystemInv == SystemInv /\ [SystemNext]_systemVars => SystemInv'
<1> SUFFICES ASSUME SystemInv, [SystemNext]_systemVars PROVE SystemInv'
  OBVIOUS
<1> USE DEF SystemInv
<1>1. IInv' /\ BudgetKnown'
  BY ConsumersMove, NextIInv, BudgetKnownStep
<1>2. PP!IInv'
  BY AttemptsMove, AttemptsStep
<1>3. SystemTypeOK' /\ OwnCalls'
  BY CallsStep
<1>4. Unleased' /\ OnePhaseAfterLoss'
  BY UnleasedStep
<1>5. AcksAreLate'
  BY AcksStep DEF IInv
<1> QED
  BY <1>1, <1>2, <1>3, <1>4, <1>5

\* Every reachable state of the workers, their attempts, the API's job and the
\* store satisfies the inductive invariant.
THEOREM SystemInvariance == SystemSpec => []SystemInv
BY InitSystemInv, NextSystemInv, PTL DEF SystemSpec

\* A process that works is in a call of its own that has not ended.
THEOREM SystemTypeTheorem == SystemSpec => []SystemTypeOK
<1>1. SystemInv => SystemTypeOK
  BY DEF SystemInv
<1> QED
  BY <1>1, SystemInvariance, PTL

\* An event is acknowledged only when its job is completed with the object
\* under its key, for any number of workers, events, calls and failures.
THEOREM AckedTheorem == SystemSpec => []AckedJobIsCompleted
<1>1. SystemInv => AckedJobIsCompleted
  BY DEF SystemInv, AcksAreLate, AckedJobIsCompleted, PP!IInv, PP!CompletedIsStored
<1> QED
  BY <1>1, SystemInvariance, PTL

\* A worker that lost its lease begins at most one phase more.
THEOREM OnePhaseTheorem == SystemSpec => []OnePhaseAfterLoss
<1>1. SystemInv => OnePhaseAfterLoss
  BY DEF SystemInv
<1> QED
  BY <1>1, SystemInvariance, PTL

\* The composition adds to its parts and takes nothing from them: the processes
\* behave as ExportConsumer says, and their calls of process() as ExportProcessor.
THEOREM Composition == SystemSpec => Spec /\ P!Spec
<1>1. SystemInit => Init /\ P!Init
  BY DEF SystemInit
<1>2. SystemInv /\ [SystemNext]_systemVars => [Next]_vars /\ [P!Next]_P!vars
  BY ConsumersMove, AttemptsMove DEF SystemInv
<1> QED
  BY <1>1, <1>2, SystemInvariance, PTL DEF SystemSpec, Spec, P!Spec

LEMMA SameCause == PP!TerminalHasCause => P!TerminalHasCause
BY DEF P!TerminalHasCause, PP!TerminalHasCause, P!Cause, PP!Cause, P!Terminal, PP!Terminal

\* So what is proved of the parts is true of the workers: no event is lost or
\* recorded twice, only the holder settles, and no race dead-letters an event.
THEOREM PartsKeepTheirPromises ==
  SystemSpec => /\ [](ExactlyOneFate /\ CeilingRespected /\ P!TerminalHasCause)
                /\ OnlyHolderSettles /\ BudgetSpentOnHandoverOnly
<1>1. SystemInv => P!TerminalHasCause
  BY SameCause DEF SystemInv, PP!IInv
<1> QED
  BY <1>1, Composition, SystemInvariance, FateTheorem, CeilingTheorem, HolderTheorem,
     BudgetTheorem, PTL

-----------------------------------------------------------------------------
(* The workers implement ExportJob. *)

\* The store or the API moves, not both; the object is stored once, and the job
\* is completed once, with that object.
LEMMA JobMoves ==
  ASSUME PP!IInv, [P!Next]_P!vars
  PROVE  \/ UNCHANGED <<final, completedWith>>
         \/ final = Nothing /\ final' \in P!Artifact /\ UNCHANGED completedWith
         \/ /\ completedWith = Nothing /\ final # Nothing
            /\ completedWith' = final /\ UNCHANGED final
<1>1. UNCHANGED final \/ UNCHANGED completedWith
  BY DEF P!Next, P!Step, P!Claim, P!ClaimFetch, P!Diagnostics, P!Render, P!Canonicalize,
     P!Store, P!Complete, P!Recover, P!Interrupt, P!LatePut, P!LatePost, P!Delete,
     P!FixCanonical, P!GiveUp, P!vars, P!contractVars, P!apiVars
<1>2. /\ completedWith # Nothing => completedWith' = completedWith
      /\ final # Nothing => final' = final
      /\ PP!IInv'
  BY AttemptsStep
<1>3. final' \in PP!Artifact \cup {Nothing}
  BY <1>2 DEF PP!IInv, PP!TypeOK, PP!ContractTypeOK
<1>4. completedWith' # Nothing => completedWith' = final'
  BY <1>2 DEF PP!IInv, PP!CompletedIsStored
<1>5. PP!Artifact = P!Artifact
  BY DEF PP!Artifact, P!Artifact
<1> QED
  BY <1>1, <1>2, <1>3, <1>4, <1>5

LEMMA EmptyIsOpen == StreamTypeOK => \A e \in Entry : Len(dlq[e]) = 0 <=> dlq[e] = <<>>
<1> SUFFICES ASSUME StreamTypeOK, NEW e \in Entry PROVE Len(dlq[e]) = 0 <=> dlq[e] = <<>>
  OBVIOUS
<1> DEFINE Records == [code : Verdict, attempts : Nat]
<1>1. dlq[e] \in Seq(Records)
  BY DEF StreamTypeOK
<1> HIDE DEF Records
<1> QED
  BY <1>1

\* At most one entry gets its fate in a step, and it had none.
LEMMA FatesMove ==
  ASSUME StreamTypeOK, StreamTypeOK', GroupFirst, ExactlyOneFate, StreamStep
  PROVE  \/ UNCHANGED <<acked, dlq>>
         \/ \E e \in Entry :
              /\ Fate(e) = "open"
              /\ \A f \in Entry \ {e} : Fate(f)' = Fate(f)
              /\ \/ Fate(e)' = "acknowledged" /\ acked' # {}
                 \/ Fate(e)' = "dead-lettered"
<1>1. CASE Scripting
  <2>1. PICK p \in Process, e \in Entry, n \in Nat :
          \/ AckScript(p, e, n)
          \/ RenewScript(p, e, n)
          \/ \E code \in Verdict : DlqScript(p, e, n, code)
    BY <1>1 DEF Scripting
  <2>2. CASE ~Fence(p, e, n) \/ RenewScript(p, e, n)
    BY <2>1, <2>2 DEF AckScript, RenewScript, DlqScript
  <2>3. CASE Fence(p, e, n) /\ ~RenewScript(p, e, n)
    <3>1. e \notin acked /\ dlq[e] = <<>>
      <4> DEFINE len == Len(dlq[e])
      <4>1. e \in pending /\ e \in Delivered /\ len \in Nat
        BY <2>3, PendingIsDelivered, LenIsNat DEF Fence
      <4>2. 1 + (IF e \in acked THEN 1 ELSE 0) + len = 1
        BY <4>1 DEF ExactlyOneFate, Fates
      <4>3. len = 0 => dlq[e] = <<>>
        BY EmptyIsOpen
      <4> HIDE DEF len
      <4> QED
        BY <4>1, <4>2, <4>3
    <3>2. Fate(e) = "open"
      BY <3>1 DEF Fate
    <3>3. CASE AckScript(p, e, n)
      <4>1. acked' = acked \cup {e} /\ dlq' = dlq
        BY <2>3, <3>3 DEF AckScript
      <4>2. e \in acked' /\ \A f \in Entry \ {e} : f \in acked' <=> f \in acked
        BY <4>1
      <4>3. Fate(e)' = "acknowledged"
        BY <3>1, <4>1, <4>2 DEF Fate
      <4>4. \A f \in Entry \ {e} : Fate(f)' = Fate(f)
        BY <4>1, <4>2 DEF Fate
      <4> QED
        BY <3>2, <4>2, <4>3, <4>4
    <3>4. ASSUME NEW code \in Verdict, DlqScript(p, e, n, code)
          PROVE  Fate(e)' = "dead-lettered" /\ \A f \in Entry \ {e} : Fate(f)' = Fate(f)
      <4> DEFINE len == Len(dlq[e])
                 after == Len(dlq'[e])
      <4>1. /\ after = len + 1 /\ len = 0
            /\ \A f \in Entry \ {e} : dlq'[f] = dlq[f]
            /\ acked' = acked
        BY <2>3, <3>1, <3>4, DlqAppends, EmptyIsOpen DEF DlqScript
      <4>2. after # 0
        BY <4>1
      <4>3. dlq'[e] # <<>>
        BY <4>2
      <4> QED
        BY <3>1, <4>1, <4>3 DEF Fate
    <3> QED
      BY <2>1, <2>3, <3>2, <3>3, <3>4
  <2> QED
    BY <2>2, <2>3
<1>2. ASSUME ~Scripting PROVE UNCHANGED <<acked, dlq>>
  BY <1>2 DEF StreamStep, streamVars, groupVars, pelVars, CreateGroup, PublishEvent,
     BecomeStale, Handing, ReadGroup, AutoClaim, HandOver
<1> QED
  BY <1>1, <1>2

\* A fate is sealed by Redis alone: the store and the API do not move with it.
LEMMA FatesMoveAlone ==
  ASSUME [SystemNext]_systemVars
  PROVE  UNCHANGED <<acked, dlq>> \/ UNCHANGED <<final, completedWith>>
<1> USE DEF streamVars, groupVars, pelVars, processorVars
<1>1. ASSUME NEW p \in Process, Alone(p) PROVE UNCHANGED <<final, completedWith>>
  BY <1>1 DEF Alone
<1>2. ASSUME NEW p \in Process, Begin(p) \/ Renewed(p) \/ Ends(p)
      PROVE  UNCHANGED <<acked, dlq>>
  BY <1>2 DEF Begin, Renewed, Ends, CountDeliveries, Renew, RenewScript, GuardFails, Crash
<1>3. ASSUME NEW p \in Process, Phase(p) PROVE UNCHANGED <<acked, dlq>>
  BY <1>3 DEF Phase, Request, RequestFails, Reply, Return, Crash, vars
<1>4. CASE Elsewhere
  BY <1>4 DEF Elsewhere, ApplyPut, vars
<1> QED
  BY <1>1, <1>2, <1>3, <1>4, Kinds DEF systemVars, vars

LEMMA JobInitially == SystemInit => Job!JobInit
<1> SUFFICES ASSUME SystemInit PROVE Job!JobInit
  OBVIOUS
<1>1. final = Nothing /\ completedWith = Nothing
  BY DEF SystemInit, P!Init, P!ContractInit
<1>2. \A e \in Entry : Fate(e) = "open"
  BY DEF SystemInit, Init, StreamInit, Fate
<1> QED
  BY <1>1, <1>2 DEF Job!JobInit, Job!Open

LEMMA JobStep ==
  ASSUME SystemInv, SystemInv', [SystemNext]_systemVars
  PROVE  [Job!JobNext]_Job!jobVars
<1> DEFINE fates == [e \in Entry |-> Fate(e)]
<1>1. CASE UNCHANGED <<acked, dlq>>
  <2>1. fates' = fates
    BY <1>1 DEF Fate
  <2>2. \/ UNCHANGED <<final, completedWith>>
        \/ final = Nothing /\ final' \in P!Artifact /\ UNCHANGED completedWith
        \/ /\ completedWith = Nothing /\ final # Nothing
           /\ completedWith' = final /\ UNCHANGED final
    BY AttemptsMove, JobMoves DEF SystemInv
  <2> QED
    BY <2>1, <2>2 DEF Job!JobNext, Job!jobVars, Job!StoreExport, Job!CompleteJob
<1>2. CASE ~UNCHANGED <<acked, dlq>>
  <2>1. UNCHANGED <<final, completedWith>>
    BY <1>2, FatesMoveAlone
  <2>2. /\ StreamTypeOK /\ GroupFirst /\ ExactlyOneFate /\ StreamStep
        /\ StreamTypeOK'
    BY ConsumersMove, NextIsStreamStep DEF SystemInv, IInv, TypeOK
  <2>3. PICK e \in Entry :
          /\ Fate(e) = "open"
          /\ \A f \in Entry \ {e} : Fate(f)' = Fate(f)
          /\ \/ Fate(e)' = "acknowledged" /\ acked' # {}
             \/ Fate(e)' = "dead-lettered"
    BY <1>2, <2>2, FatesMove
  <2>4. /\ fates[e] = "open"
        /\ \/ fates' = [fates EXCEPT ![e] = "acknowledged"] /\ acked' # {}
           \/ fates' = [fates EXCEPT ![e] = "dead-lettered"]
    BY <2>3
  <2>5. acked' # {} => completedWith # Nothing
    BY <2>1 DEF SystemInv, AcksAreLate
  <2> QED
    BY <2>1, <2>4, <2>5 DEF Job!JobNext, Job!jobVars, Job!Acknowledge, Job!DeadLetter
<1> QED
  BY <1>1, <1>2

\* The workers implement ExportJob: one object is stored, the job is completed
\* once and with it, and every event gets at most one fate, an acknowledgement
\* only after the completion.
THEOREM JobTheorem == SystemSpec => ImplementsExportJob
<1>1. SystemInv /\ SystemInv' /\ [SystemNext]_systemVars => [Job!JobNext]_Job!jobVars
  BY JobStep
<1> QED
  BY <1>1, JobInitially, SystemInvariance, PTL
     DEF SystemSpec, ImplementsExportJob, Job!JobSpec

=============================================================================
