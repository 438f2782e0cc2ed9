-------------------------- MODULE WorkerProcessProofs --------------------------
(*****************************************************************************)
(* Proofs about WorkerProcess and the WorkerLifecycle it extends, for any    *)
(* number of signals, calls and addresses.  What is true of a call is taken  *)
(* from DeadlineTransportProofs.                                             *)
(*****************************************************************************)
EXTENDS WorkerProcess, TLAPS

TP == INSTANCE DeadlineTransportProofs

In(r, s) == \E i \in 1..Len(s) : s[i] = r
Distinct(s) == \A i, j \in 1..Len(s) : s[i] = s[j] => i = j

-----------------------------------------------------------------------------
(* The inductive invariant. *)

Typed ==
  /\ pc \in PC
  /\ handlers \subseteq Signal
  /\ pc \in {"open", "run", "close"} => handlers = Signal
  /\ signals \in Nat
  /\ primary \in {"none", "create", "run"}

Flags == once \in BOOLEAN /\ stop \in BOOLEAN

\* Resources are opened in the order of create_consumer().
Openness ==
  /\ opened \in Seq(Resource)
  /\ Len(opened) <= 3
  /\ \A i \in 1..Len(opened) : opened[i] = Opening[i]
  /\ pc = "run" => Len(opened) = 3

\* What is still to be closed is open, and is there once ...
Queued ==
  /\ queue \in Seq(Resource)
  /\ Distinct(queue)
  /\ \A i \in 1..Len(queue) : In(queue[i], opened)
  /\ pc # "close" => Len(queue) = 0

\* ... and what is open and not there any more was asked to close once.
Counted ==
  /\ closed \in [Resource -> Nat]
  /\ pc \in {"install", "open", "run"} => \A r \in Resource : closed[r] = 0
  /\ pc \in {"install"} => Len(opened) = 0
  /\ pc \in {"close", "restore", "exited"} =>
       \A r \in Resource :
         closed[r] = IF In(r, opened) /\ ~In(r, queue) THEN 1 ELSE 0
  /\ pc = "killed" => \A i \in 1..Len(opened) : closed[opened[i]] > 0

\* Each resource refuses at most once, and what leaves main() is settled when
\* the queue is empty.
Judged ==
  /\ failures \in Nat /\ failures + Len(queue) <= 3
  /\ pc \in {"install", "open", "run"} => failures = 0
  /\ note \in 0..failures
  /\ raised \in Error
  /\ pc \in {"restore", "exited"} =>
       /\ primary # "none" => raised = primary /\ note = failures
       /\ primary = "none" => (raised = "cleanup" <=> failures > 0)

Life == Typed /\ Flags /\ Openness /\ Queued /\ Counted /\ Judged

\* Calls are made in run() only.
Calling ==
  /\ calls \in 0..MaxCalls
  /\ stage # "ended" => pc = "run" /\ calls > 0

IInv == Life /\ Calling /\ TP!Tidy

-----------------------------------------------------------------------------
(* The steps of WorkerLifecycle keep Life. *)

LEMMA StutterKeepsLife == ASSUME Life, UNCHANGED vars PROVE Life'
BY DEF Life, Typed, Flags, Openness, Queued, Counted, Judged, In, Distinct, vars

LEMMA InstallKeepsLife == ASSUME Life, Install PROVE Life'
<1>1. Typed'
  BY DEF Install, Installed, Life, Typed, PC, Signal
<1>2. Flags'
  BY DEF Install, Life, Flags
<1>3. Openness' /\ Queued' /\ Counted' /\ Judged'
  BY DEF Install, Life, Openness, Queued, Counted, Judged, In, Distinct
<1> QED
  BY <1>1, <1>2, <1>3 DEF Life

LEMMA RestoreKeepsLife == ASSUME Life, Restore PROVE Life'
<1>1. Typed'
  BY DEF Restore, Life, Typed, PC, Signal
<1>2. Flags'
  BY DEF Restore, Life, Flags
<1>3. Openness' /\ Queued' /\ Counted' /\ Judged'
  BY DEF Restore, Life, Openness, Queued, Counted, Judged, In, Distinct
<1> QED
  BY <1>1, <1>2, <1>3 DEF Life

\* Only a process whose handlers are not all in is killed; it has opened nothing,
\* or closed everything.
LEMMA DeliverKeepsLife == ASSUME Life, Deliver PROVE Life' /\ (pc = "run" => pc' = pc)
<1>1. pc \in PC \ {"exited", "killed"}
  BY DEF Deliver, Life, Typed
<1>2. pc' = pc \/ (pc \in {"install", "restore"} /\ pc' = "killed")
  BY <1>1 DEF Deliver, Life, Typed, PC
<1>3. Typed'
  BY <1>2 DEF Deliver, Life, Typed, PC
<1>4. Flags'
  BY DEF Deliver, Life, Flags
<1>5. Openness' /\ Queued' /\ Judged'
  BY <1>2 DEF Deliver, Life, Openness, Queued, Judged, In, Distinct
<1>6. Counted'
  <2>1. CASE pc' = pc
    BY <2>1 DEF Deliver, Life, Counted, In
  <2>2. CASE pc = "install" /\ pc' = "killed"
    BY <2>2 DEF Deliver, Life, Counted, Openness
  <2>3. CASE pc = "restore" /\ pc' = "killed"
    <3>1. \A i \in 1..Len(opened) : opened[i] \in Resource /\ In(opened[i], opened)
      BY DEF Life, Openness, In
    <3>2. \A r \in Resource : ~In(r, queue)
      BY <2>3 DEF Life, Queued, In
    <3> QED
      BY <2>3, <3>1, <3>2 DEF Deliver, Life, Counted
  <2> QED
    BY <1>2, <2>1, <2>2, <2>3
<1> QED
  BY <1>2, <1>3, <1>4, <1>5, <1>6 DEF Life

-----------------------------------------------------------------------------
(* Opening, running and closing. *)

LEMMA OpeningFacts ==
  /\ Opening \in Seq(Resource) /\ Len(Opening) = 3
  /\ Closing \in Seq(Resource) /\ Len(Closing) = 3 /\ Distinct(Closing)
  /\ \A i, j \in 1..3 : Opening[i] = Opening[j] => i = j
  /\ \A i \in 1..3 : \E j \in 1..3 : Closing[i] = Opening[j]
BY DEF Opening, Closing, Resource, Distinct

LEMMA OpenKeepsLife == ASSUME Life, Open PROVE Life'
<1>open. pc = "open" /\ UNCHANGED <<failures, note, raised, closed, signals>>
  BY DEF Open
<1>sizes. /\ opened \in Seq(Resource) /\ Len(opened) \in Nat /\ Len(opened) <= 3 /\ pc = "open"
      /\ queue \in Seq(Resource) /\ Len(queue) = 0
  <2>1. opened \in Seq(Resource) /\ Len(opened) <= 3
    BY DEF Life, Openness
  <2>2. Len(opened) \in Nat
    BY <2>1
  <2>3. queue \in Seq(Resource) /\ Len(queue) = 0
    BY <1>open DEF Life, Queued
  <2> QED
    BY <1>open, <2>1, <2>2, <2>3
<1>none. closed \in [Resource -> Nat] /\ \A r \in Resource : closed[r] = 0
  BY <1>sizes DEF Life, Counted
<1>clean. failures = 0 /\ note = 0 /\ raised \in Error
  BY <1>sizes DEF Life, Judged
<1>0. /\ opened \in Seq(Resource) /\ Len(opened) \in Nat /\ Len(opened) <= 3 /\ pc = "open"
      /\ queue \in Seq(Resource) /\ Len(queue) = 0
      /\ failures = 0 /\ note = 0 /\ raised \in Error
  BY <1>sizes, <1>clean
<1>1. CASE /\ Len(opened) < 3
           /\ opened' = Append(opened, Opening[Len(opened) + 1])
           /\ UNCHANGED <<pc, queue, primary>>
  <2>1. Opening[Len(opened) + 1] \in Resource
    BY <1>0, <1>1, OpeningFacts
  <2>2. Openness'
    BY <1>0, <1>1, <2>1 DEF Life, Openness
  <2>3. Queued' /\ Counted' /\ Judged'
    BY <1>0, <1>1 DEF Open, Life, Queued, Counted, Judged, In, Distinct
  <2>4. Typed'
    BY <1>1 DEF Open, Life, Typed
  <2>5. Flags'
    BY DEF Open, Life, Flags
  <2> QED
    BY <2>2, <2>3, <2>4, <2>5 DEF Life
<1>2. CASE /\ primary' = "create" /\ queue' = Reversed(opened) /\ pc' = "close"
           /\ UNCHANGED opened
  <2>1. /\ queue' \in Seq(Resource) /\ Len(queue') = Len(opened)
        /\ \A i \in 1..Len(opened) : queue'[i] = opened[Len(opened) + 1 - i]
    BY <1>0, <1>2 DEF Reversed
  <2>2. Openness'
    BY <1>2 DEF Life, Openness
  <2>3. Queued'
    <3>1. Distinct(queue')
      <4> SUFFICES ASSUME NEW i \in 1..Len(opened), NEW j \in 1..Len(opened),
                          queue'[i] = queue'[j]
                   PROVE  i = j
        BY <2>1 DEF Distinct
      <4> DEFINE k == Len(opened) + 1 - i
                 m == Len(opened) + 1 - j
      <4>1. k \in 1..Len(opened) /\ m \in 1..Len(opened)
        BY <1>0
      <4>2. opened[k] = opened[m]
        BY <2>1
      <4>3. Opening[k] = Opening[m]
        BY <4>1, <4>2 DEF Life, Openness
      <4>4. k = m
        <5>1. k \in 1..3 /\ m \in 1..3
          <6>1. k \in Int /\ 1 <= k /\ k <= 3 /\ m \in Int /\ 1 <= m /\ m <= 3
            BY <1>0
          <6> HIDE DEF k, m
          <6> QED
            BY <6>1
        <5> HIDE DEF k, m
        <5> QED
          BY <4>3, <5>1, OpeningFacts
      <4> QED
        BY <1>0, <4>4
    <3>2. \A i \in 1..Len(queue') : In(queue'[i], opened)
      BY <1>0, <2>1 DEF In
    <3> QED
      BY <1>2, <2>1, <3>1, <3>2 DEF Queued, Distinct, In
  <2>4. Counted'
    <3>1. \A r \in Resource : In(r, opened) => In(r, queue')
      <4> SUFFICES ASSUME NEW r \in Resource, NEW i \in 1..Len(opened), opened[i] = r
                   PROVE  In(r, queue')
        BY DEF In
      <4>1. /\ Len(opened) + 1 - i \in 1..Len(queue')
            /\ queue'[Len(opened) + 1 - i] = r
        BY <1>0, <2>1
      <4> QED
        BY <4>1 DEF In
    <3> QED
      BY <1>none, <1>2, <3>1 DEF Open, Counted, In
  <2>5. Judged'
    BY <1>0, <1>open, <1>2, <2>1 DEF Judged
  <2>6. Typed'
    BY <1>2 DEF Open, Life, Typed, PC
  <2>7. Flags'
    BY DEF Open, Life, Flags
  <2> QED
    BY <2>2, <2>3, <2>4, <2>5, <2>6, <2>7 DEF Life
<1>3. CASE Len(opened) = 3 /\ pc' = "run" /\ UNCHANGED <<opened, queue, primary>>
  <2>1. Typed'
    BY <1>3 DEF Open, Life, Typed, PC
  <2>2. Flags'
    BY DEF Open, Life, Flags
  <2>3. Openness' /\ Queued' /\ Counted'
    <3>1. Openness'
      BY <1>3 DEF Life, Openness
    <3>2. Queued'
      BY <1>0, <1>3 DEF Life, Queued, In, Distinct
    <3>3. Counted'
      BY <1>none, <1>open, <1>3 DEF Counted
    <3> QED
      BY <3>1, <3>2, <3>3
  <2>4. Judged'
    BY <1>0, <1>open, <1>3 DEF Judged
  <2> QED
    BY <2>1, <2>2, <2>3, <2>4 DEF Life
<1> QED
  BY <1>1, <1>2, <1>3 DEF Open

LEMMA RunKeepsLife == ASSUME Life, Run PROVE Life'
<1>0. /\ opened \in Seq(Resource) /\ Len(opened) = 3
      /\ \A i \in 1..3 : opened[i] = Opening[i]
  BY DEF Life, Openness, Run
<1>1. Typed'
  BY DEF Run, Life, Typed, PC
<1>2. Flags'
  BY DEF Run, Life, Flags
<1>3. Openness'
  BY <1>0 DEF Run, Life, Openness
<1>4. Queued'
  BY <1>0, OpeningFacts DEF Run, Queued, Distinct, In
<1>5. Counted'
  <2>1. \A r \in Resource : In(r, Closing)
    BY DEF In, Closing, Resource
  <2> QED
    BY <2>1 DEF Run, Life, Counted, In
<1>6. Judged'
  BY OpeningFacts DEF Run, Life, Judged
<1> QED
  BY <1>1, <1>2, <1>3, <1>4, <1>5, <1>6 DEF Life

LEMMA CloseKeepsLife == ASSUME Life, Close PROVE Life'
<1>0. /\ queue \in Seq(Resource) /\ Len(queue) > 0 /\ pc = "close" /\ pc' = pc
      /\ Head(queue) = queue[1] /\ queue[1] \in Resource
      /\ queue' \in Seq(Resource) /\ Len(queue') = Len(queue) - 1
      /\ \A i \in 1..Len(queue') : queue'[i] = queue[i + 1]
      /\ opened' = opened
  BY DEF Life, Queued, Close, Remaining
<1>1. Typed'
  BY DEF Close, Life, Typed
<1>2. Flags'
  BY DEF Close, Life, Flags
<1>3. Openness'
  BY DEF Close, Life, Openness
<1>4. Queued'
  <2>1. Distinct(queue')
    BY <1>0 DEF Life, Queued, Distinct
  <2>2. \A i \in 1..Len(queue') : In(queue'[i], opened)
    BY <1>0 DEF Life, Queued
  <2> QED
    BY <1>0, <2>1, <2>2 DEF Queued, Distinct, In
<1>5. Counted'
  <2> SUFFICES ASSUME NEW r \in Resource
               PROVE  closed'[r] = IF In(r, opened) /\ ~In(r, queue') THEN 1 ELSE 0
    BY <1>0 DEF Close, Life, Counted, In
  <2>1. CASE r = queue[1]
    <3>1. In(r, opened) /\ In(r, queue) /\ ~In(r, queue')
      BY <1>0, <2>1 DEF Life, Queued, Distinct, In
    <3> QED
      BY <1>0, <2>1, <3>1 DEF Close, Life, Counted
  <2>2. CASE r # queue[1]
    <3>1. In(r, queue') <=> In(r, queue)
      <4>1. ASSUME NEW i \in 1..Len(queue'), queue'[i] = r PROVE In(r, queue)
        BY <1>0, <4>1 DEF In
      <4>2. ASSUME NEW i \in 1..Len(queue), queue[i] = r PROVE In(r, queue')
        <5>1. i - 1 \in 1..Len(queue') /\ queue'[i - 1] = r
          BY <1>0, <2>2, <4>2
        <5> QED
          BY <5>1 DEF In
      <4> QED
        BY <4>1, <4>2 DEF In
    <3> QED
      BY <1>0, <2>2, <3>1 DEF Close, Life, Counted
  <2> QED
    BY <2>1, <2>2
<1>6. Judged'
  BY <1>0 DEF Close, Life, Judged
<1> QED
  BY <1>1, <1>2, <1>3, <1>4, <1>5, <1>6 DEF Life

LEMMA ReportKeepsLife == ASSUME Life, Report PROVE Life'
<1>1. Typed'
  BY DEF Report, Life, Typed, PC
<1>2. Flags'
  BY DEF Report, Life, Flags
<1>3. Openness' /\ Queued' /\ Counted'
  BY DEF Report, Life, Openness, Queued, Counted, In, Distinct
<1>4. Judged'
  BY DEF Report, Outgoing, Life, Judged, Typed, Error
<1> QED
  BY <1>1, <1>2, <1>3, <1>4 DEF Life

-----------------------------------------------------------------------------
(* The process and its calls. *)

\* The two instances of the transport have the same steps.
LEMMA SameStep == T!Step => TP!Step
BY DEF
     T!Step, T!Expire, T!Peer, T!Own, T!Arm, T!TimesOut, T!Resolved,
     T!ChildExits, T!Connected, T!Transferred, T!PeerFails, T!Headers,
     T!Chunk, T!EndOfBody, T!Fits, T!Whole, T!Enter, T!Fail, T!NextAddress,
     T!ReplaceSocket, T!End, T!Reap, T!Refusal, T!Waits, T!Waiting,
     T!NoLength, T!progress, TP!Step, TP!Expire, TP!Peer, TP!Own, TP!Arm,
     TP!TimesOut, TP!Resolved, TP!ChildExits, TP!Connected, TP!Transferred,
     TP!PeerFails, TP!Headers, TP!Chunk, TP!EndOfBody, TP!Fits, TP!Whole,
     TP!Enter, TP!Fail, TP!NextAddress, TP!ReplaceSocket, TP!End, TP!Reap,
     TP!Refusal, TP!Waits, TP!Waiting, TP!NoLength, TP!progress

LEMMA InitIInv == ProcessInit => IInv
<1> SUFFICES ASSUME ProcessInit PROVE IInv
  OBVIOUS
<1>1. Life
  <2>1. Typed /\ Openness /\ Queued
    BY DEF ProcessInit, Init, Typed, PC, Openness, Queued, Distinct
  <2>2. Flags
    BY DEF ProcessInit, Init, Flags
  <2>3. Counted /\ Judged
    BY DEF ProcessInit, Init, Counted, Judged, Error
  <2> QED
    BY <2>1, <2>2, <2>3 DEF Life
<1>2. Calling
  BY ProcessAssumption DEF ProcessInit, T!Init, Calling
<1>3. TP!Tidy
  BY ProcessAssumption, TP!InitTidy DEF ProcessInit, T!Init, TP!Init, TP!Sized,
     T!NoLength, TP!NoLength
<1> QED
  BY <1>1, <1>2, <1>3 DEF IInv

LEMMA StepIInv == IInv /\ [ProcessNext]_processVars => IInv'
<1> SUFFICES ASSUME IInv, [ProcessNext]_processVars PROVE IInv'
  OBVIOUS
<1>0. TP!Sized
  BY ProcessAssumption DEF TP!Sized
<1>1. ASSUME UNCHANGED transportVars PROVE TP!Tidy'
  BY <1>0, <1>1, TP!StepKeepsTidy DEF IInv, transportVars, TP!vars, TP!progress
<1>2. CASE UNCHANGED processVars
  <2>1. Life' /\ TP!Tidy'
    BY <1>1, <1>2, StutterKeepsLife DEF IInv, processVars
  <2> QED
    BY <1>2, <2>1 DEF IInv, Calling, processVars, transportVars, vars
<1>3. CASE Call
  <2>1. Life'
    BY <1>3, StutterKeepsLife DEF IInv, Call
  <2>2. TP!Begin
    BY <1>3 DEF Call, T!Begin, TP!Begin, T!NoLength, TP!NoLength
  <2>3. TP!Tidy'
    BY <1>0, <2>2, TP!StepKeepsTidy DEF IInv, TP!Next
  <2>4. Calling'
    BY <1>3, ProcessAssumption DEF IInv, Calling, Call, vars
  <2> QED
    BY <2>1, <2>3, <2>4 DEF IInv
<1>4. CASE InCall
  <2>1. Life'
    BY <1>4, StutterKeepsLife DEF IInv, InCall
  <2>2. TP!Step
    BY <1>4, SameStep DEF InCall
  <2>3. TP!Tidy' /\ stage # "ended"
    BY <1>0, <2>2, TP!StepKeepsTidy, TP!StepInCall DEF IInv, TP!Next
  <2>4. Calling'
    BY <1>4, <2>3 DEF IInv, Calling, InCall, vars
  <2> QED
    BY <2>1, <2>3, <2>4 DEF IInv
<1>5. CASE Leave
  <2>1. Life'
    BY <1>5, RunKeepsLife DEF IInv, Leave
  <2>2. TP!Tidy'
    BY <1>1, <1>5 DEF Leave
  <2>3. Calling'
    BY <1>5 DEF IInv, Calling, Leave, CallIsOver, transportVars
  <2> QED
    BY <2>1, <2>2, <2>3 DEF IInv
<1>6. CASE Elsewhere
  <2>1. TP!Tidy'
    BY <1>1, <1>6 DEF Elsewhere
  <2>2. CASE Own
    <3>1. pc # "run" /\ Life'
      BY <2>2, InstallKeepsLife, RestoreKeepsLife, OpenKeepsLife, CloseKeepsLife,
         ReportKeepsLife DEF IInv, Own, Install, Restore, Open, Close, Report
    <3>2. Calling'
      BY <1>6, <3>1 DEF IInv, Calling, Elsewhere, transportVars
    <3> QED
      BY <2>1, <3>1, <3>2 DEF IInv
  <2>3. CASE Deliver
    <3>1. Life' /\ (pc = "run" => pc' = pc)
      BY <2>3, DeliverKeepsLife DEF IInv
    <3>2. Calling'
      BY <1>6, <3>1 DEF IInv, Calling, Elsewhere, transportVars
    <3> QED
      BY <2>1, <3>1, <3>2 DEF IInv
  <2> QED
    BY <1>6, <2>2, <2>3 DEF Elsewhere
<1> QED
  BY <1>2, <1>3, <1>4, <1>5, <1>6 DEF ProcessNext

LEMMA Invariance == ProcessSpec => []IInv
BY InitIInv, StepIInv, PTL DEF ProcessSpec

-----------------------------------------------------------------------------
(* What follows. *)

\* The state of the process and of its calls always has its type.
THEOREM TypeCorrect == ProcessSpec => []ProcessTypeOK
<1>1. ASSUME IInv PROVE ProcessTypeOK
  <2>1. TypeOK
    <3>1. once \in BOOLEAN /\ stop \in BOOLEAN
      BY <1>1 DEF IInv, Life, Flags
    <3>2. failures \in 0..3 /\ note \in 0..3
      BY <1>1 DEF IInv, Life, Judged, Queued
    <3> QED
      BY <1>1, <3>1, <3>2 DEF IInv, Life, Typed, Openness, Queued, Counted,
                              Judged, TypeOK, Error
  <2>2. T!TypeOK
    BY <1>1, TP!TidyTypes DEF IInv, T!TypeOK, TP!TypeOK, T!Waits, TP!Waits,
       T!Refusal, TP!Refusal, T!NoLength, TP!NoLength
  <2> QED
    BY <1>1, <2>1, <2>2 DEF IInv, Calling, ProcessTypeOK
<1> QED
  BY <1>1, Invariance, PTL

\* Whatever fails, run_worker() and create_consumer() of cli.py ask every
\* resource they opened to close, once.
THEOREM ClosedTheorem == ProcessSpec => []ClosedOnce
<1>1. ASSUME IInv PROVE ClosedOnce
  <2>1. ASSUME pc \in {"restore", "exited"}, NEW r \in Resource
        PROVE  closed[r] = IF In(r, opened) THEN 1 ELSE 0
    <3>1. ~In(r, queue)
      BY <1>1, <2>1 DEF IInv, Life, Queued, In
    <3> QED
      BY <1>1, <2>1, <3>1 DEF IInv, Life, Counted
  <2> QED
    BY <2>1 DEF ClosedOnce, In
<1> QED
  BY <1>1, Invariance, PTL

\* The error that ends the worker is not masked by a failure to close.
THEOREM ErrorTheorem == ProcessSpec => []PrimaryErrorSurvives
<1>1. IInv => PrimaryErrorSurvives
  BY DEF IInv, Life, Judged, PrimaryErrorSurvives
<1> QED
  BY <1>1, Invariance, PTL

\* No call leaves a socket or a resolver child behind, and no process a call or
\* a resource: the `with` blocks of control_client.py, _stop_resolver() of
\* _deadline_http.py and _close_resources() of cli.py.
THEOREM LeakTheorem == ProcessSpec => []NothingLeaks
<1>1. ASSUME IInv PROVE NothingLeaks
  <2>1. T!NothingLeaks
    BY <1>1 DEF IInv, TP!Tidy, TP!Holding, T!NothingLeaks
  <2>2. ASSUME Gone PROVE stage = "ended"
    BY <1>1, <2>2 DEF IInv, Calling, Gone
  <2>3. ASSUME Gone, NEW i \in 1..Len(opened) PROVE closed[opened[i]] > 0
    <3>1. CASE pc = "killed"
      BY <1>1, <3>1 DEF IInv, Life, Counted
    <3>2. CASE pc = "exited"
      <4>1. opened[i] \in Resource /\ In(opened[i], opened)
        BY <1>1 DEF IInv, Life, Openness, In
      <4>2. ~In(opened[i], queue)
        BY <1>1, <3>2 DEF IInv, Life, Queued, In
      <4> QED
        BY <1>1, <3>2, <4>1, <4>2 DEF IInv, Life, Counted
    <3> QED
      BY <2>3, <3>1, <3>2 DEF Gone
  <2> QED
    BY <2>1, <2>2, <2>3 DEF NothingLeaks
<1> QED
  BY <1>1, Invariance, PTL

\* The process adds to its calls and takes nothing from them: what it does to
\* sockets, resolver children and results is a sequence of requests under their
\* deadlines, whatever signals, errors and closings come in between.
THEOREM CallsAreRequests == ProcessSpec => TP!Spec
<1>1. ProcessInit => TP!Init
  BY DEF ProcessInit, T!Init, TP!Init, T!NoLength, TP!NoLength
<1>2. [ProcessNext]_processVars => [TP!Next]_TP!vars
  <2> SUFFICES ASSUME [ProcessNext]_processVars PROVE [TP!Next]_TP!vars
    OBVIOUS
  <2>1. ASSUME UNCHANGED transportVars PROVE UNCHANGED TP!vars
    BY <2>1 DEF transportVars, TP!vars, TP!progress
  <2>2. ASSUME Call PROVE TP!Next
    BY <2>2 DEF Call, T!Begin, TP!Begin, T!NoLength, TP!NoLength, TP!Next
  <2>3. ASSUME InCall PROVE TP!Next
    BY <2>3, SameStep DEF InCall, TP!Next
  <2> QED
    BY <2>1, <2>2, <2>3 DEF ProcessNext, Leave, Elsewhere, processVars
<1> QED
  BY <1>1, <1>2, PTL DEF ProcessSpec, TP!Spec

\* So what is proved of one request is true of all that the process makes: none
\* begins anything after its deadline, and no body is used but a whole one.
THEOREM CallsKeepTheirPromises ==
  ProcessSpec => TP!NothingBegunLate /\ TP!OnlyWholeResponses
<1>1. TP!Sized
  BY ProcessAssumption DEF TP!Sized
<1> QED
  BY <1>1, CallsAreRequests, TP!LateTheorem, TP!WholeTheorem, PTL
=============================================================================
