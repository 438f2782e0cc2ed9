------------------------ MODULE DeadlineTransportProofs ------------------------
(*****************************************************************************)
(* Proofs about DeadlineTransport, for any number of addresses and any cap.  *)
(*****************************************************************************)
EXTENDS DeadlineTransport, TLAPS

Sized == MaxAddresses \in Nat \ {0} /\ Cap \in Nat

\* The flags of a call ...
Flags ==
  /\ expired \in BOOLEAN /\ armed \in BOOLEAN
  /\ armed => stage # "ended"
  /\ stage = "resolve" => (armed <=> child \in {"running", "exited"})

\* ... and what it holds while it waits, and that it holds nothing else.
Holding ==
  /\ stage \in Waits \cup {"ended"}
  /\ child \in {"none", "running", "exited", "reaped"}
  /\ addresses \in 0..MaxAddresses
  /\ sockets = IF stage \in {"resolve", "ended"} THEN 0 ELSE 1
  /\ declared \in Nat \cup {NoLength}
  /\ received \in 0..Cap
  /\ result \in Refusal \cup {"none", "response"}
  /\ stage # "ended" => result = "none"
  /\ stage # "resolve" => child \in {"none", "reaped"}

Tidy == Flags /\ Holding

LEMMA TidyTypes == ASSUME Tidy PROVE TypeOK
BY DEF Tidy, Flags, Holding, TypeOK

-----------------------------------------------------------------------------
(* The ways a call goes on. *)

LEMMA EndKeepsTidy ==
  ASSUME Tidy, UNCHANGED expired, stage # "ended",
         NEW r \in Refusal \cup {"response"}, End(r)
  PROVE  Tidy'
<1>1. Holding'
  BY DEF End, Reap, Tidy, Holding, Waits, progress
<1>2. Flags'
  BY DEF End, Tidy, Flags
<1> QED
  BY <1>1, <1>2 DEF Tidy

LEMMA FailKeepsTidy ==
  ASSUME Sized, Tidy, UNCHANGED expired, stage # "ended", Fail
  PROVE  Tidy'
<1>1. CASE NextAddress
  <2>1. Holding'
    BY <1>1 DEF NextAddress, ReplaceSocket, Sized, Tidy, Holding, progress
  <2>2. Flags'
    BY <1>1 DEF NextAddress, Tidy, Flags
  <2> QED
    BY <2>1, <2>2 DEF Tidy
<1>2. CASE End("transient")
  BY <1>2, EndKeepsTidy DEF Refusal
<1> QED
  BY <1>1, <1>2 DEF Fail

LEMMA EnterKeepsTidy ==
  ASSUME Tidy, UNCHANGED expired, stage \notin {"resolve", "ended"},
         NEW s \in {"handshake", "send", "head"}, Enter(s)
  PROVE  Tidy'
<1>1. Holding'
  BY DEF Enter, Tidy, Holding, Waits, progress
<1>2. Flags'
  BY DEF Enter, Tidy, Flags
<1> QED
  BY <1>1, <1>2 DEF Tidy

LEMMA StepKeepsTidy ==
  ASSUME Sized, Tidy, [Next]_vars
  PROVE  Tidy'
<1>1. CASE UNCHANGED vars
  <2>a. Holding'
    BY <1>1 DEF vars, progress, Tidy, Holding
  <2>b. Flags'
    BY <1>1 DEF vars, progress, Tidy, Flags
  <2> QED
    BY <2>a, <2>b DEF Tidy
<1>2. CASE Begin
  <2>a. Holding'
    BY <1>2 DEF Begin, Waits, NoLength, Sized, Tidy, Holding
  <2>b. Flags'
    BY <1>2 DEF Begin, Waits, NoLength, Sized, Tidy, Flags
  <2> QED
    BY <2>a, <2>b DEF Tidy
<1>3. CASE Expire
  <2>a. Holding'
    BY <1>3 DEF Expire, progress, Tidy, Holding
  <2>b. Flags'
    BY <1>3 DEF Expire, progress, Tidy, Flags
  <2> QED
    BY <2>a, <2>b DEF Tidy
<1>4. CASE Arm
  <2>1. CASE Fail
    BY <1>4, <2>1, FailKeepsTidy DEF Arm, Waits
  <2>2. CASE ~Fail
    <3>a. Holding'
      BY <1>4, <2>2 DEF Arm, progress, Tidy, Holding
    <3>b. Flags'
      BY <1>4, <2>2 DEF Arm, Waits, Tidy, Flags
    <3> QED
      BY <3>a, <3>b DEF Tidy
  <2> QED
    BY <2>1, <2>2
<1>5. CASE TimesOut
  <2>1. Waiting /\ stage # "ended"
    BY <1>5 DEF TimesOut, Waiting, Tidy, Flags
  <2> QED
    BY <1>5, <2>1, FailKeepsTidy DEF TimesOut
<1>6. CASE ChildExits
  <2>a. Holding'
    BY <1>6 DEF ChildExits, progress, Tidy, Holding
  <2>b. Flags'
    BY <1>6 DEF ChildExits, progress, Tidy, Flags
  <2> QED
    BY <2>a, <2>b DEF Tidy
<1>7. CASE Resolved
  <2>1. CASE Fail
    BY <1>7, <2>1, FailKeepsTidy DEF Resolved
  <2>2. CASE ~Fail
    <3>a. Holding'
      BY <1>7, <2>2 DEF Resolved, Sized, Waits, progress, Tidy, Holding
    <3>b. Flags'
      BY <1>7, <2>2 DEF Resolved, Sized, Waits, progress, Tidy, Flags
    <3> QED
      BY <3>a, <3>b DEF Tidy
  <2> QED
    BY <2>1, <2>2
<1>8. CASE Connected
  BY <1>8, EnterKeepsTidy DEF Connected
<1>9. CASE Transferred
  BY <1>9, EnterKeepsTidy DEF Transferred
<1>10. CASE PeerFails
  <2>1. stage # "ended"
    BY <1>10 DEF PeerFails, Tidy, Flags
  <2> QED
    BY <1>10, <2>1, FailKeepsTidy DEF PeerFails
<1>11. CASE Headers
  <2>1. CASE Fail
    BY <1>11, <2>1, FailKeepsTidy DEF Headers
  <2>2. ASSUME NEW r \in Refusal, End(r)
        PROVE  Tidy'
    BY <1>11, <2>2, EndKeepsTidy DEF Headers
  <2>3. CASE ~Fail /\ ~\E r \in Refusal : End(r)
    <3>a. Holding'
      BY <1>11, <2>3 DEF Headers, Sized, Waits, NoLength, Tidy, Holding
    <3>b. Flags'
      BY <1>11, <2>3 DEF Headers, Sized, Waits, NoLength, Tidy, Flags
    <3> QED
      BY <3>a, <3>b DEF Tidy
  <2> QED
    BY <2>1, <2>2, <2>3
<1>12. CASE Chunk
  <2>1. CASE Fail
    BY <1>12, <2>1, FailKeepsTidy DEF Chunk
  <2>2. CASE ~Fail
    <3>a. Holding'
      BY <1>12, <2>2 DEF Chunk, Fits, Sized, Tidy, Holding
    <3>b. Flags'
      BY <1>12, <2>2 DEF Chunk, Fits, Sized, Tidy, Flags
    <3> QED
      BY <3>a, <3>b DEF Tidy
  <2> QED
    BY <2>1, <2>2
<1>13. CASE EndOfBody
  <2>1. CASE Fail
    BY <1>13, <2>1, FailKeepsTidy DEF EndOfBody
  <2>2. CASE End("response")
    BY <1>13, <2>2, EndKeepsTidy DEF EndOfBody
  <2> QED
    BY <1>13, <2>1, <2>2 DEF EndOfBody
<1> QED
  BY <1>1, <1>2, <1>3, <1>4, <1>5, <1>6, <1>7, <1>8, <1>9, <1>10, <1>11,
     <1>12, <1>13 DEF Next, Step, Peer, Own

\* Only a call that is under way takes steps.
LEMMA StepInCall == ASSUME Tidy, Step PROVE stage # "ended"
<1>1. CASE Expire
  BY <1>1 DEF Expire
<1>2. CASE ChildExits
  BY <1>2 DEF ChildExits, Tidy, Holding
<1>3. CASE Arm
  BY <1>3 DEF Arm, Waits
<1>4. CASE Resolved \/ Connected \/ Headers \/ Chunk \/ EndOfBody
  BY <1>4 DEF Resolved, Connected, Headers, Chunk, EndOfBody
<1>5. CASE TimesOut \/ Transferred \/ PeerFails
  <2>1. armed
    BY <1>5 DEF TimesOut, Waiting, Transferred, PeerFails
  <2> QED
    BY <2>1 DEF Tidy, Flags
<1> QED
  BY <1>1, <1>2, <1>3, <1>4, <1>5 DEF Step, Peer, Own

LEMMA InitTidy == ASSUME Sized, Init PROVE Tidy
<1>1. Holding
  BY DEF Sized, Init, Holding, Waits, NoLength
<1>2. Flags
  BY DEF Init, Flags
<1> QED
  BY <1>1, <1>2 DEF Tidy

-----------------------------------------------------------------------------
(* What follows. *)

THEOREM TidyTheorem == ASSUME Sized PROVE Spec => []Tidy
<1>1. Init => Tidy
  BY InitTidy
<1>2. Tidy /\ [Next]_vars => Tidy'
  BY StepKeepsTidy
<1> QED
  BY <1>1, <1>2, PTL DEF Spec

\* The state of a call always has its type.
THEOREM TypeCorrect == ASSUME Sized PROVE Spec => []TypeOK
BY TidyTheorem, TidyTypes, PTL

\* No call leaves a socket or a resolver child behind: the `with` blocks of
\* control_client.py, connect_tcp() and _stop_resolver() of _deadline_http.py.
THEOREM LeakTheorem == ASSUME Sized PROVE Spec => []NothingLeaks
<1>1. Tidy => NothingLeaks
  BY DEF Tidy, Holding, NothingLeaks
<1> QED
  BY <1>1, TidyTheorem, PTL

-----------------------------------------------------------------------------
(* The deadline. *)

\* After the deadline no step arms a wait or starts a child.
NoneBegun ==
  /\ armed' => armed
  /\ child' = "running" => child = "running"

LEMMA FailBeginsNothing == ASSUME Fail PROVE NoneBegun
BY DEF Fail, NextAddress, End, Reap, NoneBegun

LEMMA EnterBeginsNothing == ASSUME NEW s, Enter(s) PROVE NoneBegun
BY DEF Enter, NoneBegun

LEMMA StepBeginsNothingLate == ASSUME Next, expired PROVE NoneBegun
<1>1. CASE Begin
  BY <1>1 DEF Begin, NoneBegun
<1>2. CASE Expire
  BY <1>2 DEF Expire
<1>3. CASE Own
  BY <1>3, FailBeginsNothing DEF Own, Arm, TimesOut, Resolved
<1>4. CASE ChildExits
  BY <1>4 DEF ChildExits, NoneBegun
<1>5. CASE Connected
  BY <1>5 DEF Connected
<1>6. CASE Transferred
  BY <1>6, EnterBeginsNothing DEF Transferred
<1>7. CASE PeerFails \/ Headers \/ Chunk \/ EndOfBody
  BY <1>7, FailBeginsNothing DEF PeerFails, Headers, Chunk, EndOfBody
<1> QED
  BY <1>1, <1>2, <1>3, <1>4, <1>5, <1>6, <1>7 DEF Next, Step, Peer

\* Nothing is begun after the deadline: no child, no connection, no transfer.
THEOREM LateTheorem == Spec => NothingBegunLate
<1> DEFINE A == expired => /\ armed' => armed
                           /\ child' = "running" => child = "running"
<1>1. [Next]_vars => [A]_vars
  <2> SUFFICES ASSUME Next, expired PROVE A
    OBVIOUS
  <2> QED
    BY StepBeginsNothingLate DEF NoneBegun
<1> QED
  BY <1>1, PTL DEF Spec, NothingBegunLate

\* A body that is used came whole, within the cap and before the deadline.
THEOREM WholeTheorem == ASSUME Sized PROVE Spec => OnlyWholeResponses
<1>1. ASSUME Tidy, Next, Used
      PROVE  ~expired /\ received <= Cap /\ declared \in {NoLength, received}
  <2>1. received \in 0..Cap /\ result = "none"
    BY <1>1 DEF Tidy, Holding, Used
  <2>2. EndOfBody
    BY <1>1, <2>1 DEF Next, Step, Begin, Expire, Peer, Own, Arm, TimesOut,
         Resolved, ChildExits, Connected, Transferred, PeerFails, Headers,
         Chunk, Fail, NextAddress, End, Enter, Refusal, Used
  <2>3. ~expired /\ Whole
    BY <1>1, <2>1, <2>2 DEF EndOfBody, Fail, NextAddress, End, Used
  <2> QED
    BY <2>1, <2>3 DEF Whole, Sized
<1>2. Tidy /\ [Next]_vars
        => [Used => /\ ~expired
                    /\ received <= Cap
                    /\ declared \in {NoLength, received}]_vars
  BY <1>1
<1> QED
  BY <1>2, TidyTheorem, PTL DEF Spec, OnlyWholeResponses
=============================================================================
