----------------------------- MODULE WorkerProcess -----------------------------
(*****************************************************************************)
(* A worker process with its calls to the control API: WorkerLifecycle,      *)
(* whose run() and process_once() make the calls of DeadlineTransport, one   *)
(* after the other.  Signals come during a call as at any other time and do  *)
(* not interrupt it; a rejected credential leaves run() as an error.         *)
(*****************************************************************************)
EXTENDS WorkerLifecycle

CONSTANTS
  MaxAddresses, Cap,  \* as in DeadlineTransport
  MaxCalls            \* bound: calls made

ASSUME ProcessAssumption ==
  /\ MaxAddresses \in Nat \ {0}
  /\ Cap \in Nat
  /\ MaxCalls \in Nat

VARIABLES expired, stage, armed, child, addresses, sockets, declared, received, result,
          calls  \* how many were made

T == INSTANCE DeadlineTransport

transportVars == <<expired, stage, armed, child, addresses, sockets, declared,
                   received, result>>
processVars == <<vars, transportVars, calls>>

ProcessTypeOK ==
  /\ TypeOK
  /\ T!TypeOK
  /\ calls \in 0..MaxCalls
  /\ stage # "ended" => pc = "run" /\ calls > 0

ProcessInit == Init /\ T!Init /\ calls = 0

Call ==
  /\ pc = "run" /\ calls < MaxCalls /\ result # "fatal"
  /\ T!Begin
  /\ calls' = calls + 1
  /\ UNCHANGED vars

InCall == T!Step /\ UNCHANGED <<vars, calls>>

\* Anything else raised in process_once() leaves it between two calls.
CallIsOver == stage = "ended"
Leave ==
  /\ CallIsOver
  /\ Run
  /\ result = "fatal" => primary' = "run"
  /\ UNCHANGED <<transportVars, calls>>

Elsewhere == (Own \/ Deliver) /\ UNCHANGED <<transportVars, calls>>

ProcessNext == Call \/ InCall \/ Leave \/ Elsewhere

ProcessSpec == ProcessInit /\ [][ProcessNext]_processVars

\* Time passes and the process runs; the peer and the resolver owe nothing, and
\* run() ends by itself only when it is asked to.
MustLeave == (stop /\ primary' = primary) \/ (result = "fatal" /\ primary' = "run")
FairProcess ==
  /\ ProcessSpec
  /\ WF_processVars(Own /\ UNCHANGED <<transportVars, calls>>)
  /\ WF_processVars(Leave /\ MustLeave)
  /\ WF_processVars(T!Expire /\ UNCHANGED <<vars, calls>>)
  /\ WF_processVars(T!Own /\ UNCHANGED <<vars, calls>>)

-----------------------------------------------------------------------------
(* Properties. *)

\* A call that has ended, however it ended and whatever signals came, leaves no
\* socket open and no resolver child unreaped.  A process that is gone, killed
\* while its handlers were not in or of its own accord, was in no call and holds
\* no resource that it did not try to close.
Gone == pc \in {"exited", "killed"}
NothingLeaks ==
  /\ T!NothingLeaks
  /\ Gone => /\ stage = "ended"
             /\ \A i \in 1..Len(opened) : closed[opened[i]] > 0

\* A call ends, whatever the peer does: also when it never answers, when it
\* answers byte by byte, or when the name resolves to many dead addresses.
CallEnds == T!CallEnds

\* A worker asked to stop, or whose credential is rejected, is gone in the end,
\* also when it is in a call that the peer never answers.
StopEnds == stop \/ result = "fatal" ~> Gone

=============================================================================
