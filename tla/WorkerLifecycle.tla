---------------------------- MODULE WorkerLifecycle ----------------------------
(*****************************************************************************)
(* The process around the consumer: main(), create_consumer(), run_worker()  *)
(* and _close_resources() of cli.py.  Opening, running and closing may each  *)
(* fail at any resource, and a signal may come between any two steps.        *)
(*****************************************************************************)
EXTENDS Integers, Sequences, FiniteSets

CONSTANT MaxSignals   \* bound: signals sent

ASSUME LifecycleAssumption == MaxSignals \in Nat

Opening == <<"redis", "control", "object_client">>
Closing == <<"control", "object_client", "redis">>
Resource == {"redis", "control", "object_client"}

VARIABLES
  once,      \* the argument --once
  pc,
  handlers,  \* signals whose handler is ours
  stop,      \* the stop event
  opened,    \* resources opened, in order
  queue,     \* resources still to be closed, in order
  closed,    \* how often each was asked to close
  failures,  \* how many refused
  primary,   \* the error on its way out
  note,      \* failures noted on it
  raised,    \* what leaves main()
  signals

vars == <<once, pc, handlers, stop, opened, queue, closed, failures, primary, note,
          raised, signals>>

Signal == {"SIGTERM", "SIGINT"}
PC == {"install", "open", "run", "close", "restore", "exited", "killed"}
Error == {"none", "create", "run", "cleanup"}

TypeOK ==
  /\ once \in BOOLEAN
  /\ pc \in PC
  /\ handlers \subseteq Signal
  /\ stop \in BOOLEAN
  /\ opened \in Seq(Resource) /\ queue \in Seq(Resource)
  /\ closed \in [Resource -> Nat]
  /\ failures \in 0..3 /\ note \in 0..3
  /\ primary \in Error /\ raised \in Error
  /\ signals \in Nat
  /\ pc \in {"open", "run", "close"} => handlers = Signal

Init ==
  /\ once \in BOOLEAN
  /\ pc = "install"
  /\ handlers = {}
  /\ stop = FALSE
  /\ opened = <<>> /\ queue = <<>>
  /\ closed = [r \in Resource |-> 0]
  /\ failures = 0 /\ note = 0
  /\ primary = "none" /\ raised = "none"
  /\ signals = 0

-----------------------------------------------------------------------------
(* main(): the handlers go in one by one, and out whatever happened. *)

Installed(h) == h = Signal
Install ==
  /\ pc = "install"
  /\ \E s \in Signal \ handlers :
       /\ s = "SIGINT" => "SIGTERM" \in handlers
       /\ handlers' = handlers \cup {s}
  /\ pc' = IF Installed(handlers') THEN "open" ELSE "install"
  /\ UNCHANGED <<once, stop, opened, queue, closed, failures, primary, note, raised,
                 signals>>

Restore ==
  /\ pc = "restore"
  /\ \E s \in handlers :
       /\ s = "SIGINT" => "SIGTERM" \notin handlers
       /\ handlers' = handlers \ {s}
  /\ pc' = IF handlers' = {} THEN "exited" ELSE "restore"
  /\ UNCHANGED <<once, stop, opened, queue, closed, failures, primary, note, raised,
                 signals>>

\* A handler only sets the stop event; without one the process is terminated.
Deliver ==
  /\ signals < MaxSignals /\ pc \notin {"exited", "killed"}
  /\ signals' = signals + 1
  /\ \E s \in Signal :
       IF s \in handlers THEN stop' = TRUE /\ UNCHANGED pc
       ELSE pc' = "killed" /\ UNCHANGED stop
  /\ UNCHANGED <<once, handlers, opened, queue, closed, failures, primary, note, raised>>

-----------------------------------------------------------------------------
(* create_consumer() and run_worker(). *)

\* What is closed when creation fails: what was opened, last first.
Reversed(s) == [i \in 1..Len(s) |-> s[Len(s) + 1 - i]]

\* The next client is opened, or its constructor raises; after the last one the
\* store, the processor and the consumer are built, which may raise as well.
Open ==
  /\ pc = "open"
  /\ \/ /\ Len(opened) < 3
        /\ opened' = Append(opened, Opening[Len(opened) + 1])
        /\ UNCHANGED <<pc, queue, primary>>
     \/ /\ primary' = "create"
        /\ queue' = Reversed(opened)
        /\ pc' = "close"
        /\ UNCHANGED opened
     \/ /\ Len(opened) = 3
        /\ pc' = "run"
        /\ UNCHANGED <<opened, queue, primary>>
  /\ UNCHANGED <<once, handlers, stop, closed, failures, note, raised, signals>>

\* setup() and process_once(), or run(), which returns once stop is set.
RunsOn == once
Returns == once \/ stop
Run ==
  /\ pc = "run"
  /\ \/ Returns /\ UNCHANGED primary
     \/ primary' = "run"
  /\ queue' = Closing
  /\ pc' = "close"
  /\ UNCHANGED <<once, handlers, stop, opened, closed, failures, note, raised, signals>>

\* _close_resources(): a resource that fails to close does not keep the next
\* one from being closed.
GiveUpOnFailure == IF failures' > failures THEN <<>> ELSE Tail(queue)
Remaining == Tail(queue)
Close ==
  /\ pc = "close" /\ queue # <<>>
  /\ closed' = [closed EXCEPT ![Head(queue)] = @ + 1]
  /\ failures' \in {failures, failures + 1}
  /\ queue' = Remaining
  /\ UNCHANGED <<once, pc, handlers, stop, opened, primary, note, raised, signals>>

\* Failures are noted on the error on its way out, or are the error.
OwnErrorFirst == IF failures > 0 THEN "cleanup" ELSE primary
Outgoing == IF primary # "none" THEN primary
            ELSE IF failures > 0 THEN "cleanup" ELSE "none"
Report ==
  /\ pc = "close" /\ queue = <<>>
  /\ raised' = Outgoing
  /\ note' = IF primary # "none" THEN failures ELSE 0
  /\ pc' = "restore"
  /\ UNCHANGED <<once, handlers, stop, opened, queue, closed, failures, primary, signals>>

Own == Install \/ Restore \/ Open \/ Close \/ Report
Next == Own \/ Run \/ Deliver

Spec == Init /\ [][Next]_vars

-----------------------------------------------------------------------------
(* Properties. *)

\* When main() is left, every resource that was opened was asked to close once,
\* whatever failed before and however many of the others refused.
ClosedOnce ==
  pc \in {"restore", "exited"} =>
    \A r \in Resource :
      closed[r] = IF \E i \in 1..Len(opened) : opened[i] = r THEN 1 ELSE 0

\* The error that made the worker end is the one that leaves it, with the
\* failures of the closing noted; a clean end with a failure is an error too.
PrimaryErrorSurvives ==
  pc = "exited" =>
    /\ primary # "none" => raised = primary /\ note = failures
    /\ primary = "none" => (raised = "cleanup" <=> failures > 0)

=============================================================================
