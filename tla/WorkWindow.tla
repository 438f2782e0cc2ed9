------------------------------- MODULE WorkWindow -------------------------------
(*****************************************************************************)
(* The time an event may take: one call of _process_entry() of consumer.py   *)
(* with the calls of processor.py and object_store.py it makes, against the  *)
(* two bounds settings.py derives from the timeouts of those calls:          *)
(* stale_idle_ms, after which an entry nobody renewed may be handed to       *)
(* another worker, and max_work_seconds, the deadline of the whole message.  *)
(* Time is in units of 100 ms.                                               *)
(*                                                                           *)
(* Requests to the control API end by their timeout.  Nothing ends rendering *)
(* by its timeout, nor a request to the store whose peer answers byte by     *)
(* byte, nor a call of Redis that connects or is repeated: the history       *)
(* variable overran says that one of them outlasted its timeout, and the     *)
(* properties say what holds as long as none has.                            *)
(*****************************************************************************)
EXTENDS Integers

CONSTANTS
  Settings,      \* the configurations considered
  BatchSize,     \* how many entries are handed over at once
  Durations(_),  \* how long something within a given bound may take
  Overruns(_)    \* how long a call that outlasts a given timeout may take

Timeouts == [api : Nat, diagnostics : Nat, render : Nat, object : Nat,
             redis : Nat, staleIdle : Nat]

Largest(S) == CHOOSE x \in S : \A y \in S : y <= x

\* validate_work_window(): two object operations are taken for a phase.
LongestRenewedPhase(s) ==
  Largest({4 * s.api, s.diagnostics, s.render, 2 * s.object})
Valid(s) == s.staleIdle > s.redis + LongestRenewedPhase(s) + 1

MaxWorkOfFourRequests(s) ==
  4 * s.api + s.diagnostics + s.render + 6 * s.object + 9 * s.redis + 1
MaxWork(s) ==
  16 * s.api + s.diagnostics + s.render + 6 * s.object + 9 * s.redis + 1

\* A request to the store may take the timeout to connect and again to read.
ObjectTimeout(s) == 2 * s.object

\* The work on an entry: what may come after its deadline, and how long an entry
\* is idle before its turn behind n others of its batch, the reply that handed
\* them over included.
LongestWork(s) == MaxWork(s) + ObjectTimeout(s) + 2 * s.redis
Waiting(s, n) == s.redis + n * LongestWork(s)

ASSUME WindowAssumption ==
  /\ Settings \subseteq Timeouts
  /\ BatchSize \in Nat \ {0}
  /\ \A s \in Settings :
       \A t \in {s.api, s.diagnostics, s.render, ObjectTimeout(s), s.redis}
              \cup {Waiting(s, n) : n \in 0..(BatchSize - 1)} :
         /\ 0 \in Durations(t) /\ Durations(t) \subseteq 0..t
         /\ \A d \in Overruns(t) : d \in Nat /\ d > t

VARIABLES
  settings,  \* the worker's configuration
  at,        \* the call it is at
  cleared,   \* the guard before that call was passed
  finalSeen, \* the first HEAD found another object under the final key
  now,       \* time since the work on the entry began
  idle,      \* the entry's idle time at Redis
  covered,   \* the entry was the first of its batch, or has been renewed
  exposed,   \* history: while covered and in hand it was idle for stale_idle_ms
  cut,       \* history: the deadline ended the work
  overran    \* history: a call outlasted its timeout

vars == <<settings, at, cleared, finalSeen, now, idle, covered, exposed, cut, overran>>

ApiCall == {"claim", "fetch", "complete", "recoveryFetch"}
ObjectCall == {"headFinal", "probeCanonical", "headCanonical", "putCanonical",
               "raceCanonical", "getCanonical", "putFinal", "raceFinal"}
RedisCall == {"count", "settle"}
Call == ApiCall \cup ObjectCall \cup RedisCall \cup {"diagnostics", "render"}

\* The calls that follow a guard of their own.
Guarded == ApiCall \cup {"diagnostics", "render", "headFinal", "putCanonical",
                         "raceCanonical", "putFinal", "raceFinal"}

TypeOK ==
  /\ settings \in Settings
  /\ at \in Call \cup {"done"}
  /\ cleared \in BOOLEAN /\ finalSeen \in BOOLEAN
  /\ now \in Nat /\ idle \in Nat
  /\ covered \in BOOLEAN
  /\ exposed \in BOOLEAN /\ cut \in BOOLEAN /\ overran \in BOOLEAN

\* The reply that handed the batch over was on its way for up to a timeout; the
\* entry is the first of the batch, or nobody renewed it during the work on the
\* n before it.
Init ==
  /\ settings \in {s \in Settings : Valid(s)}
  /\ at = "count"
  /\ cleared = FALSE
  /\ finalSeen = FALSE
  /\ now = 0
  /\ \E n \in 0..(BatchSize - 1) :
       /\ idle \in Durations(Waiting(settings, n))
       /\ covered = (n = 0)
  /\ exposed = FALSE
  /\ cut = FALSE
  /\ overran = FALSE

Timeout(c) == CASE c \in ApiCall -> settings.api
                [] c \in ObjectCall -> ObjectTimeout(settings)
                [] c \in RedisCall -> settings.redis
                [] c = "diagnostics" -> settings.diagnostics
                [] c = "render" -> settings.render

\* The control API's requests end by their timeout, the others may overrun it.
Bounded == ApiCall \cup {"diagnostics"}
Time(t) == Durations(t) \cup Overruns(t)
CallTime(c) == IF c \in Bounded THEN Durations(Timeout(c)) ELSE Time(Timeout(c))

\* _guard()'s required_budget.
NoBudget(c) == 0
Budget(c) == CASE c = "render" -> settings.render
               [] c \in ObjectCall -> 2 * settings.object
               [] OTHER -> 0

\* What may come after a call that succeeds.  Bytes equal to the canonical ones
\* need no GET, a lost race needs a HEAD.  An event that cannot be read is
\* dead-lettered at once.
PublishFinal == IF finalSeen THEN {"complete"} ELSE {"putFinal"}
After == [
  count          |-> {"claim", "settle"},
  claim          |-> {"fetch", "diagnostics"},
  fetch          |-> {"diagnostics", "settle"},
  diagnostics    |-> {"render"},
  render         |-> {"headFinal"},
  headFinal      |-> {"headCanonical", "probeCanonical", "complete"},
  probeCanonical |-> {"headCanonical"},
  headCanonical  |-> {"putCanonical", "getCanonical"} \cup PublishFinal,
  putCanonical   |-> {"raceCanonical"} \cup PublishFinal,
  raceCanonical  |-> {"getCanonical"} \cup PublishFinal,
  getCanonical   |-> PublishFinal,
  putFinal       |-> {"raceFinal", "complete"},
  raceFinal      |-> {"complete"},
  complete       |-> {"recoveryFetch", "settle"},
  recoveryFetch  |-> {"settle"},
  settle         |-> {"done"}]

Remaining == MaxWork(settings) - now

\* Time passes; the entry may come within reach of XAUTOCLAIM.
Pass(d) ==
  /\ now' = now + d
  /\ idle' = idle + d
  /\ exposed' = (exposed \/ (covered /\ idle + d >= settings.staleIdle))

CutOff == at' = "settle" /\ cleared' = FALSE /\ cut' = TRUE

-----------------------------------------------------------------------------
\* _guard() finds that the stage no longer fits.
GuardDenies ==
  /\ at \in Guarded /\ ~cleared
  /\ Remaining < Budget(at)
  /\ CutOff
  /\ UNCHANGED <<settings, finalSeen, now, idle, covered, exposed, overran>>

\* _guard() renews: the script runs t after it was sent, its reply comes at d.
RenewedWithoutClaim(d, t) == idle + d
RenewedIdle(d, t) == d - t
GuardRenews ==
  /\ at \in Guarded /\ ~cleared
  /\ Remaining >= Budget(at)
  /\ \E d \in Time(settings.redis), t \in Time(settings.redis) :
       /\ t <= d
       /\ now' = now + d
       /\ idle' = RenewedIdle(d, t)
       /\ exposed' = (exposed \/ (covered /\ idle + t >= settings.staleIdle))
       /\ overran' = (overran \/ d > settings.redis)
  /\ cleared' = TRUE
  /\ covered' = TRUE
  /\ UNCHANGED <<settings, at, finalSeen, cut>>

\* The renewal raises, or finds the lease lost.  The work ends as a transient
\* failure, which a dead-letter call may still follow.
RenewalFails ==
  /\ at \in Guarded /\ ~cleared
  /\ Remaining >= Budget(at)
  /\ \E d \in Time(settings.redis) :
       Pass(d) /\ overran' = (overran \/ d > settings.redis)
  /\ at' = "settle"
  /\ UNCHANGED <<settings, cleared, finalSeen, covered, cut>>

\* The API client and the paging loop stop at the message's deadline; nothing is
\* sent after it.
Left == IF Remaining > 0 THEN Remaining ELSE 0
ReachesDeadline ==
  /\ at \in Bounded /\ cleared
  /\ \E d \in Durations(Timeout(at)) : d >= Remaining
  /\ Pass(Left)
  /\ CutOff
  /\ UNCHANGED <<settings, finalSeen, covered, overran>>

\* Rendering and the store are not interrupted; process() looks at the clock
\* after each of the two.
LooksAtClock(next) ==
  \/ at = "render" /\ next = "headFinal"
  \/ at \in ObjectCall /\ next = "complete"
Proceed(next, d) ==
  IF LooksAtClock(next) /\ now + d >= MaxWork(settings)
  THEN CutOff
  ELSE at' = next /\ cleared' = FALSE /\ UNCHANGED cut

\* A call that fails ends the work: with a verdict, or with an exception that
\* leaves process_once(), as those of Redis and a rejected credential do.
Failed == {"done"} \cup (IF at \in RedisCall THEN {} ELSE {"settle"})
MakeCall ==
  /\ at # "done" /\ (at \in Guarded => cleared)
  /\ \E d \in CallTime(at), next \in After[at] \cup Failed :
       /\ at \in Bounded => d < Remaining
       /\ Pass(d)
       /\ Proceed(next, d)
       /\ finalSeen' = (finalSeen \/ next = "probeCanonical")
       /\ overran' = (overran \/ d > Timeout(at))
  /\ UNCHANGED <<settings, covered>>

Done == at = "done" /\ UNCHANGED vars

Next ==
  GuardDenies \/ GuardRenews \/ RenewalFails \/ ReachesDeadline \/ MakeCall \/ Done

Spec == Init /\ [][Next]_vars

-----------------------------------------------------------------------------
(* Properties. *)

\* What the lease and the deadline need beyond what is validated.  Around the
\* longest phase lie the reply to the renewal before it, a renewal after it that
\* fails, and the settlement; the phase before the first renewal is a call of
\* Redis.  The longest path has seven requests to the store where three are
\* granted, and twelve calls of Redis where nine are.
RoomyLease(s) ==
  s.staleIdle >
    3 * s.redis + Largest({4 * ObjectTimeout(s), s.diagnostics, s.api, s.render, s.redis})
RoomyDeadline(s) == 4 * ObjectTimeout(s) + 3 * s.redis <= 12 * s.api

\* While every call keeps its timeout and the lease has room, no other worker can
\* be handed the entry: if it is the first of its batch, as long as it is in
\* hand, and otherwise from its first renewal on.
LeaseOutlivesPhases == RoomyLease(settings) /\ ~overran => ~exposed

\* The same with what is validated: each renewed external phase and the Redis
\* timeout.
StaleIdleCoversPhases == ~overran => ~exposed

\* While every call keeps its timeout, the deadline never ends the work, if the
\* API's timeout is not too small beside those of the store and of Redis.
DeadlineCoversWork == RoomyDeadline(settings) /\ ~overran => ~cut

\* While every call keeps its timeout, work ends at most one request to the store
\* and two calls of Redis after the deadline, though none of these is
\* interrupted by it: no guard lets a stage begin that does not fit.
EndsSoonAfterDeadline == ~overran => now <= LongestWork(settings)

=============================================================================
