---------------------------- MODULE WorkWindowProofs ----------------------------
(*****************************************************************************)
(* Proofs about WorkWindow for every setting validate_work_window() accepts. *)
(*                                                                           *)
(* The invariant gives for each call the latest time at which it may come up *)
(* and the longest the entry may then have been idle: sums of the timeouts   *)
(* along the longest path of the code to that call.                          *)
(*****************************************************************************)
EXTENDS WorkWindow, TLAPS

\* When the guard of the present call was reached, at the latest: passing it
\* takes up to the Redis timeout.
Reached == IF cleared THEN now - settings.redis ELSE now

\* A call of the store more, if another final object was found first.
Probe == IF finalSeen THEN ObjectTimeout(settings) ELSE 0

Prepare == 2 * settings.api + settings.diagnostics + settings.render

OnTime ==
  LET q == settings.redis
      a == settings.api
      o == ObjectTimeout(settings)
  IN
  /\ at = "count" => Reached <= 0
  /\ at = "claim" => Reached <= q
  /\ at = "fetch" => Reached <= 2 * q + a
  /\ at = "diagnostics" => Reached <= 3 * q + 2 * a
  /\ at = "render" => Reached <= 4 * q + 2 * a + settings.diagnostics
  /\ at = "headFinal" => Reached <= 5 * q + Prepare
  /\ at = "probeCanonical" => Reached <= 6 * q + Prepare + o /\ finalSeen
  /\ at = "headCanonical" => Reached <= 6 * q + Prepare + o + Probe
  /\ at = "putCanonical" => Reached <= 6 * q + Prepare + 2 * o + Probe
  /\ at = "raceCanonical" => Reached <= 7 * q + Prepare + 3 * o + Probe
  /\ at = "getCanonical" => Reached <= 8 * q + Prepare + 4 * o + Probe
  /\ at = "putFinal" => Reached <= 8 * q + Prepare + 5 * o
  /\ at = "raceFinal" => Reached <= 9 * q + Prepare + 6 * o
  /\ at = "complete" => Reached <= 10 * q + Prepare + 7 * o
  /\ at = "recoveryFetch" => Reached <= 11 * q + Prepare + 7 * o + a

\* A guard lets a stage begin only if one request to the store, or the rendering,
\* still fits; a stage of the store is up to two requests longer only while the
\* path to it leaves them the time.
InBudget ==
  /\ cleared => at \in Guarded /\ now <= MaxWork(settings) - Budget(at) + settings.redis
  /\ at = "getCanonical" => now <= MaxWork(settings) + settings.redis
  /\ at \in {"complete", "recoveryFetch"} /\ ~cleared => now <= MaxWork(settings)
  /\ at # "done" => now <= MaxWork(settings) + ObjectTimeout(settings) + settings.redis
  /\ now <= LongestWork(settings)

\* The longest time between two renewals.
LongestPhase ==
  Largest({4 * ObjectTimeout(settings), settings.diagnostics, settings.api,
           settings.render, settings.redis})

IdleInv ==
  LET q == settings.redis
      o == ObjectTimeout(settings)
  IN
  /\ covered =>
       /\ at = "count" => idle <= q
       /\ at = "claim" => idle <= 2 * q
       /\ cleared => idle <= q
       /\ at = "probeCanonical" => idle <= q + o
       /\ at = "headCanonical" => idle <= q + 2 * o
       /\ at = "getCanonical" => idle <= q + 3 * o
       /\ at \notin {"settle", "done"} => idle <= q + LongestPhase
       /\ at = "settle" => idle <= 2 * q + LongestPhase
  /\ RoomyLease(settings) => ~exposed

CutInv == (RoomyDeadline(settings) => ~cut) /\ (cut => at \in {"settle", "done"})

InTime == TypeOK /\ OnTime /\ InBudget /\ IdleInv /\ CutInv

\* The bounds hold as long as every call has kept its timeout.
IInv == TypeOK /\ (~overran => InTime)

-----------------------------------------------------------------------------
(* The settings. *)

LEMMA LargestOfFive ==
  ASSUME NEW u \in Nat, NEW v \in Nat, NEW w \in Nat, NEW x \in Nat, NEW y \in Nat
  PROVE  /\ Largest({u, v, w, x, y}) \in Nat
         /\ \A z \in {u, v, w, x, y} : z <= Largest({u, v, w, x, y})
<1> DEFINE S == {u, v, w, x, y}
<1>1. \E m \in S : \A z \in S : z <= m
  <2>1. PICK b \in {u, v} : u <= b /\ v <= b
    OBVIOUS
  <2>2. PICK c \in {w, x} : w <= c /\ x <= c
    OBVIOUS
  <2>3. PICK d \in {b, c} : b <= d /\ c <= d
    BY <2>1, <2>2
  <2>4. PICK m \in {d, y} : d <= m /\ y <= m
    BY <2>1, <2>2, <2>3
  <2>5. QED
    BY <2>1, <2>2, <2>3, <2>4
<1>2. Largest(S) \in S /\ \A z \in S : z <= Largest(S)
  BY <1>1 DEF Largest
<1>3. QED
  BY <1>2

LEMMA SettingsFacts ==
  ASSUME TypeOK
  PROVE  /\ settings.api \in Nat /\ settings.diagnostics \in Nat
         /\ settings.render \in Nat /\ ObjectTimeout(settings) \in Nat
         /\ settings.redis \in Nat /\ settings.staleIdle \in Nat
         /\ MaxWork(settings) \in Nat
         /\ MaxWork(settings) = 16 * settings.api + settings.diagnostics + settings.render
                                 + 3 * ObjectTimeout(settings) + 9 * settings.redis + 1
         /\ LongestPhase \in Nat
         /\ 4 * ObjectTimeout(settings) <= LongestPhase /\ settings.diagnostics <= LongestPhase
         /\ settings.api <= LongestPhase /\ settings.render <= LongestPhase
         /\ settings.redis <= LongestPhase
<1>1. /\ settings.api \in Nat /\ settings.diagnostics \in Nat
      /\ settings.render \in Nat /\ settings.object \in Nat
      /\ settings.redis \in Nat /\ settings.staleIdle \in Nat
  BY WindowAssumption DEF TypeOK, WindowAssumption, Timeouts
<1>2. ObjectTimeout(settings) \in Nat /\ ObjectTimeout(settings) = 2 * settings.object
  BY <1>1 DEF ObjectTimeout
<1>3. /\ MaxWork(settings) \in Nat
      /\ MaxWork(settings) = 16 * settings.api + settings.diagnostics + settings.render
                              + 3 * ObjectTimeout(settings) + 9 * settings.redis + 1
  BY <1>1, <1>2 DEF MaxWork
<1>4. /\ LongestPhase \in Nat
      /\ \A z \in {4 * ObjectTimeout(settings), settings.diagnostics, settings.api,
                  settings.render, settings.redis} : z <= LongestPhase
  <2>1. 4 * ObjectTimeout(settings) \in Nat
    BY <1>2
  <2> QED
    BY <1>1, <2>1, LargestOfFive, Zenon DEF LongestPhase
<1>5. QED
  BY <1>1, <1>2, <1>3, <1>4

\* The bound on the work of one entry.
LEMMA LongestWorkIs ==
  ASSUME TypeOK
  PROVE  /\ LongestWork(settings) \in Nat
         /\ LongestWork(settings) =
              MaxWork(settings) + ObjectTimeout(settings) + 2 * settings.redis
  BY SettingsFacts DEF LongestWork

\* What a stretch bounded by one of the timeouts may take.
LEMMA StretchTakes ==
  ASSUME TypeOK, NEW t \in Nat,
         t \in {settings.api, settings.diagnostics, settings.render,
                ObjectTimeout(settings), settings.redis}
  PROVE  /\ \A d \in Durations(t) : d \in Nat /\ d <= t
         /\ \A d \in Time(t) : d \in Nat
<1>1. settings \in Settings
  BY DEF TypeOK
<1>2. /\ Durations(t) \subseteq 0..t
      /\ \A d \in Overruns(t) : d \in Nat
  BY <1>1, WindowAssumption DEF WindowAssumption
<1>3. QED
  BY <1>2 DEF Time

-----------------------------------------------------------------------------
(* What the steps have in common. *)

\* The time a call may take, by its kind.
LEMMA TimeoutValues ==
  ASSUME TypeOK
  PROVE  /\ at \in ApiCall => Timeout(at) = settings.api
         /\ at \in ObjectCall => Timeout(at) = ObjectTimeout(settings)
         /\ at \in RedisCall => Timeout(at) = settings.redis
         /\ at = "diagnostics" => Timeout(at) = settings.diagnostics
         /\ at = "render" => Timeout(at) = settings.render
  BY DEF TypeOK, Timeout, Call, ApiCall, ObjectCall, RedisCall

LEMMA BudgetValues ==
  ASSUME TypeOK
  PROVE  /\ at = "render" => Budget(at) = settings.render
         /\ at \in ObjectCall => Budget(at) = ObjectTimeout(settings)
         /\ at \notin ObjectCall \cup {"render"} => Budget(at) = 0
  BY DEF TypeOK, Budget, Call, ApiCall, ObjectCall, RedisCall, ObjectTimeout

\* A call takes a number of units of time, and one of the control API at most its
\* timeout.
LEMMA CallTakes ==
  ASSUME TypeOK, at # "done"
  PROVE  /\ Timeout(at) \in Nat
         /\ \A d \in CallTime(at) : d \in Nat
         /\ at \in Bounded => \A d \in Durations(Timeout(at)) : d \in Nat /\ d <= Timeout(at)
<1>1. Timeout(at) \in {settings.api, settings.diagnostics, settings.render,
                       ObjectTimeout(settings), settings.redis}
  BY TimeoutValues DEF TypeOK, Call
<1>2. Timeout(at) \in Nat
  BY <1>1, SettingsFacts
<1>3. QED
  BY <1>1, <1>2, StretchTakes DEF CallTime

LEMMA RenewalTakes ==
  ASSUME TypeOK, NEW d \in Time(settings.redis)
  PROVE  d \in Nat
  BY SettingsFacts, StretchTakes

\* Every time and duration is a number.
LEMMA Numbers ==
  ASSUME TypeOK
  PROVE  /\ now \in Nat /\ idle \in Nat
         /\ Budget(at) \in Nat
         /\ Remaining \in Int
         /\ Prepare \in Nat /\ Probe \in Nat /\ Reached \in Int
  BY SettingsFacts, BudgetValues DEF TypeOK, Remaining, Prepare, Probe, Reached

\* The calls that may come before a call.
LEMMA Predecessors ==
  ASSUME TypeOK, at # "done", NEW next \in After[at] \cup Failed
  PROVE  /\ next \in Call \cup {"done"} /\ next # "count"
         /\ next = "settle" => at # "settle"
         /\ at = "settle" => next = "done"
         /\ next = "claim" => at = "count"
         /\ next = "fetch" => at = "claim"
         /\ next = "diagnostics" => at \in {"claim", "fetch"}
         /\ next = "render" => at = "diagnostics"
         /\ next = "headFinal" => at = "render"
         /\ next = "probeCanonical" => at = "headFinal"
         /\ next = "headCanonical" => at \in {"headFinal", "probeCanonical"}
         /\ next = "putCanonical" => at = "headCanonical"
         /\ next = "raceCanonical" => at = "putCanonical"
         /\ next = "getCanonical" => at \in {"headCanonical", "raceCanonical"}
         /\ next = "putFinal" =>
              /\ ~finalSeen
              /\ at \in {"headCanonical", "putCanonical", "raceCanonical", "getCanonical"}
         /\ next = "raceFinal" => at = "putFinal"
         /\ next = "complete" =>
              \/ at \in {"headFinal", "putFinal", "raceFinal"}
              \/ /\ finalSeen
                 /\ at \in {"headCanonical", "putCanonical", "raceCanonical", "getCanonical"}
         /\ next = "recoveryFetch" => at = "complete"
<1> USE DEF After, Failed, PublishFinal, Call, ApiCall, ObjectCall, RedisCall
<1>1. CASE at \in {"count", "settle"}
  BY <1>1
<1>2. CASE at \in ApiCall \cup {"diagnostics", "render"}
  BY <1>2
<1>3. CASE at \in {"headFinal", "probeCanonical", "putFinal", "raceFinal"}
  BY <1>3
<1>4. CASE at \in {"headCanonical", "putCanonical", "raceCanonical", "getCanonical"}
  BY <1>4
<1>5. QED
  BY <1>1, <1>2, <1>3, <1>4 DEF TypeOK

\* The variables keep their types, also when calls overrun.
LEMMA TypeStep ==
  ASSUME TypeOK, [Next]_vars
  PROVE  TypeOK'
<1>1. CASE GuardDenies
  BY <1>1 DEF GuardDenies, CutOff, TypeOK, Call, RedisCall
<1>2. CASE GuardRenews
  <2>1. PICK d \in Time(settings.redis), t \in Time(settings.redis) :
          /\ t <= d
          /\ now' = now + d /\ idle' = RenewedIdle(d, t)
          /\ exposed' = (exposed \/ (covered /\ idle + t >= settings.staleIdle))
          /\ overran' = (overran \/ d > settings.redis)
    BY <1>2 DEF GuardRenews
  <2>2. d \in Nat /\ t \in Nat /\ now \in Nat
    BY RenewalTakes DEF TypeOK
  <2>3. now' \in Nat /\ idle' \in Nat
    BY <2>1, <2>2 DEF RenewedIdle
  <2>4. exposed' \in BOOLEAN /\ overran' \in BOOLEAN
    BY <2>1
  <2>5. QED
    BY <1>2, <2>3, <2>4 DEF GuardRenews, TypeOK
<1>3. CASE RenewalFails
  <2>1. PICK d \in Time(settings.redis) :
          Pass(d) /\ overran' = (overran \/ d > settings.redis)
    BY <1>3 DEF RenewalFails
  <2>2. d \in Nat /\ now \in Nat /\ idle \in Nat
    BY RenewalTakes DEF TypeOK
  <2>3. now' \in Nat /\ idle' \in Nat
    BY <2>1, <2>2 DEF Pass
  <2>4. exposed' \in BOOLEAN /\ overran' \in BOOLEAN
    BY <2>1 DEF Pass
  <2>5. QED
    BY <1>3, <2>3, <2>4 DEF RenewalFails, TypeOK, Call, RedisCall
<1>4. CASE ReachesDeadline
  <2>1. Left \in Nat /\ now \in Nat /\ idle \in Nat
    BY Numbers DEF Left
  <2>2. now' \in Nat /\ idle' \in Nat
    BY <1>4, <2>1 DEF ReachesDeadline, Pass
  <2>3. exposed' \in BOOLEAN
    BY <1>4 DEF ReachesDeadline, Pass
  <2>4. QED
    BY <1>4, <2>2, <2>3 DEF ReachesDeadline, CutOff, TypeOK, Call, RedisCall
<1>5. CASE MakeCall
  <2>1. PICK d \in CallTime(at), next \in After[at] \cup Failed :
          /\ Pass(d) /\ Proceed(next, d)
          /\ finalSeen' = (finalSeen \/ next = "probeCanonical")
          /\ overran' = (overran \/ d > Timeout(at))
    BY <1>5 DEF MakeCall
  <2>2. at # "done"
    BY <1>5 DEF MakeCall
  <2>3. d \in Nat /\ now \in Nat /\ idle \in Nat
    BY <2>2, CallTakes DEF TypeOK
  <2>4. now' \in Nat /\ idle' \in Nat
    BY <2>1, <2>3 DEF Pass
  <2>5. exposed' \in BOOLEAN /\ finalSeen' \in BOOLEAN /\ overran' \in BOOLEAN
    BY <2>1 DEF Pass
  <2>6. at' \in Call \cup {"done"} /\ cleared' \in BOOLEAN /\ cut' \in BOOLEAN
    BY <2>1, <2>2, Predecessors DEF Proceed, CutOff, TypeOK, Call, RedisCall
  <2>7. QED
    BY <1>5, <2>4, <2>5, <2>6 DEF MakeCall, TypeOK
<1>6. CASE UNCHANGED vars
  BY <1>6 DEF vars, TypeOK
<1>7. QED
  BY <1>1, <1>2, <1>3, <1>4, <1>5, <1>6 DEF Next, Done

-----------------------------------------------------------------------------
(* The guards. *)

\* A guard is reached within what the lease leaves a renewal and the settlement.
LEMMA GuardFindsLease ==
  ASSUME InTime, at \in Guarded, ~cleared, covered, NEW d \in Nat, d <= settings.redis
  PROVE  /\ idle + d <= 2 * settings.redis + LongestPhase
         /\ RoomyLease(settings) => ~(idle + d >= settings.staleIdle)
<1>1. idle <= settings.redis + LongestPhase
  BY DEF InTime, IdleInv, Guarded, ApiCall
<1>2. idle + d <= 2 * settings.redis + LongestPhase
  BY <1>1, Numbers, SettingsFacts DEF InTime
<1>3. RoomyLease(settings) => settings.staleIdle > 3 * settings.redis + LongestPhase
  BY DEF RoomyLease, LongestPhase
<1>4. QED
  BY <1>2, <1>3, Numbers, SettingsFacts DEF InTime

\* The time of a call that comes up without being cut off is that of the longest path.
LEMMA GuardRenewsKeeps ==
  ASSUME InTime, GuardRenews, TypeOK', ~overran'
  PROVE  InTime'
<1>1. PICK d \in Time(settings.redis), t \in Time(settings.redis) :
        /\ t <= d
        /\ now' = now + d /\ idle' = RenewedIdle(d, t)
        /\ exposed' = (exposed \/ (covered /\ idle + t >= settings.staleIdle))
        /\ overran' = (overran \/ d > settings.redis)
  BY DEF GuardRenews
<1>2. d \in Nat /\ d <= settings.redis /\ t \in Nat /\ t <= settings.redis
  <2>1. d \in Nat /\ t \in Nat /\ settings.redis \in Nat
    BY RenewalTakes, SettingsFacts DEF InTime
  <2>2. ~(d > settings.redis) /\ t <= d
    BY <1>1
  <2>3. QED
    BY <2>1, <2>2
<1>3. /\ at \in Guarded /\ ~cleared /\ cleared' = TRUE /\ covered' = TRUE
      /\ UNCHANGED <<settings, at, finalSeen, cut>>
      /\ Remaining >= Budget(at)
  BY DEF GuardRenews
<1>4. idle' \in Nat /\ idle' <= settings.redis
  <2>1. idle' = d - t /\ t <= d
    BY <1>1 DEF RenewedIdle
  <2>2. settings.redis \in Nat
    BY SettingsFacts DEF InTime
  <2> QED
    BY <1>2, <2>1, <2>2
<1>5. Reached' <= Reached /\ Reached \in Int /\ Reached' \in Int
  BY <1>1, <1>2, <1>3, Numbers, SettingsFacts DEF Reached, InTime
<1>6. OnTime'
  <2>1. Prepare' = Prepare /\ Probe' = Probe
    BY <1>3 DEF Prepare, Probe
  <2> QED
    BY <1>3, <1>5, <2>1, Numbers, SettingsFacts DEF OnTime, InTime
<1>7. InBudget'
  <2>1. Budget(at)' = Budget(at) /\ MaxWork(settings)' = MaxWork(settings)
    BY <1>3 DEF Budget, MaxWork
  <2>2. now' <= MaxWork(settings) - Budget(at) + settings.redis
    BY <1>1, <1>2, <1>3, Numbers, SettingsFacts DEF Remaining, InTime
  <2>3. at \notin {"settle", "getCanonical"}
    BY <1>3 DEF Guarded, ApiCall
  <2>4. /\ now' <= MaxWork(settings) + ObjectTimeout(settings) + settings.redis
        /\ now' <= LongestWork(settings)
    <3>1. now' \in Nat
      BY DEF TypeOK
    <3>2. QED
      BY <2>2, <3>1, Numbers, SettingsFacts, LongestWorkIs DEF InTime
  <2> QED
    BY <1>3, <2>1, <2>2, <2>3, <2>4 DEF InBudget
<1>8. IdleInv'
  <2>1. LongestPhase' = LongestPhase
    BY <1>3 DEF LongestPhase
  <2>2. (RoomyLease(settings) => ~exposed)'
    BY <1>1, <1>2, <1>3, GuardFindsLease DEF InTime, IdleInv
  <2>3. at \notin {"count", "probeCanonical", "headCanonical", "getCanonical", "settle"}
    BY <1>3 DEF Guarded, ApiCall
  <2>4. idle' <= 2 * settings.redis /\ idle' <= settings.redis + LongestPhase
    BY <1>4, SettingsFacts DEF InTime
  <2> QED
    BY <1>3, <1>4, <2>1, <2>2, <2>3, <2>4 DEF IdleInv
<1>9. CutInv'
  BY <1>3 DEF CutInv, InTime
<1>10. QED
  BY <1>6, <1>7, <1>8, <1>9 DEF InTime

\* A renewal that fails leaves the lease to the settlement.
LEMMA RenewalFailsKeeps ==
  ASSUME InTime, RenewalFails, TypeOK', ~overran'
  PROVE  InTime'
<1>1. PICK d \in Time(settings.redis) :
        Pass(d) /\ overran' = (overran \/ d > settings.redis)
  BY DEF RenewalFails
<1>2. d \in Nat /\ d <= settings.redis
  <2>1. d \in Nat /\ settings.redis \in Nat
    BY RenewalTakes, SettingsFacts DEF InTime
  <2>2. ~(d > settings.redis)
    BY <1>1
  <2>3. QED
    BY <2>1, <2>2
<1>3. /\ at \in Guarded /\ ~cleared /\ at' = "settle"
      /\ UNCHANGED <<settings, cleared, finalSeen, covered, cut>>
      /\ Remaining >= Budget(at)
      /\ now' = now + d /\ idle' = idle + d
      /\ exposed' = (exposed \/ (covered /\ idle + d >= settings.staleIdle))
  BY <1>1 DEF RenewalFails, Pass
<1>4. InBudget'
  <2>1. MaxWork(settings)' = MaxWork(settings)
    BY <1>3 DEF MaxWork
  <2>2. now' <= MaxWork(settings) + settings.redis
    BY <1>2, <1>3, Numbers, SettingsFacts DEF Remaining, InTime
  <2>3. /\ now' <= MaxWork(settings) + ObjectTimeout(settings) + settings.redis
        /\ now' <= LongestWork(settings)
    <3>1. now' \in Nat
      BY DEF TypeOK
    <3>2. QED
      BY <2>2, <3>1, Numbers, SettingsFacts, LongestWorkIs DEF InTime
  <2> QED
    BY <1>3, <2>1, <2>3 DEF InBudget
<1>5. IdleInv'
  <2>1. LongestPhase' = LongestPhase
    BY <1>3 DEF LongestPhase
  <2>2. covered => idle' <= 2 * settings.redis + LongestPhase
    BY <1>2, <1>3, GuardFindsLease
  <2>3. (RoomyLease(settings) => ~exposed)'
    BY <1>2, <1>3, GuardFindsLease DEF InTime, IdleInv
  <2> QED
    BY <1>3, <2>1, <2>2, <2>3 DEF IdleInv
<1>6. OnTime' /\ CutInv'
  BY <1>3 DEF OnTime, CutInv, InTime
<1>7. QED
  BY <1>4, <1>5, <1>6 DEF InTime

\* A guard that finds a stage too long shows that the deadline has no room.
LEMMA GuardDeniesKeeps ==
  ASSUME InTime, GuardDenies, TypeOK'
  PROVE  InTime'
<1>1. /\ at \in Guarded /\ ~cleared /\ Remaining < Budget(at)
      /\ at' = "settle" /\ cleared' = FALSE /\ cut' = TRUE
      /\ UNCHANGED <<settings, finalSeen, now, idle, covered, exposed>>
  BY DEF GuardDenies, CutOff
<1>2. /\ settings.api \in Nat /\ settings.diagnostics \in Nat /\ settings.render \in Nat
      /\ ObjectTimeout(settings) \in Nat /\ settings.redis \in Nat
      /\ now \in Nat /\ Reached = now /\ Probe <= ObjectTimeout(settings) /\ Probe \in Nat
      /\ Prepare = 2 * settings.api + settings.diagnostics + settings.render
      /\ MaxWork(settings) = 16 * settings.api + settings.diagnostics + settings.render
                              + 3 * ObjectTimeout(settings) + 9 * settings.redis + 1
  BY <1>1, SettingsFacts, Numbers DEF InTime, Reached, Probe, Prepare
<1>3. now > MaxWork(settings) - Budget(at)
  BY <1>1, <1>2, Numbers DEF Remaining, InTime
<1>4. at \in {"putCanonical", "raceCanonical", "putFinal", "raceFinal"}
  <2>1. at \notin {"claim", "fetch", "diagnostics", "complete", "recoveryFetch"}
    <3>1. Budget(at) = 0 => now > MaxWork(settings)
      BY <1>2, <1>3
    <3> QED
      BY <1>1, <1>2, <3>1, BudgetValues DEF InTime, OnTime, InBudget, ObjectCall
  <2>2. at # "render"
    BY <1>2, <1>3, BudgetValues DEF InTime, OnTime
  <2>3. at # "headFinal"
    BY <1>2, <1>3, BudgetValues DEF InTime, OnTime, ObjectCall
  <2> QED
    BY <1>1, <2>1, <2>2, <2>3 DEF Guarded, ApiCall
<1>5. ~RoomyDeadline(settings)
  <2>1. Budget(at) = ObjectTimeout(settings)
    BY <1>4, BudgetValues DEF InTime, ObjectCall
  <2>2. CASE at \in {"putCanonical", "raceCanonical"}
    BY <1>2, <1>3, <2>1, <2>2 DEF RoomyDeadline, InTime, OnTime
  <2>3. CASE at \in {"putFinal", "raceFinal"}
    BY <1>2, <1>3, <2>1, <2>3 DEF RoomyDeadline, InTime, OnTime
  <2> QED
    BY <1>4, <2>2, <2>3
<1>6. InBudget'
  <2>1. MaxWork(settings)' = MaxWork(settings) /\ LongestWork(settings)' = LongestWork(settings)
    BY <1>1 DEF MaxWork, LongestWork
  <2>2. at \notin {"settle", "done"}
    BY <1>1 DEF Guarded, ApiCall
  <2> QED
    BY <1>1, <2>1, <2>2 DEF InBudget, InTime
<1>7. IdleInv'
  <2>1. LongestPhase' = LongestPhase
    BY <1>1 DEF LongestPhase
  <2>2. covered => idle <= 2 * settings.redis + LongestPhase
    <3>1. covered => idle + 0 <= 2 * settings.redis + LongestPhase
      BY <1>1, <1>2, GuardFindsLease
    <3> QED
      BY <3>1, Numbers DEF InTime
  <2> QED
    BY <1>1, <2>1, <2>2 DEF InTime, IdleInv
<1>8. QED
  BY <1>1, <1>5, <1>6, <1>7 DEF InTime, OnTime, CutInv

\* The entry is idle for no longer than the lease when a call ends.
LEMMA CallKeepsLease ==
  ASSUME InTime, covered, at # "done", at \in Guarded => cleared,
         NEW d \in Nat, d <= Timeout(at)
  PROVE  /\ at # "settle" => idle + d <= settings.redis + LongestPhase
         /\ RoomyLease(settings) => ~(idle + d >= settings.staleIdle)
<1>1. at # "settle" => idle + d <= settings.redis + LongestPhase
  <2>1. CASE at \in Guarded
    <3>1. idle <= settings.redis
      BY <2>1 DEF InTime, IdleInv
    <3>2. Timeout(at) \in Nat /\ Timeout(at) <= LongestPhase
      BY <2>1, TimeoutValues, SettingsFacts DEF InTime, Guarded, ApiCall, ObjectCall
    <3> QED
      BY <3>1, <3>2, Numbers, SettingsFacts DEF InTime
  <2>2. CASE at \in {"probeCanonical", "headCanonical", "getCanonical"}
    <3>1. Timeout(at) = ObjectTimeout(settings)
      BY <2>2, TimeoutValues DEF InTime, ObjectCall
    <3>2. idle <= settings.redis + 3 * ObjectTimeout(settings)
      BY <2>2, Numbers, SettingsFacts DEF InTime, IdleInv
    <3> QED
      BY <3>1, <3>2, Numbers, SettingsFacts DEF InTime
  <2>3. CASE at = "count"
    <3>1. Timeout(at) = settings.redis /\ idle <= settings.redis
      BY <2>3, TimeoutValues DEF InTime, IdleInv, RedisCall
    <3> QED
      BY <3>1, Numbers, SettingsFacts DEF InTime
  <2>4. QED
    BY <2>1, <2>2, <2>3
    DEF InTime, TypeOK, Call, Guarded, ApiCall, ObjectCall, RedisCall
<1>2. idle + d <= 3 * settings.redis + LongestPhase
  <2>1. CASE at # "settle"
    BY <1>1, <2>1, Numbers, SettingsFacts DEF InTime
  <2>2. CASE at = "settle"
    <3>1. Timeout(at) = settings.redis /\ idle <= 2 * settings.redis + LongestPhase
      BY <2>2, TimeoutValues DEF InTime, IdleInv, RedisCall
    <3> QED
      BY <3>1, Numbers, SettingsFacts DEF InTime
  <2> QED
    BY <2>1, <2>2
<1>3. RoomyLease(settings) => settings.staleIdle > 3 * settings.redis + LongestPhase
  BY DEF RoomyLease, LongestPhase
<1>4. QED
  BY <1>1, <1>2, <1>3, Numbers, SettingsFacts DEF InTime

\* The deadline ends a call of the API client or the paging loop.
LEMMA ReachesDeadlineKeeps ==
  ASSUME InTime, ReachesDeadline, TypeOK'
  PROVE  InTime'
<1>1. PICK e \in Durations(Timeout(at)) : e >= Remaining
  BY DEF ReachesDeadline
<1>2. /\ at \in Bounded /\ cleared
      /\ now' = now + Left /\ idle' = idle + Left
      /\ exposed' = (exposed \/ (covered /\ idle + Left >= settings.staleIdle))
      /\ at' = "settle" /\ cleared' = FALSE /\ cut' = TRUE
      /\ UNCHANGED <<settings, finalSeen, covered>>
  BY DEF ReachesDeadline, CutOff, Pass
<1>3. at # "done" /\ at # "settle" /\ at \notin ObjectCall \cup {"render"}
  BY <1>2 DEF Bounded, ApiCall, ObjectCall
<1>4. e \in Nat /\ e <= Timeout(at) /\ Timeout(at) \in Nat
  BY <1>1, <1>2, <1>3, CallTakes DEF InTime
<1>5. Left \in Nat /\ Left <= Timeout(at)
  BY <1>1, <1>4, Numbers DEF Left, InTime
<1>6. now' <= MaxWork(settings) + settings.redis
  <2>1. now <= MaxWork(settings) + settings.redis
    BY <1>2, <1>3, BudgetValues, Numbers, SettingsFacts DEF InTime, InBudget
  <2> QED
    BY <1>2, <2>1, Numbers, SettingsFacts DEF InTime, Left, Remaining
<1>7. ~RoomyDeadline(settings)
  <2>1. /\ settings.api \in Nat /\ settings.diagnostics \in Nat
        /\ settings.render \in Nat
        /\ ObjectTimeout(settings) \in Nat /\ settings.redis \in Nat
        /\ now \in Nat /\ Reached = now - settings.redis
        /\ Prepare = 2 * settings.api + settings.diagnostics + settings.render
        /\ MaxWork(settings) = 16 * settings.api + settings.diagnostics + settings.render
                                + 3 * ObjectTimeout(settings) + 9 * settings.redis + 1
    BY <1>2, SettingsFacts, Numbers DEF InTime, Reached, Prepare, MaxWork
  <2>2. now + Timeout(at) >= MaxWork(settings)
    BY <1>1, <1>4, Numbers, SettingsFacts DEF Remaining, InTime
  <2>3. CASE at = "diagnostics"
    BY <2>1, <2>2, <2>3, TimeoutValues DEF InTime, OnTime
  <2>4. CASE at \in {"claim", "fetch"}
    BY <2>1, <2>2, <2>4, TimeoutValues DEF InTime, OnTime, ApiCall
  <2>5. CASE at \in {"complete", "recoveryFetch"}
    BY <2>1, <2>2, <2>5, TimeoutValues DEF InTime, OnTime, ApiCall, RoomyDeadline
  <2> QED
    BY <1>2, <2>3, <2>4, <2>5 DEF Bounded, ApiCall
<1>8. InBudget'
  <2>1. MaxWork(settings)' = MaxWork(settings) /\ LongestWork(settings)' = LongestWork(settings)
    BY <1>2 DEF MaxWork, LongestWork
  <2>2. /\ now' <= MaxWork(settings) + ObjectTimeout(settings) + settings.redis
        /\ now' <= LongestWork(settings)
    <3>1. now' \in Nat
      BY DEF TypeOK
    <3>2. QED
      BY <1>6, <3>1, SettingsFacts, LongestWorkIs DEF InTime
  <2> QED
    BY <1>2, <2>1, <2>2 DEF InBudget
<1>9. IdleInv'
  <2>1. LongestPhase' = LongestPhase
    BY <1>2 DEF LongestPhase
  <2>2. covered =>
          /\ idle + Left <= settings.redis + LongestPhase
          /\ RoomyLease(settings) => ~(idle + Left >= settings.staleIdle)
    BY <1>2, <1>3, <1>5, CallKeepsLease
  <2>3. covered => idle' <= 2 * settings.redis + LongestPhase
    BY <1>2, <1>5, <2>2, Numbers, SettingsFacts DEF InTime
  <2>4. (RoomyLease(settings) => ~exposed)'
    BY <1>2, <2>2 DEF InTime, IdleInv
  <2> QED
    BY <1>2, <2>1, <2>3, <2>4 DEF IdleInv
<1>10. QED
  BY <1>2, <1>7, <1>8, <1>9 DEF InTime, OnTime, CutInv

-----------------------------------------------------------------------------
(* A call is made. *)

\* A call that takes time d and is followed by another.
Makes(next, d) ==
  /\ at \in Bounded => d < Remaining
  /\ Pass(d)
  /\ Proceed(next, d)
  /\ finalSeen' = (finalSeen \/ next = "probeCanonical")
  /\ UNCHANGED <<settings, covered>>

\* The bounds are sums of the timeouts.
LEMMA Sums ==
  ASSUME InTime, at \in Guarded => cleared
  PROVE  /\ settings.api \in Nat /\ settings.diagnostics \in Nat
         /\ settings.render \in Nat /\ ObjectTimeout(settings) \in Nat /\ settings.redis \in Nat
         /\ now \in Nat /\ Probe \in Nat /\ Probe <= ObjectTimeout(settings)
         /\ at \in Guarded => Reached = now - settings.redis
         /\ at \notin Guarded => Reached = now
         /\ Prepare = 2 * settings.api + settings.diagnostics + settings.render
         /\ MaxWork(settings) = 16 * settings.api + settings.diagnostics + settings.render
                                 + 3 * ObjectTimeout(settings) + 9 * settings.redis + 1
  BY SettingsFacts, Numbers DEF InTime, InBudget, Reached, Probe, Prepare, MaxWork

\* A call ends soon after the deadline: one request to the store and a call of
\* Redis after it, the settlement another call later.
LEMMA CallEndsInBudget ==
  ASSUME InTime, at # "done", at \in Guarded => cleared,
         NEW d \in Nat, d <= Timeout(at), at \in Bounded => d < Remaining
  PROVE  /\ now + d <= LongestWork(settings)
         /\ at # "settle" =>
              now + d <= MaxWork(settings) + ObjectTimeout(settings) + settings.redis
         /\ at \in Bounded => now + d <= MaxWork(settings)
         /\ at \in {"headCanonical", "raceCanonical"} =>
              now + d <= MaxWork(settings) + settings.redis
<1>1. CASE at \in Bounded
  <2>1. at # "settle" /\ at \notin {"headCanonical", "raceCanonical"}
    BY <1>1 DEF Bounded, ApiCall
  <2> QED
    BY <1>1, <2>1, Sums, LongestWorkIs DEF Remaining, InTime
<1>2. CASE at \in {"render", "headFinal", "putCanonical", "raceCanonical", "putFinal", "raceFinal"}
  <2>1. /\ Timeout(at) = Budget(at) /\ Timeout(at) \in Nat
        /\ at \in Guarded /\ at # "settle" /\ at \notin Bounded
    BY <1>2, TimeoutValues, BudgetValues, SettingsFacts
    DEF InTime, ObjectCall, Guarded, Bounded, ApiCall
  <2>2. now <= MaxWork(settings) - Timeout(at) + settings.redis
    BY <2>1 DEF InTime, InBudget
  <2>3. now + d <= MaxWork(settings) + settings.redis
    BY <2>1, <2>2, Sums
  <2> QED
    BY <1>2, <2>1, <2>3, Sums, LongestWorkIs DEF InTime
<1>3. CASE at \in {"probeCanonical", "headCanonical", "getCanonical"}
  <2>1. Timeout(at) = ObjectTimeout(settings) /\ at \notin Guarded /\ at \notin Bounded
    BY <1>3, TimeoutValues DEF InTime, ObjectCall, Guarded, Bounded, ApiCall
  <2>2. CASE at \in {"probeCanonical", "headCanonical"}
    <3>1. now + d <= MaxWork(settings)
      BY <2>1, <2>2, Sums DEF InTime, OnTime
    <3> QED
      BY <2>1, <2>2, <3>1, Sums, LongestWorkIs DEF InTime
  <2>3. CASE at = "getCanonical"
    <3>1. now <= MaxWork(settings) + settings.redis
      BY <2>3 DEF InTime, InBudget
    <3> QED
      BY <2>1, <2>3, <3>1, Sums, LongestWorkIs DEF InTime
  <2> QED
    BY <1>3, <2>2, <2>3
<1>4. CASE at \in RedisCall
  <2>1. Timeout(at) = settings.redis /\ at \notin Guarded /\ at \notin Bounded
    BY <1>4, TimeoutValues DEF InTime, RedisCall, Guarded, Bounded, ApiCall
  <2>2. CASE at = "count"
    <3>1. now + d <= MaxWork(settings)
      BY <2>1, <2>2, Sums DEF InTime, OnTime
    <3> QED
      BY <2>1, <2>2, <3>1, Sums, LongestWorkIs DEF InTime
  <2>3. CASE at = "settle"
    <3>1. now <= MaxWork(settings) + ObjectTimeout(settings) + settings.redis
      BY <2>3 DEF InTime, InBudget
    <3> QED
      BY <2>1, <2>3, <3>1, Sums, LongestWorkIs DEF InTime
  <2> QED
    BY <1>4, <2>2, <2>3 DEF RedisCall
<1>5. QED
  BY <1>1, <1>2, <1>3, <1>4
  DEF InTime, TypeOK, Call, Bounded, ObjectCall, RedisCall

\* With room for the deadline, process() never finds it passed.
LEMMA ClockIsFine ==
  ASSUME InTime, at # "done", at \in Guarded => cleared,
         NEW d \in Nat, d <= Timeout(at), NEW next \in After[at] \cup Failed,
         LooksAtClock(next), RoomyDeadline(settings)
  PROVE  now + d < MaxWork(settings)
<1>1. CASE at = "render"
  BY <1>1, Sums, TimeoutValues DEF InTime, OnTime, Guarded
<1>2. CASE at \in ObjectCall /\ next = "complete"
  <2>1. Timeout(at) = ObjectTimeout(settings)
    BY <1>2, TimeoutValues DEF InTime
  <2>2. CASE at \in {"headFinal", "putFinal", "raceFinal"}
    BY <2>1, <2>2, Sums DEF InTime, OnTime, Guarded, RoomyDeadline
  <2>3. CASE at \in {"headCanonical", "getCanonical"}
    BY <2>1, <2>3, Sums DEF InTime, OnTime, Guarded, ApiCall, RoomyDeadline
  <2>4. CASE at \in {"putCanonical", "raceCanonical"}
    BY <2>1, <2>4, Sums DEF InTime, OnTime, Guarded, RoomyDeadline
  <2> QED
    BY <1>2, <2>2, <2>3, <2>4, Predecessors DEF InTime
<1>3. QED
  BY <1>1, <1>2 DEF LooksAtClock

\* The next call comes up in time: one step further on the longest path.
LEMMA CallKeepsOnTime ==
  ASSUME InTime, at # "done", at \in Guarded => cleared,
         NEW d \in Nat, d <= Timeout(at), NEW next \in After[at] \cup Failed,
         Makes(next, d), at' = next, cleared' = FALSE
  PROVE  OnTime'
<1> DEFINE q == settings.redis
           a == settings.api
           o == ObjectTimeout(settings)
<1>1. /\ settings' = settings /\ now' = now + d /\ Reached' = now + d
      /\ finalSeen' = (finalSeen \/ next = "probeCanonical")
      /\ Prepare' = Prepare
  BY DEF Makes, Pass, Reached, Prepare
<1>2. /\ Probe' \in Nat
      /\ next # "probeCanonical" => Probe' = Probe
      /\ finalSeen => Probe = ObjectTimeout(settings)
      /\ ~finalSeen => Probe = 0
  BY <1>1, Sums DEF Probe
<1>3. /\ at \in Guarded => now <= Reached + q
      /\ at \notin Guarded => now = Reached
  BY Sums
<1>4. /\ next = "claim" => now + d <= q
      /\ next = "fetch" => now + d <= 2 * q + a
      /\ next = "diagnostics" => now + d <= 3 * q + 2 * a
      /\ next = "render" => now + d <= 4 * q + 2 * a + settings.diagnostics
      /\ next = "headFinal" => now + d <= 5 * q + Prepare
  BY <1>3, Sums, Predecessors, TimeoutValues
  DEF InTime, OnTime, Guarded, ApiCall, RedisCall
<1>5. /\ next = "probeCanonical" => now + d <= 6 * q + Prepare + o
      /\ next = "headCanonical" => now + d <= 6 * q + Prepare + o + Probe
  <2>1. at = "probeCanonical" => Probe = o
    BY <1>2 DEF InTime, OnTime
  <2>2. next \in {"probeCanonical", "headCanonical"} => Timeout(at) = o
    BY Predecessors, TimeoutValues DEF InTime, ObjectCall
  <2> QED
    BY <1>3, <2>1, <2>2, Sums, Predecessors DEF InTime, OnTime, Guarded, ApiCall
<1>6. /\ next = "putCanonical" => now + d <= 6 * q + Prepare + 2 * o + Probe
      /\ next = "raceCanonical" => now + d <= 7 * q + Prepare + 3 * o + Probe
      /\ next = "getCanonical" => now + d <= 8 * q + Prepare + 4 * o + Probe
  <2>1. next \in {"putCanonical", "raceCanonical", "getCanonical"} => Timeout(at) = o
    BY Predecessors, TimeoutValues DEF InTime, ObjectCall
  <2>2. CASE next = "putCanonical"
    BY <1>3, <2>1, <2>2, Sums, Predecessors DEF InTime, OnTime, Guarded, ApiCall
  <2>3. CASE next = "raceCanonical"
    BY <1>3, <2>1, <2>3, Sums, Predecessors DEF InTime, OnTime, Guarded, ApiCall
  <2>4. CASE next = "getCanonical"
    BY <1>3, <2>1, <2>4, Sums, Predecessors DEF InTime, OnTime, Guarded, ApiCall
  <2> QED
    BY <2>2, <2>3, <2>4
<1>7. /\ next = "putFinal" => now + d <= 8 * q + Prepare + 5 * o
      /\ next = "raceFinal" => now + d <= 9 * q + Prepare + 6 * o
      /\ next = "complete" => now + d <= 10 * q + Prepare + 7 * o
  <2>1. next \in {"putFinal", "raceFinal", "complete"} => Timeout(at) = o
    BY Predecessors, TimeoutValues DEF InTime, ObjectCall
  <2>2. next = "putFinal" => Probe = 0
    BY <1>2, Predecessors DEF InTime
  <2>3. CASE next = "putFinal"
    <3>1. at \in {"headCanonical", "putCanonical", "raceCanonical", "getCanonical"}
      BY <2>3, Predecessors DEF InTime
    <3>2. now <= 8 * q + Prepare + 4 * o
      BY <1>3, <2>2, <2>3, <3>1, Sums DEF InTime, OnTime, Guarded, ApiCall
    <3> QED
      BY <2>1, <2>3, <3>2, Sums
  <2>4. CASE next = "raceFinal"
    BY <1>3, <2>1, <2>4, Sums, Predecessors DEF InTime, OnTime, Guarded, ApiCall
  <2>5. CASE next = "complete"
    <3>1. at \in {"headFinal", "putFinal", "raceFinal", "headCanonical", "putCanonical",
                  "raceCanonical", "getCanonical"}
      BY <2>5, Predecessors DEF InTime
    <3>2. now <= 10 * q + Prepare + 6 * o
      BY <1>3, <3>1, Sums DEF InTime, OnTime, Guarded, ApiCall
    <3> QED
      BY <2>1, <2>5, <3>2, Sums
  <2> QED
    BY <2>3, <2>4, <2>5
<1>8. next = "recoveryFetch" => now + d <= 11 * q + Prepare + 7 * o + a
  BY <1>3, Sums, Predecessors, TimeoutValues DEF InTime, OnTime, Guarded, ApiCall
<1>9. next # "count" /\ (next = "probeCanonical" => finalSeen')
  BY <1>1, Predecessors DEF InTime
<1>10. QED
  BY <1>1, <1>2, <1>4, <1>5, <1>6, <1>7, <1>8, <1>9 DEF OnTime

\* The bounds on the entry's idle time.
LEMMA CallKeepsIdle ==
  ASSUME InTime, at # "done", at \in Guarded => cleared,
         NEW d \in Nat, d <= Timeout(at), NEW next \in After[at] \cup Failed,
         Makes(next, d), cleared' = FALSE, at' \in {next, "settle"},
         at' = "settle" => at # "settle"
  PROVE  IdleInv'
<1>1. /\ settings' = settings /\ idle' = idle + d /\ LongestPhase' = LongestPhase
      /\ covered' = covered
      /\ exposed' = (exposed \/ (covered /\ idle + d >= settings.staleIdle))
  BY DEF Makes, Pass, LongestPhase
<1>2. at = "settle" => at' = "done"
  BY Predecessors DEF InTime
<1>3. covered /\ at' # "done" => idle' <= settings.redis + LongestPhase
  BY <1>1, <1>2, CallKeepsLease
<1>4. covered /\ at' = "settle" => idle' <= 2 * settings.redis + LongestPhase
  <2>1. covered /\ at' = "settle" => idle + d <= settings.redis + LongestPhase
    BY <1>1, <1>3
  <2> QED
    BY <1>1, <2>1, Numbers, SettingsFacts DEF InTime
<1>5. (RoomyLease(settings) => ~exposed)'
  BY <1>1, CallKeepsLease DEF InTime, IdleInv
<1>6. covered =>
        /\ next = "claim" => idle + d <= 2 * settings.redis
        /\ next = "probeCanonical" => idle + d <= settings.redis + ObjectTimeout(settings)
        /\ next = "headCanonical" => idle + d <= settings.redis + 2 * ObjectTimeout(settings)
        /\ next = "getCanonical" => idle + d <= settings.redis + 3 * ObjectTimeout(settings)
  <2>1. next = "claim" => Timeout(at) = settings.redis
    BY Predecessors, TimeoutValues DEF InTime, RedisCall
  <2>2. next \in {"probeCanonical", "headCanonical", "getCanonical"} =>
          Timeout(at) = ObjectTimeout(settings)
    BY Predecessors, TimeoutValues DEF InTime, ObjectCall
  <2> QED
    BY <2>1, <2>2, Predecessors, Numbers, Sums DEF InTime, IdleInv, Guarded, ApiCall
<1>7. next # "count"
  BY Predecessors DEF InTime
<1>8. QED
  BY <1>1, <1>3, <1>4, <1>5, <1>6, <1>7 DEF IdleInv

LEMMA MakeCallKeeps ==
  ASSUME InTime, MakeCall, TypeOK', ~overran'
  PROVE  InTime'
<1>1. PICK d \in CallTime(at), next \in After[at] \cup Failed :
        Makes(next, d) /\ overran' = (overran \/ d > Timeout(at))
  BY DEF MakeCall, Makes
<1>2. /\ at # "done" /\ (at \in Guarded => cleared)
      /\ d \in Nat /\ d <= Timeout(at)
  <2>1. at # "done" /\ (at \in Guarded => cleared)
    BY DEF MakeCall
  <2>2. d \in Nat /\ Timeout(at) \in Nat
    BY <2>1, CallTakes DEF InTime
  <2>3. ~(d > Timeout(at))
    BY <1>1
  <2> QED
    BY <2>1, <2>2, <2>3
<1>3. /\ settings' = settings /\ now' = now + d /\ now' \in Nat
      /\ MaxWork(settings)' = MaxWork(settings)
      /\ LongestWork(settings)' = LongestWork(settings)
      /\ at \in Bounded => d < Remaining
  BY <1>1 DEF Makes, Pass, MaxWork, LongestWork, TypeOK
<1>4. /\ at' \in {next, "settle"} /\ cleared' = FALSE
      /\ \/ at' = next /\ cut' = cut /\ ~(LooksAtClock(next) /\ now + d >= MaxWork(settings))
         \/ /\ at' = "settle" /\ cut' = TRUE
            /\ LooksAtClock(next) /\ now + d >= MaxWork(settings)
  BY <1>1 DEF Makes, Proceed, CutOff
<1>5. at' = "settle" => at # "settle"
  BY <1>2, <1>4, Predecessors DEF InTime, LooksAtClock, ObjectCall
<1>6. OnTime'
  <2>1. CASE at' = next
    BY <1>1, <1>2, <1>4, <2>1, CallKeepsOnTime
  <2>2. CASE at' = "settle"
    BY <2>2 DEF OnTime
  <2> QED
    BY <1>4, <2>1, <2>2
<1>7. InBudget'
  <2>1. /\ now' <= LongestWork(settings)
        /\ at # "settle" =>
             now' <= MaxWork(settings) + ObjectTimeout(settings) + settings.redis
        /\ at \in Bounded => now' <= MaxWork(settings)
        /\ at \in {"headCanonical", "raceCanonical"} =>
             now' <= MaxWork(settings) + settings.redis
    BY <1>2, <1>3, CallEndsInBudget
  <2>2. at' # "done" => at # "settle"
    BY <1>2, <1>4, <1>5, Predecessors DEF InTime
  <2>3. at' = "getCanonical" => at \in {"headCanonical", "raceCanonical"}
    BY <1>2, <1>4, Predecessors DEF InTime
  <2>4. at' = "recoveryFetch" => now' <= MaxWork(settings)
    BY <1>2, <1>4, <2>1, Predecessors DEF InTime, Bounded, ApiCall
  <2>5. at' = "complete" => now' <= MaxWork(settings)
    <3>1. at' = "complete" => LooksAtClock(next)
      BY <1>2, <1>4, Predecessors DEF InTime, LooksAtClock, ObjectCall
    <3> QED
      BY <1>2, <1>3, <1>4, <3>1, Numbers, SettingsFacts DEF InTime
  <2> QED
    BY <1>3, <1>4, <2>1, <2>2, <2>3, <2>4, <2>5 DEF InBudget
<1>8. IdleInv'
  BY <1>1, <1>2, <1>4, <1>5, CallKeepsIdle
<1>9. CutInv'
  <2>1. CASE cut' = cut /\ at' = next
    <3>1. cut => at \in {"settle", "done"}
      BY DEF InTime, CutInv
    <3>2. cut => next = "done"
      BY <1>2, <3>1, Predecessors DEF InTime
    <3> QED
      BY <1>3, <2>1, <3>2 DEF InTime, CutInv
  <2>2. CASE at' = "settle" /\ LooksAtClock(next) /\ now + d >= MaxWork(settings)
    <3>1. ~RoomyDeadline(settings)
      BY <1>2, <2>2, ClockIsFine, Numbers, SettingsFacts DEF InTime
    <3> QED
      BY <1>3, <2>2, <3>1 DEF CutInv
  <2> QED
    BY <1>4, <2>1, <2>2
<1>10. QED
  BY <1>6, <1>7, <1>8, <1>9 DEF InTime

-----------------------------------------------------------------------------
(* The theorems. *)

\* How long the entry may have waited for its turn is a number.
LEMMA WaitingIsNat ==
  ASSUME NEW s \in Settings, NEW n \in 0..(BatchSize - 1)
  PROVE  /\ Waiting(s, n) \in Nat
         /\ Waiting(s, 0) = s.redis /\ s.redis \in Nat
         /\ Durations(Waiting(s, n)) \subseteq 0..Waiting(s, n)
<1>1. /\ s.api \in Nat /\ s.diagnostics \in Nat /\ s.render \in Nat
      /\ s.object \in Nat /\ s.redis \in Nat
  BY WindowAssumption DEF WindowAssumption, Timeouts
<1>2. LongestWork(s) \in Nat
  <2>1. MaxWork(s) \in Nat /\ ObjectTimeout(s) \in Nat
    BY <1>1 DEF MaxWork, ObjectTimeout
  <2> QED
    BY <1>1, <2>1 DEF LongestWork
<1>3. n \in Nat
  BY WindowAssumption DEF WindowAssumption
<1>4. n * LongestWork(s) \in Nat /\ 0 * LongestWork(s) = 0
  BY <1>2, <1>3
<1>5. Waiting(s, n) \in Nat /\ Waiting(s, 0) = s.redis
  BY <1>1, <1>4 DEF Waiting
<1>6. Durations(Waiting(s, n)) \subseteq 0..Waiting(s, n)
  BY WindowAssumption DEF WindowAssumption
<1>7. QED
  BY <1>1, <1>5, <1>6

LEMMA InitIInv == Init => IInv
<1> SUFFICES ASSUME Init PROVE IInv
  OBVIOUS
<1>1. PICK n \in 0..(BatchSize - 1) :
        /\ idle \in Durations(Waiting(settings, n))
        /\ covered = (n = 0)
  BY DEF Init
<1>2. settings \in Settings
  BY DEF Init
<1>3. idle \in Nat /\ idle <= Waiting(settings, n)
  BY <1>1, <1>2, WaitingIsNat
<1>4. covered => idle <= settings.redis
  BY <1>1, <1>2, <1>3, WaitingIsNat
<1>5. TypeOK
  BY <1>1, <1>2, <1>3 DEF Init, TypeOK, Call, RedisCall
<1>6. OnTime
  BY DEF Init, OnTime, Reached
<1>7. InBudget
  <2>1. /\ 0 <= LongestWork(settings)
        /\ 0 <= MaxWork(settings) + ObjectTimeout(settings) + settings.redis
    BY <1>5, SettingsFacts, LongestWorkIs
  <2> QED
    BY <2>1 DEF Init, InBudget
<1>8. IdleInv
  <2>1. covered => idle <= settings.redis + LongestPhase
    BY <1>3, <1>4, <1>5, SettingsFacts
  <2> QED
    BY <1>4, <2>1 DEF Init, IdleInv
<1>9. CutInv
  BY DEF Init, CutInv
<1>10. QED
  BY <1>5, <1>6, <1>7, <1>8, <1>9 DEF IInv, InTime

LEMMA NextIInv == IInv /\ [Next]_vars => IInv'
<1> SUFFICES ASSUME IInv, [Next]_vars PROVE IInv'
  OBVIOUS
<1>1. TypeOK'
  BY TypeStep DEF IInv
<1>2. ASSUME ~overran' PROVE InTime'
  <2>1. ~overran
    BY <1>2 DEF Next, GuardDenies, GuardRenews, RenewalFails, ReachesDeadline, MakeCall,
                Done, vars
  <2>2. InTime
    BY <2>1 DEF IInv
  <2>3. CASE UNCHANGED vars
    <3>1. UNCHANGED <<Reached, Prepare, Probe, LongestPhase, Budget(at)>>
      BY <2>3 DEF vars, Reached, Prepare, Probe, LongestPhase, Budget
    <3>2. UNCHANGED <<MaxWork(settings), LongestWork(settings), ObjectTimeout(settings),
                      RoomyLease(settings), RoomyDeadline(settings)>>
      BY <2>3 DEF vars
    <3>3. OnTime' /\ InBudget'
      BY <2>2, <2>3, <3>1, <3>2 DEF vars, InTime, OnTime, InBudget
    <3>4. IdleInv' /\ CutInv'
      BY <2>2, <2>3, <3>1, <3>2 DEF vars, InTime, IdleInv, CutInv
    <3> QED
      BY <1>1, <3>3, <3>4 DEF InTime
  <2> QED
    BY <1>1, <1>2, <2>2, <2>3, GuardDeniesKeeps, GuardRenewsKeeps, RenewalFailsKeeps,
       ReachesDeadlineKeeps, MakeCallKeeps
    DEF Next, Done
<1>3. QED
  BY <1>1, <1>2 DEF IInv

\* The bounds hold in every state of every setting until a call overruns.
THEOREM Invariance == Spec => []IInv
  BY InitIInv, NextIInv, PTL DEF Spec

\* The variables keep their types.
THEOREM TypeCorrect == Spec => []TypeOK
<1>1. IInv => TypeOK
  BY DEF IInv
<1>2. QED
  BY <1>1, Invariance, PTL

\* With a lease as long as RoomyLease asks for, and while every call keeps its
\* timeout, the first entry of a batch is not idle for the lease while it is in
\* hand, and any other entry is not from its first renewal on, whatever the
\* settings and the durations.
THEOREM LeaseTheorem == Spec => []LeaseOutlivesPhases
<1>1. IInv => LeaseOutlivesPhases
  BY DEF IInv, InTime, IdleInv, LeaseOutlivesPhases
<1>2. QED
  BY <1>1, Invariance, PTL

\* With timeouts in the proportion RoomyDeadline asks for, and while every call
\* keeps its own, max_work_seconds is enough for the longest path.
THEOREM DeadlineTheorem == Spec => []DeadlineCoversWork
<1>1. IInv => DeadlineCoversWork
  BY DEF IInv, InTime, CutInv, DeadlineCoversWork
<1>2. QED
  BY <1>1, Invariance, PTL

\* Whatever the settings, and while every call keeps its timeout, work ends at
\* most one request to the store and two calls of Redis after its deadline.
THEOREM OverrunTheorem == Spec => []EndsSoonAfterDeadline
<1>1. IInv => EndsSoonAfterDeadline
  BY DEF IInv, InTime, InBudget, EndsSoonAfterDeadline
<1>2. QED
  BY <1>1, Invariance, PTL

=============================================================================
