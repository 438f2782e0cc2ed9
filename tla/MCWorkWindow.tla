----------------------------- MODULE MCWorkWindow -----------------------------
(* Instances of WorkWindow for TLC. *)
EXTENDS WorkWindow

\* Short stretches are taken in full detail, long ones at their extremes, and a
\* call that should have ended at once may overrun.
Sampled(t) == IF t <= 2 THEN 0..t ELSE {0, t}
Extremes(t) == {0, t}
Slow(t) == IF t = 1 THEN {2} ELSE {}

Config(a, d, r, o, q, s) ==
  [api |-> a, diagnostics |-> d, render |-> r, object |-> o, redis |-> q,
   staleIdle |-> s]

\* The defaults of Settings.
Default == Config(50, 100, 20, 50, 100, 600)
\* The same with just enough room for the lease and for the deadline.
Roomy == Config(59, 100, 20, 50, 100, 701)

Small == {Config(a, d, 1, o, q, s) :
            a \in 1..2, d \in {1, 9}, o \in 1..2, q \in 1..2, s \in {13, 20, 23}}

\* A slow store behind a fast Redis, within every validated bound: only all four
\* requests of the longest phase together outlast the lease.
SlowStore == {Config(10, 100, 20, 30, 1, 200)}
\* A slow Redis: the phase before the first renewal is the longest.
SlowRedis == {Config(1, 1, 1, 1, 9, s) : s \in 35..37}
\* Fast APIs, so that the deadline comes before the work is done.
Tight == {Config(1, 1, 1, o, q, 400) : o \in {1, 3, 20, 40}, q \in {1, 3, 10}}
Considered == Small \cup SlowRedis \cup Tight \cup {Default, Roomy}
=============================================================================
