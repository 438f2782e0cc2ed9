--------------------------- MODULE ArtifactStoreProofs ---------------------------
(*****************************************************************************)
(* Proofs about ArtifactStore for any attempts, snapshots, bytes and initial *)
(* bucket.                                                                   *)
(*                                                                           *)
(* The bucket only grows, by objects that are proper for their key.  What an *)
(* attempt has learnt about existing objects therefore stays true, and the   *)
(* invariant of an attempt is preserved by the steps of all the others.      *)
(*****************************************************************************)
EXTENDS ArtifactStore, TLAPS

\* Bytes b are, by what a HEAD shows, the canonical ones of snapshot s.
Promised(s, b) ==
  /\ bucket[s] # NoObject
  /\ bucket[s].sha256 = b
  /\ SizeOf[bucket[s].body] = SizeOf[b]

\* o is a copy of the canonical object of its snapshot, by its metadata.
Copy(o) == o.snapshot \in Snapshot /\ Promised(o.snapshot, o.sha256)

\* What these attempts may put under key k.
Proper(k, o) ==
  /\ o.body = o.sha256
  /\ k \in Snapshot => o.snapshot = k
  /\ k = FinalKey => Copy(o)

BucketInv ==
  /\ \A k \in Key : bucket[k] # initial[k] =>
       initial[k] = NoObject /\ bucket[k] # NoObject /\ Proper(k, bucket[k])
  /\ \A r \in delayed : Proper(r.key, r.object)

\* _canonicalize() is under way.
Canonicalizing == {"headCanonical", "guardCanonical", "putCanonical",
                   "guardCanonicalRace", "reheadCanonical", "getCanonical"}

\* What attempt a knows: the final object it saw is still there, and so are the
\* canonical bytes its artifact is made of, or that it looks for on account of a
\* final object it saw.
Knows(a) ==
  /\ seen[a] # NoObject => Final = seen[a]
  /\ step[a] = "headFinal" => seen[a] = NoObject
  /\ step[a] = "probeCanonical" => seen[a] # NoObject
  /\ step[a] \in HasArtifact \ {"stored"} =>
       /\ seen[a] = NoObject
       /\ Promised(snapshot[a], artifact[a])
  /\ seen[a] # NoObject /\ step[a] \in Canonicalizing => bucket[snapshot[a]] # NoObject
  /\ step[a] = "getCanonical" =>
       /\ canon[a] = bucket[snapshot[a]]
       /\ canon[a].snapshot = snapshot[a]

StoredOK(a) ==
  step[a] = "stored" =>
    /\ Final # NoObject
    /\ Final.snapshot = snapshot[a]
    /\ Final.sha256 = artifact[a]
    /\ SizeOf[Final.body] = SizeOf[artifact[a]]

MismatchOK(a) ==
  initial = EmptyBucket /\ step[a] = "mismatch" =>
    Final # NoObject /\ Final.snapshot # snapshot[a]

AttemptInv == \A a \in Attempt : Knows(a) /\ StoredOK(a) /\ MismatchOK(a)

IInv == TypeOK /\ BucketInv /\ AttemptInv

-----------------------------------------------------------------------------
(* The bucket. *)

Extended == \A k \in Key : bucket[k] # NoObject => bucket'[k] = bucket[k]

\* A conditional PUT of a proper object.
BucketStep ==
  \/ UNCHANGED bucket
  \/ \E k \in Key, o \in Object : Proper(k, o) /\ PutIfNoneMatch(k, o)

LEMMA KeyFacts == FinalKey \in Key /\ Snapshot \subseteq Key /\ NoObject \notin Object
  BY StoreAssumption DEF StoreAssumption, Key

LEMMA BucketGrows ==
  ASSUME TypeOK, BucketStep
  PROVE  Extended /\ bucket' \in Bucket
<1>1. CASE UNCHANGED bucket
  BY <1>1 DEF Extended, TypeOK
<1>2. ASSUME NEW k \in Key, NEW o \in Object, PutIfNoneMatch(k, o)
      PROVE  Extended /\ bucket' \in Bucket
  BY <1>2 DEF Extended, TypeOK, Bucket, PutIfNoneMatch
<1>3. QED
  BY <1>1, <1>2 DEF BucketStep

LEMMA ProperStays ==
  ASSUME TypeOK, Extended, NEW k, NEW o, Proper(k, o)
  PROVE  Proper(k, o)'
  BY KeyFacts DEF Proper, Copy, Promised, Extended

LEMMA BucketInvStep ==
  ASSUME TypeOK, BucketInv, BucketStep, UNCHANGED initial,
         \A r \in delayed' : r \in delayed \/ Proper(r.key, r.object)
  PROVE  BucketInv'
<1>1. Extended
  BY BucketGrows
<1>2. \A r \in delayed' : Proper(r.key, r.object)'
  BY <1>1, ProperStays DEF BucketInv
<1>3. ASSUME NEW k \in Key, bucket'[k] # initial[k]
      PROVE  initial[k] = NoObject /\ bucket'[k] # NoObject /\ Proper(k, bucket[k])'
  <2>1. CASE bucket'[k] = bucket[k]
    BY <1>1, <1>3, <2>1, ProperStays DEF BucketInv, Proper, Copy, Promised
  <2>2. CASE bucket'[k] # bucket[k]
    <3>1. PICK o \in Object : Proper(k, o) /\ bucket'[k] = o /\ bucket[k] = NoObject
      BY <2>2 DEF BucketStep, PutIfNoneMatch, TypeOK, Bucket
    <3>2. initial[k] = NoObject
      BY <3>1 DEF BucketInv
    <3>3. Proper(k, o)'
      BY <1>1, <3>1, ProperStays
    <3>4. QED
      BY <3>1, <3>2, <3>3, KeyFacts DEF Proper, Copy, Promised
  <2>3. QED
    BY <2>1, <2>2
<1>4. QED
  BY <1>2, <1>3 DEF BucketInv

-----------------------------------------------------------------------------
(* One attempt. *)

\* The steps of the other attempts, and late requests, only add objects.
LEMMA AttemptStays ==
  ASSUME TypeOK, Extended, UNCHANGED initial, NEW a \in Attempt,
         UNCHANGED <<snapshot[a], step[a], seen[a], canon[a], artifact[a]>>,
         Knows(a), StoredOK(a), MismatchOK(a)
  PROVE  (Knows(a) /\ StoredOK(a) /\ MismatchOK(a))'
<1>1. Final # NoObject => Final' = Final
  BY KeyFacts DEF Final, Extended
<1>2. bucket[snapshot[a]] # NoObject => bucket'[snapshot[a]] = bucket[snapshot[a]]
  BY KeyFacts DEF TypeOK, Extended
<1>3. Knows(a)'
  BY <1>1, <1>2, KeyFacts DEF Knows, Promised, TypeOK
<1>4. StoredOK(a)'
  BY <1>1 DEF StoredOK
<1>5. MismatchOK(a)'
  BY <1>1 DEF MismatchOK
<1>6. QED
  BY <1>3, <1>4, <1>5

\* In a bucket that began empty, what is under a key is proper.
LEMMA FromEmpty ==
  ASSUME BucketInv, initial = EmptyBucket, NEW k \in Key, bucket[k] # NoObject
  PROVE  Proper(k, bucket[k])
  BY DEF BucketInv, EmptyBucket

LEMMA FromEmptyPrimed ==
  ASSUME BucketInv', initial' = EmptyBucket, NEW k \in Key, bucket'[k] # NoObject
  PROVE  Proper(k, bucket[k])'
  BY DEF BucketInv, EmptyBucket, Proper, Copy, Promised

\* The attempt learns its artifact: bytes b that are canonical by now.
LEMMA WithArtifactInv ==
  ASSUME TypeOK, BucketInv', Extended, UNCHANGED <<initial, snapshot, seen>>,
         NEW a \in Attempt, NEW b \in Body, WithArtifact(a, b),
         seen[a] # NoObject => Final = seen[a],
         bucket'[snapshot[a]] # NoObject, bucket'[snapshot[a]].sha256 = b,
         SizeOf[bucket'[snapshot[a]].body] = SizeOf[b]
  PROVE  (Knows(a) /\ StoredOK(a) /\ MismatchOK(a))'
<1>1. artifact'[a] = b
  BY DEF WithArtifact, TypeOK
<1>2. CASE seen[a] = NoObject
  <2>1. step'[a] = "guardFinal"
    BY <1>2 DEF WithArtifact, Goto, TypeOK
  <2>2. QED
    BY <1>1, <1>2, <2>1 DEF Knows, Promised, StoredOK, MismatchOK, HasArtifact, Canonicalizing
<1>3. CASE seen[a] # NoObject
  <2>1. Final = seen[a] /\ Final' = seen[a] /\ Final' = bucket'[FinalKey]
    BY <1>3, KeyFacts DEF Final, Extended
  <2>2. Knows(a)'
    <3>1. step'[a] \in {"stored", "mismatch"}
      BY <1>3 DEF WithArtifact, Goto, TypeOK
    <3>2. QED
      BY <2>1, <3>1 DEF Knows, Promised, HasArtifact, Canonicalizing
  <2>3. CASE Exact(seen[a], snapshot[a], b)
    <3>1. step'[a] = "stored"
      BY <1>3, <2>3 DEF WithArtifact, Goto, TypeOK
    <3>2. StoredOK(a)'
      BY <1>1, <1>3, <2>1, <2>3 DEF StoredOK, Exact
    <3>3. QED
      BY <2>2, <3>1, <3>2 DEF MismatchOK
  <2>4. CASE ~Exact(seen[a], snapshot[a], b)
    <3>1. step'[a] = "mismatch"
      BY <1>3, <2>4 DEF WithArtifact, Goto, TypeOK
    <3>2. ASSUME initial' = EmptyBucket PROVE Final'.snapshot # snapshot[a]
      <4>1. Proper(FinalKey, bucket[FinalKey])'
        BY <1>3, <2>1, <3>2, KeyFacts, FromEmptyPrimed
      <4>2. /\ Final'.body = Final'.sha256
            /\ bucket'[Final'.snapshot].sha256 = Final'.sha256
        BY <2>1, <4>1 DEF Proper, Copy, Promised
      <4>3. QED
        BY <2>1, <2>4, <4>2 DEF Exact, Promised
    <3>3. QED
      BY <1>3, <2>1, <2>2, <3>1, <3>2 DEF StoredOK, MismatchOK
  <2>5. QED
    BY <2>3, <2>4
<1>4. QED
  BY <1>2, <1>3

\* The attempt compares its candidate with the canonical object it found.
LEMMA VerifyCanonicalInv ==
  ASSUME TypeOK, BucketInv, BucketInv', UNCHANGED <<bucket, initial, snapshot, seen>>,
         NEW a \in Attempt, Knows(a), bucket[snapshot[a]] # NoObject,
         VerifyCanonical(a, bucket[snapshot[a]])
  PROVE  (Knows(a) /\ StoredOK(a) /\ MismatchOK(a))'
<1> DEFINE o == bucket[snapshot[a]]
<1>1. snapshot[a] \in Key /\ o \in Object /\ snapshot[a] \in Snapshot
  BY KeyFacts DEF TypeOK, Bucket
<1>2. Extended /\ Final' = Final /\ (seen[a] # NoObject => Final = seen[a])
  BY DEF Extended, Final, Knows, Promised
<1>3. CASE o.snapshot # snapshot[a] /\ Goto(a, "mismatch")
  <2>1. step'[a] = "mismatch"
    BY <1>3 DEF Goto, TypeOK
  <2>2. initial # EmptyBucket
    BY <1>1, <1>3, FromEmpty DEF Proper
  <2>3. QED
    BY <1>2, <2>1, <2>2 DEF Knows, Promised, StoredOK, MismatchOK, HasArtifact, Canonicalizing
<1>4. CASE Exact(o, snapshot[a], candidate[a]) /\ WithArtifact(a, candidate[a])
  <2>1. candidate[a] \in Body
    BY DEF TypeOK
  <2>2. o.sha256 = candidate[a] /\ SizeOf[o.body] = SizeOf[candidate[a]]
    BY <1>4 DEF Exact
  <2>3. QED
    BY <1>2, <1>4, <2>1, <2>2, WithArtifactInv
<1>5. CASE o.snapshot = snapshot[a] /\ Goto(a, "getCanonical") /\ canon'[a] = o
  <2>1. step'[a] = "getCanonical"
    BY <1>5 DEF Goto, TypeOK
  <2>2. QED
    BY <1>2, <1>5, <2>1 DEF Knows, Promised, StoredOK, MismatchOK, HasArtifact, Canonicalizing
<1>6. canon'[a] = o
  BY DEF VerifyCanonical, TypeOK
<1>7. QED
  BY <1>3, <1>4, <1>5, <1>6 DEF VerifyCanonical

-----------------------------------------------------------------------------
(* Every step creates proper objects only, and keeps the types. *)

\* What an attempt asks the bucket to create is proper for its key.
LEMMA CreationsAreProper ==
  ASSUME TypeOK, NEW a \in Attempt, Knows(a)
  PROVE  /\ ObjectOf(a, candidate[a]) \in Object
         /\ Proper(snapshot[a], ObjectOf(a, candidate[a]))
         /\ step[a] = "putFinal" => /\ ObjectOf(a, artifact[a]) \in Object
                                    /\ Proper(FinalKey, ObjectOf(a, artifact[a]))
<1>1. snapshot[a] \in Snapshot /\ candidate[a] \in Body /\ snapshot[a] # FinalKey
  BY StoreAssumption DEF StoreAssumption, TypeOK
<1>2. ObjectOf(a, candidate[a]) \in Object /\ Proper(snapshot[a], ObjectOf(a, candidate[a]))
  BY <1>1 DEF ObjectOf, Object, Proper
<1>3. ASSUME step[a] = "putFinal"
      PROVE  /\ ObjectOf(a, artifact[a]) \in Object
             /\ Proper(FinalKey, ObjectOf(a, artifact[a]))
  <2>1. /\ artifact[a] \in Body
        /\ Promised(snapshot[a], artifact[a])
    BY <1>3 DEF TypeOK, Knows, Promised, HasArtifact
  <2>2. QED
    BY <1>1, <2>1, StoreAssumption DEF StoreAssumption, ObjectOf, Object, Proper, Copy, Promised
<1>4. QED
  BY <1>2, <1>3

LEMMA NextIsBucketStep ==
  ASSUME IInv, [Next]_vars
  PROVE  /\ BucketStep /\ UNCHANGED initial
         /\ \A r \in delayed' : r \in delayed \/ Proper(r.key, r.object)
         /\ delayed' \subseteq Request
<1> USE DEF IInv, TypeOK
<1>1. ASSUME NEW a \in Attempt,
             \/ HeadFinal(a) \/ ProbeCanonical(a) \/ HeadCanonical(a)
             \/ ReheadCanonical(a) \/ GetCanonical(a) \/ ReheadFinal(a)
             \/ RequireOwnership(a)
      PROVE  UNCHANGED <<bucket, initial, delayed>>
  BY <1>1 DEF HeadFinal, ProbeCanonical, HeadCanonical, ReheadCanonical,
     GetCanonical, ReheadFinal, RequireOwnership
<1>2. ASSUME NEW a \in Attempt, PutCanonical(a)
      PROVE  BucketStep /\ UNCHANGED <<initial, delayed>>
  <2>1. snapshot[a] \in Key
    BY KeyFacts
  <2>2. QED
    BY <1>2, <2>1, CreationsAreProper DEF AttemptInv, PutCanonical, BucketStep
<1>3. ASSUME NEW a \in Attempt, PutFinal(a)
      PROVE  BucketStep /\ UNCHANGED <<initial, delayed>>
  BY <1>3, CreationsAreProper, KeyFacts DEF AttemptInv, PutFinal, BucketStep
<1>4. ASSUME NEW a \in Attempt, Unavailable(a)
      PROVE  /\ BucketStep /\ UNCHANGED initial
             /\ \A r \in delayed' : r \in delayed \/ Proper(r.key, r.object)
             /\ delayed' \subseteq Request
  <2>1. \A r \in Unanswered(a) : r \in Request /\ Proper(r.key, r.object)
    BY CreationsAreProper, KeyFacts DEF AttemptInv, Unanswered, Request
  <2>2. UNCHANGED <<bucket, initial>> /\ delayed' = delayed \cup Unanswered(a)
    BY <1>4 DEF Unavailable
  <2>3. QED
    BY <2>1, <2>2 DEF BucketStep
<1>5. ASSUME NEW r \in delayed, ApplyLate(r)
      PROVE  BucketStep /\ UNCHANGED initial /\ delayed' \subseteq delayed
  <2>1. r.key \in Key /\ r.object \in Object /\ Proper(r.key, r.object)
    BY DEF Request, BucketInv
  <2>2. QED
    BY <1>5, <2>1 DEF ApplyLate, BucketStep
<1>6. CASE UNCHANGED vars
  BY <1>6 DEF vars, BucketStep
<1>7. QED
  BY <1>1, <1>2, <1>3, <1>4, <1>5, <1>6 DEF Next, Step, BucketStep

LEMMA TypeStep ==
  ASSUME IInv, [Next]_vars
  PROVE  TypeOK'
<1>1. bucket' \in Bucket /\ initial' \in Bucket /\ delayed' \subseteq Request
  BY NextIsBucketStep, BucketGrows DEF IInv, TypeOK
<1> USE <1>1 DEF IInv, TypeOK, Goto, Guard, Look, Create, Outcome, HasArtifact
<1>2. ASSUME NEW a \in Attempt, HeadFinal(a) PROVE TypeOK'
  <2>1. bucket[FinalKey] \in Object \cup {NoObject}
    BY KeyFacts DEF Bucket
  <2>2. QED
    BY <1>2, <2>1 DEF HeadFinal, WhenMissing
<1>3. ASSUME NEW a \in Attempt, ProbeCanonical(a) PROVE TypeOK'
  BY <1>3 DEF ProbeCanonical, CloserLook
<1>4. ASSUME NEW a \in Attempt, HeadCanonical(a) \/ ReheadCanonical(a) PROVE TypeOK'
  <2>1. bucket[snapshot[a]] \in Object \cup {NoObject}
    BY KeyFacts DEF Bucket
  <2>2. QED
    BY <1>4, <2>1 DEF HeadCanonical, ReheadCanonical, VerifyCanonical, WithArtifact
<1>5. ASSUME NEW a \in Attempt, PutCanonical(a) PROVE TypeOK'
  BY <1>5 DEF PutCanonical, WithArtifact
<1>6. ASSUME NEW a \in Attempt, GetCanonical(a) PROVE TypeOK'
  <2>1. bucket[snapshot[a]] # NoObject => bucket[snapshot[a]].body \in Body
    BY KeyFacts DEF Bucket, Object
  <2>2. QED
    BY <1>6, <2>1 DEF GetCanonical, WithArtifact
<1>7. ASSUME NEW a \in Attempt, PutFinal(a) PROVE TypeOK'
  BY <1>7 DEF PutFinal
<1>8. ASSUME NEW a \in Attempt, ReheadFinal(a) PROVE TypeOK'
  <2>1. JudgeWinner(a) \in {"stored", "mismatch", "transient"}
    BY DEF JudgeWinner
  <2>2. QED
    BY <1>8, <2>1 DEF ReheadFinal
<1>9. ASSUME NEW a \in Attempt, RequireOwnership(a) PROVE TypeOK'
  BY <1>9 DEF RequireOwnership, AfterGuard
<1>10. ASSUME NEW a \in Attempt, Unavailable(a) PROVE TypeOK'
  BY <1>10 DEF Unavailable
<1>11. ASSUME NEW r \in delayed, ApplyLate(r) PROVE TypeOK'
  BY <1>11 DEF ApplyLate, attemptVars
<1>12. CASE UNCHANGED vars
  BY <1>12 DEF vars, attemptVars
<1>13. QED
  BY <1>2, <1>3, <1>4, <1>5, <1>6, <1>7, <1>8, <1>9, <1>10, <1>11, <1>12
  DEF Next, Step

-----------------------------------------------------------------------------
(* Every step keeps what is known of every attempt. *)

\* The acting attempt.
LEMMA ActorStep ==
  ASSUME IInv, BucketInv', Extended, UNCHANGED initial,
         NEW a \in Attempt, Step(a)
  PROVE  (Knows(a) /\ StoredOK(a) /\ MismatchOK(a))'
<1> USE DEF IInv, TypeOK, Canonicalizing
<1>1. Knows(a) /\ StoredOK(a) /\ MismatchOK(a)
  BY DEF AttemptInv
<1>2. snapshot[a] \in Key /\ snapshot[a] \in Snapshot
  BY KeyFacts
<1>3. Final # NoObject => Final' = Final
  BY KeyFacts DEF Final, Extended
<1>4. CASE HeadFinal(a)
  <2>1. seen'[a] = Final /\ Final' = Final /\ snapshot' = snapshot
    BY <1>4 DEF HeadFinal, Final
  <2>2. CASE step'[a] = "headCanonical" /\ Final = NoObject
    BY <2>1, <2>2 DEF Knows, Promised, StoredOK, MismatchOK, HasArtifact
  <2>3. CASE step'[a] = "mismatch" /\ Final # NoObject /\ Final.snapshot = Garbled
    BY <2>1, <2>3, <1>2, StoreAssumption
    DEF Knows, Promised, StoredOK, MismatchOK, HasArtifact, StoreAssumption
  <2>4. CASE /\ step'[a] = "stored" /\ artifact'[a] = candidate[a]
             /\ Final # NoObject /\ Exact(Final, snapshot[a], candidate[a])
    BY <2>1, <2>4 DEF Knows, Promised, StoredOK, MismatchOK, HasArtifact, Exact
  <2>5. CASE step'[a] = "probeCanonical" /\ Final # NoObject
    BY <2>1, <2>5 DEF Knows, Promised, StoredOK, MismatchOK, HasArtifact
  <2>6. QED
    BY <1>4, <2>2, <2>3, <2>4, <2>5 DEF HeadFinal, Goto, WhenMissing, Final
<1>5. CASE ProbeCanonical(a)
  <2>1. /\ seen[a] # NoObject /\ Final = seen[a]
        /\ Final' = Final /\ Final = bucket[FinalKey]
        /\ UNCHANGED <<seen, snapshot, bucket>>
    BY <1>1, <1>5 DEF ProbeCanonical, Knows, Promised, Final
  <2>2. CASE step'[a] = "headCanonical" /\ bucket[snapshot[a]] # NoObject
    BY <2>1, <2>2 DEF Knows, Promised, StoredOK, MismatchOK, HasArtifact
  <2>3. CASE /\ step'[a] = "mismatch"
             /\ \/ bucket[snapshot[a]] = NoObject
                \/ bucket[snapshot[a]].snapshot = Garbled
    <3>1. ASSUME initial = EmptyBucket PROVE Final.snapshot # snapshot[a]
      <4>1. Proper(FinalKey, Final)
        BY <2>1, <3>1, KeyFacts, FromEmpty
      <4>2. bucket[Final.snapshot] # NoObject
        BY <4>1 DEF Proper, Copy, Promised
      <4>3. bucket[snapshot[a]] # NoObject => bucket[snapshot[a]].snapshot = snapshot[a]
        BY <1>2, <3>1, FromEmpty DEF Proper
      <4>4. QED
        BY <1>2, <2>3, <4>2, <4>3, StoreAssumption DEF StoreAssumption
    <3>2. QED
      BY <2>1, <2>3, <3>1 DEF Knows, Promised, StoredOK, MismatchOK, HasArtifact
  <2>4. QED
    BY <1>5, <2>2, <2>3 DEF ProbeCanonical, CloserLook, Goto
<1>6. CASE HeadCanonical(a) \/ ReheadCanonical(a)
  <2>1. UNCHANGED <<bucket, snapshot, seen>> /\ Final' = Final
    BY <1>6 DEF HeadCanonical, ReheadCanonical, Final
  <2>2. CASE bucket[snapshot[a]] = NoObject
    <3>1. step'[a] \in {"guardCanonical", "transient"}
      BY <1>6, <2>2 DEF HeadCanonical, ReheadCanonical, Goto
    <3>2. seen[a] = NoObject
      BY <1>1, <1>6, <2>2 DEF HeadCanonical, ReheadCanonical, Knows, Promised
    <3>3. QED
      BY <2>1, <3>1, <3>2 DEF Knows, Promised, StoredOK, MismatchOK, HasArtifact
  <2>3. CASE bucket[snapshot[a]] # NoObject
    BY <1>1, <1>6, <2>1, <2>3, VerifyCanonicalInv
    DEF HeadCanonical, ReheadCanonical
  <2>4. QED
    BY <2>2, <2>3
<1>7. CASE PutCanonical(a)
  <2>1. UNCHANGED <<snapshot, seen>> /\ (seen[a] # NoObject => Final = seen[a])
    BY <1>1, <1>7 DEF PutCanonical, Knows, Promised
  <2>2. CASE bucket[snapshot[a]] = NoObject
    <3>1. WithArtifact(a, candidate[a])
      BY <1>7, <2>2 DEF PutCanonical
    <3>2. bucket'[snapshot[a]] = ObjectOf(a, candidate[a])
      BY <1>2, <1>7, <2>2 DEF PutCanonical, PutIfNoneMatch, Bucket
    <3>3. /\ bucket'[snapshot[a]] # NoObject
          /\ bucket'[snapshot[a]].sha256 = candidate[a]
          /\ bucket'[snapshot[a]].body = candidate[a]
          /\ candidate[a] \in Body
      <4>1. ObjectOf(a, candidate[a]) \in Object
        BY <1>1, CreationsAreProper
      <4>2. /\ ObjectOf(a, candidate[a]).sha256 = candidate[a]
            /\ ObjectOf(a, candidate[a]).body = candidate[a]
        BY DEF ObjectOf
      <4>3. QED
        BY <1>1, <3>2, <4>1, <4>2, KeyFacts DEF TypeOK
    <3>4. QED
      BY <2>1, <3>1, <3>3, WithArtifactInv
  <2>3. CASE bucket[snapshot[a]] # NoObject
    <3>1. step'[a] = "guardCanonicalRace"
      BY <1>7, <2>3 DEF PutCanonical, Goto
    <3>2. bucket'[snapshot[a]] # NoObject
      BY <1>2, <2>3 DEF Extended
    <3>3. QED
      BY <1>1, <1>3, <2>1, <3>1, <3>2, KeyFacts
      DEF Knows, Promised, StoredOK, MismatchOK, HasArtifact
  <2>4. QED
    BY <2>2, <2>3
<1>8. CASE GetCanonical(a)
  <2> DEFINE o == bucket[snapshot[a]]
  <2>1. /\ UNCHANGED <<bucket, snapshot, seen>> /\ Final' = Final
        /\ (seen[a] # NoObject => Final = seen[a])
        /\ canon[a] = o /\ o # NoObject /\ o \in Object
    BY <1>1, <1>2, <1>8 DEF GetCanonical, Knows, Promised, Final, Bucket
  <2>2. CASE o.body = canon[a].sha256 /\ WithArtifact(a, o.body)
    <3>1. o.body \in Body
      BY <2>1 DEF Object
    <3>2. QED
      BY <2>1, <2>2, <3>1, WithArtifactInv
  <2>3. CASE o.body # canon[a].sha256 /\ Goto(a, "mismatch")
    <3>1. step'[a] = "mismatch"
      BY <2>3 DEF Goto
    <3>2. initial # EmptyBucket
      BY <1>2, <2>1, <2>3, FromEmpty DEF Proper
    <3>3. QED
      BY <2>1, <3>1, <3>2 DEF Knows, Promised, StoredOK, MismatchOK, HasArtifact
  <2>4. QED
    BY <1>8, <2>1, <2>2, <2>3 DEF GetCanonical
<1>9. CASE PutFinal(a)
  <2>1. /\ UNCHANGED <<snapshot, seen, artifact>>
        /\ seen[a] = NoObject /\ artifact[a] \in Body
        /\ Promised(snapshot[a], artifact[a])
    BY <1>1, <1>9 DEF PutFinal, Knows, Promised, HasArtifact
  <2>2. CASE bucket[FinalKey] = NoObject
    <3>1. step'[a] = "stored"
      BY <1>9, <2>2 DEF PutFinal, Goto
    <3>2. Final' = ObjectOf(a, artifact[a])
      BY <1>9, <2>2, KeyFacts DEF PutFinal, PutIfNoneMatch, Bucket, Final
    <3>3. Final' # NoObject
      BY <1>1, <1>9, <3>2, KeyFacts, CreationsAreProper DEF PutFinal
    <3>4. QED
      BY <2>1, <3>1, <3>2, <3>3 DEF Knows, Promised, StoredOK, MismatchOK, HasArtifact, ObjectOf
  <2>3. CASE bucket[FinalKey] # NoObject
    <3>1. step'[a] = "guardFinalRace"
      BY <1>9, <2>3 DEF PutFinal, Goto
    <3>2. bucket'[snapshot[a]] = bucket[snapshot[a]]
      BY <1>2, <2>1 DEF Extended, Promised
    <3>3. QED
      BY <2>1, <3>1, <3>2 DEF Knows, Promised, StoredOK, MismatchOK, HasArtifact
  <2>4. QED
    BY <2>2, <2>3
<1>10. CASE ReheadFinal(a)
  <2>1. /\ UNCHANGED <<bucket, snapshot, seen, artifact>> /\ Final' = Final
        /\ seen[a] = NoObject /\ artifact[a] \in Body
        /\ Promised(snapshot[a], artifact[a])
        /\ step'[a] = JudgeWinner(a) /\ Final = bucket[FinalKey]
    BY <1>1, <1>10 DEF ReheadFinal, Knows, Promised, HasArtifact, Goto, Final
  <2>2. CASE Final = NoObject
    BY <2>1, <2>2 DEF JudgeWinner, Knows, Promised, StoredOK, MismatchOK, HasArtifact
  <2>3. CASE Final # NoObject /\ Exact(Final, snapshot[a], artifact[a])
    BY <2>1, <2>3 DEF JudgeWinner, Knows, Promised, StoredOK, MismatchOK, HasArtifact, Exact
  <2>4. CASE Final # NoObject /\ ~Exact(Final, snapshot[a], artifact[a])
    <3>1. step'[a] = "mismatch"
      BY <2>1, <2>4 DEF JudgeWinner
    <3>2. ASSUME initial = EmptyBucket PROVE Final.snapshot # snapshot[a]
      <4>1. Proper(FinalKey, Final)
        BY <2>1, <2>4, <3>2, KeyFacts, FromEmpty
      <4>2. Final.body = Final.sha256 /\ bucket[Final.snapshot].sha256 = Final.sha256
        BY <4>1 DEF Proper, Copy, Promised
      <4>3. QED
        BY <2>1, <2>4, <4>2 DEF Exact, Promised
    <3>3. QED
      BY <2>1, <2>4, <3>1, <3>2 DEF Knows, Promised, StoredOK, MismatchOK, HasArtifact
  <2>5. QED
    BY <2>2, <2>3, <2>4
<1>11. CASE RequireOwnership(a)
  <2>1. UNCHANGED <<bucket, snapshot, seen, canon, artifact>> /\ Final' = Final
    BY <1>11 DEF RequireOwnership, Final
  <2>2. step'[a] \in HasArtifact => step[a] \in {"guardFinal", "guardFinalRace"}
                                    /\ step'[a] # "stored"
    BY <1>11 DEF RequireOwnership, AfterGuard, Guard, Goto, HasArtifact
  <2>3. step'[a] \in {"putCanonical", "reheadCanonical", "putFinal", "reheadFinal", "lost"}
    BY <1>11 DEF RequireOwnership, AfterGuard, Guard, Goto
  <2>4. step'[a] \in Canonicalizing => step[a] \in Canonicalizing
    BY <1>11 DEF RequireOwnership, AfterGuard, Guard, Goto
  <2>5. QED
    BY <1>1, <2>1, <2>2, <2>3, <2>4 DEF Knows, Promised, StoredOK, MismatchOK, HasArtifact
<1>12. CASE Unavailable(a)
  <2>1. UNCHANGED <<bucket, snapshot, seen>> /\ step'[a] = "transient" /\ Final' = Final
    BY <1>12 DEF Unavailable, Goto, Final
  <2>2. QED
    BY <1>1, <2>1 DEF Knows, Promised, StoredOK, MismatchOK, HasArtifact
<1>13. QED
  BY <1>4, <1>5, <1>6, <1>7, <1>8, <1>9, <1>10, <1>11, <1>12 DEF Step

\* A step of one attempt leaves the variables of the others alone.
LEMMA OthersUnchanged ==
  ASSUME TypeOK, NEW a \in Attempt, Step(a), NEW b \in Attempt, a # b
  PROVE  UNCHANGED <<snapshot[b], step[b], seen[b], canon[b], artifact[b]>>
<1> USE DEF TypeOK, Goto
<1>1. CASE HeadFinal(a)
  BY <1>1 DEF HeadFinal
<1>2. CASE ProbeCanonical(a) \/ ReheadFinal(a) \/ RequireOwnership(a) \/ Unavailable(a)
           \/ PutFinal(a)
  BY <1>2 DEF ProbeCanonical, ReheadFinal, RequireOwnership, Unavailable, PutFinal
<1>3. CASE HeadCanonical(a) \/ ReheadCanonical(a)
  BY <1>3 DEF HeadCanonical, ReheadCanonical, VerifyCanonical, WithArtifact
<1>4. CASE PutCanonical(a) \/ GetCanonical(a)
  BY <1>4 DEF PutCanonical, GetCanonical, WithArtifact
<1>5. QED
  BY <1>1, <1>2, <1>3, <1>4 DEF Step

-----------------------------------------------------------------------------
(* The inductive invariant and the theorems. *)

LEMMA InitIInv == Init => IInv
<1> SUFFICES ASSUME Init PROVE IInv
  OBVIOUS
<1> USE DEF Init
<1>1. TypeOK
  BY StoreAssumption DEF StoreAssumption, TypeOK, Look, HasArtifact
<1>2. BucketInv
  BY DEF BucketInv
<1>3. AttemptInv
  BY DEF AttemptInv, Knows, Promised, StoredOK, MismatchOK, HasArtifact, Canonicalizing
<1>4. QED
  BY <1>1, <1>2, <1>3 DEF IInv

LEMMA NextIInv == IInv /\ [Next]_vars => IInv'
<1> SUFFICES ASSUME IInv, [Next]_vars PROVE IInv'
  OBVIOUS
<1>1. TypeOK /\ BucketStep /\ UNCHANGED initial
  BY NextIsBucketStep DEF IInv
<1>2. Extended /\ BucketInv'
  BY <1>1, BucketGrows, BucketInvStep, NextIsBucketStep DEF IInv
<1>3. \A b \in Attempt : Knows(b) /\ StoredOK(b) /\ MismatchOK(b)
  BY DEF IInv, AttemptInv
<1>4. ASSUME NEW a \in Attempt, Step(a) PROVE AttemptInv'
  <2>1. (Knows(a) /\ StoredOK(a) /\ MismatchOK(a))'
    BY <1>1, <1>2, <1>4, ActorStep
  <2>2. ASSUME NEW b \in Attempt, b # a
        PROVE  (Knows(b) /\ StoredOK(b) /\ MismatchOK(b))'
    BY <1>1, <1>2, <1>3, <1>4, <2>2, AttemptStays, OthersUnchanged
  <2>3. QED
    BY <2>1, <2>2 DEF AttemptInv
<1>5. ASSUME UNCHANGED attemptVars PROVE AttemptInv'
  <2>1. ASSUME NEW b \in Attempt
        PROVE  (Knows(b) /\ StoredOK(b) /\ MismatchOK(b))'
    BY <1>1, <1>2, <1>3, <1>5, AttemptStays DEF attemptVars
  <2>2. QED
    BY <2>1 DEF AttemptInv
<1>6. AttemptInv'
  BY <1>4, <1>5 DEF Next, ApplyLate, vars
<1>7. QED
  BY <1>2, <1>6, TypeStep DEF IInv

\* The inductive invariant holds in every reachable state.
THEOREM Invariance == Spec => []IInv
  BY InitIInv, NextIInv, PTL DEF Spec

\* The variables keep their types; an attempt that goes on to create or judge
\* the final object has determined its artifact.
THEOREM TypeCorrect == Spec => []TypeOK
<1>1. IInv => TypeOK
  BY DEF IInv
<1>2. QED
  BY <1>1, Invariance, PTL

\* A final object created here is a true copy of its snapshot's canonical bytes,
\* but for canonical objects that were there before and contradict their digest.
THEOREM CanonicalTheorem == Spec => []FinalIsCanonical
<1>1. IInv => FinalIsCanonical
  BY KeyFacts DEF IInv, BucketInv, FinalIsCanonical, Final, Proper, Copy, Promised
<1>2. QED
  BY <1>1, Invariance, PTL

\* What put_or_verify() returns is what the final key holds.
THEOREM StoredTheorem == Spec => []StoredIsFinal
<1>1. IInv => StoredIsFinal
  BY DEF IInv, AttemptInv, StoredOK, StoredIsFinal
<1>2. QED
  BY <1>1, Invariance, PTL

\* Racing attempts of one snapshot never end each other in a mismatch.
THEOREM MismatchTheorem == Spec => []MismatchIsAnotherSnapshot
<1>1. IInv => MismatchIsAnotherSnapshot
  BY DEF IInv, AttemptInv, MismatchOK, MismatchIsAnotherSnapshot
<1>2. QED
  BY <1>1, Invariance, PTL

\* Objects are never changed or removed.
THEOREM WrittenOnceTheorem == Spec => WrittenOnce
<1>1. IInv /\ [Next]_vars =>
        [\A k \in Key : bucket[k] # NoObject => bucket'[k] = bucket[k]]_vars
  BY NextIsBucketStep, BucketGrows DEF Extended, IInv
<1>2. QED
  BY <1>1, Invariance, PTL DEF Spec, WrittenOnce

-----------------------------------------------------------------------------
(* ArtifactStore implements ArtifactContract. *)

\* The variables of the contract, as Contract has them.
canonicals == [s \in Snapshot |-> IF bucket[s] = NoObject THEN NoObject ELSE bucket[s].sha256]
finals == IF Final = NoObject THEN NoObject
          ELSE [snapshot |-> Final.snapshot, sha256 |-> Final.sha256]
outcomes == [a \in Attempt |->
               CASE step[a] \in {"stored", "mismatch"} -> step[a]
                 [] step[a] \in {"transient", "lost"} -> "failed"
                 [] OTHER -> "open"]
returns == [a \in Attempt |->
              IF step[a] = "stored"
              THEN [snapshot |-> snapshot[a], sha256 |-> artifact[a]] ELSE NoObject]

contractState == <<canonicals, finals, outcomes, returns>>

Ends(a, o, r) ==
  /\ outcomes[a] = "open"
  /\ outcomes' = [outcomes EXCEPT ![a] = o]
  /\ returns' = [returns EXCEPT ![a] = r]

\* What the contract's actions say of them.
LEMMA ContractFixes ==
  ASSUME NEW s \in Snapshot, NEW b \in Body,
         canonicals[s] = NoObject,
         canonicals' = [canonicals EXCEPT ![s] = b],
         UNCHANGED <<finals, outcomes, returns>>
  PROVE  Contract!ContractNext
<1>1. Contract!FixCanonical(s, b)
  BY Zenon DEF Contract!FixCanonical, canonicals, finals, outcomes, returns
<1>2. QED
  BY <1>1, Zenon DEF Contract!ContractNext

LEMMA ContractCreates ==
  ASSUME NEW s \in Snapshot,
         canonicals[s] # NoObject, UNCHANGED canonicals,
         finals = NoObject, finals' = [snapshot |-> s, sha256 |-> canonicals[s]],
         \/ UNCHANGED <<outcomes, returns>>
         \/ \E a \in Attempt :
              Ends(a, "stored", [snapshot |-> s, sha256 |-> canonicals[s]])
  PROVE  Contract!ContractNext
<1>1. Contract!CreateFinal(s)
  BY Zenon DEF Contract!CreateFinal, Contract!CopyOf, canonicals, finals
<1>2. CASE UNCHANGED <<outcomes, returns>>
  <2>1. Contract!CreateUnanswered(s)
    BY <1>1, <1>2, Zenon DEF Contract!CreateUnanswered, outcomes, returns
  <2>2. QED
    BY <2>1, Zenon DEF Contract!ContractNext
<1>3. ASSUME NEW a \in Attempt,
             Ends(a, "stored", [snapshot |-> s, sha256 |-> canonicals[s]])
      PROVE  Contract!ContractNext
  <2>1. Contract!CreateAndReturn(a, s)
    BY <1>1, <1>3, Zenon
       DEF Contract!CreateAndReturn, Contract!End, Contract!CopyOf, Ends, canonicals,
           outcomes, returns
  <2>2. QED
    BY <2>1, Zenon DEF Contract!ContractNext
<1>4. QED
  BY <1>2, <1>3

LEMMA ContractReturns ==
  ASSUME NEW a \in Attempt, NEW s \in Snapshot,
         finals # NoObject, finals.snapshot = s,
         Ends(a, "stored", finals), UNCHANGED <<canonicals, finals>>
  PROVE  Contract!ContractNext
<1>1. Contract!ReturnExisting(a, s)
  BY Zenon
     DEF Contract!ReturnExisting, Contract!End, Ends, canonicals, finals, outcomes, returns
<1>2. QED
  BY <1>1, Zenon DEF Contract!ContractNext

LEMMA ContractRefuses ==
  ASSUME NEW a \in Attempt, NEW s \in Snapshot,
         finals # NoObject, finals.snapshot # s,
         Ends(a, "mismatch", NoObject), UNCHANGED <<canonicals, finals>>
  PROVE  Contract!ContractNext
<1>1. Contract!RefuseExisting(a, s)
  BY Zenon
     DEF Contract!RefuseExisting, Contract!End, Ends, canonicals, finals, outcomes, returns
<1>2. QED
  BY <1>1, Zenon DEF Contract!ContractNext

LEMMA ContractGivesUp ==
  ASSUME NEW a \in Attempt,
         Ends(a, "failed", NoObject), UNCHANGED <<canonicals, finals>>
  PROVE  Contract!ContractNext
<1>1. Contract!GiveUp(a)
  BY Zenon DEF Contract!GiveUp, Contract!End, Ends, canonicals, finals, outcomes, returns
<1>2. QED
  BY <1>1, Zenon DEF Contract!ContractNext

LEMMA ContractStutters ==
  ASSUME UNCHANGED contractState
  PROVE  UNCHANGED Contract!contractVars
BY Zenon DEF Contract!contractVars, contractState, canonicals, finals, outcomes, returns

LEMMA Starting ==
  ASSUME NEW a \in Attempt, Step(a)
  PROVE  step[a] \notin Outcome /\ UNCHANGED snapshot
BY DEF Step, Outcome, Guard, Look, Create, HeadFinal, ProbeCanonical, HeadCanonical,
   PutCanonical, ReheadCanonical, GetCanonical, PutFinal, ReheadFinal, RequireOwnership,
   Unavailable

\* A call ends once, with what it returns.
LEMMA ActorEnds ==
  ASSUME TypeOK, TypeOK', NEW a \in Attempt, Step(a)
  PROVE  /\ step'[a] \notin Outcome => UNCHANGED <<outcomes, returns>>
         /\ step'[a] = "stored" =>
              Ends(a, "stored", [snapshot |-> snapshot[a], sha256 |-> artifact'[a]])
         /\ step'[a] = "mismatch" => Ends(a, "mismatch", NoObject)
         /\ step'[a] \in {"transient", "lost"} => Ends(a, "failed", NoObject)
<1>1. step[a] \notin Outcome /\ snapshot'[a] = snapshot[a]
  BY Starting
<1>2. outcomes[a] = "open" /\ returns[a] = NoObject
  BY <1>1 DEF outcomes, returns, Outcome
<1>3. \A b \in Attempt \ {a} : outcomes'[b] = outcomes[b] /\ returns'[b] = returns[b]
  BY OthersUnchanged DEF outcomes, returns
<1>4. outcomes' = [outcomes EXCEPT ![a] = outcomes'[a]]
  BY <1>3 DEF outcomes
<1>5. returns' = [returns EXCEPT ![a] = returns'[a]]
  BY <1>3 DEF returns
<1>6. step'[a] \notin Outcome => outcomes'[a] = "open" /\ returns'[a] = NoObject
  BY DEF outcomes, returns, Outcome
<1>7. /\ step'[a] = "stored" =>
           /\ outcomes'[a] = "stored"
           /\ returns'[a] = [snapshot |-> snapshot[a], sha256 |-> artifact'[a]]
      /\ step'[a] = "mismatch" => outcomes'[a] = "mismatch" /\ returns'[a] = NoObject
      /\ step'[a] \in {"transient", "lost"} =>
           outcomes'[a] = "failed" /\ returns'[a] = NoObject
  BY <1>1 DEF outcomes, returns
<1>8. Ends(a, outcomes'[a], returns'[a])
  BY <1>2, <1>4, <1>5 DEF Ends
<1>9. step'[a] \notin Outcome => UNCHANGED <<outcomes, returns>>
  <2>1. ASSUME step'[a] \notin Outcome PROVE outcomes' = outcomes
    BY <1>2, <1>3, <1>6, <2>1 DEF outcomes
  <2>2. ASSUME step'[a] \notin Outcome PROVE returns' = returns
    BY <1>2, <1>3, <1>6, <2>2 DEF returns
  <2> QED
    BY <2>1, <2>2
<1> QED
  BY <1>7, <1>8, <1>9

\* In a bucket that began empty, the contract sees it as it is.
LEMMA BucketView ==
  ASSUME TypeOK, BucketInv, initial = EmptyBucket
  PROVE  /\ \A s \in Snapshot :
              /\ bucket[s] = NoObject => canonicals[s] = NoObject
              /\ bucket[s] # NoObject => canonicals[s] = bucket[s].sha256
              /\ bucket[s] # NoObject => canonicals[s] # NoObject
         /\ Final = NoObject => finals = NoObject
         /\ Final # NoObject =>
              /\ finals = [snapshot |-> Final.snapshot, sha256 |-> Final.sha256]
              /\ finals.snapshot = Final.snapshot
              /\ finals # NoObject
<1>1. \A s \in Snapshot : bucket[s] # NoObject => bucket[s].sha256 \in Body
  BY KeyFacts DEF TypeOK, Bucket, Object
<1>2. NoObject \notin Body /\ NoObject \notin [snapshot : Snapshot, sha256 : Body]
  BY StoreAssumption DEF StoreAssumption
<1>3. ASSUME Final # NoObject PROVE Final.snapshot \in Snapshot /\ Final.sha256 \in Body
  <2>1. Proper(FinalKey, Final)
    BY <1>3, KeyFacts, FromEmpty DEF Final
  <2>2. Final \in Object
    BY <1>3, KeyFacts DEF TypeOK, Bucket, Final
  <2>3. QED
    BY <2>1, <2>2 DEF Proper, Copy, Promised, Object
<1>4. Final # NoObject =>
        /\ finals = [snapshot |-> Final.snapshot, sha256 |-> Final.sha256]
        /\ finals.snapshot = Final.snapshot
        /\ finals \in [snapshot : Snapshot, sha256 : Body]
  BY <1>3 DEF finals
<1>5. QED
  BY <1>1, <1>2, <1>4 DEF canonicals, finals

\* A PUT of a free key, as the contract sees it.
LEMMA PutView ==
  ASSUME TypeOK, NEW k \in Key, NEW o \in Object, bucket[k] = NoObject,
         PutIfNoneMatch(k, o)
  PROVE  /\ k \in Snapshot =>
              /\ canonicals' = [canonicals EXCEPT ![k] = o.sha256]
              /\ finals' = finals
         /\ k = FinalKey =>
              /\ canonicals' = canonicals
              /\ finals' = [snapshot |-> o.snapshot, sha256 |-> o.sha256]
<1>1. bucket' = [bucket EXCEPT ![k] = o] /\ bucket \in Bucket /\ o # NoObject
  BY KeyFacts DEF PutIfNoneMatch, TypeOK
<1>2. FinalKey \in Key /\ FinalKey \notin Snapshot /\ Snapshot \subseteq Key
  BY KeyFacts, StoreAssumption DEF StoreAssumption
<1>3. /\ bucket'[k] = o
      /\ \A j \in Key \ {k} : bucket'[j] = bucket[j]
  BY <1>1 DEF Bucket
<1>4. ASSUME k \in Snapshot
      PROVE  canonicals' = [canonicals EXCEPT ![k] = o.sha256] /\ finals' = finals
  <2>1. Final' = Final
    BY <1>2, <1>3, <1>4 DEF Final
  <2>2. \A s \in Snapshot :
          canonicals'[s] = IF s = k THEN o.sha256 ELSE canonicals[s]
    BY <1>1, <1>2, <1>3, <1>4 DEF canonicals
  <2>3. canonicals' = [canonicals EXCEPT ![k] = o.sha256]
    BY <2>2 DEF canonicals
  <2>4. QED
    BY <2>1, <2>3 DEF finals
<1>5. ASSUME k = FinalKey
      PROVE  /\ canonicals' = canonicals
             /\ finals' = [snapshot |-> o.snapshot, sha256 |-> o.sha256]
  <2>1. Final' = o
    BY <1>3, <1>5 DEF Final
  <2>2. \A s \in Snapshot : bucket'[s] = bucket[s]
    BY <1>2, <1>3, <1>5
  <2>3. QED
    BY <1>1, <2>1, <2>2 DEF canonicals, finals
<1>6. QED
  BY <1>4, <1>5

\* A step of an attempt that creates nothing, as the contract sees it.
LEMMA ObservationStep ==
  ASSUME IInv, IInv', initial = EmptyBucket, UNCHANGED <<initial, bucket>>,
         NEW a \in Attempt, Step(a)
  PROVE  Contract!ContractNext \/ UNCHANGED contractState
<1>1. UNCHANGED <<canonicals, finals, Final>>
  BY DEF canonicals, finals, Final
<1>2. snapshot'[a] = snapshot[a] /\ snapshot[a] \in Snapshot
  BY Starting DEF IInv, TypeOK
<1>3. StoredOK(a)' /\ MismatchOK(a)'
  BY DEF IInv, AttemptInv
<1>4. CASE step'[a] \notin Outcome
  BY <1>1, <1>4, ActorEnds DEF IInv, contractState
<1>5. CASE step'[a] = "stored"
  <2>1. Final # NoObject /\ Final.snapshot = snapshot[a] /\ Final.sha256 = artifact'[a]
    BY <1>1, <1>2, <1>3, <1>5 DEF StoredOK
  <2>2. /\ finals = [snapshot |-> snapshot[a], sha256 |-> artifact'[a]]
        /\ finals # NoObject /\ finals.snapshot = snapshot[a]
    BY <2>1, BucketView DEF IInv
  <2>3. Ends(a, "stored", finals)
    BY <1>5, <2>2, ActorEnds DEF IInv
  <2>4. QED
    BY <1>1, <1>2, <2>2, <2>3, ContractReturns
<1>6. CASE step'[a] = "mismatch"
  <2>1. Final # NoObject /\ Final.snapshot # snapshot[a]
    BY <1>1, <1>2, <1>3, <1>6 DEF MismatchOK
  <2>2. finals # NoObject /\ finals.snapshot # snapshot[a]
    BY <2>1, BucketView DEF IInv
  <2>3. Ends(a, "mismatch", NoObject)
    BY <1>6, ActorEnds DEF IInv
  <2>4. QED
    BY <1>1, <1>2, <2>2, <2>3, ContractRefuses
<1>7. CASE step'[a] \in {"transient", "lost"}
  <2>1. Ends(a, "failed", NoObject)
    BY <1>7, ActorEnds DEF IInv
  <2>2. QED
    BY <1>1, <2>1, ContractGivesUp
<1>8. QED
  BY <1>4, <1>5, <1>6, <1>7 DEF Outcome

\* An attempt creates the canonical object: it has not ended, since no final
\* object it saw could have sent it here.
LEMMA CanonicalCreation ==
  ASSUME IInv, IInv', initial = EmptyBucket, NEW a \in Attempt, PutCanonical(a),
         bucket[snapshot[a]] = NoObject
  PROVE  Contract!ContractNext
<1>1. /\ snapshot[a] \in Snapshot /\ snapshot[a] \in Key /\ candidate[a] \in Body
      /\ ObjectOf(a, candidate[a]) \in Object
      /\ ObjectOf(a, candidate[a]).sha256 = candidate[a]
  BY KeyFacts, CreationsAreProper DEF IInv, AttemptInv, TypeOK, ObjectOf
<1>2. canonicals[snapshot[a]] = NoObject
  BY <1>1, BucketView DEF IInv
<1>3. /\ canonicals' = [canonicals EXCEPT ![snapshot[a]] = candidate[a]]
      /\ finals' = finals
  BY <1>1, PutView DEF PutCanonical, IInv
<1>4. seen[a] = NoObject
  BY DEF PutCanonical, IInv, AttemptInv, Knows, Promised, Canonicalizing
<1>5. step'[a] = "guardFinal"
  BY <1>4 DEF PutCanonical, WithArtifact, Goto, IInv, TypeOK
<1>6. UNCHANGED <<outcomes, returns>>
  BY <1>5, ActorEnds DEF Step, IInv, Outcome
<1>7. QED
  BY <1>1, <1>2, <1>3, <1>6, ContractFixes

\* An attempt creates the final object and returns it.
LEMMA FinalCreation ==
  ASSUME IInv, IInv', initial = EmptyBucket, NEW a \in Attempt, PutFinal(a),
         bucket[FinalKey] = NoObject
  PROVE  Contract!ContractNext
<1>1. /\ snapshot[a] \in Snapshot /\ artifact[a] \in Body
      /\ bucket[snapshot[a]] # NoObject /\ bucket[snapshot[a]].sha256 = artifact[a]
  BY DEF PutFinal, IInv, AttemptInv, Knows, Promised, HasArtifact, TypeOK
<1>2. /\ ObjectOf(a, artifact[a]) \in Object
      /\ ObjectOf(a, artifact[a]).sha256 = artifact[a]
      /\ ObjectOf(a, artifact[a]).snapshot = snapshot[a]
  BY CreationsAreProper DEF PutFinal, IInv, AttemptInv, ObjectOf
<1>3. finals = NoObject
  BY BucketView DEF IInv, Final
<1>4. canonicals[snapshot[a]] # NoObject /\ canonicals[snapshot[a]] = artifact[a]
  BY <1>1, BucketView DEF IInv
<1>5. /\ canonicals' = canonicals
      /\ finals' = [snapshot |-> snapshot[a], sha256 |-> canonicals[snapshot[a]]]
  BY <1>2, <1>4, KeyFacts, PutView DEF PutFinal, IInv
<1>6. step'[a] = "stored" /\ artifact' = artifact
  BY DEF PutFinal, Goto, IInv, TypeOK
<1>7. Ends(a, "stored", [snapshot |-> snapshot[a], sha256 |-> canonicals[snapshot[a]]])
  BY <1>4, <1>6, ActorEnds DEF Step, IInv
<1>8. QED
  BY <1>1, <1>3, <1>4, <1>5, <1>7, ContractCreates

\* A PUT whose reply was lost reaches the bucket.
LEMMA LateCreation ==
  ASSUME IInv, initial = EmptyBucket, NEW r \in delayed, ApplyLate(r)
  PROVE  Contract!ContractNext \/ UNCHANGED contractState
<1>1. r.key \in Key /\ r.object \in Object /\ Proper(r.key, r.object)
  BY DEF IInv, TypeOK, Request, BucketInv
<1>2. UNCHANGED <<outcomes, returns>>
  BY DEF ApplyLate, attemptVars, outcomes, returns
<1>3. CASE bucket[r.key] # NoObject
  <2>1. bucket' = bucket
    BY <1>3 DEF ApplyLate, PutIfNoneMatch
  <2>2. QED
    BY <1>2, <2>1 DEF contractState, canonicals, finals, Final
<1>4. CASE bucket[r.key] = NoObject /\ r.key \in Snapshot
  <2>1. r.object.sha256 \in Body
    BY <1>1 DEF Object
  <2>2. canonicals[r.key] = NoObject
    BY <1>4, BucketView DEF IInv
  <2>3. /\ canonicals' = [canonicals EXCEPT ![r.key] = r.object.sha256]
        /\ finals' = finals
    BY <1>1, <1>4, PutView DEF ApplyLate, IInv
  <2>4. QED
    BY <1>2, <1>4, <2>1, <2>2, <2>3, ContractFixes
<1>5. CASE bucket[r.key] = NoObject /\ r.key = FinalKey
  <2> DEFINE s == r.object.snapshot
  <2>1. s \in Snapshot /\ bucket[s] # NoObject /\ bucket[s].sha256 = r.object.sha256
    BY <1>1, <1>5 DEF Proper, Copy, Promised
  <2>2. canonicals[s] # NoObject /\ canonicals[s] = r.object.sha256
    BY <2>1, BucketView DEF IInv
  <2>3. finals = NoObject
    BY <1>5, BucketView DEF IInv, Final
  <2>4. /\ canonicals' = canonicals
        /\ finals' = [snapshot |-> s, sha256 |-> canonicals[s]]
    BY <1>1, <1>5, <2>2, PutView DEF ApplyLate, IInv
  <2> HIDE DEF s
  <2>5. QED
    BY <1>2, <2>1, <2>2, <2>3, <2>4, ContractCreates
<1>6. QED
  BY <1>1, <1>3, <1>4, <1>5 DEF Key

LEMMA ContractInitially == Init /\ initial = EmptyBucket => Contract!ContractInit
<1> SUFFICES ASSUME Init, initial = EmptyBucket PROVE Contract!ContractInit
  OBVIOUS
<1>1. bucket = EmptyBucket /\ Final = NoObject
  BY KeyFacts DEF Init, EmptyBucket, Final
<1>2. canonicals = [s \in Snapshot |-> NoObject]
  BY <1>1, KeyFacts DEF canonicals, EmptyBucket
<1>3. finals = NoObject
  BY <1>1 DEF finals
<1>4. outcomes = [a \in Attempt |-> "open"] /\ returns = [a \in Attempt |-> NoObject]
  BY DEF Init, outcomes, returns
<1>5. QED
  BY <1>2, <1>3, <1>4, Zenon
     DEF Contract!ContractInit, canonicals, finals, outcomes, returns

LEMMA ContractStep ==
  ASSUME IInv, IInv', initial = EmptyBucket, [Next]_vars
  PROVE  [Contract!ContractNext]_Contract!contractVars
<1>1. UNCHANGED initial
  BY NextIsBucketStep
<1>2. ASSUME NEW a \in Attempt, Step(a)
      PROVE  Contract!ContractNext \/ UNCHANGED contractState
  <2>1. CASE PutCanonical(a) /\ bucket[snapshot[a]] = NoObject
    BY <2>1, CanonicalCreation
  <2>2. CASE PutFinal(a) /\ bucket[FinalKey] = NoObject
    BY <2>2, FinalCreation
  <2>3. CASE UNCHANGED bucket
    BY <1>1, <1>2, <2>3, ObservationStep
  <2>4. QED
    BY <1>2, <2>1, <2>2, <2>3
    DEF Step, HeadFinal, ProbeCanonical, HeadCanonical, PutCanonical, ReheadCanonical,
        GetCanonical, PutFinal, ReheadFinal, RequireOwnership, Unavailable, PutIfNoneMatch
<1>3. ASSUME NEW r \in delayed, ApplyLate(r)
      PROVE  Contract!ContractNext \/ UNCHANGED contractState
  BY <1>3, LateCreation
<1>4. ASSUME UNCHANGED vars PROVE UNCHANGED contractState
  <2>1. UNCHANGED <<canonicals, finals>>
    BY <1>4 DEF vars, canonicals, finals, Final
  <2>2. UNCHANGED <<outcomes, returns>>
    BY <1>4 DEF vars, attemptVars, outcomes, returns
  <2>3. QED
    BY <2>1, <2>2 DEF contractState
<1>5. Contract!ContractNext \/ UNCHANGED contractState
  BY <1>2, <1>3, <1>4 DEF Next
<1>6. Contract!ContractNext \/ UNCHANGED Contract!contractVars
  BY <1>5, ContractStutters
<1>7. QED
  BY <1>6

\* In a bucket only these attempts write to, put_or_verify() keeps its contract:
\* one canonical digest per snapshot, one final object, and calls that return it.
THEOREM ContractTheorem == Spec /\ initial = EmptyBucket => KeepsContract
<1>1. IInv /\ [Next]_vars /\ initial = EmptyBucket => (initial = EmptyBucket)'
  BY NextIsBucketStep
<1>2. Spec /\ initial = EmptyBucket => [](initial = EmptyBucket)
  BY <1>1, Invariance, PTL DEF Spec
<1>3. IInv /\ IInv' /\ initial = EmptyBucket /\ [Next]_vars =>
        [Contract!ContractNext]_Contract!contractVars
  BY ContractStep
<1>4. QED
  BY <1>2, <1>3, ContractInitially, Invariance, PTL
  DEF Spec, KeepsContract, Contract!ContractSpec

=============================================================================
