----------------------------- MODULE ArtifactStore -----------------------------
(*****************************************************************************)
(* ArtifactStore.put_or_verify of object_store.py for one export job: the    *)
(* attempts of several workers to store the job's artifact in a bucket that  *)
(* offers HEAD, GET and a PUT that fails when the key exists.                *)
(*                                                                           *)
(* An attempt works for the snapshot the control API claimed the job at.     *)
(* The first attempt of a snapshot fixes its bytes under the snapshot's      *)
(* canonical key; the final object of the job is then a copy of them.  The   *)
(* attempts interleave at every request; a PUT whose reply is lost may reach *)
(* the bucket later, after its attempt is over; the ownership guard may deny *)
(* any creation; and the bucket may hold objects nobody here wrote.          *)
(*                                                                           *)
(* A digest is identified with the bytes it was computed from.               *)
(*****************************************************************************)
EXTENDS Integers, FiniteSets

CONSTANTS
  Attempt,          \* the calls of put_or_verify
  Snapshot,         \* snapshot ids the job was claimed at
  Body,             \* artifact bytes
  SizeOf,           \* their lengths
  FinalKey,         \* the job's object key; a snapshot stands for its canonical key
  Garbled,          \* stands for the snapshot in metadata _head() rejects
  NoObject,         \* what a HEAD of a missing key returns
  NoBody,           \* no artifact determined yet
  InitialBuckets    \* what the bucket may hold before the first attempt

Key == Snapshot \cup {FinalKey}

\* The metadata's snapshot-id and sha256, and the bytes themselves.  The other
\* identity fields are those of the one job.
Object == [snapshot : Snapshot \cup {Garbled}, sha256 : Body, body : Body]

Bucket == [Key -> Object \cup {NoObject}]
EmptyBucket == [k \in Key |-> NoObject]

ASSUME StoreAssumption ==
  /\ SizeOf \in [Body -> Nat]
  /\ FinalKey \notin Snapshot
  /\ Garbled \notin Snapshot
  /\ NoObject \notin Object \cup Body \cup [snapshot : Snapshot, sha256 : Body]
  /\ NoBody \notin Body
  /\ InitialBuckets \subseteq Bucket

VARIABLES
  bucket,     \* the objects
  initial,    \* history: the bucket before the first attempt
  delayed,    \* PUT requests whose reply was lost, not (yet) applied
  snapshot,   \* of each attempt
  candidate,  \* the bytes each attempt rendered
  step,       \* the request or guard each attempt is at, or its outcome
  seen,       \* the final object as the first HEAD found it
  canon,      \* the canonical object as _canonicalize() found it
  artifact    \* the bytes whose digest and size the attempt stands for

attemptVars == <<snapshot, candidate, step, seen, canon, artifact>>
vars == <<bucket, initial, delayed, attemptVars>>

Guard == {"guardCanonical", "guardCanonicalRace", "guardFinal", "guardFinalRace"}
Look == {"headFinal", "probeCanonical", "headCanonical", "reheadCanonical",
         "getCanonical", "reheadFinal"}
Create == {"putCanonical", "putFinal"}
Outcome == {"stored", "mismatch", "transient", "lost"}

Request == [key : Key, object : Object]

\* Once the canonical bytes are known, an attempt has its artifact.
HasArtifact == {"guardFinal", "putFinal", "guardFinalRace", "reheadFinal", "stored"}

TypeOK ==
  /\ bucket \in Bucket
  /\ initial \in Bucket
  /\ delayed \subseteq Request
  /\ snapshot \in [Attempt -> Snapshot]
  /\ candidate \in [Attempt -> Body]
  /\ step \in [Attempt -> Guard \cup Look \cup Create \cup Outcome]
  /\ seen \in [Attempt -> Object \cup {NoObject}]
  /\ canon \in [Attempt -> Object \cup {NoObject}]
  /\ artifact \in [Attempt -> Body \cup {NoBody}]
  /\ \A a \in Attempt :
       /\ step[a] \in HasArtifact => artifact[a] \in Body
       /\ step[a] = "getCanonical" => canon[a] # NoObject

Init ==
  /\ bucket \in InitialBuckets
  /\ initial = bucket
  /\ delayed = {}
  /\ snapshot \in [Attempt -> Snapshot]
  /\ candidate \in [Attempt -> Body]
  /\ step = [a \in Attempt |-> "headFinal"]
  /\ seen = [a \in Attempt |-> NoObject]
  /\ canon = [a \in Attempt |-> NoObject]
  /\ artifact = [a \in Attempt |-> NoBody]

Goto(a, s) == step' = [step EXCEPT ![a] = s]

-----------------------------------------------------------------------------
(* The objects an attempt compares and creates. *)

\* _is_exact(): what a HEAD shows, size and metadata, is that of bytes b.
SameSizeOnly(o, s, b) == SizeOf[o.body] = SizeOf[b] /\ o.snapshot = s
Exact(o, s, b) ==
  /\ SizeOf[o.body] = SizeOf[b]
  /\ o.sha256 = b
  /\ o.snapshot = s

ObjectOf(a, b) == [snapshot |-> snapshot[a], sha256 |-> b, body |-> b]

\* put_object with IfNoneMatch "*": applied only when the key is free.
Overwrite(k, o) == bucket' = [bucket EXCEPT ![k] = o]
PutIfNoneMatch(k, o) ==
  bucket' = IF bucket[k] = NoObject THEN [bucket EXCEPT ![k] = o] ELSE bucket

-----------------------------------------------------------------------------
(* The final key. *)

\* _canonicalize() returned bytes b: an existing final object must be a copy
\* of them, otherwise the attempt goes on to create it.
WithArtifact(a, b) ==
  /\ artifact' = [artifact EXCEPT ![a] = b]
  /\ Goto(a, CASE seen[a] = NoObject -> "guardFinal"
               [] seen[a] # NoObject /\ Exact(seen[a], snapshot[a], b) -> "stored"
               [] OTHER -> "mismatch")

\* The first HEAD of the final key.
CreateDirectly == "guardFinal"
WhenMissing == "headCanonical"
HeadFinal(a) ==
  /\ step[a] = "headFinal"
  /\ seen' = [seen EXCEPT ![a] = bucket[FinalKey]]
  /\ LET o == bucket[FinalKey] IN
       \/ /\ o = NoObject
          /\ Goto(a, WhenMissing) /\ UNCHANGED artifact
       \/ /\ o # NoObject /\ o.snapshot = Garbled
          /\ Goto(a, "mismatch") /\ UNCHANGED artifact
       \/ /\ o # NoObject /\ Exact(o, snapshot[a], candidate[a])
          /\ Goto(a, "stored")
          /\ artifact' = [artifact EXCEPT ![a] = candidate[a]]
       \/ /\ o # NoObject /\ o.snapshot # Garbled
          /\ ~Exact(o, snapshot[a], candidate[a])
          /\ Goto(a, "probeCanonical") /\ UNCHANGED artifact
  /\ UNCHANGED <<bucket, initial, delayed, snapshot, candidate, canon>>

\* A final object that is no copy of the candidate is accepted for a closer
\* look only if this snapshot has canonical bytes.
NoCloserLook(o) == "mismatch"
CloserLook(o) ==
  IF o # NoObject /\ o.snapshot # Garbled THEN "headCanonical" ELSE "mismatch"
ProbeCanonical(a) ==
  /\ step[a] = "probeCanonical"
  /\ Goto(a, CloserLook(bucket[snapshot[a]]))
  /\ UNCHANGED <<bucket, initial, delayed, snapshot, candidate, seen, canon, artifact>>

-----------------------------------------------------------------------------
(* _canonicalize(). *)

\* The canonical object o exists: _verify_canonical(), then the candidate if it
\* is the canonical one, else the canonical bytes are fetched.
AdoptCandidate(a, o) ==
  /\ canon' = [canon EXCEPT ![a] = o]
  /\ IF o.snapshot # snapshot[a]
     THEN Goto(a, "mismatch") /\ UNCHANGED artifact
     ELSE WithArtifact(a, candidate[a])
VerifyCanonical(a, o) ==
  /\ canon' = [canon EXCEPT ![a] = o]
  /\ \/ /\ o.snapshot # snapshot[a]
        /\ Goto(a, "mismatch") /\ UNCHANGED artifact
     \/ /\ Exact(o, snapshot[a], candidate[a])
        /\ WithArtifact(a, candidate[a])
     \/ /\ o.snapshot = snapshot[a] /\ ~Exact(o, snapshot[a], candidate[a])
        /\ Goto(a, "getCanonical") /\ UNCHANGED artifact

HeadCanonical(a) ==
  /\ step[a] = "headCanonical"
  /\ IF bucket[snapshot[a]] = NoObject
     THEN Goto(a, "guardCanonical") /\ UNCHANGED <<canon, artifact>>
     ELSE VerifyCanonical(a, bucket[snapshot[a]])
  /\ UNCHANGED <<bucket, initial, delayed, snapshot, candidate, seen>>

PutCanonical(a) ==
  /\ step[a] = "putCanonical"
  /\ PutIfNoneMatch(snapshot[a], ObjectOf(a, candidate[a]))
  /\ IF bucket[snapshot[a]] = NoObject
     THEN WithArtifact(a, candidate[a])
     ELSE Goto(a, "guardCanonicalRace") /\ UNCHANGED artifact
  /\ UNCHANGED <<initial, delayed, snapshot, candidate, seen, canon>>

\* Another attempt's bytes won the race for the canonical key.
ReheadCanonical(a) ==
  /\ step[a] = "reheadCanonical"
  /\ IF bucket[snapshot[a]] = NoObject
     THEN Goto(a, "transient") /\ UNCHANGED <<canon, artifact>>
     ELSE VerifyCanonical(a, bucket[snapshot[a]])
  /\ UNCHANGED <<bucket, initial, delayed, snapshot, candidate, seen>>

\* The bytes must be the ones the metadata promised.
GetCanonical(a) ==
  /\ step[a] = "getCanonical"
  /\ LET o == bucket[snapshot[a]] IN
       /\ o # NoObject
       /\ IF SizeOf[o.body] = SizeOf[canon[a].body] /\ o.body = canon[a].sha256
          THEN WithArtifact(a, o.body)
          ELSE Goto(a, "mismatch") /\ UNCHANGED artifact
  /\ UNCHANGED <<bucket, initial, delayed, snapshot, candidate, seen, canon>>

-----------------------------------------------------------------------------
(* Creating the final object. *)

PutFinal(a) ==
  /\ step[a] = "putFinal"
  /\ PutIfNoneMatch(FinalKey, ObjectOf(a, artifact[a]))
  /\ Goto(a, IF bucket[FinalKey] = NoObject THEN "stored" ELSE "guardFinalRace")
  /\ UNCHANGED <<initial, delayed, snapshot, candidate, seen, canon, artifact>>

TrustWinner(a) == "stored"
JudgeWinner(a) ==
  CASE bucket[FinalKey] = NoObject -> "transient"
    [] bucket[FinalKey] # NoObject /\ Exact(bucket[FinalKey], snapshot[a], artifact[a])
         -> "stored"
    [] OTHER -> "mismatch"
ReheadFinal(a) ==
  /\ step[a] = "reheadFinal"
  /\ Goto(a, JudgeWinner(a))
  /\ UNCHANGED <<bucket, initial, delayed, snapshot, candidate, seen, canon, artifact>>

-----------------------------------------------------------------------------
(* Guards and failures. *)

\* before_create and before_race_verify: the ownership guard of the processor.
AfterGuard(s) ==
  CASE s = "guardCanonical" -> "putCanonical"
    [] s = "guardCanonicalRace" -> "reheadCanonical"
    [] s = "guardFinal" -> "putFinal"
    [] s = "guardFinalRace" -> "reheadFinal"

RequireOwnership(a) ==
  /\ step[a] \in Guard
  /\ Goto(a, AfterGuard(step[a])) \/ Goto(a, "lost")
  /\ UNCHANGED <<bucket, initial, delayed, snapshot, candidate, seen, canon, artifact>>

\* What the attempt asks the bucket to create at its present step.
Unanswered(a) ==
  CASE step[a] = "putCanonical" ->
         {[key |-> snapshot[a], object |-> ObjectOf(a, candidate[a])]}
    [] step[a] = "putFinal" ->
         {[key |-> FinalKey, object |-> ObjectOf(a, artifact[a])]}
    [] OTHER -> {}

\* A request fails or times out (the attempt is transient), or the worker dies
\* at it; the bucket may still apply a PUT later, or never.
Unavailable(a) ==
  /\ step[a] \in Look \cup Create
  /\ Goto(a, "transient")
  /\ delayed' = delayed \cup Unanswered(a)
  /\ UNCHANGED <<bucket, initial, snapshot, candidate, seen, canon, artifact>>

ApplyLate(r) ==
  /\ delayed' = delayed \ {r}
  /\ PutIfNoneMatch(r.key, r.object)
  /\ UNCHANGED <<initial, attemptVars>>

Step(a) ==
  \/ HeadFinal(a) \/ ProbeCanonical(a)
  \/ HeadCanonical(a) \/ PutCanonical(a) \/ ReheadCanonical(a) \/ GetCanonical(a)
  \/ PutFinal(a) \/ ReheadFinal(a)
  \/ RequireOwnership(a) \/ Unavailable(a)

Next == (\E a \in Attempt : Step(a)) \/ (\E r \in delayed : ApplyLate(r))

Spec == Init /\ [][Next]_vars

-----------------------------------------------------------------------------
(* Properties. *)

Final == bucket[FinalKey]

\* A final object these attempts created is a true copy of the canonical bytes
\* of its snapshot, whichever attempts raced, died or came late.  There is one
\* exception: of a canonical object that was there before them and whose bytes
\* are not those of its digest, an attempt that rendered bytes of this digest and
\* length fetches none and creates the final object from its own.
FinalIsCanonical ==
  Final # initial[FinalKey] =>
    /\ Final.body = Final.sha256
    /\ Final.snapshot \in Snapshot
    /\ LET canonical == bucket[Final.snapshot] IN
         /\ canonical # NoObject
         /\ canonical.sha256 = Final.sha256
         /\ SizeOf[canonical.body] = SizeOf[Final.body]
         /\ \/ canonical.body = Final.body
            \/ canonical = initial[Final.snapshot]

\* Whatever put_or_verify() returned is and stays what the final key holds: a
\* digest reported to the control API is never that of bytes that lost a race.
\* Two attempts that both return therefore return the same artifact.
StoredIsFinal ==
  \A a \in Attempt : step[a] = "stored" =>
    /\ Final # NoObject
    /\ Final.snapshot = snapshot[a]
    /\ Final.sha256 = artifact[a]
    /\ SizeOf[Final.body] = SizeOf[artifact[a]]

\* In a bucket only these attempts wrote to, an attempt ends in the terminal
\* existing_object_mismatch only if the job was stored for another snapshot:
\* losing a race, or rendering other bytes of the same snapshot, never ends an
\* event.
MismatchIsAnotherSnapshot ==
  initial = EmptyBucket =>
    \A a \in Attempt : step[a] = "mismatch" =>
      Final # NoObject /\ Final.snapshot # snapshot[a]

\* No step changes or removes an object that exists.
WrittenOnce == [][\A k \in Key : bucket[k] # NoObject => bucket'[k] = bucket[k]]_vars

-----------------------------------------------------------------------------
(* What the store promises. *)

Contract == INSTANCE ArtifactContract WITH
  Nothing <- NoObject,
  canonical <- [s \in Snapshot |->
                  IF bucket[s] = NoObject THEN NoObject ELSE bucket[s].sha256],
  final <- IF Final = NoObject THEN NoObject
           ELSE [snapshot |-> Final.snapshot, sha256 |-> Final.sha256],
  outcome <- [a \in Attempt |->
                CASE step[a] \in {"stored", "mismatch"} -> step[a]
                  [] step[a] \in {"transient", "lost"} -> "failed"
                  [] OTHER -> "open"],
  returned <- [a \in Attempt |->
                 IF step[a] = "stored"
                 THEN [snapshot |-> snapshot[a], sha256 |-> artifact[a]]
                 ELSE NoObject]

\* In a bucket only these attempts write to, their requests, races and late
\* PUTs amount to one canonical digest per snapshot, one final object, and
\* calls that return it.
KeepsContract == Contract!ContractSpec

=============================================================================
