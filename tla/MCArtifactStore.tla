---------------------------- MODULE MCArtifactStore ----------------------------
(* TLC instances of ArtifactStore: three attempts of one job. *)
EXTENDS ArtifactStore, TLC

CONSTANTS a1, a2, a3, s1, s2, b1, b2

\* Bytes of equal length, so that only digests tell them apart.
SameSize == [b \in Body |-> 1]

Only(k, o) == [EmptyBucket EXCEPT ![k] = o]
Obj(s, d, b) == [snapshot |-> s, sha256 |-> d, body |-> b]

Empty == {EmptyBucket}
\* A final object without canonical bytes, foreign metadata, a canonical object
\* whose bytes are not the ones its metadata promises, and a sound pair.
Occupied ==
  {Only(FinalKey, Obj(s1, b1, b1)), Only(FinalKey, Obj(Garbled, b1, b1)),
   Only(s1, Obj(s2, b1, b1)), Only(s1, Obj(Garbled, b1, b1)),
   Only(s1, Obj(s1, b1, b2)),
   [Only(FinalKey, Obj(s1, b1, b1)) EXCEPT ![s1] = Obj(s1, b1, b1)],
   [Only(FinalKey, Obj(s1, b1, b1)) EXCEPT ![s1] = Obj(Garbled, b1, b1)]}

Symmetry == Permutations(Attempt)
=============================================================================
