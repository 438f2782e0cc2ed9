--------------------------- MODULE ExportContentProofs ---------------------------
(*****************************************************************************)
(* Proofs about what an export contains: the rows that ControlApiClient      *)
(* pages, for any rows, limits and movements of the result set, and the      *)
(* cells as they are written, of any length.                                 *)
(*****************************************************************************)
EXTENDS DiagnosticsPaging, CellProtection, FiniteSetTheorems, TLAPS

-----------------------------------------------------------------------------
(* The order of the rows. *)

LEMMA RowFacts ==
  /\ \A r \in Row : r.at \in Int /\ r.id \in Int
  /\ Held \subseteq Row /\ IsFiniteSet(Held)
  /\ \A r \in Held : r.org = Organization
  /\ MaxMoves \in Nat
BY PagingAssumption DEF PagingAssumption

LEMMA LimitFacts ==
  ASSUME TypeOK
  PROVE  /\ PageSize \in Nat \ {0} /\ MaxPages \in Nat \ {0}
         /\ MaxRows \in Nat \ {0} /\ MaxBytes \in Nat \ {0}
BY PagingAssumption DEF PagingAssumption, TypeOK, PageSize, MaxPages, MaxRows, MaxBytes

LEMMA BeforeOrders ==
  /\ \A p, q, r \in Row : Before(p, q) /\ Before(q, r) => Before(p, r)
  /\ \A p, q \in Row : Before(p, q) => ~Before(q, p) /\ p # q
  /\ \A p, q \in Row : Before(p, q) \/ Before(q, p) \/ p.id = q.id
BY RowFacts DEF Before

\* Identifiers are unique, also over time.
Unique == \A p, q \in ever : p.id = q.id => p = q

Api ==
  /\ honest => ever \subseteq Held
  /\ IsFiniteSet(table)
  /\ Unique
  /\ moves = 0 => lasting = table /\ ever = table

\* m different elements of a set are all of it, or it has more.
LEMMA Pigeonhole ==
  ASSUME NEW S, IsFiniteSet(S), NEW m \in Nat, NEW f \in [1..m -> S],
         \A i, j \in 1..m : i < j => f[i] # f[j]
  PROVE  /\ m <= Cardinality(S)
         /\ m = Cardinality(S) => \A x \in S : \E i \in 1..m : f[i] = x
<1>1. f \in Injection(1..m, S)
  BY DEF Injection, IsInjective
<1>2. IsFiniteSet(1..m) /\ Cardinality(1..m) = m
  BY FS_Interval
<1>3. Cardinality(S) \in Nat
  BY FS_CardinalityType
<1>4. m <= Cardinality(S) /\ (m = Cardinality(S) => f \in Surjection(1..m, S))
  BY <1>1, <1>2, FS_Injection
<1>5. QED
  BY <1>4 DEF Surjection

\* Sets of numbers have least elements, which is what inductions below rest on.
LEMMA LeastNumber ==
  ASSUME NEW T \in SUBSET Nat, T # {}
  PROVE  \E m \in T : \A k \in T : ~(k < m)
<1>1. \E m \in T : \A k \in T : <<k, m>> \notin OpToRel(<, Nat)
  BY WFMin, NatLessThanWellFounded, Zenon
<1>2. QED
  BY <1>1, Zenon DEF OpToRel

\* The position of a row grows with the order.
LEMMA AheadIsPosition ==
  ASSUME TypeOK, Api, NEW p \in table, NEW r \in table
  PROVE  /\ Ahead(p) \in Nat /\ Ahead(r) \in Nat
         /\ Before(p, r) => Ahead(p) < Ahead(r)
<1> DEFINE P == {q \in table : Before(q, p)}
           R == {q \in table : Before(q, r)}
<1>1. P \in SUBSET table /\ R \in SUBSET table /\ IsFiniteSet(table)
  BY DEF Api
<1>2. /\ IsFiniteSet(P) /\ IsFiniteSet(R)
      /\ Cardinality(P) \in Nat /\ Cardinality(R) \in Nat
  BY <1>1, FS_Subset, FS_CardinalityType
<1>3. ASSUME Before(p, r) PROVE Cardinality(P) < Cardinality(R)
  <2>1. P \in SUBSET R
    BY <1>3, BeforeOrders DEF TypeOK
  <2>2. p \in R /\ p \notin P
    BY <1>3, BeforeOrders DEF TypeOK
  <2>3. QED
    BY <1>2, <2>1, <2>2, FS_Subset
<1>4. QED
  BY <1>2, <1>3 DEF Ahead

LEMMA PositionDecides ==
  ASSUME TypeOK, Api, NEW p \in table, NEW r \in table
  PROVE  /\ Ahead(p) < Ahead(r) => Before(p, r)
         /\ Ahead(p) = Ahead(r) => p = r
<1>1. Before(p, r) \/ Before(r, p) \/ p = r
  BY BeforeOrders DEF TypeOK, Api, Unique
<1>2. QED
  BY <1>1, AheadIsPosition

\* A row that m others come before has at least that position.
LEMMA PositionCounts ==
  ASSUME TypeOK, Api, NEW m \in Nat, NEW f \in [1..m -> table],
         \A i, j \in 1..m : i < j => f[i] # f[j],
         NEW r \in table, \A i \in 1..m : Before(f[i], r)
  PROVE  m <= Ahead(r)
<1> DEFINE R == {q \in table : Before(q, r)}
<1>1. R \in SUBSET table /\ IsFiniteSet(table)
  BY DEF Api
<1>2. IsFiniteSet(R)
  BY <1>1, FS_Subset
<1>3. f \in [1..m -> R]
  OBVIOUS
<1> HIDE DEF R
<1>4. m <= Cardinality(R)
  BY <1>2, <1>3, Pigeonhole
<1>5. QED
  BY <1>4 DEF R, Ahead

-----------------------------------------------------------------------------
(* Pages. *)

\* The rows together with those of a page.
LEMMA Joined ==
  ASSUME NEW s \in Seq(Row), NEW n \in Nat, NEW items \in [1..n -> Row]
  PROVE  /\ items \in Seq(Row) /\ Len(items) = n
         /\ s \o items \in Seq(Row) /\ Len(s \o items) = Len(s) + n
         /\ \A i \in 1..Len(s) : (s \o items)[i] = s[i]
         /\ \A i \in 1..n : (s \o items)[Len(s) + i] = items[i]
<1>1. items \in Seq(Row) /\ Len(items) = n
  OBVIOUS
<1>2. QED
  BY <1>1

Sorted(all) ==
  \A i, j \in 1..Len(all) : i < j => Before(all[i], all[j]) /\ all[i].id # all[j].id

\* Each row is checked against the one before it and against all identifiers:
\* by induction along the page, they are in order throughout.
LEMMA ChecksSort ==
  ASSUME NEW all \in Seq(Row), NEW k \in Nat,
         \A i, j \in 1..k : i < j => Before(all[i], all[j]) /\ all[i].id # all[j].id,
         k <= Len(all), \A i \in k + 1..Len(all) : ~Invalid(all, i)
  PROVE  Sorted(all)
<1> DEFINE Wrong == {j \in 1..Len(all) : \E i \in 1..j - 1 : ~Before(all[i], all[j])}
<1>1. Wrong = {}
  <2>1. SUFFICES ASSUME Wrong # {} PROVE FALSE
    OBVIOUS
  <2>2. Wrong \subseteq Nat
    OBVIOUS
  <2>3. PICK j \in Wrong : \A i \in Wrong : ~(i < j)
    <3> HIDE DEF Wrong
    <3> QED
      BY <2>1, <2>2, LeastNumber
  <2>4. j \in 1..Len(all) /\ j > k
    OBVIOUS
  <2>5. PICK i \in 1..j - 1 : ~Before(all[i], all[j])
    OBVIOUS
  <2>6. Before(all[j - 1], all[j])
    BY <2>4, <2>5 DEF Invalid
  <2>7. i # j - 1 /\ i \in 1..(j - 1) - 1
    BY <2>4, <2>5, <2>6
  <2>8. Before(all[i], all[j - 1])
    BY <2>3, <2>4, <2>7
  <2>9. all[i] \in Row /\ all[j - 1] \in Row /\ all[j] \in Row
    BY <2>4, <2>7
  <2>10. QED
    BY <2>5, <2>6, <2>8, <2>9, BeforeOrders
<1>2. ASSUME NEW i \in 1..Len(all), NEW j \in 1..Len(all), i < j
      PROVE  all[i].id # all[j].id
  <2>1. CASE j <= k
    BY <1>2, <2>1
  <2>2. CASE j > k
    BY <1>2, <2>2 DEF Invalid
  <2> QED
    BY <2>1, <2>2
<1>3. QED
  BY <1>1, <1>2 DEF Sorted

-----------------------------------------------------------------------------
(* The invariant. *)

Taken(r) == \E i \in 1..Len(rows) : rows[i] = r

RowsInv ==
  /\ \A i \in 1..Len(rows) : rows[i].org = Organization
  /\ Sorted(rows)
  /\ outcome \in {"open", "returned", "too many pages"} =>
       Len(rows) <= MaxRows /\ bytes <= MaxBytes

\* All pages but the last are full, and each takes a row's bytes of itself.
PagesInv ==
  /\ outcome = "open" => Len(rows) = PageSize * requests /\ bytes = Len(rows) + requests
  /\ outcome = "too many pages" => Len(rows) = PageSize * MaxPages

\* Without removals the rows that were there all along and are not taken yet
\* come after all that are: insertions shift them away from the offset only.
NothingSkipped ==
  ever = table =>
    /\ outcome = "open" =>
         \A r \in lasting : Taken(r) \/ \A i \in 1..Len(rows) : Before(rows[i], r)
    /\ outcome = "returned" => \A r \in lasting : Taken(r)

\* Rows that do not move are taken in their order.
InPlace ==
  moves = 0 =>
    /\ \A i \in 1..Len(rows) : rows[i] \in table /\ Ahead(rows[i]) = i - 1
    /\ outcome # "invalid"
    /\ outcome = "too many rows" => Cardinality(table) > MaxRows
    /\ outcome = "too large" => Cardinality(table) + requests > MaxBytes

HonestInv ==
  honest => /\ \A i \in 1..Len(rows) : rows[i] \in ever
            /\ NothingSkipped
            /\ InPlace

IInv == TypeOK /\ Api /\ RowsInv /\ PagesInv /\ HonestInv

LEMMA InitIInv == Init => IInv
<1> SUFFICES ASSUME Init PROVE IInv
  OBVIOUS
<1>1. table \subseteq Held \/ table = {}
  BY DEF Init
<1>2. table \subseteq Row
  BY <1>1, RowFacts
<1>3. TypeOK
  <2>1. /\ limits \in Limits
        /\ PageSize \in Nat \ {0} /\ MaxPages \in Nat \ {0}
    BY PagingAssumption DEF Init, PagingAssumption, PageSize, MaxPages
  <2> QED
    BY <1>2, <2>1 DEF Init, TypeOK, Outcome
<1>4. Api
  <2>1. IsFiniteSet(table)
    BY <1>1, RowFacts, FS_Subset, FS_EmptySet
  <2>2. honest => ever \subseteq Held
    BY DEF Init
  <2> QED
    BY <2>1, <2>2 DEF Init, Api, Unique
<1>5. RowsInv
  BY <1>3, LimitFacts DEF Init, RowsInv, Sorted
<1>6. PagesInv
  BY <1>3, LimitFacts DEF Init, PagesInv
<1>7. HonestInv
  BY DEF Init, HonestInv, NothingSkipped, InPlace
<1>8. QED
  BY <1>3, <1>4, <1>5, <1>6, <1>7 DEF IInv

-----------------------------------------------------------------------------
(* The result set moves. *)

LEMMA MoveKeeps ==
  ASSUME IInv, Move
  PROVE  IInv'
<1>1. /\ outcome = "open" /\ honest /\ moves' = moves + 1 /\ moves \in Nat
      /\ UNCHANGED <<limits, loopVars>>
      /\ UNCHANGED honest
  BY DEF Move, IInv, TypeOK, Insert, Remove
<1>2. UNCHANGED <<limits, rows, offset, requests, bytes, outcome>>
  BY <1>1 DEF loopVars
<1>3. /\ table' \subseteq Row /\ lasting' \subseteq table' /\ table' \subseteq ever'
      /\ ever' \subseteq Held /\ ever \subseteq ever' /\ lasting' \subseteq lasting
      /\ IsFiniteSet(table') /\ Unique'
      /\ ever' = table' => ever = table /\ lasting' = lasting
  <2>1. /\ table \subseteq Row /\ lasting \subseteq table /\ table \subseteq ever
        /\ ever \subseteq Held /\ IsFiniteSet(table) /\ Held \subseteq Row
    BY <1>1, RowFacts DEF IInv, TypeOK, Api
  <2>2. CASE \E r \in Held : Insert(r)
    <3>1. PICK r \in Held : Insert(r)
      BY <2>2
    <3>2. /\ table' = table \cup {r} /\ ever' = ever \cup {r} /\ lasting' = lasting
          /\ \A q \in ever : q.id # r.id
      BY <3>1 DEF Insert
    <3>3. IsFiniteSet(table')
      BY <2>1, <3>2, FS_AddElement
    <3>4. Unique'
      BY <3>2 DEF IInv, Api, Unique
    <3>5. r \notin ever
      BY <3>2
    <3> QED
      BY <2>1, <3>2, <3>3, <3>4, <3>5
  <2>3. CASE \E r \in table : Remove(r)
    <3>1. PICK r \in table : Remove(r)
      BY <2>3
    <3>2. table' = table \ {r} /\ ever' = ever /\ lasting' = lasting \ {r}
      BY <3>1 DEF Remove
    <3>3. IsFiniteSet(table')
      BY <2>1, <3>2, FS_RemoveElement
    <3>4. Unique'
      BY <3>2 DEF IInv, Api, Unique
    <3> QED
      BY <2>1, <3>2, <3>3, <3>4
  <2> QED
    BY <2>2, <2>3 DEF Move
<1>4. PageSize' = PageSize /\ MaxPages' = MaxPages /\ MaxRows' = MaxRows
      /\ MaxBytes' = MaxBytes
  BY <1>2 DEF PageSize, MaxPages, MaxRows, MaxBytes
<1>5. TypeOK'
  BY <1>1, <1>2, <1>3, <1>4, RowFacts DEF IInv, TypeOK
<1>6. Api'
  BY <1>1, <1>3 DEF Api
<1>7. RowsInv' /\ PagesInv'
  BY <1>2, <1>4 DEF IInv, RowsInv, PagesInv, Sorted
<1>8. HonestInv'
  <2>1. \A i \in 1..Len(rows) : rows[i] \in ever'
    BY <1>1, <1>3 DEF IInv, HonestInv
  <2>2. NothingSkipped'
    BY <1>1, <1>2, <1>3 DEF IInv, HonestInv, NothingSkipped, Taken
  <2>3. InPlace'
    <3>1. moves' # 0
      BY <1>1
    <3> QED
      BY <3>1, Zenon DEF InPlace
  <2> QED
    BY <1>2, <2>1, <2>2, <2>3 DEF HonestInv
<1>9. QED
  BY <1>5, <1>6, <1>7, <1>8 DEF IInv

-----------------------------------------------------------------------------
(* A page is requested. *)

\* An honest page: the rows from offset on, and all of them if it is short.
LEMMA HonestPage ==
  ASSUME TypeOK, Api, NEW items \in Served
  PROVE  /\ Len(items) \in Nat /\ Len(items) <= PageSize
         /\ items \in [1..Len(items) -> table]
         /\ \A i \in 1..Len(items) : Ahead(items[i]) = offset + i - 1
         /\ Len(items) < PageSize =>
              \A r \in table : Ahead(r) >= offset => \E i \in 1..Len(items) : items[i] = r
<1>1. IsFiniteSet(Rest) /\ Cardinality(Rest) \in Nat
  <2>1. Rest \in SUBSET table
    BY DEF Rest
  <2> QED
    BY <2>1, FS_Subset, FS_CardinalityType DEF Api
<1>2. PICK n \in Nat :
        /\ n = IF Cardinality(Rest) < PageSize THEN Cardinality(Rest) ELSE PageSize
        /\ items \in [1..n -> table]
        /\ \A i \in 1..n : Ahead(items[i]) = offset + i - 1
  BY <1>1, LimitFacts DEF Served
<1>3. Len(items) = n /\ n <= PageSize
  BY <1>1, <1>2, LimitFacts
<1>4. ASSUME n < PageSize, NEW r \in table, Ahead(r) >= offset
      PROVE  \E i \in 1..n : items[i] = r
  <2>1. n = Cardinality(Rest)
    BY <1>1, <1>2, <1>4, LimitFacts
  <2>2. items \in [1..n -> Rest]
    <3>1. ASSUME NEW i \in 1..n PROVE items[i] \in table /\ Ahead(items[i]) >= offset
      <4>1. Ahead(items[i]) = offset + i - 1 /\ offset \in Nat
        BY <1>2 DEF TypeOK
      <4> QED
        BY <1>2, <4>1
    <3>2. \A i \in 1..n : items[i] \in Rest
      BY <3>1, Zenon DEF Rest
    <3> QED
      BY <1>2, <3>2
  <2>3. \A i, j \in 1..n : i < j => items[i] # items[j]
    BY <1>2 DEF TypeOK
  <2>4. \A x \in Rest : \E i \in 1..n : items[i] = x
    BY <1>1, <2>1, <2>2, <2>3, Pigeonhole
  <2>5. QED
    BY <1>4, <2>4 DEF Rest
<1>5. QED
  BY <1>2, <1>3, <1>4

\* What the API may answer with.
LEMMA AnswerFacts ==
  ASSUME TypeOK, Api, NEW items \in Answers
  PROVE  /\ \E n \in Nat : items \in [1..n -> Row]
         /\ honest => items \in Served
<1>1. ASSUME items \in Served PROVE \E n \in Nat : items \in [1..n -> Row]
  <2>1. Len(items) \in Nat /\ items \in [1..Len(items) -> table]
    BY <1>1, HonestPage
  <2> QED
    BY <2>1 DEF TypeOK
<1>2. QED
  BY <1>1 DEF Answers

\* The items of a page are taken.
Takes(items) ==
  /\ outcome = "open"
  /\ requests' = requests + 1
  /\ bytes' = bytes + PageBytes(items) /\ bytes' <= MaxBytes
  /\ Len(items) <= PageSize
  /\ AcceptedTo(rows \o items, Len(rows \o items))
  /\ Accept(items)
  /\ UNCHANGED <<limits, apiVars>>

\* It ends with a failure.
Ends(o) ==
  /\ outcome = "open"
  /\ requests' = requests + 1 /\ bytes' \in Nat
  /\ outcome' = o /\ UNCHANGED <<rows, offset>>
  /\ UNCHANGED <<limits, apiVars>>

LEMMA RequestCases ==
  ASSUME IInv, Request
  PROVE  \/ \E items \in Answers : Takes(items)
         \/ Ends("failed")
         \/ \E items \in Answers :
              Ends("too large") /\ bytes' = bytes + PageBytes(items) /\ bytes' > MaxBytes
         \/ (~honest \/ \E items \in Served : Len(items) > PageSize) /\ Ends("invalid")
         \/ \E items \in Answers : \E i \in Len(rows) + 1..Len(rows \o items) :
              /\ AcceptedTo(rows \o items, i - 1) /\ Refused(rows \o items, i)
              /\ Ends(IF Invalid(rows \o items, i) THEN "invalid" ELSE "too many rows")
<1>1. /\ outcome = "open" /\ requests' = requests + 1
      /\ UNCHANGED <<limits, apiVars>> /\ bytes \in Nat
  BY DEF Request, IInv, TypeOK
<1>2. ASSUME NEW items \in Answers
      PROVE  bytes + PageBytes(items) \in Nat
  <2>1. Len(items) \in Nat
    BY AnswerFacts DEF IInv
  <2> QED
    BY <1>1, <2>1 DEF PageBytes
<1>3. CASE \E items \in Answers : bytes' = bytes + PageBytes(items) /\ Examine(items)
  <2>1. PICK items \in Answers : bytes' = bytes + PageBytes(items) /\ Examine(items)
    BY <1>3
  <2>2. bytes' \in Nat
    BY <1>2, <2>1
  <2>3. CASE bytes' > MaxBytes
    BY <1>1, <2>1, <2>2, <2>3 DEF Examine, Stop, Ends
  <2>4. CASE ~(bytes' > MaxBytes) /\ Len(items) > PageSize
    BY <1>1, <2>1, <2>2, <2>4, AnswerFacts DEF Examine, Stop, Ends, IInv
  <2>5. CASE ~(bytes' > MaxBytes) /\ ~(Len(items) > PageSize)
    <3>1. bytes' <= MaxBytes /\ Len(items) <= PageSize
      <4>1. Len(items) \in Nat
        BY AnswerFacts DEF IInv
      <4> QED
        BY <2>2, <2>5, <4>1, LimitFacts DEF IInv
    <3>2. CASE AcceptedTo(rows \o items, Len(rows \o items)) /\ Accept(items)
      BY <1>1, <2>1, <3>1, <3>2 DEF Takes
    <3>3. CASE \E i \in Len(rows) + 1..Len(rows \o items) :
                 /\ AcceptedTo(rows \o items, i - 1) /\ Refused(rows \o items, i)
                 /\ Stop(IF Invalid(rows \o items, i) THEN "invalid" ELSE "too many rows")
      BY <1>1, <2>2, <3>3 DEF Stop, Ends
    <3> QED
      BY <2>1, <2>5, <3>2, <3>3 DEF Examine
  <2> QED
    BY <2>3, <2>4, <2>5
<1>4. CASE UNCHANGED bytes /\ Stop("failed")
  BY <1>1, <1>4 DEF Stop, Ends
<1>5. CASE ~honest /\ UNCHANGED bytes /\ Stop("invalid")
  BY <1>1, <1>5 DEF Stop, Ends
<1>6. QED
  BY <1>3, <1>4, <1>5 DEF Request

\* What is taken is joined to the rows; a short page is the last.
LEMMA TakesFacts ==
  ASSUME IInv, NEW items \in Answers, Takes(items)
  PROVE  /\ items \in Seq(Row) /\ Len(items) \in Nat
         /\ rows' = rows \o items /\ rows' \in Seq(Row)
         /\ Len(rows') = Len(rows) + Len(items) /\ Len(rows) = offset
         /\ \A i \in 1..Len(rows) : rows'[i] = rows[i]
         /\ \A i \in 1..Len(items) : rows'[offset + i] = items[i]
         /\ \A i \in offset + 1..Len(rows') : i - offset \in 1..Len(items)
         /\ UNCHANGED <<limits, honest, table, lasting, ever, moves>>
         /\ UNCHANGED <<PageSize, MaxPages, MaxRows, MaxBytes>>
         /\ \/ Len(items) < PageSize /\ outcome' = "returned" /\ offset' = offset
            \/ /\ Len(items) = PageSize /\ offset' = offset + PageSize
               /\ \/ outcome' = "too many pages" /\ requests' = MaxPages
                  \/ outcome' = "open" /\ requests' # MaxPages
<1>1. PICK n \in Nat : items \in [1..n -> Row]
  BY AnswerFacts DEF IInv
<1>2. /\ rows \in Seq(Row) /\ outcome = "open" /\ Len(rows) = offset /\ offset \in Nat
      /\ PageSize \in Nat
  BY LimitFacts DEF IInv, TypeOK, Takes
<1>3. rows' = rows \o items
  BY DEF Takes, Accept
<1>4. UNCHANGED <<limits, honest, table, lasting, ever, moves>>
  BY DEF Takes, apiVars
<1>5. UNCHANGED <<PageSize, MaxPages, MaxRows, MaxBytes>>
  BY <1>4 DEF PageSize, MaxPages, MaxRows, MaxBytes
<1>6. /\ items \in Seq(Row) /\ Len(items) = n
      /\ rows' \in Seq(Row) /\ Len(rows') = Len(rows) + n
      /\ \A i \in 1..Len(rows) : rows'[i] = rows[i]
      /\ \A i \in 1..n : rows'[Len(rows) + i] = items[i]
  BY <1>1, <1>2, <1>3, Joined
<1>7. \/ Len(items) < PageSize /\ outcome' = "returned" /\ offset' = offset
      \/ /\ Len(items) = PageSize /\ offset' = offset + PageSize
         /\ \/ outcome' = "too many pages" /\ requests' = MaxPages
            \/ outcome' = "open" /\ requests' # MaxPages
  <2>1. CASE IsLast(items)
    BY <2>1 DEF Takes, Accept, IsLast
  <2>2. CASE ~IsLast(items)
    <3>1. Len(items) = PageSize
      BY <1>2, <1>6, <2>2 DEF Takes, IsLast
    <3> QED
      BY <2>2, <3>1 DEF Takes, Accept, Advanced
  <2> QED
    BY <2>1, <2>2
<1>8. \A i \in offset + 1..Len(rows') : i - offset \in 1..Len(items)
  BY <1>2, <1>6
<1>9. QED
  BY <1>2, <1>3, <1>4, <1>5, <1>6, <1>7, <1>8

LEMMA TakesKeepsTypes ==
  ASSUME IInv, NEW items \in Answers, Takes(items)
  PROVE  TypeOK' /\ Api' /\ PagesInv'
<1>1. /\ PageSize \in Nat \ {0} /\ MaxPages \in Nat \ {0}
      /\ offset \in Nat /\ requests \in Nat /\ requests < MaxPages
      /\ Len(rows) = offset /\ offset = PageSize * requests
      /\ requests' = requests + 1
  BY LimitFacts DEF IInv, TypeOK, PagesInv, Takes
<1>2. PageSize * requests' = PageSize * requests + PageSize /\ PageSize * requests \in Nat
  BY <1>1
<1>3. TypeOK'
  <2>1. bytes' \in Nat
    <3>1. Len(items) \in Nat
      BY TakesFacts
    <3> QED
      BY <3>1 DEF IInv, TypeOK, Takes, PageBytes
  <2>2. offset' \in Nat /\ offset' <= PageSize * requests' /\ requests' \in 0..MaxPages
    <3>1. offset' \in {offset, offset + PageSize}
      BY TakesFacts
    <3> QED
      BY <1>1, <1>2, <3>1
  <2>3. outcome' \in Outcome
    BY TakesFacts DEF Outcome
  <2>4. outcome' = "open" => offset' = Len(rows') /\ requests' < MaxPages
    BY <1>1, TakesFacts
  <2> QED
    BY <2>1, <2>2, <2>3, <2>4, TakesFacts DEF IInv, TypeOK
<1>4. Api'
  BY TakesFacts DEF IInv, Api, Unique
<1>5. PagesInv'
  <2>1. outcome' \in {"open", "too many pages"} => Len(rows') = PageSize * requests'
    BY <1>1, <1>2, TakesFacts
  <2>2. outcome' = "too many pages" => requests' = MaxPages
    BY TakesFacts
  <2>3. outcome' = "open" => bytes' = Len(rows') + requests'
    <3>1. /\ bytes = Len(rows) + requests /\ bytes' = bytes + PageBytes(items)
          /\ Len(items) \in Nat /\ Len(rows) \in Nat /\ Len(rows') = Len(rows) + Len(items)
      BY <1>1, TakesFacts DEF IInv, PagesInv, Takes
    <3> QED
      BY <1>1, <3>1 DEF PageBytes
  <2> QED
    BY <2>1, <2>2, <2>3, TakesFacts DEF PagesInv
<1>6. QED
  BY <1>3, <1>4, <1>5

LEMMA TakesKeepsRows ==
  ASSUME IInv, NEW items \in Answers, Takes(items)
  PROVE  RowsInv'
<1>1. /\ rows' \in Seq(Row) /\ rows' = rows \o items /\ rows \in Seq(Row)
      /\ Len(rows) \in Nat /\ Len(items) \in Nat /\ Len(rows') = Len(rows) + Len(items)
  BY TakesFacts DEF IInv, TypeOK
<1>2. \A i \in Len(rows) + 1..Len(rows') : ~Invalid(rows', i) /\ ~(i > MaxRows)
  BY <1>1 DEF Takes, AcceptedTo, Refused
<1>3. Len(rows) <= Len(rows') /\ \A i \in 1..Len(rows) : rows'[i] = rows[i]
  <2>1. Len(rows) <= Len(rows')
    BY <1>1
  <2> QED
    BY <2>1, TakesFacts
<1>4. Sorted(rows')
  <2>1. \A i, j \in 1..Len(rows) :
          i < j => Before(rows'[i], rows'[j]) /\ rows'[i].id # rows'[j].id
    BY <1>3 DEF IInv, RowsInv, Sorted
  <2> QED
    BY <1>1, <1>2, <1>3, <2>1, ChecksSort
<1>5. ASSUME NEW i \in 1..Len(rows') PROVE rows'[i].org = Organization
  <2>1. CASE i \in 1..Len(rows)
    BY <1>3, <2>1 DEF IInv, RowsInv
  <2>2. CASE i \in Len(rows) + 1..Len(rows')
    BY <1>2, <2>2 DEF Invalid
  <2> QED
    BY <1>1, <2>1, <2>2
<1>6. Len(rows') <= MaxRows
  <2>1. Len(rows) <= MaxRows
    BY DEF IInv, RowsInv, Takes
  <2>2. CASE Len(rows') = Len(rows)
    BY <2>1, <2>2
  <2>3. CASE Len(rows') # Len(rows)
    <3>1. Len(rows') \in Len(rows) + 1..Len(rows')
      BY <1>1, <1>3, <2>3
    <3>2. ~(Len(rows') > MaxRows)
      BY <1>2, <3>1
    <3>3. Len(rows') \in Nat /\ MaxRows \in Nat
      BY <1>1, LimitFacts DEF IInv
    <3> QED
      BY <3>2, <3>3
  <2> QED
    BY <2>2, <2>3
<1>7. bytes' <= MaxBytes
  BY DEF Takes
<1>8. QED
  BY <1>4, <1>5, <1>6, <1>7, TakesFacts DEF RowsInv, Sorted

\* The rows taken before r, if they are still there, put it at offset or behind.
LEMMA BehindTaken ==
  ASSUME IInv, honest, ever = table, outcome = "open", NEW r \in table,
         \A i \in 1..Len(rows) : Before(rows[i], r)
  PROVE  Ahead(r) >= offset
<1>1. rows \in [1..offset -> table] /\ offset \in Nat /\ Len(rows) = offset
  BY DEF IInv, TypeOK, HonestInv
<1>2. \A i, j \in 1..offset : i < j => rows[i] # rows[j]
  BY <1>1 DEF IInv, RowsInv, Sorted
<1>3. offset <= Ahead(r)
  BY <1>1, <1>2, PositionCounts DEF IInv
<1>4. QED
  BY <1>1, <1>3, AheadIsPosition DEF IInv

\* A row behind offset is on the page, or behind every row of it.
LEMMA BehindPage ==
  ASSUME IInv, honest, NEW items \in Served, NEW r \in table, Ahead(r) >= offset
  PROVE  \/ \E i \in 1..Len(items) : items[i] = r
         \/ \A i \in 1..Len(items) : Before(items[i], r)
<1>1. SUFFICES ASSUME NEW i \in 1..Len(items), ~Before(items[i], r)
               PROVE  \E j \in 1..Len(items) : items[j] = r
  OBVIOUS
<1>2. /\ items[i] \in table /\ Ahead(items[i]) = offset + i - 1
      /\ Ahead(r) \in Nat /\ offset \in Nat /\ Len(items) \in Nat
  BY HonestPage, AheadIsPosition DEF IInv, TypeOK
<1>3. Ahead(r) <= Ahead(items[i])
  <2>1. ~(Ahead(items[i]) < Ahead(r))
    BY <1>1, <1>2, PositionDecides DEF IInv
  <2>2. Ahead(items[i]) \in Nat
    BY <1>2, AheadIsPosition DEF IInv
  <2> QED
    BY <1>2, <2>1, <2>2
<1>4. PICK j \in 1..Len(items) : Ahead(r) = offset + j - 1
  <2>1. Ahead(r) - offset + 1 \in 1..Len(items)
    BY <1>2, <1>3
  <2>2. Ahead(r) = offset + (Ahead(r) - offset + 1) - 1
    BY <1>2
  <2> QED
    BY <2>1, <2>2
<1>5. items[j] \in table /\ Ahead(items[j]) = Ahead(r)
  BY <1>4, HonestPage DEF IInv
<1>6. QED
  BY <1>5, PositionDecides DEF IInv

LEMMA TakesKeepsHonest ==
  ASSUME IInv, NEW items \in Answers, Takes(items)
  PROVE  HonestInv'
<1> SUFFICES ASSUME honest
             PROVE  /\ \A i \in 1..Len(rows') : rows'[i] \in ever'
                    /\ NothingSkipped' /\ InPlace'
  BY TakesFacts DEF HonestInv
<1>1. /\ items \in Served /\ Len(items) \in Nat
      /\ \A i \in 1..Len(items) : items[i] \in table /\ Ahead(items[i]) = offset + i - 1
  BY AnswerFacts, HonestPage DEF IInv
<1>2. /\ outcome = "open" /\ offset \in Nat /\ Len(rows) = offset
      /\ Len(rows') = offset + Len(items)
      /\ \A i \in 1..offset : rows'[i] = rows[i]
      /\ \A i \in 1..Len(items) : rows'[offset + i] = items[i]
      /\ UNCHANGED <<honest, table, lasting, ever, moves>>
  BY TakesFacts DEF IInv, TypeOK, Takes
\* A row was there or is of the page.
<1>3. ASSUME NEW i \in 1..Len(rows')
      PROVE  \/ i \in 1..offset /\ rows'[i] = rows[i]
             \/ /\ i - offset \in 1..Len(items)
                /\ rows'[i] = items[i - offset] /\ rows'[i] \in table
                /\ Ahead(rows'[i]) = i - 1
  <2>1. CASE i \in 1..offset
    BY <1>2, <2>1
  <2>2. CASE i \notin 1..offset
    <3>1. i - offset \in 1..Len(items) /\ i = offset + (i - offset)
      BY <1>1, <1>2, <2>2
    <3>2. rows'[i] = items[i - offset]
      BY <1>2, <3>1
    <3>3. items[i - offset] \in table /\ Ahead(items[i - offset]) = offset + (i - offset) - 1
      BY <1>1, <3>1
    <3> QED
      BY <1>2, <3>1, <3>2, <3>3
  <2> QED
    BY <2>1, <2>2
<1>4. \A i \in 1..Len(rows') : rows'[i] \in ever'
  BY <1>2, <1>3 DEF IInv, HonestInv, TypeOK
<1>5. NothingSkipped'
  <2> SUFFICES ASSUME ever = table, NEW r \in lasting
               PROVE  /\ outcome' = "open" => \/ Taken(r)'
                                              \/ \A i \in 1..Len(rows') : Before(rows'[i], r)
                      /\ outcome' = "returned" => Taken(r)'
    BY <1>2 DEF NothingSkipped
  <2>1. r \in table
    BY DEF IInv, TypeOK
  <2>2. ASSUME NEW i \in 1..Len(items), items[i] = r PROVE Taken(r)'
    <3>1. offset + i \in 1..Len(rows')
      BY <1>1, <1>2
    <3> QED
      BY <1>2, <2>2, <3>1 DEF Taken
  <2>3. CASE Taken(r)
    <3>1. 1..offset \subseteq 1..Len(rows')
      BY <1>1, <1>2
    <3> QED
      BY <1>2, <2>3, <3>1 DEF Taken
  <2>4. CASE ~Taken(r)
    <3>1. \A i \in 1..Len(rows) : Before(rows[i], r)
      BY <1>2, <2>4 DEF IInv, HonestInv, NothingSkipped
    <3>2. Ahead(r) >= offset
      BY <1>2, <2>1, <3>1, BehindTaken
    <3>3. \/ \E i \in 1..Len(items) : items[i] = r
          \/ \A i \in 1..Len(items) : Before(items[i], r)
      BY <1>1, <2>1, <3>2, BehindPage
    <3>4. CASE \A i \in 1..Len(items) : Before(items[i], r)
      <4>1. \A i \in 1..Len(rows') : Before(rows'[i], r)
        BY <1>2, <1>3, <3>1, <3>4
      <4>2. outcome' = "returned" => \E i \in 1..Len(items) : items[i] = r
        <5>1. outcome' = "returned" => Len(items) < PageSize
          BY TakesFacts
        <5> QED
          BY <1>1, <2>1, <3>2, <5>1, HonestPage DEF IInv
      <4> QED
        BY <2>2, <4>1, <4>2
    <3> QED
      BY <2>2, <3>3, <3>4
  <2> QED
    BY <2>3, <2>4
<1>6. InPlace'
  <2>1. ASSUME moves = 0, NEW i \in 1..Len(rows')
        PROVE  rows'[i] \in table /\ Ahead(rows'[i]) = i - 1
    <3>1. CASE i \in 1..offset /\ rows'[i] = rows[i]
      BY <1>2, <2>1, <3>1 DEF IInv, HonestInv, InPlace
    <3> QED
      BY <1>3, <3>1
  <2>2. outcome' \in {"returned", "too many pages", "open"}
    BY TakesFacts
  <2>3. moves' = 0 => \A i \in 1..Len(rows') : rows'[i] \in table' /\ (Ahead(rows[i]))' = i - 1
    BY <1>2, <2>1 DEF Ahead, Before
  <2> QED
    BY <2>2, <2>3 DEF InPlace
<1>7. QED
  BY <1>4, <1>5, <1>6

\* An honest page of rows that do not move continues the rows in their order, and
\* there are at least as many in all.
LEMMA HonestPageContinues ==
  ASSUME IInv, outcome = "open", honest, moves = 0, NEW items \in Served
  PROVE  LET all == rows \o items IN
         /\ all \in Seq(Row) /\ Len(all) = Len(rows) + Len(items)
         /\ \A j \in 1..Len(all) : all[j] \in table
         /\ \A j, k \in 1..Len(all) : j < k => Before(all[j], all[k]) /\ all[j].id # all[k].id
         /\ Len(all) <= Cardinality(table) /\ Cardinality(table) \in Nat
<1> DEFINE all == rows \o items
<1>1. /\ rows \in Seq(Row) /\ Len(rows) = offset /\ offset \in Nat /\ MaxRows \in Nat
      /\ table \subseteq Row /\ table \subseteq Held /\ table \subseteq ever
  BY LimitFacts DEF IInv, TypeOK, Api
<1>2. /\ Len(items) \in Nat /\ items \in [1..Len(items) -> table]
      /\ \A j \in 1..Len(items) : Ahead(items[j]) = offset + j - 1
  BY HonestPage DEF IInv
<1>3. /\ all \in Seq(Row) /\ Len(all) = offset + Len(items)
      /\ \A j \in 1..offset : all[j] = rows[j]
      /\ \A j \in 1..Len(items) : all[offset + j] = items[j]
  <2>1. items \in [1..Len(items) -> Row]
    BY <1>1, <1>2
  <2> QED
    BY <1>1, <1>2, <2>1, Joined
<1> HIDE DEF all
<1>4. ASSUME NEW j \in 1..Len(all) PROVE all[j] \in table /\ Ahead(all[j]) = j - 1
  <2>1. CASE j \in 1..offset
    BY <1>1, <1>3, <2>1 DEF IInv, HonestInv, InPlace
  <2>2. CASE j \notin 1..offset
    <3>1. j - offset \in 1..Len(items) /\ j = offset + (j - offset)
      BY <1>1, <1>2, <1>3, <2>2
    <3>2. all[j] = items[j - offset]
      BY <1>3, <3>1
    <3>3. items[j - offset] \in table /\ Ahead(items[j - offset]) = offset + (j - offset) - 1
      BY <1>2, <3>1
    <3> QED
      BY <1>1, <3>1, <3>2, <3>3
  <2> QED
    BY <2>1, <2>2
<1>5. ASSUME NEW j \in 1..Len(all), NEW k \in 1..Len(all), j < k
      PROVE  Before(all[j], all[k]) /\ all[j] # all[k] /\ all[j].id # all[k].id
  <2>1. all[j] \in table /\ all[k] \in table /\ Ahead(all[j]) < Ahead(all[k])
    BY <1>4, <1>5
  <2>2. Ahead(all[j]) \in Nat
    BY <2>1, AheadIsPosition DEF IInv
  <2>3. all[j] # all[k]
    BY <2>1, <2>2
  <2>4. Before(all[j], all[k])
    BY <2>1, PositionDecides DEF IInv
  <2> QED
    BY <1>1, <2>1, <2>3, <2>4 DEF IInv, Api, Unique
<1>6. Len(all) <= Cardinality(table) /\ Cardinality(table) \in Nat
  <2>1. all \in [1..Len(all) -> table] /\ Len(all) \in Nat /\ IsFiniteSet(table)
    BY <1>3, <1>4 DEF IInv, Api
  <2> QED
    BY <1>5, <2>1, Pigeonhole, FS_CardinalityType
<1>7. QED
  BY <1>1, <1>3, <1>4, <1>5, <1>6 DEF all

\* So it passes every check, and has too many rows only if there are too many.
LEMMA HonestPagePasses ==
  ASSUME IInv, outcome = "open", honest, moves = 0, NEW items \in Served,
         NEW i \in Len(rows) + 1..Len(rows \o items)
  PROVE  /\ ~Invalid(rows \o items, i)
         /\ i > MaxRows => Cardinality(table) > MaxRows
<1> DEFINE all == rows \o items
<1>1. /\ Len(rows) \in Nat /\ MaxRows \in Nat /\ table \subseteq Held
  BY LimitFacts DEF IInv, TypeOK, Api
<1>2. /\ all \in Seq(Row)
      /\ \A j \in 1..Len(all) : all[j] \in table
      /\ \A j, k \in 1..Len(all) : j < k => Before(all[j], all[k]) /\ all[j].id # all[k].id
      /\ Len(all) <= Cardinality(table) /\ Cardinality(table) \in Nat
  BY HonestPageContinues
<1>3. i \in 1..Len(all)
  BY <1>1 DEF all
<1> HIDE DEF all
<1>4. ~Invalid(all, i)
  <2>1. all[i].org = Organization
    BY <1>1, <1>2, <1>3, RowFacts
  <2>2. \A j \in 1..i - 1 : all[j].id # all[i].id
    BY <1>2, <1>3
  <2>3. i > 1 => Before(all[i - 1], all[i])
    BY <1>2, <1>3
  <2> QED
    BY <2>1, <2>2, <2>3 DEF Invalid
<1>5. i > MaxRows => Cardinality(table) > MaxRows
  BY <1>1, <1>2, <1>3
<1>6. QED
  BY <1>4, <1>5 DEF all

\* And it is too large only if the rows and the pages there are take too much.
LEMMA HonestPageFits ==
  ASSUME IInv, outcome = "open", honest, moves = 0, NEW items \in Served,
         bytes + PageBytes(items) > MaxBytes
  PROVE  Cardinality(table) + (requests + 1) > MaxBytes
<1>1. Len(rows \o items) = Len(rows) + Len(items) /\ Len(rows \o items) <= Cardinality(table)
      /\ Cardinality(table) \in Nat
  BY HonestPageContinues
<1>2. /\ Len(items) \in Nat /\ Len(rows) \in Nat /\ requests \in Nat /\ MaxBytes \in Nat
      /\ bytes = Len(rows) + requests
  BY HonestPage, LimitFacts DEF IInv, TypeOK, PagesInv
<1>3. bytes + PageBytes(items) = Len(rows) + Len(items) + (requests + 1)
  BY <1>2 DEF PageBytes
<1>4. QED
  BY <1>1, <1>2, <1>3

\* One page more.
LEMMA OneMore ==
  ASSUME NEW p \in Nat, NEW m \in Nat, NEW n \in 0..m, n < m,
         NEW k \in Nat, k <= p * n
  PROVE  n + 1 \in 0..m /\ k <= p * (n + 1)
<1>1. p * (n + 1) = p * n + p /\ p * n \in Nat
  OBVIOUS
<1>2. QED
  BY <1>1

LEMMA EndsKeeps ==
  ASSUME IInv, NEW o \in {"failed", "invalid", "too large", "too many rows"}, Ends(o),
         honest /\ moves = 0 =>
           /\ o # "invalid"
           /\ o = "too many rows" => Cardinality(table) > MaxRows
           /\ o = "too large" => Cardinality(table) + requests' > MaxBytes
  PROVE  IInv'
<1>1. /\ outcome = "open" /\ outcome' = o /\ requests' = requests + 1 /\ bytes' \in Nat
      /\ UNCHANGED <<limits, honest, table, lasting, ever, moves, rows, offset>>
  BY DEF Ends, apiVars
<1>2. UNCHANGED <<PageSize, MaxPages, MaxRows, MaxBytes>>
  BY <1>1 DEF PageSize, MaxPages, MaxRows, MaxBytes
<1>3. PageSize \in Nat /\ MaxPages \in Nat
  BY LimitFacts DEF IInv
<1>4. TypeOK'
  <2>1. requests \in 0..MaxPages /\ requests < MaxPages /\ requests' = requests + 1
    BY DEF IInv, TypeOK, Ends
  <2>2. offset \in Nat /\ offset <= PageSize * requests
    BY DEF IInv, TypeOK
  <2>3. requests + 1 \in 0..MaxPages /\ offset <= PageSize * (requests + 1)
    BY <1>3, <2>1, <2>2, OneMore
  <2>4. offset' \in Nat /\ offset' <= PageSize' * requests' /\ requests' \in 0..MaxPages'
    BY <1>1, <1>2, <2>2, <2>3
  <2> QED
    BY <1>1, <2>4 DEF IInv, TypeOK, Outcome
<1>5. Api'
  BY <1>1 DEF IInv, Api, Unique
<1>6. RowsInv' /\ PagesInv'
  BY <1>1 DEF IInv, RowsInv, PagesInv, Sorted
<1>7. HonestInv'
  <2>1. NothingSkipped'
    BY <1>1 DEF NothingSkipped
  <2>2. honest => InPlace'
    BY <1>1, <1>2 DEF IInv, HonestInv, InPlace, Ahead, Before
  <2> QED
    BY <1>1, <2>1, <2>2 DEF IInv, HonestInv
<1>8. QED
  BY <1>4, <1>5, <1>6, <1>7 DEF IInv

LEMMA RequestKeeps ==
  ASSUME IInv, Request
  PROVE  IInv'
<1>1. ASSUME NEW items \in Answers, Takes(items) PROVE IInv'
  BY <1>1, TakesKeepsTypes, TakesKeepsRows, TakesKeepsHonest DEF IInv
<1>2. ASSUME \/ Ends("failed")
             \/ /\ Ends("too large")
                /\ \E items \in Answers :
                     bytes' = bytes + PageBytes(items) /\ bytes' > MaxBytes
      PROVE  IInv'
  <2>1. CASE Ends("failed")
    BY <2>1, EndsKeeps
  <2>2. CASE ~Ends("failed")
    <3>1. PICK items \in Answers : bytes' = bytes + PageBytes(items) /\ bytes' > MaxBytes
      BY <1>2, <2>2
    <3>2. Ends("too large") /\ outcome = "open" /\ requests' = requests + 1
      BY <1>2, <2>2 DEF Ends
    <3>3. honest /\ moves = 0 => Cardinality(table) + requests' > MaxBytes
      BY <3>1, <3>2, AnswerFacts, HonestPageFits DEF IInv
    <3> QED
      BY <3>2, <3>3, EndsKeeps
  <2> QED
    BY <2>1, <2>2
<1>3. ASSUME ~honest \/ \E items \in Served : Len(items) > PageSize, Ends("invalid")
      PROVE  IInv'
  <2>1. ~honest
    <3>1. \A items \in Served : Len(items) \in Nat /\ Len(items) <= PageSize
      BY HonestPage DEF IInv
    <3> QED
      BY <1>3, <3>1, LimitFacts DEF IInv
  <2> QED
    BY <1>3, <2>1, EndsKeeps
<1>4. ASSUME NEW items \in Answers, NEW i \in Len(rows) + 1..Len(rows \o items),
             Refused(rows \o items, i),
             Ends(IF Invalid(rows \o items, i) THEN "invalid" ELSE "too many rows")
      PROVE  IInv'
  <2>1. honest /\ moves = 0 =>
          ~Invalid(rows \o items, i) /\ (i > MaxRows => Cardinality(table) > MaxRows)
    BY <1>4, AnswerFacts, HonestPagePasses DEF IInv, Ends
  <2>2. CASE Invalid(rows \o items, i)
    <3>1. Ends("invalid") /\ ~(honest /\ moves = 0)
      BY <1>4, <2>1, <2>2
    <3> QED
      BY <3>1, EndsKeeps
  <2>3. CASE ~Invalid(rows \o items, i)
    <3>1. Ends("too many rows") /\ i > MaxRows
      BY <1>4, <2>3 DEF Refused
    <3> QED
      BY <2>1, <3>1, EndsKeeps
  <2> QED
    BY <2>2, <2>3
<1>5. QED
  BY <1>1, <1>2, <1>3, <1>4, RequestCases

LEMMA NextIInv ==
  ASSUME IInv, [Next]_vars
  PROVE  IInv'
<1>1. CASE UNCHANGED vars
  <2>1. /\ UNCHANGED <<limits, honest, table, lasting, ever, moves, rows, offset,
                       requests, bytes, outcome>>
        /\ UNCHANGED <<PageSize, MaxPages, MaxRows, MaxBytes>>
    BY <1>1 DEF vars, apiVars, loopVars, PageSize, MaxPages, MaxRows, MaxBytes
  <2>2. TypeOK' /\ Api' /\ RowsInv' /\ PagesInv'
    BY <2>1 DEF IInv, TypeOK, Api, Unique, RowsInv, Sorted, PagesInv
  <2>3. HonestInv'
    BY <2>1 DEF IInv, HonestInv, NothingSkipped, Taken, InPlace, Ahead, Before
  <2> QED
    BY <2>2, <2>3 DEF IInv
<1>2. QED
  BY <1>1, RequestKeeps, MoveKeeps DEF Next

-----------------------------------------------------------------------------
(* What the rows of an export are. *)

\* The invariant that the theorems below rest on: the loop keeps it at every
\* answer, and the API at every insertion and removal.
THEOREM PagingInvariance == Spec => []IInv
BY InitIInv, NextIInv, PTL DEF Spec

\* Every state of the loop and of the API is well-formed: the offset never runs
\* ahead of the pages requested and is the number of rows as long as it goes on.
THEOREM PagingTypeCorrect == Spec => []TypeOK
<1>1. IInv => TypeOK
  BY DEF IInv
<1>2. QED
  BY <1>1, PagingInvariance, PTL

\* Whatever the API answers, for any limits, what is returned is of the scope's
\* organization, strictly in order across pages, without duplicates and within
\* the limits on rows and bytes.
THEOREM RowsTheorem == Spec => []RowsAreSound
<1>1. IInv => RowsAreSound
  BY DEF IInv, RowsInv, Sorted, RowsAreSound
<1>2. QED
  BY <1>1, PagingInvariance, PTL

\* From an honest API, for any result set and page size, nothing is returned that
\* it never held, and nothing it held all along is missing unless a row was
\* removed meanwhile; a result set that does not move is returned exactly.
THEOREM NothingLostTheorem == Spec => []NothingLost
<1>1. IInv => NothingLost
  <2> SUFFICES ASSUME IInv, outcome = "returned", honest
               PROVE  /\ Returned \subseteq ever
                      /\ ever = table => lasting \subseteq Returned
                      /\ moves = 0 => Returned = table
    BY DEF NothingLost
  <2>1. Returned \subseteq ever
    BY DEF IInv, HonestInv, Returned
  <2>2. ASSUME ever = table PROVE lasting \subseteq Returned
    BY <2>2 DEF IInv, HonestInv, NothingSkipped, Taken, Returned
  <2>3. moves = 0 => lasting = table /\ ever = table
    BY DEF IInv, Api
  <2> QED
    BY <2>1, <2>2, <2>3
<1>2. QED
  BY <1>1, PagingInvariance, PTL

\* A result set that does not move is never called invalid, and is refused for
\* its size only if it is too large for the limits on rows, pages or bytes.
THEOREM RefusalTheorem == Spec => []RefusedOnlyIfTooBig
<1>1. IInv => RefusedOnlyIfTooBig
  <2> SUFFICES ASSUME IInv, honest, moves = 0
               PROVE  /\ outcome = "too many rows" => Cardinality(table) > MaxRows
                      /\ outcome = "too many pages" =>
                           Cardinality(table) >= PageSize * MaxPages
                      /\ outcome = "too large" => Cardinality(table) + requests > MaxBytes
                      /\ outcome # "invalid"
    BY DEF RefusedOnlyIfTooBig
  <2>1. InPlace
    BY DEF IInv, HonestInv
  <2>2. ASSUME outcome = "too many pages" PROVE Cardinality(table) >= PageSize * MaxPages
    <3>1. /\ rows \in [1..Len(rows) -> table] /\ Len(rows) \in Nat
          /\ \A i, j \in 1..Len(rows) : i < j => rows[i] # rows[j]
      <4>1. rows \in Seq(Row) /\ Sorted(rows)
        BY DEF IInv, TypeOK, RowsInv
      <4>2. \A i \in 1..Len(rows) : rows[i] \in table
        BY <2>1 DEF InPlace
      <4>3. \A i, j \in 1..Len(rows) : i < j => rows[i] # rows[j]
        BY <4>1 DEF Sorted
      <4> QED
        BY <4>1, <4>2, <4>3
    <3>2. Len(rows) <= Cardinality(table) /\ Cardinality(table) \in Nat
      BY <3>1, Pigeonhole, FS_CardinalityType DEF IInv, Api
    <3>3. Len(rows) = PageSize * MaxPages
      BY <2>2 DEF IInv, PagesInv
    <3> QED
      BY <3>1, <3>2, <3>3
  <2> QED
    BY <2>1, <2>2 DEF InPlace
<1>2. QED
  BY <1>1, PagingInvariance, PTL

-----------------------------------------------------------------------------
(* Cells, of any length. *)

\* What the loop has established when it ends.
Judged ==
  done => \/ Suspect /\ result = Quoted
          \/ ~Formula(value) /\ result = value
Scanned == CellTypeOK /\ Judged

\* A quoted cell is no formula: the apostrophe counts.
LEMMA QuotedIsNoFormula ==
  ASSUME value \in Seq(Character)
  PROVE  Quoted \in Seq(Character) /\ ~Formula(Quoted)
<1>1. /\ Quoted \in Seq(Character)
      /\ Len(Quoted) = Len(value) + 1
      /\ Quoted[1] = "apostrophe"
  BY DEF Quoted, Character
<1>2. ASSUME NEW i \in 1..Len(Quoted), Quoted[i] = "sign",
             \A j \in 1..i - 1 : Ignorable(Quoted[j])
      PROVE  FALSE
  <2>1. CASE i = 1
    BY <1>1, <1>2, <2>1
  <2>2. CASE i # 1
    <3>1. 1 \in 1..i - 1
      BY <1>1, <1>2, <2>2
    <3>2. Ignorable(Quoted[1])
      BY <1>2, <3>1
    <3> QED
      BY <1>1, <3>2 DEF Ignorable
  <2> QED
    BY <2>1, <2>2
<1> QED
  BY <1>1, <1>2 DEF Formula

\* The scan stops at the first character that counts, so that what follows it
\* decides nothing.
LEMMA ScanDecides ==
  ASSUME CellTypeOK, ~(index < Len(value) /\ Skipped(value[index + 1]))
  PROVE  Formula(value) <=> AtSign
<1>0. value \in Seq(Character) /\ index \in 0..Len(value) /\ Len(value) \in Nat
  BY DEF CellTypeOK
<1>1. ASSUME AtSign PROVE Formula(value)
  <2>1. index + 1 \in 1..Len(value) /\ value[index + 1] = "sign"
    BY <1>0, <1>1 DEF AtSign
  <2>2. \A j \in 1..(index + 1) - 1 : Ignorable(value[j])
    BY <1>0 DEF CellTypeOK, Skipped, Ignorable
  <2> QED
    BY <2>1, <2>2 DEF Formula
<1>2. ASSUME Formula(value) PROVE AtSign
  <2>1. PICK i \in 1..Len(value) :
          value[i] = "sign" /\ \A j \in 1..i - 1 : Ignorable(value[j])
    BY <1>2 DEF Formula
  <2>2. i > index
    <3>1. SUFFICES ASSUME i <= index PROVE FALSE
      BY <1>0, <2>1
    <3>2. Skipped(value[i])
      BY <1>0, <2>1, <3>1 DEF CellTypeOK
    <3> QED
      BY <2>1, <3>2 DEF Skipped
  <2>3. index < Len(value)
    BY <1>0, <2>1, <2>2
  <2>4. i = index + 1
    <3>1. SUFFICES ASSUME index + 1 \in 1..i - 1 PROVE FALSE
      BY <1>0, <2>1, <2>2
    <3>2. Skipped(value[index + 1])
      BY <2>1, <3>1 DEF Skipped, Ignorable
    <3> QED
      BY <2>3, <3>2
  <2> QED
    BY <2>1, <2>3, <2>4 DEF AtSign
<1> QED
  BY <1>1, <1>2

\* A cell that starts with a sign or a break is suspect.
LEMMA StartsSuspect ==
  ASSUME value \in Seq(Character), StartsWith
  PROVE  Suspect
<1>1. CASE value[1] = "break"
  BY <1>1 DEF StartsWith, Suspect
<1>2. CASE value[1] = "sign"
  <2>1. 1 \in 1..Len(value) /\ \A j \in 1..1 - 1 : Ignorable(value[j])
    BY DEF StartsWith
  <2> QED
    BY <1>2, <2>1 DEF Suspect, Formula
<1> QED
  BY <1>1, <1>2 DEF StartsWith

\* A round of the loop keeps what is established.
LEMMA RoundKeepsScanned == Scanned /\ [Protect]_cellVars => Scanned'
<1> SUFFICES ASSUME Scanned, [Protect]_cellVars PROVE Scanned'
  OBVIOUS
<1>0. CellTypeOK /\ Judged /\ value \in Seq(Character) /\ Len(value) \in Nat
  BY DEF Scanned, CellTypeOK
<1>1. CASE UNCHANGED cellVars
  BY <1>0, <1>1 DEF cellVars, Scanned, CellTypeOK, Judged, Suspect, Quoted, Formula
<1>2. CASE Protect /\ index = 0 /\ StartsWith
  <2>1. done' = TRUE /\ result' = Quoted /\ value' = value /\ index' = index
    BY <1>2 DEF Protect, Return
  <2>2. Suspect /\ Quoted \in Seq(Character)
    BY <1>0, <1>2, StartsSuspect, QuotedIsNoFormula
  <2>3. CellTypeOK'
    BY <1>0, <2>1, <2>2 DEF CellTypeOK
  <2>4. Suspect' /\ Quoted' = Quoted
    BY <2>1, <2>2 DEF Suspect, Formula, Quoted
  <2> QED
    BY <2>1, <2>3, <2>4 DEF Scanned, Judged
<1>3. CASE /\ Protect /\ ~(index = 0 /\ StartsWith)
           /\ index < Len(value) /\ Skipped(value[index + 1])
  <2>1. /\ index' = index + 1 /\ value' = value /\ result' = result
        /\ done' = done /\ ~done
    BY <1>3 DEF Protect
  <2>2. \A i \in 1..index' : Skipped(value[i])
    BY <1>0, <1>3, <2>1 DEF CellTypeOK
  <2>3. CellTypeOK'
    BY <1>0, <1>3, <2>1, <2>2 DEF CellTypeOK, Skipped
  <2> QED
    BY <2>1, <2>3 DEF Scanned, Judged
<1>4. CASE /\ Protect /\ ~(index = 0 /\ StartsWith)
           /\ ~(index < Len(value) /\ Skipped(value[index + 1]))
  <2>1. /\ done' = TRUE /\ value' = value /\ index' = index
        /\ result' = IF AtSign THEN Quoted ELSE value
    BY <1>4 DEF Protect, Return
  <2>2. Formula(value) <=> AtSign
    BY <1>0, <1>4, ScanDecides
  <2>3. CellTypeOK'
    BY <1>0, <2>1, QuotedIsNoFormula DEF CellTypeOK
  <2>4. Quoted' = Quoted /\ (Formula(value) <=> Formula(value)')
    BY <2>1 DEF Quoted, Formula
  <2>5. CASE AtSign
    BY <2>1, <2>2, <2>3, <2>4, <2>5 DEF Scanned, Judged, Suspect
  <2>6. CASE ~AtSign
    BY <2>1, <2>2, <2>3, <2>4, <2>6 DEF Scanned, Judged
  <2> QED
    BY <2>5, <2>6
<1> QED
  BY <1>1, <1>2, <1>3, <1>4 DEF Protect

LEMMA AlwaysScanned == CellSpec => []Scanned
<1>1. CellInit => Scanned
  <2> SUFFICES ASSUME CellInit PROVE Scanned
    OBVIOUS
  <2>1. value \in Seq(Character) /\ Len(value) \in Nat /\ index = 0 /\ result = value
    BY DEF CellInit
  <2>2. \A i \in 1..index : Skipped(value[i])
    BY <2>1
  <2>3. CellTypeOK
    <3>1. done \in BOOLEAN
      BY DEF CellInit
    <3>2. result \in Seq(Character) /\ index \in 0..Len(value)
      BY <2>1
    <3> QED
      BY <2>1, <2>2, <3>1, <3>2 DEF CellTypeOK
  <2>4. Judged
    BY DEF CellInit, Judged
  <2> QED
    BY <2>3, <2>4 DEF Scanned
<1> QED
  BY <1>1, RoundKeepsScanned, PTL DEF CellSpec

\* render_export() writes no cell that is read as a formula.
THEOREM NoFormulaTheorem == CellSpec => []NoFormulaWritten
<1>1. Scanned => NoFormulaWritten
  BY QuotedIsNoFormula DEF Scanned, CellTypeOK, Judged, NoFormulaWritten
<1> QED
  BY <1>1, AlwaysScanned, PTL

\* ... and leaves all other cells alone.
THEOREM UntouchedTheorem == CellSpec => []OthersUntouched
<1>1. Scanned => OthersUntouched
  BY DEF Scanned, Judged, OthersUntouched
<1> QED
  BY <1>1, AlwaysScanned, PTL

=============================================================================
