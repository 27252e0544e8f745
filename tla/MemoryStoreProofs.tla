------------------------- MODULE MemoryStoreProofs -------------------------
(***************************************************************************)
(* Proofs about MemoryStore, for any texts, requests and crashes: that     *)
(* what a mutation stages can always be saved and read back, that what is  *)
(* confirmed is on the disk for good, counting copies, that memory and     *)
(* every snapshot a crash can leave hold what clients asked for and were   *)
(* told, and that what clients are answered is what is stored.             *)
(***************************************************************************)
EXTENDS MemoryStore, FiniteSetTheorems, WellFoundedInduction, TLAPS

-----------------------------------------------------------------------------
(* The text index agrees with itself: an entry knows its position, and the   *)
(* map finds every entry under its text and nothing else.                    *)
Indexed(ix) ==
    /\ ix \in IndexType
    /\ \A k \in 1 .. Len(ix.entries) :
          /\ ix.entries[k].id = k - 1
          /\ ix.ids[ix.entries[k].text] = k - 1
    /\ \A t \in Text : ix.ids[t] # None =>
          /\ ix.ids[t] < Len(ix.entries)
          /\ ix.entries[ix.ids[t] + 1].text = t

Knows(ix, texts) == \A t \in Text : ix.ids[t] # None <=> t \in Texts(texts)

(* The stores, their labels and the index are of one mind, and fit. *)
StoreOK(m) ==
    /\ m \in StoreType
    /\ Len(m.rem) = Len(m.nra) /\ Len(m.texts) = Len(m.nra) /\ Len(m.nra) <= m.units
    /\ Indexed(m.index) /\ Knows(m.index, m.texts)

LEMMA NoneFacts ==
    /\ None \notin Nat /\ None \notin Client /\ None \notin Text
  BY MemoryStoreAssumption, QueriesAssumption

LEMMA EntryFacts ==
    ASSUME NEW ix, Indexed(ix)
    PROVE  /\ ix.entries \in Seq([id : Nat, text : Text]) /\ Len(ix.entries) \in Nat
           /\ ix.ids \in [Text -> Nat \cup {None}]
           /\ \A k \in 1 .. Len(ix.entries) :
                 /\ ix.entries[k] \in [id : Nat, text : Text]
                 /\ ix.entries[k].text \in Text
  <1> DEFINE e == ix.entries
  <1>1. /\ e \in Seq([id : Nat, text : Text])
        /\ ix.ids \in [Text -> Nat \cup {None}]
    BY DEF Indexed, IndexType
  <1> HIDE DEF e
  <1>2. Len(e) \in Nat /\ \A k \in 1 .. Len(e) : e[k] \in [id : Nat, text : Text]
    <2> DEFINE Entry == [id : Nat, text : Text]
    <2>1. e \in Seq(Entry)
      BY <1>1
    <2> HIDE DEF Entry
    <2>2. Len(e) \in Nat /\ \A k \in 1 .. Len(e) : e[k] \in Entry
      BY <2>1
    <2> QED BY <2>2 DEF Entry
  <1>3. \A k \in 1 .. Len(e) : e[k].text \in Text
    BY <1>2
  <1> QED BY <1>1, <1>2, <1>3 DEF e

(* A function on 1 .. n is a sequence of that length. *)
LEMMA AsSequence ==
    ASSUME NEW S, NEW n \in Nat, NEW f \in [1 .. n -> S]
    PROVE  f \in Seq(S) /\ Len(f) = n
  OBVIOUS

(* A text that is new gets the last entry. *)
LEMMA InsertIndexed ==
    ASSUME NEW ix, Indexed(ix), NEW t \in Text
    PROVE  /\ Indexed(IndexInsert(ix, t))
           /\ \A u \in Text : IndexInsert(ix, t).ids[u] # None <=> ix.ids[u] # None \/ u = t
  <1> DEFINE e == ix.entries
             d == ix.ids
             n == Len(e)
             x == [id |-> n, text |-> t]
             e2 == Append(e, x)
             d2 == [d EXCEPT ![t] = n]
             r == IndexInsert(ix, t)
  <1>1. CASE d[t] # None
    BY <1>1 DEF IndexInsert
  <1>2. CASE d[t] = None
    <2>1. r = [entries |-> e2, ids |-> d2]
      BY <1>2 DEF IndexInsert
    <2>2. /\ e \in Seq([id : Nat, text : Text]) /\ n \in Nat /\ d \in [Text -> Nat \cup {None}]
          /\ \A k \in 1 .. n : e[k] \in [id : Nat, text : Text] /\ e[k].text \in Text
          /\ \A k \in 1 .. n : e[k].id = k - 1 /\ d[e[k].text] = k - 1
          /\ \A u \in Text : d[u] # None => d[u] < n /\ e[d[u] + 1].text = u
      BY EntryFacts DEF Indexed
    <2>3. x \in [id : Nat, text : Text] /\ x.id = n /\ x.text = t
      BY <2>2
    <2> HIDE DEF e, d, n, x, r
    <2>4. /\ e2 \in Seq([id : Nat, text : Text]) /\ Len(e2) = n + 1
          /\ e2[n + 1] = x /\ \A k \in 1 .. n : e2[k] = e[k]
      BY <2>2, <2>3 DEF n
    <2>5. /\ d2 \in [Text -> Nat \cup {None}] /\ d2[t] = n
          /\ \A u \in Text : u # t => d2[u] = d[u]
      BY <2>2
    <2> HIDE DEF e2, d2
    <2>6. r.entries = e2 /\ r.ids = d2 /\ r \in IndexType
      BY <2>1, <2>4, <2>5 DEF IndexType
    <2>7. ASSUME NEW k \in 1 .. n + 1 PROVE e2[k].id = k - 1 /\ d2[e2[k].text] = k - 1
      <3>1. CASE k = n + 1
        <4>1. n = k - 1
          BY <3>1, <2>2
        <4> QED BY <3>1, <4>1, <2>3, <2>4, <2>5
      <3>2. CASE k # n + 1
        <4>1. k \in 1 .. n
          BY <3>2, <2>2
        <4>2. e[k].text \in Text /\ d[e[k].text] = k - 1 /\ k - 1 \in Nat
          BY <2>2, <4>1
        <4>3. e[k].text # t
          BY <4>2, <1>2, NoneFacts DEF d
        <4> QED BY <2>2, <2>4, <2>5, <4>1, <4>2, <4>3
      <3> QED BY <3>1, <3>2
    <2>8. ASSUME NEW u \in Text, d2[u] # None
          PROVE  d2[u] < n + 1 /\ e2[d2[u] + 1].text = u
      <3>1. CASE u = t
        BY <3>1, <2>2, <2>3, <2>4, <2>5
      <3>2. CASE u # t
        <4>1. d2[u] = d[u] /\ d[u] \in Nat /\ d[u] < n /\ e[d[u] + 1].text = u
          <5>1. d2[u] = d[u]
            BY <2>5, <3>2
          <5>2. d[u] \in Nat
            BY <2>2, <2>8, <5>1
          <5> QED BY <2>2, <2>8, <5>1, <5>2
        <4>2. d[u] + 1 \in 1 .. n
          BY <2>2, <4>1
        <4> QED BY <2>2, <2>4, <4>1, <4>2
      <3> QED BY <3>1, <3>2
    <2>9. Indexed(r)
      BY <2>4, <2>6, <2>7, <2>8 DEF Indexed
    <2>10. \A u \in Text : d2[u] # None <=> d[u] # None \/ u = t
      BY <2>2, <2>5, NoneFacts
    <2> QED BY <2>6, <2>9, <2>10 DEF r, d
  <1> QED BY <1>1, <1>2

(* Without an entry the ones behind it move up, and the map follows. *)
LEMMA RemoveIndexed ==
    ASSUME NEW ix, Indexed(ix), NEW t \in Text
    PROVE  /\ Indexed(IndexRemove(ix, t))
           /\ \A u \in Text : IndexRemove(ix, t).ids[u] # None <=> ix.ids[u] # None /\ u # t
  <1> DEFINE e == ix.entries
             d == ix.ids
             n == Len(e)
             p == d[t]
             rest == RemoveAt(e, p + 1)
             m == Len(rest)
             e2 == [k \in 1 .. m |-> [rest[k] EXCEPT !.id = k - 1]]
             d2 == [u \in Text |-> IF u = t THEN None
                                   ELSE IF d[u] = None THEN None
                                   ELSE IF d[u] > p THEN d[u] - 1
                                   ELSE d[u]]
             r == IndexRemove(ix, t)
  <1>1. CASE p = None
    BY <1>1 DEF IndexRemove
  <1>2. CASE p # None
    <2>1. r = [entries |-> e2, ids |-> d2]
      BY <1>2 DEF IndexRemove
    <2>2. /\ e \in Seq([id : Nat, text : Text]) /\ n \in Nat /\ d \in [Text -> Nat \cup {None}]
          /\ \A k \in 1 .. n : e[k] \in [id : Nat, text : Text] /\ e[k].text \in Text
          /\ \A k \in 1 .. n : e[k].id = k - 1 /\ d[e[k].text] = k - 1
          /\ \A u \in Text : d[u] # None => d[u] < n /\ e[d[u] + 1].text = u
      BY EntryFacts DEF Indexed
    <2>3. p \in Nat /\ p < n
      BY <1>2, <2>2
    <2> HIDE DEF e, d, n, p, r
    <2>4. /\ rest = [k \in 1 .. n - 1 |-> IF k < p + 1 THEN e[k] ELSE e[k + 1]]
          /\ n - 1 \in Nat
      BY <2>2, <2>3 DEF RemoveAt, n
    <2>5. ASSUME NEW k \in 1 .. n - 1
          PROVE  /\ k < p + 1 => k \in 1 .. n
                 /\ ~(k < p + 1) => k + 1 \in 1 .. n
                 /\ rest[k] = IF k < p + 1 THEN e[k] ELSE e[k + 1]
                 /\ rest[k] \in [id : Nat, text : Text]
      <3>1. /\ k < p + 1 => k \in 1 .. n
            /\ ~(k < p + 1) => k + 1 \in 1 .. n
        BY <2>2, <2>3
      <3>2. rest[k] = IF k < p + 1 THEN e[k] ELSE e[k + 1]
        BY <2>4
      <3> HIDE DEF rest
      <3> QED BY <2>2, <3>1, <3>2
    <2>6. m = n - 1
      <3>1. rest \in [1 .. n - 1 -> [id : Nat, text : Text]]
        <4> HIDE DEF rest
        <4> QED BY <2>4, <2>5
      <3> HIDE DEF rest
      <3> QED BY <2>4, <3>1, AsSequence
    <2> HIDE DEF rest, m
    <2>7. ASSUME NEW k \in 1 .. n - 1
          PROVE  /\ e2[k] \in [id : Nat, text : Text]
                 /\ e2[k].id = k - 1 /\ e2[k].text = rest[k].text
      <3>1. k - 1 \in Nat
        BY <2>4
      <3>2. e2[k] = [rest[k] EXCEPT !.id = k - 1]
        BY <2>6
      <3> QED BY <2>5, <3>1, <3>2
    <2>8. e2 \in Seq([id : Nat, text : Text]) /\ Len(e2) = n - 1
      <3>1. e2 \in [1 .. n - 1 -> [id : Nat, text : Text]]
        BY <2>6, <2>7
      <3> HIDE DEF e2
      <3> QED BY <2>4, <3>1, AsSequence
    <2>9. ASSUME NEW u \in Text
          PROVE  /\ d2[u] \in Nat \cup {None}
                 /\ d2[u] # None <=> d[u] # None /\ u # t
                 /\ d2[u] # None /\ d[u] > p => d2[u] = d[u] - 1
                 /\ d2[u] # None /\ ~(d[u] > p) => d2[u] = d[u]
      <3>1. CASE u = t \/ d[u] = None
        BY <3>1
      <3>2. CASE u # t /\ d[u] # None
        <4>1. d[u] \in Nat
          BY <2>2, <3>2
        <4>2. d[u] > p => d[u] - 1 \in Nat
          BY <2>3, <4>1
        <4> QED BY <3>2, <4>1, <4>2, NoneFacts
      <3> QED BY <3>1, <3>2
    <2>10. d2 \in [Text -> Nat \cup {None}]
      BY <2>9
    <2> HIDE DEF e2, d2
    <2>11. r.entries = e2 /\ r.ids = d2 /\ r \in IndexType
      BY <2>1, <2>8, <2>10 DEF IndexType
    <2>12. ASSUME NEW k \in 1 .. n - 1 PROVE e2[k].id = k - 1 /\ d2[e2[k].text] = k - 1
      <3> DEFINE u == e2[k].text
      <3>1. u \in Text /\ u = rest[k].text /\ k \in Nat
        BY <2>4, <2>7
      <3>2. CASE k < p + 1
        <4>1. k \in 1 .. n /\ u = e[k].text /\ d[u] = k - 1 /\ k - 1 \in Nat
          BY <2>2, <2>5, <3>1, <3>2
        <4>2. d[u] # None /\ d[u] # p /\ ~(d[u] > p)
          BY <2>3, <3>1, <3>2, <4>1, NoneFacts
        <4>3. u # t
          BY <4>2 DEF p
        <4> QED BY <2>7, <2>9, <3>1, <4>1, <4>2, <4>3
      <3>3. CASE ~(k < p + 1)
        <4>1. k + 1 \in 1 .. n /\ u = e[k + 1].text
          BY <2>5, <3>1, <3>3
        <4>2. d[u] = k
          BY <2>2, <3>1, <4>1
        <4>3. d[u] # None /\ d[u] # p /\ d[u] > p
          BY <2>3, <3>1, <3>3, <4>2, NoneFacts
        <4>4. u # t
          BY <4>3 DEF p
        <4> QED BY <2>7, <2>9, <3>1, <4>2, <4>3, <4>4
      <3> QED BY <3>2, <3>3
    <2>13. ASSUME NEW u \in Text, d2[u] # None
           PROVE  d2[u] < n - 1 /\ e2[d2[u] + 1].text = u
      <3>1. d[u] # None /\ u # t /\ d[u] \in Nat /\ d[u] < n /\ e[d[u] + 1].text = u
        <4>1. d[u] # None /\ u # t
          BY <2>9, <2>13
        <4>2. d[u] \in Nat
          BY <2>2, <4>1
        <4> QED BY <2>2, <4>1, <4>2
      <3>2. d[u] # p
        <4>1. e[p + 1].text = t
          BY <1>2, <2>2 DEF p
        <4> QED BY <3>1, <4>1
      <3>3. CASE d[u] > p
        <4>1. d2[u] = d[u] - 1 /\ d[u] \in 1 .. n - 1 /\ ~(d[u] < p + 1)
          <5>1. d2[u] = d[u] - 1
            BY <2>9, <2>13, <3>3
          <5> QED BY <2>2, <2>3, <3>1, <3>3, <5>1
        <4>2. e2[d[u]].text = e[d[u] + 1].text
          BY <2>5, <2>7, <4>1
        <4>3. d2[u] + 1 = d[u] /\ d2[u] < n - 1
          BY <2>2, <3>1, <4>1
        <4> QED BY <3>1, <4>2, <4>3
      <3>4. CASE d[u] < p
        <4>1. d2[u] = d[u] /\ d[u] + 1 \in 1 .. n - 1 /\ d[u] + 1 < p + 1 /\ d[u] < n - 1
          <5>1. ~(d[u] > p)
            BY <2>3, <3>1, <3>4
          <5>2. d2[u] = d[u]
            BY <2>9, <2>13, <5>1
          <5> QED BY <2>2, <2>3, <3>1, <3>4, <5>2
        <4>2. e2[d[u] + 1].text = e[d[u] + 1].text
          BY <2>5, <2>7, <4>1
        <4> QED BY <3>1, <4>1, <4>2
      <3> QED BY <2>3, <3>1, <3>2, <3>3, <3>4
    <2>14. Indexed(r)
      BY <2>8, <2>11, <2>12, <2>13 DEF Indexed
    <2> QED BY <2>9, <2>11, <2>14 DEF r, d
  <1> QED BY <1>1, <1>2
-----------------------------------------------------------------------------
(* A set of naturals has a least element. *)
LEMMA LeastOf ==
    ASSUME NEW P \in SUBSET Nat, P # {}
    PROVE  \E k \in P : \A n \in P : k <= n
  <1> DEFINE R == StrictSubsetOrdering(Nat)
             F == FiniteSubsetsOf(Nat)
             T == {0 .. k : k \in P}
  <1>1. IsWellFoundedOn(R, F)
    BY FS_StrictSubsetOrderingWellFounded
  <1>2. \A k \in P : 0 .. k \in F
    BY FS_Interval DEF FiniteSubsetsOf
  <1>3. T \subseteq F /\ T # {}
    BY <1>2
  <1> HIDE DEF R, F, T
  <1>4. PICK y \in T : \A z \in T : ~(<<z, y>> \in R)
    BY <1>1, <1>3, WFMin
  <1>5. PICK k \in P : y = 0 .. k
    BY DEF T
  <1>6. ASSUME NEW n \in P, n < k PROVE FALSE
    <2>1. 0 .. n \in T
      BY DEF T
    <2>2. /\ 0 .. n \in SUBSET Nat /\ 0 .. k \in SUBSET Nat
          /\ 0 .. n \subseteq 0 .. k /\ 0 .. n # 0 .. k
      <3>1. k \in 0 .. k /\ k \notin 0 .. n
        BY <1>6
      <3>2. 0 .. n \subseteq 0 .. k
        BY <1>6
      <3> QED BY <3>1, <3>2
    <2>3. <<0 .. n, 0 .. k>> \in R
      BY <2>2 DEF R, StrictSubsetOrdering
    <2> QED BY <1>4, <1>5, <2>1, <2>3
  <1>7. \A n \in P : k <= n
    BY <1>6
  <1> QED BY <1>7

(* What is left of a sequence without one element. *)
LEMMA RemoveFacts ==
    ASSUME NEW S, NEW q \in Seq(S), NEW k \in 1 .. Len(q)
    PROVE  /\ RemoveAt(q, k) \in Seq(S) /\ Len(RemoveAt(q, k)) = Len(q) - 1
           /\ \A n \in 1 .. Len(q) - 1 :
                 RemoveAt(q, k)[n] = IF n < k THEN q[n] ELSE q[n + 1]
  <1> DEFINE m == Len(q) - 1
             r == RemoveAt(q, k)
  <1>1. m \in Nat /\ r = [n \in 1 .. m |-> IF n < k THEN q[n] ELSE q[n + 1]]
    BY DEF RemoveAt
  <1>2. \A n \in 1 .. m : (IF n < k THEN q[n] ELSE q[n + 1]) \in S
    OBVIOUS
  <1> HIDE DEF m, r
  <1>3. r \in [1 .. m -> S]
    BY <1>1, <1>2
  <1>4. r \in Seq(S) /\ Len(r) = m
    BY <1>1, <1>3, AsSequence
  <1> QED BY <1>1, <1>4 DEF m, r

(* The first copy of a text is a position, and removing it leaves the set of *)
(* the other texts as it was.                                                *)
LEMMA FirstAtFacts ==
    ASSUME NEW q \in Seq(Text), NEW t \in Texts(q)
    PROVE  FirstAt(q, t) \in 1 .. Len(q) /\ q[FirstAt(q, t)] = t
  <1> DEFINE P == {k \in 1 .. Len(q) : q[k] = t}
  <1>1. P \in SUBSET Nat /\ P # {}
    BY DEF Texts
  <1>2. PICK k \in P : \A n \in P : k <= n
    BY <1>1, LeastOf
  <1>3. k \in 1 .. Len(q) /\ q[k] = t /\ \A n \in 1 .. k - 1 : q[n] # t
    <2>1. k \in 1 .. Len(q) /\ q[k] = t /\ Len(q) \in Nat
      BY <1>2
    <2>2. ASSUME NEW n \in 1 .. k - 1, q[n] = t PROVE FALSE
      <3>1. n \in 1 .. Len(q) /\ n < k
        BY <2>1
      <3>2. n \in P
        BY <2>2, <3>1
      <3> QED BY <1>2, <2>1, <3>1, <3>2
    <2> QED BY <2>1, <2>2
  <1> QED BY <1>3 DEF FirstAt

LEMMA RemoveTexts ==
    ASSUME NEW q \in Seq(Text), NEW t \in Texts(q)
    PROVE  LET r == RemoveAt(q, FirstAt(q, t))
           IN  /\ \A u \in Text : u # t => (u \in Texts(r) <=> u \in Texts(q))
               /\ Texts(r) \subseteq Texts(q)
  <1> DEFINE k == FirstAt(q, t)
             r == RemoveAt(q, k)
             n == Len(q)
  <1>1. k \in 1 .. n /\ q[k] = t /\ n \in Nat
    BY FirstAtFacts
  <1> HIDE DEF k
  <1>2. /\ Len(r) = n - 1
        /\ \A x \in 1 .. n - 1 : r[x] = IF x < k THEN q[x] ELSE q[x + 1]
    BY <1>1, RemoveFacts
  <1> HIDE DEF r, n
  <1>3. ASSUME NEW u \in Texts(r) PROVE u \in Texts(q)
    <2>1. PICK x \in 1 .. n - 1 : u = r[x]
      BY <1>2 DEF Texts
    <2>2. x \in 1 .. n /\ x + 1 \in 1 .. n
      BY <1>1
    <2> QED BY <1>2, <2>1, <2>2 DEF Texts, n
  <1>4. ASSUME NEW u \in Texts(q), u # t PROVE u \in Texts(r)
    <2>1. PICK y \in 1 .. n : u = q[y]
      BY DEF Texts, n
    <2>2. y # k
      BY <1>1, <1>4, <2>1
    <2>3. CASE y < k
      <3>1. y \in 1 .. n - 1
        BY <1>1, <2>3
      <3> QED BY <1>2, <2>1, <2>3, <3>1 DEF Texts
    <2>4. CASE y > k
      <3>1. y - 1 \in 1 .. n - 1 /\ ~(y - 1 < k) /\ y - 1 + 1 = y
        BY <1>1, <2>4
      <3>2. r[y - 1] = u
        BY <1>2, <2>1, <3>1
      <3> QED BY <1>2, <3>1, <3>2 DEF Texts
    <2> QED BY <1>1, <2>2, <2>3, <2>4
  <1> QED BY <1>3, <1>4 DEF r, k

-----------------------------------------------------------------------------
LEMMA IntervalCount ==
    ASSUME NEW n \in Nat
    PROVE  IsFiniteSet(1 .. n) /\ Cardinality(1 .. n) = n
  <1>1. n \in Int /\ 1 \in Int /\ (1 > n => n = 0) /\ n - 1 + 1 = n
    OBVIOUS
  <1>2. /\ IsFiniteSet(1 .. n)
        /\ Cardinality(1 .. n) = IF 1 > n THEN 0 ELSE n - 1 + 1
    BY <1>1, FS_Interval
  <1> QED BY <1>1, <1>2

(* The texts of a sequence are finitely many, and no more than its length. *)
LEMMA TextsCount ==
    ASSUME NEW q \in Seq(Text)
    PROVE  /\ IsFiniteSet(Texts(q)) /\ Cardinality(Texts(q)) \in Nat
           /\ Cardinality(Texts(q)) <= Len(q)
  <1> DEFINE n == Len(q)
  <1>1. n \in Nat /\ q \in [1 .. n -> Texts(q)]
    BY DEF Texts
  <1>2. q \in Surjection(1 .. n, Texts(q))
    BY <1>1 DEF Surjection, Texts
  <1> HIDE DEF n
  <1>3. IsFiniteSet(1 .. n) /\ Cardinality(1 .. n) = n
    BY <1>1, IntervalCount
  <1>4. IsFiniteSet(Texts(q)) /\ Cardinality(Texts(q)) <= n
    BY <1>2, <1>3, FS_Surjection
  <1> QED BY <1>4, FS_CardinalityType DEF n

(* The map of the index has as many texts as the index has entries. *)
LEMMA IndexCount ==
    ASSUME NEW ix, Indexed(ix)
    PROVE  LET D == {t \in Text : ix.ids[t] # None}
           IN  /\ IsFiniteSet(D) /\ Cardinality(D) = Len(ix.entries)
               /\ {ix.entries[k].text : k \in 1 .. Len(ix.entries)} = D
               /\ \A k \in 1 .. Len(ix.entries) :
                     \A n \in 1 .. k - 1 : ix.entries[n].text # ix.entries[k].text
  <1> DEFINE e == ix.entries
             d == ix.ids
             n == Len(e)
             D == {t \in Text : d[t] # None}
             f == [k \in 1 .. n |-> e[k].text]
  <1>1. /\ n \in Nat /\ d \in [Text -> Nat \cup {None}]
        /\ \A k \in 1 .. n : e[k].text \in Text /\ d[e[k].text] = k - 1
        /\ \A u \in Text : d[u] # None => d[u] < n /\ e[d[u] + 1].text = u
    BY EntryFacts DEF Indexed
  <1> HIDE DEF e, d, n
  <1>2. ASSUME NEW k \in 1 .. n PROVE f[k] = e[k].text /\ f[k] \in D
    <2>1. k - 1 \in Nat
      BY <1>1
    <2> QED BY <1>1, <2>1, NoneFacts
  <1>3. ASSUME NEW t \in D PROVE \E k \in 1 .. n : e[k].text = t
    <2>1. d[t] \in Nat /\ d[t] < n /\ e[d[t] + 1].text = t
      BY <1>1
    <2>2. d[t] + 1 \in 1 .. n
      BY <1>1, <2>1
    <2> QED BY <2>1, <2>2
  <1>4. ASSUME NEW k \in 1 .. n, NEW l \in 1 .. n, e[k].text = e[l].text PROVE k = l
    <2>1. k - 1 = l - 1 /\ k \in Nat /\ l \in Nat
      BY <1>1, <1>4
    <2> QED BY <2>1
  <1>5. f \in Surjection(1 .. n, D) /\ f \in Injection(1 .. n, D)
    <2>1. f \in [1 .. n -> D]
      BY <1>2
    <2>2. \A t \in D : \E k \in 1 .. n : f[k] = t
      BY <1>2, <1>3
    <2>3. \A k, l \in 1 .. n : f[k] = f[l] => k = l
      BY <1>2, <1>4
    <2> HIDE DEF f, D
    <2> QED BY <2>1, <2>2, <2>3 DEF Surjection, Injection, IsInjective
  <1>6. {e[k].text : k \in 1 .. n} = D
    BY <1>2, <1>3
  <1> HIDE DEF f, D
  <1>7. IsFiniteSet(D) /\ Cardinality(D) = n
    BY <1>1, <1>5, IntervalCount, FS_Surjection
  <1>8. ASSUME NEW k \in 1 .. n, NEW l \in 1 .. k - 1 PROVE e[l].text # e[k].text
    <2>1. l \in 1 .. n /\ l # k
      BY <1>1
    <2> QED BY <1>4, <2>1
  <1> QED BY <1>6, <1>7, <1>8 DEF e, d, n, D

(* The texts of a snapshot's entries, as validate compares them. *)
LEMMA KnowsTexts ==
    ASSUME NEW ix, Indexed(ix), NEW q \in Seq(Text), Knows(ix, q)
    PROVE  {t \in Text : ix.ids[t] # None} = Texts(q)
  <1>1. Texts(q) \subseteq Text
    BY DEF Texts
  <1> QED BY <1>1 DEF Knows

(* What is of one mind passes validate, can be read back, and loads. *)
LEMMA SnapshotOK ==
    ASSUME NEW m, StoreOK(m)
    PROVE  Valid(Snapshot(m)) /\ Readable(Snapshot(m)) /\ Loads(Snapshot(m), None)
  <1> DEFINE s == Snapshot(m)
             ix == m.index
             D == {t \in Text : ix.ids[t] # None}
  <1>1. /\ m.units \in Nat /\ m.nra \in Seq(Text) /\ m.rem \in Seq(Text)
        /\ m.texts \in Seq(Text) /\ ix \in IndexType
        /\ Len(m.rem) = Len(m.nra) /\ Len(m.texts) = Len(m.nra) /\ Len(m.nra) <= m.units
        /\ Indexed(ix) /\ Knows(ix, m.texts)
    BY DEF StoreOK, StoreType
  <1>2. /\ s.version = 1 /\ s.units = m.units /\ s.nra = m.nra /\ s.rem = m.rem
        /\ s.texts = m.texts /\ s.index = ix
    BY DEF Snapshot
  <1>3. s \in SnapshotType
    BY <1>1 DEF Snapshot, SnapshotType
  <1> HIDE DEF s, ix
  <1>4. /\ IsFiniteSet(D) /\ Cardinality(D) = Len(ix.entries)
        /\ {ix.entries[k].text : k \in 1 .. Len(ix.entries)} = D
        /\ \A k \in 1 .. Len(ix.entries) :
              \A n \in 1 .. k - 1 : ix.entries[n].text # ix.entries[k].text
    BY <1>1, IndexCount
  <1>5. D = Texts(m.texts)
    BY <1>1, KnowsTexts
  <1>6. /\ Len(ix.entries) <= Len(m.nra) /\ Len(ix.entries) \in Nat /\ Len(m.nra) \in Nat
        /\ \A k \in 1 .. Len(ix.entries) :
              ix.entries[k].id = k - 1 /\ ix.ids[ix.entries[k].text] = k - 1
    <2>1. Cardinality(Texts(m.texts)) <= Len(m.texts)
      BY <1>1, TextsCount
    <2>2. Len(ix.entries) <= Len(m.nra)
      <3> HIDE DEF D
      <3>1. Len(ix.entries) = Cardinality(Texts(m.texts))
        BY <1>4, <1>5
      <3>2. Len(m.texts) = Len(m.nra)
        BY <1>1
      <3> QED BY <2>1, <3>1, <3>2
    <2>3. Len(ix.entries) \in Nat /\ Len(m.nra) \in Nat
      BY <1>1, EntryFacts
    <2> QED BY <1>1, <2>2, <2>3 DEF Indexed
  <1> HIDE DEF D
  <1>7. Valid(s)
    <2>1. /\ Len(s.nra) <= s.units /\ Len(s.rem) = Len(s.nra)
          /\ Len(s.texts) = Len(s.nra) /\ Len(s.index.entries) <= Len(s.nra)
      BY <1>1, <1>2, <1>6
    <2>2. Cardinality({t \in Text : s.index.ids[t] # None}) = Len(s.index.entries)
      BY <1>2, <1>4 DEF D
    <2>3. \A k \in 1 .. Len(s.index.entries) :
             /\ s.index.entries[k].id = k - 1
             /\ s.index.ids[s.index.entries[k].text] = k - 1
             /\ \A n \in 1 .. k - 1 : s.index.entries[n].text # s.index.entries[k].text
      BY <1>2, <1>4, <1>6
    <2>4. {s.index.entries[k].text : k \in 1 .. Len(s.index.entries)} = Texts(s.texts)
      BY <1>2, <1>4, <1>5
    <2> QED BY <2>1, <2>2, <2>3, <2>4 DEF Valid
  <1>8. Readable(s)
    BY <1>2, <1>3, <1>4 DEF Readable, D
  <1>9. Len(Labels(s)) = Len(s.nra)
    <2>1. CASE s.texts # <<>>
      BY <1>1, <1>2, <2>1 DEF Labels
    <2>2. CASE s.texts = <<>>
      <3>1. Len(m.nra) = 0 /\ Len(ix.entries) = 0
        BY <1>1, <1>2, <1>6, <2>2
      <3>2. ix.entries \in Seq([id : Nat, text : Text])
        BY <1>1, EntryFacts
      <3>3. ix.entries = <<>>
        BY <3>1, <3>2
      <3>4. Labels(s) = [k \in {} |-> ix.entries[k].text]
        BY <1>2, <2>2, <3>3 DEF Labels
      <3>5. Labels(s) = <<>>
        BY <3>4
      <3> QED BY <1>2, <3>1, <3>5
    <2> QED BY <2>1, <2>2
  <1>10. ItemsFit(s, UnitsOf(s, None))
    BY <1>1, <1>2 DEF ItemsFit, UnitsOf
  <1> QED BY <1>7, <1>8, <1>9, <1>10 DEF Loads, s

-----------------------------------------------------------------------------
(* What store stages is of one mind, when there was room. *)
LEMMA StoredOK ==
    ASSUME NEW m, StoreOK(m), Len(m.nra) < m.units, NEW t \in Text
    PROVE  StoreOK(Stored(m, t))
  <1> DEFINE s == Stored(m, t)
             ix == IndexInsert(m.index, t)
  <1>1. /\ m.units \in Nat /\ m.nra \in Seq(Text) /\ m.rem \in Seq(Text)
        /\ m.texts \in Seq(Text) /\ Len(m.nra) \in Nat
        /\ Len(m.rem) = Len(m.nra) /\ Len(m.texts) = Len(m.nra)
        /\ Indexed(m.index) /\ Knows(m.index, m.texts)
    BY DEF StoreOK, StoreType
  <1>2. /\ Indexed(ix)
        /\ \A u \in Text : ix.ids[u] # None <=> m.index.ids[u] # None \/ u = t
    BY <1>1, InsertIndexed
  <1>3. /\ s.units = m.units /\ s.nra = Append(m.nra, t) /\ s.rem = Append(m.rem, t)
        /\ s.texts = Append(m.texts, t) /\ s.index = ix
    BY DEF Stored
  <1>4. \A q \in Seq(Text) : /\ Append(q, t) \in Seq(Text) /\ Len(Append(q, t)) = Len(q) + 1
                             /\ \A u : u \in Texts(Append(q, t)) <=> u \in Texts(q) \/ u = t
    <2> SUFFICES ASSUME NEW q \in Seq(Text)
                 PROVE  /\ Append(q, t) \in Seq(Text) /\ Len(Append(q, t)) = Len(q) + 1
                        /\ \A u : u \in Texts(Append(q, t)) <=> u \in Texts(q) \/ u = t
      OBVIOUS
    <2> DEFINE n == Len(q)
               a == Append(q, t)
    <2>1. n \in Nat /\ a \in Seq(Text) /\ Len(a) = n + 1 /\ a[n + 1] = t
          /\ \A k \in 1 .. n : a[k] = q[k]
      OBVIOUS
    <2> HIDE DEF n, a
    <2>2. \A k \in 1 .. n + 1 : k = n + 1 \/ k \in 1 .. n
      BY <2>1
    <2>3. \A k \in 1 .. n : k \in 1 .. n + 1
      BY <2>1
    <2>4. n + 1 \in 1 .. n + 1
      BY <2>1
    <2>5. \A u : u \in Texts(a) <=> u \in Texts(q) \/ u = t
      BY <2>1, <2>2, <2>3, <2>4 DEF Texts, n
    <2> QED BY <2>1, <2>5 DEF n, a
  <1>5. s \in StoreType
    <2>1. ix \in IndexType
      BY <1>2 DEF Indexed
    <2> QED BY <1>1, <1>4, <2>1 DEF Stored, StoreType
  <1>6. Knows(ix, s.texts)
    BY <1>1, <1>2, <1>3, <1>4 DEF Knows
  <1> HIDE DEF s, ix
  <1>7. /\ Len(s.rem) = Len(s.nra) /\ Len(s.texts) = Len(s.nra) /\ Len(s.nra) <= s.units
    <2> DEFINE n == Len(m.nra)
               u == m.units
    <2>1. \A q \in Seq(Text) : Len(Append(q, t)) = Len(q) + 1
      BY <1>4
    <2>2. Len(s.nra) = n + 1 /\ Len(s.rem) = n + 1 /\ Len(s.texts) = n + 1 /\ s.units = u
      BY <1>1, <1>3, <2>1
    <2>3. n \in Nat /\ u \in Nat /\ n < u
      BY <1>1
    <2> HIDE DEF n, u
    <2>4. n + 1 <= u
      BY <2>3
    <2> QED BY <2>2, <2>4
  <1> QED BY <1>2, <1>3, <1>5, <1>6, <1>7 DEF StoreOK, s

(* What forget stages is of one mind. *)
LEMMA ForgottenOK ==
    ASSUME NEW m, StoreOK(m), NEW t \in Texts(m.texts)
    PROVE  StoreOK(Forgotten(m, t))
  <1> DEFINE s == Forgotten(m, t)
             k == FirstAt(m.texts, t)
             rest == RemoveAt(m.texts, k)
             ix == IF t \in Texts(rest) THEN m.index ELSE IndexRemove(m.index, t)
  <1>1. /\ m.units \in Nat /\ m.nra \in Seq(Text) /\ m.rem \in Seq(Text)
        /\ m.texts \in Seq(Text) /\ Len(m.nra) \in Nat
        /\ Len(m.rem) = Len(m.nra) /\ Len(m.texts) = Len(m.nra) /\ Len(m.nra) <= m.units
        /\ Indexed(m.index) /\ Knows(m.index, m.texts)
    BY DEF StoreOK, StoreType
  <1>2. t \in Text
    BY <1>1 DEF Texts
  <1>3. k \in 1 .. Len(m.nra)
    BY <1>1, FirstAtFacts
  <1>4. /\ \A u \in Text : u # t => (u \in Texts(rest) <=> u \in Texts(m.texts))
        /\ Texts(rest) \subseteq Texts(m.texts)
    BY <1>1, RemoveTexts
  <1>5. s = [units |-> m.units, nra |-> RemoveAt(m.nra, k), rem |-> RemoveAt(m.rem, k),
             texts |-> rest, index |-> ix]
    BY DEF Forgotten
  <1> HIDE DEF k, s
  <1>6. /\ RemoveAt(m.nra, k) \in Seq(Text) /\ Len(RemoveAt(m.nra, k)) = Len(m.nra) - 1
        /\ RemoveAt(m.rem, k) \in Seq(Text) /\ Len(RemoveAt(m.rem, k)) = Len(m.nra) - 1
        /\ rest \in Seq(Text) /\ Len(rest) = Len(m.nra) - 1
    <2>1. k \in 1 .. Len(m.rem) /\ k \in 1 .. Len(m.texts)
      BY <1>1, <1>3
    <2> QED BY <1>1, <1>3, <2>1, RemoveFacts
  <1> HIDE DEF rest
  <1>7. /\ Indexed(ix)
        /\ \A u \in Text : ix.ids[u] # None <=> u \in Texts(rest)
    <2>1. CASE t \in Texts(rest)
      BY <1>1, <1>2, <1>4, <2>1 DEF Knows
    <2>2. CASE t \notin Texts(rest)
      <3>1. /\ Indexed(ix)
            /\ \A u \in Text : ix.ids[u] # None <=> m.index.ids[u] # None /\ u # t
        BY <1>1, <1>2, <2>2, RemoveIndexed
      <3> QED BY <1>1, <1>2, <1>4, <2>2, <3>1 DEF Knows
    <2> QED BY <2>1, <2>2
  <1> HIDE DEF ix
  <1>8. /\ s.units = m.units /\ s.nra = RemoveAt(m.nra, k) /\ s.rem = RemoveAt(m.rem, k)
        /\ s.texts = rest /\ s.index = ix
    BY <1>5
  <1>9. s \in StoreType
    <2>1. ix \in IndexType
      BY <1>7 DEF Indexed
    <2> QED BY <1>1, <1>5, <1>6, <2>1 DEF StoreType
  <1>10. Len(s.rem) = Len(s.nra) /\ Len(s.texts) = Len(s.nra) /\ Len(s.nra) <= s.units
    BY <1>1, <1>6, <1>8
  <1>11. Knows(s.index, s.texts)
    BY <1>7, <1>8 DEF Knows
  <1> QED BY <1>7, <1>8, <1>9, <1>10, <1>11 DEF StoreOK, s

(* A store without memories. *)
LEMMA EmptyOK ==
    ASSUME NEW n \in Nat
    PROVE  StoreOK(EmptyStore(n))
  <1> DEFINE s == EmptyStore(n)
  <1>1. /\ s.units = n /\ s.nra = <<>> /\ s.rem = <<>> /\ s.texts = <<>>
        /\ s.index = EmptyIndex
    BY DEF EmptyStore
  <1>2. /\ EmptyIndex.entries = <<>> /\ \A t \in Text : EmptyIndex.ids[t] = None
        /\ EmptyIndex \in IndexType
    BY DEF EmptyIndex, IndexType
  <1>3. s \in StoreType
    BY <1>2 DEF EmptyStore, StoreType
  <1>4. Indexed(EmptyIndex)
    BY <1>2 DEF Indexed
  <1>5. Knows(EmptyIndex, <<>>)
    BY <1>2 DEF Knows, Texts
  <1> HIDE DEF s
  <1> QED BY <1>1, <1>3, <1>4, <1>5 DEF StoreOK, s

(* What validate accepts has an index that agrees with itself: as many texts *)
(* are mapped as there are entries, so there is none without one.            *)
LEMMA ValidIndexed ==
    ASSUME NEW s, Readable(s), Valid(s)
    PROVE  /\ Indexed(s.index)
           /\ {s.index.entries[k].text : k \in 1 .. Len(s.index.entries)}
                 = {t \in Text : s.index.ids[t] # None}
  <1> DEFINE ix == s.index
             e == ix.entries
             d == ix.ids
             n == Len(e)
             D == {t \in Text : d[t] # None}
             T == {e[k].text : k \in 1 .. n}
             f == [k \in 1 .. n |-> e[k].text]
  <1>1. ix \in IndexType /\ IsFiniteSet(D) /\ Cardinality(D) = n
    BY DEF Readable, SnapshotType, Valid
  <1>2. \A k \in 1 .. n : /\ e[k].id = k - 1 /\ d[e[k].text] = k - 1
                          /\ \A l \in 1 .. k - 1 : e[l].text # e[k].text
    BY DEF Valid
  <1>3. /\ e \in Seq([id : Nat, text : Text]) /\ d \in [Text -> Nat \cup {None}]
    BY <1>1 DEF IndexType
  <1>4. n \in Nat /\ \A k \in 1 .. n : e[k].text \in Text
    <2> HIDE DEF e
    <2> DEFINE Entry == [id : Nat, text : Text]
    <2>1. e \in Seq(Entry) /\ \A x \in Entry : x.text \in Text
      BY <1>3
    <2> HIDE DEF Entry
    <2>2. n \in Nat /\ \A k \in 1 .. n : e[k] \in Entry
      BY <2>1
    <2> QED BY <2>1, <2>2
  <1> HIDE DEF ix, e, d, n
  <1>5. T \in SUBSET D
    <2>1. ASSUME NEW k \in 1 .. n PROVE e[k].text \in D
      <3>1. k - 1 \in Nat
        BY <1>4
      <3> QED BY <1>2, <1>4, <3>1, NoneFacts
    <2> QED BY <2>1
  <1>6. f \in Surjection(1 .. n, T)
    BY DEF Surjection
  <1>7. f \in Injection(1 .. n, T)
    <2>1. ASSUME NEW k \in 1 .. n, NEW l \in 1 .. n, f[k] = f[l] PROVE k = l
      <3>1. e[k].text = e[l].text
        BY <2>1
      <3>2. k - 1 = l - 1 /\ k \in Nat /\ l \in Nat
        BY <1>2, <1>4, <3>1
      <3> QED BY <3>2
    <2>2. f \in [1 .. n -> T]
      OBVIOUS
    <2> HIDE DEF f
    <2> QED BY <2>1, <2>2 DEF Injection, IsInjective
  <1> HIDE DEF f, T, D
  <1>8. Cardinality(T) = n
    BY <1>4, <1>6, <1>7, IntervalCount, FS_Surjection
  <1>9. T = D
    BY <1>1, <1>5, <1>8, FS_Subset
  <1>10. ASSUME NEW u \in Text, d[u] # None
         PROVE  d[u] < n /\ e[d[u] + 1].text = u
    <2>1. PICK k \in 1 .. n : e[k].text = u
      BY <1>9, <1>10 DEF D, T
    <2>2. d[u] = k - 1 /\ k - 1 + 1 = k /\ k - 1 < n
      BY <1>2, <1>4, <2>1
    <2> QED BY <2>1, <2>2
  <1>11. Indexed(ix)
    BY <1>1, <1>2, <1>10 DEF Indexed, e, d, n
  <1> QED BY <1>9, <1>11 DEF ix, e, d, n, D, T

(* What is loaded is of one mind. *)
LEMMA LoadedOK ==
    ASSUME NEW s, Readable(s), NEW capacity \in Capacities, Loads(s, capacity)
    PROVE  StoreOK(Loaded(s, capacity))
  <1> DEFINE m == Loaded(s, capacity)
             ix == s.index
             e == ix.entries
             D == {t \in Text : ix.ids[t] # None}
             T == {e[k].text : k \in 1 .. Len(e)}
  <1>1. /\ s.version \in {0, 1} /\ s.units \in Nat /\ s.nra \in Seq(Text)
        /\ s.rem \in Seq(Text) /\ s.texts \in Seq(Text) /\ ix \in IndexType
        /\ s.version = 0 => s.texts = <<>>
    BY DEF Readable, SnapshotType
  <1>2. /\ Valid(s) /\ Len(Labels(s)) = Len(s.nra)
        /\ Len(s.nra) <= UnitsOf(s, capacity)
    BY DEF Loads, ItemsFit
  <1>3. Indexed(ix) /\ T = D
    BY <1>2, ValidIndexed
  <1>4. /\ Len(s.rem) = Len(s.nra)
        /\ s.version = 1 => T = Texts(s.texts)
    BY <1>2 DEF Valid
  <1>5. UnitsOf(s, capacity) \in Nat
    BY <1>1, MemoryStoreAssumption DEF UnitsOf
  <1>6. Labels(s) \in Seq(Text) /\ Texts(Labels(s)) = D
    <2>1. CASE s.texts # <<>>
      <3>1. Labels(s) = s.texts /\ s.version = 1
        BY <1>1, <2>1 DEF Labels
      <3> QED BY <1>1, <1>3, <1>4, <3>1
    <2>2. CASE s.texts = <<>>
      <3> DEFINE g == [k \in 1 .. Len(e) |-> e[k].text]
      <3>1. /\ e \in Seq([id : Nat, text : Text]) /\ Len(e) \in Nat
            /\ \A k \in 1 .. Len(e) : e[k].text \in Text
        BY <1>3, EntryFacts
      <3>2. DOMAIN e = 1 .. Len(e)
        BY <3>1
      <3>3. Labels(s) = g
        BY <2>2, <3>2 DEF Labels
      <3>4. g \in [1 .. Len(e) -> Text]
        BY <3>1
      <3>5. \A k \in 1 .. Len(e) : g[k] = e[k].text
        OBVIOUS
      <3> HIDE DEF g
      <3>6. g \in Seq(Text) /\ Len(g) = Len(e)
        BY <3>1, <3>4, AsSequence
      <3>7. Texts(g) = T
        BY <3>5, <3>6 DEF Texts
      <3> QED BY <1>3, <3>3, <3>6, <3>7
    <2> QED BY <2>1, <2>2
  <1> HIDE DEF T
  <1>7. Knows(ix, Labels(s))
    BY <1>6 DEF Knows
  <1>8. /\ m.units = UnitsOf(s, capacity) /\ m.nra = s.nra /\ m.rem = s.rem
        /\ m.texts = Labels(s) /\ m.index = ix
    BY DEF Loaded
  <1>9. m \in StoreType
    BY <1>1, <1>5, <1>6 DEF Loaded, StoreType
  <1> HIDE DEF m, ix
  <1>10. Len(m.rem) = Len(m.nra) /\ Len(m.texts) = Len(m.nra) /\ Len(m.nra) <= m.units
    BY <1>2, <1>4, <1>8
  <1> QED BY <1>3, <1>7, <1>8, <1>9, <1>10 DEF StoreOK, m

-----------------------------------------------------------------------------
Asked == [op : {"store", "forget"}, text : Text]

(* A request is at work under the persistence lock, or it has not got it. *)
Inside == {"embed", "lock", "write", "answer"}

RequestsOK ==
    /\ pc \in [Client -> {"idle", "gate"} \cup Inside]
    /\ req = [c \in Client |-> req[c]] /\ result = [c \in Client |-> result[c]]
    /\ \A c \in Client : pc[c] # "idle" => req[c] \in Asked
    /\ \A c \in Client : pc[c] \in Inside => gate = c

(* What is on the disk is a snapshot that can be read, whatever of it a      *)
(* power loss leaves, and the running process could start with it again.     *)
DiskOK ==
    /\ disk \in kept
    /\ \A s \in kept : s # None => Readable(s)
    /\ up /\ disk # None => Loads(disk, None)

(* The mutation under the guard: what it staged, how far it has come to the  *)
(* disk and to memory, and who waits for it.                                 *)
TxnOK ==
    /\ txn \in Mutation /\ StoreOK(txn.staged)
    /\ txn.at # "save" => disk = Snapshot(txn.staged)
    /\ txn.at \in {"publish", "index"} => kept = {disk}
    /\ txn.at # "index" => StoreOK(mem)
    /\ txn.at = "index" => mem = [txn.staged EXCEPT !.index = mem.index]
    /\ txn.by # None => pc[txn.by] = "write"

MutationOK ==
    /\ txn # None => up /\ TxnOK
    /\ up /\ txn = None => StoreOK(mem)
    /\ \A c \in Client : pc[c] = "write" => txn # None /\ txn.by = c
    /\ ~up => \A c \in Client : pc[c] = "idle"

(* A request that was told of success has nothing under way behind it. *)
ToldOK ==
    \A c \in Client : pc[c] = "answer" /\ result[c] \in {"stored", "removed"} =>
        txn = None /\ kept = {Snapshot(mem)}

IInv == RequestsOK /\ DiskOK /\ MutationOK /\ ToldOK

LEMMA InitInv == Init => IInv
  <1> SUFFICES ASSUME Init PROVE IInv
    OBVIOUS
  <1>1. RequestsOK
    BY DEF Init, RequestsOK, Inside
  <1>2. DiskOK
    BY SnapshotAssumption DEF Init, DiskOK
  <1>3. MutationOK
    BY DEF Init, MutationOK
  <1>4. ToldOK
    BY DEF Init, ToldOK
  <1> QED BY <1>1, <1>2, <1>3, <1>4 DEF IInv

(* The steps of a request that leave the store and the disk alone. *)
LEMMA RequestStep ==
    ASSUME IInv, NEW c \in Client,
           Request(c) \/ EnterGate(c) \/ Embed(c) \/ Decline(c) \/ Answer(c)
    PROVE  IInv'
  <1>1. /\ up' = up /\ mem' = mem /\ disk' = disk /\ kept' = kept /\ txn' = txn /\ up
        /\ \A d \in Client : pc[d] = "write" => pc'[d] = "write"
        /\ pc[c] # "write"
    BY DEF IInv, RequestsOK, Request, EnterGate, Embed, Decline, Answer, diskVars
  <1>2. RequestsOK'
    <2>1. CASE Request(c)
      <3>1. PICK op \in {"store", "forget"}, t \in Text :
                req' = [req EXCEPT ![c] = [op |-> op, text |-> t]]
        BY <2>1 DEF Request
      <3>2. [op |-> op, text |-> t] \in Asked
        BY DEF Asked
      <3>3. pc[c] = "idle" /\ pc' = [pc EXCEPT ![c] = "gate"] /\ gate' = gate
            /\ result' = [result EXCEPT ![c] = None]
        BY <2>1 DEF Request
      <3> QED BY <3>1, <3>2, <3>3 DEF IInv, RequestsOK, Inside
    <2>2. CASE EnterGate(c)
      BY <2>2, NoneFacts DEF IInv, RequestsOK, Inside, EnterGate
    <2>3. CASE Embed(c)
      BY <2>3 DEF IInv, RequestsOK, Inside, Embed
    <2>4. CASE Decline(c)
      BY <2>4 DEF IInv, RequestsOK, Inside, Decline, Declined
    <2>5. CASE Answer(c)
      BY <2>5 DEF IInv, RequestsOK, Inside, Answer
    <2> QED BY <2>1, <2>2, <2>3, <2>4, <2>5
  <1>3. DiskOK'
    BY <1>1 DEF IInv, DiskOK
  <1>4. MutationOK'
    <2>1. \A d \in Client : pc'[d] = "write" => pc[d] = "write"
      BY DEF IInv, RequestsOK, Request, EnterGate, Embed, Decline, Answer
    <2>2. TxnOK => TxnOK'
      <3>1. TxnOK /\ txn.by # None => txn.by \in Client
        BY DEF TxnOK, Mutation
      <3> QED BY <1>1, <3>1 DEF TxnOK
    <2> QED BY <1>1, <2>1, <2>2 DEF IInv, MutationOK
  <1>5. ToldOK'
    BY <1>1 DEF IInv, RequestsOK, ToldOK, Inside, Request, EnterGate, Embed, Decline,
                Declined, Answer
  <1> QED BY <1>2, <1>3, <1>4, <1>5 DEF IInv

LEMMA AbandonStep ==
    ASSUME IInv, NEW c \in Client, Abandon(c)
    PROVE  IInv'
  <1>1. RequestsOK'
    BY DEF IInv, RequestsOK, Inside, Abandon
  <1>2. DiskOK'
    BY DEF IInv, DiskOK, Abandon, diskVars
  <1>3. MutationOK'
    <2>1. CASE pc[c] = "write"
      <3>1. /\ TxnOK /\ txn # None /\ txn.by = c /\ up /\ up' = up /\ mem' = mem /\ disk' = disk
            /\ kept' = kept /\ txn' = [txn EXCEPT !.by = None]
            /\ pc' = [pc EXCEPT ![c] = "idle"]
        BY <2>1 DEF IInv, MutationOK, Abandon, diskVars
      <3>2. TxnOK' /\ txn' # None
        <4>1. txn' \in Mutation /\ txn'.by = None /\ txn'.at = txn.at /\ txn'.staged = txn.staged
          BY <3>1 DEF TxnOK, Mutation
        <4> QED BY <3>1, <4>1, SnapshotAssumption DEF TxnOK
      <3>3. \A d \in Client : pc'[d] # "write"
        BY <3>1 DEF IInv, MutationOK, RequestsOK
      <3> QED BY <3>1, <3>2, <3>3 DEF MutationOK
    <2>2. CASE pc[c] # "write"
      <3>1. /\ up /\ up' = up /\ mem' = mem /\ disk' = disk
            /\ kept' = kept /\ txn' = txn /\ pc' = [pc EXCEPT ![c] = "idle"]
        BY <2>2 DEF Abandon, diskVars
      <3>2. TxnOK => TxnOK'
        BY <2>2, <3>1 DEF TxnOK, IInv, RequestsOK
      <3> QED BY <3>1, <3>2 DEF IInv, MutationOK, RequestsOK
    <2> QED BY <2>1, <2>2
  <1>4. ToldOK'
    <2>1. ASSUME NEW d \in Client, pc'[d] = "answer", result'[d] \in {"stored", "removed"}
          PROVE  txn' = None /\ kept' = {Snapshot(mem)}'
      <3>1. d # c /\ pc[d] = "answer" /\ result[d] = result'[d]
        BY <2>1 DEF Abandon, IInv, RequestsOK
      <3>2. pc[c] # "write"
        BY <3>1 DEF IInv, RequestsOK, Inside
      <3> QED BY <2>1, <3>1, <3>2 DEF IInv, ToldOK, Abandon, diskVars
    <2> QED BY <2>1 DEF ToldOK
  <1> QED BY <1>1, <1>2, <1>3, <1>4 DEF IInv

LEMMA StageStep ==
    ASSUME IInv, NEW c \in Client, Stage(c)
    PROVE  IInv'
  <1> DEFINE op == req[c].op
             t  == req[c].text
             staged == IF op = "store" THEN Stored(mem, t) ELSE Forgotten(mem, t)
  <1>1. /\ up /\ pc[c] = "lock" /\ txn = None /\ gate = c
        /\ op \in {"store", "forget"} /\ t \in Text
    BY DEF Stage, GuardFree, IInv, RequestsOK, Inside, Asked
  <1>2. /\ op = "store" => Len(mem.nra) < mem.units
        /\ op = "forget" => t \in Texts(mem.texts)
        /\ txn' = [op |-> op, text |-> t, by |-> c, at |-> "save", staged |-> staged]
    BY DEF Stage
  <1>3. /\ up' = up /\ mem' = mem /\ disk' = disk /\ kept' = kept /\ gate' = gate
        /\ req' = req /\ result' = result /\ pc' = [pc EXCEPT ![c] = "write"]
    BY DEF Stage, diskVars
  <1>4. StoreOK(mem)
    BY <1>1 DEF IInv, MutationOK
  <1>5. StoreOK(staged)
    BY <1>1, <1>2, <1>4, StoredOK, ForgottenOK
  <1> HIDE DEF op, t, staged
  <1>6. RequestsOK'
    BY <1>1, <1>3 DEF IInv, RequestsOK, Inside
  <1>7. DiskOK'
    BY <1>3 DEF IInv, DiskOK
  <1>8. TxnOK'
    <2>1. /\ txn'.op = op /\ txn'.text = t /\ txn'.by = c /\ txn'.at = "save"
          /\ txn'.staged = staged
      BY <1>2
    <2>2. pc'[c] = "write"
      BY <1>3 DEF IInv, RequestsOK
    <2>3. txn' \in Mutation
      BY <1>1, <1>2, <1>5 DEF Mutation, StoreOK
    <2> QED BY <1>3, <1>4, <1>5, <2>1, <2>2, <2>3 DEF TxnOK
  <1>9. MutationOK'
    <2>1. \A d \in Client : pc'[d] = "write" => d = c
      BY <1>1, <1>3 DEF IInv, RequestsOK, Inside
    <2>2. txn'.by = c /\ txn' # None
      BY <1>2, <1>8, SnapshotAssumption DEF TxnOK
    <2> QED BY <1>1, <1>3, <1>4, <1>8, <2>1, <2>2 DEF MutationOK
  <1>10. ToldOK'
    <2>1. \A d \in Client : pc'[d] # "answer"
      BY <1>1, <1>3 DEF IInv, RequestsOK, Inside
    <2> QED BY <2>1 DEF ToldOK
  <1> QED BY <1>6, <1>7, <1>9, <1>10 DEF IInv

-----------------------------------------------------------------------------
(* The steps of the blocking thread. *)
LEMMA SaveStep ==
    ASSUME IInv, Rename \/ SyncDirectory \/ PublishStores
    PROVE  IInv'
  <1> DEFINE staged == txn.staged
  <1>1. /\ up /\ txn # None /\ TxnOK /\ up' = up /\ pc' = pc /\ req' = req
        /\ gate' = gate /\ result' = result
    BY DEF IInv, MutationOK, Rename, SyncDirectory, PublishStores, At, taskVars
  <1>2. txn \in Mutation /\ StoreOK(staged)
    BY <1>1 DEF TxnOK
  <1>3. Readable(Snapshot(staged)) /\ Loads(Snapshot(staged), None)
    BY <1>2, SnapshotOK
  <1>4. \A a \in {"sync", "publish", "index"} :
            txn' = [txn EXCEPT !.at = a] =>
                /\ txn' \in Mutation /\ txn' # None
                /\ txn'.at = a /\ txn'.staged = staged /\ txn'.by = txn.by
    BY <1>2, SnapshotAssumption DEF Mutation
  <1> HIDE DEF staged
  <1>5. RequestsOK'
    BY <1>1 DEF IInv, RequestsOK
  <1>6. DiskOK'
    <2>1. CASE Rename
      <3>1. disk' = Snapshot(staged) /\ kept' = kept \cup {disk'}
        BY <2>1 DEF Rename, staged
      <3> QED BY <1>3, <3>1 DEF IInv, DiskOK
    <2>2. CASE SyncDirectory
      BY <1>1, <2>2 DEF IInv, DiskOK, SyncDirectory
    <2>3. CASE PublishStores
      BY <1>1, <2>3 DEF IInv, DiskOK, PublishStores, diskVars
    <2> QED BY <2>1, <2>2, <2>3
  <1>7. TxnOK' /\ txn' # None /\ txn'.by = txn.by
    <2>1. CASE Rename
      <3>1. /\ txn.at = "save" /\ mem' = mem /\ disk' = Snapshot(staged)
            /\ txn' = [txn EXCEPT !.at = "sync"]
        BY <2>1 DEF Rename, At, staged
      <3> QED BY <1>1, <1>2, <1>4, <3>1 DEF TxnOK, staged
    <2>2. CASE SyncDirectory
      <3>1. /\ txn.at = "sync" /\ mem' = mem /\ disk' = disk /\ kept' = {disk}
            /\ txn' = [txn EXCEPT !.at = "publish"]
        BY <2>2 DEF SyncDirectory, At
      <3> QED BY <1>1, <1>2, <1>4, <3>1 DEF TxnOK, staged
    <2>3. CASE PublishStores
      <3>1. /\ txn.at = "publish" /\ disk' = disk /\ kept' = kept
            /\ txn' = [txn EXCEPT !.at = "index"]
            /\ mem' = [staged EXCEPT !.index = mem.index]
        BY <2>3 DEF PublishStores, At, diskVars, staged
      <3>2. mem'.index = mem.index
        BY <1>2, <3>1 DEF StoreOK, StoreType
      <3> QED BY <1>1, <1>2, <1>4, <3>1, <3>2 DEF TxnOK, staged
    <2> QED BY <2>1, <2>2, <2>3
  <1>8. MutationOK'
    BY <1>1, <1>7 DEF IInv, MutationOK
  <1>9. ToldOK'
    BY <1>1 DEF IInv, ToldOK
  <1> QED BY <1>5, <1>6, <1>8, <1>9 DEF IInv

LEMMA FinishStep ==
    ASSUME IInv, SaveFails \/ SyncFails \/ PublishIndex
    PROVE  IInv'
  <1> DEFINE outcome == IF PublishIndex
                        THEN IF txn.op = "store" THEN "stored" ELSE "removed"
                        ELSE "error"
  <1>1. /\ up /\ txn # None /\ TxnOK /\ up' = up /\ req' = req /\ gate' = gate
        /\ disk' = disk /\ kept' = kept /\ txn' = None
    BY DEF IInv, MutationOK, SaveFails, SyncFails, PublishIndex, At, Finish, diskVars
  <1>2. /\ txn \in Mutation /\ StoreOK(txn.staged)
        /\ txn.by # None => pc[txn.by] = "write"
    BY <1>1 DEF TxnOK
  <1>3. StoreOK(mem') /\ (PublishIndex => kept = {Snapshot(mem')})
    <2>1. CASE PublishIndex
      <3>1. /\ mem' = [mem EXCEPT !.index = txn.staged.index]
            /\ mem = [txn.staged EXCEPT !.index = mem.index]
            /\ kept = {disk} /\ disk = Snapshot(txn.staged)
        BY <1>1, <2>1 DEF PublishIndex, At, TxnOK
      <3>2. mem' = txn.staged
        <4>1. txn.staged \in StoreType
          BY <1>2 DEF StoreOK
        <4> QED BY <3>1, <4>1 DEF StoreType
      <3> QED BY <1>2, <3>1, <3>2
    <2>2. CASE ~PublishIndex
      BY <1>1, <2>2 DEF SaveFails, SyncFails, At, TxnOK
    <2> QED BY <2>1, <2>2
  <1>4. /\ txn.by = None => pc' = pc /\ result' = result
        /\ txn.by # None =>
              /\ pc' = [pc EXCEPT ![txn.by] = "answer"]
              /\ \E o : result' = [result EXCEPT ![txn.by] = o]
                        /\ (~PublishIndex => o = "error")
    BY DEF SaveFails, SyncFails, PublishIndex, Finish
  <1>5. txn.by # None => txn.by \in Client /\ gate = txn.by
    BY <1>2 DEF Mutation, IInv, RequestsOK, Inside
  <1>6. RequestsOK'
    <2>1. CASE txn.by = None
      BY <1>1, <1>4, <2>1 DEF IInv, RequestsOK
    <2>2. CASE txn.by # None
      <3> DEFINE by == txn.by
      <3>1. PICK o : result' = [result EXCEPT ![by] = o]
        BY <1>4, <2>2
      <3>2. by \in Client /\ gate = by /\ pc' = [pc EXCEPT ![by] = "answer"] /\ pc[by] = "write"
        BY <1>2, <1>4, <1>5, <2>2
      <3> HIDE DEF by
      <3> QED BY <1>1, <3>1, <3>2 DEF IInv, RequestsOK, Inside
    <2> QED BY <2>1, <2>2
  <1>7. DiskOK'
    BY <1>1 DEF IInv, DiskOK
  <1>8. MutationOK'
    <2>1. ASSUME NEW d \in Client, pc'[d] = "write" PROVE FALSE
      <3>1. pc[d] = "write"
        BY <1>4, <1>5, <2>1 DEF IInv, RequestsOK
      <3>2. txn.by = d
        BY <3>1 DEF IInv, MutationOK
      <3> QED BY <1>4, <2>1, <3>2, NoneFacts DEF IInv, RequestsOK
    <2> QED BY <1>1, <1>3, <2>1 DEF MutationOK
  <1>9. ToldOK'
    <2>1. ASSUME NEW d \in Client, pc'[d] = "answer", result'[d] \in {"stored", "removed"}
          PROVE  kept' = {Snapshot(mem')}
      <3>1. CASE PublishIndex
        BY <1>1, <1>3, <3>1
      <3>2. CASE ~PublishIndex
        <4>1. d # txn.by
          BY <1>4, <2>1, <3>2, NoneFacts DEF IInv, RequestsOK
        <4>2. pc[d] = "answer" /\ result[d] = result'[d]
          BY <1>4, <2>1, <4>1 DEF IInv, RequestsOK
        <4> QED BY <1>1, <2>1, <4>2 DEF IInv, ToldOK
      <3> QED BY <3>1, <3>2
    <2> QED BY <1>1, <2>1 DEF ToldOK
  <1> QED BY <1>6, <1>7, <1>8, <1>9 DEF IInv

(* A crash, and a start from what it left. *)
LEMMA CrashStep == ASSUME IInv, Crash PROVE IInv'
  <1>1. /\ up' = FALSE /\ txn' = None /\ pc' = [c \in Client |-> "idle"]
        /\ req' = req /\ result' = result
        /\ kept' \subseteq kept /\ disk' \in kept'
    BY DEF Crash, diskVars, IInv, DiskOK
  <1> QED BY <1>1 DEF IInv, RequestsOK, Inside, DiskOK, MutationOK, ToldOK

LEMMA RestartStep == ASSUME IInv, Restart PROVE IInv'
  <1>1. /\ ~up /\ up' /\ disk' = disk /\ kept' = kept /\ gate' = gate /\ pc' = pc
        /\ req' = req /\ result' = result /\ txn' = txn
    BY DEF Restart, diskVars, taskVars
  <1>2. txn = None /\ \A c \in Client : pc[c] = "idle"
    BY <1>1 DEF IInv, MutationOK
  <1>3. PICK capacity \in Capacities :
            IF disk = None THEN mem' = EmptyStore(Units(capacity))
            ELSE Loads(disk, capacity) /\ mem' = Loaded(disk, capacity)
    BY DEF Restart
  <1>4. StoreOK(mem') /\ (disk # None => Loads(disk, None))
    <2>1. CASE disk = None
      <3>1. Units(capacity) \in Nat
        BY MemoryStoreAssumption DEF Units
      <3> QED BY <1>3, <2>1, <3>1, EmptyOK
    <2>2. CASE disk # None
      <3>1. Readable(disk)
        BY <2>2 DEF IInv, DiskOK
      <3>2. Loads(disk, capacity) /\ mem' = Loaded(disk, capacity)
        BY <1>3, <2>2
      <3>3. Loads(disk, None)
        BY <3>2 DEF Loads, Valid, ItemsFit, UnitsOf
      <3> QED BY <3>1, <3>2, <3>3, LoadedOK
    <2> QED BY <2>1, <2>2
  <1> QED BY <1>1, <1>2, <1>4 DEF IInv, RequestsOK, Inside, DiskOK, MutationOK, ToldOK

LEMMA ReadStep ==
    ASSUME IInv, (\E r \in Reader : Retrieve(r) \/ RecallText(r)) \/ UNCHANGED vars
    PROVE  IInv'
  <1>1. /\ up' = up /\ mem' = mem /\ disk' = disk /\ kept' = kept /\ gate' = gate
        /\ pc' = pc /\ req' = req /\ result' = result /\ txn' = txn
    BY DEF Retrieve, RecallText, vars, diskVars, taskVars
  <1> QED BY <1>1 DEF IInv, RequestsOK, DiskOK, MutationOK, TxnOK, ToldOK

LEMMA StepInv == ASSUME IInv, [Next]_vars PROVE IInv'
  <1>1. ASSUME NEW c \in Client, Request(c) \/ Handle(c) \/ Abandon(c) PROVE IInv'
    BY <1>1, RequestStep, AbandonStep, StageStep DEF Handle
  <1>2. CASE Blocking
    BY <1>2, SaveStep, FinishStep DEF Blocking
  <1>3. CASE (\E r \in Reader : Retrieve(r) \/ RecallText(r)) \/ UNCHANGED vars
    BY <1>3, ReadStep
  <1> QED BY <1>1, <1>2, <1>3, CrashStep, RestartStep DEF Next
-----------------------------------------------------------------------------
(* Of every reachable state: a request works under the persistence lock, a   *)
(* mutation is as far in memory as on the disk (commit_inner, save), and     *)
(* what is on the disk can be read.                                          *)
THEOREM Invariance == Spec => []IInv
  <1> QED BY InitInv, StepInv, PTL DEF Spec

(* However long the service is stored into, forgotten from and restarted,    *)
(* with whatever texts: what a mutation stages passes MemorySnapshot's       *)
(* validate, and the running process could load the snapshot it wrote.       *)
THEOREM StagedIsValid == Spec => []NeverWedged
  <1>1. IInv => NeverWedged
    BY SnapshotOK DEF IInv, MutationOK, TxnOK, DiskOK, NeverWedged
  <1> QED BY <1>1, Invariance, PTL

(* AppState answers a store or a forget with success only when a power loss  *)
(* can leave no snapshot but the one of what is in memory.                   *)
THEOREM ConfirmedDurable == Spec => []ConfirmedIsDurable
  <1>1. IInv => ConfirmedIsDurable
    BY DEF IInv, ToldOK, ConfirmedIsDurable
  <1> QED BY <1>1, Invariance, PTL

-----------------------------------------------------------------------------
(* How often a text is in a sequence. *)
Places(q, t) == {k \in 1 .. Len(q) : q[k] = t}

LEMMA CopiesType ==
    ASSUME NEW q \in Seq(Text), NEW t
    PROVE  /\ IsFiniteSet(Places(q, t)) /\ Copies(q, t) \in Nat
           /\ Copies(q, t) = Cardinality(Places(q, t))
           /\ (t \in Texts(q)) => Copies(q, t) >= 1
  <1>1. Len(q) \in Nat /\ Places(q, t) \subseteq 1 .. Len(q)
    BY DEF Places
  <1>2. IsFiniteSet(Places(q, t))
    BY <1>1, IntervalCount, FS_Subset
  <1>3. Copies(q, t) = Cardinality(Places(q, t))
    BY DEF Copies, Places
  <1>4. Cardinality(Places(q, t)) \in Nat
    BY <1>2, FS_CardinalityType
  <1>5. (t \in Texts(q)) => Places(q, t) # {}
    BY DEF Texts, Places
  <1>6. Places(q, t) # {} => Cardinality(Places(q, t)) # 0
    BY <1>2, FS_EmptySet
  <1> QED BY <1>2, <1>3, <1>4, <1>5, <1>6

LEMMA CopiesEmpty == \A t : Copies(<<>>, t) = 0
  <1> SUFFICES ASSUME NEW t PROVE Copies(<<>>, t) = 0
    OBVIOUS
  <1>1. {k \in 1 .. Len(<<>>) : <<>>[k] = t} = {}
    OBVIOUS
  <1> QED BY <1>1, FS_EmptySet DEF Copies

LEMMA CopiesAppend ==
    ASSUME NEW q \in Seq(Text), NEW t \in Text, NEW u
    PROVE  Copies(Append(q, t), u) = IF u = t THEN Copies(q, u) + 1 ELSE Copies(q, u)
  <1> DEFINE n == Len(q)
             a == Append(q, t)
  <1>1. n \in Nat /\ a \in Seq(Text) /\ Len(a) = n + 1 /\ a[n + 1] = t
        /\ \A k \in 1 .. n : a[k] = q[k]
    OBVIOUS
  <1>2. /\ IsFiniteSet(Places(q, u)) /\ Copies(q, u) = Cardinality(Places(q, u))
        /\ Copies(a, u) = Cardinality(Places(a, u))
    BY <1>1, CopiesType
  <1> HIDE DEF n, a
  <1>3. \A k : k \in 1 .. n + 1 <=> k = n + 1 \/ k \in 1 .. n
    BY <1>1
  <1>4. n + 1 \notin 1 .. n
    BY <1>1
  <1>5. CASE u = t
    <2>1. Places(a, u) = Places(q, u) \cup {n + 1} /\ n + 1 \notin Places(q, u)
      BY <1>1, <1>3, <1>4, <1>5 DEF Places, n
    <2> QED BY <1>2, <1>5, <2>1, FS_AddElement DEF a
  <1>6. CASE u # t
    <2>1. Places(a, u) = Places(q, u)
      BY <1>1, <1>3, <1>4, <1>6 DEF Places, n
    <2> QED BY <1>2, <1>6, <2>1 DEF a
  <1> QED BY <1>5, <1>6

LEMMA CopiesRemove ==
    ASSUME NEW q \in Seq(Text), NEW t \in Texts(q), NEW u
    PROVE  LET r == RemoveAt(q, FirstAt(q, t))
           IN  Copies(q, u) = IF u = t THEN Copies(r, u) + 1 ELSE Copies(r, u)
  <1>1. PICK k \in 1 .. Len(q) : k = FirstAt(q, t) /\ q[k] = t
    BY FirstAtFacts
  <1> DEFINE n == Len(q)
             r == RemoveAt(q, k)
             D == {j \in 1 .. n - 1 : r[j] = u}
             E == {j \in 1 .. n : q[j] = u /\ j # k}
             f == [j \in D |-> IF j < k THEN j ELSE j + 1]
  <1>2. n \in Nat /\ k \in 1 .. n /\ n - 1 \in Nat
    BY <1>1
  <1>3. /\ r \in Seq(Text) /\ Len(r) = n - 1
        /\ \A j \in 1 .. n - 1 : r[j] = IF j < k THEN q[j] ELSE q[j + 1]
    BY RemoveFacts
  <1> HIDE DEF r
  <1>4. /\ IsFiniteSet(Places(q, u)) /\ Copies(q, u) = Cardinality(Places(q, u))
        /\ IsFiniteSet(D) /\ Copies(r, u) = Cardinality(D)
    BY <1>3, CopiesType DEF Places
  <1>5. Places(q, u) = {j \in 1 .. n : q[j] = u}
    BY DEF Places
  <1> HIDE DEF n
  <1>6. f \in [D -> E]
    <2> SUFFICES ASSUME NEW j \in D PROVE (IF j < k THEN j ELSE j + 1) \in E
      OBVIOUS
    <2>1. j \in 1 .. n /\ j + 1 \in 1 .. n /\ (j < k => j # k) /\ (~(j < k) => j + 1 # k)
      BY <1>2
    <2> QED BY <1>3, <2>1
  <1>7. \A i, j \in D : f[i] = f[j] => i = j
    <2> SUFFICES ASSUME NEW i \in D, NEW j \in D, f[i] = f[j] PROVE i = j
      OBVIOUS
    <2>1. (IF i < k THEN i ELSE i + 1) = (IF j < k THEN j ELSE j + 1)
      OBVIOUS
    <2> QED BY <1>2, <2>1
  <1>8. \A i \in E : \E j \in D : f[j] = i
    <2> SUFFICES ASSUME NEW i \in E PROVE \E j \in D : f[j] = i
      OBVIOUS
    <2>1. CASE i < k
      <3>1. i \in 1 .. n - 1
        BY <1>2, <2>1
      <3>2. i \in D
        BY <1>3, <2>1, <3>1
      <3> QED BY <2>1, <3>2
    <2>2. CASE i > k
      <3>1. i - 1 \in 1 .. n - 1 /\ ~(i - 1 < k) /\ i - 1 + 1 = i
        BY <1>2, <2>2
      <3>2. r[i - 1] = q[i]
        BY <1>3, <3>1
      <3>3. i - 1 \in D
        BY <3>1, <3>2
      <3>4. f[i - 1] = i - 1 + 1
        BY <3>1, <3>3
      <3> QED BY <3>1, <3>3, <3>4
    <2>3. i \in 1 .. n /\ i # k
      OBVIOUS
    <2>4. i < k \/ i > k
      BY ONLY <1>2, <2>3
    <2> QED BY <2>1, <2>2, <2>4
  <1>9. f \in Surjection(D, E) /\ f \in Injection(D, E)
    <2> HIDE DEF f, D, E
    <2> QED BY <1>6, <1>7, <1>8 DEF Injection, Surjection, IsInjective
  <1>10. Cardinality(E) = Cardinality(D) /\ IsFiniteSet(E)
    <2> HIDE DEF f, D, E
    <2> QED BY <1>4, <1>9, FS_Surjection
  <1>11. CASE u = t
    <2>1. Places(q, u) = E \cup {k} /\ k \notin E
      BY <1>1, <1>2, <1>5, <1>11
    <2>2. Cardinality(Places(q, u)) = Cardinality(E) + 1
      BY <1>10, <2>1, FS_AddElement
    <2> QED BY <1>1, <1>4, <1>10, <1>11, <2>2 DEF r
  <1>12. CASE u # t
    <2>1. Places(q, u) = E
      BY <1>1, <1>5, <1>12
    <2> QED BY <1>1, <1>4, <1>10, <1>12, <2>1 DEF r
  <1> QED BY <1>11, <1>12

(* The labels of a snapshot are those of the store it was taken of. *)
LEMMA LabelsOfSnapshot ==
    ASSUME NEW m, StoreOK(m)
    PROVE  Labels(Snapshot(m)) = m.texts /\ m.texts \in Seq(Text)
  <1> DEFINE e == m.index.entries
  <1>1. m.texts \in Seq(Text) /\ Indexed(m.index) /\ Knows(m.index, m.texts)
    BY DEF StoreOK, StoreType
  <1>2. Snapshot(m).texts = m.texts /\ Snapshot(m).index = m.index
    BY DEF Snapshot
  <1>3. CASE m.texts # <<>>
    BY <1>1, <1>2, <1>3 DEF Labels
  <1>4. CASE m.texts = <<>>
    <2>1. e \in Seq([id : Nat, text : Text]) /\ Len(e) \in Nat
      BY <1>1, EntryFacts
    <2>2. \A t \in Text : m.index.ids[t] = None
      BY <1>1, <1>4 DEF Knows, Texts
    <2>3. \A k \in 1 .. Len(e) : e[k].text \in Text /\ m.index.ids[e[k].text] = k - 1
      BY <1>1, EntryFacts DEF Indexed
    <2>4. ASSUME NEW k \in 1 .. Len(e) PROVE FALSE
      <3>1. k - 1 \in Nat
        BY <2>1
      <3> QED BY <2>2, <2>3, <3>1, NoneFacts
    <2>5. e = <<>>
      <3>1. Len(e) = 0
        BY <2>1, <2>4
      <3> HIDE DEF e
      <3> QED BY <2>1, <3>1
    <2>6. Labels(Snapshot(m)) = [k \in DOMAIN <<>> |-> e[k].text]
      BY <1>2, <1>4, <2>5 DEF Labels
    <2> QED BY <1>1, <1>4, <2>6
  <1> QED BY <1>3, <1>4

(* What a store does to the number of copies. *)
LEMMA CopiesStored ==
    ASSUME NEW m, m.texts \in Seq(Text), NEW t \in Text, NEW u
    PROVE  Copies(Stored(m, t).texts, u)
              = IF u = t THEN Copies(m.texts, u) + 1 ELSE Copies(m.texts, u)
  <1>1. Stored(m, t).texts = Append(m.texts, t)
    BY DEF Stored
  <1> QED BY <1>1, CopiesAppend

-----------------------------------------------------------------------------
(* The stores of a text that were asked for and are neither staged nor       *)
(* answered, and those that failed and whose clients are not told yet.       *)
Waiting(t) ==
    {c \in Client : /\ pc[c] \in {"gate", "embed", "lock"}
                    /\ req[c] = [op |-> "store", text |-> t]}

Failed(t) ==
    {c \in Client : /\ pc[c] = "answer" /\ result[c] \in {"error", "full"}
                    /\ req[c] = [op |-> "store", text |-> t]}

Owing(t) == Waiting(t) \cup Failed(t)

Told(outcome, t) ==
    \E c \in Client : pc[c] = "answer" /\ result[c] = outcome /\ req[c].text = t

Under(op, t, stages) ==
    txn # None /\ txn.op = op /\ txn.text = t /\ txn.at \in stages

(* A store that is not in memory yet, or a removal that is and is not told.  *)
Due(t) ==
    IF \/ Under("store", t, {"save", "sync", "publish"})
       \/ Under("forget", t, {"index"})
       \/ Told("removed", t)
    THEN 1 ELSE 0

(* A store that is in memory and is not told yet. *)
Gained(t) == IF Under("store", t, {"index"}) \/ Told("stored", t) THEN 1 ELSE 0

Denied(t) == IF crashes = 0 THEN refused[t] ELSE 0

(* Of every text: what memory holds of it, what is still owed, what was      *)
(* denied and what is due was asked for; what was promised is in memory and  *)
(* in every snapshot, and those hold no more than was asked for.             *)
TextTally(t) ==
    /\ IsFiniteSet(Owing(t))
    /\ Copies(mem.texts, t) + Cardinality(Owing(t)) + Denied(t) + Due(t) <= sent[t]
    /\ up => promised[t] + Gained(t) <= Copies(mem.texts, t)
    /\ \A s \in kept \ {None} :
          /\ promised[t] <= Copies(Labels(s), t)
          /\ Copies(Labels(s), t) + Cardinality(Waiting(t)) <= sent[t]
    /\ None \in kept => promised[t] = 0

(* The mutation under way is the one its request asked for, and staged is    *)
(* the memory with it.                                                       *)
StagedOf(m) ==
    IF txn.op = "store" THEN txn.staged = Stored(m, txn.text)
    ELSE txn.text \in Texts(m.texts) /\ txn.staged = Forgotten(m, txn.text)

StagedOK ==
    txn # None =>
        /\ txn.at # "index" => StagedOf(mem)
        /\ txn.by # None => req[txn.by] = [op |-> txn.op, text |-> txn.text]

Counters ==
    /\ sent \in [Text -> Nat] /\ promised \in [Text -> Nat] /\ refused \in [Text -> Nat]
    /\ crashes \in Nat

(* While the process is down memory is empty, and before it first started    *)
(* nothing was denied.                                                       *)
Down == ~up => mem.texts = <<>> /\ (crashes = 0 => \A t \in Text : refused[t] = 0)

Tally == Counters /\ StagedOK /\ Down /\ \A t \in Text : TextTally(t)

-----------------------------------------------------------------------------
LEMMA MemTexts ==
    ASSUME IInv, Tally
    PROVE  mem.texts \in Seq(Text)
  <1>1. CASE ~up
    <2>1. mem.texts = <<>>
      BY <1>1 DEF Tally, Down
    <2> QED BY <2>1
  <1>2. CASE up /\ (txn = None \/ txn.at # "index")
    BY <1>2 DEF IInv, MutationOK, TxnOK, StoreOK, StoreType
  <1>3. CASE up /\ txn # None /\ txn.at = "index"
    <2>1. txn.staged \in StoreType /\ mem = [txn.staged EXCEPT !.index = mem.index]
      BY <1>3 DEF IInv, MutationOK, TxnOK, StoreOK
    <2>2. mem.texts = txn.staged.texts /\ txn.staged.texts \in Seq(Text)
      BY <2>1 DEF StoreType
    <2> QED BY <2>2
  <1> QED BY <1>1, <1>2, <1>3

LEMMA TallyFacts ==
    ASSUME IInv, Tally, NEW t \in Text
    PROVE  /\ TextTally(t)
           /\ Copies(mem.texts, t) \in Nat /\ sent[t] \in Nat /\ promised[t] \in Nat
           /\ refused[t] \in Nat /\ Denied(t) \in Nat
           /\ IsFiniteSet(Owing(t)) /\ Cardinality(Owing(t)) \in Nat
           /\ IsFiniteSet(Waiting(t)) /\ Cardinality(Waiting(t)) \in Nat
           /\ Cardinality(Waiting(t)) <= Cardinality(Owing(t))
           /\ Due(t) \in {0, 1} /\ Gained(t) \in {0, 1}
  <1>1. TextTally(t) /\ IsFiniteSet(Owing(t))
    BY DEF Tally, TextTally
  <1>2. Waiting(t) \in SUBSET Owing(t)
    BY DEF Owing
  <1>3. IsFiniteSet(Waiting(t)) /\ Cardinality(Waiting(t)) <= Cardinality(Owing(t))
    BY <1>1, <1>2, FS_Subset
  <1>4. Cardinality(Waiting(t)) \in Nat /\ Cardinality(Owing(t)) \in Nat
    BY <1>1, <1>3, FS_CardinalityType
  <1>5. Copies(mem.texts, t) \in Nat
    BY MemTexts, CopiesType
  <1>6. sent[t] \in Nat /\ promised[t] \in Nat /\ refused[t] \in Nat /\ Denied(t) \in Nat
    BY DEF Tally, Counters, Denied
  <1>7. Due(t) \in {0, 1} /\ Gained(t) \in {0, 1}
    BY DEF Due, Gained
  <1> QED BY <1>1, <1>3, <1>4, <1>5, <1>6, <1>7

(* The labels of a snapshot that can be found are texts. *)
LEMMA LabelsType ==
    ASSUME NEW s, Readable(s)
    PROVE  Labels(s) \in Seq(Text)
  <1>1. s.texts \in Seq(Text) /\ s.index.entries \in Seq([id : Nat, text : Text])
    BY DEF Readable, SnapshotType, IndexType
  <1> DEFINE e == s.index.entries
             Entry == [id : Nat, text : Text]
             g == [k \in 1 .. Len(e) |-> e[k].text]
  <1>2. e \in Seq(Entry) /\ \A x \in Entry : x.text \in Text
    BY <1>1
  <1> HIDE DEF Entry
  <1>3. Len(e) \in Nat /\ DOMAIN e = 1 .. Len(e) /\ \A k \in 1 .. Len(e) : e[k] \in Entry
    BY <1>2
  <1> HIDE DEF e
  <1>4. g \in [1 .. Len(e) -> Text]
    BY <1>2, <1>3
  <1>5. g \in Seq(Text)
    BY <1>3, <1>4, AsSequence
  <1>6. Labels(s) = s.texts \/ Labels(s) = g
    BY <1>3 DEF Labels, e
  <1> QED BY <1>1, <1>5, <1>6

LEMMA KeptCopies ==
    ASSUME IInv, NEW s \in kept \ {None}, NEW t \in Text
    PROVE  Copies(Labels(s), t) \in Nat
  BY LabelsType, CopiesType DEF IInv, DiskOK

(* One request at a time is at work, and none that was told of success has   *)
(* a mutation behind it.                                                     *)
LEMMA OneInside ==
    ASSUME IInv, NEW c \in Client, NEW d \in Client, pc[c] \in Inside, pc[d] \in Inside
    PROVE  c = d
  BY DEF IInv, RequestsOK

LEMMA ToldNone ==
    ASSUME IInv, NEW t, NEW o \in {"stored", "removed"}, Told(o, t)
    PROVE  txn = None /\ kept = {Snapshot(mem)}
  BY DEF IInv, ToldOK, Told

-----------------------------------------------------------------------------
(* A step that leaves memory, the disk and what was promised and denied      *)
(* alone: what is owed and due grows by no more than what is asked for.      *)
LEMMA StillTally ==
    ASSUME IInv, Tally, NEW t \in Text, NEW n \in Nat,
           up' = up, mem'.texts = mem.texts, kept' \subseteq kept,
           promised'[t] = promised[t], refused'[t] = refused[t], crashes' = crashes,
           sent'[t] = sent[t] + n,
           IsFiniteSet(Owing(t)'),
           Cardinality(Owing(t)') + Due(t)' <= Cardinality(Owing(t)) + Due(t) + n,
           Cardinality(Waiting(t)') <= Cardinality(Waiting(t)) + n,
           Gained(t)' <= Gained(t)
    PROVE  TextTally(t)'
  <1>1. Waiting(t)' \in SUBSET Owing(t)'
    BY DEF Owing
  <1>2. Cardinality(Owing(t)') \in Nat /\ Cardinality(Waiting(t)') \in Nat
    BY <1>1, FS_CardinalityType, FS_Subset
  <1>3. Denied(t)' = Denied(t)
    BY DEF Denied
  <1>4. Due(t)' \in {0, 1} /\ Gained(t)' \in {0, 1}
    BY DEF Due, Gained
  <1>5. Copies(mem'.texts, t) + Cardinality(Owing(t)') + Denied(t)' + Due(t)' <= sent'[t]
    <2>1. Copies(mem.texts, t) + Cardinality(Owing(t)) + Denied(t) + Due(t) <= sent[t]
      BY TallyFacts DEF TextTally
    <2> QED BY <1>2, <1>3, <1>4, <2>1, TallyFacts
  <1>6. up' => promised'[t] + Gained(t)' <= Copies(mem'.texts, t)
    <2>1. up => promised[t] + Gained(t) <= Copies(mem.texts, t)
      BY TallyFacts DEF TextTally
    <2> QED BY <1>4, <2>1, TallyFacts
  <1>7. \A s \in kept' \ {None} :
            /\ promised'[t] <= Copies(Labels(s), t)
            /\ Copies(Labels(s), t) + Cardinality(Waiting(t)') <= sent'[t]
    <2> SUFFICES ASSUME NEW s \in kept \ {None}
                 PROVE  /\ promised[t] <= Copies(Labels(s), t)
                        /\ Copies(Labels(s), t) + Cardinality(Waiting(t)') <= sent[t] + n
      OBVIOUS
    <2>1. /\ promised[t] <= Copies(Labels(s), t)
          /\ Copies(Labels(s), t) + Cardinality(Waiting(t)) <= sent[t]
      BY TallyFacts DEF TextTally
    <2> QED BY <1>2, <2>1, KeptCopies, TallyFacts
  <1>8. None \in kept' => promised'[t] = 0
    BY TallyFacts DEF TextTally
  <1> QED BY <1>5, <1>6, <1>7, <1>8 DEF TextTally

LEMMA CalmTally ==
    ASSUME IInv, Tally, NEW t \in Text,
           up' = up, mem'.texts = mem.texts, kept' \subseteq kept, sent'[t] = sent[t],
           promised'[t] = promised[t], refused'[t] = refused[t], crashes' = crashes,
           Waiting(t)' \subseteq Waiting(t), Owing(t)' \subseteq Owing(t),
           Due(t)' <= Due(t), Gained(t)' <= Gained(t)
    PROVE  TextTally(t)'
  <1>1. /\ IsFiniteSet(Owing(t)') /\ Cardinality(Owing(t)') <= Cardinality(Owing(t))
        /\ IsFiniteSet(Waiting(t)') /\ Cardinality(Waiting(t)') <= Cardinality(Waiting(t))
    BY TallyFacts, FS_Subset
  <1>2. Cardinality(Owing(t)') \in Nat /\ Cardinality(Waiting(t)') \in Nat
    BY <1>1, FS_CardinalityType
  <1>3. Due(t)' \in {0, 1}
    BY DEF Due
  <1>4. /\ sent'[t] = sent[t] + 0
        /\ Cardinality(Owing(t)') + Due(t)' <= Cardinality(Owing(t)) + Due(t) + 0
        /\ Cardinality(Waiting(t)') <= Cardinality(Waiting(t)) + 0
    BY <1>1, <1>2, <1>3, TallyFacts
  <1> QED BY <1>1, <1>4, StillTally

(* One more, or one fewer, of a finite set. *)
LEMMA OneMore ==
    ASSUME NEW S, NEW c, IsFiniteSet(S), NEW T \in SUBSET (S \cup {c})
    PROVE  /\ IsFiniteSet(T) /\ Cardinality(T) \in Nat /\ Cardinality(S) \in Nat
           /\ Cardinality(T) <= Cardinality(S) + 1
  <1>1. /\ IsFiniteSet(S \cup {c})
        /\ Cardinality(S \cup {c}) = IF c \in S THEN Cardinality(S) ELSE Cardinality(S) + 1
    BY FS_AddElement
  <1>2. IsFiniteSet(T) /\ Cardinality(T) <= Cardinality(S \cup {c})
    BY <1>1, FS_Subset
  <1>3. Cardinality(T) \in Nat /\ Cardinality(S) \in Nat
    BY <1>2, FS_CardinalityType
  <1> QED BY <1>1, <1>2, <1>3

LEMMA OneFewer ==
    ASSUME NEW S, NEW c \in S, IsFiniteSet(S), NEW T \in SUBSET (S \ {c})
    PROVE  /\ IsFiniteSet(T) /\ Cardinality(T) \in Nat /\ Cardinality(S) \in Nat
           /\ Cardinality(T) + 1 <= Cardinality(S)
  <1>1. IsFiniteSet(S \ {c}) /\ Cardinality(S \ {c}) = Cardinality(S) - 1
    BY FS_RemoveElement
  <1>2. IsFiniteSet(T) /\ Cardinality(T) <= Cardinality(S \ {c})
    BY <1>1, FS_Subset
  <1>3. Cardinality(T) \in Nat /\ Cardinality(S) \in Nat
    BY <1>2, FS_CardinalityType
  <1> QED BY <1>1, <1>2, <1>3

(* The steps of a request between being asked and being answered, and of the *)
(* requests that read.                                                       *)
LEMMA RequestCalm ==
    ASSUME IInv, Tally, NEW c \in Client,
           EnterGate(c) \/ Embed(c) \/ Decline(c) \/ Abandon(c)
    PROVE  Tally'
  <1>1. /\ up /\ up' = up /\ mem' = mem /\ kept' = kept /\ sent' = sent /\ promised' = promised
        /\ refused' = refused /\ crashes' = crashes /\ req' = req
        /\ \A d \in Client \ {c} : pc'[d] = pc[d] /\ result'[d] = result[d]
    <2>1. /\ up /\ up' = up /\ mem' = mem /\ kept' = kept /\ sent' = sent
          /\ promised' = promised /\ refused' = refused /\ crashes' = crashes /\ req' = req
      BY DEF EnterGate, Embed, Decline, Abandon, diskVars, tallyVars
    <2>2. \A d \in Client \ {c} : pc'[d] = pc[d] /\ result'[d] = result[d]
      <3>1. /\ \E x : pc' = [pc EXCEPT ![c] = x]
            /\ result' = result \/ \E x : result' = [result EXCEPT ![c] = x]
        BY DEF EnterGate, Embed, Decline, Declined, Abandon
      <3>2. pc = [d \in Client |-> pc[d]] /\ result = [d \in Client |-> result[d]]
        BY DEF IInv, RequestsOK
      <3> QED BY ONLY <3>1, <3>2
    <2> QED BY <2>1, <2>2
  <1>2. /\ pc'[c] \in {"embed", "lock"} => pc[c] \in {"gate", "embed"}
        /\ pc'[c] = "answer" => result'[c] \in {"error", "full", "not found"}
        /\ pc'[c] = "answer" /\ result'[c] \in {"error", "full"} /\ req[c].op = "store" =>
              pc[c] \in {"gate", "embed", "lock"}
        /\ pc'[c] # "gate"
    BY DEF EnterGate, Embed, Decline, Declined, Abandon, IInv, RequestsOK, Inside
  <1>3. /\ txn # None <=> txn' # None
        /\ txn # None => /\ txn'.op = txn.op /\ txn'.text = txn.text /\ txn'.at = txn.at
                         /\ txn'.staged = txn.staged /\ txn'.by \in {txn.by, None}
    <2>1. CASE txn' = txn
      BY <2>1
    <2>2. CASE txn' # txn
      <3>1. txn' = [txn EXCEPT !.by = None] /\ pc[c] = "write"
        BY <2>2 DEF EnterGate, Embed, Decline, Abandon
      <3>2. txn # None /\ txn \in Mutation
        BY <3>1 DEF IInv, MutationOK, TxnOK
      <3>3. txn' \in Mutation
        BY <3>1, <3>2 DEF Mutation
      <3> QED BY <3>1, <3>2, <3>3, SnapshotAssumption DEF Mutation
    <2> QED BY <2>1, <2>2
  <1>4. ASSUME NEW t \in Text PROVE TextTally(t)'
    <2>1. Waiting(t)' \subseteq Waiting(t)
      BY <1>1, <1>2 DEF Waiting
    <2>2. Failed(t)' \subseteq Owing(t)
      <3>1. ASSUME NEW d \in Client, d \in Failed(t)' PROVE d \in Owing(t)
        <4>1. /\ pc'[d] = "answer" /\ result'[d] \in {"error", "full"}
              /\ req[d] = [op |-> "store", text |-> t]
          BY <1>1, <3>1 DEF Failed
        <4>2. CASE d = c
          <5>1. req[d].op = "store"
            BY <4>1
          <5>2. pc[d] \in {"gate", "embed", "lock"}
            BY <1>2, <4>1, <4>2, <5>1
          <5> QED BY <4>1, <5>2 DEF Owing, Waiting
        <4>3. CASE d # c
          BY <1>1, <4>1, <4>3 DEF Owing, Failed
        <4> QED BY <4>2, <4>3
      <3> QED BY <3>1 DEF Failed
    <2>3. Owing(t)' \subseteq Owing(t)
      BY <2>1, <2>2 DEF Owing
    <2>4. \A o \in {"stored", "removed"} : Told(o, t)' => Told(o, t)
      BY <1>1, <1>2 DEF Told
    <2>5. \A op, stages : Under(op, t, stages)' => Under(op, t, stages)
      BY <1>3 DEF Under
    <2>6. Due(t)' <= Due(t) /\ Gained(t)' <= Gained(t)
      BY <2>4, <2>5 DEF Due, Gained
    <2> QED BY <1>1, <2>1, <2>3, <2>6, CalmTally
  <1>5. Counters' /\ Down'
    BY <1>1 DEF Tally, Counters, Down
  <1>6. StagedOK'
    BY <1>1, <1>3 DEF Tally, StagedOK, StagedOf
  <1> QED BY <1>4, <1>5, <1>6 DEF Tally

LEMMA ReadCalm ==
    ASSUME IInv, Tally, (\E r \in Reader : Retrieve(r) \/ RecallText(r)) \/ UNCHANGED vars
    PROVE  Tally'
  <1>1. /\ up' = up /\ mem' = mem /\ kept' = kept /\ sent' = sent /\ promised' = promised
        /\ refused' = refused /\ crashes' = crashes /\ req' = req /\ pc' = pc
        /\ result' = result /\ txn' = txn
    BY DEF Retrieve, RecallText, vars, diskVars, taskVars, tallyVars
  <1>2. ASSUME NEW t \in Text PROVE TextTally(t)'
    <2>1. /\ Waiting(t)' = Waiting(t) /\ Owing(t)' = Owing(t)
          /\ Due(t)' = Due(t) /\ Gained(t)' = Gained(t)
      BY <1>1 DEF Waiting, Owing, Failed, Due, Gained, Told, Under
    <2>2. Due(t) <= Due(t) /\ Gained(t) <= Gained(t)
      BY TallyFacts
    <2> QED BY <1>1, <2>1, <2>2, CalmTally
  <1> QED BY <1>1, <1>2 DEF Tally, Counters, Down, StagedOK, StagedOf

(* A request that arrives is asked for once. *)
LEMMA RequestTally == ASSUME IInv, Tally, NEW c \in Client, Request(c) PROVE Tally'
  <1>1. PICK op \in {"store", "forget"}, u \in Text :
            /\ req' = [req EXCEPT ![c] = [op |-> op, text |-> u]]
            /\ sent' = IF op = "store" THEN [sent EXCEPT ![u] = @ + 1] ELSE sent
    BY DEF Request
  <1>2. /\ up' = up /\ mem' = mem /\ kept' = kept /\ promised' = promised
        /\ refused' = refused /\ crashes' = crashes /\ txn' = txn /\ pc[c] = "idle"
        /\ pc' = [pc EXCEPT ![c] = "gate"] /\ result' = [result EXCEPT ![c] = None]
    BY DEF Request, diskVars
  <1>3. /\ pc'[c] = "gate" /\ req'[c] = [op |-> op, text |-> u]
        /\ \A d \in Client \ {c} : pc'[d] = pc[d] /\ req'[d] = req[d] /\ result'[d] = result[d]
    BY <1>1, <1>2 DEF IInv, RequestsOK
  <1>4. sent \in [Text -> Nat]
    BY DEF Tally, Counters
  <1>5. ASSUME NEW t \in Text PROVE TextTally(t)'
    <2>1. Failed(t)' \subseteq Failed(t)
      BY <1>3 DEF Failed
    <2>2. \A o : Told(o, t)' => Told(o, t)
      BY <1>3 DEF Told
    <2>3. Due(t)' <= Due(t) /\ Gained(t)' <= Gained(t)
      BY <1>2, <2>2 DEF Due, Gained, Under
    <2>4. CASE op = "store" /\ t = u
      <3>1. Waiting(t)' \subseteq Waiting(t) \cup {c}
        BY <1>3 DEF Waiting
      <3>2. Owing(t)' \subseteq Owing(t) \cup {c}
        BY <2>1, <3>1 DEF Owing
      <3>3. /\ Cardinality(Waiting(t)') <= Cardinality(Waiting(t)) + 1
            /\ IsFiniteSet(Owing(t)') /\ Cardinality(Owing(t)') \in Nat
            /\ Cardinality(Owing(t)') <= Cardinality(Owing(t)) + 1
        BY <3>1, <3>2, OneMore, TallyFacts
      <3>4. Due(t)' \in {0, 1} /\ sent'[t] = sent[t] + 1
        BY <1>1, <1>4, <2>4 DEF Due
      <3>5. Cardinality(Owing(t)') + Due(t)' <= Cardinality(Owing(t)) + Due(t) + 1
        BY <2>3, <3>3, <3>4, TallyFacts
      <3> QED BY <1>2, <2>3, <3>3, <3>4, <3>5, StillTally
    <2>5. CASE ~(op = "store" /\ t = u)
      <3>1. Waiting(t)' \subseteq Waiting(t)
        <4>1. [op |-> op, text |-> u] # [op |-> "store", text |-> t]
          BY <2>5
        <4> QED BY <1>3, <4>1 DEF Waiting
      <3>2. Owing(t)' \subseteq Owing(t)
        BY <2>1, <3>1 DEF Owing
      <3>3. sent'[t] = sent[t]
        BY <1>1, <1>4, <2>5
      <3> QED BY <1>2, <2>3, <3>1, <3>2, <3>3, CalmTally
    <2> QED BY <2>4, <2>5
  <1>6. Counters'
    BY <1>1, <1>2 DEF Tally, Counters
  <1>7. StagedOK'
    <2>1. txn # None /\ txn.by # None => txn.by \in Client \ {c}
      BY <1>2 DEF IInv, MutationOK, TxnOK, Mutation
    <2> QED BY <1>2, <1>3, <2>1 DEF Tally, StagedOK, StagedOf
  <1>8. Down'
    BY <1>2 DEF Tally, Down
  <1> QED BY <1>5, <1>6, <1>7, <1>8 DEF Tally

(* What is staged was owed, and is due. *)
LEMMA StageTally == ASSUME IInv, Tally, NEW c \in Client, Stage(c) PROVE Tally'
  <1>1. PICK o, u : o = req[c].op /\ u = req[c].text
    OBVIOUS
  <1>2. /\ up' = up /\ mem' = mem /\ kept' = kept /\ sent' = sent /\ promised' = promised
        /\ refused' = refused /\ crashes' = crashes /\ req' = req /\ result' = result
        /\ up /\ txn = None /\ pc[c] = "lock" /\ pc' = [pc EXCEPT ![c] = "write"]
    BY DEF Stage, GuardFree, diskVars, tallyVars
  <1>3. /\ o = "forget" => u \in Texts(mem.texts)
        /\ txn' = [ op |-> o, text |-> u, by |-> c, at |-> "save",
                    staged |-> IF o = "store" THEN Stored(mem, u) ELSE Forgotten(mem, u) ]
    BY <1>1 DEF Stage
  <1>4. /\ o \in {"store", "forget"} /\ u \in Text /\ req[c] = [op |-> o, text |-> u]
        /\ pc'[c] = "write" /\ \A d \in Client \ {c} : pc'[d] = pc[d]
        /\ \A d \in Client : pc[d] # "answer"
    BY <1>1, <1>2 DEF IInv, RequestsOK, Asked, Inside
  <1>5. /\ txn' # None /\ txn'.op = o /\ txn'.text = u /\ txn'.by = c /\ txn'.at = "save"
        /\ txn'.staged = IF o = "store" THEN Stored(mem, u) ELSE Forgotten(mem, u)
    <2>1. IInv'
      BY StageStep
    <2>2. pc'[c] = "write"
      BY <1>4
    <2>3. txn' # None
      BY <2>1, <2>2 DEF IInv, MutationOK
    <2> QED BY <1>3, <2>3
  <1>6. ASSUME NEW t \in Text PROVE TextTally(t)'
    <2>1. \A x : ~ Told(x, t)'
      BY <1>4 DEF Told
    <2>2. Gained(t)' = 0 /\ Due(t)' = IF o = "store" /\ t = u THEN 1 ELSE 0
      BY <1>5, <2>1 DEF Gained, Due, Under
    <2>3. Waiting(t)' \subseteq Waiting(t) \ {c} /\ Owing(t)' \subseteq Owing(t) \ {c}
      BY <1>2, <1>4 DEF Owing, Waiting, Failed
    <2>4. CASE o = "store" /\ t = u
      <3>1. c \in Waiting(t) /\ c \in Owing(t)
        BY <1>2, <1>4, <2>4 DEF Owing, Waiting
      <3>2. /\ IsFiniteSet(Owing(t)') /\ Cardinality(Owing(t)') + 1 <= Cardinality(Owing(t))
            /\ Cardinality(Owing(t)') \in Nat /\ Cardinality(Waiting(t)') \in Nat
            /\ Cardinality(Waiting(t)') + 1 <= Cardinality(Waiting(t))
        BY <2>3, <3>1, OneFewer, TallyFacts
      <3>3. Cardinality(Owing(t)') + Due(t)' <= Cardinality(Owing(t)) + Due(t) + 0
        BY <2>2, <2>4, <3>2, TallyFacts
      <3>4. /\ Cardinality(Waiting(t)') <= Cardinality(Waiting(t)) + 0
            /\ sent'[t] = sent[t] + 0 /\ Gained(t)' <= Gained(t)
        BY <1>2, <2>2, <3>2, TallyFacts
      <3> QED BY <1>2, <3>2, <3>3, <3>4, StillTally
    <2>5. CASE ~(o = "store" /\ t = u)
      <3>1. Due(t)' <= Due(t) /\ Gained(t)' <= Gained(t)
        BY <2>2, <2>5, TallyFacts
      <3> QED BY <1>2, <2>3, <3>1, CalmTally
    <2> QED BY <2>4, <2>5
  <1>7. StagedOK'
    BY <1>2, <1>3, <1>4, <1>5 DEF StagedOK, StagedOf
  <1>8. Counters' /\ Down'
    BY <1>2 DEF Tally, Counters, Down
  <1> QED BY <1>6, <1>7, <1>8 DEF Tally

-----------------------------------------------------------------------------
(* The mutation under way: nobody is told of success while it runs, and what *)
(* it staged has one copy more, or one fewer, than memory.                   *)
LEMMA TxnFacts ==
    ASSUME IInv, Tally, txn # None
    PROVE  /\ up /\ TxnOK /\ txn \in Mutation
           /\ txn.op \in {"store", "forget"} /\ txn.text \in Text
           /\ StoreOK(txn.staged) /\ Labels(Snapshot(txn.staged)) = txn.staged.texts
           /\ \A o \in {"stored", "removed"}, t \in Text : ~ Told(o, t)
           /\ \A t \in Text : Copies(txn.staged.texts, t) \in Nat
           /\ txn.op = "store" /\ txn.at # "index" => \A t \in Text :
                 Copies(txn.staged.texts, t) = Copies(mem.texts, t)
                                                  + (IF t = txn.text THEN 1 ELSE 0)
           /\ txn.op = "forget" /\ txn.at # "index" => \A t \in Text :
                 Copies(mem.texts, t) = Copies(txn.staged.texts, t)
                                           + (IF t = txn.text THEN 1 ELSE 0)
  <1>1. up /\ TxnOK /\ txn \in Mutation /\ StoreOK(txn.staged)
    BY DEF IInv, MutationOK, TxnOK
  <1>2. txn.op \in {"store", "forget"} /\ txn.text \in Text
    BY <1>1 DEF Mutation
  <1>3. Labels(Snapshot(txn.staged)) = txn.staged.texts /\ txn.staged.texts \in Seq(Text)
    BY <1>1, LabelsOfSnapshot
  <1>4. \A o \in {"stored", "removed"}, t \in Text : ~ Told(o, t)
    BY ToldNone
  <1>5. \A t \in Text : Copies(txn.staged.texts, t) \in Nat /\ Copies(mem.texts, t) \in Nat
    BY <1>3, CopiesType, MemTexts
  <1>6. ASSUME txn.op = "store", txn.at # "index", NEW t \in Text
        PROVE  Copies(txn.staged.texts, t) = Copies(mem.texts, t)
                                                + (IF t = txn.text THEN 1 ELSE 0)
    <2>1. txn.staged = Stored(mem, txn.text)
      BY <1>6 DEF Tally, StagedOK, StagedOf
    <2>2. Copies(Stored(mem, txn.text).texts, t)
             = IF t = txn.text THEN Copies(mem.texts, t) + 1 ELSE Copies(mem.texts, t)
      BY <1>2, MemTexts, CopiesStored
    <2>3. Copies(txn.staged.texts, t)
             = IF t = txn.text THEN Copies(mem.texts, t) + 1 ELSE Copies(mem.texts, t)
      BY ONLY <2>1, <2>2
    <2> QED BY ONLY <1>5, <2>3
  <1>7. ASSUME txn.op = "forget", txn.at # "index", NEW t \in Text
        PROVE  Copies(mem.texts, t) = Copies(txn.staged.texts, t)
                                         + (IF t = txn.text THEN 1 ELSE 0)
    <2>1. txn.text \in Texts(mem.texts) /\ txn.staged = Forgotten(mem, txn.text)
      BY <1>7 DEF Tally, StagedOK, StagedOf
    <2>2. Copies(mem.texts, t) = IF t = txn.text
                                 THEN Copies(Forgotten(mem, txn.text).texts, t) + 1
                                 ELSE Copies(Forgotten(mem, txn.text).texts, t)
      <3>1. PICK q, x : q = mem.texts /\ x = txn.text
        OBVIOUS
      <3>2. q \in Seq(Text) /\ x \in Texts(q)
        BY <2>1, <3>1, MemTexts
      <3>3. Forgotten(mem, x).texts = RemoveAt(q, FirstAt(q, x))
        BY <3>1 DEF Forgotten
      <3>4. Copies(q, t) = IF t = x THEN Copies(RemoveAt(q, FirstAt(q, x)), t) + 1
                           ELSE Copies(RemoveAt(q, FirstAt(q, x)), t)
        BY ONLY <3>2, CopiesRemove
      <3> QED BY ONLY <3>1, <3>3, <3>4
    <2>3. Copies(mem.texts, t) = IF t = txn.text THEN Copies(txn.staged.texts, t) + 1
                                 ELSE Copies(txn.staged.texts, t)
      BY ONLY <2>1, <2>2
    <2> QED BY ONLY <1>5, <2>3
  <1> QED BY <1>1, <1>2, <1>3, <1>4, <1>5, <1>6, <1>7

(* The blocking thread ends and its request is told: only a store that       *)
(* failed is owed again.                                                     *)
LEMMA FinishSets ==
    ASSUME IInv, Tally, txn # None, NEW outcome, Finish(outcome), req' = req,
           NEW t \in Text
    PROVE  /\ Waiting(t)' \subseteq Waiting(t)
           /\ Owing(t)' \subseteq Owing(t) \cup {txn.by}
           /\ ~(txn.op = "store" /\ txn.text = t /\ outcome \in {"error", "full"}) =>
                 Owing(t)' \subseteq Owing(t)
           /\ \A o \in {"stored", "removed"} :
                 Told(o, t)' => outcome = o /\ txn.text = t
  <1>1. \A o \in {"stored", "removed"} : ~ Told(o, t)
    BY TxnFacts
  <1>2. CASE txn.by = None
    <2>1. pc' = pc /\ result' = result
      BY <1>2 DEF Finish
    <2> QED BY <1>1, <2>1 DEF Waiting, Owing, Failed, Told
  <1>3. CASE txn.by # None
    <2>1. PICK b \in Client : b = txn.by
      BY <1>3, TxnFacts DEF Mutation
    <2>2. /\ pc[b] = "write" /\ req[b] = [op |-> txn.op, text |-> txn.text]
          /\ pc' = [pc EXCEPT ![b] = "answer"] /\ result' = [result EXCEPT ![b] = outcome]
      BY <1>3, <2>1, TxnFacts DEF TxnOK, Tally, StagedOK, Finish
    <2>3. /\ pc'[b] = "answer" /\ result'[b] = outcome
          /\ \A d \in Client \ {b} : pc'[d] = pc[d] /\ result'[d] = result[d]
      BY <2>2 DEF IInv, RequestsOK
    <2>4. Waiting(t)' \subseteq Waiting(t)
      BY <2>3 DEF Waiting
    <2>5. Failed(t)' \subseteq Failed(t) \cup {b}
      BY <2>3 DEF Failed
    <2>6. ~(txn.op = "store" /\ txn.text = t /\ outcome \in {"error", "full"}) =>
              Failed(t)' \subseteq Failed(t)
      <3>1. ~(txn.op = "store" /\ txn.text = t) =>
                req'[b] # [op |-> "store", text |-> t]
        BY <2>2
      <3> QED BY <2>3, <3>1 DEF Failed
    <2>7. ASSUME NEW o \in {"stored", "removed"}, Told(o, t)'
          PROVE  outcome = o /\ txn.text = t
      <3>1. PICK d \in Client : pc'[d] = "answer" /\ result'[d] = o /\ req[d].text = t
        BY <2>7 DEF Told
      <3>2. d = b
        BY <1>1, <2>3, <3>1 DEF Told
      <3> QED BY <2>2, <2>3, <3>1, <3>2
    <2> QED BY <2>1, <2>4, <2>5, <2>6, <2>7 DEF Owing
  <1> QED BY <1>2, <1>3

LEMMA FailTally == ASSUME IInv, Tally, SaveFails \/ SyncFails PROVE Tally'
  <1>1. /\ txn # None /\ txn.at \in {"save", "sync"} /\ Finish("error") /\ txn' = None
        /\ up' = up /\ mem' = mem /\ kept' = kept /\ sent' = sent /\ promised' = promised
        /\ refused' = refused /\ crashes' = crashes /\ req' = req
    BY DEF SaveFails, SyncFails, At, Finish, diskVars, tallyVars
  <1>2. ASSUME NEW t \in Text PROVE TextTally(t)'
    <2>1. /\ Waiting(t)' \subseteq Waiting(t)
          /\ Owing(t)' \subseteq Owing(t) \cup {txn.by}
          /\ ~(txn.op = "store" /\ txn.text = t) => Owing(t)' \subseteq Owing(t)
          /\ \A o \in {"stored", "removed"} : ~ Told(o, t)'
      BY <1>1, FinishSets
    <2>2. Due(t)' = 0 /\ Gained(t)' = 0
      BY <1>1, <2>1 DEF Due, Gained, Under
    <2>3. CASE txn.op = "store" /\ txn.text = t
      <3>1. Due(t) = 1
        BY <1>1, <2>3 DEF Due, Under
      <3>2. /\ IsFiniteSet(Owing(t)') /\ Cardinality(Owing(t)') \in Nat
            /\ Cardinality(Owing(t)') <= Cardinality(Owing(t)) + 1
        BY <2>1, OneMore, TallyFacts
      <3>3. Cardinality(Owing(t)') + Due(t)' <= Cardinality(Owing(t)) + Due(t) + 0
        BY <2>2, <3>1, <3>2, TallyFacts
      <3>4. /\ Cardinality(Waiting(t)') <= Cardinality(Waiting(t)) + 0
            /\ sent'[t] = sent[t] + 0 /\ Gained(t)' <= Gained(t)
        <4>1. Cardinality(Waiting(t)') <= Cardinality(Waiting(t))
          BY <2>1, FS_Subset, TallyFacts
        <4> QED BY <1>1, <2>2, <4>1, TallyFacts
      <3> QED BY <1>1, <3>2, <3>3, <3>4, StillTally
    <2>4. CASE ~(txn.op = "store" /\ txn.text = t)
      <3>1. Due(t)' <= Due(t) /\ Gained(t)' <= Gained(t)
        BY <2>2, TallyFacts
      <3> QED BY <1>1, <2>1, <2>4, <3>1, CalmTally
    <2> QED BY <2>3, <2>4
  <1>3. Counters' /\ StagedOK' /\ Down'
    BY <1>1 DEF Tally, Counters, StagedOK, Down
  <1> QED BY <1>2, <1>3 DEF Tally

LEMMA SyncTally == ASSUME IInv, Tally, SyncDirectory PROVE Tally'
  <1>1. /\ txn # None /\ txn.at = "sync" /\ txn' = [txn EXCEPT !.at = "publish"]
        /\ up' = up /\ mem' = mem /\ kept' \subseteq kept /\ sent' = sent
        /\ promised' = promised /\ refused' = refused /\ crashes' = crashes
        /\ req' = req /\ pc' = pc /\ result' = result
    BY DEF SyncDirectory, At, taskVars, tallyVars, IInv, DiskOK
  <1>2. /\ txn' # None /\ txn'.op = txn.op /\ txn'.text = txn.text /\ txn'.by = txn.by
        /\ txn'.at = "publish" /\ txn'.staged = txn.staged
    <2>1. txn \in Mutation /\ txn' \in Mutation
      BY <1>1, TxnFacts DEF Mutation
    <2> QED BY <1>1, <2>1, SnapshotAssumption DEF Mutation
  <1>3. ASSUME NEW t \in Text PROVE TextTally(t)'
    <2>1. Waiting(t)' = Waiting(t) /\ Owing(t)' = Owing(t)
      BY <1>1 DEF Waiting, Owing, Failed
    <2>2. Due(t)' = Due(t) /\ Gained(t)' = Gained(t)
      BY <1>1, <1>2 DEF Due, Gained, Under, Told
    <2>3. Due(t) <= Due(t) /\ Gained(t) <= Gained(t)
      BY TallyFacts
    <2> QED BY <1>1, <2>1, <2>2, <2>3, CalmTally
  <1>4. StagedOK'
    BY <1>1, <1>2 DEF Tally, StagedOK, StagedOf
  <1>5. Counters' /\ Down'
    BY <1>1 DEF Tally, Counters, Down
  <1> QED BY <1>3, <1>4, <1>5 DEF Tally

(* The new snapshot holds what was staged, and a removal is no longer        *)
(* promised.                                                                 *)
LEMMA RenameTally == ASSUME IInv, Tally, Rename PROVE Tally'
  <1>1. /\ txn # None /\ txn.at = "save" /\ txn' = [txn EXCEPT !.at = "sync"]
        /\ up' = up /\ mem' = mem /\ sent' = sent /\ refused' = refused /\ crashes' = crashes
        /\ kept' = kept \cup {Snapshot(txn.staged)}
        /\ promised' = IF txn.op = "forget"
                       THEN [promised EXCEPT ![txn.text] = Less(@)] ELSE promised
        /\ req' = req /\ pc' = pc /\ result' = result
    BY DEF Rename, At, taskVars
  <1>2. /\ txn' # None /\ txn'.op = txn.op /\ txn'.text = txn.text /\ txn'.by = txn.by
        /\ txn'.at = "sync" /\ txn'.staged = txn.staged
    <2>1. txn \in Mutation /\ txn' \in Mutation
      BY <1>1, TxnFacts DEF Mutation
    <2> QED BY <1>1, <2>1, SnapshotAssumption DEF Mutation
  <1>3. /\ promised \in [Text -> Nat] /\ promised' \in [Text -> Nat]
        /\ \A t \in Text : /\ promised'[t] <= promised[t]
                           /\ txn.op = "forget" /\ t = txn.text /\ promised[t] # 0 =>
                                 promised'[t] = promised[t] - 1
    <2>1. promised \in [Text -> Nat] /\ txn.op \in {"store", "forget"} /\ txn.text \in Text
      BY <1>1, TxnFacts DEF Tally, Counters
    <2>2. CASE txn.op # "forget"
      BY <1>1, <2>1, <2>2
    <2>3. CASE txn.op = "forget"
      <3>1. PICK n \in Nat : n = Less(promised[txn.text]) /\ n <= promised[txn.text]
                             /\ (promised[txn.text] # 0 => n = promised[txn.text] - 1)
        BY <2>1 DEF Less
      <3>2. promised' = [promised EXCEPT ![txn.text] = n]
        BY <1>1, <2>3, <3>1
      <3> QED BY <2>1, <3>1, <3>2
    <2> QED BY <2>2, <2>3
  <1>4. ASSUME NEW t \in Text PROVE TextTally(t)'
    <2>1. Waiting(t)' = Waiting(t) /\ Owing(t)' = Owing(t) /\ Denied(t)' = Denied(t)
      BY <1>1 DEF Waiting, Owing, Failed, Denied
    <2>2. Due(t)' = Due(t) /\ Gained(t)' = Gained(t)
      BY <1>1, <1>2 DEF Due, Gained, Under, Told
    <2>3. /\ Copies(mem.texts, t) + Cardinality(Owing(t)) + Denied(t) + Due(t) <= sent[t]
          /\ promised[t] + Gained(t) <= Copies(mem.texts, t)
          /\ txn.op = "store" /\ t = txn.text => Due(t) = 1
      BY <1>1, TxnFacts, TallyFacts DEF TextTally, Due, Under
    <2>4. promised'[t] \in Nat /\ promised'[t] <= promised[t]
      BY <1>3
    <2>5. up' => promised'[t] + Gained(t)' <= Copies(mem'.texts, t)
      BY <1>1, <2>2, <2>3, <2>4, TallyFacts
    <2>6. /\ promised'[t] <= Copies(txn.staged.texts, t)
          /\ Copies(txn.staged.texts, t) + Cardinality(Waiting(t)) <= sent[t]
      <3> DEFINE m == Copies(mem.texts, t)
                 s == Copies(txn.staged.texts, t)
      <3>1. /\ m \in Nat /\ s \in Nat /\ txn.op \in {"store", "forget"}
            /\ txn.op = "store" => s = m + (IF t = txn.text THEN 1 ELSE 0)
            /\ txn.op = "forget" => m = s + (IF t = txn.text THEN 1 ELSE 0)
        BY <1>1, TxnFacts, TallyFacts
      <3> HIDE DEF m, s
      <3>2. m + Cardinality(Owing(t)) + Denied(t) + Due(t) <= sent[t] /\ promised[t] <= m
        BY <2>3, TallyFacts DEF m
      <3>3. promised'[t] <= s
        BY <1>3, <2>4, <3>1, <3>2, TallyFacts
      <3>4. s + Cardinality(Waiting(t)) <= sent[t]
        BY <2>3, <3>1, <3>2, TallyFacts
      <3> QED BY <3>3, <3>4 DEF s
    <2>7. \A s \in kept' \ {None} :
              /\ promised'[t] <= Copies(Labels(s), t)
              /\ Copies(Labels(s), t) + Cardinality(Waiting(t)) <= sent[t]
      <3> SUFFICES ASSUME NEW s \in kept' \ {None}
                   PROVE  /\ promised'[t] <= Copies(Labels(s), t)
                          /\ Copies(Labels(s), t) + Cardinality(Waiting(t)) <= sent[t]
        OBVIOUS
      <3>1. CASE s \in kept
        <4>1. /\ promised[t] <= Copies(Labels(s), t)
              /\ Copies(Labels(s), t) + Cardinality(Waiting(t)) <= sent[t]
          BY <3>1, TallyFacts DEF TextTally
        <4> QED BY <2>4, <3>1, <4>1, KeptCopies, TallyFacts
      <3>2. CASE s = Snapshot(txn.staged)
        BY <1>1, <2>6, <3>2, TxnFacts
      <3> QED BY <1>1, <3>1, <3>2
    <2>8. None \in kept' => promised'[t] = 0
      <3>1. Snapshot(txn.staged) # None
        BY <1>1, TxnFacts, SnapshotOK, SnapshotAssumption DEF Readable
      <3>2. None \in kept' => promised[t] = 0
        BY <1>1, <3>1, TallyFacts DEF TextTally
      <3> QED BY <2>4, <3>2
    <2> QED BY <1>1, <2>1, <2>2, <2>3, <2>5, <2>7, <2>8, TallyFacts DEF TextTally
  <1>5. StagedOK'
    BY <1>1, <1>2 DEF Tally, StagedOK, StagedOf
  <1>6. Counters' /\ Down'
    BY <1>1, <1>3 DEF Tally, Counters, Down
  <1> QED BY <1>4, <1>5, <1>6 DEF Tally

(* What was staged is in memory: a store is gained, a removal is due. *)
LEMMA PublishTally == ASSUME IInv, Tally, PublishStores PROVE Tally'
  <1>1. /\ txn # None /\ txn.at = "publish" /\ txn' = [txn EXCEPT !.at = "index"]
        /\ mem' = [txn.staged EXCEPT !.index = mem.index]
        /\ up' = up /\ sent' = sent /\ refused' = refused /\ crashes' = crashes
        /\ kept' = kept /\ promised' = promised
        /\ req' = req /\ pc' = pc /\ result' = result
    BY DEF PublishStores, At, taskVars, diskVars, tallyVars
  <1>2. /\ txn' # None /\ txn'.op = txn.op /\ txn'.text = txn.text /\ txn'.by = txn.by
        /\ txn'.at = "index" /\ txn'.staged = txn.staged
    <2>1. txn \in Mutation /\ txn' \in Mutation
      BY <1>1, TxnFacts DEF Mutation
    <2> QED BY <1>1, <2>1, SnapshotAssumption DEF Mutation
  <1>3. mem'.texts = txn.staged.texts /\ up
    <2>1. txn.staged \in StoreType /\ up
      BY <1>1, TxnFacts DEF StoreOK
    <2> QED BY <1>1, <2>1 DEF StoreType
  <1>4. ASSUME NEW t \in Text PROVE TextTally(t)'
    <2>1. Waiting(t)' = Waiting(t) /\ Owing(t)' = Owing(t) /\ Denied(t)' = Denied(t)
      BY <1>1 DEF Waiting, Owing, Failed, Denied
    <2>2. \A o \in {"stored", "removed"} : ~ Told(o, t) /\ ~ Told(o, t)'
      BY <1>1, TxnFacts DEF Told
    <2>3. /\ Due(t) = IF txn.op = "store" /\ t = txn.text THEN 1 ELSE 0
          /\ Due(t)' = IF txn.op = "forget" /\ t = txn.text THEN 1 ELSE 0
          /\ Gained(t)' = IF txn.op = "store" /\ t = txn.text THEN 1 ELSE 0
      BY <1>1, <1>2, <2>2 DEF Due, Gained, Under
    <2> DEFINE m == Copies(mem.texts, t)
               s == Copies(txn.staged.texts, t)
    <2>4. /\ m \in Nat /\ s \in Nat /\ txn.op \in {"store", "forget"}
          /\ txn.op = "store" => s = m + (IF t = txn.text THEN 1 ELSE 0)
          /\ txn.op = "forget" => m = s + (IF t = txn.text THEN 1 ELSE 0)
      BY <1>1, TxnFacts, TallyFacts
    <2>5. m + Cardinality(Owing(t)) + Denied(t) + Due(t) <= sent[t] /\ promised[t] <= m
      BY <1>3, TallyFacts DEF TextTally
    <2>6. promised[t] <= s
      <3>1. Snapshot(txn.staged) \in kept
        BY <1>1, TxnFacts DEF TxnOK, IInv, DiskOK
      <3>2. Snapshot(txn.staged) # None
        BY <1>1, TxnFacts, SnapshotOK, SnapshotAssumption DEF Readable
      <3> QED BY <1>1, <3>1, <3>2, TxnFacts, TallyFacts DEF TextTally
    <2> HIDE DEF m, s
    <2>7. s + Cardinality(Owing(t)) + Denied(t) + Due(t)' <= sent[t]
      BY <2>3, <2>4, <2>5, TallyFacts
    <2>8. promised[t] + Gained(t)' <= s
      BY <2>3, <2>4, <2>5, <2>6, TallyFacts
    <2>9. Copies(mem'.texts, t) = s
      BY <1>3 DEF s
    <2> QED BY <1>1, <2>1, <2>7, <2>8, <2>9, TallyFacts DEF TextTally
  <1>5. StagedOK'
    BY <1>1, <1>2 DEF Tally, StagedOK
  <1>6. Counters' /\ Down'
    BY <1>1, <1>3 DEF Tally, Counters, Down
  <1> QED BY <1>4, <1>5, <1>6 DEF Tally

LEMMA PublishIndexTally == ASSUME IInv, Tally, PublishIndex PROVE Tally'
  <1>1. PICK outcome : /\ outcome = IF txn.op = "store" THEN "stored" ELSE "removed"
                       /\ Finish(outcome)
    BY DEF PublishIndex
  <1>2. /\ txn # None /\ txn.at = "index" /\ txn' = None
        /\ mem' = [mem EXCEPT !.index = txn.staged.index]
        /\ up' = up /\ sent' = sent /\ refused' = refused /\ crashes' = crashes
        /\ kept' = kept /\ promised' = promised /\ req' = req
    BY DEF PublishIndex, At, Finish, diskVars, tallyVars
  <1>3. mem'.texts = mem.texts /\ up
    <2>1. txn.staged \in StoreType /\ mem = [txn.staged EXCEPT !.index = mem.index] /\ up
      BY <1>2, TxnFacts DEF StoreOK, TxnOK
    <2> QED BY <1>2, <2>1 DEF StoreType
  <1>4. ASSUME NEW t \in Text PROVE TextTally(t)'
    <2>1. outcome \notin {"error", "full"} /\ txn.op \in {"store", "forget"}
      BY <1>1, <1>2, TxnFacts
    <2>2. /\ Waiting(t)' \subseteq Waiting(t) /\ Owing(t)' \subseteq Owing(t)
          /\ \A o \in {"stored", "removed"} : Told(o, t)' => outcome = o /\ txn.text = t
      BY <1>1, <1>2, <2>1, FinishSets
    <2>3. /\ Told("removed", t)' => txn.op = "forget" /\ txn.text = t
          /\ Told("stored", t)' => txn.op = "store" /\ txn.text = t
      BY <1>1, <2>1, <2>2
    <2>4. Due(t)' <= Due(t) /\ Gained(t)' <= Gained(t)
      BY <1>2, <2>3 DEF Due, Gained, Under
    <2> QED BY <1>2, <1>3, <2>2, <2>4, CalmTally
  <1>5. Counters' /\ StagedOK' /\ Down'
    BY <1>2, <1>3 DEF Tally, Counters, StagedOK, Down
  <1> QED BY <1>4, <1>5 DEF Tally

(* What a client is told moves from what is gained to what is promised, from *)
(* what is due to what is no longer asked for, or from what is owed to what  *)
(* was denied.                                                               *)
LEMMA AnswerTally == ASSUME IInv, Tally, NEW c \in Client, Answer(c) PROVE Tally'
  <1>1. PICK u \in Text : u = req[c].text
    BY DEF Answer, IInv, RequestsOK, Asked
  <1>2. /\ up /\ up' = up /\ mem' = mem /\ kept' = kept /\ crashes' = crashes
        /\ req' = req /\ result' = result /\ txn' = txn
        /\ pc[c] = "answer" /\ pc' = [pc EXCEPT ![c] = "idle"]
    BY DEF Answer, diskVars
  <1>3. /\ promised' = IF result[c] = "stored" THEN [promised EXCEPT ![u] = @ + 1] ELSE promised
        /\ sent' = IF result[c] = "removed" THEN [sent EXCEPT ![u] = Less(@)] ELSE sent
        /\ refused' = IF req[c].op = "store" /\ result[c] \in {"error", "full"}
                      THEN [refused EXCEPT ![u] = @ + 1] ELSE refused
    BY <1>1 DEF Answer
  <1>4. /\ sent \in [Text -> Nat] /\ promised \in [Text -> Nat] /\ refused \in [Text -> Nat]
    BY DEF Tally, Counters
  <1>5. /\ promised' \in [Text -> Nat] /\ refused' \in [Text -> Nat] /\ sent' \in [Text -> Nat]
        /\ \A t \in Text :
              /\ promised'[t] = IF result[c] = "stored" /\ t = u THEN promised[t] + 1 ELSE promised[t]
              /\ refused'[t] = IF /\ req[c].op = "store" /\ result[c] \in {"error", "full"}
                                  /\ t = u
                               THEN refused[t] + 1 ELSE refused[t]
              /\ sent'[t] = IF result[c] = "removed" /\ t = u THEN Less(sent[t]) ELSE sent[t]
    <2>1. promised[u] + 1 \in Nat /\ refused[u] + 1 \in Nat /\ Less(sent[u]) \in Nat
      BY <1>4 DEF Less
    <2>2. PICK n \in Nat : n = Less(sent[u])
      BY <2>1
    <2> QED BY <1>3, <1>4, <2>1, <2>2
  <1>6. \A d \in Client : d # c => pc'[d] = pc[d] /\ pc[d] # "answer"
    BY <1>2, OneInside DEF IInv, RequestsOK, Inside
  <1>7. pc'[c] = "idle"
    BY <1>2 DEF IInv, RequestsOK
  <1>8. ASSUME NEW t \in Text PROVE TextTally(t)'
    <2>1. Waiting(t)' \subseteq Waiting(t) /\ Owing(t)' \subseteq Owing(t)
      BY <1>2, <1>6, <1>7 DEF Waiting, Owing, Failed
    <2>2. \A o : ~ Told(o, t)'
      BY <1>6, <1>7 DEF Told
    <2>3. \A op, stages : Under(op, t, stages)' <=> Under(op, t, stages)
      BY <1>2 DEF Under
    <2>4. Due(t)' <= Due(t) /\ Gained(t)' <= Gained(t)
      BY <2>2, <2>3 DEF Due, Gained
    <2>5. CASE t # u \/ ~(\/ result[c] \in {"stored", "removed"}
                          \/ req[c].op = "store" /\ result[c] \in {"error", "full"})
      <3>1. promised'[t] = promised[t] /\ refused'[t] = refused[t] /\ sent'[t] = sent[t]
        BY <1>5, <2>5
      <3> QED BY <1>2, <2>1, <2>4, <3>1, CalmTally
    <2>6. CASE t = u /\ req[c].op = "store" /\ result[c] \in {"error", "full"}
      <3>1. /\ promised'[t] = promised[t] /\ refused'[t] = refused[t] + 1 /\ sent'[t] = sent[t]
        BY <1>5, <2>6
      <3>2. c \in Failed(t) /\ c \notin Owing(t)'
        <4>1. req[c] = [op |-> "store", text |-> t]
          <5>1. req[c] \in Asked
            BY <1>2 DEF IInv, RequestsOK
          <5> QED BY <1>1, <2>6, <5>1 DEF Asked
        <4> QED BY <1>2, <1>7, <2>6, <4>1 DEF Failed, Owing, Waiting
      <3>3. Owing(t)' \in SUBSET (Owing(t) \ {c}) /\ c \in Owing(t)
        BY <2>1, <3>2 DEF Owing
      <3>4. /\ IsFiniteSet(Owing(t)') /\ Cardinality(Owing(t)') \in Nat
            /\ Cardinality(Owing(t)') + 1 <= Cardinality(Owing(t))
        BY <3>3, OneFewer, TallyFacts
      <3>5. /\ Cardinality(Waiting(t)') <= Cardinality(Waiting(t))
            /\ Cardinality(Waiting(t)') \in Nat
        <4>1. IsFiniteSet(Waiting(t)') /\ Cardinality(Waiting(t)') <= Cardinality(Waiting(t))
          BY <2>1, FS_Subset, TallyFacts
        <4> QED BY <4>1, FS_CardinalityType
      <3>6. Denied(t)' \in Nat /\ Denied(t)' <= Denied(t) + 1
        BY <1>2, <1>4, <3>1 DEF Denied
      <3>7. Due(t)' \in {0, 1} /\ Gained(t)' \in {0, 1}
        BY DEF Due, Gained
      <3>8. /\ Copies(mem.texts, t) + Cardinality(Owing(t)) + Denied(t) + Due(t) <= sent[t]
            /\ promised[t] + Gained(t) <= Copies(mem.texts, t)
        BY <1>2, TallyFacts DEF TextTally
      <3>9. /\ Copies(mem.texts, t) + Cardinality(Owing(t)') + Denied(t)' + Due(t)' <= sent[t]
            /\ promised[t] + Gained(t)' <= Copies(mem.texts, t)
        BY <2>4, <3>4, <3>6, <3>7, <3>8, TallyFacts
      <3>10. \A s \in kept \ {None} :
                 /\ promised[t] <= Copies(Labels(s), t)
                 /\ Copies(Labels(s), t) + Cardinality(Waiting(t)') <= sent[t]
        <4> SUFFICES ASSUME NEW s \in kept \ {None}
                     PROVE  /\ promised[t] <= Copies(Labels(s), t)
                            /\ Copies(Labels(s), t) + Cardinality(Waiting(t)') <= sent[t]
          OBVIOUS
        <4>1. /\ promised[t] <= Copies(Labels(s), t)
              /\ Copies(Labels(s), t) + Cardinality(Waiting(t)) <= sent[t]
          BY TallyFacts DEF TextTally
        <4> QED BY <3>5, <4>1, KeptCopies, TallyFacts
      <3>11. None \in kept => promised[t] = 0
        BY TallyFacts DEF TextTally
      <3> QED BY <1>2, <3>1, <3>4, <3>9, <3>10, <3>11 DEF TextTally
    <2>7. CASE t = u /\ result[c] \in {"stored", "removed"}
      <3>1. Told(result[c], t)
        BY <1>1, <1>2, <2>7 DEF Told
      <3>2. txn = None /\ kept = {Snapshot(mem)}
        BY <2>7, <3>1, ToldNone
      <3>3. StoreOK(mem)
        BY <1>2, <3>2 DEF IInv, MutationOK
      <3>4. /\ Snapshot(mem) # None /\ Labels(Snapshot(mem)) = mem.texts
        BY <3>3, SnapshotOK, SnapshotAssumption, LabelsOfSnapshot DEF Readable
      <3>5. refused'[t] = refused[t] /\ Denied(t)' = Denied(t)
        BY <1>2, <1>5, <2>7 DEF Denied
      <3>6. /\ Due(t) = IF result[c] = "removed" THEN 1 ELSE 0
            /\ Gained(t) = IF result[c] = "stored" THEN 1 ELSE 0
        <4>1. ~ Under("store", t, {"save", "sync", "publish"})
              /\ ~ Under("forget", t, {"index"}) /\ ~ Under("store", t, {"index"})
          BY <3>2 DEF Under
        <4>2. \A o : Told(o, t) => o = result[c]
          BY <1>6 DEF Told
        <4> QED BY <2>7, <3>1, <4>1, <4>2 DEF Due, Gained
      <3>7. Due(t)' = 0 /\ Gained(t)' = 0
        BY <1>2, <2>2, <3>2 DEF Due, Gained, Under
      <3>8. /\ IsFiniteSet(Owing(t)') /\ Cardinality(Owing(t)') \in Nat
            /\ Cardinality(Owing(t)') <= Cardinality(Owing(t))
            /\ Cardinality(Waiting(t)') \in Nat
            /\ Cardinality(Waiting(t)') <= Cardinality(Waiting(t))
        <4>1. /\ IsFiniteSet(Owing(t)') /\ Cardinality(Owing(t)') <= Cardinality(Owing(t))
              /\ IsFiniteSet(Waiting(t)')
              /\ Cardinality(Waiting(t)') <= Cardinality(Waiting(t))
          BY <2>1, FS_Subset, TallyFacts
        <4> QED BY <4>1, FS_CardinalityType
      <3>9. /\ Copies(mem.texts, t) + Cardinality(Owing(t)) + Denied(t) + Due(t) <= sent[t]
            /\ promised[t] + Gained(t) <= Copies(mem.texts, t)
        BY <1>2, TallyFacts DEF TextTally
      <3>10. /\ sent'[t] = IF result[c] = "removed" THEN sent[t] - 1 ELSE sent[t]
             /\ promised'[t] = IF result[c] = "stored" THEN promised[t] + 1 ELSE promised[t]
        <4>1. result[c] = "removed" => sent[t] # 0
          BY <3>6, <3>9, TallyFacts
        <4>2. result[c] = "removed" => Less(sent[t]) = sent[t] - 1
          BY <4>1 DEF Less
        <4> QED BY <1>5, <2>7, <4>2
      <3>11. /\ Copies(mem.texts, t) + Cardinality(Owing(t)') + Denied(t) + 0 <= sent'[t]
             /\ promised'[t] + 0 <= Copies(mem.texts, t)
             /\ promised'[t] <= Copies(mem.texts, t)
             /\ Copies(mem.texts, t) + Cardinality(Waiting(t)') <= sent'[t]
        BY <3>6, <3>8, <3>9, <3>10, TallyFacts
      <3>12. \A s \in kept : s # None /\ Labels(s) = mem.texts
        BY <3>2, <3>4
      <3> QED BY <1>2, <3>5, <3>7, <3>8, <3>11, <3>12 DEF TextTally
    <2> QED BY <2>5, <2>6, <2>7
  <1>9. Counters'
    BY <1>2, <1>5 DEF Tally, Counters
  <1>10. StagedOK' /\ Down'
    BY <1>2 DEF Tally, StagedOK, StagedOf, Down
  <1> QED BY <1>8, <1>9, <1>10 DEF Tally

-----------------------------------------------------------------------------
(* A crash drops what was owed and due, and a start loads a snapshot that    *)
(* can be found.                                                             *)
LEMMA CrashTally == ASSUME IInv, Tally, Crash PROVE Tally'
  <1>1. /\ up' = FALSE /\ txn' = None /\ pc' = [c \in Client |-> "idle"] /\ req' = req
        /\ result' = result /\ sent' = sent /\ promised' = promised /\ refused' = refused
        /\ crashes' = crashes + 1 /\ kept' \subseteq kept /\ mem'.texts = <<>>
    BY DEF Crash, diskVars, tallyVars, EmptyStore
  <1>2. crashes' \in Nat /\ crashes' # 0
    BY <1>1 DEF Tally, Counters
  <1>3. ASSUME NEW t \in Text PROVE TextTally(t)'
    <2>1. Owing(t)' = {} /\ Waiting(t)' = {}
      BY <1>1 DEF Owing, Waiting, Failed
    <2>2. Due(t)' = 0 /\ Denied(t)' = 0
      BY <1>1, <1>2 DEF Due, Under, Told, Denied
    <2>3. Cardinality({}) = 0 /\ IsFiniteSet({})
      BY FS_EmptySet
    <2>4. Copies(mem'.texts, t) = 0
      BY <1>1, CopiesEmpty
    <2>5. Copies(mem'.texts, t) + Cardinality(Owing(t)') + Denied(t)' + Due(t)' <= sent'[t]
      BY <1>1, <2>1, <2>2, <2>3, <2>4, TallyFacts
    <2>6. \A s \in kept' \ {None} :
              /\ promised'[t] <= Copies(Labels(s), t)
              /\ Copies(Labels(s), t) + Cardinality(Waiting(t)') <= sent'[t]
      <3> SUFFICES ASSUME NEW s \in kept \ {None}
                   PROVE  /\ promised[t] <= Copies(Labels(s), t)
                          /\ Copies(Labels(s), t) + 0 <= sent[t]
        BY <1>1, <2>1, <2>3
      <3>1. /\ promised[t] <= Copies(Labels(s), t)
            /\ Copies(Labels(s), t) + Cardinality(Waiting(t)) <= sent[t]
        BY TallyFacts DEF TextTally
      <3> QED BY <3>1, KeptCopies, TallyFacts
    <2>7. None \in kept' => promised'[t] = 0
      BY <1>1, TallyFacts DEF TextTally
    <2> QED BY <1>1, <2>1, <2>3, <2>5, <2>6, <2>7 DEF TextTally
  <1>4. Counters' /\ StagedOK' /\ Down'
    BY <1>1, <1>2 DEF Tally, Counters, StagedOK, Down
  <1> QED BY <1>3, <1>4 DEF Tally

LEMMA RestartTally == ASSUME IInv, Tally, Restart PROVE Tally'
  <1>1. /\ ~up /\ up' /\ txn' = txn /\ pc' = pc /\ req' = req /\ result' = result
        /\ sent' = sent /\ promised' = promised /\ refused' = refused
        /\ crashes' = crashes /\ kept' = kept
    BY DEF Restart, diskVars, taskVars, tallyVars
  <1>2. txn = None /\ \A c \in Client : pc[c] = "idle"
    BY <1>1 DEF IInv, MutationOK
  <1>3. \/ disk = None /\ mem'.texts = <<>>
        \/ disk # None /\ mem'.texts = Labels(disk)
    BY DEF Restart, EmptyStore, Loaded
  <1>4. ASSUME NEW t \in Text PROVE TextTally(t)'
    <2>1. /\ Owing(t)' = {} /\ Waiting(t)' = {} /\ Owing(t) = {} /\ Waiting(t) = {}
          /\ Due(t)' = 0 /\ Gained(t)' = 0 /\ Denied(t)' = Denied(t)
      BY <1>1, <1>2 DEF Owing, Waiting, Failed, Due, Gained, Under, Told, Denied
    <2>2. Cardinality({}) = 0 /\ IsFiniteSet({})
      BY FS_EmptySet
    <2>3. Denied(t) = 0
      <3>1. crashes = 0 => refused[t] = 0
        BY <1>1 DEF Tally, Down
      <3> QED BY <3>1 DEF Denied
    <2>4. /\ Copies(mem'.texts, t) + 0 + 0 + 0 <= sent[t]
          /\ promised[t] + 0 <= Copies(mem'.texts, t)
      <3>1. CASE disk = None
        <4>1. disk \in kept
          BY DEF IInv, DiskOK
        <4>2. promised[t] = 0
          BY <3>1, <4>1, TallyFacts DEF TextTally
        <4>3. Copies(mem'.texts, t) = 0
          BY <1>3, <3>1, CopiesEmpty
        <4> QED BY <4>2, <4>3, TallyFacts
      <3>2. CASE disk # None
        <4>1. disk \in kept \ {None} /\ mem'.texts = Labels(disk)
          BY <1>3, <3>2 DEF IInv, DiskOK
        <4>2. /\ promised[t] <= Copies(Labels(disk), t)
              /\ Copies(Labels(disk), t) + Cardinality(Waiting(t)) <= sent[t]
          BY <4>1, TallyFacts DEF TextTally
        <4>3. Copies(Labels(disk), t) \in Nat
          BY <4>1, KeptCopies
        <4> QED BY <2>1, <2>2, <4>1, <4>2, <4>3, TallyFacts
      <3> QED BY <3>1, <3>2
    <2>5. /\ \A s \in kept \ {None} :
                /\ promised[t] <= Copies(Labels(s), t)
                /\ Copies(Labels(s), t) + Cardinality(Waiting(t)) <= sent[t]
          /\ None \in kept => promised[t] = 0
      BY TallyFacts DEF TextTally
    <2> QED BY <1>1, <2>1, <2>2, <2>3, <2>4, <2>5 DEF TextTally
  <1>5. Counters' /\ StagedOK' /\ Down'
    BY <1>1, <1>2 DEF Tally, Counters, StagedOK, Down
  <1> QED BY <1>4, <1>5 DEF Tally

LEMMA InitTally == Init => Tally
  <1> SUFFICES ASSUME Init PROVE Tally
    OBVIOUS
  <1>1. /\ ~up /\ txn = None /\ mem.texts = <<>> /\ crashes = 0 /\ kept = {disk}
        /\ pc = [c \in Client |-> "idle"] /\ refused = [t \in Text |-> 0]
        /\ sent = [t \in Text |-> IF disk = None THEN 0 ELSE Copies(Labels(disk), t)]
        /\ promised = sent
    BY DEF Init, EmptyStore
  <1>2. \A t \in Text : disk # None => Copies(Labels(disk), t) \in Nat
    <2>1. disk # None => Readable(disk)
      BY SnapshotAssumption DEF Init
    <2> QED BY <2>1, LabelsType, CopiesType
  <1>3. Counters
    BY <1>1, <1>2 DEF Counters
  <1>4. ASSUME NEW t \in Text PROVE TextTally(t)
    <2>1. Owing(t) = {} /\ Waiting(t) = {} /\ Due(t) = 0 /\ Denied(t) = 0
      BY <1>1 DEF Owing, Waiting, Failed, Due, Under, Told, Denied
    <2>2. Cardinality({}) = 0 /\ IsFiniteSet({}) /\ Copies(mem.texts, t) = 0
      BY <1>1, FS_EmptySet, CopiesEmpty
    <2>3. sent[t] \in Nat /\ sent[t] = promised[t]
          /\ sent[t] = IF disk = None THEN 0 ELSE Copies(Labels(disk), t)
      BY <1>1, <1>3 DEF Counters
    <2>4. Copies(mem.texts, t) + Cardinality(Owing(t)) + Denied(t) + Due(t) <= sent[t]
      BY <2>1, <2>2, <2>3
    <2>5. \A s \in kept \ {None} :
              /\ promised[t] <= Copies(Labels(s), t)
              /\ Copies(Labels(s), t) + Cardinality(Waiting(t)) <= sent[t]
      BY <1>1, <2>1, <2>2, <2>3
    <2>6. None \in kept => promised[t] = 0
      BY <1>1, <2>3
    <2> QED BY <1>1, <2>1, <2>2, <2>4, <2>5, <2>6 DEF TextTally
  <1>5. StagedOK /\ Down
    BY <1>1 DEF StagedOK, Down
  <1> QED BY <1>3, <1>4, <1>5 DEF Tally

LEMMA TallyStep == ASSUME IInv, Tally, [Next]_vars PROVE Tally'
  <1>1. ASSUME NEW c \in Client, Request(c) \/ Handle(c) \/ Abandon(c) PROVE Tally'
    BY <1>1, RequestTally, RequestCalm, StageTally, AnswerTally DEF Handle
  <1>2. CASE Blocking
    BY <1>2, FailTally, RenameTally, SyncTally, PublishTally, PublishIndexTally DEF Blocking
  <1>3. CASE (\E r \in Reader : Retrieve(r) \/ RecallText(r)) \/ UNCHANGED vars
    BY <1>3, ReadCalm
  <1> QED BY <1>1, <1>2, <1>3, CrashTally, RestartTally DEF Next

(* Of every reachable state: what memory and the snapshots hold of a text    *)
(* agrees with what was asked for, promised and denied of it.                *)
THEOREM TallyInvariance == Spec => [](IInv /\ Tally)
  <1>1. Init => IInv /\ Tally
    BY InitInv, InitTally
  <1>2. IInv /\ Tally /\ [Next]_vars => (IInv /\ Tally)'
    BY StepInv, TallyStep
  <1> QED BY <1>1, <1>2, PTL DEF Spec

(* AppState::store and forget: what was confirmed is in memory and in every  *)
(* snapshot that a crash can leave, until its removal is on the disk, and    *)
(* what was not asked for, or was removed, is in none.                       *)
THEOREM KeptAsConfirmed == Spec => []ConfirmedKept
  <1>1. IInv /\ Tally => ConfirmedKept
    <2> SUFFICES ASSUME IInv, Tally, NEW t \in Text
                 PROVE  /\ up => Copies(mem.texts, t) \in promised[t] .. sent[t]
                        /\ \A s \in kept \ {None} : Copies(Labels(s), t) \in promised[t] .. sent[t]
                        /\ None \in kept => promised[t] = 0
      BY DEF ConfirmedKept
    <2>1. /\ Copies(mem.texts, t) + Cardinality(Owing(t)) + Denied(t) + Due(t) <= sent[t]
          /\ up => promised[t] + Gained(t) <= Copies(mem.texts, t)
          /\ None \in kept => promised[t] = 0
      BY TallyFacts DEF TextTally
    <2>2. ASSUME NEW s \in kept \ {None}
          PROVE  Copies(Labels(s), t) \in promised[t] .. sent[t]
      <3>1. /\ promised[t] <= Copies(Labels(s), t)
            /\ Copies(Labels(s), t) + Cardinality(Waiting(t)) <= sent[t]
        BY TallyFacts DEF TextTally
      <3> QED BY <3>1, KeptCopies, TallyFacts
    <2> QED BY <2>1, <2>2, TallyFacts
  <1> QED BY <1>1, TallyInvariance, PTL

(* manager.rs, commit_inner: until a crash, a mutation that was answered     *)
(* with an error is not in memory.                                           *)
THEOREM RefusedIsOut == Spec => []RefusedNotPublished
  <1>1. IInv /\ Tally => RefusedNotPublished
    <2> SUFFICES ASSUME IInv, Tally, crashes = 0, NEW t \in Text
                 PROVE  Copies(mem.texts, t) + refused[t] <= sent[t]
      BY DEF RefusedNotPublished
    <2>1. Copies(mem.texts, t) + Cardinality(Owing(t)) + Denied(t) + Due(t) <= sent[t]
      BY TallyFacts DEF TextTally
    <2>2. Denied(t) = refused[t]
      BY DEF Denied
    <2> QED BY <2>1, <2>2, TallyFacts
  <1> QED BY <1>1, TallyInvariance, PTL

-----------------------------------------------------------------------------
(* What the stores are asked: recall, contradiction and surprise.            *)

(* The greatest of some integers that are bounded. *)
LEMMA MaxFacts ==
    ASSUME NEW S \in SUBSET Int, NEW x \in S, NEW b \in Int, \A y \in S : y <= b
    PROVE  /\ Max(S) \in S /\ \A y \in S : y <= Max(S)
           /\ (\A y \in S : y <= x) => Max(S) = x
  <1> DEFINE P == {b - y : y \in S}
  <1>1. P \in SUBSET Nat
    <2> SUFFICES ASSUME NEW y \in S PROVE b - y \in Nat
      OBVIOUS
    <2>1. y \in Int /\ y <= b
      OBVIOUS
    <2> QED BY <2>1
  <1>2. b - x \in P
    OBVIOUS
  <1>3. PICK p \in P : \A n \in P : p <= n
    <2> HIDE DEF P
    <2> QED BY <1>1, <1>2, LeastOf
  <1>4. PICK m \in S : p = b - m
    BY <1>3
  <1>5. \A y \in S : m >= y
    <2> SUFFICES ASSUME NEW y \in S PROVE m >= y
      OBVIOUS
    <2>1. b - m <= b - y
      BY <1>3, <1>4
    <2>2. m \in Int /\ y \in Int
      OBVIOUS
    <2> QED BY <2>1, <2>2
  <1>6. Max(S) \in S /\ \A y \in S : Max(S) >= y
    BY <1>5 DEF Max
  <1> HIDE DEF P
  <1>7. PICK g : g = Max(S)
    OBVIOUS
  <1>8. g \in S /\ g \in Int /\ \A y \in S : y <= g
    <2>1. g \in S /\ \A y \in S : g >= y
      BY <1>6, <1>7
    <2> QED BY <2>1
  <1>9. ASSUME \A y \in S : y <= x PROVE g = x
    <2>1. g <= x /\ x <= g /\ x \in Int
      BY <1>8, <1>9
    <2> QED BY <1>8, <2>1
  <1> QED BY <1>7, <1>8, <1>9

(* A similarity is of two texts, and at most 10.                             *)
LEMMA SimilarityType ==
    ASSUME NEW q \in Question, NEW items \in Seq(Text), NEW k \in 1 .. Len(items)
    PROVE  /\ items[k] \in Text /\ items[k] \in Question
           /\ Similarity(q, items[k]) \in Int
           /\ Similarity(q, items[k]) <= 10
  <1>1. items[k] \in Text
    OBVIOUS
  <1>2. Similarity(q, items[k]) \in -10 .. 10
    BY <1>1, QueriesAssumption
  <1>3. items[k] \in Question
    BY <1>1, QueriesAssumption
  <1>4. PICK s : s = Similarity(q, items[k])
    OBVIOUS
  <1>5. s \in Int /\ s <= 10
    BY <1>2, <1>4
  <1> QED BY <1>1, <1>3, <1>4, <1>5

(* There is a best match unless there is nothing to match. *)
LEMMA BestFacts ==
    ASSUME NEW q \in Question, NEW items \in Seq(Text), items # <<>>
    PROVE  /\ BestAt(q, items) \in 1 .. Len(items)
           /\ \A n \in 1 .. Len(items) :
                 Similarity(q, items[n]) <= Similarity(q, items[BestAt(q, items)])
  <1> DEFINE L == Len(items)
             sim(k) == Similarity(q, items[k])
             S == {sim(k) : k \in 1 .. L}
             P == {k \in 1 .. L : \A n \in 1 .. L : sim(n) <= sim(k)}
  <1>1. L \in Nat /\ 1 \in 1 .. L /\ DOMAIN items = 1 .. L
    OBVIOUS
  <1>2. \A k \in 1 .. L : sim(k) \in Int /\ sim(k) <= 10
    BY SimilarityType
  <1>3. P = {k \in DOMAIN items :
               \A n \in DOMAIN items : Similarity(q, items[n]) <= Similarity(q, items[k])}
    BY <1>1
  <1> HIDE DEF L, sim
  <1>4. PICK m \in S : \A y \in S : y <= m
    <2>1. S \in SUBSET Int /\ sim(1) \in S /\ \A y \in S : y <= 10
      BY <1>1, <1>2
    <2> HIDE DEF S
    <2>2. PICK x \in S : TRUE
      BY <2>1
    <2>3. 10 \in Int
      OBVIOUS
    <2>4. Max(S) \in S /\ \A y \in S : y <= Max(S)
      BY <2>1, <2>2, <2>3, MaxFacts
    <2> QED BY <2>4
  <1>5. PICK k \in 1 .. L : m = sim(k)
    BY <1>4
  <1>6. k \in P
    BY <1>4, <1>5
  <1>7. P \in SUBSET Nat
    BY <1>1
  <1>8. PICK f \in P : \A n \in P : f <= n
    <2> HIDE DEF P
    <2> QED BY <1>6, <1>7, LeastOf
  <1>9. Min(P) \in P
    BY <1>8 DEF Min
  <1>10. BestAt(q, items) \in P
    <2> HIDE DEF P
    <2> QED BY <1>3, <1>9 DEF BestAt
  <1> QED BY <1>10 DEF L, sim

(* A text that is stored is its own best match, and nothing else is. *)
LEMMA OwnMatch ==
    ASSUME NEW items \in Seq(Text), NEW t \in Texts(items)
    PROVE  /\ items # <<>> /\ t \in Text /\ t \in Question
           /\ items[BestAt(t, items)] = t /\ Similarity(t, t) = 10
  <1>1. PICK k \in 1 .. Len(items) : items[k] = t
    BY DEF Texts
  <1>2. t \in Text /\ items # <<>>
    BY <1>1
  <1>3. t \in Question /\ Similarity(t, t) = 10
    BY <1>2, QueriesAssumption
  <1>4. PICK b : b = BestAt(t, items)
    OBVIOUS
  <1>5. b \in 1 .. Len(items) /\ \A n \in 1 .. Len(items) :
            Similarity(t, items[n]) <= Similarity(t, items[b])
    BY <1>2, <1>3, <1>4, BestFacts
  <1>6. 10 <= Similarity(t, items[b])
    BY <1>1, <1>3, <1>5
  <1>7. /\ items[b] \in Text /\ Similarity(t, items[b]) \in Int
        /\ Similarity(t, items[b]) <= 10
    BY <1>3, <1>5, SimilarityType
  <1>8. Similarity(t, items[b]) = 10
    BY <1>6, <1>7
  <1>9. items[b] = t
    BY <1>2, <1>7, <1>8, QueriesAssumption
  <1> QED BY <1>2, <1>3, <1>4, <1>9

(* The larger of a number and 0.                                             *)
LEMMA FloorFacts ==
    ASSUME NEW s \in Int, s <= 10
    PROVE  Max({0, s}) = IF s > 0 THEN s ELSE 0
  <1> DEFINE S == {0, s}
  <1>1. S \in SUBSET Int /\ 0 \in S /\ s \in S /\ \A y \in S : y <= 10
    OBVIOUS
  <1>2. s > 0 => \A y \in S : y <= s
    OBVIOUS
  <1>3. ~(s > 0) => \A y \in S : y <= 0
    OBVIOUS
  <1> HIDE DEF S
  <1>4. s > 0 => Max(S) = s
    BY <1>1, <1>2, MaxFacts
  <1>5. ~(s > 0) => Max(S) = 0
    BY <1>1, <1>3, MaxFacts
  <1> QED BY <1>4, <1>5 DEF S

(* So it is retrieved with a full score, and does not surprise.              *)
LEMMA FullScore ==
    ASSUME NEW items \in Seq(Text), NEW t \in Texts(items)
    PROVE  /\ Retrieved(t, items) = [value |-> t, energy |-> -50]
           /\ Unsurprising(items, t)
  <1>1. /\ items # <<>> /\ items[BestAt(t, items)] = t /\ Similarity(t, t) = 10
    BY OwnMatch
  <1>2. Max({0, Similarity(t, t)}) = 10
    <2>1. Max({0, 10}) = 10
      BY FloorFacts
    <2> QED BY <1>1, <2>1
  <1>3. Retrieved(t, items) = [value |-> t, energy |-> -5 * 10]
    BY <1>1, <1>2 DEF Retrieved
  <1>4. -5 * 10 = -50
    OBVIOUS
  <1>5. Unsurprising(items, t)
    BY <1>1 DEF Unsurprising, Predicted
  <1> QED BY <1>3, <1>4, <1>5

(* There is no match only when nothing stored is near. *)
LEMMA NoMatch ==
    ASSUME NEW items \in Seq(Text), NEW q \in Question
    PROVE  (Tier(Retrieved(q, items).energy) # "no match") <=>
              \E t \in Texts(items) : Similarity(q, t) > 0
  <1>1. CASE items = <<>>
    <2>1. Retrieved(q, items).energy = 0
      BY <1>1 DEF Retrieved
    <2>2. Tier(0) = "no match"
      BY DEF Tier
    <2>3. Texts(items) = {}
      BY <1>1 DEF Texts
    <2> QED BY <2>1, <2>2, <2>3
  <1>2. CASE items # <<>>
    <2>1. PICK b : b = BestAt(q, items)
      OBVIOUS
    <2>2. b \in 1 .. Len(items) /\ \A n \in 1 .. Len(items) :
              Similarity(q, items[n]) <= Similarity(q, items[b])
      BY <1>2, <2>1, BestFacts
    <2>3. PICK s : s = Similarity(q, items[b])
      OBVIOUS
    <2>4. s \in Int /\ s <= 10
      BY <2>2, <2>3, SimilarityType
    <2>5. Max({0, s}) = IF s > 0 THEN s ELSE 0
      BY <2>4, FloorFacts
    <2>6. Retrieved(q, items).energy = -5 * (IF s > 0 THEN s ELSE 0)
      BY <1>2, <2>1, <2>3, <2>5 DEF Retrieved
    <2>7. s > 0 => Tier(-5 * s) # "no match"
      <3> SUFFICES ASSUME s > 0 PROVE Tier(-5 * s) # "no match"
        OBVIOUS
      <3>1. PICK e : e = -5 * s
        OBVIOUS
      <3>2. e \in Int /\ e < 0
        BY <2>4, <3>1
      <3>3. Tier(e) # "no match"
        BY <3>2 DEF Tier
      <3> QED BY <3>1, <3>3
    <2>8. Tier(-5 * 0) = "no match"
      <3>1. \A x \in Int : x <= 0 => -5 * x \in Int /\ -5 * x >= 0
        OBVIOUS
      <3>2. PICK e : e = -5 * 0
        OBVIOUS
      <3>3. e \in Int /\ e >= 0
        BY <3>1, <3>2
      <3>4. Tier(e) = "no match"
        BY <3>3 DEF Tier
      <3> QED BY <3>2, <3>4
    <2>9. (Tier(Retrieved(q, items).energy) # "no match") <=> s > 0
      BY <2>6, <2>7, <2>8
    <2>10. s > 0 => \E t \in Texts(items) : Similarity(q, t) > 0
      BY <2>2, <2>3 DEF Texts
    <2>11. ASSUME NEW t \in Texts(items), Similarity(q, t) > 0 PROVE s > 0
      <3>1. PICK n \in 1 .. Len(items) : t = items[n]
        BY DEF Texts
      <3>2. PICK v : v = Similarity(q, items[n])
        OBVIOUS
      <3>3. v <= s /\ v > 0 /\ v \in Int
        BY <2>2, <2>3, <2>11, <3>1, <3>2, SimilarityType
      <3> QED BY <2>4, <3>3
    <2> QED BY <2>9, <2>10, <2>11
  <1> QED BY <1>1, <1>2

-----------------------------------------------------------------------------
(* How close the nearest other item is, and no closer than not at all. *)
Closeness(items, k) ==
    {0} \cup {Similarity(items[n], items[k]) : n \in DOMAIN items \ {k}}

Closest(items, k) == Max(Closeness(items, k))

(* How close the nearest is, is a similarity that is there.                  *)
LEMMA ClosestFacts ==
    ASSUME NEW items \in Seq(Text), NEW k \in 1 .. Len(items)
    PROVE  /\ Closeness(items, k) \in SUBSET Int
           /\ \A y \in Closeness(items, k) : y <= 10
           /\ 0 \in Closeness(items, k)
           /\ Closest(items, k) \in Closeness(items, k)
           /\ Closest(items, k) \in Int /\ 0 <= Closest(items, k) /\ Closest(items, k) <= 10
           /\ \A y \in Closeness(items, k) : y <= Closest(items, k)
  <1> DEFINE S == Closeness(items, k)
  <1>1. ASSUME NEW y \in S PROVE y \in Int /\ y <= 10
    <2>1. CASE y = 0
      BY <2>1
    <2>2. CASE y # 0
      <3>1. PICK n \in DOMAIN items : y = Similarity(items[n], items[k])
        BY <2>2 DEF Closeness
      <3>2. n \in 1 .. Len(items)
        OBVIOUS
      <3>3. items[n] \in Question
        BY <3>2, QueriesAssumption
      <3> QED BY <3>1, <3>3, SimilarityType
    <2> QED BY <2>1, <2>2
  <1>2. 0 \in S
    BY DEF Closeness
  <1>3. Closest(items, k) = Max(S)
    BY DEF Closest
  <1> HIDE DEF S
  <1>4. S \in SUBSET Int /\ \A y \in S : y <= 10
    BY <1>1
  <1>5. 10 \in Int
    OBVIOUS
  <1>6. Max(S) \in S /\ \A y \in S : y <= Max(S)
    BY <1>2, <1>4, <1>5, MaxFacts
  <1> QED BY <1>2, <1>3, <1>4, <1>6 DEF S

(* A fact that is appended is one more neighbour. *)
LEMMA AppendCloseness ==
    ASSUME NEW items \in Seq(Text), NEW t \in Text, NEW k \in 1 .. Len(items)
    PROVE  /\ k \in 1 .. Len(Append(items, t)) /\ Append(items, t) \in Seq(Text)
           /\ Closeness(Append(items, t), k)
                 = Closeness(items, k) \cup {Similarity(t, items[k])}
  <1> DEFINE L == Len(items)
             a == Append(items, t)
  <1>1. L \in Nat /\ DOMAIN items = 1 .. L /\ k \in 1 .. L
    OBVIOUS
  <1>2. /\ a \in Seq(Text) /\ Len(a) = L + 1 /\ DOMAIN a = 1 .. L + 1 /\ a[L + 1] = t
        /\ \A n \in 1 .. L : a[n] = items[n]
    OBVIOUS
  <1> HIDE DEF L, a
  <1>3. k \in 1 .. L + 1 /\ L + 1 # k /\ L + 1 \in 1 .. L + 1
        /\ \A n : n \in 1 .. L + 1 <=> n \in 1 .. L \/ n = L + 1
    BY <1>1
  <1>4. a[k] = items[k]
    BY <1>1, <1>2
  <1>5. ASSUME NEW y
        PROVE  (\E n \in DOMAIN a \ {k} : y = Similarity(a[n], a[k])) <=>
                  \/ \E n \in DOMAIN items \ {k} : y = Similarity(items[n], items[k])
                  \/ y = Similarity(t, items[k])
    BY <1>1, <1>2, <1>3, <1>4
  <1>6. Closeness(a, k) = Closeness(items, k) \cup {Similarity(t, items[k])}
    BY <1>5 DEF Closeness
  <1> QED BY <1>2, <1>3, <1>6 DEF a

(* check_contradiction of an item: how much closer the fact is to it than    *)
(* what is stored.                                                           *)
LEMMA DropFacts ==
    ASSUME NEW items \in Seq(Text), NEW t \in Text, NEW k \in 1 .. Len(items)
    PROVE  /\ Drop(items, t, k) \in Int /\ Drop(items, t, k) <= 50
           /\ (Drop(items, t, k) > 5) <=> Similarity(t, items[k]) > Closest(items, k) + 1
  <1> DEFINE a == Append(items, t)
             A == Closeness(a, k)
             B == Closeness(items, k)
  <1>1. PICK s : s = Similarity(t, items[k])
    OBVIOUS
  <1>2. s \in Int /\ s <= 10
    <2>1. t \in Question
      BY QueriesAssumption
    <2> QED BY <1>1, <2>1, SimilarityType
  <1>3. /\ a \in Seq(Text) /\ k \in 1 .. Len(a) /\ A = B \cup {s}
        /\ k \in DOMAIN items /\ k \in DOMAIN a
    <2>1. k \in 1 .. Len(a) /\ a \in Seq(Text) /\ A = B \cup {s}
      BY <1>1, AppendCloseness
    <2> HIDE DEF a
    <2> QED BY <2>1
  <1>4. PICK c : c = Closest(items, k)
    OBVIOUS
  <1>5. PICK d : d = Closest(a, k)
    OBVIOUS
  <1>6. /\ EnergySnapshot(items)[k] = -5 * c
        /\ EnergySnapshot(a)[k] = -5 * d
    BY <1>3, <1>4, <1>5 DEF EnergySnapshot, Closest, Closeness
  <1> HIDE DEF a, A, B
  <1>7. c \in B /\ c \in Int /\ 0 <= c /\ \A y \in B : y <= c
    BY <1>4, ClosestFacts DEF B
  <1>8. d \in A /\ d \in Int /\ d <= 10 /\ \A y \in A : y <= d
    BY <1>3, <1>5, ClosestFacts DEF A
  <1>9. c <= d /\ s <= d /\ (d = s \/ d = c)
    <2>1. d = s \/ d <= c
      BY <1>3, <1>7, <1>8
    <2>2. c <= d /\ s <= d
      BY <1>3, <1>7, <1>8
    <2> QED BY <1>7, <1>8, <2>1, <2>2
  <1>10. Drop(items, t, k) = 5 * d - 5 * c
    <2>1. Drop(items, t, k) = (-5 * c) - (-5 * d)
      BY <1>6 DEF Drop, a
    <2>2. \A x, y \in Int : (-5 * x) - (-5 * y) = 5 * y - 5 * x
      OBVIOUS
    <2> QED BY <1>7, <1>8, <2>1, <2>2
  <1>11. 5 * d - 5 * c \in Int /\ 5 * d - 5 * c <= 50
    BY <1>7, <1>8
  <1>12. (5 * d - 5 * c > 5) <=> s > c + 1
    BY <1>2, <1>7, <1>8, <1>9
  <1> QED BY <1>1, <1>4, <1>10, <1>11, <1>12

(* So a contradiction names the items that the fact is closer to.            *)
LEMMA CrowdedFacts ==
    ASSUME NEW items \in Seq(Text), NEW t \in Text
    PROVE  Crowded(items, t) =
              {k \in DOMAIN items : Similarity(t, items[k]) > Closest(items, k) + 1}
  <1>1. DOMAIN items = 1 .. Len(items)
    OBVIOUS
  <1>2. \A k \in 1 .. Len(items) :
           (Drop(items, t, k) > 5) <=> Similarity(t, items[k]) > Closest(items, k) + 1
    BY DropFacts
  <1>3. Crowded(items, t) = {k \in DOMAIN items : Drop(items, t, k) > 5}
    BY DEF Crowded
  <1> QED BY <1>1, <1>2, <1>3

(* It is of no severity only when it names none.                             *)
LEMMA SeverityFacts ==
    ASSUME NEW items \in Seq(Text), NEW t \in Text
    PROVE  (Severity(items, t) = "none") <=> Crowded(items, t) = {}
  <1> DEFINE D == {Drop(items, t, k) : k \in Crowded(items, t)}
             S == {0} \cup D
             worst == Max(S)
  <1>1. \A k \in Crowded(items, t) :
           Drop(items, t, k) \in Int /\ Drop(items, t, k) <= 50 /\ Drop(items, t, k) > 5
    <2>1. \A k \in Crowded(items, t) : k \in 1 .. Len(items) /\ Drop(items, t, k) > 5
      BY DEF Crowded
    <2> QED BY <2>1, DropFacts
  <1>2. D \in SUBSET Int /\ \A y \in D : y <= 50 /\ y > 5
    BY <1>1
  <1>3. Severity(items, t) = CASE worst > 40 -> "critical"
                               [] worst \in 21 .. 40 -> "major"
                               [] worst \in 6 .. 20 -> "minor"
                               [] OTHER -> "none"
    BY DEF Severity
  <1>4. D = {} <=> Crowded(items, t) = {}
    OBVIOUS
  <1> HIDE DEF D, worst
  <1>5. S \in SUBSET Int /\ 0 \in S /\ \A y \in S : y <= 50
    BY <1>2
  <1>6. worst \in S /\ \A y \in S : y <= worst
    <2> HIDE DEF S
    <2>1. 50 \in Int
      OBVIOUS
    <2>2. PICK x \in S : TRUE
      BY <1>5
    <2>3. Max(S) \in S /\ \A y \in S : y <= Max(S)
      BY <1>5, <2>1, <2>2, MaxFacts
    <2> QED BY <2>3 DEF worst
  <1>7. CASE D = {}
    <2>1. worst = 0
      BY <1>6, <1>7
    <2>2. ~(worst > 40) /\ worst \notin 21 .. 40 /\ worst \notin 6 .. 20
      BY <2>1
    <2> QED BY <1>3, <1>4, <1>7, <2>2
  <1>8. CASE D # {}
    <2>1. PICK y \in D : TRUE
      BY <1>8
    <2>2. y \in Int /\ y > 5 /\ y <= worst /\ worst \in Int
      BY <1>2, <1>5, <1>6, <2>1
    <2>3. worst > 40 \/ worst \in 21 .. 40 \/ worst \in 6 .. 20
      BY <2>2
    <2>4. Severity(items, t) # "none"
      BY <1>3, <2>3
    <2> QED BY <1>4, <1>8, <2>4
  <1> QED BY <1>7, <1>8

(* nearest_text of a value that has an entry is its text. *)
LEMMA NearestOfEntry ==
    ASSUME NEW ix, Indexed(ix), NEW t \in Text, ix.ids[t] # None
    PROVE  NearestText(t, ix.entries) = t
  <1> DEFINE e == ix.entries
             L == Len(e)
             near(k) == IF t = None THEN 0 ELSE Similarity(t, e[k].text)
             P == {k \in DOMAIN e : \A n \in DOMAIN e : near(n) <= near(k)}
  <1>1. /\ e \in Seq([id : Nat, text : Text]) /\ L \in Nat
        /\ ix.ids \in [Text -> Nat \cup {None}]
        /\ \A k \in 1 .. L : e[k].text \in Text
    BY EntryFacts
  <1>2. DOMAIN e = 1 .. L
    BY <1>1
  <1>3. PICK p : p = ix.ids[t] + 1
    OBVIOUS
  <1>4. p \in 1 .. L /\ e[p].text = t
    <2>1. ix.ids[t] \in Nat /\ ix.ids[t] < L /\ e[ix.ids[t] + 1].text = t
      BY <1>1 DEF Indexed
    <2> QED BY <1>1, <1>3, <2>1
  <1>5. ASSUME NEW k \in 1 .. L, e[k].text = t PROVE k = p
    <2>1. ix.ids[t] = k - 1
      BY <1>5 DEF Indexed
    <2> QED BY <1>1, <1>3, <2>1
  <1>6. \A k \in 1 .. L : /\ near(k) = Similarity(t, e[k].text) /\ near(k) \in -10 .. 10
                          /\ near(k) = 10 <=> e[k].text = t
    <2>1. t # None /\ t \in Question
      BY NoneFacts, QueriesAssumption
    <2>2. \A k \in 1 .. L : near(k) = Similarity(t, e[k].text)
      BY <2>1
    <2> HIDE DEF near
    <2> SUFFICES ASSUME NEW k \in 1 .. L
                 PROVE  /\ near(k) = Similarity(t, e[k].text) /\ near(k) \in -10 .. 10
                        /\ near(k) = 10 <=> e[k].text = t
      OBVIOUS
    <2>3. PICK u : u = e[k].text
      OBVIOUS
    <2>4. u \in Text
      BY <1>1, <2>3
    <2>5. Similarity(t, u) \in -10 .. 10 /\ (Similarity(t, u) = 10 <=> t = u)
      BY <2>1, <2>4, QueriesAssumption
    <2> QED BY <2>2, <2>3, <2>5
  <1>7. NearestText(t, e) = e[Max(P)].text
    <2>1. e # <<>>
      BY <1>1, <1>4
    <2> QED BY <2>1 DEF NearestText
  <1> HIDE DEF e, L, near
  <1>8. \A k \in 1 .. L : near(k) <= 10 /\ near(k) \in Int
    BY <1>6
  <1>9. P = {p}
    <2>1. near(p) = 10
      BY <1>4, <1>6
    <2>2. p \in P
      BY <1>2, <1>4, <1>8, <2>1
    <2>3. ASSUME NEW k \in P PROVE k = p
      <3>1. k \in 1 .. L /\ 10 <= near(k)
        BY <1>2, <1>4, <2>1
      <3>2. near(k) = 10
        BY <1>8, <3>1
      <3> QED BY <1>5, <1>6, <3>1, <3>2
    <2> QED BY <2>2, <2>3
  <1>10. Max(P) = p
    <2>1. p \in Int /\ p >= p
      BY <1>1, <1>4
    <2>2. \E x \in P : \A y \in P : x >= y
      BY <1>9, <2>1
    <2>3. Max(P) \in P
      BY <2>2 DEF Max
    <2> QED BY <1>9, <2>3
  <1> QED BY <1>4, <1>7, <1>10 DEF e

-----------------------------------------------------------------------------
(* The items of both stores are those of the labels, in their order.        *)
Aligned(m) == m.nra = m.texts /\ m.rem = m.texts

(* What a recall retrieved is stored still: no mutation gets the guard.      *)
ReadingOK(r) ==
    reading[r] # None =>
        /\ up /\ txn = None
        /\ IF reading[r].value = None THEN mem.texts = <<>>
           ELSE reading[r].value \in Texts(mem.texts)

(* The stores, their labels and what is being read are of one mind, on the   *)
(* disk too.                                                                 *)
OneMind ==
    /\ reading = [r \in Reader |-> reading[r]]
    /\ Aligned(mem)
    /\ txn # None => Aligned(txn.staged)
    /\ \A s \in kept \ {None} : Faithful(s)
    /\ \A r \in Reader : ReadingOK(r)

(* Without memories there is nothing to disagree about.                      *)
LEMMA EmptyAligned == \A n : Aligned(EmptyStore(n))
  BY DEF Aligned, EmptyStore

(* So it is at the first start.                                              *)
LEMMA InitMind ==
    ASSUME Init, \A s \in Found \ {None} : Faithful(s)
    PROVE  OneMind
  <1>1. Aligned(mem)
    BY EmptyAligned DEF Init
  <1>2. txn = None /\ reading = [r \in Reader |-> None] /\ kept = {disk} /\ disk \in Found
    BY DEF Init
  <1>3. \A r \in Reader : ReadingOK(r)
    BY <1>2 DEF ReadingOK
  <1> QED BY <1>1, <1>2, <1>3 DEF OneMind

(* Steps that leave the memory, the readers and the guard alone. *)
LEMMA StillMind ==
    ASSUME OneMind, up' = up, mem' = mem, reading' = reading, kept' \subseteq kept,
           txn' = txn \/ (txn # None /\ (txn' # None => txn'.staged = txn.staged))
    PROVE  OneMind'
  <1>1. ASSUME NEW r \in Reader PROVE ReadingOK(r)'
    <2>1. ReadingOK(r)
      BY DEF OneMind
    <2> QED BY <2>1 DEF ReadingOK
  <1> QED BY <1>1 DEF OneMind, Aligned

(* A store and a forget change every structure at the same place.            *)
LEMMA StageMind == ASSUME IInv, OneMind, NEW c \in Client, Stage(c) PROVE OneMind'
  <1> DEFINE t == req[c].text
  <1>1. /\ up' = up /\ mem' = mem /\ kept' = kept /\ reading' = reading
        /\ \A r \in Reader : reading[r] = None
        /\ txn'.staged = IF req[c].op = "store" THEN Stored(mem, t) ELSE Forgotten(mem, t)
    BY DEF Stage, diskVars, GuardFree
  <1>2. Aligned(mem)
    BY DEF OneMind
  <1>3. Aligned(Stored(mem, t)) /\ Aligned(Forgotten(mem, t))
    BY <1>2 DEF Aligned, Stored, Forgotten
  <1> HIDE DEF t
  <1>4. Aligned(txn'.staged)
    BY <1>1, <1>3
  <1>5. \A r \in Reader : ReadingOK(r)'
    BY <1>1 DEF ReadingOK
  <1> QED BY <1>1, <1>4, <1>5 DEF OneMind, Aligned

(* The snapshot is that of the staged stores.                                *)
LEMMA RenameMind == ASSUME IInv, OneMind, Rename PROVE OneMind'
  <1>1. /\ up' = up /\ mem' = mem /\ reading' = reading /\ txn # None /\ TxnOK
        /\ kept' = kept \cup {Snapshot(txn.staged)} /\ txn' = [txn EXCEPT !.at = "sync"]
    BY DEF Rename, At, IInv, MutationOK
  <1>2. Aligned(txn.staged) /\ StoreOK(txn.staged) /\ txn \in Mutation
    BY <1>1 DEF OneMind, TxnOK
  <1>3. txn'.staged = txn.staged
    BY <1>1, <1>2 DEF Mutation
  <1>4. Faithful(Snapshot(txn.staged))
    <2>1. Labels(Snapshot(txn.staged)) = txn.staged.texts
      BY <1>2, LabelsOfSnapshot
    <2>2. /\ Snapshot(txn.staged).nra = txn.staged.nra
          /\ Snapshot(txn.staged).rem = txn.staged.rem
      BY DEF Snapshot
    <2> QED BY <1>2, <2>1, <2>2 DEF Faithful, Aligned
  <1>5. \A r \in Reader : reading[r] = None
    BY <1>1 DEF OneMind, ReadingOK
  <1>6. \A r \in Reader : ReadingOK(r)'
    BY <1>1, <1>5 DEF ReadingOK
  <1>7. \A s \in kept' \ {None} : Faithful(s)
    BY <1>1, <1>4 DEF OneMind
  <1> QED BY <1>1, <1>2, <1>3, <1>6, <1>7 DEF OneMind, Aligned

(* What is published is what was staged, while nobody reads.                 *)
LEMMA PublishMind ==
    ASSUME IInv, OneMind, PublishStores \/ PublishIndex
    PROVE  OneMind'
  <1>1. /\ up' = up /\ reading' = reading /\ txn # None /\ TxnOK /\ kept' = kept
        /\ txn' = [txn EXCEPT !.at = "index"] \/ txn' = None
    BY DEF PublishStores, PublishIndex, Finish, At, IInv, MutationOK, diskVars
  <1>2. Aligned(txn.staged) /\ txn.staged \in StoreType /\ txn \in Mutation /\ Aligned(mem)
    BY <1>1 DEF OneMind, TxnOK, StoreOK
  <1>3. txn' # None => txn'.staged = txn.staged
    BY <1>1, <1>2 DEF Mutation
  <1>4. Aligned(mem')
    <2>1. CASE PublishStores
      <3>1. mem' = [txn.staged EXCEPT !.index = mem.index]
        BY <2>1 DEF PublishStores
      <3> QED BY <1>2, <3>1 DEF StoreType, Aligned
    <2>2. CASE PublishIndex
      <3>1. /\ mem' = [mem EXCEPT !.index = txn.staged.index]
            /\ mem = [txn.staged EXCEPT !.index = mem.index]
        BY <1>1, <2>2 DEF PublishIndex, At, TxnOK
      <3>2. mem' = txn.staged
        BY <1>2, <3>1 DEF StoreType
      <3> QED BY <1>2, <3>2
    <2> QED BY <2>1, <2>2
  <1>5. \A r \in Reader : reading[r] = None
    BY <1>1 DEF OneMind, ReadingOK
  <1>6. \A r \in Reader : ReadingOK(r)'
    BY <1>1, <1>5 DEF ReadingOK
  <1> QED BY <1>1, <1>2, <1>3, <1>4, <1>6 DEF OneMind, Aligned

(* A start puts a label to each item, or refuses.                            *)
LEMMA RestartMind == ASSUME IInv, OneMind, Restart PROVE OneMind'
  <1>1. /\ ~up /\ up' /\ kept' = kept /\ txn' = txn /\ reading' = reading
    BY DEF Restart, diskVars
  <1>2. PICK capacity \in Capacities :
            IF disk = None THEN mem' = EmptyStore(Units(capacity))
            ELSE Loads(disk, capacity) /\ mem' = Loaded(disk, capacity)
    BY DEF Restart
  <1>3. Aligned(mem')
    <2>1. CASE disk = None
      BY <1>2, <2>1, EmptyAligned
    <2>2. CASE disk # None
      <3>1. Loads(disk, capacity) /\ mem' = Loaded(disk, capacity)
        BY <1>2, <2>2
      <3>2. Faithful(disk)
        BY <2>2 DEF OneMind, IInv, DiskOK
      <3>3. disk.nra = Labels(disk) /\ disk.rem = Labels(disk)
        BY <3>1, <3>2 DEF Faithful, Loads
      <3> QED BY <3>1, <3>3 DEF Loaded, Aligned
    <2> QED BY <2>1, <2>2
  <1>4. \A r \in Reader : reading[r] = None
    BY <1>1 DEF OneMind, ReadingOK
  <1>5. \A r \in Reader : ReadingOK(r)'
    BY <1>1, <1>4 DEF ReadingOK
  <1> QED BY <1>1, <1>3, <1>5 DEF OneMind, Aligned

(* Memory is gone, and disk holds what it may have held.                     *)
LEMMA CrashMind == ASSUME IInv, OneMind, Crash PROVE OneMind'
  <1>1. /\ mem' = EmptyStore(0) /\ txn' = None /\ reading' = [r \in Reader |-> None]
        /\ kept' \subseteq kept
    BY DEF Crash, diskVars
  <1>2. Aligned(mem')
    BY <1>1, EmptyAligned
  <1>3. \A r \in Reader : ReadingOK(r)'
    BY <1>1 DEF ReadingOK
  <1> QED BY <1>1, <1>2, <1>3 DEF OneMind, Aligned

(* A recall retrieves what is stored, or nothing from an empty store. *)
LEMMA ReadMind ==
    ASSUME IInv, OneMind, NEW r \in Reader, Retrieve(r) \/ RecallText(r)
    PROVE  OneMind'
  <1>1. /\ up /\ up' = up /\ mem' = mem /\ kept' = kept /\ txn' = txn
        /\ \E x : reading' = [reading EXCEPT ![r] = x]
    BY DEF Retrieve, RecallText, diskVars
  <1>2. reading = [x \in Reader |-> reading[x]] /\ Aligned(mem)
    BY DEF OneMind
  <1>3. ReadingOK(r)'
    <2>1. CASE RecallText(r)
      <3>1. reading'[r] = None
        BY <1>2, <2>1 DEF RecallText
      <3> QED BY <3>1 DEF ReadingOK
    <2>2. CASE Retrieve(r)
      <3>1. PICK q \in Question : reading' = [reading EXCEPT ![r] = Retrieved(q, mem.nra)]
        BY <2>2 DEF Retrieve
      <3>2. reading'[r] = Retrieved(q, mem.nra) /\ txn = None
        BY <1>2, <2>2, <3>1 DEF Retrieve
      <3>3. mem.texts \in Seq(Text) /\ mem.nra = mem.texts
        BY <1>1, <1>2, <3>2 DEF IInv, MutationOK, StoreOK, StoreType, Aligned
      <3>4. IF Retrieved(q, mem.nra).value = None THEN mem.texts = <<>>
            ELSE Retrieved(q, mem.nra).value \in Texts(mem.texts)
        <4>1. PICK items \in Seq(Text) : items = mem.texts
          BY <3>3
        <4>2. CASE items = <<>>
          BY <3>3, <4>1, <4>2 DEF Retrieved
        <4>3. CASE items # <<>>
          <5>1. BestAt(q, items) \in 1 .. Len(items)
            BY <4>3, BestFacts
          <5>2. items[BestAt(q, items)] \in Texts(items) /\ items[BestAt(q, items)] \in Text
            BY <5>1 DEF Texts
          <5>3. Retrieved(q, items).value = items[BestAt(q, items)]
            BY <4>3 DEF Retrieved
          <5> QED BY <3>3, <4>1, <5>2, <5>3, NoneFacts
        <4> QED BY <4>2, <4>3
      <3> QED BY <1>1, <3>2, <3>4 DEF ReadingOK
    <2> QED BY <2>1, <2>2
  <1>4. ASSUME NEW x \in Reader, x # r PROVE ReadingOK(x)'
    <2>1. reading'[x] = reading[x]
      BY <1>1, <1>2, <1>4
    <2>2. ReadingOK(x)
      BY DEF OneMind
    <2> QED BY <1>1, <2>1, <2>2 DEF ReadingOK
  <1>5. reading' = [x \in Reader |-> reading'[x]]
    BY <1>1, <1>2
  <1> QED BY <1>1, <1>3, <1>4, <1>5 DEF OneMind, Aligned

(* Every step keeps it.                                                      *)
LEMMA MindStep == ASSUME IInv, OneMind, [Next]_vars PROVE OneMind'
  <1>1. ASSUME NEW c \in Client, Request(c) \/ Handle(c) \/ Abandon(c) PROVE OneMind'
    <2>1. CASE Request(c) \/ EnterGate(c) \/ Embed(c) \/ Decline(c) \/ Answer(c)
      <3>1. /\ up' = up /\ mem' = mem /\ reading' = reading /\ kept' = kept /\ txn' = txn
        BY <2>1 DEF Request, EnterGate, Embed, Decline, Answer, diskVars
      <3> QED BY <3>1, StillMind
    <2>2. CASE Abandon(c)
      <3>1. /\ up' = up /\ mem' = mem /\ reading' = reading /\ kept' = kept
            /\ txn' = IF pc[c] = "write" THEN [txn EXCEPT !.by = None] ELSE txn
        BY <2>2 DEF Abandon, diskVars
      <3>2. pc[c] = "write" => txn # None /\ txn \in Mutation
        BY DEF IInv, MutationOK, TxnOK
      <3>3. pc[c] = "write" => [txn EXCEPT !.by = None].staged = txn.staged
        BY <3>2 DEF Mutation
      <3> QED BY <3>1, <3>2, <3>3, StillMind
    <2> QED BY <1>1, <2>1, <2>2, StageMind DEF Handle
  <1>2. CASE Blocking
    <2>1. CASE SaveFails \/ SyncFails
      <3>1. /\ up' = up /\ mem' = mem /\ reading' = reading /\ kept' = kept
            /\ txn # None /\ txn' = None
        BY <2>1 DEF SaveFails, SyncFails, Finish, At, diskVars
      <3> QED BY <3>1, StillMind
    <2>2. CASE SyncDirectory
      <3>1. /\ up' = up /\ mem' = mem /\ reading' = reading /\ kept' = {disk} /\ txn # None
            /\ disk \in kept /\ txn' = [txn EXCEPT !.at = "publish"] /\ txn \in Mutation
        BY <2>2 DEF SyncDirectory, At, IInv, DiskOK, MutationOK, TxnOK
      <3>2. txn'.staged = txn.staged
        BY <3>1 DEF Mutation
      <3> QED BY <3>1, <3>2, StillMind
    <2> QED BY <1>2, <2>1, <2>2, RenameMind, PublishMind DEF Blocking
  <1>3. CASE UNCHANGED vars
    <2>1. /\ up' = up /\ mem' = mem /\ reading' = reading /\ kept' = kept /\ txn' = txn
      BY <1>3 DEF vars, diskVars
    <2> QED BY <2>1, StillMind
  <1> QED BY <1>1, <1>2, <1>3, ReadMind, CrashMind, RestartMind DEF Next

(* The second part of QueriesAgree. *)
AgreeOn(texts, nra, rem, units) ==
    LET Nearest(k) == Max({0} \cup {Similarity(texts[n], texts[k]) :
                                   n \in DOMAIN texts \ {k}})
    IN  /\ \A t \in Texts(texts) :
              /\ Retrieved(t, nra) = [value |-> t, energy |-> -50]
              /\ Unsurprising(rem, t)
        /\ \A q \in Question :
              (Tier(Retrieved(q, nra).energy) # "no match") <=>
                  \E t \in Texts(texts) : Similarity(q, t) > 0
        /\ \A t \in Text :
              Crowded(nra, t) =
                  {k \in DOMAIN texts : Similarity(t, texts[k]) > Nearest(k) + 1}
        /\ \A t \in Text : (Severity(nra, t) = "none") <=> Crowded(nra, t) = {}
        /\ Health(nra, units).memories = Len(texts)

(* It holds of stores that have the items of the labels.                     *)
LEMMA ItemsAgree ==
    ASSUME NEW items \in Seq(Text), NEW units
    PROVE  AgreeOn(items, items, items, units)
  <1>1. \A t \in Texts(items) : /\ Retrieved(t, items) = [value |-> t, energy |-> -50]
                                /\ Unsurprising(items, t)
    BY FullScore
  <1>2. \A q \in Question : (Tier(Retrieved(q, items).energy) # "no match") <=>
                               \E t \in Texts(items) : Similarity(q, t) > 0
    BY NoMatch
  <1>3. \A t \in Text : Crowded(items, t) =
            {k \in DOMAIN items :
               Similarity(t, items[k])
                 > Max({0} \cup {Similarity(items[n], items[k]) : n \in DOMAIN items \ {k}}) + 1}
    BY CrowdedFacts DEF Closest, Closeness
  <1>4. \A t \in Text : (Severity(items, t) = "none") <=> Crowded(items, t) = {}
    BY SeverityFacts
  <1>5. Health(items, units).memories = Len(items)
    BY DEF Health
  <1> QED BY <1>1, <1>2, <1>3, <1>4, <1>5, Zenon DEF AgreeOn

(* The parts of QueriesAgree, of a store whose items are its labels. *)
LEMMA AgreeOf ==
    ASSUME IInv, OneMind
    PROVE  QueriesAgree
  <1>1. ASSUME NEW r \in Reader, reading[r] # None
        PROVE  NearestText(reading[r].value, mem.index.entries) = reading[r].value
    <2>1. /\ ReadingOK(r) /\ up /\ txn = None
      BY <1>1 DEF OneMind, ReadingOK
    <2>2. Indexed(mem.index) /\ Knows(mem.index, mem.texts) /\ mem.texts \in Seq(Text)
      BY <2>1 DEF IInv, MutationOK, StoreOK, StoreType
    <2>3. CASE reading[r].value = None
      <3> DEFINE e == mem.index.entries
      <3>1. mem.texts = <<>>
        BY <1>1, <2>1, <2>3 DEF ReadingOK
      <3>2. e \in Seq([id : Nat, text : Text]) /\ Len(e) \in Nat
        BY <2>2, EntryFacts
      <3>3. \A t \in Text : mem.index.ids[t] = None
        BY <2>2, <3>1 DEF Knows, Texts
      <3>4. \A k \in 1 .. Len(e) : e[k].text \in Text /\ mem.index.ids[e[k].text] = k - 1
        BY <2>2, EntryFacts DEF Indexed
      <3>5. ASSUME NEW k \in 1 .. Len(e) PROVE FALSE
        <4>1. k - 1 \in Nat
          BY <3>2
        <4> QED BY <3>3, <3>4, <4>1, NoneFacts
      <3>6. Len(e) = 0
        BY <3>2, <3>5
      <3> HIDE DEF e
      <3>7. e = <<>>
        BY <3>2, <3>6
      <3> QED BY <2>3, <3>7 DEF NearestText, e
    <2>4. CASE reading[r].value # None
      <3>1. PICK t : t = reading[r].value
        OBVIOUS
      <3>2. t \in Texts(mem.texts)
        BY <1>1, <2>1, <2>4, <3>1 DEF ReadingOK
      <3>3. t \in Text
        BY <2>2, <3>2 DEF Texts
      <3>4. mem.index.ids[t] # None
        BY <2>2, <3>2, <3>3 DEF Knows
      <3> QED BY <2>2, <3>1, <3>3, <3>4, NearestOfEntry
    <2> QED BY <2>3, <2>4
  <1>2. ASSUME up, txn = None
        PROVE  AgreeOn(mem.texts, mem.nra, mem.rem, mem.units)
    <2>1. PICK items \in Seq(Text) : items = mem.texts
      BY <1>2 DEF IInv, MutationOK, StoreOK, StoreType
    <2>2. mem.nra = items /\ mem.rem = items
      BY <2>1 DEF OneMind, Aligned
    <2>3. AgreeOn(items, items, items, mem.units)
      BY ItemsAgree
    <2> QED BY <2>1, <2>2, <2>3
  <1> QED BY <1>1, <1>2 DEF QueriesAgree, AgreeOn

(* However often the service stores, forgets, renumbers, crashes and loads,  *)
(* with whatever texts and similarities: what it stored is recalled in full  *)
(* and does not surprise, no match means that nothing stored is near, a      *)
(* contradiction names the items that the fact is closer to than any other,  *)
(* and what a recall retrieved has its text (retrieve_with_diagnostics,      *)
(* nearest_text, detect).  A snapshot found at the first start must have had *)
(* its labels in the order of its items: load does not look at the vectors.  *)
THEOREM AnswersAgree ==
    (\A s \in Found \ {None} : Faithful(s)) => (Spec => []QueriesAgree)
  <1> SUFFICES ASSUME \A s \in Found \ {None} : Faithful(s)
               PROVE  Spec => []QueriesAgree
    OBVIOUS
  <1>1. Init => IInv /\ OneMind
    BY InitInv, InitMind
  <1>2. IInv /\ OneMind /\ [Next]_vars => (IInv /\ OneMind)'
    BY StepInv, MindStep
  <1>3. IInv /\ OneMind => QueriesAgree
    BY AgreeOf
  <1> QED BY <1>1, <1>2, <1>3, PTL DEF Spec
=============================================================================
