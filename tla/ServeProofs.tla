---------------------------- MODULE ServeProofs ----------------------------
(***************************************************************************)
(* Proofs about Serve, for any models, windows, threads, tokenizer, stop   *)
(* sequences and order of requests.                                        *)
(*                                                                         *)
(* Two arguments meet in the invariant.  One is about the text: what has   *)
(* been emitted is settled text in which no stop sequence began, so that   *)
(* a later token may complete a stop sequence, or change the bytes that    *)
(* are not settled, and nothing already sent has to be taken back          *)
(* (MayStay; RoundWithoutHit and RoundWithHit are its two cases).  The     *)
(* other is about the wire: the records sent so far are an open stream     *)
(* whose pieces add up to what was emitted, and each phase of the loop     *)
(* says how much of one there is.  The cache needs what KVCacheProofs      *)
(* says of overwriting, because `generate` starts at position 0 and never  *)
(* clears what the last request left; the thread and the budget are what   *)
(* keep its positions inside the window.                                   *)
(*                                                                         *)
(* The module first collects what it needs of numbers, of sequences, of    *)
(* the text operators and of the pieces of a reply.                        *)
(***************************************************************************)
EXTENDS Serve, KVCacheProofs, FiniteSetTheorems, SequenceTheorems

-----------------------------------------------------------------------------
(* Numbers.  A non-empty set of naturals has a least member, which is what   *)
(* stands for induction here, and a greatest one when it is bounded.         *)
LEMMA Least ==
    ASSUME NEW T \in SUBSET Nat, T # {}
    PROVE  \E m \in T : \A k \in T : m <= k
  <1>1. T \subseteq Nat
    OBVIOUS
  <1>2. PICK m \in T : \A k \in T : ~ (<<k, m>> \in OpToRel(<, Nat))
    BY <1>1, WFMin, NatLessThanWellFounded
  <1>3. \A k \in T : ~(k < m)
    BY <1>2 DEF OpToRel
  <1> QED BY <1>3

(* What Min and Max choose. *)
LEMMA MinFacts ==
    ASSUME NEW T \in SUBSET Nat, T # {}
    PROVE  Min(T) \in T /\ \A k \in T : Min(T) <= k
  BY Least DEF Min

LEMMA MaxFacts ==
    ASSUME NEW T \in SUBSET Nat, T # {}, NEW b \in Nat, \A k \in T : k <= b
    PROVE  Max(T) \in T /\ \A k \in T : k <= Max(T)
  <1> DEFINE U == {b - k : k \in T}
  <1>1. U \in SUBSET Nat /\ U # {}
    <2>1. ASSUME NEW k \in T PROVE b - k \in Nat
      OBVIOUS
    <2> QED BY <2>1
  <1>2. PICK u \in U : \A v \in U : u <= v
    BY <1>1, Least
  <1>3. PICK m \in T : u = b - m
    OBVIOUS
  <1>4. \A k \in T : m >= k
    <2> TAKE k \in T
    <2>1. u <= b - k
      BY <1>2
    <2> QED BY <2>1, <1>3
  <1> QED BY <1>4 DEF Max

(* A finite set of naturals is bounded: otherwise one of the smallest        *)
(* cardinality would not be.                                                 *)
LEMMA FiniteIsBounded ==
    ASSUME NEW F \in SUBSET Nat, IsFiniteSet(F)
    PROVE  \E b \in Nat : \A k \in F : k <= b
  <1> DEFINE Bounded(S) == \E b \in Nat : \A k \in S : k <= b
             Sizes == {n \in Nat : \E S \in SUBSET Nat :
                         IsFiniteSet(S) /\ Cardinality(S) = n /\ ~ Bounded(S)}
  <1> SUFFICES ASSUME ~ Bounded(F) PROVE FALSE
    OBVIOUS
  <1>1. Cardinality(F) \in Sizes
    BY FS_CardinalityType
  <1>2. PICK n \in Sizes : \A k \in Sizes : n <= k
    BY <1>1, Least
  <1>3. PICK S \in SUBSET Nat : IsFiniteSet(S) /\ Cardinality(S) = n /\ ~ Bounded(S)
    BY <1>2
  <1>4. PICK x \in S : TRUE
    BY <1>3
  <1>5. /\ IsFiniteSet(S \ {x})
        /\ Cardinality(S \ {x}) = n - 1
        /\ n \in Nat
    BY <1>2, <1>3, FS_RemoveElement
  <1>6. Cardinality(S \ {x}) \in Nat
    BY <1>5, FS_CardinalityType
  <1>7. ~ (n - 1 \in Sizes)
    BY <1>2, <1>5
  <1>8. Bounded(S \ {x})
    BY <1>3, <1>5, <1>6, <1>7
  <1>9. PICK b \in Nat : \A k \in S \ {x} : k <= b
    BY <1>8
  <1>10. PICK c \in Nat : b <= c /\ x <= c
    BY <1>3, <1>9
  <1>11. \A k \in S : k <= c
    BY <1>3, <1>9, <1>10
  <1> QED BY <1>3, <1>11

(* Every window fits the largest model. *)
LEMMA WindowBelowMaxReply ==
    ASSUME NEW m \in Models
    PROVE  ModelMax(m) \in Nat /\ MaxReply \in Nat /\ ModelMax(m) <= MaxReply
  <1> DEFINE T == {ModelMax(k) : k \in Models}
  <1>1. T \in SUBSET Nat /\ T # {}
    BY ServeAssumption
  <1>2. IsFiniteSet(T)
    <2> DEFINE f == [k \in Models |-> ModelMax(k)]
    <2>1. f \in Surjection(Models, T)
      BY DEF Surjection
    <2> QED BY <2>1, ServeAssumption, FS_Surjection
  <1>3. PICK b \in Nat : \A k \in T : k <= b
    BY <1>1, <1>2, FiniteIsBounded
  <1>4. Max(T) \in T /\ \A k \in T : k <= Max(T)
    BY <1>1, <1>3, MaxFacts
  <1> QED BY <1>1, <1>4 DEF MaxReply

-----------------------------------------------------------------------------
(* Texts. *)
Text == Seq(Character)

(* A part of a sequence, and when two sequences are the same. *)
LEMMA SubSeqFacts ==
    ASSUME NEW S, NEW s \in Seq(S), NEW m \in Nat \ {0}, NEW n \in Nat, n <= Len(s), m <= n + 1
    PROVE  /\ SubSeq(s, m, n) \in Seq(S)
           /\ Len(SubSeq(s, m, n)) = n - m + 1
           /\ \A i \in 1 .. n - m + 1 : SubSeq(s, m, n)[i] = s[m + i - 1]
  <1>1. \A i \in m .. n : s[i] \in S
    OBVIOUS
  <1> QED BY <1>1, SubSeqProperties

LEMMA SameText ==
    ASSUME NEW S, NEW s \in Seq(S), NEW t \in Seq(S)
    PROVE  s = t <=> Len(s) = Len(t) /\ \A i \in 1 .. Len(s) : s[i] = t[i]
  BY SeqEqual

(* A prefix, character by character. *)
LEMMA PrefixFacts ==
    ASSUME NEW S, NEW s \in Seq(S), NEW t \in Seq(S)
    PROVE  IsPrefix(s, t) <=> Len(s) <= Len(t) /\ \A i \in 1 .. Len(s) : s[i] = t[i]
  <1> SUFFICES ASSUME Len(s) <= Len(t)
               PROVE  SubSeq(s, 1, Len(s)) = SubSeq(t, 1, Len(s))
                        <=> \A i \in 1 .. Len(s) : s[i] = t[i]
    BY DEF IsPrefix
  <1>1. /\ SubSeq(s, 1, Len(s)) \in Seq(S) /\ Len(SubSeq(s, 1, Len(s))) = Len(s)
        /\ \A i \in 1 .. Len(s) : SubSeq(s, 1, Len(s))[i] = s[i]
    BY SubSeqFacts
  <1>2. /\ SubSeq(t, 1, Len(s)) \in Seq(S) /\ Len(SubSeq(t, 1, Len(s))) = Len(s)
        /\ \A i \in 1 .. Len(s) : SubSeq(t, 1, Len(s))[i] = t[i]
    BY SubSeqFacts
  <1>3. \A i \in 1 .. Len(s) : /\ SubSeq(s, 1, Len(s))[i] = s[i]
                               /\ SubSeq(t, 1, Len(s))[i] = t[i]
    BY <1>1, <1>2
  <1> DEFINE a == SubSeq(s, 1, Len(s))
             b == SubSeq(t, 1, Len(s))
  <1>4. a = b <=> \A i \in 1 .. Len(s) : a[i] = b[i]
    <2> HIDE DEF a, b
    <2>1. a \in Seq(S) /\ b \in Seq(S) /\ Len(a) = Len(b) /\ Len(a) = Len(s)
      BY <1>1, <1>2 DEF a, b
    <2> QED BY <2>1, SameText
  <1> QED BY <1>3, <1>4

LEMMA PrefixTransitive ==
    ASSUME NEW S, NEW r \in Seq(S), NEW s \in Seq(S), NEW t \in Seq(S),
           IsPrefix(r, s), IsPrefix(s, t)
    PROVE  IsPrefix(r, t)
  BY PrefixFacts

(* Of two prefixes of a text the shorter is a prefix of the longer. *)
LEMMA PrefixesNest ==
    ASSUME NEW S, NEW r \in Seq(S), NEW s \in Seq(S), NEW t \in Seq(S),
           IsPrefix(r, t), IsPrefix(s, t), Len(r) <= Len(s)
    PROVE  IsPrefix(r, s)
  BY PrefixFacts

(* Cutting a text short leaves a prefix of it. *)
LEMMA CutIsPrefix ==
    ASSUME NEW S, NEW t \in Seq(S), NEW n \in Nat, n <= Len(t)
    PROVE  /\ SubSeq(t, 1, n) \in Seq(S)
           /\ Len(SubSeq(t, 1, n)) = n
           /\ IsPrefix(SubSeq(t, 1, n), t)
  <1>1. /\ SubSeq(t, 1, n) \in Seq(S) /\ Len(SubSeq(t, 1, n)) = n
        /\ \A i \in 1 .. n : SubSeq(t, 1, n)[i] = t[i]
    BY SubSeqFacts
  <1> QED BY <1>1, PrefixFacts

(* What a suffix adds to the prefix it completes, or to a longer one. *)
LEMMA PrefixPlusRest ==
    ASSUME NEW S, NEW e \in Seq(S), NEW t \in Seq(S), IsPrefix(e, t),
           NEW r \in Seq(S), IsPrefix(r, SubSeq(t, Len(e) + 1, Len(t)))
    PROVE  /\ e \o r \in Seq(S)
           /\ Len(e \o r) = Len(e) + Len(r)
           /\ IsPrefix(e \o r, t)
  <1> DEFINE rest == SubSeq(t, Len(e) + 1, Len(t))
  <1>1. /\ Len(e) \in Nat /\ Len(t) \in Nat /\ Len(e) <= Len(t)
        /\ \A i \in 1 .. Len(e) : e[i] = t[i]
    BY PrefixFacts
  <1>2. /\ rest \in Seq(S) /\ Len(rest) = Len(t) - Len(e)
        /\ \A i \in 1 .. Len(t) - Len(e) : rest[i] = t[Len(e) + i]
    <2>1. Len(e) + 1 \in Nat \ {0} /\ Len(e) + 1 <= Len(t) + 1
      BY <1>1
    <2>2. /\ rest \in Seq(S) /\ Len(rest) = Len(t) - (Len(e) + 1) + 1
          /\ \A i \in 1 .. Len(t) - (Len(e) + 1) + 1 : rest[i] = t[Len(e) + 1 + i - 1]
      BY <1>1, <2>1, SubSeqFacts
    <2> HIDE DEF rest
    <2> QED BY <1>1, <2>2
  <1> HIDE DEF rest
  <1>3. /\ Len(r) <= Len(rest)
        /\ \A i \in 1 .. Len(r) : r[i] = rest[i]
    <2>1. IsPrefix(r, rest)
      BY DEF rest
    <2> QED BY <1>2, <2>1, PrefixFacts
  <1>4. /\ e \o r \in Seq(S) /\ Len(e \o r) = Len(e) + Len(r)
        /\ \A i \in 1 .. Len(e) + Len(r) :
              (e \o r)[i] = IF i <= Len(e) THEN e[i] ELSE r[i - Len(e)]
    BY ConcatProperties
  <1>5. \A i \in 1 .. Len(e) + Len(r) : (e \o r)[i] = t[i]
    <2> TAKE i \in 1 .. Len(e) + Len(r)
    <2>1. CASE i <= Len(e)
      BY <2>1, <1>1, <1>4
    <2>2. CASE ~ (i <= Len(e))
      <3>1. /\ i - Len(e) \in 1 .. Len(r)
            /\ (e \o r)[i] = r[i - Len(e)]
        BY <2>2, <1>1, <1>4
      <3>2. r[i - Len(e)] = rest[i - Len(e)]
        BY <3>1, <1>3
      <3>3. rest[i - Len(e)] = t[Len(e) + (i - Len(e))]
        BY <3>1, <1>1, <1>2, <1>3
      <3> QED BY <3>1, <3>2, <3>3, <1>1
    <2> QED BY <2>1, <2>2
  <1>6. Len(e \o r) <= Len(t)
    BY <1>1, <1>2, <1>3, <1>4
  <1> QED BY <1>4, <1>5, <1>6, PrefixFacts

(* incremental_suffix of a prefix is the rest of the text. *)
LEMMA SuffixOfPrefix ==
    ASSUME NEW S, NEW e \in Seq(S), NEW t \in Seq(S), IsPrefix(e, t)
    PROVE  IncrementalSuffix(e, t) = SubSeq(t, Len(e) + 1, Len(t))
  <1> DEFINE shared == {n \in 0 .. Len(e) :
                          n <= Len(t) /\ SubSeq(e, 1, n) = SubSeq(t, 1, n)}
  <1>1. Len(e) \in Nat /\ Len(e) <= Len(t)
    BY DEF IsPrefix
  <1>2. Len(e) \in shared
    BY <1>1 DEF IsPrefix
  <1>3. shared \in SUBSET Nat /\ \A n \in shared : n <= Len(e)
    BY <1>1
  <1>4. Max(shared) \in shared /\ \A n \in shared : n <= Max(shared)
    BY <1>1, <1>2, <1>3, MaxFacts
  <1>5. Max(shared) = Len(e)
    BY <1>1, <1>2, <1>3, <1>4
  <1> QED BY <1>5 DEF IncrementalSuffix

(* Emitting the rest of a text, or a part of it, extends what was emitted.   *)
LEMMA EmitPart ==
    ASSUME NEW S, NEW e \in Seq(S), NEW t \in Seq(S), IsPrefix(e, t),
           NEW n \in Nat, n <= Len(t) - Len(e)
    PROVE  LET chunk == SubSeq(IncrementalSuffix(e, t), 1, n)
           IN  /\ chunk \in Seq(S)
               /\ e \o chunk \in Seq(S)
               /\ Len(e \o chunk) = Len(e) + n
               /\ IsPrefix(e \o chunk, t)
  <1> DEFINE rest  == SubSeq(t, Len(e) + 1, Len(t))
             chunk == SubSeq(rest, 1, n)
  <1>1. IncrementalSuffix(e, t) = rest
    BY SuffixOfPrefix
  <1>2. Len(e) \in Nat /\ Len(t) \in Nat /\ Len(e) <= Len(t)
    BY DEF IsPrefix
  <1>3. rest \in Seq(S) /\ Len(rest) = Len(t) - Len(e)
    BY <1>2, SubSeqFacts
  <1> HIDE DEF rest
  <1>4. chunk \in Seq(S) /\ Len(chunk) = n /\ IsPrefix(chunk, rest)
    BY <1>2, <1>3, CutIsPrefix
  <1> HIDE DEF chunk
  <1>5. /\ e \o chunk \in Seq(S) /\ Len(e \o chunk) = Len(e) + Len(chunk)
        /\ IsPrefix(e \o chunk, t)
    BY <1>4, PrefixPlusRest DEF rest
  <1> QED BY <1>1, <1>4, <1>5 DEF chunk

(* What is left to emit completes what was emitted. *)
LEMMA EmitRest ==
    ASSUME NEW S, NEW e \in Seq(S), NEW t \in Seq(S), IsPrefix(e, t)
    PROVE  /\ IncrementalSuffix(e, t) \in Seq(S)
           /\ e \o IncrementalSuffix(e, t) = t
  <1> DEFINE rest == SubSeq(t, Len(e) + 1, Len(t))
  <1>1. IncrementalSuffix(e, t) = rest
    BY SuffixOfPrefix
  <1>2. Len(e) \in Nat /\ Len(t) \in Nat /\ Len(e) <= Len(t)
    BY DEF IsPrefix
  <1>3. rest \in Seq(S) /\ Len(rest) = Len(t) - Len(e)
    BY <1>2, SubSeqFacts
  <1>4. IsPrefix(rest, rest)
    BY DEF IsPrefix
  <1>5. /\ e \o rest \in Seq(S) /\ Len(e \o rest) = Len(e) + Len(rest)
        /\ IsPrefix(e \o rest, t)
    BY <1>3, <1>4, PrefixPlusRest
  <1> HIDE DEF rest
  <1>6. e \o rest = t
    <2>1. PICK u \in Seq(S) : u = e \o rest
      BY <1>5
    <2>2. IsPrefix(u, t) /\ Len(u) = Len(t)
      BY <1>2, <1>3, <1>5, <2>1
    <2>3. \A i \in 1 .. Len(u) : u[i] = t[i]
      BY <2>2, PrefixFacts
    <2> QED BY <2>1, <2>2, <2>3, SameText
  <1> QED BY <1>1, <1>3, <1>6

(* A text up to its last settled character. *)
LEMMA SettledFacts ==
    ASSUME NEW t \in Text
    PROVE  LET n == Len(Settled(t))
           IN  /\ Settled(t) \in Text
               /\ n \in Nat /\ n <= Len(t)
               /\ IsPrefix(Settled(t), t)
               /\ n = 0 \/ t[n] # Unsettled
               /\ \A m \in 1 .. Len(t) : t[m] # Unsettled => m <= n
  <1> DEFINE T == {0} \cup {n \in 1 .. Len(t) : t[n] # Unsettled}
  <1>1. Len(t) \in Nat /\ T \in SUBSET Nat /\ 0 \in T /\ \A n \in T : n <= Len(t)
    BY DEF Text
  <1>2. Max(T) \in T /\ \A n \in T : n <= Max(T)
    BY <1>1, MaxFacts
  <1>3. PICK n \in T : n = Max(T)
    BY <1>2
  <1>4. Settled(t) = SubSeq(t, 1, n)
    BY <1>3 DEF Settled
  <1>5. /\ SubSeq(t, 1, n) \in Text /\ Len(SubSeq(t, 1, n)) = n
        /\ IsPrefix(SubSeq(t, 1, n), t)
    BY <1>1, CutIsPrefix DEF Text
  <1> QED BY <1>1, <1>2, <1>3, <1>4, <1>5

(* Where a stop sequence occurs. *)
OccursHere(s, t, p) ==
    /\ p \in Nat \ {0}
    /\ p + Len(s) - 1 <= Len(t)
    /\ \A j \in 1 .. Len(s) : t[p + j - 1] = s[j]

(* The places a text occurs at, position by position. *)
LEMMA OccursAtFacts ==
    ASSUME NEW s \in Text, NEW t \in Text
    PROVE  /\ OccursAt(s, t) \in SUBSET Nat
           /\ \A p : p \in OccursAt(s, t) <=> OccursHere(s, t, p)
  <1>1. Len(s) \in Nat /\ Len(t) \in Nat
    BY DEF Text
  <1>2. ASSUME NEW p \in Nat \ {0}, p + Len(s) - 1 <= Len(t)
        PROVE  SubSeq(t, p, p + Len(s) - 1) = s
                 <=> \A j \in 1 .. Len(s) : t[p + j - 1] = s[j]
    <2>1. PICK u : u = SubSeq(t, p, p + Len(s) - 1)
      OBVIOUS
    <2>2. PICK n \in Nat : n = p + Len(s) - 1
      BY <1>1
    <2>3. /\ u \in Seq(Character) /\ Len(u) = n - p + 1
          /\ \A i \in 1 .. n - p + 1 : u[i] = t[p + i - 1]
      BY <1>1, <1>2, <2>1, <2>2, SubSeqFacts DEF Text
    <2>4. Len(u) = Len(s) /\ \A i \in 1 .. Len(s) : u[i] = t[p + i - 1]
      BY <1>1, <2>2, <2>3
    <2>5. u = s <=> \A i \in 1 .. Len(s) : u[i] = s[i]
      BY <2>3, <2>4, SameText DEF Text
    <2> QED BY <2>1, <2>4, <2>5
  <1>3. ASSUME NEW p PROVE p \in OccursAt(s, t) <=> OccursHere(s, t, p)
    <2>1. p \in 1 .. Len(t) - Len(s) + 1
            <=> p \in Nat \ {0} /\ p + Len(s) - 1 <= Len(t)
      BY <1>1
    <2> QED BY <1>2, <2>1 DEF OccursAt, OccursHere
  <1> QED BY <1>1, <1>3 DEF OccursAt

(* A stop sequence is a text of at least one character. *)
LEMMA StopFacts ==
    ASSUME NEW i \in 1 .. Len(Stops)
    PROVE  Stops[i] \in Text /\ Len(Stops[i]) \in Nat \ {0} /\ Len(Stops) \in Nat
  <1>1. Stops[i] \in Seq(Character) /\ Stops[i] # <<>> /\ Len(Stops) \in Nat
    BY StopsAssumption
  <1> QED BY <1>1, EmptySeq DEF Text

(* What occurs in a prefix occurs in the text, at the same place.            *)
LEMMA OccursInPrefix ==
    ASSUME NEW s \in Text, NEW a \in Text, NEW b \in Text, IsPrefix(a, b),
           NEW p, OccursHere(s, a, p)
    PROVE  OccursHere(s, b, p)
  <1>1. /\ Len(s) \in Nat /\ Len(a) \in Nat /\ Len(b) \in Nat
        /\ Len(a) <= Len(b) /\ \A i \in 1 .. Len(a) : a[i] = b[i]
    BY PrefixFacts DEF Text
  <1>2. p \in Nat \ {0} /\ p + Len(s) - 1 <= Len(a)
    BY DEF OccursHere
  <1>3. ASSUME NEW j \in 1 .. Len(s) PROVE b[p + j - 1] = s[j]
    <2>1. p + j - 1 \in 1 .. Len(a)
      BY <1>1, <1>2
    <2>2. a[p + j - 1] = s[j]
      BY DEF OccursHere
    <2> QED BY <1>1, <2>1, <2>2
  <1> QED BY <1>1, <1>2, <1>3 DEF OccursHere

(* A stop sequence is hit where it occurs, and a longer text hits no fewer. *)
LEMMA HitFacts ==
    ASSUME NEW t \in Text, NEW i
    PROVE  i \in Hits(t) <=> /\ i \in 1 .. Len(Stops)
                             /\ \E p : OccursHere(Stops[i], t, p)
  <1>1. ASSUME i \in 1 .. Len(Stops)
        PROVE  OccursAt(Stops[i], t) # {} <=> \E p : OccursHere(Stops[i], t, p)
    BY <1>1, StopFacts, OccursAtFacts
  <1> QED BY <1>1 DEF Hits

LEMMA HitsInPrefix ==
    ASSUME NEW a \in Text, NEW b \in Text, IsPrefix(a, b)
    PROVE  Hits(a) \subseteq Hits(b)
  <1> SUFFICES ASSUME NEW i \in Hits(a) PROVE i \in Hits(b)
    OBVIOUS
  <1>1. i \in 1 .. Len(Stops) /\ \E p : OccursHere(Stops[i], a, p)
    BY HitFacts
  <1>2. \E p : OccursHere(Stops[i], b, p)
    BY <1>1, StopFacts, OccursInPrefix
  <1> QED BY <1>1, <1>2, HitFacts

(* The last n characters of a head are the opening of a stop sequence. *)
Opens(head, n) ==
    /\ n \in 1 .. Len(head)
    /\ \E i \in 1 .. Len(Stops) :
          /\ n < Len(Stops[i])
          /\ \A j \in 1 .. n : head[Len(head) - n + j] = Stops[i][j]

(* What may be emitted stops short of every opening of a stop sequence. *)
LEMMA EmittableFacts ==
    ASSUME NEW t \in Text
    PROVE  LET head == Settled(t)
           IN  /\ EmittableLen(t) \in Nat
               /\ EmittableLen(t) <= Len(head)
               /\ \A n : Opens(head, n) => EmittableLen(t) <= Len(head) - n
  <1>1. PICK head : head = Settled(t)
    OBVIOUS
  <1>2. head \in Text /\ Len(head) \in Nat
    BY <1>1, SettledFacts
  <1> DEFINE held == {n \in 1 .. Len(head) : \E i \in 1 .. Len(Stops) :
                        /\ n < Len(Stops[i])
                        /\ SubSeq(Stops[i], 1, n)
                             = SubSeq(head, Len(head) - n + 1, Len(head))}
             T == {0} \cup held
  <1>3. ASSUME NEW n, Opens(head, n) PROVE n \in held
    <2>1. n \in 1 .. Len(head) /\ n \in Nat
      BY <1>2, <1>3 DEF Opens
    <2>2. PICK i \in 1 .. Len(Stops) :
             /\ n < Len(Stops[i])
             /\ \A j \in 1 .. n : head[Len(head) - n + j] = Stops[i][j]
      BY <1>3 DEF Opens
    <2>3. PICK s : s = Stops[i]
      OBVIOUS
    <2>4. s \in Seq(Character) /\ Len(s) \in Nat
      BY <2>3, StopFacts DEF Text
    <2>5. PICK a : a = SubSeq(s, 1, n)
      OBVIOUS
    <2>6. a \in Seq(Character) /\ Len(a) = n /\ \A j \in 1 .. n : a[j] = s[j]
      BY <2>1, <2>2, <2>3, <2>4, <2>5, SubSeqFacts
    <2>7. PICK b : b = SubSeq(head, Len(head) - n + 1, Len(head))
      OBVIOUS
    <2>8. PICK m \in Nat \ {0} : m = Len(head) - n + 1
      <3>1. Len(head) - n + 1 \in Nat \ {0}
        BY <1>2, <2>1
      <3> QED BY <3>1
    <2>9. /\ b \in Seq(Character) /\ Len(b) = Len(head) - m + 1
          /\ \A j \in 1 .. Len(head) - m + 1 : b[j] = head[m + j - 1]
      BY <1>2, <2>1, <2>7, <2>8, SubSeqFacts DEF Text
    <2>10. Len(b) = n /\ \A j \in 1 .. n : b[j] = head[Len(head) - n + j]
      <3>1. Len(head) - m + 1 = n
        BY <1>2, <2>1, <2>8
      <3>2. \A j \in 1 .. n : m + j - 1 = Len(head) - n + j
        BY <1>2, <2>1, <2>8
      <3> QED BY <2>9, <3>1, <3>2
    <2>11. a = b
      <3>1. Len(a) = Len(b) /\ \A j \in 1 .. Len(a) : a[j] = b[j]
        BY <2>2, <2>3, <2>6, <2>10
      <3> QED BY <2>6, <2>9, <3>1, SameText
    <2> QED BY <2>1, <2>2, <2>3, <2>5, <2>7, <2>11
  <1>4. T \in SUBSET Nat /\ 0 \in T /\ \A n \in T : n <= Len(head)
    BY <1>2
  <1>5. Max(T) \in T /\ \A n \in T : n <= Max(T)
    BY <1>2, <1>4, MaxFacts
  <1>6. EmittableLen(t) = Len(head) - Max(T)
    BY <1>1 DEF EmittableLen
  <1>7. \A n : Opens(head, n) => n \in T
    BY <1>3
  <1> HIDE DEF T
  <1>8. PICK e : e = EmittableLen(t)
    OBVIOUS
  <1>9. /\ e \in Nat /\ e <= Len(head)
        /\ \A n : Opens(head, n) => e <= Len(head) - n
    <2>1. PICK max \in T : max = Max(T)
      BY <1>5
    <2>2. max \in Nat /\ max <= Len(head) /\ \A n \in T : n <= max
      BY <1>4, <1>5, <2>1
    <2>3. e = Len(head) - max
      BY <1>6, <1>8, <2>1
    <2>4. ASSUME NEW n, Opens(head, n) PROVE e <= Len(head) - n
      <3>1. n <= max /\ n \in Nat
        BY <1>4, <1>7, <2>2, <2>4
      <3> QED BY <1>2, <2>2, <2>3, <3>1
    <2> QED BY <1>2, <2>2, <2>3, <2>4
  <1> QED BY <1>1, <1>8, <1>9

-----------------------------------------------------------------------------
(* What was emitted of a text without a hit may stay on the screen: it is    *)
(* settled, and no stop sequence has begun in it and reached the end.        *)
MayStay(e, t) ==
    /\ Hits(t) = {}
    /\ IsPrefix(e, Settled(t))
    /\ \A n : Opens(Settled(t), n) => Len(e) <= Len(Settled(t)) - n

(* A reply starts with nothing emitted and nothing to take back. *)
LEMMA NothingEmitted == <<>> \in Text /\ Hits(<<>>) = {} /\ MayStay(<<>>, <<>>)
  <1>1. <<>> \in Text /\ Len(<<>>) = 0
    BY EmptySeq DEF Text
  <1>2. ASSUME NEW i \in Hits(<<>>) PROVE FALSE
    <2>1. i \in 1 .. Len(Stops) /\ \E p : OccursHere(Stops[i], <<>>, p)
      BY <1>1, HitFacts
    <2>2. PICK p : OccursHere(Stops[i], <<>>, p)
      BY <2>1
    <2>3. Len(Stops[i]) \in Nat \ {0} /\ p \in Nat \ {0} /\ p + Len(Stops[i]) - 1 <= 0
      BY <1>1, <2>1, <2>2, StopFacts DEF OccursHere
    <2> QED BY <2>3
  <1>3. PICK s : s = Settled(<<>>)
    OBVIOUS
  <1>4. s \in Text /\ Len(s) = 0
    BY <1>1, <1>3, SettledFacts
  <1>5. IsPrefix(<<>>, s)
    <2>1. PICK e \in Text : e = <<>>
      BY <1>1
    <2>2. Len(e) <= Len(s) /\ \A i \in 1 .. Len(e) : e[i] = s[i]
      BY <1>1, <1>4, <2>1
    <2> QED BY <1>4, <2>1, <2>2, PrefixFacts DEF Text
  <1>6. \A n : Opens(s, n) => FALSE
    BY <1>4 DEF Opens
  <1> QED BY <1>1, <1>2, <1>3, <1>5, <1>6 DEF MayStay

(* The settled text of one step is settled text of the next. *)
LEMMA SettledExtends ==
    ASSUME NEW a \in Text, NEW b \in Text, IsPrefix(Settled(a), b)
    PROVE  IsPrefix(Settled(a), Settled(b))
  <1>1. PICK s : s = Settled(a)
    OBVIOUS
  <1>2. /\ s \in Text /\ Len(s) \in Nat /\ Len(s) <= Len(a) /\ IsPrefix(s, a)
        /\ Len(s) = 0 \/ a[Len(s)] # Unsettled
    BY <1>1, SettledFacts
  <1>3. PICK r : r = Settled(b)
    OBVIOUS
  <1>4. /\ r \in Text /\ Len(r) \in Nat /\ IsPrefix(r, b)
        /\ \A m \in 1 .. Len(b) : b[m] # Unsettled => m <= Len(r)
    BY <1>3, SettledFacts
  <1>5. /\ Len(s) <= Len(b) /\ \A i \in 1 .. Len(s) : s[i] = b[i] /\ s[i] = a[i]
    BY <1>1, <1>2, PrefixFacts DEF Text
  <1>6. Len(s) <= Len(r)
    <2>1. CASE Len(s) = 0
      BY <2>1, <1>4
    <2>2. CASE Len(s) # 0
      <3>1. Len(s) \in 1 .. Len(s) /\ Len(s) \in 1 .. Len(b)
        BY <2>2, <1>2, <1>5, <1>4 DEF Text
      <3>2. b[Len(s)] # Unsettled
        BY <2>2, <1>2, <1>5, <3>1
      <3> QED BY <1>4, <3>1, <3>2
    <2> QED BY <2>1, <2>2
  <1>7. IsPrefix(s, b)
    BY <1>1
  <1> QED BY <1>1, <1>2, <1>3, <1>4, <1>6, <1>7, PrefixesNest DEF Text

(* A stop sequence that began in what was emitted, and of which the settled  *)
(* text holds a part only, would have been an opening that was held back.    *)
Began(e, a, b, i, p, n) ==
    /\ i \in 1 .. Len(Stops) /\ p \in 1 .. Len(e) /\ n \in Nat
    /\ \A j \in 1 .. n : b[p + j - 1] = Stops[i][j]
    /\ Len(Settled(a)) <= p + n - 1
    /\ Len(Settled(a)) - p + 1 < Len(Stops[i])

(* A stop sequence that completes later did not begin in what was emitted. *)
LEMMA NoneBegan ==
    ASSUME NEW a \in Text, NEW e \in Text, MayStay(e, a),
           NEW b \in Text, IsPrefix(Settled(a), b),
           NEW i, NEW p, NEW n
    PROVE  ~ Began(e, a, b, i, p, n)
  <1> SUFFICES ASSUME Began(e, a, b, i, p, n) PROVE FALSE
    OBVIOUS
  <1> USE DEF Began
  <1>1. PICK s : s = Settled(a)
    OBVIOUS
  <1>2. s \in Text /\ Len(s) \in Nat
    BY <1>1, SettledFacts
  <1>3. IsPrefix(s, b) /\ IsPrefix(e, s)
    BY <1>1 DEF MayStay
  <1>4. Len(e) \in Nat /\ Len(e) <= Len(s) /\ \A j \in 1 .. Len(s) : s[j] = b[j]
    BY <1>2, <1>3, PrefixFacts DEF Text
  <1>5. PICK k \in Nat : k = Len(s) - p + 1
    <2>1. p \in Nat /\ p <= Len(s)
      BY <1>2, <1>4
    <2>2. Len(s) - p + 1 \in Nat
      BY <1>2, <2>1
    <2> QED BY <2>2
  <1>6. k \in 1 .. Len(s) /\ k < Len(Stops[i]) /\ k <= n
    BY <1>1, <1>2, <1>4, <1>5
  <1>7. ASSUME NEW j \in 1 .. k PROVE s[Len(s) - k + j] = Stops[i][j]
    <2>1. j \in 1 .. n /\ p + j - 1 = Len(s) - k + j /\ p + j - 1 \in 1 .. Len(s)
      BY <1>2, <1>4, <1>5, <1>6
    <2> QED BY <1>4, <2>1
  <1>8. Opens(s, k)
    BY <1>6, <1>7 DEF Opens
  <1>9. Len(e) <= Len(s) - k
    BY <1>1, <1>8 DEF MayStay
  <1> QED BY <1>2, <1>4, <1>5, <1>9

(* A round that completes no stop sequence emits what is settled and opens   *)
(* none: it may stay.                                                        *)
LEMMA RoundWithoutHit ==
    ASSUME NEW a \in Text, NEW e \in Text, MayStay(e, a),
           NEW b \in Text, IsPrefix(Settled(a), b), Hits(b) = {},
           NEW rest, rest = IncrementalSuffix(e, b),
           NEW chunk, chunk = SubSeq(rest, 1, EmittableLen(rest))
    PROVE  /\ chunk \in Text
           /\ e \o chunk \in Text
           /\ IsPrefix(e \o chunk, b)
           /\ MayStay(e \o chunk, b)
  <1>1. PICK s : s = Settled(b)
    OBVIOUS
  <1>2. /\ s \in Text /\ Len(s) \in Nat /\ Len(s) <= Len(b) /\ IsPrefix(s, b)
        /\ Len(s) = 0 \/ b[Len(s)] # Unsettled
        /\ \A m \in 1 .. Len(b) : b[m] # Unsettled => m <= Len(s)
    BY <1>1, SettledFacts
  <1>3. IsPrefix(Settled(a), s) /\ IsPrefix(e, Settled(a)) /\ Settled(a) \in Text
    BY <1>1, SettledExtends, SettledFacts DEF MayStay
  <1>4. IsPrefix(e, s) /\ IsPrefix(e, b)
    BY <1>2, <1>3, PrefixTransitive DEF Text
  <1>5. /\ Len(e) \in Nat /\ Len(b) \in Nat /\ Len(e) <= Len(s)
        /\ \A j \in 1 .. Len(s) : s[j] = b[j]
        /\ Len(Settled(a)) \in Nat /\ Len(Settled(a)) <= Len(s)
    BY <1>2, <1>3, <1>4, PrefixFacts DEF Text
  <1>6. rest = SubSeq(b, Len(e) + 1, Len(b))
    BY <1>4, SuffixOfPrefix DEF Text
  <1>7. /\ rest \in Text /\ Len(rest) = Len(b) - Len(e)
        /\ \A j \in 1 .. Len(b) - Len(e) : rest[j] = b[Len(e) + j]
    <2>1. PICK m \in Nat \ {0} : m = Len(e) + 1
      BY <1>5
    <2>2. /\ rest \in Text /\ Len(rest) = Len(b) - m + 1
          /\ \A j \in 1 .. Len(b) - m + 1 : rest[j] = b[m + j - 1]
      <3>1. b \in Seq(Character) /\ Len(b) \in Nat /\ m <= Len(b) + 1
        BY <1>2, <1>5, <2>1 DEF Text
      <3>2. rest = SubSeq(b, m, Len(b))
        BY <1>6, <2>1
      <3> QED BY <3>1, <3>2, SubSeqFacts DEF Text
    <2>3. Len(b) - m + 1 = Len(b) - Len(e) /\ \A j \in Nat : m + j - 1 = Len(e) + j
      BY <1>5, <2>1
    <2> QED BY <2>2, <2>3
  <1>8. PICK head : head = Settled(rest)
    OBVIOUS
  <1>9. /\ head \in Text /\ Len(head) \in Nat /\ Len(head) <= Len(rest)
        /\ IsPrefix(head, rest)
        /\ Len(head) = 0 \/ rest[Len(head)] # Unsettled
        /\ \A m \in 1 .. Len(rest) : rest[m] # Unsettled => m <= Len(head)
    BY <1>7, <1>8, SettledFacts
  <1>10. Len(s) = Len(e) + Len(head)
    <2>1. Len(e) + Len(head) <= Len(s)
      <3>1. CASE Len(head) = 0
        BY <3>1, <1>5
      <3>2. CASE Len(head) # 0
        <4>1. Len(head) \in 1 .. Len(b) - Len(e) /\ Len(e) + Len(head) \in 1 .. Len(b)
          BY <3>2, <1>5, <1>7, <1>9
        <4>2. b[Len(e) + Len(head)] # Unsettled
          BY <3>2, <4>1, <1>7, <1>9
        <4> QED BY <4>1, <4>2, <1>2
      <3> QED BY <3>1, <3>2
    <2>2. Len(s) <= Len(e) + Len(head)
      <3>1. CASE Len(s) <= Len(e)
        BY <3>1, <1>2, <1>5, <1>9
      <3>2. CASE ~ (Len(s) <= Len(e))
        <4> Len(s) - Len(e) \in Nat
          BY <3>2, <1>2, <1>5
        <4>1. PICK m \in Nat : m = Len(s) - Len(e)
          OBVIOUS
        <4>2. m \in 1 .. Len(b) - Len(e) /\ Len(e) + m = Len(s)
          BY <3>2, <4>1, <1>2, <1>5
        <4>3. rest[m] # Unsettled
          <5>1. rest[m] = b[Len(s)]
            BY <4>2, <1>7
          <5>2. Len(s) # 0
            BY <3>2, <1>5
          <5> QED BY <5>1, <5>2, <1>2
        <4>4. m <= Len(head)
          BY <4>2, <4>3, <1>7, <1>9
        <4> QED BY <4>1, <4>4, <1>2, <1>5, <1>9
      <3> QED BY <3>1, <3>2
    <2> QED BY <2>1, <2>2, <1>2, <1>5, <1>9
  <1>11. PICK k : k = EmittableLen(rest)
    OBVIOUS
  <1>12. /\ k \in Nat /\ k <= Len(head)
         /\ \A n : Opens(head, n) => k <= Len(head) - n
    BY <1>7, <1>8, <1>11, EmittableFacts
  <1>13. /\ chunk \in Text /\ e \o chunk \in Text
         /\ Len(e \o chunk) = Len(e) + k
         /\ IsPrefix(e \o chunk, b)
    <2>1. k <= Len(b) - Len(e)
      BY <1>5, <1>7, <1>9, <1>12
    <2> QED BY <2>1, <1>4, <1>11, <1>12, EmitPart DEF Text
  <1>14. IsPrefix(e \o chunk, s)
    <2>1. Len(e \o chunk) <= Len(s)
      <3>1. Len(e) + k <= Len(s)
        BY <1>5, <1>9, <1>10, <1>12
      <3> QED BY <3>1, <1>13
    <2>2. PICK u \in Text : u = e \o chunk
      BY <1>13
    <2> QED BY <2>1, <2>2, <1>2, <1>13, PrefixesNest DEF Text
  <1>15. ASSUME NEW n, Opens(s, n)
         PROVE  Len(e) + k <= Len(s) - n
    <2>1. n \in 1 .. Len(s) /\ n \in Nat
      BY <1>2, <1>15 DEF Opens
    <2>2. PICK i \in 1 .. Len(Stops) :
             /\ n < Len(Stops[i])
             /\ \A j \in 1 .. n : s[Len(s) - n + j] = Stops[i][j]
      BY <1>15 DEF Opens
    <2>3. CASE n <= Len(head)
      <3>1. ASSUME NEW j \in 1 .. n PROVE head[Len(head) - n + j] = Stops[i][j]
        <4>1. PICK q : q = Len(head) - n + j
          OBVIOUS
        <4>2. /\ q \in 1 .. Len(head) /\ q \in 1 .. Len(b) - Len(e)
              /\ Len(e) + q = Len(s) - n + j /\ Len(e) + q \in 1 .. Len(s)
          BY <4>1, <2>1, <2>3, <1>2, <1>5, <1>7, <1>9, <1>10
        <4>3. head[q] = rest[q]
          BY <4>2, <1>7, <1>9, PrefixFacts DEF Text
        <4>4. rest[q] = s[Len(s) - n + j]
          BY <4>2, <1>5, <1>7
        <4> QED BY <4>1, <4>3, <4>4, <2>2
      <3>2. Opens(head, n)
        BY <2>1, <2>2, <2>3, <3>1, <1>9 DEF Opens
      <3>3. k <= Len(head) - n
        BY <3>2, <1>12
      <3> QED BY <3>3, <2>1, <1>5, <1>9, <1>10, <1>12
    <2>4. CASE ~ (n <= Len(head))
      <3>1. PICK p : p = Len(s) - n + 1
        OBVIOUS
      <3>2. p \in 1 .. Len(e) /\ Len(Settled(a)) <= p + n - 1
        BY <3>1, <2>1, <2>4, <1>2, <1>5, <1>9, <1>10
      <3>3. Len(Settled(a)) - p + 1 < Len(Stops[i]) /\ Len(Stops[i]) \in Nat
        BY <3>1, <3>2, <2>1, <2>2, <1>2, <1>5, StopFacts
      <3>4. \A j \in 1 .. n : s[p + j - 1] = Stops[i][j]
        <4> TAKE j \in 1 .. n
        <4>1. p + j - 1 = Len(s) - n + j
          BY <3>1, <2>1, <1>2
        <4> QED BY <4>1, <2>2
      <3>5. Began(e, a, s, i, p, n)
        BY <3>2, <3>3, <3>4, <2>1 DEF Began
      <3> QED BY <3>5, <1>2, <1>3, NoneBegan
    <2> QED BY <2>3, <2>4
  <1>16. MayStay(e \o chunk, b)
    BY <1>1, <1>13, <1>14, <1>15 DEF MayStay
  <1> QED BY <1>13, <1>16

(* A round that completes one cuts the text before it: nothing of it was     *)
(* emitted, and nothing else occurs in what is left.                         *)
LEMMA RoundWithHit ==
    ASSUME NEW a \in Text, NEW e \in Text, MayStay(e, a),
           NEW b \in Text, IsPrefix(Settled(a), b),
           Hits(b) # {}, Cardinality(Hits(b)) <= 1
    PROVE  /\ CutAtStop(b) \in Text
           /\ Hits(CutAtStop(b)) = {}
           /\ IsPrefix(e, CutAtStop(b))
  <1> DEFINE i == Min(Hits(b))
             p == Min(OccursAt(Stops[i], b))
  <1>1. Hits(b) \in SUBSET Nat /\ IsFiniteSet(Hits(b))
    <2>1. Hits(b) \subseteq 1 .. Len(Stops) /\ Len(Stops) \in Nat
      BY StopsAssumption DEF Hits
    <2>2. IsFiniteSet(1 .. Len(Stops))
      BY <2>1, FS_Interval
    <2>3. IsFiniteSet(Hits(b))
      BY <2>1, <2>2, FS_Subset
    <2>4. 1 .. Len(Stops) \subseteq Nat
      OBVIOUS
    <2> QED BY <2>1, <2>3, <2>4
  <1>2. i \in Hits(b)
    BY <1>1, MinFacts
  <1>3. \A j \in Hits(b) : j = i
    <2> SUFFICES ASSUME NEW j \in Hits(b), j # i PROVE FALSE
      OBVIOUS
    <2>1. PICK H : H = Hits(b) \ {i}
      OBVIOUS
    <2>2. IsFiniteSet(H) /\ Cardinality(H) = Cardinality(Hits(b)) - 1
      BY <1>1, <1>2, <2>1, FS_RemoveElement
    <2>3. IsFiniteSet(H \ {j}) /\ Cardinality(H \ {j}) = Cardinality(H) - 1
      <3>1. j \in H
        BY <2>1
      <3> QED BY <2>2, <3>1, FS_RemoveElement
    <2>4. Cardinality(Hits(b)) \in Nat /\ Cardinality(H \ {j}) \in Nat
      BY <1>1, <2>3, FS_CardinalityType
    <2> QED BY <2>2, <2>3, <2>4
  <1>4. i \in 1 .. Len(Stops)
    BY <1>2, HitFacts
  <1>5. PICK s : s = Stops[i]
    OBVIOUS
  <1>6. s \in Text /\ Len(s) \in Nat \ {0}
    BY <1>4, <1>5, StopFacts
  <1>7. /\ OccursAt(s, b) \in SUBSET Nat
        /\ \A q : q \in OccursAt(s, b) <=> OccursHere(s, b, q)
    BY <1>6, OccursAtFacts
  <1>8. OccursAt(s, b) # {}
    BY <1>2, <1>5 DEF Hits
  <1>9. p \in OccursAt(s, b) /\ \A q \in OccursAt(s, b) : p <= q
    BY <1>5, <1>7, <1>8, MinFacts
  <1>10. CutAtStop(b) = SubSeq(b, 1, p - 1)
    BY DEF CutAtStop
  <1> HIDE DEF p, i
  <1>11. /\ p \in Nat \ {0} /\ p + Len(s) - 1 <= Len(b) /\ Len(b) \in Nat
         /\ \A j \in 1 .. Len(s) : b[p + j - 1] = s[j]
    BY <1>7, <1>9 DEF OccursHere, Text
  <1>12. PICK answer : answer = SubSeq(b, 1, p - 1)
    OBVIOUS
  <1>13. answer \in Text /\ Len(answer) = p - 1 /\ IsPrefix(answer, b)
    <2>1. p - 1 \in Nat /\ p - 1 <= Len(b)
      BY <1>6, <1>11
    <2> QED BY <2>1, <1>12, CutIsPrefix DEF Text
  <1>14. ASSUME NEW j \in Hits(answer) PROVE FALSE
    <2>1. j = i
      BY <1>3, <1>13, HitsInPrefix
    <2>2. PICK q : OccursHere(s, answer, q)
      BY <1>5, <1>13, <2>1, HitFacts
    <2>3. q \in OccursAt(s, b)
      BY <2>2, <1>6, <1>7, <1>13, OccursInPrefix
    <2>4. p <= q /\ q + Len(s) - 1 <= p - 1 /\ q \in Nat
      BY <2>2, <2>3, <1>9, <1>13 DEF OccursHere
    <2> QED BY <2>4, <1>6, <1>11
  <1>15. PICK r : r = Settled(a)
    OBVIOUS
  <1>16. /\ r \in Text /\ Len(r) \in Nat /\ IsPrefix(r, a) /\ IsPrefix(r, b)
         /\ IsPrefix(e, r) /\ Hits(a) = {}
    BY <1>15, SettledFacts DEF MayStay
  <1>17. /\ Len(e) \in Nat /\ Len(e) <= Len(r)
         /\ \A j \in 1 .. Len(r) : r[j] = b[j]
    BY <1>16, PrefixFacts DEF Text
  <1>18. Len(e) <= p - 1
    <2> SUFFICES ASSUME p <= Len(e) PROVE FALSE
      BY <1>11, <1>17
    <2>1. CASE p + Len(s) - 1 <= Len(r)
      <3>1. ASSUME NEW j \in 1 .. Len(s) PROVE r[p + j - 1] = s[j]
        <4>1. p + j - 1 \in 1 .. Len(r)
          BY <2>1, <1>6, <1>11, <1>16
        <4> QED BY <4>1, <1>11, <1>17
      <3>2. OccursHere(s, r, p)
        BY <2>1, <3>1, <1>11 DEF OccursHere
      <3>3. i \in Hits(r)
        BY <3>2, <1>4, <1>5, <1>16, HitFacts
      <3> QED BY <3>3, <1>16, HitsInPrefix
    <2>2. CASE ~ (p + Len(s) - 1 <= Len(r))
      <3>1. p \in 1 .. Len(e) /\ Len(s) \in Nat
        BY <1>6, <1>11, <1>17
      <3>2. Len(r) <= p + Len(s) - 1 /\ Len(r) - p + 1 < Len(s)
        BY <2>2, <1>6, <1>11, <1>16
      <3>3. Began(e, a, b, i, p, Len(s))
        BY <3>1, <3>2, <1>4, <1>5, <1>11, <1>15 DEF Began
      <3> QED BY <3>3, NoneBegan
    <2> QED BY <2>1, <2>2
  <1>19. IsPrefix(e, answer)
    <2>1. IsPrefix(e, b)
      BY <1>16, PrefixTransitive DEF Text
    <2> QED BY <2>1, <1>13, <1>18, PrefixesNest DEF Text
  <1> QED BY <1>10, <1>12, <1>13, <1>14, <1>19

-----------------------------------------------------------------------------
(* FlattenSeq is a recursive function: that there is one, and only one, is   *)
(* shown for the shortest sequence that would have none, or two.             *)
Flattens(f, s, n) ==
    f = [i \in 1 .. n |-> IF i = 1 THEN s[i] ELSE f[i - 1] \o s[i]]

(* The folding function of FlattenSeq exists at every length: the least length without one
   would have one at the length before it. *)
LEMMA FlattenExists ==
    ASSUME NEW s, NEW n \in Nat
    PROVE  \E f : Flattens(f, s, n)
  <1> DEFINE Missing == {k \in Nat : ~ \E f : Flattens(f, s, k)}
  <1> SUFFICES ASSUME Missing # {} PROVE FALSE
    OBVIOUS
  <1>1. PICK m \in Missing : \A k \in Missing : m <= k
    BY Least
  <1>2. m # 0
    <2>1. PICK f : f = [i \in 1 .. 0 |-> 0]
      OBVIOUS
    <2>2. Flattens(f, s, 0)
      BY <2>1 DEF Flattens
    <2> QED BY <2>2
  <1>3. m - 1 \in Nat /\ m - 1 \notin Missing
    BY <1>1, <1>2
  <1>4. PICK f : Flattens(f, s, m - 1)
    BY <1>3
  <1>5. /\ DOMAIN f = 1 .. m - 1
        /\ \A i \in 1 .. m - 1 : f[i] = IF i = 1 THEN s[i] ELSE f[i - 1] \o s[i]
    BY <1>4 DEF Flattens
  <1> DEFINE g == [i \in 1 .. m |-> IF i <= m - 1 THEN f[i]
                                    ELSE IF i = 1 THEN s[i] ELSE f[i - 1] \o s[i]]
  <1>6. \A i \in 1 .. m : g[i] = IF i = 1 THEN s[i] ELSE g[i - 1] \o s[i]
    <2> TAKE i \in 1 .. m
    <2>1. CASE i <= m - 1
      <3>1. g[i] = f[i] /\ i \in 1 .. m - 1
        BY <2>1, <1>1
      <3>2. i # 1 => i - 1 \in 1 .. m /\ i - 1 <= m - 1 /\ g[i - 1] = f[i - 1]
        BY <2>1, <1>1
      <3> QED BY <3>1, <3>2, <1>5
    <2>2. CASE ~ (i <= m - 1)
      <3>1. g[i] = IF i = 1 THEN s[i] ELSE f[i - 1] \o s[i]
        BY <2>2
      <3>2. i # 1 => i - 1 \in 1 .. m /\ i - 1 <= m - 1 /\ g[i - 1] = f[i - 1]
        BY <2>2, <1>1
      <3> QED BY <3>1, <3>2
    <2> QED BY <2>1, <2>2
  <1>7. PICK h : h = g
    OBVIOUS
  <1>8. h = [i \in 1 .. m |-> h[i]]
    BY <1>7
  <1>9. \A i \in 1 .. m : h[i] = IF i = 1 THEN s[i] ELSE h[i - 1] \o s[i]
    BY <1>6, <1>7
  <1>10. Flattens(h, s, m)
    BY <1>8, <1>9 DEF Flattens
  <1> QED BY <1>1, <1>10

(* The first k entries only depend on the first k of the sequence.           *)
Agree(s, t, n, m, k) ==
    /\ n \in Nat /\ m \in Nat /\ k \in Nat /\ k <= n /\ k <= m
    /\ \A i \in 1 .. k : s[i] = t[i]

LEMMA FlattenUnique ==
    ASSUME NEW s, NEW t, NEW n, NEW m, NEW k, Agree(s, t, n, m, k),
           NEW f, Flattens(f, s, n), NEW g, Flattens(g, t, m)
    PROVE  \A i \in 1 .. k : f[i] = g[i]
  <1> USE DEF Agree
  <1> DEFINE Differ == {i \in 1 .. k : f[i] # g[i]}
  <1> SUFFICES ASSUME Differ # {} PROVE FALSE
    OBVIOUS
  <1>1. Differ \in SUBSET Nat
    OBVIOUS
  <1>2. PICK d \in Differ : \A i \in Differ : d <= i
    BY <1>1, Least
  <1>3. d \in 1 .. k /\ d \in Nat /\ f[d] # g[d]
    BY <1>2
  <1>4. /\ f[d] = IF d = 1 THEN s[d] ELSE f[d - 1] \o s[d]
        /\ g[d] = IF d = 1 THEN t[d] ELSE g[d - 1] \o t[d]
    <2>1. d \in 1 .. n /\ d \in 1 .. m
      BY <1>3
    <2> QED BY <2>1 DEF Flattens
  <1>5. d # 1 => f[d - 1] = g[d - 1]
    <2> SUFFICES ASSUME d # 1, f[d - 1] # g[d - 1] PROVE FALSE
      OBVIOUS
    <2>1. d - 1 \in Differ
      BY <1>3
    <2>2. d <= d - 1
      BY <2>1, <1>2
    <2> QED BY <2>2, <1>3
  <1> QED BY <1>3, <1>4, <1>5

LEMMA FlattenIs ==
    ASSUME NEW s, Len(s) \in Nat \ {0}
    PROVE  \E f : Flattens(f, s, Len(s)) /\ FlattenSeq(s) = f[Len(s)]
  <1> DEFINE F(f) == f = [i \in 1 .. Len(s) |-> IF i = 1 THEN s[i] ELSE f[i - 1] \o s[i]]
  <1>1. \E f : F(f)
    BY FlattenExists DEF Flattens
  <1>2. F(CHOOSE f : F(f))
    BY <1>1
  <1>3. FlattenSeq(s) = (CHOOSE f : F(f))[Len(s)]
    BY DEF FlattenSeq
  <1> HIDE DEF F
  <1>4. PICK f : f = (CHOOSE g : F(g))
    OBVIOUS
  <1>5. F(f) /\ FlattenSeq(s) = f[Len(s)]
    BY <1>2, <1>3, <1>4
  <1> QED BY <1>5 DEF F, Flattens

(* The pieces of a longer wire are those of the shorter and the new one's.   *)
LEMMA FlattenAppend ==
    ASSUME NEW s, NEW t, Len(s) \in Nat, Len(t) = Len(s) + 1,
           \A i \in 1 .. Len(s) : s[i] = t[i]
    PROVE  FlattenSeq(t) = IF Len(s) = 0 THEN t[1]
                           ELSE FlattenSeq(s) \o t[Len(t)]
  <1>1. PICK n \in Nat : n = Len(s)
    OBVIOUS
  <1>0. PICK m \in Nat : m = n + 1
    OBVIOUS
  <1>2. PICK g : Flattens(g, t, m) /\ FlattenSeq(t) = g[m]
    BY <1>0, <1>1, FlattenIs
  <1>3. g[m] = IF m = 1 THEN t[m] ELSE g[m - 1] \o t[m]
    <2>1. m \in 1 .. m
      BY <1>0
    <2> QED BY <1>2, <2>1 DEF Flattens
  <1>4. CASE n = 0
    BY <1>0, <1>1, <1>2, <1>3, <1>4
  <1>5. CASE n # 0
    <2>1. PICK f : Flattens(f, s, n) /\ FlattenSeq(s) = f[n]
      BY <1>1, <1>5, FlattenIs
    <2>2. f[n] = g[n]
      <3>1. Agree(s, t, n, m, n) /\ Flattens(f, s, n) /\ Flattens(g, t, m)
        BY <1>0, <1>1, <1>2, <2>1 DEF Agree
      <3>2. \A i \in 1 .. n : f[i] = g[i]
        BY <3>1, FlattenUnique
      <3> QED BY <3>2, <1>5
    <2>3. m # 1 /\ m - 1 = n
      BY <1>0, <1>5
    <2> QED BY <1>0, <1>1, <1>2, <1>3, <1>5, <2>1, <2>2, <2>3
  <1> QED BY <1>4, <1>5

Piece(r) == IF r[1] = "text" THEN r[2] ELSE <<>>

(* The pieces of a reply, record by record. *)
LEMMA PiecesOfNothing == Pieces(<<>>) = <<>>
  <1> DEFINE s == [i \in DOMAIN <<>> |-> IF (<<>>)[i][1] = "text" THEN (<<>>)[i][2] ELSE <<>>]
  <1>1. DOMAIN <<>> = {}
    OBVIOUS
  <1>2. s = <<>>
    BY <1>1
  <1>3. Pieces(<<>>) = FlattenSeq(s)
    BY DEF Pieces
  <1> QED BY <1>2, <1>3 DEF FlattenSeq

LEMMA PiecesAppend ==
    ASSUME NEW R, NEW w \in Seq(R), NEW r \in R,
           Pieces(w) \in Text, Piece(r) \in Text
    PROVE  Pieces(w \o <<r>>) = Pieces(w) \o Piece(r)
  <1> DEFINE v == w \o <<r>>
             s == [i \in DOMAIN w |-> IF w[i][1] = "text" THEN w[i][2] ELSE <<>>]
             t == [i \in DOMAIN v |-> IF v[i][1] = "text" THEN v[i][2] ELSE <<>>]
  <1>1. PICK n \in Nat : n = Len(w)
    OBVIOUS
  <1>2. /\ v \in Seq(R) /\ Len(v) = n + 1 /\ v[n + 1] = r
        /\ \A i \in 1 .. n : v[i] = w[i]
        /\ DOMAIN v = 1 .. n + 1 /\ DOMAIN w = 1 .. n
    BY <1>1
  <1> HIDE DEF v
  <1>3. /\ Len(s) = n /\ Len(t) = n + 1
        /\ \A i \in 1 .. n : s[i] = t[i]
        /\ t[n + 1] = Piece(r)
    BY <1>2 DEF Piece
  <1>4. Pieces(w) = FlattenSeq(s) /\ Pieces(v) = FlattenSeq(t)
    BY DEF Pieces
  <1> HIDE DEF s, t
  <1>5. FlattenSeq(t) = IF Len(s) = 0 THEN t[1] ELSE FlattenSeq(s) \o t[Len(t)]
    BY <1>3, FlattenAppend
  <1>6. CASE n = 0
    <2>1. w = <<>>
      BY <1>1, <1>6, EmptySeq
    <2>2. Pieces(w) = <<>>
      BY <2>1, PiecesOfNothing
    <2>3. <<>> \o Piece(r) = Piece(r)
      BY ConcatEmptySeq DEF Text
    <2>4. Pieces(v) = Piece(r)
      BY <1>3, <1>4, <1>5, <1>6
    <2> QED BY <2>2, <2>3, <2>4 DEF v
  <1>7. CASE n # 0
    BY <1>3, <1>4, <1>5, <1>7 DEF v
  <1> QED BY <1>6, <1>7

-----------------------------------------------------------------------------
(* The inductive invariant. *)
Phases == {"idle", "load", "chat", "stream", "other", "prefill", "decode", "flush", "done"}

Status == {400, 409, 500} \cup UNION {Statuses(q) : q \in Others}

Record == {<<"json">>, <<"open">>, <<"start">>, <<"failed">>, <<"end">>}
            \cup ({"error"} \X Status) \cup ({"text"} \X Text) \cup ({"done"} \X Nat)

Types ==
    /\ loaded # NoModel =>
          /\ loaded.window \in Nat \ {0} /\ loaded.window <= MaxReply /\ MaxReply \in Nat
          /\ CacheType(cache, loaded.window)
    /\ request \in Requests \cup {Unset}
    /\ connected \in BOOLEAN
    /\ wire \in Seq(Record)
    /\ pc \in Phases
    /\ tokens \in Seq(Token)
    /\ prompted \in Nat /\ maxTokens \in Nat /\ pos \in Nat
    /\ text \in Text /\ emitted \in Text

(* A request that was read and not begun has no locals and no answer yet.    *)
Begun ==
    /\ pc # "idle" => request \in Requests
    /\ pc \in {"load", "chat", "stream", "other"} =>
          /\ request.kind = pc
          /\ wire = <<>> /\ pos = 0 /\ text = <<>> /\ emitted = <<>>
    /\ Generating => request.kind \in {"chat", "stream"} /\ loaded # NoModel

(* Where a generation is, and what the window leaves it. *)
Room ==
    Generating =>
        /\ prompted >= 1 /\ maxTokens >= 1
        /\ prompted + maxTokens <= loaded.window
        /\ IF pc = "prefill"
           THEN Len(tokens) = prompted /\ pos <= prompted - 1
           ELSE /\ Len(tokens) = pos + 1
                /\ prompted <= pos + 1 /\ pos + 1 <= prompted + maxTokens
        /\ \A i \in prompted + 1 .. Len(tokens) : tokens[i] \in Token \ Eos

Line == [p \in 0 .. Len(tokens) - 1 |-> tokens[p + 1]]

OwnCache == pc \in {"prefill", "decode"} => cache.filled = pos /\ Coherent(cache, Line)

(* The text holds no stop sequence and begins with what was emitted.         *)
Shown ==
    /\ Hits(text) = {} /\ IsPrefix(emitted, text)
    /\ pc = "prefill" => text = <<>> /\ emitted = <<>>
    /\ pc = "decode" => text = Decoded(Generated) /\ MayStay(emitted, text)
    /\ pc = "done" => emitted = text

(* A stream that has not ended. *)
Streaming(w) ==
    \A i \in DOMAIN w : w[i][1] = IF i = 1 THEN "open" ELSE IF i = 2 THEN "start" ELSE "text"

(* An answer that was sent to its end. *)
Ended(w, window) ==
    \/ Len(w) = 1 /\ w[1][1] \in {"json", "error"}
    \/ /\ Len(w) >= 3
       /\ w[1][1] = "open" /\ w[Len(w)] = <<"end">>
       /\ \A i \in 2 .. Len(w) - 2 : w[i][1] = IF i = 2 THEN "start" ELSE "text"
       /\ LET last == w[Len(w) - 1]
          IN  last[1] = "failed" \/ (last[1] = "done" /\ last[2] <= window)

Wire ==
    /\ Pieces(wire) \in Text /\ IsPrefix(Pieces(wire), emitted)
    /\ Generating =>
         IF request.kind = "chat" THEN wire = <<>>
         ELSE /\ Streaming(wire)
              /\ pc = "prefill" => Len(wire) <= 1
              /\ connected => IF pc = "prefill" THEN Len(wire) = 1
                              ELSE Len(wire) >= 2 /\ Pieces(wire) = emitted
    /\ pc = "idle" => \/ Ended(wire, loaded.window)
                      \/ Streaming(wire) /\ (request = Unset \/ ~ connected)
    /\ pc = "idle" => StreamedIsAnswer

(* What the refusals and the shortened threads owe to the window.            *)
LastTurn == Len(Last(request.thread))

Fair ==
    request # Unset /\ request.kind \in {"chat", "stream"} /\ loaded # NoModel =>
        /\ wire = << <<"error", 400>> >> =>
             \/ ~ request.encodes
             \/ LastTurn = 0 \/ LastTurn >= loaded.window
             \/ /\ request.max # Unset
                /\ request.max > Lesser(Greater(Reserve(loaded.window), 1),
                                        loaded.window - LastTurn)
        /\ Generating /\ prompted # LastTurn /\ request.max = Unset =>
             maxTokens >= Lesser(Greater(Reserve(loaded.window), 1), DefaultTokens)

IInv == Types /\ Begun /\ Room /\ OwnCache /\ Shown /\ Wire /\ Fair

-----------------------------------------------------------------------------
(* What the assumptions say of the constants. *)
LEMMA RecordFacts ==
    ASSUME NEW r \in Record
    PROVE  Piece(r) \in Text
  <1>1. <<>> \in Text
    BY NothingEmitted
  <1>2. CASE r \in {"text"} \X Text
    BY <1>2 DEF Piece
  <1>3. CASE r \in ({"error"} \X Status) \cup ({"done"} \X Nat)
    BY <1>1, <1>3 DEF Piece
  <1>4. CASE r \in {<<"json">>, <<"open">>, <<"start">>, <<"failed">>, <<"end">>}
    BY <1>1, <1>4 DEF Piece
  <1> QED BY <1>2, <1>3, <1>4 DEF Record

(* What a request carries, and the window a model is loaded with. *)
LEMMA RequestFacts ==
    ASSUME NEW q \in Requests
    PROVE  /\ q.kind \in {"load", "chat", "stream", "other"}
           /\ q.kind = "load" => q.model \in Models
           /\ q.kind = "other" => q \in Others
           /\ q.kind \in {"chat", "stream"} =>
                 q.thread \in Threads /\ q.encodes \in BOOLEAN /\ q.max \in MaxTokensAsked
  <1>1. CASE q \in [kind : {"load"}, model : Models, context : Contexts]
    BY <1>1
  <1>2. CASE q \in [kind : {"chat", "stream"}, thread : Threads, encodes : BOOLEAN,
                     max : MaxTokensAsked]
    BY <1>2
  <1>3. CASE q \in Others
    BY <1>3, ServeAssumption
  <1> QED BY <1>1, <1>2, <1>3 DEF Requests

LEMMA WindowFacts ==
    ASSUME NEW m \in Models, NEW asked, NEW w \in Windows(m, asked)
    PROVE  w \in Nat \ {0} /\ w <= MaxReply /\ MaxReply \in Nat
  BY WindowBelowMaxReply DEF Windows

(* The turn that is kept, and the last one, are sequences of tokens.         *)
LEMMA ThreadFacts ==
    ASSUME NEW thread \in Threads, NEW window \in Nat \ {0}
    PROVE  /\ Len(Last(thread)) \in Nat
           /\ Reserve(window) \in Nat \ {0} /\ Reserve(window) <= window
           /\ \E i \in DOMAIN thread :
                 /\ i = TrimStart(thread, window)
                 /\ thread[i] \in Seq(Token)
                 /\ thread[i] = <<>> => Len(Last(thread)) = 0
                 /\ thread[i] # Last(thread) => Len(thread[i]) + Reserve(window) <= window
  <1>1. thread \in Seq(Seq(Token)) /\ thread # <<>>
    BY ServeAssumption
  <1>2. PICK n \in Nat : n = Len(thread) /\ n >= 1 /\ DOMAIN thread = 1 .. n
    BY <1>1, EmptySeq
  <1> DEFINE T == {i \in DOMAIN thread :
                     i = Len(thread) \/ Len(thread[i]) + Reserve(window) <= window}
  <1>3. T \in SUBSET Nat /\ n \in T
    BY <1>2
  <1>4. Min(T) \in T
    BY <1>3, MinFacts
  <1>5. PICK i \in T : i = TrimStart(thread, window)
    BY <1>4 DEF TrimStart
  <1>6. thread[i] \in Seq(Token) /\ Last(thread) \in Seq(Token)
    BY <1>1, <1>2 DEF Last
  <1>7. Reserve(window) \in Nat \ {0} /\ Reserve(window) <= window
    BY DEF Reserve, Greater
  <1>8. thread[i] = <<>> => Len(Last(thread)) = 0
    <2>1. thread[i] = <<>> => Last(thread) = <<>>
      BY ServeAssumption
    <2> QED BY <2>1, EmptySeq
  <1>9. thread[i] # Last(thread) => Len(thread[i]) + Reserve(window) <= window
    BY <1>2 DEF Last
  <1> QED BY <1>2, <1>5, <1>6, <1>7, <1>8, <1>9

(* The budget of a reply, and when there is none. *)
LEMMA BudgetFacts ==
    ASSUME NEW asked \in MaxTokensAsked, NEW len \in Nat, NEW window \in Nat \ {0}
    PROVE  LET max == MaxTokensFor(asked, len, window)
           IN  /\ max \in Nat
               /\ max = 0 => \/ len >= window
                             \/ asked # Unset /\ asked \in Nat /\ asked > window - len
               /\ max # 0 => /\ len + max <= window
                             /\ asked = Unset => max = Lesser(DefaultTokens, window - len)
  <1>1. DefaultTokens \in Nat \ {0} /\ (asked # Unset => asked \in Nat \ {0})
    BY ServeAssumption
  <1>2. PICK left \in Int : left = window - len
    OBVIOUS
  <1>3. CASE left <= 0
    <2>1. MaxTokensFor(asked, len, window) = 0
      BY <1>2, <1>3 DEF MaxTokensFor
    <2> QED BY <1>2, <1>3, <2>1
  <1>4. CASE left > 0 /\ asked = Unset
    <2>1. MaxTokensFor(asked, len, window) = Lesser(DefaultTokens, left)
      BY <1>2, <1>4 DEF MaxTokensFor
    <2>2. PICK max : max = Lesser(DefaultTokens, left)
      OBVIOUS
    <2>3. max \in Nat \ {0} /\ max <= left
      BY <1>1, <1>4, <2>2 DEF Lesser
    <2> QED BY <1>2, <1>4, <2>1, <2>2, <2>3
  <1>5. CASE left > 0 /\ asked # Unset
    <2>1. PICK n \in Nat \ {0} : n = asked
      BY <1>1, <1>5
    <2>2. PICK max : max = MaxTokensFor(asked, len, window)
      OBVIOUS
    <2>3. MaxTokensFor(n, len, window) = IF n > left THEN 0 ELSE n
      <3>1. n # Unset /\ ~ (window - len <= 0)
        BY <1>2, <1>5, <2>1
      <3>2. MaxTokensFor(n, len, window) = IF n > window - len THEN 0 ELSE n
        BY <3>1 DEF MaxTokensFor
      <3> QED BY <1>2, <3>2
    <2>4. max = IF n > left THEN 0 ELSE n
      BY <2>1, <2>2, <2>3
    <2>5. max \in Nat /\ (max = 0 => n > left) /\ (max # 0 => len + max <= window)
      BY <1>2, <2>4
    <2> QED BY <1>2, <1>5, <2>1, <2>2, <2>4, <2>5
  <1> QED BY <1>3, <1>4, <1>5

-----------------------------------------------------------------------------
(* What goes over the wire. *)
LEMMA PrefixOfConcat ==
    ASSUME NEW S, NEW a \in Seq(S), NEW b \in Seq(S), NEW c \in Seq(S), IsPrefix(a, b)
    PROVE  b \o c \in Seq(S) /\ IsPrefix(a, b \o c)
  <1>1. PICK d : d = b \o c
    OBVIOUS
  <1>2. /\ d \in Seq(S) /\ Len(d) = Len(b) + Len(c)
        /\ \A i \in 1 .. Len(b) + Len(c) : d[i] = IF i <= Len(b) THEN b[i] ELSE c[i - Len(b)]
    BY <1>1, ConcatProperties
  <1>3. Len(a) <= Len(b) /\ \A i \in 1 .. Len(a) : a[i] = b[i]
    BY PrefixFacts
  <1>4. Len(a) <= Len(d) /\ \A i \in 1 .. Len(a) : a[i] = d[i]
    BY <1>2, <1>3
  <1> QED BY <1>1, <1>2, <1>4, PrefixFacts

(* One more record, and what it adds to the pieces. *)
LEMMA OneMore ==
    ASSUME NEW w \in Seq(Record), NEW r \in Record, Pieces(w) \in Text
    PROVE  LET v == w \o <<r>>
           IN  /\ v \in Seq(Record) /\ Len(v) = Len(w) + 1 /\ v[Len(w) + 1] = r
               /\ \A i \in 1 .. Len(w) : v[i] = w[i]
               /\ Pieces(v) = Pieces(w) \o Piece(r)
               /\ Pieces(v) \in Text
  <1>1. PICK v : v = w \o <<r>>
    OBVIOUS
  <1>2. /\ v \in Seq(Record) /\ Len(v) = Len(w) + 1 /\ v[Len(w) + 1] = r
        /\ \A i \in 1 .. Len(w) : v[i] = w[i]
    BY <1>1
  <1>3. Pieces(v) = Pieces(w) \o Piece(r)
    BY <1>1, RecordFacts, PiecesAppend
  <1>4. Pieces(w) \o Piece(r) \in Text
    BY RecordFacts, ConcatProperties DEF Text
  <1> QED BY <1>1, <1>2, <1>3, <1>4

LEMMA NoPiece ==
    ASSUME NEW w \in Seq(Record), NEW r \in Record, Pieces(w) \in Text, r[1] # "text"
    PROVE  Pieces(w \o <<r>>) = Pieces(w)
  <1>1. Piece(r) = <<>>
    BY DEF Piece
  <1>2. Pieces(w) \o <<>> = Pieces(w)
    BY ConcatEmptySeq DEF Text
  <1>3. Pieces(w \o <<r>>) = Pieces(w) \o Piece(r)
    BY OneMore
  <1> QED BY <1>1, <1>2, <1>3

(* The next record of a stream. *)
LEMMA StreamGrows ==
    ASSUME NEW w \in Seq(Record), NEW r \in Record, Pieces(w) \in Text, Streaming(w),
           r[1] = IF Len(w) = 0 THEN "open" ELSE IF Len(w) = 1 THEN "start" ELSE "text"
    PROVE  Streaming(w \o <<r>>)
  <1>1. PICK v : v = w \o <<r>>
    OBVIOUS
  <1>2. PICK n \in Nat : n = Len(w) /\ DOMAIN w = 1 .. n
    OBVIOUS
  <1>3. /\ DOMAIN v = 1 .. n + 1 /\ v[n + 1] = r
        /\ \A i \in 1 .. n : v[i] = w[i]
    BY <1>1, <1>2, OneMore
  <1>4. \A i \in 1 .. n + 1 :
           v[i][1] = IF i = 1 THEN "open" ELSE IF i = 2 THEN "start" ELSE "text"
    BY <1>2, <1>3 DEF Streaming
  <1> QED BY <1>1, <1>3, <1>4 DEF Streaming

(* Its last two records. *)
LEMMA StreamEnds ==
    ASSUME NEW w \in Seq(Record), Pieces(w) \in Text, Streaming(w), Len(w) >= 1,
           NEW r \in Record, NEW window,
           r[1] = "failed" \/ (r[1] = "done" /\ r[2] <= window)
    PROVE  LET v == w \o <<r, <<"end">> >>
           IN  v \in Seq(Record) /\ Ended(v, window) /\ Pieces(v) = Pieces(w)
  <1>1. PICK u : u = w \o <<r>>
    OBVIOUS
  <1>2. PICK v : v = u \o << <<"end">> >>
    OBVIOUS
  <1>3. PICK n \in Nat : n = Len(w) /\ DOMAIN w = 1 .. n /\ n >= 1
    OBVIOUS
  <1>4. <<"end">> \in Record
    BY DEF Record
  <1>5. v = w \o <<r, <<"end">> >>
    BY <1>1, <1>2, <1>4
  <1>6. /\ u \in Seq(Record) /\ Len(u) = n + 1 /\ u[n + 1] = r
        /\ \A i \in 1 .. n : u[i] = w[i]
        /\ Pieces(u) = Pieces(w)
    BY <1>1, <1>3, OneMore, NoPiece
  <1>7. /\ v \in Seq(Record) /\ Len(v) = n + 2 /\ v[n + 2] = <<"end">>
        /\ \A i \in 1 .. n + 1 : v[i] = u[i]
        /\ Pieces(v) = Pieces(u)
    <2>1. PICK e \in Record : e = <<"end">>
      BY <1>4
    <2>2. e[1] # "text"
      BY <2>1
    <2>3. v = u \o <<e>> /\ u \in Seq(Record) /\ Pieces(u) \in Text
      BY <1>2, <1>6, <2>1
    <2>4. Pieces(v) = Pieces(u)
      BY <2>2, <2>3, NoPiece
    <2>5. /\ v \in Seq(Record) /\ Len(v) = Len(u) + 1 /\ v[Len(u) + 1] = e
          /\ \A i \in 1 .. Len(u) : v[i] = u[i]
      BY <2>3, OneMore
    <2> QED BY <1>3, <1>6, <2>1, <2>4, <2>5
  <1>8. v[1][1] = "open"
    BY <1>3, <1>6, <1>7 DEF Streaming
  <1>9. \A i \in 2 .. n : v[i][1] = IF i = 2 THEN "start" ELSE "text"
    <2> SUFFICES ASSUME NEW i \in 2 .. n
                 PROVE  v[i][1] = IF i = 2 THEN "start" ELSE "text"
      OBVIOUS
    <2>1. i \in 1 .. n /\ i \in 1 .. n + 1 /\ i # 1 /\ i \in DOMAIN w
      BY <1>3
    <2>2. v[i] = w[i]
      BY <1>6, <1>7, <2>1
    <2>3. w[i][1] = IF i = 1 THEN "open" ELSE IF i = 2 THEN "start" ELSE "text"
      BY <2>1 DEF Streaming
    <2> QED BY <2>1, <2>2, <2>3
  <1>10. v[n + 1] = r
    BY <1>3, <1>6, <1>7
  <1>11. Len(v) - 2 = n /\ Len(v) - 1 = n + 1 /\ Len(v) >= 3
    BY <1>3, <1>7
  <1>12. Ended(v, window)
    BY <1>7, <1>8, <1>9, <1>10, <1>11 DEF Ended
  <1> QED BY <1>5, <1>6, <1>7, <1>12

(* An answer in one record. *)
LEMMA WholeAnswer ==
    ASSUME NEW r \in Record, r[1] \in {"json", "error"}, NEW window
    PROVE  LET v == <<>> \o <<r>>
           IN  /\ v \in Seq(Record) /\ Ended(v, window) /\ v = <<r>>
               /\ Pieces(v) = <<>> /\ Pieces(v) \in Text
  <1>1. <<>> \in Seq(Record) /\ Pieces(<<>>) = <<>> /\ <<>> \in Text
    BY EmptySeq, PiecesOfNothing, NothingEmitted
  <1>2. PICK v : v = <<>> \o <<r>>
    OBVIOUS
  <1>3. v = <<r>> /\ v \in Seq(Record) /\ Len(v) = 1 /\ v[1] = r
    BY <1>2
  <1>4. PICK w \in Seq(Record) : w = <<>>
    BY <1>1
  <1>5. Pieces(w \o <<r>>) = Pieces(w)
    BY <1>1, <1>4, NoPiece
  <1> QED BY <1>1, <1>2, <1>3, <1>4, <1>5 DEF Ended

(* An open stream is neither done nor refused, and no record at all is one. *)
LEMMA StreamingFacts ==
    ASSUME NEW w \in Seq(Record), Streaming(w)
    PROVE  /\ \A i \in DOMAIN w : w[i][1] # "done"
           /\ w # << <<"error", 400>> >>
  <1>1. \A i \in DOMAIN w : w[i][1] # "done"
    BY DEF Streaming
  <1>2. w # << <<"error", 400>> >>
    <2> SUFFICES ASSUME w = << <<"error", 400>> >> PROVE FALSE
      OBVIOUS
    <2>1. 1 \in DOMAIN w /\ w[1][1] = "error"
      OBVIOUS
    <2> QED BY <2>1 DEF Streaming
  <1> QED BY <1>1, <1>2

LEMMA NothingStreamed ==
    /\ <<>> \in Seq(Record) /\ Streaming(<<>>) /\ <<>> # << <<"error", 400>> >>
    /\ \A i \in DOMAIN <<>> : (<<>>)[i][1] # "done"
    /\ Pieces(<<>>) = <<>>
    /\ \A t \in Text : IsPrefix(<<>>, t)
  <1>1. <<>> \in Seq(Record) /\ DOMAIN <<>> = {} /\ Len(<<>>) = 0 /\ <<>> \in Text
    BY EmptySeq DEF Text
  <1>2. <<>> # << <<"error", 400>> >>
    OBVIOUS
  <1>3. ASSUME NEW t \in Text PROVE IsPrefix(<<>>, t)
    <2>1. PICK e \in Text : e = <<>>
      BY <1>1
    <2>2. Len(e) <= Len(t) /\ \A i \in 1 .. Len(e) : e[i] = t[i]
      BY <1>1, <2>1 DEF Text
    <2> QED BY <2>1, <2>2, PrefixFacts DEF Text
  <1> QED BY <1>1, <1>2, <1>3, PiecesOfNothing DEF Streaming

(* A write to the client of a generation: it adds what is new to a stream    *)
(* whose client is there, and nothing otherwise.                             *)
Sending(records, chunk) ==
    /\ wire \in Seq(Record) /\ connected \in BOOLEAN
    /\ request.kind \in {"chat", "stream"}
    /\ Pieces(wire) \in Text /\ emitted \in Text /\ chunk \in Text
    /\ IsPrefix(Pieces(wire), emitted)
    /\ request.kind = "chat" => wire = <<>>
    /\ request.kind = "stream" =>
          Streaming(wire) /\ (connected => Pieces(wire) = emitted)
    /\ \/ records = <<>> /\ chunk = <<>>
       \/ \E r \in Record :
             /\ records = <<r>> /\ Piece(r) = chunk
             /\ request.kind = "stream" /\ connected =>
                  r[1] = IF Len(wire) = 0 THEN "open"
                         ELSE IF Len(wire) = 1 THEN "start" ELSE "text"

(* What a delivery leaves on the wire, whether or not the reader stays. *)
LEMMA DeliverFacts ==
    ASSUME NEW records, NEW chunk, NEW next, Sending(records, chunk),
           Deliver(records, next), emitted' = emitted \o chunk
    PROVE  /\ wire' \in Seq(Record) /\ emitted' \in Text
           /\ Pieces(wire)' \in Text /\ IsPrefix(Pieces(wire), emitted)'
           /\ pc' = next \/ (pc' = "idle" /\ ~ connected /\ request.kind = "stream")
           /\ request.kind = "chat" => wire' = <<>>
           /\ request.kind = "stream" => Streaming(wire')
           /\ ~ connected => wire' = wire
           /\ request.kind = "stream" /\ connected =>
                 Pieces(wire') = emitted' /\ Len(wire') = Len(wire) + Len(records)
  <1>1. emitted' \in Text /\ IsPrefix(Pieces(wire), emitted')
    BY PrefixOfConcat DEF Sending, Text
  <1>2. wire \o <<>> = wire
    BY ConcatEmptySeq DEF Sending
  <1>3. /\ pc' = next \/ (pc' = "idle" /\ ~ connected /\ request.kind = "stream")
        /\ wire' = IF request.kind = "stream" /\ connected THEN wire \o records ELSE wire
    BY <1>2 DEF Deliver, Send, Sending
  <1>4. CASE ~ (request.kind = "stream" /\ connected)
    <2>1. wire' = wire
      BY <1>3, <1>4
    <2>2. Pieces(wire)' = Pieces(wire)
      BY <2>1 DEF Pieces
    <2>3. IsPrefix(Pieces(wire), emitted)'
      BY <1>1, <2>2
    <2> QED BY <1>1, <1>3, <1>4, <2>1, <2>2, <2>3 DEF Sending
  <1>5. CASE request.kind = "stream" /\ connected
    <2>1. wire' = wire \o records /\ Pieces(wire) = emitted /\ Streaming(wire)
      BY <1>3, <1>5 DEF Sending
    <2>2. /\ wire' \in Seq(Record) /\ Streaming(wire')
          /\ Pieces(wire') = emitted' /\ Len(wire') = Len(wire) + Len(records)
      <3>1. CASE records = <<>> /\ chunk = <<>>
        <4>1. emitted' = emitted
          BY <3>1, ConcatEmptySeq DEF Sending, Text
        <4> QED BY <2>1, <1>2, <3>1, <4>1 DEF Sending
      <3>2. ASSUME NEW r \in Record, records = <<r>>, Piece(r) = chunk,
                   r[1] = IF Len(wire) = 0 THEN "open"
                          ELSE IF Len(wire) = 1 THEN "start" ELSE "text"
            PROVE  /\ wire' \in Seq(Record) /\ Streaming(wire')
                   /\ Pieces(wire') = emitted' /\ Len(wire') = Len(wire) + Len(records)
        <4>1. wire \in Seq(Record) /\ Pieces(wire) \in Text
          BY DEF Sending
        <4>2. Streaming(wire \o <<r>>)
          BY <2>1, <3>2, <4>1, StreamGrows
        <4>3. /\ wire \o <<r>> \in Seq(Record) /\ Len(wire \o <<r>>) = Len(wire) + 1
              /\ Pieces(wire \o <<r>>) = Pieces(wire) \o Piece(r)
          BY <4>1, OneMore
        <4> QED BY <2>1, <3>2, <4>2, <4>3
      <3> QED BY <1>5, <3>1, <3>2 DEF Sending
    <2>3. IsPrefix(emitted, emitted)'
      BY <1>1 DEF IsPrefix
    <2>4. Pieces(wire)' = Pieces(wire')
      BY DEF Pieces
    <2> QED BY <1>1, <1>3, <1>5, <2>2, <2>3, <2>4
  <1> QED BY <1>4, <1>5

(* After it, the stream is as long as it was or the request is over.         *)
LEMMA DeliverWire ==
    ASSUME NEW records, NEW chunk, NEW next, Sending(records, chunk),
           Deliver(records, next), emitted' = emitted \o chunk,
           next \in {"prefill", "decode", "flush", "done"},
           UNCHANGED <<request, connected>>,
           request.kind = "stream" /\ connected =>
              Len(wire) + Len(records) >= 2 \/ (next = "prefill" /\ Len(wire) + Len(records) = 1),
           next = "prefill" /\ request.kind = "stream" =>
              Len(wire) = 0 /\ Len(records) = 1
    PROVE  /\ Wire' /\ wire' \in Seq(Record) /\ emitted' \in Text
           /\ pc' \in {next, "idle"} /\ (pc' # next => pc' = "idle")
           /\ wire' # << <<"error", 400>> >>
  <1>1. /\ wire' \in Seq(Record) /\ emitted' \in Text
        /\ Pieces(wire)' \in Text /\ IsPrefix(Pieces(wire), emitted)'
        /\ pc' = next \/ (pc' = "idle" /\ ~ connected /\ request.kind = "stream")
        /\ request.kind = "chat" => wire' = <<>>
        /\ request.kind = "stream" => Streaming(wire')
        /\ ~ connected => wire' = wire
        /\ request.kind = "stream" /\ connected =>
              Pieces(wire') = emitted' /\ Len(wire') = Len(wire) + Len(records)
    BY DeliverFacts
  <1>2. request.kind \in {"chat", "stream"} /\ wire \in Seq(Record) /\ connected \in BOOLEAN
    BY DEF Sending
  <1>3. wire' # << <<"error", 400>> >> /\ ~ Completed'
    BY <1>1, <1>2, StreamingFacts, NothingStreamed DEF Completed
  <1>4. pc' = "idle" => Streaming(wire') /\ ~ connected'
    BY <1>1
  <1>5. Pieces(wire)' = Pieces(wire')
    BY DEF Pieces
  <1>6. Generating' =>
          IF request'.kind = "chat" THEN wire' = <<>>
          ELSE /\ Streaming(wire')
               /\ pc' = "prefill" => Len(wire') <= 1
               /\ connected' => IF pc' = "prefill" THEN Len(wire') = 1
                                ELSE Len(wire') >= 2 /\ Pieces(wire') = emitted'
    <2>1. CASE request.kind = "chat"
      BY <1>1, <2>1
    <2>2. CASE request.kind = "stream"
      <3>0. Len(records) \in Nat /\ Len(wire) \in Nat
        BY <1>2 DEF Sending
      <3>1. CASE connected
        <4>1. /\ Len(wire') = Len(wire) + Len(records) /\ Pieces(wire') = emitted'
              /\ pc' = next /\ Streaming(wire')
          BY <1>1, <2>2, <3>1
        <4>2. IF next = "prefill" THEN Len(wire') = 1 ELSE Len(wire') >= 2
          <5>1. CASE next = "prefill"
            BY <2>2, <4>1, <5>1
          <5>2. CASE next # "prefill"
            BY <2>2, <3>0, <3>1, <4>1, <5>2
          <5> QED BY <5>1, <5>2
        <4> QED BY <2>2, <4>1, <4>2
      <3>2. CASE ~ connected
        <4>1. wire' = wire /\ Streaming(wire') /\ ~ connected'
          BY <1>1, <2>2, <3>2
        <4>2. pc' = "prefill" => next = "prefill"
          BY <1>1
        <4> QED BY <2>2, <3>0, <4>1, <4>2
      <3> QED BY <1>2, <3>1, <3>2
    <2> QED BY <1>2, <2>1, <2>2
  <1>7. Wire'
    BY <1>1, <1>3, <1>4, <1>5, <1>6 DEF Wire, StreamedIsAnswer, Streaming
  <1> QED BY <1>1, <1>3, <1>7

(* An answer that ends a request nothing was sent for yet. *)
LEMMA WholeAnswered ==
    ASSUME NEW r \in Record, r[1] \in {"json", "error"},
           wire = <<>>, Answer(<<r>>), connected \in BOOLEAN, emitted \in Text,
           UNCHANGED <<request, connected, emitted>>
    PROVE  /\ Wire' /\ wire' \in Seq(Record) /\ pc' = "idle"
           /\ wire' = <<>> \/ wire' = <<r>>
  <1>1. pc' = "idle" /\ wire' = IF connected THEN <<>> \o <<r>> ELSE <<>>
    BY DEF Answer, Send
  <1>2. ~ Generating'
    BY <1>1 DEF Generating
  <1>3. Pieces(wire)' = Pieces(wire')
    BY DEF Pieces
  <1>4. CASE connected
    <2>1. /\ wire' \in Seq(Record) /\ Ended(wire', loaded'.window) /\ wire' = <<r>>
          /\ Pieces(wire') = <<>>
      BY <1>1, <1>4, WholeAnswer
    <2>2. ~ Completed'
      <3>1. \A i \in DOMAIN wire' : wire'[i] = r
        BY <2>1
      <3> QED BY <3>1 DEF Completed
    <2>3. Ended(wire, loaded.window)'
      BY <2>1 DEF Ended
    <2> QED BY <1>1, <1>2, <1>3, <2>1, <2>2, <2>3, NothingStreamed, NothingEmitted
            DEF Wire, StreamedIsAnswer
  <1>5. CASE ~ connected
    <2>1. wire' = <<>> /\ ~ connected'
      BY <1>1, <1>5
    <2>2. ~ Completed'
      BY <2>1 DEF Completed
    <2>3. Streaming(wire)'
      BY <2>1 DEF Streaming
    <2> QED BY <1>1, <1>2, <1>3, <2>1, <2>2, <2>3, NothingStreamed, NothingEmitted
            DEF Wire, StreamedIsAnswer
  <1> QED BY <1>4, <1>5

(* The last two records of a stream. *)
LEMMA StreamAnswered ==
    ASSUME NEW r \in Record,
           r[1] = "failed" \/ (r[1] = "done" /\ r[2] <= loaded.window /\ emitted = text),
           Answer(<<r, <<"end">> >>), connected \in BOOLEAN,
           emitted \in Text, text \in Text, wire \in Seq(Record),
           Pieces(wire) \in Text, IsPrefix(Pieces(wire), emitted), Streaming(wire),
           connected => Len(wire) >= 1,
           connected /\ r[1] = "done" => Pieces(wire) = emitted,
           UNCHANGED <<request, connected, emitted, text, loaded>>
    PROVE  /\ Wire' /\ wire' \in Seq(Record) /\ pc' = "idle"
           /\ wire' # << <<"error", 400>> >>
  <1>1. pc' = "idle" /\ wire' = IF connected THEN wire \o <<r, <<"end">> >> ELSE wire
    BY DEF Answer, Send
  <1>2. ~ Generating'
    BY <1>1 DEF Generating
  <1>3. Pieces(wire)' = Pieces(wire')
    BY DEF Pieces
  <1>4. \A i \in DOMAIN wire : wire[i][1] # "done"
    BY StreamingFacts
  <1>5. CASE connected
    <2>1. PICK v : v = wire \o <<r, <<"end">> >>
      OBVIOUS
    <2>2. v \in Seq(Record) /\ Ended(v, loaded.window) /\ Pieces(v) = Pieces(wire)
      BY <1>5, <2>1, StreamEnds
    <2>3. Ended(wire, loaded.window)'
      BY <1>1, <1>5, <2>1, <2>2 DEF Ended
    <2>4. StreamedIsAnswer'
      <3>1. CASE r[1] = "done"
        BY <1>1, <1>3, <1>5, <2>1, <2>2, <3>1 DEF StreamedIsAnswer
      <3>2. CASE r[1] = "failed"
        <4>1. \A i \in DOMAIN v : v[i][1] # "done"
          <5>1. PICK n \in Nat : n = Len(wire) /\ DOMAIN wire = 1 .. n
            OBVIOUS
          <5>2. DOMAIN v = 1 .. n + 2 /\ v[n + 1] = r /\ v[n + 2] = <<"end">>
                /\ \A i \in 1 .. n : v[i] = wire[i]
            BY <2>1, <5>1
          <5> QED BY <1>4, <3>2, <5>1, <5>2
        <4> QED BY <1>1, <1>5, <2>1, <4>1 DEF StreamedIsAnswer, Completed
      <3> QED BY <3>1, <3>2
    <2>5. wire' # << <<"error", 400>> >>
      BY <1>1, <1>5, <2>1, <2>2 DEF Ended
    <2> QED BY <1>1, <1>2, <1>3, <1>5, <2>1, <2>2, <2>3, <2>4, <2>5 DEF Wire
  <1>6. CASE ~ connected
    <2>1. wire' = wire /\ ~ connected'
      BY <1>1, <1>6
    <2>2. ~ Completed' /\ wire # << <<"error", 400>> >>
      BY <1>4, <2>1, StreamingFacts DEF Completed
    <2>3. Streaming(wire)'
      BY <2>1 DEF Streaming
    <2> QED BY <1>1, <1>2, <1>3, <2>1, <2>2, <2>3 DEF Wire, StreamedIsAnswer
  <1> QED BY <1>5, <1>6

(* What was owed to the request stays so, while it is not refused.           *)
LEMMA FairKept ==
    ASSUME Fair, UNCHANGED <<request, loaded>>,
           wire' # << <<"error", 400>> >> \/ wire' = wire,
           Generating' => Generating /\ UNCHANGED <<prompted, maxTokens>>
    PROVE  Fair'
  <1>1. LastTurn' = LastTurn
    BY DEF LastTurn
  <1> QED BY <1>1 DEF Fair

-----------------------------------------------------------------------------
(* One lemma for each action. *)
LEMMA InitInv == Init => IInv
  <1> SUFFICES ASSUME Init PROVE IInv
    OBVIOUS
  <1>1. /\ request = Unset /\ connected = TRUE /\ wire = <<>> /\ pc = "idle"
        /\ tokens = <<>> /\ prompted = 0 /\ maxTokens = 0 /\ pos = 0
        /\ text = <<>> /\ emitted = <<>>
    BY DEF Init
  <1>2. loaded # NoModel =>
           /\ loaded.window \in Nat \ {0} /\ loaded.window <= MaxReply /\ MaxReply \in Nat
           /\ CacheType(cache, loaded.window)
    <2> SUFFICES ASSUME loaded # NoModel
                 PROVE  /\ loaded.window \in Nat \ {0} /\ loaded.window <= MaxReply /\ MaxReply \in Nat
                        /\ CacheType(cache, loaded.window)
      OBVIOUS
    <2>1. PICK m \in Models, c \in Contexts : \E w \in Windows(m, c) :
             loaded = [model |-> m, window |-> w]
      BY DEF Init
    <2>2. loaded.window \in Windows(m, c)
      BY <2>1
    <2>3. loaded.window \in Nat \ {0} /\ loaded.window <= MaxReply /\ MaxReply \in Nat
      BY <2>2, WindowFacts
    <2>4. cache = NewCache(loaded.window)
      BY DEF Init
    <2> QED BY <2>3, <2>4, NewCacheFacts
  <1>3. <<>> \in Seq(Record) /\ <<>> \in Seq(Token) /\ <<>> \in Text /\ Hits(<<>>) = {}
    BY EmptySeq, NothingEmitted
  <1>4. Types
    BY <1>1, <1>2, <1>3 DEF Types, Phases
  <1>5. Begun /\ Room /\ OwnCache /\ Fair
    BY <1>1 DEF Begun, Room, OwnCache, Fair, Generating
  <1>6. Shown
    BY <1>1, <1>3, NothingStreamed DEF Shown
  <1>7. ~ Completed
    BY <1>1 DEF Completed
  <1>8. Wire
    BY <1>1, <1>3, <1>7, NothingStreamed DEF Wire, StreamedIsAnswer, Generating
  <1> QED BY <1>4, <1>5, <1>6, <1>8 DEF IInv

(* The steps of the loop, one by one. *)
LEMMA ReceiveInv == IInv /\ Receive => IInv'
  <1> SUFFICES ASSUME IInv, Receive PROVE IInv'
    OBVIOUS
  <1>1. /\ request' \in Requests /\ connected' = TRUE /\ wire' = <<>> /\ pc' = request'.kind
        /\ tokens' = <<>> /\ prompted' = 0 /\ maxTokens' = 0 /\ pos' = 0
        /\ text' = <<>> /\ emitted' = <<>>
        /\ UNCHANGED <<loaded, cache>>
    BY DEF Receive
  <1>2. pc' \in {"load", "chat", "stream", "other"}
    BY <1>1, RequestFacts
  <1>3. <<>> \in Seq(Record) /\ <<>> \in Seq(Token) /\ <<>> \in Text /\ Hits(<<>>) = {}
    BY EmptySeq, NothingEmitted
  <1>4. Types'
    BY <1>1, <1>2, <1>3 DEF Types, Phases, IInv
  <1>5. Begun' /\ Room' /\ OwnCache'
    BY <1>1, <1>2 DEF Begun, Room, OwnCache, Generating
  <1>6. Fair'
    BY <1>1, <1>2, NothingStreamed DEF Fair, Generating
  <1>7. Shown'
    BY <1>1, <1>2, <1>3, NothingStreamed DEF Shown
  <1>8. Pieces(wire)' = <<>>
    BY <1>1, PiecesOfNothing DEF Pieces
  <1>9. Wire'
    BY <1>1, <1>2, <1>3, <1>8, NothingStreamed DEF Wire, Generating
  <1> QED BY <1>4, <1>5, <1>6, <1>7, <1>9 DEF IInv

LEMMA LeaveInv == IInv /\ Leave => IInv'
  <1> SUFFICES ASSUME IInv, Leave PROVE IInv'
    OBVIOUS
  <1>1. /\ pc # "idle" /\ connected' = FALSE
        /\ UNCHANGED <<loaded, cache, request, wire, pc, tokens, prompted, maxTokens,
                       pos, text, emitted>>
    BY DEF Leave, generation
  <1>2. Types' /\ Begun'
    BY <1>1 DEF Types, Begun, IInv, Generating
  <1>3. Room' /\ OwnCache'
    BY <1>1 DEF Room, OwnCache, IInv, Generating, Line
  <1>4. Shown' /\ Fair'
    BY <1>1, FairKept DEF Shown, IInv, Generated, Generating
  <1>5. Pieces(wire)' = Pieces(wire)
    BY <1>1 DEF Pieces
  <1>6. Wire'
    BY <1>1, <1>5 DEF Wire, IInv, Generating
  <1> QED BY <1>2, <1>3, <1>4, <1>6 DEF IInv

(* A request that ends in one record, with or without a new model.           *)
LEMMA WholeAnswerInv ==
    ASSUME IInv, NEW r \in Record, r[1] \in {"json", "error"},
           wire = <<>>, Answer(<<r>>),
           UNCHANGED <<request, connected, text, emitted>>,
           tokens' \in Seq(Token), prompted' \in Nat, maxTokens' \in Nat, pos' \in Nat,
           loaded' # NoModel => /\ loaded'.window \in Nat \ {0} /\ loaded'.window <= MaxReply /\ MaxReply \in Nat
                                /\ CacheType(cache', loaded'.window),
           Fair'
    PROVE  IInv'
  <1>1. connected \in BOOLEAN /\ emitted \in Text /\ text \in Text
    BY DEF IInv, Types
  <1>2. /\ Wire' /\ wire' \in Seq(Record) /\ pc' = "idle"
        /\ wire' = <<>> \/ wire' = <<r>>
    BY <1>1, WholeAnswered
  <1>3. Types'
    BY <1>1, <1>2 DEF IInv, Types, Phases
  <1>4. Begun' /\ Room' /\ OwnCache'
    BY <1>2 DEF Begun, Room, OwnCache, Generating
  <1>5. Shown'
    BY <1>2 DEF IInv, Shown
  <1> QED BY <1>2, <1>3, <1>4, <1>5 DEF IInv

(* Only a refusal is a refusal. *)
LEMMA NotRefused ==
    ASSUME NEW r, r[1] # "error" \/ r[2] # 400
    PROVE  <<r>> # << <<"error", 400>> >>
  <1> SUFFICES ASSUME <<r>> = << <<"error", 400>> >> PROVE FALSE
    OBVIOUS
  <1>1. (<<r>>)[1] = r /\ (<< <<"error", 400>> >>)[1] = <<"error", 400>>
    OBVIOUS
  <1>2. r = <<"error", 400>>
    BY <1>1
  <1> QED BY <1>2

LEMMA AnswerOtherInv == IInv /\ AnswerOther => IInv'
  <1> SUFFICES ASSUME IInv, AnswerOther PROVE IInv'
    OBVIOUS
  <1>1. /\ pc = "other" /\ request \in Requests /\ request.kind = "other" /\ wire = <<>>
        /\ UNCHANGED <<loaded, cache, request, connected, tokens, prompted, maxTokens, pos,
                       text, emitted>>
    BY DEF AnswerOther, generation, IInv, Begun
  <1>2. request \in Others
    BY <1>1, RequestFacts
  <1>3. PICK status \in Statuses(request) :
           Answer(IF status < 300 THEN << <<"json">> >> ELSE << <<"error", status>> >>)
    BY DEF AnswerOther
  <1>4. PICK r : r = IF status < 300 THEN <<"json">> ELSE <<"error", status>>
    OBVIOUS
  <1>5. r \in Record /\ r[1] \in {"json", "error"}
    <2>1. status \in Status
      BY <1>2, <1>3 DEF Status
    <2>2. CASE status < 300
      BY <1>4, <2>2 DEF Record
    <2>3. CASE ~ (status < 300)
      <3>1. r = <<"error", status>> /\ r \in {"error"} \X Status
        BY <1>4, <2>1, <2>3
      <3> QED BY <3>1 DEF Record
    <2> QED BY <2>2, <2>3
  <1>6. Answer(<<r>>)
    <2>1. CASE status < 300
      BY <1>3, <1>4, <2>1
    <2>2. CASE ~ (status < 300)
      BY <1>3, <1>4, <2>2
    <2> QED BY <2>1, <2>2
  <1>7. Fair'
    BY <1>1 DEF Fair
  <1>8. Types
    BY DEF IInv
  <1> QED BY <1>1, <1>5, <1>6, <1>7, <1>8, WholeAnswerInv DEF Types

(* Every answer the handlers send is a record. *)
LEMMA AnswersAreRecords ==
    /\ <<"json">> \in Record /\ <<"open">> \in Record /\ <<"start">> \in Record
    /\ <<"failed">> \in Record /\ <<"end">> \in Record
    /\ \A c \in {400, 409, 500} : <<"error", c>> \in Record
    /\ \A t \in Text : <<"text", t>> \in Record
    /\ \A n \in Nat : <<"done", n>> \in Record
  <1>1. \A c \in {400, 409, 500} : <<"error", c>> \in {"error"} \X Status
    BY DEF Status
  <1> QED BY <1>1 DEF Record

LEMMA LoadInv == IInv /\ Load => IInv'
  <1> SUFFICES ASSUME IInv, Load PROVE IInv'
    OBVIOUS
  <1>1. /\ pc = "load" /\ request \in Requests /\ request.kind = "load" /\ wire = <<>>
        /\ UNCHANGED <<request, connected, tokens, prompted, maxTokens, pos, text, emitted>>
    BY DEF Load, generation, IInv, Begun
  <1>2. PICK w \in Windows(request.model, request.context) :
           loaded' = [model |-> request.model, window |-> w] /\ cache' = NewCache(w)
    BY DEF Load
  <1>3. loaded'.window = w /\ w \in Nat \ {0} /\ w <= MaxReply /\ MaxReply \in Nat
    BY <1>1, <1>2, RequestFacts, WindowFacts
  <1>4. CacheType(cache', w)
    BY <1>2, <1>3, NewCacheFacts
  <1>5. PICK r : r = <<"json">>
    OBVIOUS
  <1>6. r \in Record /\ r[1] \in {"json", "error"} /\ Answer(<<r>>)
    BY <1>5, AnswersAreRecords DEF Load
  <1>7. Fair'
    BY <1>1 DEF Fair
  <1>8. Types
    BY DEF IInv
  <1> QED BY <1>1, <1>3, <1>4, <1>6, <1>7, <1>8, WholeAnswerInv DEF Types

LEMMA LoadFailsInv == IInv /\ LoadFails => IInv'
  <1> SUFFICES ASSUME IInv, LoadFails PROVE IInv'
    OBVIOUS
  <1>1. /\ pc = "load" /\ request.kind = "load" /\ wire = <<>>
        /\ UNCHANGED <<loaded, cache, request, connected, tokens, prompted, maxTokens, pos,
                       text, emitted>>
    BY DEF LoadFails, generation, IInv, Begun
  <1>2. PICK r : r = <<"error", 400>>
    OBVIOUS
  <1>3. r \in Record /\ r[1] \in {"json", "error"} /\ Answer(<<r>>)
    BY <1>2, AnswersAreRecords DEF LoadFails
  <1>4. Fair'
    BY <1>1 DEF Fair
  <1>5. Types
    BY DEF IInv
  <1> QED BY <1>1, <1>3, <1>4, <1>5, WholeAnswerInv DEF Types

LEMMA NothingLoadedInv == IInv /\ NothingLoaded => IInv'
  <1> SUFFICES ASSUME IInv, NothingLoaded PROVE IInv'
    OBVIOUS
  <1>1. /\ pc \in {"chat", "stream"} /\ loaded = NoModel /\ wire = <<>>
        /\ UNCHANGED <<loaded, cache, request, connected, tokens, prompted, maxTokens, pos,
                       text, emitted>>
    BY DEF NothingLoaded, generation, IInv, Begun
  <1>2. PICK r : r = <<"error", 409>>
    OBVIOUS
  <1>3. r \in Record /\ r[1] \in {"json", "error"} /\ Answer(<<r>>)
    BY <1>2, AnswersAreRecords DEF NothingLoaded
  <1>4. Fair'
    BY <1>1 DEF Fair
  <1>5. Types
    BY DEF IInv
  <1> QED BY <1>1, <1>3, <1>4, <1>5, WholeAnswerInv DEF Types

(* What was asked of a chat, and what it is given. *)
LEMMA PrepareInv == IInv /\ Prepare => IInv'
  <1> SUFFICES ASSUME IInv, Prepare PROVE IInv'
    OBVIOUS
  <1>1. /\ pc \in {"chat", "stream"} /\ loaded # NoModel
        /\ request \in Requests /\ request.kind = pc
        /\ wire = <<>> /\ pos = 0 /\ text = <<>> /\ emitted = <<>>
        /\ UNCHANGED <<loaded, request, connected>>
    BY DEF Prepare, IInv, Begun
  <1>2. /\ loaded.window \in Nat \ {0} /\ loaded.window <= MaxReply /\ MaxReply \in Nat
        /\ CacheType(cache, loaded.window)
        /\ Types
    BY <1>1 DEF IInv, Types
  <1>3. request.thread \in Threads /\ request.max \in MaxTokensAsked
    BY <1>1, RequestFacts
  <1>4. PICK window \in Nat \ {0} : window = loaded.window
    BY <1>2
  <1>5. PICK last \in Nat : last = LastTurn
    BY <1>3, <1>4, ThreadFacts DEF LastTurn
  <1>6. PICK reserve \in Nat \ {0} : reserve = Reserve(window) /\ reserve <= window
    BY <1>3, ThreadFacts
  <1>7. Greater(Reserve(loaded.window), 1) = reserve
    BY <1>4, <1>6 DEF Greater
  <1>8. PICK prompt \in Seq(Token) :
           /\ prompt = request.thread[TrimStart(request.thread, loaded.window)]
           /\ prompt = <<>> => last = 0
           /\ Len(prompt) # last => Len(prompt) + reserve <= window
    <2>1. PICK i \in DOMAIN request.thread :
             /\ i = TrimStart(request.thread, window)
             /\ request.thread[i] \in Seq(Token)
             /\ request.thread[i] = <<>> => Len(Last(request.thread)) = 0
             /\ request.thread[i] # Last(request.thread) =>
                   Len(request.thread[i]) + Reserve(window) <= window
      BY <1>3, ThreadFacts
    <2>2. PICK p \in Seq(Token) : p = request.thread[i]
      BY <2>1
    <2>3. Len(p) # last => p # Last(request.thread)
      BY <1>5 DEF LastTurn
    <2> QED BY <1>4, <1>5, <1>6, <2>1, <2>2, <2>3 DEF LastTurn
  <1>9. PICK max \in Nat :
           /\ max = MaxTokensFor(request.max, Len(prompt), loaded.window)
           /\ max = 0 => \/ Len(prompt) >= window
                         \/ /\ request.max # Unset /\ request.max \in Nat
                            /\ request.max > window - Len(prompt)
           /\ max # 0 => /\ Len(prompt) + max <= window
                         /\ request.max = Unset =>
                              max = Lesser(DefaultTokens, window - Len(prompt))
    <2>1. Len(prompt) \in Nat
      BY <1>8
    <2> QED BY <1>3, <1>4, <2>1, BudgetFacts
  <1>10. CASE ~ request.encodes \/ ~ PromptValid(prompt, loaded.window) \/ max = 0
    <2>1. /\ Answer(<< <<"error", 400>> >>)
          /\ UNCHANGED <<cache, tokens, prompted, maxTokens, pos, text, emitted>>
      BY <1>8, <1>9, <1>10 DEF Prepare, generation
    <2>2. PICK r : r = <<"error", 400>>
      OBVIOUS
    <2>3. r \in Record /\ r[1] \in {"json", "error"} /\ Answer(<<r>>)
      BY <2>1, <2>2, AnswersAreRecords
    <2>4. \/ ~ request.encodes
          \/ last = 0 \/ last >= window
          \/ /\ request.max # Unset
             /\ request.max > Lesser(reserve, window - last)
      <3> SUFFICES ASSUME request.encodes
                   PROVE  \/ last = 0 \/ last >= window
                          \/ /\ request.max # Unset
                             /\ request.max > Lesser(reserve, window - last)
        OBVIOUS
      <3>1. Len(prompt) \in Nat /\ (Len(prompt) = 0 => prompt = <<>>)
        BY <1>8, EmptySeq
      <3>2. CASE Len(prompt) = last
        <4>1. \/ last = 0 \/ last >= window
              \/ request.max # Unset /\ request.max \in Nat /\ request.max > window - last
          BY <1>4, <1>8, <1>9, <1>10, <3>1, <3>2 DEF PromptValid
        <4> QED BY <4>1 DEF Lesser
      <3>3. CASE Len(prompt) # last
        <4>1. Len(prompt) + reserve <= window
          BY <1>8, <3>3
        <4>2. \/ last = 0
              \/ request.max # Unset /\ request.max \in Nat /\ request.max > window - Len(prompt)
          BY <1>4, <1>8, <1>9, <1>10, <3>1, <4>1 DEF PromptValid
        <4> QED BY <3>1, <4>1, <4>2 DEF Lesser
      <3> QED BY <3>2, <3>3
    <2>5. pc' = "idle"
      BY <2>1 DEF Answer
    <2>6. LastTurn' = LastTurn
      BY <1>1 DEF LastTurn
    <2>7. Fair'
      BY <1>1, <1>4, <1>5, <1>7, <2>4, <2>5, <2>6 DEF Fair, Generating
    <2> QED BY <1>1, <1>2, <2>1, <2>3, <2>7, WholeAnswerInv DEF Types
  <1>11. CASE request.encodes /\ PromptValid(prompt, loaded.window) /\ max # 0
    <2>1. /\ tokens' = prompt /\ prompted' = Len(prompt) /\ maxTokens' = max
          /\ Deliver(<< <<"open">> >>, "prefill")
          /\ cache' = IF pc' = "prefill" THEN CleanCache(cache) ELSE cache
          /\ UNCHANGED <<pos, text, emitted>>
      BY <1>8, <1>9, <1>11 DEF Prepare
    <2>2. Len(prompt) \in Nat \ {0}
      BY <1>8, <1>11, EmptySeq DEF PromptValid
    <2>3. Sending(<< <<"open">> >>, <<>>)
      <3>1. PICK r : r = <<"open">>
        OBVIOUS
      <3>2. r \in Record /\ r[1] = "open" /\ Piece(r) = <<>>
        BY <3>1, AnswersAreRecords DEF Piece
      <3>3. <<>> \in Text /\ Len(<<>>) = 0
        BY NothingEmitted
      <3> QED BY <1>1, <1>2, <3>1, <3>2, <3>3, NothingStreamed DEF Sending, Types
    <2>4. emitted' = emitted \o <<>>
      BY <1>1, <2>1, NothingEmitted, ConcatEmptySeq DEF Text
    <2>5. Len(wire) = 0 /\ Len(<< <<"open">> >>) = 1
      BY <1>1
    <2>6. /\ Wire' /\ wire' \in Seq(Record) /\ emitted' \in Text
          /\ pc' \in {"prefill", "idle"}
          /\ wire' # << <<"error", 400>> >>
      BY <1>1, <2>1, <2>3, <2>4, <2>5, DeliverWire
    <2>7. /\ CacheType(cache', loaded'.window)
          /\ pc' = "prefill" => cache'.filled = 0
      <3>1. CASE pc' = "prefill"
        <4>1. cache' = Truncate(cache, 0)
          BY <2>1, <3>1 DEF CleanCache
        <4>2. cache.filled \in Nat
          BY <1>2 DEF CacheType
        <4> QED BY <1>1, <1>2, <4>1, <4>2, TruncateBelow
      <3>2. CASE pc' # "prefill"
        BY <1>1, <1>2, <2>1, <3>2
      <3> QED BY <3>1, <3>2
    <2>8. Types'
      BY <1>1, <1>2, <1>8, <1>9, <2>1, <2>2, <2>6, <2>7 DEF Types, Phases
    <2>9. Begun'
      BY <1>1, <2>6 DEF Begun, Generating
    <2>10. Room'
      <3>1. Len(tokens') = prompted' /\ pos' <= prompted' - 1 /\ prompted' >= 1
        BY <1>1, <2>1, <2>2
      <3>2. maxTokens' >= 1 /\ prompted' + maxTokens' <= loaded'.window
        BY <1>1, <1>4, <1>9, <1>11, <2>1
      <3>3. \A i \in prompted' + 1 .. Len(tokens') : tokens'[i] \in Token \ Eos
        BY <2>2, <3>1
      <3> QED BY <2>6, <3>1, <3>2, <3>3 DEF Room, Generating
    <2>11. OwnCache'
      BY <1>1, <2>1, <2>6, <2>7 DEF OwnCache, Coherent
    <2>12. Shown'
      BY <1>1, <2>1, <2>6, NothingEmitted, NothingStreamed DEF Shown
    <2>13. Fair'
      <3>1. LastTurn' = LastTurn
        BY <1>1 DEF LastTurn
      <3>2. ASSUME prompted' # last, request.max = Unset
            PROVE  maxTokens' >= Lesser(reserve, DefaultTokens)
        <4>1. Len(prompt) + reserve <= window
          BY <1>8, <2>1, <3>2
        <4>2. max = Lesser(DefaultTokens, window - Len(prompt))
          BY <1>9, <1>11, <3>2
        <4>3. DefaultTokens \in Nat
          BY ServeAssumption
        <4>4. PICK left \in Int : left = window - Len(prompt) /\ reserve <= left
          BY <2>2, <4>1
        <4>5. max >= Lesser(reserve, DefaultTokens)
          BY <4>2, <4>3, <4>4 DEF Lesser
        <4> QED BY <2>1, <4>5
      <3> QED BY <1>1, <1>4, <1>5, <1>7, <2>6, <3>1, <3>2 DEF Fair
    <2> QED BY <2>6, <2>8, <2>9, <2>10, <2>11, <2>12, <2>13 DEF IInv
  <1> QED BY <1>10, <1>11

(* What holds while a reply is generated. *)
LEMMA GeneratingFacts ==
    ASSUME IInv, Generating
    PROVE  /\ pc \in {"prefill", "decode", "flush", "done"}
           /\ loaded # NoModel /\ loaded.window \in Nat \ {0} /\ loaded.window <= MaxReply /\ MaxReply \in Nat
           /\ CacheType(cache, loaded.window)
           /\ request \in Requests /\ request.kind \in {"chat", "stream"}
           /\ connected \in BOOLEAN /\ wire \in Seq(Record)
           /\ tokens \in Seq(Token) /\ Len(tokens) \in Nat
           /\ prompted \in Nat \ {0} /\ maxTokens \in Nat \ {0} /\ pos \in Nat
           /\ prompted + maxTokens <= loaded.window /\ pos < loaded.window
           /\ text \in Text /\ emitted \in Text
           /\ Hits(text) = {} /\ IsPrefix(emitted, text)
           /\ Pieces(wire) \in Text /\ IsPrefix(Pieces(wire), emitted)
           /\ request.kind = "chat" => wire = <<>>
           /\ request.kind = "stream" => Streaming(wire)
  <1>1. Types /\ Begun /\ Room /\ Shown /\ Wire
    BY DEF IInv
  <1>2. pc \in {"prefill", "decode", "flush", "done"} /\ pc # "idle"
    BY DEF Generating
  <1>3. /\ loaded # NoModel /\ request \in Requests /\ request.kind \in {"chat", "stream"}
    BY <1>1, <1>2 DEF Begun
  <1>4. /\ loaded.window \in Nat \ {0} /\ loaded.window <= MaxReply /\ MaxReply \in Nat
        /\ CacheType(cache, loaded.window)
        /\ connected \in BOOLEAN /\ wire \in Seq(Record)
        /\ tokens \in Seq(Token) /\ Len(tokens) \in Nat
        /\ prompted \in Nat /\ maxTokens \in Nat /\ pos \in Nat
        /\ text \in Text /\ emitted \in Text
    BY <1>1, <1>3 DEF Types
  <1>5. /\ prompted >= 1 /\ maxTokens >= 1 /\ prompted + maxTokens <= loaded.window
        /\ pos <= prompted - 1 \/ pos + 1 <= prompted + maxTokens
    BY <1>1 DEF Room
  <1>6. pos < loaded.window
    BY <1>4, <1>5
  <1>7. /\ Hits(text) = {} /\ IsPrefix(emitted, text)
        /\ Pieces(wire) \in Text /\ IsPrefix(Pieces(wire), emitted)
        /\ request.kind = "chat" => wire = <<>>
        /\ request.kind = "stream" => Streaming(wire)
    BY <1>1, <1>3 DEF Shown, Wire
  <1> QED BY <1>2, <1>3, <1>4, <1>5, <1>6, <1>7

(* A forward pass stores the entry of the next position of its own text.     *)
LEMMA PassFacts ==
    ASSUME IInv, PassDue
    PROVE  /\ Generating /\ pc \in {"prefill", "decode"}
           /\ CacheType(Passed, loaded.window)
           /\ Passed.filled = pos + 1
           /\ Coherent(Passed, Line)
  <1>1. Generating /\ pc \in {"prefill", "decode"}
    BY DEF PassDue, Generating
  <1>2. /\ loaded.window \in Nat /\ CacheType(cache, loaded.window)
        /\ pos \in Nat /\ pos < loaded.window /\ Len(tokens) \in Nat /\ prompted \in Nat
        /\ tokens \in Seq(Token)
    BY <1>1, GeneratingFacts
  <1>3. cache.filled = pos /\ Coherent(cache, Line)
    BY <1>1 DEF IInv, OwnCache
  <1>4. PICK t : t = IF pc = "prefill" THEN tokens[pos + 1] ELSE Last(tokens)
    OBVIOUS
  <1>5. t = Line[pos] /\ 0 .. pos \subseteq DOMAIN Line
    <2>1. CASE pc = "prefill"
      <3>1. pos + 1 < Len(tokens)
        BY <1>1, <1>2, <2>1 DEF IInv, Room, PassDue
      <3> QED BY <1>2, <1>4, <2>1, <3>1 DEF Line
    <2>2. CASE pc = "decode"
      <3>1. Len(tokens) = pos + 1
        BY <1>1, <2>2 DEF IInv, Room
      <3>2. t = tokens[pos + 1]
        BY <1>4, <2>2, <3>1 DEF Last
      <3> QED BY <1>2, <3>1, <3>2 DEF Line
    <2> QED BY <1>1, <2>1, <2>2
  <1>6. Passed = Store(cache, pos, loaded.window, Attended(cache, pos, t))
    BY <1>4 DEF Passed
  <1>7. PICK entry : entry = Attended(cache, pos, t)
    OBVIOUS
  <1>8. /\ CacheType(Store(cache, pos, loaded.window, entry), loaded.window)
        /\ Store(cache, pos, loaded.window, entry).filled = pos + 1
    <2>1. PICK max \in Nat : max = loaded.window
      BY <1>2
    <2>2. /\ CacheType(Store(cache, pos, max, entry), max)
          /\ Store(cache, pos, max, entry).filled = pos + 1
      <3>1. CacheType(cache, max) /\ pos < max
        BY <1>2, <2>1
      <3>2. PICK c : c = cache
        OBVIOUS
      <3>3. PICK p \in Nat : p = pos
        BY <1>2
      <3>4. CacheType(c, max) /\ p < max /\ c.filled = p
        BY <1>3, <3>1, <3>2, <3>3
      <3>5. CacheType(Store(c, p, max, entry), max) /\ Store(c, p, max, entry).filled = p + 1
        BY <3>4, NextStored
      <3> QED BY <3>2, <3>3, <3>5
    <2> QED BY <2>1, <2>2
  <1>9. Coherent(Store(cache, pos, loaded.window, Attended(cache, pos, t)), Line)
    BY <1>2, <1>3, <1>5, StoreCoherent
  <1> QED BY <1>1, <1>6, <1>7, <1>8, <1>9

LEMMA PrefillInv == IInv /\ Prefill => IInv'
  <1> SUFFICES ASSUME IInv, Prefill PROVE IInv'
    OBVIOUS
  <1>1. /\ pc = "prefill" /\ pos < prompted - 1 /\ cache' = Passed /\ pos' = pos + 1
        /\ UNCHANGED <<loaded, request, connected, wire, pc, tokens, prompted, maxTokens,
                       text, emitted>>
        /\ Generating
    BY DEF Prefill, PassDue, Generating
  <1>2. /\ CacheType(Passed, loaded.window) /\ Passed.filled = pos + 1
        /\ Coherent(Passed, Line)
    BY PassFacts DEF Prefill
  <1>3. pos \in Nat /\ prompted \in Nat
    BY <1>1, GeneratingFacts
  <1>4. Types' /\ Begun'
    BY <1>1, <1>2, <1>3 DEF IInv, Types, Begun, Generating
  <1>5. Room'
    BY <1>1, <1>3 DEF IInv, Room, Generating
  <1>6. OwnCache'
    <2>1. Line' = Line
      BY <1>1 DEF Line
    <2> QED BY <1>1, <1>2, <2>1 DEF OwnCache
  <1>7. Shown' /\ Fair'
    BY <1>1, FairKept DEF IInv, Shown, Generating, Generated
  <1>8. Pieces(wire)' = Pieces(wire) /\ StreamedIsAnswer' = StreamedIsAnswer
    BY <1>1 DEF Pieces, StreamedIsAnswer, Completed
  <1>9. Wire'
    BY <1>1, <1>8 DEF IInv, Wire, Generating
  <1> QED BY <1>4, <1>5, <1>6, <1>7, <1>9 DEF IInv

LEMMA PrefilledInv == IInv /\ Prefilled => IInv'
  <1> SUFFICES ASSUME IInv, Prefilled PROVE IInv'
    OBVIOUS
  <1>1. /\ pc = "prefill" /\ pos = prompted - 1 /\ Generating
        /\ Deliver(<< <<"start">> >>, "decode")
        /\ UNCHANGED <<loaded, cache, request, connected, tokens, prompted, maxTokens, pos,
                       text, emitted>>
    BY DEF Prefilled, generation, Generating
  <1>2. /\ request.kind \in {"chat", "stream"} /\ connected \in BOOLEAN
        /\ wire \in Seq(Record) /\ emitted \in Text /\ text \in Text
        /\ Pieces(wire) \in Text /\ IsPrefix(Pieces(wire), emitted)
        /\ request.kind = "chat" => wire = <<>>
        /\ request.kind = "stream" => Streaming(wire)
        /\ request \in Requests /\ loaded # NoModel
        /\ tokens \in Seq(Token) /\ pos \in Nat /\ prompted \in Nat \ {0}
        /\ maxTokens \in Nat \ {0}
    BY <1>1, GeneratingFacts
  <1>3. /\ text = <<>> /\ emitted = <<>>
        /\ request.kind = "stream" /\ connected => Len(wire) = 1
        /\ Len(tokens) = prompted
    BY <1>1, <1>2 DEF IInv, Shown, Wire, Room
  <1>4. Sending(<< <<"start">> >>, <<>>)
    <2>1. PICK r : r = <<"start">>
      OBVIOUS
    <2>2. r \in Record /\ r[1] = "start" /\ Piece(r) = <<>>
      BY <2>1, AnswersAreRecords DEF Piece
    <2>3. <<>> \in Text
      BY NothingEmitted
    <2>4. request.kind = "stream" /\ connected => Pieces(wire) = emitted
      <3>1. Len(Pieces(wire)) = 0
        BY <1>2, <1>3 DEF Text, IsPrefix
      <3> QED BY <1>2, <1>3, <3>1, EmptySeq DEF Text
    <2> QED BY <1>2, <1>3, <2>1, <2>2, <2>3, <2>4 DEF Sending
  <1>5. emitted' = emitted \o <<>>
    BY <1>1, <1>2, ConcatEmptySeq DEF Text
  <1>6. Len(<< <<"start">> >>) = 1
    OBVIOUS
  <1>7. /\ Wire' /\ wire' \in Seq(Record) /\ emitted' \in Text
        /\ pc' \in {"decode", "idle"}
        /\ wire' # << <<"error", 400>> >>
    BY <1>1, <1>3, <1>4, <1>5, <1>6, DeliverWire
  <1>8. Types' /\ Begun'
    BY <1>1, <1>2, <1>7 DEF IInv, Types, Begun, Phases, Generating
  <1>9. Room'
    BY <1>1, <1>2, <1>3, <1>7 DEF IInv, Room, Generating
  <1>10. OwnCache'
    BY <1>1, <1>7 DEF IInv, OwnCache, Line
  <1>11. Shown'
    <2>1. Generated' = <<>>
      <3>1. Generated' = SubSeq(tokens, prompted + 1, Len(tokens))
        BY <1>1 DEF Generated
      <3> QED BY <1>2, <1>3, <3>1, SubSeqEmpty
    <2>2. Decoded(<<>>) = <<>>
      BY ServeAssumption
    <2> QED BY <1>1, <1>3, <1>7, <2>1, <2>2, NothingEmitted, NothingStreamed DEF Shown
  <1>12. Fair'
    BY <1>1, <1>7, FairKept DEF IInv
  <1> QED BY <1>7, <1>8, <1>9, <1>10, <1>11, <1>12 DEF IInv

(* The reply so far, and the reply with one token more.                      *)
LEMMA ReplyFacts ==
    ASSUME IInv, pc = "decode", WantsMore, NEW t \in Token \ Eos
    PROVE  LET r == Append(Generated, t)
           IN  /\ r \in Replies /\ Generated \in Replies
               /\ r # <<>> /\ Front(r) = Generated
               /\ r = SubSeq(Append(tokens, t), prompted + 1, Len(Append(tokens, t)))
  <1>1. Generating
    BY DEF Generating
  <1>2. /\ tokens \in Seq(Token) /\ Len(tokens) \in Nat /\ prompted \in Nat \ {0}
        /\ maxTokens \in Nat \ {0} /\ prompted + maxTokens <= loaded.window
        /\ loaded.window \in Nat /\ loaded.window <= MaxReply /\ MaxReply \in Nat /\ pos \in Nat
    BY <1>1, GeneratingFacts
  <1>3. /\ Len(tokens) = pos + 1 /\ prompted <= Len(tokens)
        /\ \A i \in prompted + 1 .. Len(tokens) : tokens[i] \in Token \ Eos
    BY <1>1, <1>2 DEF IInv, Room
  <1>4. PICK g : g = Generated
    OBVIOUS
  <1>5. PICK n \in Nat : n = Len(tokens) - prompted
    <2>1. Len(tokens) - prompted \in Nat
      BY <1>2, <1>3
    <2> QED BY <2>1
  <1>6. /\ g \in Seq(Token \ Eos) /\ Len(g) = n
        /\ \A i \in 1 .. n : g[i] = tokens[prompted + i]
    <2>1. g = SubSeq(tokens, prompted + 1, Len(tokens))
      BY <1>4 DEF Generated
    <2>2. PICK m \in Nat : m = prompted + 1
      BY <1>2
    <2>3. PICK l \in Nat : l = Len(tokens)
      BY <1>2
    <2>4. \A i \in m .. l : tokens[i] \in Token \ Eos
      BY <1>3, <2>2, <2>3
    <2>5. /\ g \in Seq(Token \ Eos) /\ Len(g) = IF m <= l THEN l - m + 1 ELSE 0
          /\ \A i \in 1 .. l - m + 1 : g[i] = tokens[m + i - 1]
      BY <2>1, <2>2, <2>3, <2>4, SubSeqProperties
    <2>6. l - m + 1 = n /\ \A i \in Nat : m + i - 1 = prompted + i
      BY <1>2, <1>5, <2>2, <2>3
    <2>7. Len(g) = n
      BY <1>2, <1>3, <1>5, <2>2, <2>3, <2>5
    <2> QED BY <2>5, <2>6, <2>7
  <1>7. n < maxTokens
    BY <1>4, <1>6 DEF WantsMore
  <1>8. PICK r : r = Append(g, t)
    OBVIOUS
  <1>9. /\ r \in Seq(Token \ Eos) /\ Len(r) = n + 1 /\ r # <<>>
        /\ \A i \in 1 .. n : r[i] = g[i]
        /\ r[n + 1] = t
    BY <1>6, <1>8, AppendProperties
  <1>10. g \in Replies /\ r \in Replies
    <2>1. MaxReply \in Nat
      BY <1>1, GeneratingFacts
    <2>2. n \in 0 .. MaxReply - 1 /\ n + 1 \in 0 .. MaxReply - 1
      BY <1>2, <1>7, <2>1
    <2>3. g \in [1 .. n -> Token \ Eos] /\ r \in [1 .. n + 1 -> Token \ Eos]
      BY <1>6, <1>9
    <2> QED BY <2>2, <2>3 DEF Replies
  <1>11. Front(r) = g
    <2>1. PICK f : f = Front(r)
      OBVIOUS
    <2>2. f = SubSeq(r, 1, n)
      BY <1>9, <2>1 DEF Front
    <2>3. f \in Seq(Token \ Eos) /\ Len(f) = n /\ \A i \in 1 .. n : f[i] = r[i]
      BY <1>9, <2>2, SubSeqFacts
    <2>4. f = g
      BY <1>6, <1>9, <2>3, SameText
    <2> QED BY <2>1, <2>4
  <1>12. r = SubSeq(Append(tokens, t), prompted + 1, Len(Append(tokens, t)))
    <2>1. PICK all : all = Append(tokens, t)
      OBVIOUS
    <2>2. /\ all \in Seq(Token) /\ Len(all) = Len(tokens) + 1
          /\ \A i \in 1 .. Len(tokens) : all[i] = tokens[i]
          /\ all[Len(tokens) + 1] = t
      BY <1>2, <2>1, AppendProperties
    <2>3. PICK s : s = SubSeq(all, prompted + 1, Len(all))
      OBVIOUS
    <2>4. PICK m \in Nat \ {0} : m = prompted + 1
      BY <1>2
    <2>5. PICK l \in Nat : l = Len(all)
      BY <1>2, <2>2
    <2>6. /\ s \in Seq(Token) /\ Len(s) = l - m + 1
          /\ \A i \in 1 .. l - m + 1 : s[i] = all[m + i - 1]
      <3>1. m <= l + 1 /\ l <= Len(all)
        BY <1>2, <1>3, <2>2, <2>4, <2>5
      <3> QED BY <2>2, <2>3, <2>4, <2>5, <3>1, SubSeqFacts
    <2>7. l - m + 1 = n + 1 /\ \A i \in Nat : m + i - 1 = prompted + i
      BY <1>2, <1>5, <2>2, <2>4, <2>5
    <2>8. ASSUME NEW i \in 1 .. n + 1 PROVE s[i] = r[i]
      <3>1. s[i] = all[prompted + i]
        <4>1. s[i] = all[m + i - 1]
          BY <2>6, <2>7
        <4>2. m + i - 1 = prompted + i
          BY <2>7
        <4> QED BY <4>1, <4>2
      <3>2. CASE i = n + 1
        <4>1. prompted + i = Len(tokens) + 1
          BY <1>2, <1>5, <3>2
        <4> QED BY <1>9, <2>2, <3>1, <3>2, <4>1
      <3>3. CASE i # n + 1
        <4>1. i \in 1 .. n /\ prompted + i \in 1 .. Len(tokens)
          BY <1>2, <1>5, <3>3
        <4> QED BY <1>6, <1>9, <2>2, <3>1, <4>1
      <3> QED BY <3>2, <3>3
    <2>9. r \in Seq(Token) /\ Len(s) = Len(r)
      BY <1>9, <2>6, <2>7
    <2>10. s = r
      BY <1>9, <2>6, <2>8, <2>9, SameText
    <2> QED BY <2>1, <2>3, <2>10
  <1> QED BY <1>4, <1>8, <1>9, <1>10, <1>11, <1>12

(* A count of two or more is neither of the first two.                     *)
LEMMA TwoOrMore == \A n \in Nat : n >= 2 => n # 0 /\ n # 1
  OBVIOUS

LEMMA SampleTokenInv == IInv /\ SampleToken => IInv'
  <1> SUFFICES ASSUME IInv, SampleToken PROVE IInv'
    OBVIOUS
  <1>1. /\ pc = "decode" /\ Generating /\ WantsMore /\ PassDue
        /\ cache' = Passed /\ pos' = pos + 1
        /\ UNCHANGED <<loaded, request, connected, prompted, maxTokens>>
    BY DEF SampleToken, PassDue, Generating
  <1>2. PICK t, b, answer, unemitted, chunk :
           /\ t \in Token \ Eos
           /\ b = Decoded(Append(Generated, t))
           /\ answer = CutAtStop(b)
           /\ unemitted = IncrementalSuffix(emitted, answer)
           /\ chunk = (IF Hits(b) # {} THEN unemitted
                       ELSE SubSeq(unemitted, 1, EmittableLen(unemitted)))
           /\ tokens' = Append(tokens, t)
           /\ text' = answer
           /\ emitted' = emitted \o chunk
           /\ Deliver(IF chunk = <<>> THEN <<>> ELSE << <<"text", chunk>> >>,
                      IF Hits(b) # {} THEN "flush" ELSE "decode")
    BY DEF SampleToken
  <1>3. /\ request.kind \in {"chat", "stream"} /\ connected \in BOOLEAN
        /\ wire \in Seq(Record) /\ emitted \in Text /\ text \in Text
        /\ Pieces(wire) \in Text /\ IsPrefix(Pieces(wire), emitted)
        /\ request.kind = "chat" => wire = <<>>
        /\ request.kind = "stream" => Streaming(wire)
        /\ request \in Requests /\ loaded # NoModel
        /\ tokens \in Seq(Token) /\ Len(tokens) \in Nat /\ pos \in Nat
        /\ prompted \in Nat \ {0} /\ maxTokens \in Nat \ {0}
    BY <1>1, GeneratingFacts
  <1>4. /\ request.kind = "stream" /\ connected => Len(wire) >= 2 /\ Pieces(wire) = emitted
        /\ Len(tokens) = pos + 1 /\ prompted <= pos + 1
        /\ prompted + maxTokens <= loaded.window
        /\ \A i \in prompted + 1 .. Len(tokens) : tokens[i] \in Token \ Eos
        /\ text = Decoded(Generated) /\ MayStay(emitted, text)
    BY <1>1, <1>3 DEF IInv, Wire, Room, Shown
  <1>5. /\ Append(Generated, t) \in Replies /\ Generated \in Replies
        /\ Append(Generated, t) # <<>> /\ Front(Append(Generated, t)) = Generated
        /\ Append(Generated, t)
             = SubSeq(Append(tokens, t), prompted + 1, Len(Append(tokens, t)))
    BY <1>1, <1>2, ReplyFacts
  <1>6. /\ b \in Text /\ IsPrefix(Settled(text), b)
        /\ Cardinality(Hits(b)) <= 1
    <2>1. PICK r \in Replies : r = Append(Generated, t)
      BY <1>5
    <2>2. /\ Decoded(r) \in Seq(Character)
          /\ IsPrefix(Settled(Decoded(Front(r))), Decoded(r))
          /\ Hits(Decoded(Front(r))) = {} => Cardinality(Hits(Decoded(r))) <= 1
      BY <1>5, <2>1, ServeAssumption
    <2>3. Decoded(r) = b /\ Decoded(Front(r)) = text
      BY <1>2, <1>4, <1>5, <2>1
    <2>4. Hits(text) = {}
      BY <1>4 DEF MayStay
    <2> QED BY <2>2, <2>3, <2>4 DEF Text
  <1>7. /\ answer \in Text /\ chunk \in Text /\ emitted \o chunk \in Text
        /\ Hits(answer) = {} /\ IsPrefix(emitted \o chunk, answer)
        /\ Hits(b) = {} => answer = b /\ MayStay(emitted \o chunk, answer)
    <2>1. CASE Hits(b) = {}
      <3>1. answer = b
        BY <1>2, <2>1 DEF CutAtStop
      <3>2. chunk = SubSeq(unemitted, 1, EmittableLen(unemitted))
        BY <1>2, <2>1
      <3>3. unemitted = IncrementalSuffix(emitted, b)
        BY <1>2, <3>1
      <3>4. /\ chunk \in Text /\ emitted \o chunk \in Text /\ IsPrefix(emitted \o chunk, b)
            /\ MayStay(emitted \o chunk, b)
        BY <1>3, <1>4, <1>6, <2>1, <3>2, <3>3, RoundWithoutHit
      <3> QED BY <1>6, <2>1, <3>1, <3>4
    <2>2. CASE Hits(b) # {}
      <3>1. /\ answer \in Text /\ Hits(answer) = {} /\ IsPrefix(emitted, answer)
        BY <1>2, <1>3, <1>4, <1>6, <2>2, RoundWithHit
      <3>2. chunk = IncrementalSuffix(emitted, answer)
        BY <1>2, <2>2
      <3>3. chunk \in Text /\ emitted \o chunk = answer
        BY <1>3, <3>1, <3>2, EmitRest DEF Text
      <3>4. IsPrefix(answer, answer)
        BY <3>1 DEF IsPrefix, Text
      <3> QED BY <2>2, <3>1, <3>3, <3>4
    <2> QED BY <2>1, <2>2
  <1>8. PICK records : records = IF chunk = <<>> THEN <<>> ELSE << <<"text", chunk>> >>
    OBVIOUS
  <1>9. Sending(records, chunk) /\ Len(records) \in Nat
    <2>1. CASE chunk = <<>>
      BY <1>3, <1>4, <1>7, <1>8, <2>1 DEF Sending
    <2>2. CASE chunk # <<>>
      <3>1. PICK r : r = <<"text", chunk>>
        OBVIOUS
      <3>2. r \in Record /\ r[1] = "text" /\ Piece(r) = chunk /\ records = <<r>>
        BY <1>7, <1>8, <2>2, <3>1, AnswersAreRecords DEF Piece
      <3>3. request.kind = "stream" /\ connected =>
               r[1] = IF Len(wire) = 0 THEN "open" ELSE IF Len(wire) = 1 THEN "start" ELSE "text"
        <4>1. SUFFICES ASSUME Len(wire) >= 2 PROVE Len(wire) # 0 /\ Len(wire) # 1
          BY <1>4, <3>2
        <4>2. Len(wire) \in Nat
          BY <1>3
        <4> QED BY <4>1, <4>2, TwoOrMore
      <3> QED BY <1>3, <1>4, <1>7, <3>2, <3>3 DEF Sending
    <2> QED BY <2>1, <2>2
  <1>10. PICK next : next = IF Hits(b) # {} THEN "flush" ELSE "decode"
    OBVIOUS
  <1>11. /\ Wire' /\ wire' \in Seq(Record) /\ emitted' \in Text
         /\ pc' \in {next, "idle"}
         /\ wire' # << <<"error", 400>> >>
    <2>1. Deliver(records, next) /\ next \in {"flush", "decode"} /\ emitted' = emitted \o chunk
      BY <1>2, <1>8, <1>10
    <2>2. request.kind = "stream" /\ connected => Len(wire) + Len(records) >= 2
      BY <1>3, <1>4, <1>9
    <2> QED BY <1>1, <1>9, <2>1, <2>2, DeliverWire
  <1>12. /\ CacheType(Passed, loaded.window) /\ Passed.filled = pos + 1
         /\ Coherent(Passed, Line)
    BY <1>1, PassFacts
  <1>13. /\ tokens' \in Seq(Token) /\ Len(tokens') = Len(tokens) + 1
         /\ \A i \in 1 .. Len(tokens) : tokens'[i] = tokens[i]
         /\ tokens'[Len(tokens) + 1] = t
    BY <1>2, <1>3, AppendProperties
  <1>14. next \in {"flush", "decode"} /\ (next = "decode" => Hits(b) = {})
    BY <1>10
  <1>15. Types'
    <2>1. Types
      BY DEF IInv
    <2>2. pc' \in Phases /\ tokens' \in Seq(Token) /\ wire' \in Seq(Record)
      BY <1>11, <1>13, <1>14 DEF Phases
    <2>3. text' \in Text /\ emitted' \in Text
      BY <1>2, <1>7
    <2>4. prompted' \in Nat /\ maxTokens' \in Nat /\ pos' \in Nat
      BY <1>1, <1>3
    <2>5. CacheType(cache', loaded'.window)
      BY <1>1, <1>12
    <2> QED BY <1>1, <2>1, <2>2, <2>3, <2>4, <2>5 DEF Types
  <1>16. Begun'
    BY <1>1, <1>3, <1>11, <1>14 DEF Begun, Generating
  <1>17. Room'
    <2>1. Len(Generated) = Len(tokens) - prompted
      <3>1. Generated = SubSeq(tokens, prompted + 1, Len(tokens))
        BY DEF Generated
      <3>2. \A i \in prompted + 1 .. Len(tokens) : tokens[i] \in Token
        BY <1>4
      <3>3. Len(Generated) = IF prompted + 1 <= Len(tokens)
                             THEN Len(tokens) - (prompted + 1) + 1 ELSE 0
        BY <1>3, <3>1, <3>2, SubSeqProperties
      <3> QED BY <1>3, <1>4, <3>3
    <2>2. Len(tokens) - prompted < maxTokens
      BY <1>1, <2>1 DEF WantsMore
    <2>3. /\ Len(tokens') = pos' + 1 /\ prompted' <= pos' + 1
          /\ pos' + 1 <= prompted' + maxTokens'
      BY <1>1, <1>3, <1>4, <1>13, <2>2
    <2>4. \A i \in prompted' + 1 .. Len(tokens') : tokens'[i] \in Token \ Eos
      BY <1>1, <1>3, <1>2, <1>4, <1>13
    <2>5. pc' # "prefill"
      BY <1>11, <1>14
    <2> QED BY <1>1, <1>3, <1>4, <2>3, <2>4, <2>5 DEF Room
  <1>18. OwnCache'
    <2>1. Coherent(Passed, Line')
      <3>1. Passed.filled \in Nat /\ Passed.filled <= Len(tokens)
        BY <1>3, <1>4, <1>12
      <3>2. \A q \in 0 .. Len(tokens) - 1 : q \in DOMAIN Line /\ Line'[q] = Line[q]
        BY <1>3, <1>13 DEF Line
      <3> HIDE DEF Line
      <3>3. PICK c : c = Passed
        OBVIOUS
      <3>4. PICK other : other = Line'
        OBVIOUS
      <3>5. PICK line : line = Line
        OBVIOUS
      <3>6. PICK k \in Nat : k = Len(tokens)
        BY <1>3
      <3>7. /\ c.filled \in Nat /\ c.filled <= k /\ Coherent(c, line)
            /\ \A q \in 0 .. k - 1 : q \in DOMAIN line /\ other[q] = line[q]
        BY <1>12, <3>1, <3>2, <3>3, <3>4, <3>5, <3>6
      <3>8. Coherent(c, other)
        BY ONLY <3>7, CoherentTransfer, k \in Nat
      <3> QED BY <3>3, <3>4, <3>8
    <2>2. Coherent(cache, Line)'
      BY <1>1, <2>1 DEF Coherent
    <2> QED BY <1>1, <1>12, <2>2 DEF OwnCache
  <1>19. Shown'
    <2>1. Generated' = Append(Generated, t)
      <3> QED BY <1>1, <1>2, <1>5 DEF Generated
    <2>2. /\ Hits(text)' = {} /\ IsPrefix(emitted, text)'
      BY <1>2, <1>7 DEF Hits, IsPrefix
    <2>3. pc' = "decode" => text' = Decoded(Append(Generated, t)) /\ MayStay(emitted', text')
      BY <1>2, <1>7, <1>11, <1>14
    <2> QED BY <1>11, <1>14, <2>1, <2>2, <2>3 DEF Shown, MayStay
  <1>20. Fair'
    BY <1>1, <1>11, FairKept DEF IInv
  <1> QED BY <1>11, <1>15, <1>16, <1>17, <1>18, <1>19, <1>20 DEF IInv

(* The rounds that end the loop without a token leave text and wire alone.   *)
LEMMA LoopEnds ==
    ASSUME IInv, pc = "decode", pc' = "flush",
           loaded # NoModel => CacheType(cache', loaded.window),
           UNCHANGED <<loaded, request, connected, wire, tokens, prompted, maxTokens,
                       pos, text, emitted>>
    PROVE  IInv'
  <1>1. Types' /\ Begun'
    BY DEF IInv, Types, Begun, Phases, Generating
  <1>2. Room' /\ OwnCache' /\ Shown'
    BY DEF IInv, Room, OwnCache, Shown, Generating
  <1>3. Pieces(wire)' = Pieces(wire)
    BY DEF Pieces
  <1>4. Wire'
    BY <1>3 DEF IInv, Wire, Generating
  <1>5. Fair'
    BY FairKept DEF IInv, Generating
  <1> QED BY <1>1, <1>2, <1>4, <1>5 DEF IInv

LEMMA SampleEosInv == IInv /\ SampleEos => IInv'
  <1> SUFFICES ASSUME IInv, SampleEos PROVE IInv'
    OBVIOUS
  <1>1. CacheType(Passed, loaded.window)
    BY PassFacts DEF SampleEos
  <1> QED BY <1>1, LoopEnds DEF SampleEos

LEMMA BudgetSpentInv == IInv /\ BudgetSpent => IInv'
  <1> SUFFICES ASSUME IInv, BudgetSpent PROVE IInv'
    OBVIOUS
  <1>1. loaded # NoModel => CacheType(cache', loaded.window)
    BY DEF IInv, Types, BudgetSpent
  <1> QED BY <1>1, LoopEnds DEF BudgetSpent

LEMMA FlushInv == IInv /\ Flush => IInv'
  <1> SUFFICES ASSUME IInv, Flush PROVE IInv'
    OBVIOUS
  <1>1. PICK rest : rest = IncrementalSuffix(emitted, text)
    OBVIOUS
  <1>2. PICK records : records = IF rest = <<>> THEN <<>> ELSE << <<"text", rest>> >>
    OBVIOUS
  <1>3. /\ pc = "flush" /\ Generating
        /\ Deliver(records, "done") /\ emitted' = emitted \o rest
        /\ UNCHANGED <<loaded, cache, request, connected, tokens, prompted, maxTokens,
                       pos, text>>
    BY <1>1, <1>2 DEF Flush, Generating
  <1>4. /\ request.kind \in {"chat", "stream"} /\ connected \in BOOLEAN
        /\ wire \in Seq(Record) /\ emitted \in Text /\ text \in Text
        /\ Pieces(wire) \in Text /\ IsPrefix(Pieces(wire), emitted)
        /\ request.kind = "chat" => wire = <<>>
        /\ request.kind = "stream" => Streaming(wire)
        /\ request \in Requests /\ loaded # NoModel
        /\ Hits(text) = {} /\ IsPrefix(emitted, text)
    BY <1>3, GeneratingFacts
  <1>5. request.kind = "stream" /\ connected => Len(wire) >= 2 /\ Pieces(wire) = emitted
    BY <1>3, <1>4 DEF IInv, Wire
  <1>6. rest \in Text /\ emitted \o rest = text
    BY <1>1, <1>4, EmitRest DEF Text
  <1>7. Sending(records, rest) /\ Len(records) \in Nat
    <2>1. CASE rest = <<>>
      BY <1>2, <1>4, <1>5, <1>6, <2>1 DEF Sending
    <2>2. CASE rest # <<>>
      <3>1. PICK r : r = <<"text", rest>>
        OBVIOUS
      <3>2. r \in Record /\ r[1] = "text" /\ Piece(r) = rest /\ records = <<r>>
        BY <1>2, <1>6, <2>2, <3>1, AnswersAreRecords DEF Piece
      <3>3. request.kind = "stream" /\ connected =>
               r[1] = IF Len(wire) = 0 THEN "open" ELSE IF Len(wire) = 1 THEN "start" ELSE "text"
        <4>1. SUFFICES ASSUME Len(wire) >= 2 PROVE Len(wire) # 0 /\ Len(wire) # 1
          BY <1>5, <3>2
        <4>2. Len(wire) \in Nat
          BY <1>4
        <4> QED BY <4>1, <4>2, TwoOrMore
      <3> QED BY <1>4, <1>5, <1>6, <3>2, <3>3 DEF Sending
    <2> QED BY <2>1, <2>2
  <1>8. /\ Wire' /\ wire' \in Seq(Record) /\ emitted' \in Text
        /\ pc' \in {"done", "idle"}
        /\ wire' # << <<"error", 400>> >>
    <2>1. request.kind = "stream" /\ connected => Len(wire) + Len(records) >= 2
      BY <1>4, <1>5, <1>7
    <2> QED BY <1>3, <1>7, <2>1, DeliverWire
  <1>9. Types' /\ Begun'
    BY <1>3, <1>4, <1>8 DEF IInv, Types, Begun, Phases, Generating
  <1>10. Room' /\ OwnCache'
    BY <1>3, <1>8 DEF IInv, Room, OwnCache, Generating
  <1>11. Shown'
    <2>1. IsPrefix(emitted, text)'
      BY <1>3, <1>6 DEF IsPrefix
    <2> QED BY <1>3, <1>4, <1>6, <1>8, <2>1 DEF Shown
  <1>12. Fair'
    BY <1>3, <1>8, FairKept DEF IInv
  <1> QED BY <1>8, <1>9, <1>10, <1>11, <1>12 DEF IInv

(* What ends a generation: a whole answer, or the last two records.          *)
LEMMA GenerationEnds ==
    ASSUME IInv, Generating, pc' = "idle", Wire', wire' \in Seq(Record),
           wire' # << <<"error", 400>> >>, CacheType(cache', loaded.window),
           UNCHANGED <<loaded, request, connected, tokens, prompted, maxTokens, pos,
                       text, emitted>>
    PROVE  IInv'
  <1>1. Types' /\ Begun'
    BY DEF IInv, Types, Begun, Phases, Generating
  <1>2. Room' /\ OwnCache' /\ Shown'
    BY DEF IInv, Room, OwnCache, Shown, Generating
  <1>3. Fair'
    BY FairKept DEF IInv, Generating
  <1> QED BY <1>1, <1>2, <1>3 DEF IInv

LEMMA FinishInv == IInv /\ Finish => IInv'
  <1> SUFFICES ASSUME IInv, Finish PROVE IInv'
    OBVIOUS
  <1>1. /\ pc = "done" /\ Generating
        /\ Answer(IF request.kind = "stream" THEN << <<"done", Len(tokens)>>, <<"end">> >>
                  ELSE << <<"json">> >>)
        /\ UNCHANGED <<loaded, cache, request, connected, tokens, prompted, maxTokens, pos,
                       text, emitted>>
    BY DEF Finish, generation, Generating
  <1>2. /\ request.kind \in {"chat", "stream"} /\ connected \in BOOLEAN
        /\ wire \in Seq(Record) /\ emitted \in Text /\ text \in Text
        /\ Pieces(wire) \in Text /\ IsPrefix(Pieces(wire), emitted)
        /\ request.kind = "chat" => wire = <<>>
        /\ request.kind = "stream" => Streaming(wire)
        /\ CacheType(cache, loaded.window)
        /\ Len(tokens) \in Nat /\ prompted + maxTokens <= loaded.window
        /\ prompted \in Nat /\ maxTokens \in Nat /\ pos \in Nat /\ loaded.window \in Nat
    BY <1>1, GeneratingFacts
  <1>3. /\ request.kind = "stream" /\ connected => Len(wire) >= 2 /\ Pieces(wire) = emitted
        /\ emitted = text /\ Len(tokens) <= loaded.window
    BY <1>1, <1>2 DEF IInv, Wire, Shown, Room
  <1>4. CASE request.kind = "chat"
    <2>1. PICK r : r = <<"json">>
      OBVIOUS
    <2>2. r \in Record /\ r[1] \in {"json", "error"} /\ r[1] # "error" /\ Answer(<<r>>)
      BY <1>1, <1>4, <2>1, AnswersAreRecords
    <2>3. /\ Wire' /\ wire' \in Seq(Record) /\ pc' = "idle"
          /\ wire' = <<>> \/ wire' = <<r>>
      BY <1>1, <1>2, <1>4, <2>2, WholeAnswered
    <2>4. wire' # << <<"error", 400>> >>
      BY <2>2, <2>3, NotRefused, NothingStreamed
    <2> QED BY <1>1, <1>2, <2>3, <2>4, GenerationEnds
  <1>5. CASE request.kind = "stream"
    <2>1. PICK r : r = <<"done", Len(tokens)>>
      OBVIOUS
    <2>2. /\ r \in Record /\ r[1] = "done" /\ r[2] <= loaded.window
          /\ Answer(<<r, <<"end">> >>)
      BY <1>1, <1>2, <1>3, <1>5, <2>1, AnswersAreRecords
    <2>3. connected => Len(wire) >= 1 /\ Pieces(wire) = emitted
      BY <1>2, <1>3, <1>5
    <2>4. /\ Wire' /\ wire' \in Seq(Record) /\ pc' = "idle"
          /\ wire' # << <<"error", 400>> >>
      BY <1>1, <1>2, <1>3, <1>5, <2>2, <2>3, StreamAnswered
    <2> QED BY <1>1, <1>2, <2>4, GenerationEnds
  <1> QED BY <1>2, <1>4, <1>5

LEMMA GenerationFailsInv == IInv /\ GenerationFails => IInv'
  <1> SUFFICES ASSUME IInv, GenerationFails PROVE IInv'
    OBVIOUS
  <1>1. /\ Generating /\ PassDue /\ cache' \in {cache, Passed}
        /\ Answer(IF request.kind = "stream" THEN << <<"failed">>, <<"end">> >>
                  ELSE << <<"error", 500>> >>)
        /\ UNCHANGED <<loaded, request, connected, tokens, prompted, maxTokens, pos,
                       text, emitted>>
    BY PassFacts DEF GenerationFails, generation
  <1>2. /\ request.kind \in {"chat", "stream"} /\ connected \in BOOLEAN
        /\ wire \in Seq(Record) /\ emitted \in Text /\ text \in Text
        /\ Pieces(wire) \in Text /\ IsPrefix(Pieces(wire), emitted)
        /\ request.kind = "chat" => wire = <<>>
        /\ request.kind = "stream" => Streaming(wire)
        /\ CacheType(cache, loaded.window)
    BY <1>1, GeneratingFacts
  <1>3. CacheType(cache', loaded.window)
    BY <1>1, <1>2, PassFacts
  <1>4. CASE request.kind = "chat"
    <2>1. PICK r : r = <<"error", 500>>
      OBVIOUS
    <2>2. r \in Record /\ r[1] \in {"json", "error"} /\ r[2] # 400 /\ Answer(<<r>>)
      BY <1>1, <1>4, <2>1, AnswersAreRecords
    <2>3. /\ Wire' /\ wire' \in Seq(Record) /\ pc' = "idle"
          /\ wire' = <<>> \/ wire' = <<r>>
      BY <1>1, <1>2, <1>4, <2>2, WholeAnswered
    <2>4. wire' # << <<"error", 400>> >>
      BY <2>2, <2>3, NotRefused, NothingStreamed
    <2> QED BY <1>1, <1>3, <2>3, <2>4, GenerationEnds
  <1>5. CASE request.kind = "stream"
    <2>1. PICK r : r = <<"failed">>
      OBVIOUS
    <2>2. r \in Record /\ r[1] = "failed" /\ Answer(<<r, <<"end">> >>)
      BY <1>1, <1>5, <2>1, AnswersAreRecords
    <2>3. connected => Len(wire) >= 1
      BY <1>1, <1>2, <1>5 DEF IInv, Wire
    <2>4. /\ Wire' /\ wire' \in Seq(Record) /\ pc' = "idle"
          /\ wire' # << <<"error", 400>> >>
      BY <1>1, <1>2, <1>5, <2>2, <2>3, StreamAnswered
    <2> QED BY <1>1, <1>3, <2>4, GenerationEnds
  <1> QED BY <1>2, <1>4, <1>5

-----------------------------------------------------------------------------
(* The theorems. *)
LEMMA NextInv == IInv /\ [Next]_vars => IInv'
  <1> SUFFICES ASSUME IInv, [Next]_vars PROVE IInv'
    OBVIOUS
  <1>1. CASE UNCHANGED vars
    <2>1. UNCHANGED <<loaded, cache, request, connected, wire, pc, tokens, prompted,
                      maxTokens, pos, text, emitted>>
      BY <1>1 DEF vars, generation
    <2>2. Types' /\ Begun'
      BY <2>1 DEF IInv, Types, Begun, Generating
    <2>3. Room' /\ OwnCache' /\ Shown'
      BY <2>1 DEF IInv, Room, OwnCache, Shown, Generating, Line, Generated
    <2>4. Fair'
      BY <2>1, FairKept DEF IInv, Generating
    <2>5. Pieces(wire)' = Pieces(wire) /\ StreamedIsAnswer' = StreamedIsAnswer
      BY <2>1 DEF Pieces, StreamedIsAnswer, Completed
    <2>6. Wire'
      BY <2>1, <2>5 DEF IInv, Wire, Generating
    <2> QED BY <2>2, <2>3, <2>4, <2>6 DEF IInv
  <1>2. CASE Next
    BY <1>2, ReceiveInv, LeaveInv, AnswerOtherInv, LoadInv, LoadFailsInv, NothingLoadedInv,
       PrepareInv, PrefillInv, PrefilledInv, SampleEosInv, SampleTokenInv, BudgetSpentInv,
       FlushInv, FinishInv, GenerationFailsInv
       DEF Next
  <1> QED BY <1>1, <1>2

(* The invariant holds of every state the loop of requests reaches.          *)
THEOREM Invariance == Spec => []IInv
  BY InitInv, NextInv, PTL DEF Spec

(* No pass of a reply reads what an earlier request left in the cache, and   *)
(* the cache accepts every position the two loops of generate hand it.       *)
THEOREM PassesOwnTokens == Spec => []OwnTokensOnly
  <1>1. IInv => OwnTokensOnly
    <2> SUFFICES ASSUME IInv, pc \in {"prefill", "decode"} PROVE OwnTokensOnly
      BY DEF OwnTokensOnly
    <2>1. Generating
      BY DEF Generating
    <2>2. pos \in Nat /\ pos < loaded.window
      BY <2>1, GeneratingFacts
    <2>3. cache.filled = pos /\ Coherent(cache, Line)
      BY DEF IInv, OwnCache
    <2> QED BY <2>2, <2>3 DEF OwnTokensOnly, StoreAllowed, Line
  <1> QED BY <1>1, Invariance, PTL

(* A stream that reached its end adds up to the answer of the other route.   *)
THEOREM PiecesAddUp == Spec => []StreamedIsAnswer
  <1>1. IInv => StreamedIsAnswer
    <2> SUFFICES ASSUME IInv PROVE StreamedIsAnswer
      OBVIOUS
    <2>1. CASE pc = "idle"
      BY <2>1 DEF IInv, Wire
    <2>2. CASE pc # "idle"
      <3>1. wire \in Seq(Record) /\ pc \in Phases
        BY DEF IInv, Types
      <3>2. wire = <<>> \/ Streaming(wire)
        <4>1. CASE pc \in {"load", "chat", "stream", "other"}
          BY <4>1 DEF IInv, Begun
        <4>2. CASE Generating
          BY <4>2, GeneratingFacts
        <4> QED BY <2>2, <3>1, <4>1, <4>2 DEF Phases, Generating
      <3>3. ~ Completed
        BY <3>1, <3>2, StreamingFacts, NothingStreamed DEF Completed
      <3> QED BY <3>3 DEF StreamedIsAnswer
    <2> QED BY <2>1, <2>2
  <1> QED BY <1>1, Invariance, PTL

(* No reader is shown a stop sequence, or the opening of one that completed. *)
THEOREM StopsHidden == Spec => []NoStopShown
  <1>1. IInv => NoStopShown
    <2> SUFFICES ASSUME IInv PROVE NoStopShown
      OBVIOUS
    <2>1. text \in Text /\ emitted \in Text /\ Pieces(wire) \in Text
      BY DEF IInv, Types, Wire
    <2>2. Hits(text) = {} /\ IsPrefix(emitted, text) /\ IsPrefix(Pieces(wire), emitted)
      BY DEF IInv, Shown, Wire
    <2>3. IsPrefix(Pieces(wire), text)
      BY <2>1, <2>2, PrefixTransitive DEF Text
    <2>4. Hits(Pieces(wire)) = {}
      BY <2>1, <2>2, <2>3, HitsInPrefix
    <2> QED BY <2>2, <2>3, <2>4 DEF NoStopShown
  <1> QED BY <1>1, Invariance, PTL

(* What a client is sent is one well-formed answer, to its end if it stays.  *)
THEOREM AnswersWellFormed == Spec => []WellFormedReply
  <1>1. IInv => WellFormedReply
    <2> SUFFICES ASSUME IInv PROVE WellFormedReply
      OBVIOUS
    <2>1. PICK n \in Nat : n = Len(wire) /\ DOMAIN wire = 1 .. n
      BY DEF IInv, Types
    <2>2. wire \in Seq(Record) /\ pc \in Phases
      BY DEF IInv, Types
    <2> DEFINE kinds == [i \in DOMAIN wire |-> wire[i][1]]
               whole == {"json", "error"}
               Formed == \A i \in DOMAIN wire :
                 /\ kinds[i] \in whole => Len(wire) = 1
                 /\ (kinds[i] = "open") <=> (i = 1 /\ kinds[i] \notin whole)
                 /\ kinds[i] = "start" => i = 2
                 /\ kinds[i] = "text" => kinds[2] = "start"
                 /\ kinds[i] \in {"done", "failed"} => i = Len(wire) - 1
                 /\ kinds[i] = "done" => wire[i][2] <= loaded.window
                 /\ (kinds[i] = "end") <=> (i > 1 /\ kinds[i - 1] \in {"done", "failed"})
    <2>3. CASE Streaming(wire)
      <3>1. \A i \in 1 .. n : kinds[i] = IF i = 1 THEN "open" ELSE IF i = 2 THEN "start" ELSE "text"
        BY <2>1, <2>3 DEF Streaming
      <3>2. Formed
        <4> SUFFICES ASSUME NEW i \in 1 .. n
                     PROVE  /\ kinds[i] \in whole => Len(wire) = 1
                            /\ (kinds[i] = "open") <=> (i = 1 /\ kinds[i] \notin whole)
                            /\ kinds[i] = "start" => i = 2
                            /\ kinds[i] = "text" => kinds[2] = "start"
                            /\ kinds[i] \in {"done", "failed"} => i = Len(wire) - 1
                            /\ kinds[i] = "done" => wire[i][2] <= loaded.window
                            /\ (kinds[i] = "end") <=> (i > 1 /\ kinds[i - 1] \in {"done", "failed"})
          BY <2>1
        <4> HIDE DEF kinds
        <4>1. i > 1 => i - 1 \in 1 .. n
          OBVIOUS
        <4>2. i > 2 => 2 \in 1 .. n
          OBVIOUS
        <4>3. i = 1 \/ i = 2 \/ i > 2
          OBVIOUS
        <4> QED BY <3>1, <4>1, <4>2, <4>3
      <3>3. pc = "idle" /\ request # Unset /\ connected =>
               wire # <<>> /\ Last(kinds) \in whole \cup {"end"}
        <4> SUFFICES ASSUME pc = "idle", request # Unset, connected
                     PROVE  wire # <<>> /\ Last(kinds) \in whole \cup {"end"}
          OBVIOUS
        <4>1. Ended(wire, loaded.window)
          BY DEF IInv, Wire
        <4>2. FALSE
          <5>1. CASE n = 1 /\ wire[1][1] \in {"json", "error"}
            BY <2>1, <2>3, <5>1 DEF Streaming
          <5>2. CASE n >= 3 /\ wire[n] = <<"end">>
            <6>1. n \in DOMAIN wire /\ n # 1 /\ n # 2
              BY <2>1, <5>2
            <6>2. wire[n][1] = "text"
              BY <2>3, <6>1 DEF Streaming
            <6> QED BY <5>2, <6>2
          <5> QED BY <2>1, <4>1, <5>1, <5>2 DEF Ended
        <4> QED BY <4>2
      <3> QED BY <3>2, <3>3 DEF WellFormedReply
    <2>4. CASE Ended(wire, loaded.window)
      <3>1. CASE n = 1 /\ wire[1][1] \in whole
        <4>1. \A i \in DOMAIN wire : i = 1
          BY <2>1, <3>1
        <4>2. kinds[1] = wire[1][1] /\ DOMAIN kinds = 1 .. 1 /\ Len(kinds) = 1 /\ wire # <<>>
          BY <2>1, <2>2, <3>1
        <4>3. Last(kinds) = kinds[1]
          BY <4>2 DEF Last
        <4>4. Formed
          BY <2>1, <3>1, <4>1, <4>2
        <4> QED BY <3>1, <4>2, <4>3, <4>4 DEF WellFormedReply
      <3>2. CASE /\ n >= 3 /\ wire[1][1] = "open" /\ wire[n] = <<"end">>
                 /\ \A i \in 2 .. n - 2 : wire[i][1] = IF i = 2 THEN "start" ELSE "text"
                 /\ \/ wire[n - 1][1] = "failed"
                    \/ wire[n - 1][1] = "done" /\ wire[n - 1][2] <= loaded.window
        <4>1. /\ kinds[1] = "open" /\ kinds[n] = "end"
              /\ \A i \in 2 .. n - 2 : kinds[i] = IF i = 2 THEN "start" ELSE "text"
              /\ kinds[n - 1] \in {"done", "failed"}
              /\ kinds[n - 1] = "done" => wire[n - 1][2] <= loaded.window
              /\ DOMAIN kinds = 1 .. n
          BY <2>1, <3>2
        <4>2. Len(kinds) = n /\ wire # <<>>
          BY <2>1, <2>2, <3>2, <4>1
        <4>3. Last(kinds) = "end"
          BY <4>1, <4>2 DEF Last
        <4>4. Formed
          <5> SUFFICES ASSUME NEW i \in 1 .. n
                     PROVE  /\ kinds[i] \in whole => Len(wire) = 1
                            /\ (kinds[i] = "open") <=> (i = 1 /\ kinds[i] \notin whole)
                            /\ kinds[i] = "start" => i = 2
                            /\ kinds[i] = "text" => kinds[2] = "start"
                            /\ kinds[i] \in {"done", "failed"} => i = Len(wire) - 1
                            /\ kinds[i] = "done" => wire[i][2] <= loaded.window
                            /\ (kinds[i] = "end") <=> (i > 1 /\ kinds[i - 1] \in {"done", "failed"})
            BY <2>1
          <5> HIDE DEF kinds
          <5>1. CASE i = 1
            BY <2>1, <3>2, <4>1, <5>1
          <5>2. CASE i = n
            BY <2>1, <3>2, <4>1, <5>2
          <5>3. CASE i = n - 1
            <6>1. i > 1 /\ i \in Nat /\ i - 1 # n - 1
              BY <3>2, <5>3
            <6>2. kinds[i - 1] \in {"open", "start", "text"}
              <7>1. CASE i - 1 = 1
                BY <4>1, <7>1
              <7>2. CASE i - 1 # 1
                <8>1. i - 1 \in 2 .. n - 2
                  BY <5>3, <6>1, <7>2
                <8> QED BY <4>1, <8>1
              <7> QED BY <7>1, <7>2
            <6> QED BY <2>1, <3>2, <4>1, <5>3, <6>1, <6>2
          <5>4. CASE i \in 2 .. n - 2
            <6>1. kinds[i] = IF i = 2 THEN "start" ELSE "text"
              BY <4>1, <5>4
            <6>2. i > 2 => kinds[2] = "start"
              <7>1. i > 2 => 2 \in 2 .. n - 2
                BY <5>4
              <7> QED BY <4>1, <7>1
            <6>3. kinds[i - 1] \in {"open", "start", "text"}
              <7>1. CASE i = 2
                BY <4>1, <7>1
              <7>2. CASE i # 2
                <8>1. i - 1 \in 2 .. n - 2
                  BY <5>4, <7>2
                <8> QED BY <4>1, <8>1
              <7> QED BY <7>1, <7>2
            <6> QED BY <2>1, <5>4, <6>1, <6>2, <6>3
          <5> QED BY <5>1, <5>2, <5>3, <5>4
        <4> QED BY <4>2, <4>3, <4>4 DEF WellFormedReply
      <3> QED BY <2>1, <2>4, <3>1, <3>2 DEF Ended
    <2>5. Streaming(wire) \/ Ended(wire, loaded.window)
      <3>1. CASE pc = "idle"
        BY <3>1 DEF IInv, Wire
      <3>2. CASE pc \in {"load", "chat", "stream", "other"}
        BY <3>2, NothingStreamed DEF IInv, Begun
      <3>3. CASE Generating
        BY <3>3, GeneratingFacts, NothingStreamed
      <3> QED BY <2>2, <3>1, <3>2, <3>3 DEF Phases, Generating
    <2> QED BY <2>3, <2>4, <2>5
  <1> QED BY <1>1, Invariance, PTL

(* A thread is refused for its last turn or for the reply it asked for, and  *)
(* what is shortened leaves room for one; none outgrows the window.          *)
THEOREM RoomForReplies == Spec => []HistoryLeavesRoom
  <1>1. IInv => HistoryLeavesRoom
    <2> SUFFICES ASSUME IInv PROVE HistoryLeavesRoom
      OBVIOUS
    <2>1. Generating => pos <= loaded.window /\ prompted + maxTokens <= loaded.window
      BY GeneratingFacts
    <2>2. Fair
      BY DEF IInv
    <2> QED BY <2>1, <2>2 DEF HistoryLeavesRoom, Fair, LastTurn
  <1> QED BY <1>1, Invariance, PTL
=============================================================================
