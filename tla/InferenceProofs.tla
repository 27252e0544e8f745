-------------------------- MODULE InferenceProofs --------------------------
(***************************************************************************)
(* What is proved of the numbers rai-infer computes, for every number of   *)
(* layers, model, text, shape of a call and order of calls and threads:    *)
(*                                                                         *)
(*   CachedText      what the cache holds is what the text determines;     *)
(*   SequentialBits  a batch returns what token-by-token passes would;     *)
(*   PonderedBlends  a pondered pass returns its strategy's blend of what  *)
(*                   the reference has for its token and for each probe;   *)
(*   OwnScores       a head of attention mixes the scores it wrote itself, *)
(*                   though the heads of a token share a scratch buffer;   *)
(*   EveryRowOnce    the chunks of a product write each element of the     *)
(*                   outputs once, and all of them when the last is done;  *)
(*   BatchBits       a token's product is summed the same way in a batch   *)
(*                   and alone;                                            *)
(*   ExactProducts   an element of a product takes every column of its row *)
(*                   and of its token once, with its group's scales;       *)
(*   ExactLoops      a vector loop, norm or rotation is its formula.       *)
(*                                                                         *)
(* The first three rest on InferenceInv: every layer's entries at the      *)
(* positions of the text are the reference transformer's (Holds), and the  *)
(* layers a draft runs are filled to the same watermark (Level).  It is    *)
(* preserved because the reference is causal (StreamsPrefix), because a    *)
(* pass over entries that hold yields the reference's next stream layer by *)
(* layer (PassIsReference, BatchIsReference), because a probe reads them   *)
(* and stores nothing (ProbeReads) and a draft stores behind the text          *)
(* (DraftKeeps).  Their hypothesis, Convertible, is what the converter     *)
(* writes: with a model that has both experts and biases the two passes    *)
(* differ.                                                                 *)
(*                                                                         *)
(* Attention rests on AttentionInv.  The theorems of the products rest     *)
(* on CallInv - what is written is what the chunks taken so far store - and *)
(* on what a chunk stores (StoresOf): its number is in one matrix, because *)
(* the counts of chunks add up (Numbering), and the rows it has there are  *)
(* those whose block it is (ChunkRange).  What a tile computes for a token *)
(* is what the single-token kernel computes (TileIsMatvec).  ExactProducts *)
(* adds that the buffers of a call are those its entry point filled        *)
(* (InputsInv), that every cell of them is one column's (PreparedFacts),   *)
(* and that the steps of an accumulator take the columns in order, each    *)
(* where the step before it stopped (Taking), whichever kernel it is.      *)
(*                                                                         *)
(* ExactLoops rests on LoopInv, that nothing touches what a loop left, and *)
(* on what the loops compute: body and rest visit each index once          *)
(* (VisitsFill), the lanes of a norm's registers partition the squares     *)
(* (PartsCover, PartsCount), and a rotation's turn finds its pairs as they *)
(* were before any turn (Halfway).                                         *)
(*                                                                         *)
(* The prover has no induction over data: a claim about every number is    *)
(* proved by its least counterexample (Least, Climb), and a recursive      *)
(* function is named by its equation, which one function satisfies.        *)
(***************************************************************************)
EXTENDS Inference, VectorKernels, KVCacheProofs, FiniteSetTheorems, SequenceTheorems,
        WellFoundedInduction, TLAPS

-----------------------------------------------------------------------------
(* A non-empty set of naturals has a least member: induction here goes by a  *)
(* least counterexample.                                                     *)
LEMMA Least ==
    ASSUME NEW T \in SUBSET Nat, T # {}
    PROVE  \E m \in T : \A k \in T : m <= k
  <1>1. T \subseteq Nat
    OBVIOUS
  <1>2. PICK m \in T : \A k \in T : ~ (<<k, m>> \in OpToRel(<, Nat))
    BY <1>1, WFMin, NatLessThanWellFounded
  <1>3. \A k \in T : ~(k < m)
    BY <1>2 DEF OpToRel
  <1> QED BY <1>3

(* From 0 to n a step at a time: a least number that is not in T has one     *)
(* before it that is.                                                        *)
LEMMA Climb ==
    ASSUME NEW n \in Nat, NEW T, 0 \in T, \A k \in 1 .. n : k - 1 \in T => k \in T
    PROVE  \A k \in 0 .. n : k \in T
  <1> DEFINE Out == {k \in 0 .. n : k \notin T}
  <1> SUFFICES ASSUME Out # {} PROVE FALSE
    OBVIOUS
  <1>1. PICK k \in Out : \A i \in Out : k <= i
    <2>1. Out \in SUBSET Nat
      OBVIOUS
    <2> QED BY <2>1, Least
  <1>2. k \in 1 .. n /\ k \notin T
    BY <1>1
  <1>3. k - 1 \in T
    <2> SUFFICES ASSUME k - 1 \notin T PROVE FALSE
      OBVIOUS
    <2>1. k - 1 \in Out
      BY <1>2
    <2> QED BY <1>1, <1>2, <2>1
  <1> QED BY <1>2, <1>3

-----------------------------------------------------------------------------
(* The streams of a text.  Lined: a sequence of n, given by its members.     *)
Lined(x, n) == x = [i \in 1 .. n |-> x[i]] /\ Len(x) = n

(* Whole, the sequence up to its length, changes no sequence.               *)
LEMMA WholeFacts ==
    ASSUME NEW n \in Nat, NEW s, s = [i \in 1 .. n |-> s[i]]
    PROVE  Len(s) = n /\ Whole(s) = s
  <1>1. PICK S : S = {s[i] : i \in 1 .. n}
    OBVIOUS
  <1>2. s \in [1 .. n -> S]
    BY <1>1
  <1>3. s \in Seq(S) /\ Len(s) = n
    BY <1>2
  <1> QED BY <1>3, SubSeqFull DEF Whole

(* The streams after one more layer, and the equation of all of them. *)
NextStreams(m, lay, x) ==
    LET mid == Whole([i \in DOMAIN x |-> Entered(m, lay, i - 1, x[i], Entries(m, lay, x))])
    IN  Whole([i \in DOMAIN x |-> Left(m, lay, mid[i])])

StreamsRec(f, m, s, n) ==
    f = [li \in 0 .. n |-> IF li = 0 THEN Whole([i \in DOMAIN s |-> Embed(m, s[i])])
                           ELSE NextStreams(m, li - 1, f[li - 1])]

(* Attention looks at the positions up to its own. *)
LEMMA AttendSame ==
    ASSUME NEW m, NEW lay, NEW pos \in Nat, NEW x, NEW kv, NEW other,
           \A t \in 0 .. pos : kv[t] = other[t]
    PROVE  Through(m, lay, pos, x, kv) = Through(m, lay, pos, x, other)
  <1>1. \A q : Attend(m, pos, q, kv) = Attend(m, pos, q, other)
    <2>1. [t \in 0 .. pos |-> kv[t]] = [t \in 0 .. pos |-> other[t]]
      OBVIOUS
    <2> QED BY <2>1 DEF Attend
  <1> QED BY <1>1 DEF Through, Entered

Advanced(y, m, lay, x, n) ==
    /\ Lined(y, n)
    /\ \A i \in 1 .. n : y[i] = Through(m, lay, i - 1, x[i], Entries(m, lay, x))

(* A layer keeps the number of streams and makes each of them Through it.   *)
LEMMA NextStreamsFacts ==
    ASSUME NEW m, NEW lay, NEW n \in Nat, NEW x, Lined(x, n), NEW y, y = NextStreams(m, lay, x)
    PROVE  Advanced(y, m, lay, x, n)
  <1>1. DOMAIN x = 1 .. n
    BY DEF Lined
  <1>2. PICK mid : mid = [i \in 1 .. n |-> Entered(m, lay, i - 1, x[i], Entries(m, lay, x))]
    OBVIOUS
  <1>3. PICK z : z = [i \in 1 .. n |-> Left(m, lay, mid[i])]
    OBVIOUS
  <1>4. Len(z) = n /\ Whole(z) = z /\ Whole(mid) = mid
    BY <1>2, <1>3, WholeFacts
  <1>5. y = Whole(z)
    BY <1>1, <1>2, <1>3, <1>4 DEF NextStreams
  <1> QED BY <1>2, <1>3, <1>4, <1>5 DEF Through, Lined, Advanced

(* The recursive equation of the streams has a solution.                    *)
LEMMA StreamsExist ==
    ASSUME NEW m, NEW s, NEW n \in Nat
    PROVE  \E f : StreamsRec(f, m, s, n)
  <1> DEFINE T == {k \in 0 .. n : \E f : StreamsRec(f, m, s, k)}
  <1>1. 0 \in T
    <2>1. PICK f : f = [li \in 0 .. 0 |-> Whole([i \in DOMAIN s |-> Embed(m, s[i])])]
      OBVIOUS
    <2>2. StreamsRec(f, m, s, 0)
      BY <2>1 DEF StreamsRec
    <2> QED BY <2>2
  <1>2. ASSUME NEW k \in 1 .. n, k - 1 \in T PROVE k \in T
    <2>1. PICK f : StreamsRec(f, m, s, k - 1)
      BY <1>2
    <2>2. PICK g : g = [li \in 0 .. k |-> IF li = k THEN NextStreams(m, k - 1, f[k - 1]) ELSE f[li]]
      OBVIOUS
    <2>3. \A li \in 0 .. k :
             g[li] = IF li = 0 THEN Whole([i \in DOMAIN s |-> Embed(m, s[i])])
                     ELSE NextStreams(m, li - 1, g[li - 1])
      <3> TAKE li \in 0 .. k
      <3>1. li # 0 => li - 1 \in 0 .. k - 1 /\ g[li - 1] = f[li - 1]
        BY <2>2
      <3>2. CASE li = k
        BY <2>2, <3>1, <3>2
      <3>3. CASE li # k
        <4>1. li \in 0 .. k - 1 /\ g[li] = f[li]
          BY <2>2, <3>3
        <4> QED BY <2>1, <3>1, <4>1 DEF StreamsRec
      <3> QED BY <3>2, <3>3
    <2>4. g = [li \in 0 .. k |-> g[li]]
      BY <2>2
    <2>5. StreamsRec(g, m, s, k)
      BY <2>3, <2>4 DEF StreamsRec
    <2> QED BY <2>5
  <1>3. \A k \in 0 .. n : k \in T
    BY <1>1, <1>2, Climb
  <1> QED BY <1>3

(* So Streams, a chosen solution, satisfies it.                             *)
LEMMA StreamsEquation ==
    ASSUME NEW m, NEW s
    PROVE  StreamsRec(Streams(m, s), m, s, NumLayers)
  <1>1. Streams(m, s) = CHOOSE f : StreamsRec(f, m, s, NumLayers)
    BY DEF Streams, StreamsRec, NextStreams, Entered, Left, Entries, Entry
  <1>2. NumLayers \in Nat
    BY InferenceAssumption
  <1> QED BY <1>1, <1>2, StreamsExist

(* The streams of a text: one for each token; the first ones are embeddings, *)
(* and each is what the layer makes of the one before and of the entries of  *)
(* the positions up to its own.                                              *)
StreamsOf(f, m, s, n) ==
    /\ \A li \in 0 .. NumLayers : Lined(f[li], n)
    /\ \A i \in 1 .. n : f[0][i] = Embed(m, s[i])
    /\ \A li \in 0 .. NumLayers - 1, i \in 1 .. n :
          f[li + 1][i] = Through(m, li, i - 1, f[li][i], Entries(m, li, f[li]))

LEMMA StreamsFacts ==
    ASSUME NEW m, NEW s \in Seq(Token), NEW n \in Nat, n = Len(s), NEW f, f = Streams(m, s)
    PROVE  StreamsOf(f, m, s, n)
  <1>1. StreamsRec(f, m, s, NumLayers) /\ NumLayers \in Nat
    BY StreamsEquation, InferenceAssumption
  <1>2. f[0] = Whole([i \in DOMAIN s |-> Embed(m, s[i])])
    BY <1>1 DEF StreamsRec
  <1>3. ASSUME NEW li \in 0 .. NumLayers - 1
        PROVE  f[li + 1] = NextStreams(m, li, f[li])
    <2>1. li + 1 \in 0 .. NumLayers /\ li + 1 # 0 /\ (li + 1) - 1 = li
      BY <1>1
    <2> QED BY <1>1, <2>1 DEF StreamsRec
  <1>4. /\ Lined(f[0], n)
        /\ \A i \in 1 .. n : f[0][i] = Embed(m, s[i])
    <2>1. DOMAIN s = 1 .. n
      OBVIOUS
    <2>2. PICK z : z = [i \in 1 .. n |-> Embed(m, s[i])]
      OBVIOUS
    <2>3. Len(z) = n /\ Whole(z) = z
      BY <2>2, WholeFacts
    <2>4. f[0] = z
      BY <1>2, <2>1, <2>2, <2>3
    <2> QED BY <2>2, <2>3, <2>4 DEF Lined
  <1> DEFINE T == {li \in 0 .. NumLayers : Lined(f[li], n)}
  <1>5. \A li \in 0 .. NumLayers : li \in T
    <2>1. 0 \in T
      BY <1>1, <1>4
    <2>2. ASSUME NEW li \in 1 .. NumLayers, li - 1 \in T PROVE li \in T
      <3>1. PICK k \in 0 .. NumLayers - 1 : k = li - 1 /\ li = k + 1
        BY <1>1
      <3>2. PICK x, y : x = f[k] /\ y = f[k + 1]
        OBVIOUS
      <3>3. y = NextStreams(m, k, x) /\ Lined(x, n)
        BY <1>3, <2>2, <3>1, <3>2
      <3>4. Lined(y, n)
        BY <3>3, NextStreamsFacts DEF Advanced
      <3> QED BY <3>1, <3>2, <3>4
    <2> HIDE DEF T
    <2> QED BY <1>1, <2>1, <2>2, Climb
  <1>6. ASSUME NEW li \in 0 .. NumLayers - 1, NEW i \in 1 .. n
        PROVE  f[li + 1][i] = Through(m, li, i - 1, f[li][i], Entries(m, li, f[li]))
    <2>1. PICK x, y : x = f[li] /\ y = f[li + 1]
      OBVIOUS
    <2>2. li \in T
      <3>1. li \in 0 .. NumLayers
        BY <1>1
      <3> HIDE DEF T
      <3> QED BY <1>5, <3>1
    <2>3. y = NextStreams(m, li, x)
      BY <1>3, <2>1
    <2>4. Lined(f[li], n)
      BY <2>2
    <2>5. Lined(x, n)
      BY <2>1, <2>4
    <2>6. Advanced(y, m, li, x, n)
      BY <2>3, <2>5, NextStreamsFacts
    <2> QED BY <2>1, <2>6 DEF Advanced
  <1> QED BY <1>4, <1>5, <1>6 DEF StreamsOf

(* What stands at a position is decided by the tokens up to it. *)
LEMMA StreamsPrefix ==
    ASSUME NEW m, NEW s \in Seq(Token), NEW t \in Seq(Token), NEW n \in Nat,
           n <= Len(s), n <= Len(t), \A i \in 1 .. n : s[i] = t[i]
    PROVE  \A li \in 0 .. NumLayers, i \in 1 .. n : Streams(m, s)[li][i] = Streams(m, t)[li][i]
  <1>0. PICK f, g : f = Streams(m, s) /\ g = Streams(m, t)
    OBVIOUS
  <1>1. PICK a \in Nat, b \in Nat : a = Len(s) /\ b = Len(t)
    OBVIOUS
  <1>2. StreamsOf(f, m, s, a) /\ StreamsOf(g, m, t, b)
    BY <1>0, <1>1, StreamsFacts
  <1> DEFINE T == {li \in 0 .. NumLayers : \A i \in 1 .. n : f[li][i] = g[li][i]}
  <1>3. 0 \in T
    <2>1. \A i \in 1 .. n : i \in 1 .. a /\ i \in 1 .. b
      BY <1>1
    <2>2. \A i \in 1 .. n : f[0][i] = g[0][i]
      BY <1>2, <2>1 DEF StreamsOf
    <2> QED BY <2>2, InferenceAssumption
  <1>4. ASSUME NEW li \in 1 .. NumLayers, li - 1 \in T PROVE li \in T
    <2>1. PICK k \in 0 .. NumLayers - 1 : k = li - 1 /\ li = k + 1
      BY InferenceAssumption
    <2>2. ASSUME NEW i \in 1 .. n
          PROVE  f[k + 1][i] = g[k + 1][i]
      <3>1. f[k][i] = g[k][i] /\ i - 1 \in Nat /\ i \in 1 .. a /\ i \in 1 .. b
        BY <1>1, <1>4, <2>1
      <3>2. \A p \in 0 .. i - 1 : Entries(m, k, f[k])[p] = Entries(m, k, g[k])[p]
        <4> TAKE p \in 0 .. i - 1
        <4>1. Len(f[k]) = a /\ Len(g[k]) = b
          <5>1. k \in 0 .. NumLayers
            BY InferenceAssumption
          <5> QED BY <1>2, <5>1 DEF StreamsOf, Lined
        <4>2. p \in 0 .. a - 1 /\ p \in 0 .. b - 1 /\ p + 1 \in 1 .. n
          BY <1>1
        <4>3. f[k][p + 1] = g[k][p + 1]
          BY <1>4, <2>1, <4>2
        <4> QED BY <4>1, <4>2, <4>3 DEF Entries, Entry
      <3>3. Through(m, k, i - 1, f[k][i], Entries(m, k, f[k]))
              = Through(m, k, i - 1, g[k][i], Entries(m, k, g[k]))
        BY <3>1, <3>2, AttendSame
      <3> QED BY <1>2, <3>1, <3>3 DEF StreamsOf
    <2> QED BY <2>1, <2>2
  <1>5. \A li \in 0 .. NumLayers : li \in T
    <2> HIDE DEF T
    <2> QED BY <1>3, <1>4, Climb, InferenceAssumption
  <1> QED BY <1>0, <1>5

-----------------------------------------------------------------------------
(* One layer of a pass.  The places of the norms are the block shapes.       *)
LEMMA NormsAround ==
    ASSUME NEW m \in Models, NEW li \in 0 .. NumLayers - 1
    PROVE  LET norms == NormPlacement(m, li)
           IN  /\ Normed(norms.beforeAttn, Input) = Before(m, li, 0)
               /\ Normed(norms.beforeMlp, Input) = Before(m, li, 1)
               /\ \A x, b : /\ VecAdd(x, Normed(norms.afterAttn, b)) = Around(m, li, 0, x, b)
                            /\ VecAdd(x, Normed(norms.afterMlp, b)) = Around(m, li, 1, x, b)
  <1>1. m.placement \in {"pre", "sandwich", "post"}
    BY InferenceAssumption DEF Loadable
  <1>2. \A i \in 0 .. 1 : None # <<"slot", li, i>> /\ None # <<"extra", li, i>>
    BY NoneAssumption
  <1>3. /\ None # <<"slot", li, 0>> /\ None # <<"extra", li, 0>>
        /\ None # <<"slot", li, 1>> /\ None # <<"extra", li, 1>>
    BY <1>2
  <1>4. CASE m.placement = "pre"
    BY <1>3, <1>4 DEF NormPlacement, Normed, Before, Around
  <1>5. CASE m.placement = "sandwich"
    BY <1>3, <1>5 DEF NormPlacement, Normed, Before, Around
  <1>6. CASE m.placement = "post"
    BY <1>3, <1>6 DEF NormPlacement, Normed, Before, Around
  <1> QED BY <1>1, <1>4, <1>5, <1>6

CachesType(c) ==
    /\ c = [li \in 0 .. NumLayers - 1 |-> c[li]]
    /\ \A li \in 0 .. NumLayers - 1 : CacheType(c[li], MaxCtx)

(* A layer of a storing pass: the token's entry, and the layer's stream over *)
(* the cache with that entry in it.                                          *)
StoredEntry(m, li, pos, c, x) ==
    [c EXCEPT ![li] = Store(c[li], pos, MaxCtx, KeyValue(m, li, pos, x, Before(m, li, 0)))]

LayerDone(next, m, li, pos, state) ==
    /\ next.failed = FALSE
    /\ next.cache = StoredEntry(m, li, pos, state.cache, state.hidden)
    /\ next.hidden = Through(m, li, pos, state.hidden, next.cache[li].data)

LEMMA DecodeLayerStores ==
    ASSUME NEW m \in Models, NEW li \in 0 .. NumLayers - 1, NEW pos \in Nat, pos < MaxCtx,
           NEW state, ~state.failed, pos <= state.cache[li].filled
    PROVE  LayerDone(DecodeLayer(m, li, pos, TRUE, state), m, li, pos, state)
  <1>1. AttentionAllowed(state.cache, li, pos, TRUE)
    BY DEF AttentionAllowed, StoreAllowed
  <1>2. PICK c : c = StoredEntry(m, li, pos, state.cache, state.hidden)
    OBVIOUS
  <1>3. PICK norms : norms = NormPlacement(m, li)
    OBVIOUS
  <1>4. /\ Normed(norms.beforeAttn, Input) = Before(m, li, 0)
        /\ Normed(norms.beforeMlp, Input) = Before(m, li, 1)
        /\ \A x, b : /\ VecAdd(x, Normed(norms.afterAttn, b)) = Around(m, li, 0, x, b)
                     /\ VecAdd(x, Normed(norms.afterMlp, b)) = Around(m, li, 1, x, b)
    BY <1>3, NormsAround
  <1>5. StoreIf(state.cache, li, pos, TRUE,
                KeyValue(m, li, pos, state.hidden, Before(m, li, 0))) = c
    BY <1>2 DEF StoreIf, StoredEntry
  <1>6. PICK attn : attn = AddBias(m, li, 3, Matvec(li, 0, 3,
                             Attend(m, pos, Query(m, li, pos, Before(m, li, 0)), c[li].data)))
    OBVIOUS
  <1>7. PICK after : after = VecAdd(state.hidden, Normed(norms.afterAttn, attn))
    OBVIOUS
  <1>8. PICK h : h = VecAdd(after, Normed(norms.afterMlp, MlpBlock(m, li, after, Before(m, li, 1))))
    OBVIOUS
  <1>9. DecodeLayer(m, li, pos, TRUE, state) = [hidden |-> h, cache |-> c, failed |-> FALSE]
    BY <1>1, <1>3, <1>4, <1>5, <1>6, <1>7, <1>8 DEF DecodeLayer
  <1>10. h = Through(m, li, pos, state.hidden, c[li].data)
    BY <1>4, <1>6, <1>7, <1>8 DEF Through, Entered, Left
  <1>11. PICK next : next = [hidden |-> h, cache |-> c, failed |-> FALSE]
    OBVIOUS
  <1>12. LayerDone(next, m, li, pos, state)
    BY <1>2, <1>10, <1>11 DEF LayerDone
  <1> QED BY <1>9, <1>11, <1>12

(* A layer of a probe changes nothing, and makes of the stream what any pass *)
(* would over these entries.                                                 *)
ProbeDone(pass, c) == pass.failed = FALSE /\ pass.cache = c

LayerProbed(next, m, li, pos, state) == next = DecodeLayer(m, li, pos, FALSE, state)

LEMMA DecodeLayerProbes ==
    ASSUME NEW m \in Models, NEW li \in 0 .. NumLayers - 1, NEW pos \in Nat,
           NEW state, ~state.failed, pos < state.cache[li].filled, NEW next,
           LayerProbed(next, m, li, pos, state)
    PROVE  /\ ProbeDone(next, state.cache)
           /\ next.hidden = Through(m, li, pos, state.hidden, state.cache[li].data)
  <1>1. AttentionAllowed(state.cache, li, pos, FALSE)
    BY DEF AttentionAllowed
  <1>2. PICK c : c = state.cache
    OBVIOUS
  <1>3. PICK norms : norms = NormPlacement(m, li)
    OBVIOUS
  <1>4. /\ Normed(norms.beforeAttn, Input) = Before(m, li, 0)
        /\ Normed(norms.beforeMlp, Input) = Before(m, li, 1)
        /\ \A x, b : /\ VecAdd(x, Normed(norms.afterAttn, b)) = Around(m, li, 0, x, b)
                     /\ VecAdd(x, Normed(norms.afterMlp, b)) = Around(m, li, 1, x, b)
    BY <1>3, NormsAround
  <1>5. StoreIf(state.cache, li, pos, FALSE,
                KeyValue(m, li, pos, state.hidden, Before(m, li, 0))) = c
    BY <1>2 DEF StoreIf
  <1>6. PICK attn : attn = AddBias(m, li, 3, Matvec(li, 0, 3,
                             Attend(m, pos, Query(m, li, pos, Before(m, li, 0)), c[li].data)))
    OBVIOUS
  <1>7. PICK after : after = VecAdd(state.hidden, Normed(norms.afterAttn, attn))
    OBVIOUS
  <1>8. PICK h : h = VecAdd(after, Normed(norms.afterMlp, MlpBlock(m, li, after, Before(m, li, 1))))
    OBVIOUS
  <1>9. next = [hidden |-> h, cache |-> c, failed |-> FALSE]
    BY <1>1, <1>3, <1>4, <1>5, <1>6, <1>7, <1>8 DEF DecodeLayer, LayerProbed
  <1>10. h = Through(m, li, pos, state.hidden, c[li].data)
    BY <1>4, <1>6, <1>7, <1>8 DEF Through, Entered, Left
  <1>11. next.hidden = h /\ next.cache = c /\ next.failed = FALSE
    <2>1. next.hidden = h /\ next.cache = c
      BY <1>9
    <2>2. next.failed = FALSE
      BY <1>9
    <2> QED BY <2>1, <2>2
  <1> QED BY <1>2, <1>10, <1>11 DEF ProbeDone

(* Entry e stored at pos in layer li: the watermark reaches past it, and the *)
(* other entries that count and the other layers stay.                       *)
PutAt(d, c, li, pos, e) ==
    /\ CachesType(d)
    /\ d[li].filled = Reach(c[li].filled, pos)
    /\ d[li].data[pos] = e
    /\ \A p \in 0 .. c[li].filled - 1 : p # pos => d[li].data[p] = c[li].data[p]
    /\ \A lj \in 0 .. NumLayers - 1 : lj # li => d[lj] = c[lj]

LEMMA PutFacts ==
    ASSUME NEW c, CachesType(c), NEW li \in 0 .. NumLayers - 1,
           NEW pos \in Nat, pos < MaxCtx, pos <= c[li].filled, NEW e
    PROVE  PutAt([c EXCEPT ![li] = Store(c[li], pos, MaxCtx, e)], c, li, pos, e)
  <1>1. PICK a, b : a = c[li] /\ b = Store(a, pos, MaxCtx, e)
    OBVIOUS
  <1>2. CacheType(a, MaxCtx) /\ pos <= a.filled /\ MaxCtx \in Nat
    BY <1>1, InferenceAssumption DEF CachesType
  <1>3. /\ CacheType(b, MaxCtx) /\ b.filled = Reach(a.filled, pos) /\ b.data[pos] = e
        /\ \A p \in 0 .. a.filled - 1 : p # pos => b.data[p] = a.data[p]
    BY <1>1, <1>2, OverwriteReach
  <1>4. PICK d : d = [c EXCEPT ![li] = b]
    OBVIOUS
  <1>5. c = [lj \in 0 .. NumLayers - 1 |-> c[lj]]
    BY DEF CachesType
  <1>6. /\ d = [lj \in 0 .. NumLayers - 1 |-> d[lj]] /\ d[li] = b
        /\ \A lj \in 0 .. NumLayers - 1 : lj # li => d[lj] = c[lj]
    BY <1>4, <1>5
  <1>7. CachesType(d)
    BY <1>3, <1>6 DEF CachesType
  <1>8. PutAt(d, c, li, pos, e)
    BY <1>1, <1>3, <1>6, <1>7 DEF PutAt
  <1> QED BY <1>1, <1>4, <1>8

-----------------------------------------------------------------------------
(* A pass over some layers. *)
PassRec(f, m, layers, pos, store, h, c, n) ==
    f = [k \in 0 .. n |-> IF k = 0 THEN [hidden |-> h, cache |-> c, failed |-> FALSE]
                          ELSE DecodeLayer(m, layers[k], pos, store, f[k - 1])]

(* The recursive equation of a pass has a solution.                         *)
LEMMA PassExists ==
    ASSUME NEW m, NEW layers, NEW pos, NEW store, NEW h, NEW c, NEW n \in Nat
    PROVE  \E f : PassRec(f, m, layers, pos, store, h, c, n)
  <1> DEFINE T == {k \in 0 .. n : \E f : PassRec(f, m, layers, pos, store, h, c, k)}
  <1>1. 0 \in T
    <2>1. PICK f : f = [k \in 0 .. 0 |-> [hidden |-> h, cache |-> c, failed |-> FALSE]]
      OBVIOUS
    <2>2. PassRec(f, m, layers, pos, store, h, c, 0)
      BY <2>1 DEF PassRec
    <2> QED BY <2>2
  <1>2. ASSUME NEW k \in 1 .. n, k - 1 \in T PROVE k \in T
    <2>1. PICK f : PassRec(f, m, layers, pos, store, h, c, k - 1)
      BY <1>2
    <2>2. PICK g : g = [i \in 0 .. k |-> IF i = k THEN DecodeLayer(m, layers[k], pos, store, f[k - 1])
                                         ELSE f[i]]
      OBVIOUS
    <2>3. \A i \in 0 .. k :
             g[i] = IF i = 0 THEN [hidden |-> h, cache |-> c, failed |-> FALSE]
                    ELSE DecodeLayer(m, layers[i], pos, store, g[i - 1])
      <3> TAKE i \in 0 .. k
      <3>1. i # 0 => i - 1 \in 0 .. k - 1 /\ g[i - 1] = f[i - 1]
        BY <2>2
      <3>2. CASE i = k
        BY <2>2, <3>1, <3>2
      <3>3. CASE i # k
        <4>1. i \in 0 .. k - 1 /\ g[i] = f[i]
          BY <2>2, <3>3
        <4> QED BY <2>1, <3>1, <4>1 DEF PassRec
      <3> QED BY <3>2, <3>3
    <2>4. g = [i \in 0 .. k |-> g[i]]
      BY <2>2
    <2>5. PassRec(g, m, layers, pos, store, h, c, k)
      BY <2>3, <2>4 DEF PassRec
    <2> QED BY <2>5
  <1>3. \A k \in 0 .. n : k \in T
    BY <1>1, <1>2, Climb
  <1> QED BY <1>3

(* After k layers the pass is in the state f[k].                             *)
Passes(f, m, layers, pos, store, h, c, n) ==
    /\ f[0] = [hidden |-> h, cache |-> c, failed |-> FALSE]
    /\ \A k \in 1 .. n : f[k] = DecodeLayer(m, layers[k], pos, store, f[k - 1])
    /\ ThroughLayers(m, layers, pos, store, h, c) = f[n]

LEMMA PassStates ==
    ASSUME NEW m, NEW layers, NEW n \in Nat, Len(layers) = n, NEW pos, NEW store, NEW h, NEW c
    PROVE  \E f : Passes(f, m, layers, pos, store, h, c, n)
  <1>1. PICK f : f = CHOOSE g : PassRec(g, m, layers, pos, store, h, c, n)
    OBVIOUS
  <1>2. PassRec(f, m, layers, pos, store, h, c, n)
    BY <1>1, PassExists
  <1>3. ThroughLayers(m, layers, pos, store, h, c) = f[n]
    BY <1>1 DEF ThroughLayers, PassRec
  <1>4. f[0] = [hidden |-> h, cache |-> c, failed |-> FALSE]
    BY <1>2 DEF PassRec
  <1>5. ASSUME NEW k \in 1 .. n
        PROVE  f[k] = DecodeLayer(m, layers[k], pos, store, f[k - 1])
    <2>1. k \in 0 .. n /\ k # 0
      OBVIOUS
    <2> QED BY <1>2, <2>1 DEF PassRec
  <1> QED BY <1>3, <1>4, <1>5 DEF Passes

-----------------------------------------------------------------------------
(* Layer li of the caches c holds what the text s determines, below n. *)
Holds(m, s, n, c, li) ==
    /\ n <= c[li].filled
    /\ \A p \in 0 .. n - 1 : c[li].data[p] = Entry(m, Streams(m, s)[li], li, p)

(* Two texts with the same first n tokens determine the same n entries.     *)
LEMMA HoldsPrefix ==
    ASSUME NEW m, NEW s \in Seq(Token), NEW t \in Seq(Token), NEW n \in Nat,
           n <= Len(s), n <= Len(t), \A i \in 1 .. n : s[i] = t[i],
           NEW c, NEW li \in 0 .. NumLayers - 1, Holds(m, s, n, c, li)
    PROVE  Holds(m, t, n, c, li)
  <1>1. li \in 0 .. NumLayers
    BY InferenceAssumption
  <1>2. ASSUME NEW p \in 0 .. n - 1
        PROVE  Entry(m, Streams(m, s)[li], li, p) = Entry(m, Streams(m, t)[li], li, p)
    <2>1. p + 1 \in 1 .. n
      OBVIOUS
    <2>2. Streams(m, s)[li][p + 1] = Streams(m, t)[li][p + 1]
      BY <1>1, <2>1, StreamsPrefix
    <2> QED BY <2>2 DEF Entry
  <1> QED BY <1>2 DEF Holds

(* The pass over all layers at pos of the text s: every layer's entry is     *)
(* the reference's, and so is the stream that comes out.                     *)
PassDone(pass, m, s, pos, c) ==
    /\ pass.failed = FALSE
    /\ pass.hidden = Streams(m, s)[NumLayers][pos + 1]
    /\ CachesType(pass.cache)
    /\ \A li \in 0 .. NumLayers - 1 :
          /\ Holds(m, s, pos + 1, pass.cache, li)
          /\ pass.cache[li].filled = Reach(c[li].filled, pos)

(* The same after the layers below k.                                        *)
PassAt(k, r, m, s, pos, c) ==
    /\ r.failed = FALSE
    /\ r.hidden = Streams(m, s)[k][pos + 1]
    /\ CachesType(r.cache)
    /\ \A li \in 0 .. NumLayers - 1 :
          IF li < k
          THEN /\ Holds(m, s, pos + 1, r.cache, li)
               /\ r.cache[li].filled = Reach(c[li].filled, pos)
          ELSE r.cache[li] = c[li]

LEMMA PassStep ==
    ASSUME NEW m \in Models, NEW s \in Seq(Token), NEW pos \in Nat, pos < Len(s), pos < MaxCtx,
           NEW c, \A li \in 0 .. NumLayers - 1 : Holds(m, s, pos, c, li),
           NEW li \in 0 .. NumLayers - 1, NEW r, PassAt(li, r, m, s, pos, c)
    PROVE  PassAt(li + 1, DecodeLayer(m, li, pos, TRUE, r), m, s, pos, c)
  <1>1. PICK f : f = Streams(m, s)
    OBVIOUS
  <1>2. PICK n \in Nat : n = Len(s)
    OBVIOUS
  <1>3. StreamsOf(f, m, s, n)
    BY <1>1, <1>2, StreamsFacts
  <1>4. PICK e : e = KeyValue(m, li, pos, r.hidden, Before(m, li, 0))
    OBVIOUS
  <1>5. e = Entry(m, f[li], li, pos)
    BY <1>1, <1>4 DEF PassAt, Entry
  <1>6. r.cache[li] = c[li] /\ CachesType(r.cache) /\ ~r.failed
    BY DEF PassAt
  <1>7. pos <= r.cache[li].filled
    BY <1>6 DEF Holds
  <1>8. PICK d : d = DecodeLayer(m, li, pos, TRUE, r)
    OBVIOUS
  <1>9. LayerDone(d, m, li, pos, r)
    BY <1>6, <1>7, <1>8, DecodeLayerStores
  <1>10. PutAt(d.cache, r.cache, li, pos, e)
    BY <1>4, <1>6, <1>7, <1>9, PutFacts DEF LayerDone, StoredEntry
  <1>11. c[li].filled \in Nat
    BY <1>6 DEF CachesType, CacheType
  <1>12. /\ CachesType(d.cache) /\ d.cache[li].filled = Reach(c[li].filled, pos)
         /\ pos + 1 <= d.cache[li].filled
         /\ \A lj \in 0 .. NumLayers - 1 : lj # li => d.cache[lj] = r.cache[lj]
    BY <1>6, <1>10, <1>11 DEF PutAt, Reach
  <1>13. \A p \in 0 .. pos : d.cache[li].data[p] = Entry(m, f[li], li, p)
    <2> TAKE p \in 0 .. pos
    <2>1. CASE p = pos
      BY <1>5, <1>10, <2>1 DEF PutAt
    <2>2. CASE p # pos
      <3>1. p \in 0 .. pos - 1 /\ p \in 0 .. c[li].filled - 1
        BY <1>6, <1>7, <1>11, <2>2
      <3>2. d.cache[li].data[p] = c[li].data[p]
        BY <1>6, <1>10, <2>2, <3>1 DEF PutAt
      <3>3. c[li].data[p] = Entry(m, f[li], li, p)
        BY <1>1, <3>1 DEF Holds
      <3> QED BY <3>2, <3>3
    <2> QED BY <2>1, <2>2
  <1>14. Holds(m, s, pos + 1, d.cache, li)
    BY <1>1, <1>12, <1>13 DEF Holds
  <1>15. d.hidden = f[li + 1][pos + 1]
    <2>1. d.hidden = Through(m, li, pos, f[li][pos + 1], d.cache[li].data)
      BY <1>1, <1>9 DEF LayerDone, PassAt
    <2>2. \A p \in 0 .. pos : d.cache[li].data[p] = Entries(m, li, f[li])[p]
      <3> TAKE p \in 0 .. pos
      <3>1. Len(f[li]) = n
        <4>1. li \in 0 .. NumLayers
          BY InferenceAssumption
        <4> QED BY <1>3, <4>1 DEF StreamsOf, Lined
      <3>2. p \in 0 .. Len(f[li]) - 1
        BY <1>2, <3>1
      <3> QED BY <1>13, <3>2 DEF Entries
    <2>3. Through(m, li, pos, f[li][pos + 1], d.cache[li].data)
            = Through(m, li, pos, f[li][pos + 1], Entries(m, li, f[li]))
      BY <2>2, AttendSame
    <2>4. pos + 1 \in 1 .. n /\ (pos + 1) - 1 = pos
      BY <1>2
    <2>5. f[li + 1][pos + 1] = Through(m, li, (pos + 1) - 1, f[li][pos + 1], Entries(m, li, f[li]))
      BY <1>3, <2>4 DEF StreamsOf
    <2> QED BY <2>1, <2>3, <2>4, <2>5
  <1>16. ASSUME NEW lj \in 0 .. NumLayers - 1
         PROVE  IF lj < li + 1
                THEN /\ Holds(m, s, pos + 1, d.cache, lj)
                     /\ d.cache[lj].filled = Reach(c[lj].filled, pos)
                ELSE d.cache[lj] = c[lj]
    <2>1. CASE lj = li
      BY <1>12, <1>14, <2>1
    <2>2. CASE lj < li
      <3>1. Holds(m, s, pos + 1, r.cache, lj) /\ r.cache[lj].filled = Reach(c[lj].filled, pos)
        BY <2>2 DEF PassAt
      <3>2. d.cache[lj] = r.cache[lj]
        BY <1>12, <2>2
      <3> QED BY <2>2, <3>1, <3>2 DEF Holds
    <2>3. CASE lj > li
      BY <1>12, <2>3 DEF PassAt
    <2> QED BY <2>1, <2>2, <2>3
  <1>17. PassAt(li + 1, d, m, s, pos, c)
    BY <1>1, <1>9, <1>12, <1>15, <1>16 DEF PassAt, LayerDone
  <1> QED BY <1>8, <1>17

(* The layers of a full pass, in order.                                     *)
LEMMA AllLayersFacts ==
    NumLayers \in Nat /\ Len(AllLayers) = NumLayers /\ \A k \in 1 .. NumLayers : AllLayers[k] = k - 1
  <1>1. PICK n \in Nat : n = NumLayers
    BY InferenceAssumption
  <1>2. AllLayers = [k \in 1 .. n |-> AllLayers[k]] /\ \A k \in 1 .. n : AllLayers[k] = k - 1
    BY <1>1 DEF AllLayers
  <1> QED BY <1>1, <1>2, WholeFacts

LEMMA PassIsReference ==
    ASSUME NEW m \in Models, NEW s \in Seq(Token), NEW pos \in Nat, pos < Len(s), pos < MaxCtx,
           NEW c, CachesType(c), \A li \in 0 .. NumLayers - 1 : Holds(m, s, pos, c, li)
    PROVE  PassDone(ForwardFromHidden(m, Embed(m, s[pos + 1]), pos, c, TRUE), m, s, pos, c)
  <1>1. NumLayers \in Nat /\ Len(AllLayers) = NumLayers /\ \A k \in 1 .. NumLayers : AllLayers[k] = k - 1
    BY AllLayersFacts
  <1>2. PICK h : h = Embed(m, s[pos + 1])
    OBVIOUS
  <1>3. PICK f : Passes(f, m, AllLayers, pos, TRUE, h, c, NumLayers)
    BY <1>1, PassStates
  <1>4. PassAt(0, f[0], m, s, pos, c)
    <2>1. StreamsOf(Streams(m, s), m, s, Len(s))
      BY StreamsFacts
    <2>2. pos + 1 \in 1 .. Len(s)
      OBVIOUS
    <2>3. Streams(m, s)[0][pos + 1] = h
      BY <1>2, <2>1, <2>2 DEF StreamsOf
    <2>4. f[0] = [hidden |-> h, cache |-> c, failed |-> FALSE]
      BY <1>3 DEF Passes
    <2>5. f[0].hidden = h /\ f[0].cache = c
      BY <2>4
    <2>6. f[0].failed = FALSE
      BY <2>4
    <2> QED BY <2>3, <2>5, <2>6 DEF PassAt
  <1> DEFINE T == {k \in 0 .. NumLayers : PassAt(k, f[k], m, s, pos, c)}
  <1>5. 0 \in T
    BY <1>1, <1>4
  <1>6. ASSUME NEW k \in 1 .. NumLayers, k - 1 \in T PROVE k \in T
    <2>1. PICK li \in 0 .. NumLayers - 1 : k = li + 1 /\ li = k - 1
      BY <1>1
    <2>2. PICK r : r = f[li]
      OBVIOUS
    <2>3. PassAt(li, f[li], m, s, pos, c)
      BY <1>6, <2>1
    <2>4. PassAt(li, r, m, s, pos, c)
      BY <2>2, <2>3
    <2>5. f[k] = DecodeLayer(m, li, pos, TRUE, r)
      BY <1>1, <1>3, <2>1, <2>2 DEF Passes
    <2>6. PassAt(li + 1, DecodeLayer(m, li, pos, TRUE, r), m, s, pos, c)
      BY <2>4, PassStep
    <2>7. PICK d : d = f[k]
      OBVIOUS
    <2>8. PassAt(li + 1, d, m, s, pos, c)
      BY <2>5, <2>6, <2>7
    <2>9. PassAt(k, f[k], m, s, pos, c)
      BY <2>1, <2>7, <2>8
    <2> QED BY <2>9
  <1>7. NumLayers \in T
    <2>1. \A k \in 0 .. NumLayers : k \in T
      <3> HIDE DEF T
      <3> QED BY <1>1, <1>5, <1>6, Climb
    <2> QED BY <1>1, <2>1
  <1>8. PassAt(NumLayers, f[NumLayers], m, s, pos, c)
    BY <1>7
  <1>9. PICK pass : pass = f[NumLayers]
    OBVIOUS
  <1>10. \A li \in 0 .. NumLayers - 1 : li < NumLayers
    BY <1>1
  <1>11. PassDone(pass, m, s, pos, c)
    BY <1>8, <1>9, <1>10 DEF PassAt, PassDone
  <1>12. ForwardFromHidden(m, h, pos, c, TRUE) = pass
    BY <1>3, <1>9 DEF Passes, ForwardFromHidden
  <1> QED BY <1>2, <1>11, <1>12

(* A probe in the place of the last token of s, over caches that hold s. *)
Probed(m, s, c, pos) ==
    /\ m \in Models /\ s \in Seq(Token) /\ Len(s) = pos + 1 /\ pos < MaxCtx
    /\ \A li \in 0 .. NumLayers - 1 : pos < c[li].filled /\ Holds(m, s, pos + 1, c, li)

(* The streams of the reference's probe. *)
ProbeRec(f, m, s, x, n) ==
    f = [li \in 0 .. n |->
           IF li = 0 THEN x
           ELSE Through(m, li - 1, Len(s) - 1, f[li - 1], Entries(m, li - 1, Streams(m, s)[li - 1]))]

(* The recursive equation of a probe has a solution.                         *)
LEMMA ProbeExists ==
    ASSUME NEW m, NEW s, NEW x, NEW n \in Nat
    PROVE  \E f : ProbeRec(f, m, s, x, n)
  <1> DEFINE T == {k \in 0 .. n : \E f : ProbeRec(f, m, s, x, k)}
  <1> DEFINE More(k, y) == Through(m, k - 1, Len(s) - 1, y, Entries(m, k - 1, Streams(m, s)[k - 1]))
  <1>1. 0 \in T
    <2>1. PICK f : f = [k \in 0 .. 0 |-> x]
      OBVIOUS
    <2>2. ProbeRec(f, m, s, x, 0)
      BY <2>1 DEF ProbeRec
    <2> QED BY <2>2
  <1>2. ASSUME NEW k \in 1 .. n, k - 1 \in T PROVE k \in T
    <2>1. PICK f : ProbeRec(f, m, s, x, k - 1)
      BY <1>2
    <2>2. PICK g : g = [i \in 0 .. k |-> IF i = k THEN More(k, f[k - 1]) ELSE f[i]]
      OBVIOUS
    <2>3. \A i \in 0 .. k : g[i] = IF i = 0 THEN x ELSE More(i, g[i - 1])
      <3> TAKE i \in 0 .. k
      <3>1. i # 0 => i - 1 \in 0 .. k - 1 /\ g[i - 1] = f[i - 1]
        BY <2>2
      <3>2. CASE i = k
        BY <2>2, <3>1, <3>2
      <3>3. CASE i # k
        <4>1. i \in 0 .. k - 1 /\ g[i] = f[i]
          BY <2>2, <3>3
        <4> QED BY <2>1, <3>1, <4>1 DEF ProbeRec
      <3> QED BY <3>2, <3>3
    <2>4. g = [i \in 0 .. k |-> g[i]]
      BY <2>2
    <2>5. ProbeRec(g, m, s, x, k)
      BY <2>3, <2>4 DEF ProbeRec
    <2> QED BY <2>5
  <1>3. \A k \in 0 .. n : k \in T
    <2> HIDE DEF T
    <2> QED BY <1>1, <1>2, Climb
  <1> QED BY <1>3

(* So ProbeReference is the logits of a solution's last stream. *)
LEMMA ProbeEquation ==
    ASSUME NEW m, NEW s, NEW x
    PROVE  \E f : ProbeRec(f, m, s, x, NumLayers) /\ ProbeReference(m, s, x) = Logits(m, f[NumLayers])
  <1>1. NumLayers \in Nat
    BY InferenceAssumption
  <1>2. PICK f : f = CHOOSE g : ProbeRec(g, m, s, x, NumLayers)
    OBVIOUS
  <1>3. ProbeRec(f, m, s, x, NumLayers)
    BY <1>1, <1>2, ProbeExists
  <1>4. ProbeReference(m, s, x) = Logits(m, f[NumLayers])
    BY <1>2 DEF ProbeReference, ProbeRec
  <1> QED BY <1>3, <1>4

(* A layer of a probe over entries that hold is the reference's. *)
LEMMA ProbeStep ==
    ASSUME NEW m, NEW s, NEW c, NEW pos \in Nat, Probed(m, s, c, pos),
           NEW li \in 0 .. NumLayers - 1, NEW r, ProbeDone(r, c), NEW next,
           LayerProbed(next, m, li, pos, r)
    PROVE  /\ ProbeDone(next, c)
           /\ next.hidden = Through(m, li, pos, r.hidden, Entries(m, li, Streams(m, s)[li]))
  <1>1. /\ m \in Models /\ s \in Seq(Token) /\ Len(s) = pos + 1 /\ pos < c[li].filled
        /\ Holds(m, s, pos + 1, c, li)
    BY DEF Probed
  <1>2. r.cache = c /\ ~r.failed
    BY DEF ProbeDone
  <1>3. /\ ProbeDone(next, c)
        /\ next.hidden = Through(m, li, pos, r.hidden, c[li].data)
    BY <1>1, <1>2, DecodeLayerProbes
  <1>4. Len(Streams(m, s)[li]) = pos + 1
    <2>1. StreamsOf(Streams(m, s), m, s, pos + 1)
      BY <1>1, StreamsFacts
    <2>2. li \in 0 .. NumLayers
      BY InferenceAssumption
    <2> QED BY <2>1, <2>2 DEF StreamsOf, Lined
  <1>5. \A p \in 0 .. pos : c[li].data[p] = Entries(m, li, Streams(m, s)[li])[p]
    <2> TAKE p \in 0 .. pos
    <2>1. p \in 0 .. (pos + 1) - 1
      OBVIOUS
    <2>2. c[li].data[p] = Entry(m, Streams(m, s)[li], li, p)
      BY <1>1, <2>1 DEF Holds
    <2>3. p \in 0 .. Len(Streams(m, s)[li]) - 1
      BY <1>4, <2>1
    <2> QED BY <2>2, <2>3 DEF Entries
  <1>6. Through(m, li, pos, r.hidden, c[li].data)
          = Through(m, li, pos, r.hidden, Entries(m, li, Streams(m, s)[li]))
    BY <1>5, AttendSame
  <1> QED BY <1>3, <1>6

(* A probe leaves the caches as they are, with the reference's logits for an *)
(* embedding in this place.                                                  *)
ProbeSees(pass, m, s, c, h) ==
    ProbeDone(pass, c) /\ Logits(m, pass.hidden) = ProbeReference(m, s, h)

LEMMA ProbeReads ==
    ASSUME NEW m, NEW s, NEW c, NEW pos \in Nat, Probed(m, s, c, pos), NEW h
    PROVE  ProbeSees(ForwardFromHidden(m, h, pos, c, FALSE), m, s, c, h)
  <1>1. NumLayers \in Nat /\ Len(AllLayers) = NumLayers /\ \A k \in 1 .. NumLayers : AllLayers[k] = k - 1
    BY AllLayersFacts
  <1>2. PICK f : Passes(f, m, AllLayers, pos, FALSE, h, c, NumLayers)
    BY <1>1, PassStates
  <1>3. PICK g : ProbeRec(g, m, s, h, NumLayers) /\ ProbeReference(m, s, h) = Logits(m, g[NumLayers])
    BY ProbeEquation
  <1> DEFINE T == {k \in 0 .. NumLayers : ProbeDone(f[k], c) /\ f[k].hidden = g[k]}
  <1>4. 0 \in T
    <2>1. f[0] = [hidden |-> h, cache |-> c, failed |-> FALSE]
      BY <1>2 DEF Passes
    <2>2. f[0].failed = FALSE
      BY <2>1
    <2>3. f[0].cache = c /\ f[0].hidden = h
      BY <2>1
    <2>4. g[0] = h
      BY <1>1, <1>3 DEF ProbeRec
    <2> QED BY <1>1, <2>2, <2>3, <2>4 DEF ProbeDone
  <1>5. ASSUME NEW k \in 1 .. NumLayers, k - 1 \in T PROVE k \in T
    <2>1. PICK li \in 0 .. NumLayers - 1 : k = li + 1 /\ li = k - 1
      BY <1>1
    <2>2. PICK r, next : r = f[li] /\ next = f[k]
      OBVIOUS
    <2>3. ProbeDone(f[li], c) /\ f[li].hidden = g[li]
      BY <1>5, <2>1
    <2>4. ProbeDone(r, c) /\ r.hidden = g[li]
      BY <2>2, <2>3
    <2>5. LayerProbed(next, m, li, pos, r)
      BY <1>1, <1>2, <2>1, <2>2 DEF Passes, LayerProbed
    <2>6. /\ ProbeDone(next, c)
          /\ next.hidden = Through(m, li, pos, r.hidden, Entries(m, li, Streams(m, s)[li]))
      BY <2>4, <2>5, ProbeStep
    <2>7. g[k] = Through(m, li, pos, g[li], Entries(m, li, Streams(m, s)[li]))
      <3>1. Len(s) - 1 = pos
        BY DEF Probed
      <3>2. k \in 0 .. NumLayers /\ k # 0
        OBVIOUS
      <3>3. g[k] = Through(m, k - 1, Len(s) - 1, g[k - 1], Entries(m, k - 1, Streams(m, s)[k - 1]))
        BY <1>3, <3>2 DEF ProbeRec
      <3> QED BY <2>1, <3>1, <3>3
    <2>8. ProbeDone(f[k], c) /\ f[k].hidden = g[k]
      BY <2>2, <2>4, <2>6, <2>7
    <2> QED BY <2>8
  <1>6. NumLayers \in T
    <2>1. \A k \in 0 .. NumLayers : k \in T
      <3> HIDE DEF T
      <3> QED BY <1>1, <1>4, <1>5, Climb
    <2> QED BY <1>1, <2>1
  <1>7. ProbeDone(f[NumLayers], c) /\ f[NumLayers].hidden = g[NumLayers]
    BY <1>6
  <1>8. PICK pass : pass = f[NumLayers]
    OBVIOUS
  <1>9. ForwardFromHidden(m, h, pos, c, FALSE) = pass
    BY <1>2, <1>8 DEF Passes, ForwardFromHidden, Probed
  <1>10. ProbeSees(pass, m, s, c, h)
    BY <1>3, <1>7, <1>8 DEF ProbeSees
  <1> QED BY <1>9, <1>10

-----------------------------------------------------------------------------
(* A draft pass stores in its own layers, at or behind the end of the text:  *)
(* what lies before stays.                                                   *)
DraftAt(S, r, pos, c) ==
    /\ r.failed = FALSE
    /\ CachesType(r.cache)
    /\ \A li \in 0 .. NumLayers - 1 :
          /\ r.cache[li].filled = IF li \in S THEN Reach(c[li].filled, pos) ELSE c[li].filled
          /\ \A p \in 0 .. c[li].filled - 1 : p < pos => r.cache[li].data[p] = c[li].data[p]

LEMMA DraftStep ==
    ASSUME NEW m \in Models, NEW pos \in Nat, pos < MaxCtx, NEW c, CachesType(c),
           NEW li \in 0 .. NumLayers - 1, pos <= c[li].filled, NEW S, NEW r, DraftAt(S, r, pos, c)
    PROVE  DraftAt(S \cup {li}, DecodeLayer(m, li, pos, TRUE, r), pos, c)
  <1>1. PICK e : e = KeyValue(m, li, pos, r.hidden, Before(m, li, 0))
    OBVIOUS
  <1>2. /\ CachesType(r.cache) /\ ~r.failed /\ c[li].filled \in Nat /\ r.cache[li].filled \in Nat
        /\ r.cache[li].filled = IF li \in S THEN Reach(c[li].filled, pos) ELSE c[li].filled
    BY DEF DraftAt, CachesType, CacheType
  <1>3. pos <= r.cache[li].filled /\ c[li].filled <= r.cache[li].filled
    BY <1>2 DEF Reach
  <1>4. PICK d : d = DecodeLayer(m, li, pos, TRUE, r)
    OBVIOUS
  <1>5. LayerDone(d, m, li, pos, r)
    BY <1>2, <1>3, <1>4, DecodeLayerStores
  <1>6. PutAt(d.cache, r.cache, li, pos, e)
    BY <1>1, <1>2, <1>3, <1>5, PutFacts DEF LayerDone, StoredEntry
  <1>7. d.cache[li].filled = Reach(c[li].filled, pos)
    BY <1>2, <1>6 DEF PutAt, Reach
  <1>8. ASSUME NEW lj \in 0 .. NumLayers - 1
        PROVE  /\ d.cache[lj].filled = IF lj \in S \cup {li} THEN Reach(c[lj].filled, pos)
                                       ELSE c[lj].filled
               /\ \A p \in 0 .. c[lj].filled - 1 : p < pos => d.cache[lj].data[p] = c[lj].data[p]
    <2>1. /\ r.cache[lj].filled = IF lj \in S THEN Reach(c[lj].filled, pos) ELSE c[lj].filled
          /\ \A p \in 0 .. c[lj].filled - 1 : p < pos => r.cache[lj].data[p] = c[lj].data[p]
      BY DEF DraftAt
    <2>2. CASE lj = li
      <3>1. ASSUME NEW p \in 0 .. c[li].filled - 1, p < pos
            PROVE  d.cache[li].data[p] = c[li].data[p]
        <4>1. p \in 0 .. r.cache[li].filled - 1 /\ p # pos
          BY <1>2, <1>3, <3>1
        <4> QED BY <1>6, <2>1, <2>2, <3>1, <4>1 DEF PutAt
      <3> QED BY <1>7, <2>2, <3>1
    <2>3. CASE lj # li
      <3>1. d.cache[lj] = r.cache[lj]
        BY <1>6, <2>3 DEF PutAt
      <3> QED BY <2>1, <2>3, <3>1
    <2> QED BY <2>2, <2>3
  <1>9. DraftAt(S \cup {li}, d, pos, c)
    BY <1>5, <1>6, <1>8 DEF DraftAt, LayerDone, PutAt
  <1> QED BY <1>4, <1>9

(* The layers of a draft advance together. *)
Level(c) == \A k \in 1 .. Len(DraftLayers) : c[DraftLayers[k]].filled = c[DraftLayers[1]].filled

LEMMA DraftKeeps ==
    ASSUME NEW m \in Models, NEW h, NEW pos \in Nat, pos < MaxCtx,
           NEW c, CachesType(c), Level(c), DraftLayers # <<>>, pos <= c[DraftLayers[1]].filled
    PROVE  DraftAt({DraftLayers[k] : k \in 1 .. Len(DraftLayers)},
                   ForwardPartial(m, h, pos, c, DraftLayers), pos, c)
  <1>1. PICK n \in Nat : n = Len(DraftLayers)
    BY InferenceAssumption
  <1>2. PICK f : Passes(f, m, DraftLayers, pos, TRUE, h, c, n)
    BY <1>1, PassStates
  <1> DEFINE T == {k \in 0 .. n : DraftAt({DraftLayers[i] : i \in 1 .. k}, f[k], pos, c)}
  <1>3. 0 \in T
    <2>1. f[0] = [hidden |-> h, cache |-> c, failed |-> FALSE]
      BY <1>2 DEF Passes
    <2>2. f[0].failed = FALSE
      BY <2>1
    <2>3. f[0].cache = c
      BY <2>1
    <2>5. DraftAt({}, f[0], pos, c)
      BY <2>2, <2>3 DEF DraftAt
    <2>6. PICK S : S = {DraftLayers[i] : i \in 1 .. 0}
      OBVIOUS
    <2>7. S = {}
      BY <2>6
    <2>8. DraftAt({DraftLayers[i] : i \in 1 .. 0}, f[0], pos, c)
      BY <2>5, <2>6, <2>7
    <2> QED BY <2>8
  <1>4. ASSUME NEW k \in 1 .. n, k - 1 \in T PROVE k \in T
    <2>1. PICK j \in 0 .. n : j = k - 1 /\ k = j + 1
      OBVIOUS
    <2>2. PICK S : S = {DraftLayers[i] : i \in 1 .. j}
      OBVIOUS
    <2>3. PICK li : li = DraftLayers[k]
      OBVIOUS
    <2>4. li \in 0 .. NumLayers - 1
      BY <1>1, <2>3, InferenceAssumption
    <2>5. DraftAt({DraftLayers[i] : i \in 1 .. j}, f[j], pos, c)
      BY <1>4, <2>1
    <2>6. PICK r : r = f[j]
      OBVIOUS
    <2>7. DraftAt(S, r, pos, c)
      BY <2>2, <2>5, <2>6
    <2>8. pos <= c[li].filled
      BY <1>1, <2>3 DEF Level
    <2>9. f[k] = DecodeLayer(m, li, pos, TRUE, r)
      BY <1>2, <2>1, <2>3, <2>6 DEF Passes
    <2>10. PICK d : d = DecodeLayer(m, li, pos, TRUE, r)
      OBVIOUS
    <2>11. DraftAt(S \cup {li}, d, pos, c)
      BY <2>4, <2>7, <2>8, <2>10, DraftStep
    <2>12. S \cup {li} = {DraftLayers[i] : i \in 1 .. k}
      <3>1. \A i : i \in 1 .. k <=> (i \in 1 .. j \/ i = k)
        BY <2>1
      <3> QED BY <2>2, <2>3, <3>1
    <2>13. DraftAt({DraftLayers[i] : i \in 1 .. k}, f[k], pos, c)
      BY <2>9, <2>10, <2>11, <2>12
    <2> QED BY <2>13
  <1>5. n \in T
    <2>1. \A k \in 0 .. n : k \in T
      <3> HIDE DEF T
      <3> QED BY <1>3, <1>4, Climb
    <2>2. n \in 0 .. n
      OBVIOUS
    <2> HIDE DEF T
    <2> QED BY <2>1, <2>2
  <1>6. DraftAt({DraftLayers[i] : i \in 1 .. n}, f[n], pos, c)
    BY <1>5
  <1>7. ForwardPartial(m, h, pos, c, DraftLayers) = f[n]
    BY <1>2 DEF Passes, ForwardPartial
  <1> QED BY <1>1, <1>6, <1>7

-----------------------------------------------------------------------------
(* The store loop of a batch. *)
StoreOne(m, li, from, xs, input, before, b) ==
    LET pos == from + b - 1
    IN  IF before.failed \/ ~StoreAllowed(before.cache[li], pos, MaxCtx)
        THEN [before EXCEPT !.failed = TRUE]
        ELSE [ before EXCEPT !.cache =
                 StoreIf(@, li, pos, TRUE, KeyValue(m, li, pos, xs[b], input)) ]

StoreRec(f, m, li, from, xs, input, c, n) ==
    f = [b \in 0 .. n |-> IF b = 0 THEN [cache |-> c, failed |-> FALSE]
                          ELSE StoreOne(m, li, from, xs, input, f[b - 1], b)]

(* The recursive equation of the store loop has a solution.                 *)
LEMMA StoreExists ==
    ASSUME NEW m, NEW li, NEW from, NEW xs, NEW input, NEW c, NEW n \in Nat
    PROVE  \E f : StoreRec(f, m, li, from, xs, input, c, n)
  <1> DEFINE T == {k \in 0 .. n : \E f : StoreRec(f, m, li, from, xs, input, c, k)}
  <1>1. 0 \in T
    <2>1. PICK f : f = [k \in 0 .. 0 |-> [cache |-> c, failed |-> FALSE]]
      OBVIOUS
    <2>2. StoreRec(f, m, li, from, xs, input, c, 0)
      BY <2>1 DEF StoreRec
    <2> QED BY <2>2
  <1>2. ASSUME NEW k \in 1 .. n, k - 1 \in T PROVE k \in T
    <2>1. PICK f : StoreRec(f, m, li, from, xs, input, c, k - 1)
      BY <1>2
    <2>2. PICK g : g = [i \in 0 .. k |-> IF i = k THEN StoreOne(m, li, from, xs, input, f[k - 1], k)
                                         ELSE f[i]]
      OBVIOUS
    <2>3. \A i \in 0 .. k :
             g[i] = IF i = 0 THEN [cache |-> c, failed |-> FALSE]
                    ELSE StoreOne(m, li, from, xs, input, g[i - 1], i)
      <3> TAKE i \in 0 .. k
      <3>1. i # 0 => i - 1 \in 0 .. k - 1 /\ g[i - 1] = f[i - 1]
        BY <2>2
      <3>2. CASE i = k
        BY <2>2, <3>1, <3>2
      <3>3. CASE i # k
        <4>1. i \in 0 .. k - 1 /\ g[i] = f[i]
          BY <2>2, <3>3
        <4> QED BY <2>1, <3>1, <4>1 DEF StoreRec
      <3> QED BY <3>2, <3>3
    <2>4. g = [i \in 0 .. k |-> g[i]]
      BY <2>2
    <2>5. StoreRec(g, m, li, from, xs, input, c, k)
      BY <2>3, <2>4 DEF StoreRec
    <2> QED BY <2>5
  <1>3. \A k \in 0 .. n : k \in T
    BY <1>1, <1>2, Climb
  <1> QED BY <1>3

ReachAll(filled, end) == IF filled < end THEN end ELSE filled

(* After b stores from position `from` on in layer li.                       *)
StoredTo(b, r, m, li, from, xs, input, c) ==
    /\ "cache" \in DOMAIN r /\ r.failed = FALSE
    /\ CachesType(r.cache)
    /\ \A lj \in 0 .. NumLayers - 1 : lj # li => r.cache[lj] = c[lj]
    /\ r.cache[li].filled = ReachAll(c[li].filled, from + b)
    /\ \A p \in 0 .. from - 1 : r.cache[li].data[p] = c[li].data[p]
    /\ \A i \in 1 .. b :
          r.cache[li].data[from + i - 1] = KeyValue(m, li, from + i - 1, xs[i], input)

LEMMA StoreOneFacts ==
    ASSUME NEW m, NEW li \in 0 .. NumLayers - 1, NEW from \in Nat, NEW xs, NEW input,
           NEW c, CachesType(c), from <= c[li].filled,
           NEW b \in Nat, from + b < MaxCtx, NEW r, StoredTo(b, r, m, li, from, xs, input, c)
    PROVE  StoredTo(b + 1, StoreOne(m, li, from, xs, input, r, b + 1), m, li, from, xs, input, c)
  <1>1. PICK pos \in Nat : pos = from + b
    OBVIOUS
  <1>2. pos = from + (b + 1) - 1
    BY <1>1
  <1>3. PICK e : e = KeyValue(m, li, pos, xs[b + 1], input)
    OBVIOUS
  <1>4. /\ CachesType(r.cache) /\ ~r.failed /\ c[li].filled \in Nat /\ r.cache[li].filled \in Nat
        /\ r.cache[li].filled = ReachAll(c[li].filled, pos)
    BY <1>1 DEF StoredTo, CachesType, CacheType
  <1>5. pos <= r.cache[li].filled /\ pos < MaxCtx
    BY <1>1, <1>4 DEF ReachAll
  <1>6. PICK w : w = [r.cache EXCEPT ![li] = Store(r.cache[li], pos, MaxCtx, e)]
    OBVIOUS
  <1>7. PutAt(w, r.cache, li, pos, e)
    BY <1>4, <1>5, <1>6, PutFacts
  <1>8. PICK d : d = StoreOne(m, li, from, xs, input, r, b + 1)
    OBVIOUS
  <1>9. d = [r EXCEPT !.cache = w]
    BY <1>2, <1>3, <1>4, <1>5, <1>6, <1>8 DEF StoreOne, StoreAllowed, StoreIf
  <1>10. "cache" \in DOMAIN d /\ d.cache = w
    BY <1>9 DEF StoredTo
  <1>11. d.failed = FALSE
    BY <1>9 DEF StoredTo
  <1>12. /\ CachesType(w) /\ w[li].data[pos] = e
         /\ w[li].filled = Reach(r.cache[li].filled, pos)
         /\ \A p \in 0 .. r.cache[li].filled - 1 : p # pos => w[li].data[p] = r.cache[li].data[p]
         /\ \A lj \in 0 .. NumLayers - 1 : lj # li => w[lj] = r.cache[lj]
    BY <1>7 DEF PutAt
  <1>13. w[li].filled = ReachAll(c[li].filled, from + (b + 1))
    BY <1>1, <1>4, <1>12 DEF Reach, ReachAll
  <1>14. \A p \in 0 .. pos - 1 : w[li].data[p] = r.cache[li].data[p]
    BY <1>4, <1>5, <1>12
  <1>15. \A p \in 0 .. from - 1 : w[li].data[p] = c[li].data[p]
    <2> TAKE p \in 0 .. from - 1
    <2>1. p \in 0 .. pos - 1
      BY <1>1
    <2> QED BY <1>14, <2>1 DEF StoredTo
  <1>16. \A i \in 1 .. b + 1 :
           w[li].data[from + i - 1] = KeyValue(m, li, from + i - 1, xs[i], input)
    <2> TAKE i \in 1 .. b + 1
    <2>1. CASE i = b + 1
      BY <1>2, <1>3, <1>12, <2>1
    <2>2. CASE i # b + 1
      <3>1. i \in 1 .. b /\ from + i - 1 \in 0 .. pos - 1
        BY <1>1, <2>2
      <3> QED BY <1>14, <3>1 DEF StoredTo
    <2> QED BY <2>1, <2>2
  <1>17. \A lj \in 0 .. NumLayers - 1 : lj # li => w[lj] = c[lj]
    BY <1>12 DEF StoredTo
  <1>18. StoredTo(b + 1, d, m, li, from, xs, input, c)
    BY <1>10, <1>11, <1>12, <1>13, <1>15, <1>16, <1>17 DEF StoredTo
  <1> QED BY <1>8, <1>18

(* After the loop all of the batch's entries are stored, and nothing failed.*)
LEMMA StoreAllFacts ==
    ASSUME NEW m, NEW li \in 0 .. NumLayers - 1, NEW from \in Nat, NEW xs, NEW n \in Nat, Len(xs) = n,
           NEW input, NEW c, CachesType(c), from <= c[li].filled, from + n <= MaxCtx
    PROVE  StoredTo(n, StoreAll(m, li, from, xs, input, c), m, li, from, xs, input, c)
  <1>1. PICK f : f = CHOOSE g : StoreRec(g, m, li, from, xs, input, c, n)
    OBVIOUS
  <1>2. StoreRec(f, m, li, from, xs, input, c, n)
    BY <1>1, StoreExists
  <1>3. StoreAll(m, li, from, xs, input, c) = f[n]
    BY <1>1 DEF StoreAll, StoreRec, StoreOne
  <1> DEFINE T == {b \in 0 .. n : StoredTo(b, f[b], m, li, from, xs, input, c)}
  <1>4. 0 \in T
    <2>1. f[0] = [cache |-> c, failed |-> FALSE]
      BY <1>2 DEF StoreRec
    <2>2. f[0].failed = FALSE
      BY <2>1
    <2>3. f[0].cache = c /\ "cache" \in DOMAIN f[0]
      BY <2>1
    <2>4. c[li].filled = ReachAll(c[li].filled, from + 0)
      <3>1. c[li].filled \in Nat
        BY DEF CachesType, CacheType
      <3> QED BY <3>1 DEF ReachAll
    <2>5. StoredTo(0, f[0], m, li, from, xs, input, c)
      BY <2>2, <2>3, <2>4 DEF StoredTo
    <2> QED BY <2>5
  <1>5. ASSUME NEW k \in 1 .. n, k - 1 \in T PROVE k \in T
    <2>1. PICK b \in Nat : k = b + 1 /\ b = k - 1 /\ b \in 0 .. n - 1
      OBVIOUS
    <2>2. PICK r, d : r = f[b] /\ d = f[k]
      OBVIOUS
    <2>3. StoredTo(b, f[b], m, li, from, xs, input, c)
      BY <1>5, <2>1
    <2>4. StoredTo(b, r, m, li, from, xs, input, c)
      BY <2>2, <2>3
    <2>5. d = StoreOne(m, li, from, xs, input, r, b + 1)
      <3>1. k \in 0 .. n /\ k # 0
        OBVIOUS
      <3>2. f[k] = StoreOne(m, li, from, xs, input, f[k - 1], k)
        BY <1>2, <3>1 DEF StoreRec
      <3> QED BY <2>1, <2>2, <3>2
    <2>6. from + b < MaxCtx
      BY <2>1, InferenceAssumption
    <2>7. StoredTo(b + 1, d, m, li, from, xs, input, c)
      BY <2>4, <2>5, <2>6, StoreOneFacts
    <2>8. StoredTo(k, f[k], m, li, from, xs, input, c)
      BY <2>1, <2>2, <2>7
    <2> QED BY <2>8
  <1>6. n \in T
    <2>1. \A k \in 0 .. n : k \in T
      <3> HIDE DEF T
      <3> QED BY <1>4, <1>5, Climb
    <2>2. n \in 0 .. n
      OBVIOUS
    <2> HIDE DEF T
    <2> QED BY <2>1, <2>2
  <1>7. StoredTo(n, f[n], m, li, from, xs, input, c)
    BY <1>6
  <1> QED BY <1>3, <1>7

-----------------------------------------------------------------------------
(* One layer of a batch.  What the converter writes has no experts with      *)
(* biases, so that the two ways of adding the last bias agree.               *)
LEMMA BatchMlpSame ==
    ASSUME NEW m \in Models, Convertible(m), NEW li, NEW x, NEW y
    PROVE  BatchMlp(m, li, x, y) = MlpBlock(m, li, x, y)
  <1>1. m.experts \in Nat
    BY InferenceAssumption
  <1>2. CASE m.experts = 0
    BY <1>2 DEF BatchMlp, MlpBlock, Swiglu
  <1>3. CASE m.experts # 0
    <2>1. m.experts > 0 /\ m.biases = {}
      BY <1>1, <1>3 DEF Convertible
    <2> QED BY <2>1 DEF BatchMlp, AddBias
  <1> QED BY <1>2, <1>3

AfterOf(m, li, from, norms, state, stored) ==
    Whole([b \in DOMAIN state.hidden |->
             VecAdd(state.hidden[b], Normed(norms.afterAttn,
               AddBias(m, li, 3, Matvec(li, 0, 3,
                 BatchAttend(m, from + b - 1, from + Len(state.hidden) - 1,
                             Query(m, li, from + b - 1, Normed(norms.beforeAttn, Input)),
                             stored.cache[li].data)))))])

HiddenOf(m, li, norms, state, after) ==
    Whole([b \in DOMAIN state.hidden |->
             VecAdd(after[b], Normed(norms.afterMlp,
               BatchMlp(m, li, after[b], Normed(norms.beforeMlp, Input))))])

BatchDone(next, m, li, from, n, state, stored) ==
    /\ next.failed = FALSE
    /\ next.cache = stored.cache
    /\ Lined(next.hidden, n)
    /\ \A b \in 1 .. n :
          next.hidden[b] = Through(m, li, from + b - 1, state.hidden[b], stored.cache[li].data)

LEMMA BatchLayerFacts ==
    ASSUME NEW m \in Models, Convertible(m), NEW li \in 0 .. NumLayers - 1, NEW from \in Nat,
           NEW n \in Nat, NEW state, Lined(state.hidden, n), ~state.failed,
           NEW stored, stored = StoreAll(m, li, from, state.hidden, Before(m, li, 0), state.cache),
           ~stored.failed
    PROVE  BatchDone(BatchLayer(m, li, from, state), m, li, from, n, state, stored)
  <1>1. PICK norms : norms = NormPlacement(m, li)
    OBVIOUS
  <1>2. /\ Normed(norms.beforeAttn, Input) = Before(m, li, 0)
        /\ Normed(norms.beforeMlp, Input) = Before(m, li, 1)
        /\ \A x, b : /\ VecAdd(x, Normed(norms.afterAttn, b)) = Around(m, li, 0, x, b)
                     /\ VecAdd(x, Normed(norms.afterMlp, b)) = Around(m, li, 1, x, b)
    BY <1>1, NormsAround
  <1>3. PICK kv : kv = stored.cache[li].data
    OBVIOUS
  <1>4. PICK xs : xs = state.hidden
    OBVIOUS
  <1>5. DOMAIN xs = 1 .. n
    BY <1>4 DEF Lined
  <1>6. PICK mid : mid = [b \in 1 .. n |-> Entered(m, li, from + b - 1, xs[b], kv)]
    OBVIOUS
  <1>7. PICK z : z = [b \in 1 .. n |-> Left(m, li, mid[b])]
    OBVIOUS
  <1>8. Whole(mid) = mid /\ Whole(z) = z /\ Len(z) = n
    BY <1>6, <1>7, WholeFacts
  <1>9. PICK attn : attn = [b \in 1 .. n |-> AddBias(m, li, 3, Matvec(li, 0, 3,
                              Attend(m, from + b - 1, Query(m, li, from + b - 1, Before(m, li, 0)), kv)))]
    OBVIOUS
  <1>10. mid = [b \in 1 .. n |-> VecAdd(xs[b], Normed(norms.afterAttn, attn[b]))]
    BY <1>2, <1>6, <1>9 DEF Entered
  <1>11. z = [b \in 1 .. n |-> VecAdd(mid[b], Normed(norms.afterMlp,
                                 BatchMlp(m, li, mid[b], Before(m, li, 1))))]
    BY <1>2, <1>7, BatchMlpSame DEF Left
  <1>12. mid = AfterOf(m, li, from, norms, state, stored)
    BY <1>2, <1>3, <1>4, <1>5, <1>8, <1>9, <1>10 DEF BatchAttend, AfterOf
  <1>13. z = HiddenOf(m, li, norms, state, mid)
    BY <1>2, <1>4, <1>5, <1>8, <1>11 DEF HiddenOf
  <1>14. BatchLayer(m, li, from, state) = [hidden |-> z, cache |-> stored.cache, failed |-> FALSE]
    <2>1. stored = StoreAll(m, li, from, state.hidden,
                            Normed(NormPlacement(m, li).beforeAttn, Input), state.cache)
      BY <1>1, <1>2
    <2>2. BatchLayer(m, li, from, state)
            = LET places == NormPlacement(m, li)
                  store == StoreAll(m, li, from, state.hidden, Normed(places.beforeAttn, Input), state.cache)
              IN  IF state.failed \/ store.failed
                  THEN [state EXCEPT !.failed = TRUE]
                  ELSE [ hidden |-> HiddenOf(m, li, places, state, AfterOf(m, li, from, places, state, store)),
                         cache |-> store.cache, failed |-> FALSE ]
      BY DEF BatchLayer, HiddenOf, AfterOf
    <2>3. BatchLayer(m, li, from, state)
            = [ hidden |-> HiddenOf(m, li, norms, state, AfterOf(m, li, from, norms, state, stored)),
                cache |-> stored.cache, failed |-> FALSE ]
      BY <1>1, <2>1, <2>2
    <2> QED BY <1>12, <1>13, <2>3
  <1>15. PICK next : next = [hidden |-> z, cache |-> stored.cache, failed |-> FALSE]
    OBVIOUS
  <1>16. next.hidden = z /\ next.cache = stored.cache
    BY <1>15
  <1>17. next.failed = FALSE
    BY <1>15
  <1>18. \A b \in 1 .. n : z[b] = Through(m, li, from + b - 1, state.hidden[b], stored.cache[li].data)
    BY <1>3, <1>4, <1>6, <1>7 DEF Through
  <1>19. Lined(z, n)
    BY <1>7, <1>8 DEF Lined
  <1>20. BatchDone(next, m, li, from, n, state, stored)
    BY <1>16, <1>17, <1>18, <1>19 DEF BatchDone
  <1> QED BY <1>14, <1>15, <1>20

-----------------------------------------------------------------------------
(* A batch through all layers. *)
BatchRec(f, m, hs, from, c, n) ==
    f = [k \in 0 .. n |-> IF k = 0 THEN [hidden |-> hs, cache |-> c, failed |-> FALSE]
                          ELSE BatchLayer(m, k - 1, from, f[k - 1])]

(* The recursive equation of a batch has a solution.                        *)
LEMMA BatchExists ==
    ASSUME NEW m, NEW hs, NEW from, NEW c, NEW n \in Nat
    PROVE  \E f : BatchRec(f, m, hs, from, c, n)
  <1> DEFINE T == {k \in 0 .. n : \E f : BatchRec(f, m, hs, from, c, k)}
  <1>1. 0 \in T
    <2>1. PICK f : f = [k \in 0 .. 0 |-> [hidden |-> hs, cache |-> c, failed |-> FALSE]]
      OBVIOUS
    <2>2. BatchRec(f, m, hs, from, c, 0)
      BY <2>1 DEF BatchRec
    <2> QED BY <2>2
  <1>2. ASSUME NEW k \in 1 .. n, k - 1 \in T PROVE k \in T
    <2>1. PICK f : BatchRec(f, m, hs, from, c, k - 1)
      BY <1>2
    <2>2. PICK g : g = [i \in 0 .. k |-> IF i = k THEN BatchLayer(m, k - 1, from, f[k - 1]) ELSE f[i]]
      OBVIOUS
    <2>3. \A i \in 0 .. k :
             g[i] = IF i = 0 THEN [hidden |-> hs, cache |-> c, failed |-> FALSE]
                    ELSE BatchLayer(m, i - 1, from, g[i - 1])
      <3> TAKE i \in 0 .. k
      <3>1. i # 0 => i - 1 \in 0 .. k - 1 /\ g[i - 1] = f[i - 1]
        BY <2>2
      <3>2. CASE i = k
        BY <2>2, <3>1, <3>2
      <3>3. CASE i # k
        <4>1. i \in 0 .. k - 1 /\ g[i] = f[i]
          BY <2>2, <3>3
        <4> QED BY <2>1, <3>1, <4>1 DEF BatchRec
      <3> QED BY <3>2, <3>3
    <2>4. g = [i \in 0 .. k |-> g[i]]
      BY <2>2
    <2>5. BatchRec(g, m, hs, from, c, k)
      BY <2>3, <2>4 DEF BatchRec
    <2> QED BY <2>5
  <1>3. \A k \in 0 .. n : k \in T
    BY <1>1, <1>2, Climb
  <1> QED BY <1>3

(* After k layers of a batch of the n tokens of s behind `from`. *)
BatchAt(k, r, m, s, from, n, c) ==
    /\ r.failed = FALSE
    /\ Lined(r.hidden, n)
    /\ \A b \in 1 .. n : r.hidden[b] = Streams(m, s)[k][from + b]
    /\ CachesType(r.cache)
    /\ \A li \in 0 .. NumLayers - 1 :
          IF li < k
          THEN /\ Holds(m, s, from + n, r.cache, li)
               /\ r.cache[li].filled = ReachAll(c[li].filled, from + n)
          ELSE r.cache[li] = c[li]

LEMMA BatchStep ==
    ASSUME NEW m \in Models, Convertible(m), NEW s \in Seq(Token), NEW from \in Nat, NEW n \in Nat,
           from + n <= Len(s), from + n <= MaxCtx,
           NEW c, \A li \in 0 .. NumLayers - 1 : Holds(m, s, from, c, li),
           NEW li \in 0 .. NumLayers - 1, NEW r, BatchAt(li, r, m, s, from, n, c)
    PROVE  BatchAt(li + 1, BatchLayer(m, li, from, r), m, s, from, n, c)
  <1>1. PICK f : f = Streams(m, s)
    OBVIOUS
  <1>2. PICK len \in Nat : len = Len(s)
    OBVIOUS
  <1>3. StreamsOf(f, m, s, len)
    BY <1>1, <1>2, StreamsFacts
  <1>4. PICK xs : xs = r.hidden
    OBVIOUS
  <1>5. PICK input : input = Before(m, li, 0)
    OBVIOUS
  <1>6. /\ Len(xs) = n /\ Lined(r.hidden, n) /\ r.cache[li] = c[li] /\ CachesType(r.cache)
        /\ ~r.failed /\ from <= c[li].filled /\ c[li].filled \in Nat
    <2>1. Lined(r.hidden, n) /\ r.cache[li] = c[li] /\ CachesType(r.cache) /\ ~r.failed
      BY DEF BatchAt
    <2>2. Len(xs) = n
      BY <1>4, <2>1 DEF Lined
    <2>3. from <= c[li].filled
      BY DEF Holds
    <2>4. c[li].filled \in Nat
      BY <2>1 DEF CachesType, CacheType
    <2> QED BY <2>1, <2>2, <2>3, <2>4
  <1>7. PICK stored : stored = StoreAll(m, li, from, xs, input, r.cache)
    OBVIOUS
  <1>8. StoredTo(n, stored, m, li, from, xs, input, r.cache)
    <2>1. from <= r.cache[li].filled
      BY <1>6
    <2> QED BY <1>6, <1>7, <2>1, StoreAllFacts
  <1>9. ~stored.failed
    BY <1>8 DEF StoredTo
  <1>10. PICK d : d = BatchLayer(m, li, from, r)
    OBVIOUS
  <1>11. BatchDone(d, m, li, from, n, r, stored)
    BY <1>4, <1>5, <1>6, <1>7, <1>9, <1>10, BatchLayerFacts
  <1>12. d.failed = FALSE /\ d.cache = stored.cache /\ Lined(d.hidden, n)
    BY <1>11 DEF BatchDone
  <1>13. /\ CachesType(d.cache)
         /\ d.cache[li].filled = ReachAll(c[li].filled, from + n)
         /\ \A lj \in 0 .. NumLayers - 1 : lj # li => d.cache[lj] = r.cache[lj]
    BY <1>6, <1>8, <1>12 DEF StoredTo
  <1>14. from + n <= d.cache[li].filled
    BY <1>6, <1>13 DEF ReachAll
  <1>15. \A p \in 0 .. from + n - 1 : d.cache[li].data[p] = Entry(m, f[li], li, p)
    <2> TAKE p \in 0 .. from + n - 1
    <2>1. CASE p < from
      <3>1. p \in 0 .. from - 1
        BY <2>1
      <3>2. d.cache[li].data[p] = c[li].data[p]
        BY <1>6, <1>8, <1>12, <3>1 DEF StoredTo
      <3>3. c[li].data[p] = Entry(m, f[li], li, p)
        BY <1>1, <3>1 DEF Holds
      <3> QED BY <3>2, <3>3
    <2>2. CASE ~(p < from)
      <3>1. PICK i \in 1 .. n : p = from + i - 1
        <4>1. p - from + 1 \in 1 .. n /\ p = from + (p - from + 1) - 1
          BY <2>2
        <4> QED BY <4>1
      <3>2. d.cache[li].data[p] = KeyValue(m, li, p, xs[i], input)
        BY <1>8, <1>12, <3>1 DEF StoredTo
      <3>3. xs[i] = f[li][from + i]
        BY <1>1, <1>4 DEF BatchAt
      <3>4. from + i = p + 1
        BY <3>1
      <3> QED BY <1>5, <3>2, <3>3, <3>4 DEF Entry
    <2> QED BY <2>1, <2>2
  <1>16. Holds(m, s, from + n, d.cache, li)
    BY <1>1, <1>14, <1>15 DEF Holds
  <1>17. ASSUME NEW b \in 1 .. n
         PROVE  d.hidden[b] = f[li + 1][from + b]
    <2>1. PICK pos \in Nat : pos = from + b - 1 /\ pos + 1 = from + b /\ pos <= from + n - 1
      <3>1. from + b - 1 \in Nat
        OBVIOUS
      <3> QED BY <3>1
    <2>2. d.hidden[b] = Through(m, li, pos, f[li][pos + 1], d.cache[li].data)
      BY <1>1, <1>11, <1>12, <2>1 DEF BatchDone, BatchAt
    <2>3. \A p \in 0 .. pos : d.cache[li].data[p] = Entries(m, li, f[li])[p]
      <3> TAKE p \in 0 .. pos
      <3>1. Len(f[li]) = len
        <4>1. li \in 0 .. NumLayers
          BY InferenceAssumption
        <4> QED BY <1>3, <4>1 DEF StreamsOf, Lined
      <3>2. p \in 0 .. Len(f[li]) - 1 /\ p \in 0 .. from + n - 1
        BY <1>2, <2>1, <3>1
      <3> QED BY <1>15, <3>2 DEF Entries
    <2>4. Through(m, li, pos, f[li][pos + 1], d.cache[li].data)
            = Through(m, li, pos, f[li][pos + 1], Entries(m, li, f[li]))
      BY <2>3, AttendSame
    <2>5. pos + 1 \in 1 .. len /\ (pos + 1) - 1 = pos
      BY <1>2, <2>1
    <2>6. f[li + 1][pos + 1] = Through(m, li, (pos + 1) - 1, f[li][pos + 1], Entries(m, li, f[li]))
      BY <1>3, <2>5 DEF StreamsOf
    <2> QED BY <2>1, <2>2, <2>4, <2>5, <2>6
  <1>18. ASSUME NEW lj \in 0 .. NumLayers - 1
         PROVE  IF lj < li + 1
                THEN /\ Holds(m, s, from + n, d.cache, lj)
                     /\ d.cache[lj].filled = ReachAll(c[lj].filled, from + n)
                ELSE d.cache[lj] = c[lj]
    <2>1. CASE lj = li
      BY <1>13, <1>16, <2>1
    <2>2. CASE lj < li
      <3>1. Holds(m, s, from + n, r.cache, lj) /\ r.cache[lj].filled = ReachAll(c[lj].filled, from + n)
        BY <2>2 DEF BatchAt
      <3>2. d.cache[lj] = r.cache[lj]
        BY <1>13, <2>2
      <3> QED BY <2>2, <3>1, <3>2 DEF Holds
    <2>3. CASE lj > li
      BY <1>13, <2>3 DEF BatchAt
    <2> QED BY <2>1, <2>2, <2>3
  <1>19. BatchAt(li + 1, d, m, s, from, n, c)
    BY <1>1, <1>12, <1>13, <1>17, <1>18 DEF BatchAt
  <1> QED BY <1>10, <1>19

(* A batch ends where the reference does, at each of its positions.         *)
LEMMA BatchIsReference ==
    ASSUME NEW m \in Models, Convertible(m), NEW s \in Seq(Token), NEW from \in Nat, NEW n \in Nat,
           from + n <= Len(s), from + n <= MaxCtx,
           n # 0, NEW c, CachesType(c), \A li \in 0 .. NumLayers - 1 : Holds(m, s, from, c, li),
           NEW hs, Lined(hs, n), \A b \in 1 .. n : hs[b] = Embed(m, s[from + b])
    PROVE  BatchAt(NumLayers, ForwardBatch(m, hs, from, c), m, s, from, n, c)
  <1>1. NumLayers \in Nat
    BY InferenceAssumption
  <1>2. PICK f : f = CHOOSE g : BatchRec(g, m, hs, from, c, NumLayers)
    OBVIOUS
  <1>3. BatchRec(f, m, hs, from, c, NumLayers)
    BY <1>1, <1>2, BatchExists
  <1>4. ForwardBatch(m, hs, from, c) = f[NumLayers]
    <2>1. n \in 1 .. MaxCtx - from
      BY InferenceAssumption
    <2>2. Len(hs) \in 1 .. MaxCtx - from
      BY <2>1 DEF Lined
    <2> QED BY <1>2, <2>2 DEF ForwardBatch, BatchRec
  <1> DEFINE T == {k \in 0 .. NumLayers : BatchAt(k, f[k], m, s, from, n, c)}
  <1>5. 0 \in T
    <2>1. StreamsOf(Streams(m, s), m, s, Len(s))
      BY StreamsFacts
    <2>2. \A b \in 1 .. n : hs[b] = Streams(m, s)[0][from + b]
      <3> TAKE b \in 1 .. n
      <3>1. from + b \in 1 .. Len(s)
        OBVIOUS
      <3> QED BY <2>1, <3>1 DEF StreamsOf
    <2>3. f[0] = [hidden |-> hs, cache |-> c, failed |-> FALSE]
      BY <1>1, <1>3 DEF BatchRec
    <2>4. f[0].hidden = hs /\ f[0].cache = c
      BY <2>3
    <2>5. f[0].failed = FALSE
      BY <2>3
    <2>6. BatchAt(0, f[0], m, s, from, n, c)
      BY <2>2, <2>4, <2>5 DEF BatchAt
    <2> QED BY <1>1, <2>6
  <1>6. ASSUME NEW k \in 1 .. NumLayers, k - 1 \in T PROVE k \in T
    <2>1. PICK li \in 0 .. NumLayers - 1 : k = li + 1 /\ li = k - 1
      BY <1>1
    <2>2. PICK r, d : r = f[li] /\ d = f[k]
      OBVIOUS
    <2>3. BatchAt(li, f[li], m, s, from, n, c)
      BY <1>6, <2>1
    <2>4. BatchAt(li, r, m, s, from, n, c)
      BY <2>2, <2>3
    <2>5. d = BatchLayer(m, li, from, r)
      <3>1. k \in 0 .. NumLayers /\ k # 0
        OBVIOUS
      <3>2. f[k] = BatchLayer(m, k - 1, from, f[k - 1])
        BY <1>3, <3>1 DEF BatchRec
      <3> QED BY <2>1, <2>2, <3>2
    <2>6. BatchAt(li + 1, d, m, s, from, n, c)
      BY <2>4, <2>5, BatchStep
    <2>7. BatchAt(k, f[k], m, s, from, n, c)
      BY <2>1, <2>2, <2>6
    <2> QED BY <2>7
  <1>7. NumLayers \in T
    <2>1. \A k \in 0 .. NumLayers : k \in T
      <3> HIDE DEF T
      <3> QED BY <1>1, <1>5, <1>6, Climb
    <2> HIDE DEF T
    <2> QED BY <1>1, <2>1
  <1>8. BatchAt(NumLayers, f[NumLayers], m, s, from, n, c)
    BY <1>7
  <1> QED BY <1>4, <1>8

-----------------------------------------------------------------------------
(* Pondering.  A sound result has made some passes, none failed, and the     *)
(* cache is d: the one the first pass left.                                  *)
Sound(r, d, made) ==
    /\ DOMAIN r = {"logits", "cache", "failed", "made", "reported"}
    /\ r.failed = FALSE /\ r.cache = d /\ r.made = made

MadeOf(r, d, made, logits, reported) ==
    Sound(r, d, made) /\ r.logits = logits /\ r.reported = reported

LEMMA MadeFacts ==
    ASSUME NEW r, NEW c, NEW k \in Nat, Sound(r, c, k), NEW pass, NEW d, ProbeDone(pass, d), NEW logits
    PROVE  MadeOf(Made(r, pass, logits), d, k + 1, logits, r.reported)
  <1>1. PICK q : q = Made(r, pass, logits)
    OBVIOUS
  <1>2. q = [ r EXCEPT !.logits = logits, !.cache = pass.cache,
                       !.failed = r.failed \/ pass.failed, !.made = r.made + 1 ]
    BY <1>1 DEF Made
  <1>3. DOMAIN q = {"logits", "cache", "failed", "made", "reported"}
    BY <1>2 DEF Sound
  <1>4. q.logits = logits /\ q.cache = d /\ q.reported = r.reported /\ q.made = k + 1
    BY <1>2 DEF Sound, ProbeDone
  <1>5. q.failed = FALSE
    BY <1>2 DEF Sound, ProbeDone
  <1>6. MadeOf(q, d, k + 1, logits, r.reported)
    BY <1>3, <1>4, <1>5 DEF Sound, MadeOf
  <1> QED BY <1>1, <1>6

(* Setting the report leaves the rest of a result, and taking the mean all   *)
(* but its logits.                                                           *)
LEMMA ReportFacts ==
    ASSUME NEW r, NEW d, NEW k, Sound(r, d, k), NEW n
    PROVE  /\ MadeOf([r EXCEPT !.reported = n], d, k, r.logits, n)
           /\ MadeOf(Mean(r, n), d, k, <<"mean", n, r.logits>>, r.reported)
  BY DEF Sound, Mean, MadeOf

(* The first pass. *)
CleanDone(r, d, ref) == Sound(r, d, 1) /\ r.reported = 1 /\ r.logits = ref

LEMMA CleanPassFacts ==
    ASSUME NEW m, NEW token, NEW pos, NEW c, NEW pass,
           pass = ForwardFromHidden(m, Embed(m, token), pos, c, TRUE), pass.failed = FALSE
    PROVE  CleanDone(CleanPass(m, token, pos, c), pass.cache, Logits(m, pass.hidden))
  <1>1. PICK r : r = [ logits |-> <<>>, cache |-> c, failed |-> FALSE, made |-> 0, reported |-> 1 ]
    OBVIOUS
  <1>2. Sound(r, c, 0) /\ r.reported = 1
    BY <1>1 DEF Sound
  <1>3. PICK d : d = pass.cache
    OBVIOUS
  <1>4. ProbeDone(pass, d)
    BY <1>3 DEF ProbeDone
  <1>5. PICK q : q = Made(r, pass, Logits(m, pass.hidden))
    OBVIOUS
  <1>6. Sound(q, d, 1) /\ q.logits = Logits(m, pass.hidden) /\ q.reported = 1
    <2>1. PICK k \in Nat : k = 0
      OBVIOUS
    <2>2. Sound(r, c, k) /\ k + 1 = 1
      BY <1>2, <2>1
    <2>3. PICK logits : logits = Logits(m, pass.hidden)
      OBVIOUS
    <2>4. MadeOf(q, d, k + 1, logits, r.reported)
      BY <1>4, <1>5, <2>2, <2>3, MadeFacts
    <2> QED BY <1>2, <2>2, <2>3, <2>4 DEF MadeOf
  <1>7. CleanPass(m, token, pos, c) = q
    BY <1>1, <1>5 DEF CleanPass
  <1> QED BY <1>3, <1>6, <1>7 DEF CleanDone

(* The further passes: a null token's, and noisy ones. *)
LEMMA GuideFacts ==
    ASSUME NEW m, NEW s, NEW pos \in Nat, NEW d, Probed(m, s, d, pos),
           NEW r, NEW k \in Nat, Sound(r, d, k)
    PROVE  MadeOf(Guide(m, r, pos), d, k + 1, Contrasted(m, s, r.logits), r.reported)
  <1>1. PICK h : h = Embed(m, NullToken)
    OBVIOUS
  <1>2. r.cache = d
    BY DEF Sound
  <1>3. ProbeSees(ForwardFromHidden(m, h, pos, d, FALSE), m, s, d, h)
    BY ProbeReads
  <1>4. PICK pass : pass = Probe(m, r, h, pos)
    OBVIOUS
  <1>5. ProbeDone(pass, d) /\ Logits(m, pass.hidden) = ProbeReference(m, s, h)
    BY <1>2, <1>3, <1>4 DEF Probe, ProbeSees
  <1>6. PICK logits : logits = <<"guided", Logits(m, pass.hidden), r.logits>>
    OBVIOUS
  <1>7. PICK q : q = Made(r, pass, logits)
    OBVIOUS
  <1>8. MadeOf(q, d, k + 1, logits, r.reported)
    BY <1>5, <1>7, MadeFacts
  <1>9. Guide(m, r, pos) = q
    BY <1>1, <1>4, <1>6, <1>7 DEF Guide
  <1>10. logits = Contrasted(m, s, r.logits)
    BY <1>1, <1>5, <1>6 DEF Contrasted
  <1> QED BY <1>8, <1>9, <1>10

NoiseOne(m, token, sum, i, pos) ==
    LET pass == Probe(m, sum, Noisy(i, Embed(m, token)), pos)
    IN  Made(sum, pass, <<"sum", sum.logits, Logits(m, pass.hidden)>>)

NoiseRec(f, m, token, before, pos, n) ==
    f = [i \in 0 .. n |-> IF i = 0 THEN before ELSE NoiseOne(m, token, f[i - 1], i, pos)]

(* The recursive equation of the noise loop has a solution.                 *)
LEMMA NoiseExists ==
    ASSUME NEW m, NEW token, NEW before, NEW pos, NEW n \in Nat
    PROVE  \E f : NoiseRec(f, m, token, before, pos, n)
  <1> DEFINE T == {k \in 0 .. n : \E f : NoiseRec(f, m, token, before, pos, k)}
  <1>1. 0 \in T
    <2>1. PICK f : f = [k \in 0 .. 0 |-> before]
      OBVIOUS
    <2>2. NoiseRec(f, m, token, before, pos, 0)
      BY <2>1 DEF NoiseRec
    <2> QED BY <2>2
  <1>2. ASSUME NEW k \in 1 .. n, k - 1 \in T PROVE k \in T
    <2>1. PICK f : NoiseRec(f, m, token, before, pos, k - 1)
      BY <1>2
    <2>2. PICK g : g = [i \in 0 .. k |-> IF i = k THEN NoiseOne(m, token, f[k - 1], k, pos) ELSE f[i]]
      OBVIOUS
    <2>3. \A i \in 0 .. k :
             g[i] = IF i = 0 THEN before ELSE NoiseOne(m, token, g[i - 1], i, pos)
      <3> TAKE i \in 0 .. k
      <3>1. i # 0 => i - 1 \in 0 .. k - 1 /\ g[i - 1] = f[i - 1]
        BY <2>2
      <3>2. CASE i = k
        BY <2>2, <3>1, <3>2
      <3>3. CASE i # k
        <4>1. i \in 0 .. k - 1 /\ g[i] = f[i]
          BY <2>2, <3>3
        <4> QED BY <2>1, <3>1, <4>1 DEF NoiseRec
      <3> QED BY <3>2, <3>3
    <2>4. g = [i \in 0 .. k |-> g[i]]
      BY <2>2
    <2>5. NoiseRec(g, m, token, before, pos, k)
      BY <2>3, <2>4 DEF NoiseRec
    <2> QED BY <2>5
  <1>3. \A k \in 0 .. n : k \in T
    BY <1>1, <1>2, Climb
  <1> QED BY <1>3

LEMMA NoiseOneFacts ==
    ASSUME NEW m, NEW s, NEW token, NEW pos \in Nat, NEW d, Probed(m, s, d, pos),
           NEW r, NEW k \in Nat, Sound(r, d, k), NEW i, NEW x, x = Noisy(i, Embed(m, token))
    PROVE  MadeOf(NoiseOne(m, token, r, i, pos), d, k + 1,
                  <<"sum", r.logits, ProbeReference(m, s, x)>>, r.reported)
  <1>1. r.cache = d
    BY DEF Sound
  <1>2. ProbeSees(ForwardFromHidden(m, x, pos, d, FALSE), m, s, d, x)
    BY ProbeReads
  <1>3. PICK pass : pass = Probe(m, r, x, pos)
    OBVIOUS
  <1>4. ProbeDone(pass, d) /\ Logits(m, pass.hidden) = ProbeReference(m, s, x)
    BY <1>1, <1>2, <1>3 DEF Probe, ProbeSees
  <1>5. PICK logits : logits = <<"sum", r.logits, Logits(m, pass.hidden)>>
    OBVIOUS
  <1>6. PICK q : q = Made(r, pass, logits)
    OBVIOUS
  <1>7. MadeOf(q, d, k + 1, logits, r.reported)
    BY <1>4, <1>6, MadeFacts
  <1>8. NoiseOne(m, token, r, i, pos) = q
    BY <1>3, <1>5, <1>6 DEF NoiseOne
  <1>9. logits = <<"sum", r.logits, ProbeReference(m, s, x)>>
    BY <1>4, <1>5
  <1> QED BY <1>7, <1>8, <1>9

(* The sums of the reference's noisy logits. *)
SumRec(f, m, s, n) ==
    f = [i \in 0 .. n |->
           IF i = 0 THEN Reference(m, s)[Len(s)]
           ELSE <<"sum", f[i - 1], ProbeReference(m, s, Noisy(i, Embed(m, s[Len(s)])))>>]

(* Their recursive equation has a solution.                                  *)
LEMMA SumExists ==
    ASSUME NEW m, NEW s, NEW n \in Nat
    PROVE  \E f : SumRec(f, m, s, n)
  <1> DEFINE T == {k \in 0 .. n : \E f : SumRec(f, m, s, k)}
  <1> DEFINE More(k, y) == <<"sum", y, ProbeReference(m, s, Noisy(k, Embed(m, s[Len(s)])))>>
  <1> DEFINE first == Reference(m, s)[Len(s)]
  <1>1. 0 \in T
    <2>1. PICK f : f = [k \in 0 .. 0 |-> first]
      OBVIOUS
    <2>2. SumRec(f, m, s, 0)
      BY <2>1 DEF SumRec
    <2> QED BY <2>2
  <1>2. ASSUME NEW k \in 1 .. n, k - 1 \in T PROVE k \in T
    <2>1. PICK f : SumRec(f, m, s, k - 1)
      BY <1>2
    <2>2. PICK g : g = [i \in 0 .. k |-> IF i = k THEN More(k, f[k - 1]) ELSE f[i]]
      OBVIOUS
    <2>3. \A i \in 0 .. k : g[i] = IF i = 0 THEN first ELSE More(i, g[i - 1])
      <3> TAKE i \in 0 .. k
      <3>1. i # 0 => i - 1 \in 0 .. k - 1 /\ g[i - 1] = f[i - 1]
        BY <2>2
      <3>2. CASE i = k
        BY <2>2, <3>1, <3>2
      <3>3. CASE i # k
        <4>1. i \in 0 .. k - 1 /\ g[i] = f[i]
          BY <2>2, <3>3
        <4> QED BY <2>1, <3>1, <4>1 DEF SumRec
      <3> QED BY <3>2, <3>3
    <2>4. g = [i \in 0 .. k |-> g[i]]
      BY <2>2
    <2>5. SumRec(g, m, s, k)
      BY <2>3, <2>4 DEF SumRec
    <2> QED BY <2>5
  <1>3. \A k \in 0 .. n : k \in T
    <2> HIDE DEF T
    <2> QED BY <1>1, <1>2, Climb
  <1> QED BY <1>3

(* So NoisySum is the last of them.                                          *)
LEMMA SumEquation ==
    ASSUME NEW m, NEW s, NEW n \in Nat
    PROVE  \E f : SumRec(f, m, s, n) /\ NoisySum(m, s, n) = f[n]
  <1>1. PICK f : f = CHOOSE g : SumRec(g, m, s, n)
    OBVIOUS
  <1>2. SumRec(f, m, s, n)
    BY <1>1, SumExists
  <1>3. NoisySum(m, s, n) = f[n]
    BY <1>1 DEF NoisySum, SumRec
  <1> QED BY <1>2, <1>3

(* The noise loop adds up what the reference does. *)
SumAt(r, d, k, logits) == Sound(r, d, k) /\ r.logits = logits

LEMMA AddNoiseFacts ==
    ASSUME NEW m, NEW s, NEW token, token = s[Len(s)], NEW pos \in Nat, NEW d, Probed(m, s, d, pos),
           NEW r, NEW k \in Nat, SumAt(r, d, k, Reference(m, s)[Len(s)]), NEW n \in Nat
    PROVE  SumAt(AddNoise(m, token, r, n, pos), d, k + n, NoisySum(m, s, n))
  <1>1. PICK f : f = CHOOSE g : NoiseRec(g, m, token, r, pos, n)
    OBVIOUS
  <1>2. NoiseRec(f, m, token, r, pos, n)
    BY <1>1, NoiseExists
  <1>3. AddNoise(m, token, r, n, pos) = f[n]
    BY <1>1 DEF AddNoise, NoiseRec, NoiseOne
  <1>4. PICK h : SumRec(h, m, s, n) /\ NoisySum(m, s, n) = h[n]
    BY SumEquation
  <1> DEFINE T == {i \in 0 .. n : SumAt(f[i], d, k + i, h[i])}
  <1>5. 0 \in T
    <2>1. f[0] = r /\ k + 0 = k
      BY <1>2 DEF NoiseRec
    <2>2. h[0] = Reference(m, s)[Len(s)]
      BY <1>4 DEF SumRec
    <2>3. SumAt(f[0], d, k + 0, h[0])
      BY <2>1, <2>2
    <2> QED BY <2>3
  <1>6. ASSUME NEW i \in 1 .. n, i - 1 \in T PROVE i \in T
    <2>1. PICK j \in Nat : j = k + (i - 1) /\ j + 1 = k + i
      <3>1. k + (i - 1) \in Nat /\ (k + (i - 1)) + 1 = k + i
        OBVIOUS
      <3> QED BY <3>1
    <2>2. PICK q, x : q = f[i - 1] /\ x = Noisy(i, Embed(m, token))
      OBVIOUS
    <2>3. SumAt(f[i - 1], d, k + (i - 1), h[i - 1])
      BY <1>6
    <2>4. Sound(q, d, j) /\ q.logits = h[i - 1]
      BY <2>1, <2>2, <2>3 DEF SumAt
    <2>5. i \in 0 .. n /\ i # 0
      OBVIOUS
    <2>6. f[i] = NoiseOne(m, token, q, i, pos)
      BY <1>2, <2>2, <2>5 DEF NoiseRec
    <2>7. h[i] = <<"sum", h[i - 1], ProbeReference(m, s, x)>>
      BY <1>4, <2>2, <2>5 DEF SumRec
    <2>8. MadeOf(NoiseOne(m, token, q, i, pos), d, j + 1,
                 <<"sum", q.logits, ProbeReference(m, s, x)>>, q.reported)
      BY <2>2, <2>4, NoiseOneFacts
    <2>9. SumAt(f[i], d, k + i, h[i])
      BY <2>1, <2>4, <2>6, <2>7, <2>8 DEF MadeOf, SumAt
    <2> QED BY <2>9
  <1>7. n \in T
    <2>1. \A i \in 0 .. n : i \in T
      <3> HIDE DEF T
      <3> QED BY <1>5, <1>6, Climb
    <2>2. n \in 0 .. n
      OBVIOUS
    <2> HIDE DEF T
    <2> QED BY <2>1, <2>2
  <1>8. SumAt(f[n], d, k + n, h[n])
    BY <1>7
  <1> QED BY <1>3, <1>4, <1>8

(* A pondered pass that is not refused: the blend of its strategy, over the  *)
(* cache its clean pass leaves.                                              *)
BlendOf(r, d, passes, logits) ==
    Sound(r, d, passes) /\ r.reported = passes /\ r.logits = logits

PonderDone(r, d, blended) == BlendOf(r, d, blended.passes, blended.logits)

LEMMA ReportedFacts ==
    ASSUME NEW r, NEW d, NEW k, Sound(r, d, k), NEW n, n = k
    PROVE  BlendOf([r EXCEPT !.reported = n], d, k, r.logits)
  BY ReportFacts DEF Sound, BlendOf, MadeOf

(* What the strategies start from: the clean pass has stored the last token  *)
(* of s, and its logits are the reference's.                                 *)
Pondering(m, s, token, pos, c, clean, d) ==
    /\ pos \in Nat /\ Probed(m, s, d, pos) /\ token = s[Len(s)]
    /\ clean = CleanPass(m, token, pos, c) /\ CleanDone(clean, d, Reference(m, s)[Len(s)])

(* The guidance that the adaptive strategy and CFG give a clean pass.        *)
LEMMA GuidedFacts ==
    ASSUME NEW m, NEW s, NEW token, NEW pos, NEW c, NEW clean, NEW d,
           Pondering(m, s, token, pos, c, clean, d)
    PROVE  SumAt(Guide(m, clean, pos), d, 2, Contrasted(m, s, Reference(m, s)[Len(s)]))
  <1>1. Sound(clean, d, 1) /\ clean.logits = Reference(m, s)[Len(s)]
    BY DEF Pondering, CleanDone
  <1>2. PICK k \in Nat : k = 1 /\ k + 1 = 2
    OBVIOUS
  <1>3. Sound(clean, d, k) /\ pos \in Nat /\ Probed(m, s, d, pos)
    BY <1>1, <1>2 DEF Pondering
  <1>4. MadeOf(Guide(m, clean, pos), d, k + 1, Contrasted(m, s, clean.logits), clean.reported)
    BY <1>3, GuideFacts
  <1> QED BY <1>1, <1>2, <1>4 DEF MadeOf, SumAt

LEMMA AdaptiveFacts ==
    ASSUME NEW m, NEW s, NEW token, NEW pos, NEW c, NEW clean, NEW d,
           Pondering(m, s, token, pos, c, clean, d), NEW n \in Nat
    PROVE  PonderDone(ForwardAdaptive(m, token, pos, c, n), d, Blended(m, s, "adaptive", n))
  <1>1. PICK real : real = Reference(m, s)[Len(s)]
    OBVIOUS
  <1>2. /\ Sound(clean, d, 1) /\ clean.reported = 1 /\ clean.logits = real
        /\ clean = CleanPass(m, token, pos, c) /\ pos \in Nat /\ Probed(m, s, d, pos)
        /\ token = s[Len(s)]
    BY <1>1 DEF Pondering, CleanDone
  <1>3. PICK contrasted : contrasted = Contrasted(m, s, real)
    OBVIOUS
  <1>4. PICK guided : guided = Guide(m, clean, pos)
    OBVIOUS
  <1>5. Sound(guided, d, 2) /\ guided.logits = contrasted
    BY <1>1, <1>3, <1>4, GuidedFacts DEF SumAt
  <1>6. PICK x : x = Noisy(1, Embed(m, token))
    OBVIOUS
  <1>7. PICK noisy : noisy = ProbeReference(m, s, x)
    OBVIOUS
  <1>8. PICK pass : pass = Probe(m, guided, x, pos)
    OBVIOUS
  <1>9. ProbeDone(pass, d) /\ Logits(m, pass.hidden) = noisy
    <2>1. ProbeSees(ForwardFromHidden(m, x, pos, d, FALSE), m, s, d, x)
      BY <1>2, ProbeReads
    <2>2. guided.cache = d
      BY <1>5 DEF Sound
    <2> QED BY <1>7, <1>8, <2>1, <2>2 DEF Probe, ProbeSees
  <1>10. PICK logits : logits = <<"blend", guided.logits, Logits(m, pass.hidden)>>
    OBVIOUS
  <1>11. PICK q : q = Made(guided, pass, logits)
    OBVIOUS
  <1>12. Sound(q, d, 3) /\ q.logits = <<"blend", contrasted, noisy>>
    <2>1. PICK k \in Nat : k = 2 /\ k + 1 = 3
      OBVIOUS
    <2>2. Sound(guided, d, k) /\ ProbeDone(pass, d)
      BY <1>5, <1>9, <2>1
    <2>3. MadeOf(q, d, k + 1, logits, guided.reported)
      BY <1>11, <2>2, MadeFacts
    <2> QED BY <1>5, <1>9, <1>10, <2>1, <2>3 DEF MadeOf
  <1>13. PICK three : three = [q EXCEPT !.reported = 3]
    OBVIOUS
  <1>14. PICK two : two = [guided EXCEPT !.reported = 2]
    OBVIOUS
  <1>15. /\ BlendOf(three, d, 3, <<"blend", contrasted, noisy>>)
         /\ BlendOf(two, d, 2, contrasted)
         /\ BlendOf(clean, d, 1, real)
    <2>1. BlendOf(three, d, 3, q.logits) /\ BlendOf(two, d, 2, guided.logits)
      BY <1>5, <1>12, <1>13, <1>14, ReportedFacts
    <2> QED BY <1>2, <1>5, <1>12, <2>1 DEF BlendOf
  <1>16. PICK easy, unsettled : /\ easy = (Entropy(real) < Threshold)
                                /\ unsettled = (10 * Entropy(contrasted) > 8 * Threshold /\ n > 2)
    OBVIOUS
  <1>17. ForwardAdaptive(m, token, pos, c, n)
           = IF easy THEN clean ELSE IF unsettled THEN three ELSE two
    BY <1>2, <1>4, <1>5, <1>6, <1>8, <1>10, <1>11, <1>13, <1>14, <1>16 DEF ForwardAdaptive
  <1>18. PICK b : b = Blended(m, s, "adaptive", n)
    OBVIOUS
  <1>19. b = IF easy THEN [logits |-> real, passes |-> 1]
             ELSE IF unsettled THEN [logits |-> <<"blend", contrasted, noisy>>, passes |-> 3]
             ELSE [logits |-> contrasted, passes |-> 2]
    BY <1>1, <1>2, <1>3, <1>6, <1>7, <1>16, <1>18 DEF Blended
  <1>20. PonderDone(IF easy THEN clean ELSE IF unsettled THEN three ELSE two, d, b)
    BY <1>15, <1>19 DEF PonderDone
  <1> QED BY <1>17, <1>18, <1>20

LEMMA PonderedFacts ==
    ASSUME NEW m, NEW s, NEW token, NEW pos, NEW c, NEW clean, NEW d,
           Pondering(m, s, token, pos, c, clean, d), NEW n \in Nat, NEW strategy,
           strategy \in {"none", "cfg", "ensemble", "cfg+ensemble", "adaptive"}, ~Refused(strategy, n)
    PROVE  PonderDone(PonderedForward(m, token, pos, c, strategy, n), d, Blended(m, s, strategy, n))
  <1>1. PICK real : real = Reference(m, s)[Len(s)]
    OBVIOUS
  <1>2. /\ Sound(clean, d, 1) /\ clean.reported = 1 /\ clean.logits = real
        /\ clean = CleanPass(m, token, pos, c) /\ pos \in Nat /\ Probed(m, s, d, pos)
        /\ token = s[Len(s)]
    BY <1>1 DEF Pondering, CleanDone
  <1>3. PICK one \in Nat : one = 1
    OBVIOUS
  <1>4. SumAt(clean, d, one, Reference(m, s)[Len(s)])
    BY <1>1, <1>2, <1>3 DEF SumAt
  <1>5. CASE strategy = "none"
    <2>1. PonderedForward(m, token, pos, c, strategy, n) = clean
      BY <1>2, <1>5 DEF PonderedForward, ForwardStandard
    <2>2. Blended(m, s, strategy, n) = [logits |-> real, passes |-> 1]
      BY <1>1, <1>5 DEF Blended
    <2>3. BlendOf(clean, d, 1, real)
      BY <1>2 DEF BlendOf
    <2> QED BY <2>1, <2>2, <2>3 DEF PonderDone
  <1>6. CASE strategy = "cfg"
    <2>1. PICK guided : guided = Guide(m, clean, pos)
      OBVIOUS
    <2>2. Sound(guided, d, 2) /\ guided.logits = Contrasted(m, s, real)
      BY <1>1, <2>1, GuidedFacts DEF SumAt
    <2>3. PICK r : r = [guided EXCEPT !.reported = 2]
      OBVIOUS
    <2>4. BlendOf(r, d, 2, guided.logits)
      BY <2>2, <2>3, ReportedFacts
    <2>5. PonderedForward(m, token, pos, c, strategy, n) = r
      BY <1>2, <1>6, <2>1, <2>3 DEF PonderedForward, ForwardCfg
    <2>6. Blended(m, s, strategy, n) = [logits |-> Contrasted(m, s, real), passes |-> 2]
      BY <1>1, <1>6 DEF Blended
    <2> QED BY <2>2, <2>4, <2>5, <2>6 DEF PonderDone
  <1>7. CASE strategy = "ensemble"
    <2>1. PICK k \in Nat : k = n - 1 /\ one + k = n
      BY <1>3, <1>7 DEF Refused
    <2>2. PICK noisy : noisy = AddNoise(m, token, clean, k, pos)
      OBVIOUS
    <2>3. SumAt(noisy, d, n, NoisySum(m, s, k))
      <3>1. SumAt(AddNoise(m, token, clean, k, pos), d, one + k, NoisySum(m, s, k))
        BY <1>2, <1>4, AddNoiseFacts
      <3> QED BY <2>1, <2>2, <3>1
    <2>4. PICK mean : mean = Mean(noisy, n)
      OBVIOUS
    <2>5. Sound(mean, d, n) /\ mean.logits = <<"mean", n, NoisySum(m, s, k)>>
      <3>1. MadeOf(mean, d, n, <<"mean", n, noisy.logits>>, noisy.reported)
        BY <2>3, <2>4, ReportFacts DEF SumAt
      <3> QED BY <2>3, <3>1 DEF MadeOf, SumAt
    <2>6. PICK r : r = [mean EXCEPT !.reported = n]
      OBVIOUS
    <2>7. BlendOf(r, d, n, mean.logits)
      BY <2>5, <2>6, ReportedFacts
    <2>8. PonderedForward(m, token, pos, c, strategy, n) = r
      BY <1>2, <1>7, <2>1, <2>2, <2>4, <2>6 DEF PonderedForward, ForwardEnsemble
    <2>9. Blended(m, s, strategy, n) = [logits |-> <<"mean", n, NoisySum(m, s, k)>>, passes |-> n]
      BY <1>7, <2>1 DEF Blended
    <2> QED BY <2>5, <2>7, <2>8, <2>9 DEF PonderDone
  <1>8. CASE strategy = "cfg+ensemble"
    <2>1. PICK k \in Nat, j \in Nat : k = n - 2 /\ j = 1 + k /\ j = n - 1 /\ j = one + k /\ j + 1 = n /\ n >= 2
      <3>1. n - 2 \in Nat /\ n - 1 \in Nat /\ n >= 2 /\ (n - 1) + 1 = n /\ n - 1 = 1 + (n - 2)
        BY <1>8 DEF Refused
      <3> QED BY <1>3, <3>1
    <2>2. PICK noisy : noisy = AddNoise(m, token, clean, k, pos)
      OBVIOUS
    <2>3. SumAt(noisy, d, j, NoisySum(m, s, k))
      <3>1. SumAt(AddNoise(m, token, clean, k, pos), d, one + k, NoisySum(m, s, k))
        BY <1>2, <1>4, AddNoiseFacts
      <3> QED BY <2>1, <2>2, <3>1
    <2>4. PICK mean : mean = Mean(noisy, j)
      OBVIOUS
    <2>5. Sound(mean, d, j) /\ mean.logits = <<"mean", j, NoisySum(m, s, k)>>
      <3>1. MadeOf(mean, d, j, <<"mean", j, noisy.logits>>, noisy.reported)
        BY <2>3, <2>4, ReportFacts DEF SumAt
      <3> QED BY <2>3, <3>1 DEF MadeOf, SumAt
    <2>6. PICK guided : guided = Guide(m, mean, pos)
      OBVIOUS
    <2>7. Sound(guided, d, n) /\ guided.logits = Contrasted(m, s, mean.logits)
      <3>1. MadeOf(Guide(m, mean, pos), d, j + 1, Contrasted(m, s, mean.logits), mean.reported)
        BY <1>2, <2>5, GuideFacts
      <3> QED BY <2>1, <2>6, <3>1 DEF MadeOf
    <2>8. PICK r : r = [guided EXCEPT !.reported = n]
      OBVIOUS
    <2>9. BlendOf(r, d, n, guided.logits)
      BY <2>7, <2>8, ReportedFacts
    <2>10. PonderedForward(m, token, pos, c, strategy, n) = r
      BY <1>2, <1>8, <2>1, <2>2, <2>4, <2>6, <2>8 DEF PonderedForward, ForwardCfgEnsemble
    <2>11. Blended(m, s, strategy, n)
             = [logits |-> Contrasted(m, s, <<"mean", j, NoisySum(m, s, k)>>), passes |-> n]
      BY <1>8, <2>1 DEF Blended
    <2> QED BY <2>5, <2>7, <2>9, <2>10, <2>11 DEF PonderDone
  <1>9. CASE strategy = "adaptive"
    <2>1. PonderDone(ForwardAdaptive(m, token, pos, c, n), d, Blended(m, s, "adaptive", n))
      BY AdaptiveFacts
    <2> QED BY <1>9, <2>1 DEF PonderedForward
  <1> QED BY <1>5, <1>6, <1>7, <1>8, <1>9

-----------------------------------------------------------------------------
(* The session.  A cache fits a text when its entries below the text's end   *)
(* are the reference's and the draft's layers are filled alike.              *)
Fits(m, s, c) ==
    /\ CachesType(c) /\ Level(c)
    /\ \A li \in 0 .. NumLayers - 1 : Holds(m, s, Len(s), c, li)

OutInv ==
    /\ "failed" \in DOMAIN out => ~out.failed
    /\ BatchIsSequential /\ PonderBlends

InferenceInv ==
    /\ model \in Models
    /\ text \in Seq(Token) /\ Len(text) <= MaxCtx
    /\ Fits(model, text, cache)
    /\ OutInv

(* The reference's logits, by position.                                     *)
LEMMA ReferenceFacts ==
    ASSUME NEW m, NEW s \in Seq(Token), NEW i \in 1 .. Len(s)
    PROVE  Reference(m, s)[i] = Logits(m, Streams(m, s)[NumLayers][i])
  <1>1. i \in DOMAIN s
    OBVIOUS
  <1> QED BY <1>1 DEF Reference

(* A pass that fills every layer alike keeps the draft's layers level.      *)
LEMMA LevelFacts ==
    ASSUME NEW c, Level(c), NEW d, NEW pos,
           \A li \in 0 .. NumLayers - 1 : d[li].filled = Reach(c[li].filled, pos)
    PROVE  Level(d)
  <1> SUFFICES ASSUME NEW k \in 1 .. Len(DraftLayers)
               PROVE  d[DraftLayers[k]].filled = d[DraftLayers[1]].filled
    BY DEF Level
  <1>1. PICK n \in Nat : n = Len(DraftLayers)
    BY InferenceAssumption
  <1>2. k \in 1 .. n /\ 1 \in 1 .. n
    BY <1>1
  <1>3. DraftLayers[k] \in 0 .. NumLayers - 1 /\ DraftLayers[1] \in 0 .. NumLayers - 1
    BY <1>1, <1>2, InferenceAssumption
  <1>4. c[DraftLayers[k]].filled = c[DraftLayers[1]].filled
    BY DEF Level
  <1>5. PICK a, b : a = DraftLayers[k] /\ b = DraftLayers[1]
    OBVIOUS
  <1>6. d[a].filled = Reach(c[a].filled, pos) /\ d[b].filled = Reach(c[b].filled, pos)
    BY <1>3, <1>5
  <1> QED BY <1>4, <1>5, <1>6

(* One token more: the storing pass over a cache that fits the text. *)
Extended(pass, m, s, t) ==
    /\ pass.failed = FALSE
    /\ Fits(m, Append(s, t), pass.cache)
    /\ Probed(m, Append(s, t), pass.cache, Len(s))
    /\ Logits(m, pass.hidden) = Reference(m, Append(s, t))[Len(s) + 1]

LEMMA OneMore ==
    ASSUME NEW m \in Models, NEW s \in Seq(Token), Len(s) < MaxCtx, NEW c, Fits(m, s, c),
           NEW t \in Token
    PROVE  Extended(ForwardFromHidden(m, Embed(m, t), Len(s), c, TRUE), m, s, t)
  <1>1. PICK pos \in Nat : pos = Len(s)
    OBVIOUS
  <1>2. PICK u \in Seq(Token) : u = Append(s, t)
    <2>1. Append(s, t) \in Seq(Token)
      BY AppendProperties
    <2> QED BY <2>1
  <1>3. Len(u) = pos + 1 /\ u[pos + 1] = t /\ \A i \in 1 .. pos : u[i] = s[i]
    BY <1>1, <1>2
  <1>4. ASSUME NEW li \in 0 .. NumLayers - 1 PROVE Holds(m, u, pos, c, li)
    <2>1. Holds(m, s, pos, c, li)
      BY <1>1 DEF Fits
    <2>2. pos <= Len(u) /\ pos <= Len(s) /\ \A i \in 1 .. pos : s[i] = u[i]
      BY <1>1, <1>3
    <2> QED BY <2>1, <2>2, HoldsPrefix
  <1>5. CachesType(c) /\ Level(c)
    BY DEF Fits
  <1>6. pos < Len(u) /\ pos < MaxCtx
    BY <1>1, <1>3
  <1>7. PassDone(ForwardFromHidden(m, Embed(m, u[pos + 1]), pos, c, TRUE), m, u, pos, c)
    BY <1>4, <1>5, <1>6, PassIsReference
  <1>8. PICK pass : pass = ForwardFromHidden(m, Embed(m, u[pos + 1]), pos, c, TRUE)
    OBVIOUS
  <1>9. PassDone(pass, m, u, pos, c)
    BY <1>7, <1>8
  <1>10. Level(pass.cache)
    BY <1>5, <1>9, LevelFacts DEF PassDone
  <1>11. Fits(m, u, pass.cache)
    BY <1>3, <1>9, <1>10 DEF PassDone, Fits
  <1>12. Probed(m, u, pass.cache, pos)
    <2>1. ASSUME NEW li \in 0 .. NumLayers - 1
          PROVE  pos < pass.cache[li].filled /\ Holds(m, u, pos + 1, pass.cache, li)
      <3>1. PICK n : n = pass.cache[li].filled
        OBVIOUS
      <3>2. Holds(m, u, pos + 1, pass.cache, li)
        BY <1>9 DEF PassDone
      <3>3. pos + 1 <= n
        BY <3>1, <3>2 DEF Holds
      <3>4. n \in Nat
        BY <1>9, <3>1 DEF PassDone, CachesType, CacheType
      <3> QED BY <3>1, <3>2, <3>3, <3>4
    <2> QED BY <1>2, <1>3, <1>6, <2>1 DEF Probed
  <1>13. Reference(m, u)[pos + 1] = Logits(m, Streams(m, u)[NumLayers][pos + 1])
    BY <1>3, ReferenceFacts
  <1>14. Logits(m, pass.hidden) = Reference(m, u)[pos + 1]
    BY <1>9, <1>13 DEF PassDone
  <1>15. pass.failed = FALSE
    BY <1>9 DEF PassDone
  <1>16. Extended(pass, m, s, t)
    BY <1>1, <1>2, <1>11, <1>12, <1>14, <1>15 DEF Extended
  <1>17. ForwardFromHidden(m, Embed(m, t), Len(s), c, TRUE) = pass
    BY <1>1, <1>3, <1>8
  <1> QED BY <1>16, <1>17

(* The calls of a session, each of which preserves InferenceInv.            *)
LEMMA StepInv ==
    ASSUME InferenceInv, NEW t \in Token, Step(t)
    PROVE  InferenceInv'
  <1>1. /\ model \in Models /\ text \in Seq(Token) /\ Len(text) < MaxCtx
        /\ Fits(model, text, cache)
    BY DEF InferenceInv, Step
  <1>2. PICK pass : pass = ForwardFromHidden(model, Embed(model, t), Len(text), cache, TRUE)
    OBVIOUS
  <1>3. PICK logits : logits = Logits(model, pass.hidden)
    OBVIOUS
  <1>4. /\ cache' = pass.cache /\ text' = Append(text, t) /\ model' = model
        /\ out' = [kind |-> "pass", failed |-> pass.failed, logits |-> <<logits>>]
    BY <1>2, <1>3 DEF Step
  <1>5. Extended(ForwardFromHidden(model, Embed(model, t), Len(text), cache, TRUE), model, text, t)
    BY <1>1, OneMore
  <1>6. Extended(pass, model, text, t)
    BY <1>2, <1>5
  <1>7. PICK n \in Nat : n = Len(text)
    BY <1>1
  <1>8. text' \in Seq(Token) /\ Len(text') = n + 1 /\ n + 1 <= MaxCtx
    <2>1. text' \in Seq(Token) /\ Len(text') = Len(text) + 1
      BY <1>1, <1>4, AppendProperties
    <2> QED BY <1>1, <1>7, <2>1, InferenceAssumption
  <1>9. Fits(model', text', cache')
    BY <1>4, <1>6 DEF Extended
  <1>10. logits = Reference(model', text')[n + 1]
    BY <1>3, <1>4, <1>6, <1>7 DEF Extended
  <1>11. out'.kind = "pass" /\ out'.logits = <<logits>>
    BY <1>4
  <1>12. ~out'.failed
    BY <1>4, <1>6 DEF Extended
  <1>13. BatchIsSequential'
    <2>1. Len(out'.logits) = 1 /\ DOMAIN out'.logits = 1 .. 1 /\ out'.logits[1] = logits
      BY <1>11
    <2>2. Len(text') - Len(out'.logits) = n
      BY <1>7, <1>8, <2>1
    <2>3. \A b \in DOMAIN out'.logits : b = 1
      BY <2>1
    <2> QED BY <1>10, <2>1, <2>2, <2>3 DEF BatchIsSequential
  <1>14. PonderBlends'
    BY <1>11 DEF PonderBlends
  <1> QED BY <1>1, <1>4, <1>8, <1>9, <1>12, <1>13, <1>14 DEF InferenceInv, OutInv

LEMMA BatchInv ==
    ASSUME InferenceInv, \A m \in Models : Convertible(m),
           NEW n \in Nat \ {0}, NEW ts \in [1 .. n -> Token], Batch(ts)
    PROVE  InferenceInv'
  <1>1. PICK m : m = model
    OBVIOUS
  <1>2. PICK from \in Nat : from = Len(text)
    BY DEF InferenceInv
  <1>3. /\ m \in Models /\ Convertible(m) /\ text \in Seq(Token) /\ Fits(m, text, cache)
        /\ ts \in Seq(Token) /\ Len(ts) = n /\ DOMAIN ts = 1 .. n
    BY <1>1 DEF InferenceInv
  <1>4. from + n <= MaxCtx
    BY <1>2, <1>3 DEF Batch
  <1>5. PICK hs : hs = [b \in DOMAIN ts |-> Embed(m, ts[b])]
    OBVIOUS
  <1>6. PICK pass : pass = ForwardBatch(m, hs, from, cache)
    OBVIOUS
  <1>7. PICK logits : logits = [b \in DOMAIN ts |-> Logits(m, pass.hidden[b])]
    OBVIOUS
  <1>8. PICK s : s = text \o ts
    OBVIOUS
  <1>9. /\ cache' = pass.cache /\ text' = s /\ model' = m
        /\ out' = [kind |-> "pass", failed |-> pass.failed, logits |-> logits]
    BY <1>1, <1>2, <1>5, <1>6, <1>7, <1>8 DEF Batch
  <1>10. /\ s \in Seq(Token) /\ Len(s) = from + n
         /\ \A i \in 1 .. from : s[i] = text[i]
         /\ \A b \in 1 .. n : s[from + b] = ts[b]
    <2>1. /\ s \in Seq(Token) /\ Len(s) = from + n
          /\ \A i \in 1 .. from + n : s[i] = IF i <= from THEN text[i] ELSE ts[i - from]
      BY <1>2, <1>3, <1>8, ConcatProperties
    <2>2. \A i \in 1 .. from : s[i] = text[i]
      BY <2>1
    <2>3. ASSUME NEW b \in 1 .. n PROVE s[from + b] = ts[b]
      <3>1. from + b \in 1 .. from + n /\ ~(from + b <= from) /\ (from + b) - from = b
        OBVIOUS
      <3> QED BY <2>1, <3>1
    <2> QED BY <2>1, <2>2, <2>3
  <1>11. \A li \in 0 .. NumLayers - 1 : Holds(m, s, from, cache, li)
    <2> TAKE li \in 0 .. NumLayers - 1
    <2>1. Holds(m, text, from, cache, li)
      BY <1>2, <1>3 DEF Fits
    <2>2. from <= Len(s) /\ from <= Len(text) /\ \A i \in 1 .. from : text[i] = s[i]
      BY <1>2, <1>10
    <2> QED BY <1>3, <1>10, <2>1, <2>2, HoldsPrefix
  <1>12. Lined(hs, n) /\ \A b \in 1 .. n : hs[b] = Embed(m, s[from + b])
    <2>1. hs = [b \in 1 .. n |-> hs[b]] /\ \A b \in 1 .. n : hs[b] = Embed(m, ts[b])
      BY <1>3, <1>5
    <2>2. Len(hs) = n
      BY <2>1, WholeFacts
    <2> QED BY <1>10, <2>1, <2>2 DEF Lined
  <1>13. CachesType(cache) /\ Level(cache) /\ from + n <= Len(s)
    BY <1>3, <1>10 DEF Fits
  <1>14. BatchAt(NumLayers, pass, m, s, from, n, cache)
    BY <1>3, <1>4, <1>6, <1>10, <1>11, <1>12, <1>13, BatchIsReference
  <1>15. \A li \in 0 .. NumLayers - 1 :
            /\ Holds(m, s, from + n, pass.cache, li)
            /\ pass.cache[li].filled = ReachAll(cache[li].filled, from + n)
    <2> TAKE li \in 0 .. NumLayers - 1
    <2>1. li < NumLayers
      BY InferenceAssumption
    <2> QED BY <1>14, <2>1 DEF BatchAt
  <1>16. Level(pass.cache)
    <2> SUFFICES ASSUME NEW k \in 1 .. Len(DraftLayers)
                 PROVE  pass.cache[DraftLayers[k]].filled = pass.cache[DraftLayers[1]].filled
      BY DEF Level
    <2>1. PICK len \in Nat : len = Len(DraftLayers)
      BY InferenceAssumption
    <2>2. k \in 1 .. len /\ 1 \in 1 .. len
      BY <2>1
    <2>3. DraftLayers[k] \in 0 .. NumLayers - 1 /\ DraftLayers[1] \in 0 .. NumLayers - 1
      BY <2>1, <2>2, InferenceAssumption
    <2>4. cache[DraftLayers[k]].filled = cache[DraftLayers[1]].filled
      BY <1>13 DEF Level
    <2> QED BY <1>15, <2>3, <2>4
  <1>17. Fits(m, s, pass.cache)
    BY <1>10, <1>14, <1>15, <1>16 DEF Fits, BatchAt
  <1>18. out'.kind = "pass" /\ out'.logits = logits
    BY <1>9
  <1>19. ~out'.failed
    BY <1>9, <1>14 DEF BatchAt
  <1>20. BatchIsSequential'
    <2>1. Len(out'.logits) = n /\ DOMAIN out'.logits = 1 .. n
      <3>1. logits = [b \in 1 .. n |-> logits[b]]
        BY <1>3, <1>7
      <3>2. Len(logits) = n
        BY <3>1, WholeFacts
      <3> QED BY <1>18, <3>1, <3>2
    <2>2. Len(text') - Len(out'.logits) = from
      <3>1. Len(text') = from + n
        BY <1>9, <1>10
      <3>2. (from + n) - n = from
        OBVIOUS
      <3> QED BY <2>1, <3>1, <3>2
    <2>3. ASSUME NEW b \in 1 .. n PROVE out'.logits[b] = Reference(m, s)[from + b]
      <3>1. from + b \in 1 .. Len(s)
        BY <1>10
      <3>2. Reference(m, s)[from + b] = Logits(m, Streams(m, s)[NumLayers][from + b])
        BY <1>10, <3>1, ReferenceFacts
      <3>3. pass.hidden[b] = Streams(m, s)[NumLayers][from + b]
        BY <1>14 DEF BatchAt
      <3> QED BY <1>3, <1>7, <1>18, <3>2, <3>3
    <2> QED BY <1>9, <2>1, <2>2, <2>3 DEF BatchIsSequential
  <1>21. PonderBlends'
    BY <1>18 DEF PonderBlends
  <1>22. Len(text') <= MaxCtx
    BY <1>4, <1>9, <1>10
  <1> QED BY <1>3, <1>9, <1>10, <1>17, <1>19, <1>20, <1>21, <1>22 DEF InferenceInv, OutInv

LEMMA DraftInv ==
    ASSUME InferenceInv, NEW t \in Token, Draft(t)
    PROVE  InferenceInv'
  <1>1. PICK n \in Nat : n = Len(text)
    BY DEF InferenceInv
  <1>2. /\ model \in Models /\ CachesType(cache) /\ Level(cache) /\ DraftLayers # <<>>
        /\ \A li \in 0 .. NumLayers - 1 : Holds(model, text, n, cache, li)
    BY <1>1 DEF InferenceInv, Fits, Draft
  <1>3. PICK first \in 0 .. NumLayers - 1 : first = DraftLayers[1]
    <2>1. PICK len \in Nat : len = Len(DraftLayers)
      BY InferenceAssumption
    <2>2. 1 \in 1 .. len
      BY <1>2, <2>1, InferenceAssumption, EmptySeq
    <2> QED BY <2>1, <2>2, InferenceAssumption
  <1>4. PICK top \in Nat : top = cache[first].filled
    BY <1>2 DEF CachesType, CacheType
  <1>5. PICK h : h = Embed(model, t)
    OBVIOUS
  <1>6. PICK pos \in n .. top :
          /\ pos < MaxCtx
          /\ cache' = ForwardPartial(model, h, pos, cache, DraftLayers).cache
          /\ out' = [kind |-> "draft", failed |-> ForwardPartial(model, h, pos, cache, DraftLayers).failed]
          /\ model' = model /\ text' = text
    BY <1>1, <1>3, <1>4, <1>5 DEF Draft
  <1>7. PICK pass : pass = ForwardPartial(model, h, pos, cache, DraftLayers)
    OBVIOUS
  <1>8. PICK S : S = {DraftLayers[k] : k \in 1 .. Len(DraftLayers)}
    OBVIOUS
  <1>9. DraftAt(S, pass, pos, cache)
    <2>1. pos \in Nat /\ pos <= cache[DraftLayers[1]].filled
      BY <1>3, <1>4, <1>6
    <2> QED BY <1>2, <1>6, <1>7, <1>8, <2>1, DraftKeeps
  <1>10. cache' = pass.cache /\ out' = [kind |-> "draft", failed |-> pass.failed]
    BY <1>6, <1>7
  <1>11. CachesType(pass.cache)
    BY <1>9 DEF DraftAt
  <1>12. Level(pass.cache)
    <2> SUFFICES ASSUME NEW k \in 1 .. Len(DraftLayers)
                 PROVE  pass.cache[DraftLayers[k]].filled = pass.cache[DraftLayers[1]].filled
      BY DEF Level
    <2>1. PICK len \in Nat : len = Len(DraftLayers)
      BY InferenceAssumption
    <2>2. k \in 1 .. len /\ 1 \in 1 .. len
      BY <2>1
    <2>3. PICK a, b : a = DraftLayers[k] /\ b = DraftLayers[1]
      OBVIOUS
    <2>4. a \in 0 .. NumLayers - 1 /\ b \in 0 .. NumLayers - 1
      BY <2>1, <2>2, <2>3, InferenceAssumption
    <2>5. cache[a].filled = cache[b].filled
      BY <1>2, <2>3 DEF Level
    <2>6. a \in S /\ b \in S
      BY <1>8, <2>1, <2>2, <2>3
    <2> QED BY <1>9, <2>3, <2>4, <2>5, <2>6 DEF DraftAt
  <1>13. ASSUME NEW li \in 0 .. NumLayers - 1 PROVE Holds(model, text, n, pass.cache, li)
    <2>1. /\ pass.cache[li].filled = IF li \in S THEN Reach(cache[li].filled, pos) ELSE cache[li].filled
          /\ \A p \in 0 .. cache[li].filled - 1 : p < pos => pass.cache[li].data[p] = cache[li].data[p]
      BY <1>9 DEF DraftAt
    <2>2. PICK f \in Nat : f = cache[li].filled
      BY <1>2 DEF CachesType, CacheType
    <2>3. n <= f /\ \A p \in 0 .. n - 1 : cache[li].data[p] = Entry(model, Streams(model, text)[li], li, p)
      BY <1>2, <2>2 DEF Holds
    <2>4. n <= pass.cache[li].filled
      BY <1>6, <2>1, <2>2, <2>3 DEF Reach
    <2>5. \A p \in 0 .. n - 1 : pass.cache[li].data[p] = cache[li].data[p]
      <3> TAKE p \in 0 .. n - 1
      <3>1. p \in 0 .. f - 1 /\ p < pos
        BY <1>6, <2>3
      <3> QED BY <2>1, <2>2, <3>1
    <2> QED BY <2>3, <2>4, <2>5 DEF Holds
  <1>14. Fits(model', text', cache')
    BY <1>1, <1>6, <1>10, <1>11, <1>12, <1>13 DEF Fits
  <1>15. out'.kind = "draft"
    BY <1>10
  <1>16. ~out'.failed
    BY <1>9, <1>10 DEF DraftAt
  <1>17. BatchIsSequential' /\ PonderBlends'
    BY <1>15 DEF BatchIsSequential, PonderBlends
  <1>18. text' = text /\ model' = model
    BY <1>6
  <1> QED BY <1>14, <1>16, <1>17, <1>18 DEF InferenceInv, OutInv

LEMMA RollbackInv ==
    ASSUME InferenceInv, NEW n \in Nat, Rollback(n)
    PROVE  InferenceInv'
  <1>1. PICK len \in Nat : len = Len(text)
    BY DEF InferenceInv
  <1>2. PICK s : s = SubSeq(text, 1, n)
    OBVIOUS
  <1>3. /\ text \in Seq(Token) /\ n < len /\ len <= MaxCtx /\ text' = s /\ model' = model
        /\ model \in Models /\ Fits(model, text, cache) /\ out' = Nothing
        /\ cache' = [li \in DOMAIN cache |-> Truncate(cache[li], n)]
    BY <1>1, <1>2 DEF Rollback, InferenceInv
  <1>4. s \in Seq(Token) /\ Len(s) = n /\ \A i \in 1 .. n : s[i] = text[i]
    BY <1>1, <1>2, <1>3
  <1>5. CachesType(cache) /\ Level(cache)
    BY <1>3 DEF Fits
  <1>6. PICK d : d = cache'
    OBVIOUS
  <1>7. d = [li \in 0 .. NumLayers - 1 |-> Truncate(cache[li], n)]
    BY <1>3, <1>5, <1>6 DEF CachesType
  <1>8. ASSUME NEW li \in 0 .. NumLayers - 1
        PROVE  /\ CacheType(d[li], MaxCtx) /\ d[li].data = cache[li].data /\ d[li].filled = n
    <2>1. PICK c : c = cache[li]
      OBVIOUS
    <2>2. CacheType(c, MaxCtx) /\ MaxCtx \in Nat /\ len <= c.filled
      BY <1>1, <1>3, <1>5, <2>1, InferenceAssumption DEF CachesType, Fits, Holds
    <2>3. n <= c.filled
      BY <1>3, <2>2 DEF CacheType
    <2>4. CacheType(Truncate(c, n), MaxCtx) /\ Truncate(c, n).filled = n
      BY <2>2, <2>3, TruncateBelow
    <2>5. Truncate(c, n).data = c.data
      BY <2>2, TruncateFacts
    <2> QED BY <1>7, <2>1, <2>4, <2>5
  <1>9. CachesType(d)
    BY <1>7, <1>8 DEF CachesType
  <1>10. Level(d)
    <2> SUFFICES ASSUME NEW k \in 1 .. Len(DraftLayers)
                 PROVE  d[DraftLayers[k]].filled = d[DraftLayers[1]].filled
      BY DEF Level
    <2>1. PICK m \in Nat : m = Len(DraftLayers)
      BY InferenceAssumption
    <2>2. k \in 1 .. m /\ 1 \in 1 .. m
      BY <2>1
    <2>3. DraftLayers[k] \in 0 .. NumLayers - 1 /\ DraftLayers[1] \in 0 .. NumLayers - 1
      BY <2>1, <2>2, InferenceAssumption
    <2> QED BY <1>8, <2>3
  <1>11. ASSUME NEW li \in 0 .. NumLayers - 1 PROVE Holds(model, s, n, d, li)
    <2>1. n <= d[li].filled
      BY <1>8
    <2>2. \A p \in 0 .. n - 1 : d[li].data[p] = Entry(model, Streams(model, text)[li], li, p)
      <3> TAKE p \in 0 .. n - 1
      <3>1. p \in 0 .. len - 1
        BY <1>3
      <3> QED BY <1>1, <1>3, <1>8, <3>1 DEF Fits, Holds
    <2>3. Holds(model, text, n, d, li)
      BY <2>1, <2>2 DEF Holds
    <2>4. n <= Len(text) /\ n <= Len(s) /\ \A i \in 1 .. n : text[i] = s[i]
      BY <1>1, <1>3, <1>4
    <2> QED BY <1>3, <1>4, <2>3, <2>4, HoldsPrefix
  <1>12. Fits(model, s, d)
    BY <1>4, <1>9, <1>10, <1>11 DEF Fits
  <1>13. n <= MaxCtx
    BY <1>3, InferenceAssumption
  <1>14. out'.kind = "nothing" /\ "failed" \notin DOMAIN out'
    BY <1>3 DEF Nothing
  <1>15. BatchIsSequential' /\ PonderBlends'
    BY <1>14 DEF BatchIsSequential, PonderBlends
  <1> QED BY <1>3, <1>4, <1>6, <1>12, <1>13, <1>14, <1>15 DEF InferenceInv, OutInv

LEMMA PonderedInv ==
    ASSUME InferenceInv, NEW t \in Token, NEW n \in Nat, NEW strategy,
           strategy \in {"none", "cfg", "ensemble", "cfg+ensemble", "adaptive"},
           Pondered(t, strategy, n)
    PROVE  InferenceInv'
  <1>1. /\ model \in Models /\ text \in Seq(Token) /\ Len(text) < MaxCtx
        /\ Fits(model, text, cache) /\ model' = model
    BY DEF InferenceInv, Pondered
  <1>2. CASE Refused(strategy, n)
    <2>1. out' = Nothing /\ text' = text /\ cache' = cache
      BY <1>2 DEF Pondered
    <2>2. out'.kind = "nothing" /\ "failed" \notin DOMAIN out'
      BY <2>1 DEF Nothing
    <2>3. BatchIsSequential' /\ PonderBlends'
      BY <2>2 DEF BatchIsSequential, PonderBlends
    <2> QED BY <1>1, <2>1, <2>2, <2>3 DEF InferenceInv, OutInv
  <1>3. CASE ~Refused(strategy, n)
    <2>1. PICK pos \in Nat : pos = Len(text)
      BY <1>1
    <2>2. PICK r : r = PonderedForward(model, t, pos, cache, strategy, n)
      OBVIOUS
    <2>3. /\ cache' = r.cache /\ text' = Append(text, t)
          /\ out' = [kind |-> "pondered", failed |-> r.failed, strategy |-> strategy, n |-> n,
                     logits |-> r.logits, made |-> r.made, reported |-> r.reported]
      BY <1>3, <2>1, <2>2 DEF Pondered
    <2>4. PICK pass : pass = ForwardFromHidden(model, Embed(model, t), pos, cache, TRUE)
      OBVIOUS
    <2>5. Extended(pass, model, text, t)
      <3>1. Extended(ForwardFromHidden(model, Embed(model, t), Len(text), cache, TRUE), model, text, t)
        BY <1>1, OneMore
      <3> QED BY <2>1, <2>4, <3>1
    <2>6. PICK clean : clean = CleanPass(model, t, pos, cache)
      OBVIOUS
    <2>7. PICK d, u : d = pass.cache /\ u = Append(text, t)
      OBVIOUS
    <2>8. u \in Seq(Token) /\ Len(u) = pos + 1 /\ t = u[Len(u)]
      BY <1>1, <2>1, <2>7, AppendProperties
    <2>9. CleanDone(clean, d, Reference(model, u)[Len(u)])
      <3>1. CleanDone(CleanPass(model, t, pos, cache), pass.cache, Logits(model, pass.hidden))
        BY <2>4, <2>5, CleanPassFacts DEF Extended
      <3>2. Logits(model, pass.hidden) = Reference(model, u)[Len(u)]
        BY <2>1, <2>5, <2>7, <2>8 DEF Extended
      <3> QED BY <2>6, <2>7, <3>1, <3>2
    <2>10. Pondering(model, u, t, pos, cache, clean, d)
      <3>1. Probed(model, u, d, pos)
        BY <2>1, <2>5, <2>7 DEF Extended
      <3> QED BY <2>6, <2>8, <2>9, <3>1 DEF Pondering
    <2>11. PonderDone(r, d, Blended(model, u, strategy, n))
      BY <1>3, <2>2, <2>10, PonderedFacts
    <2>12. PICK blended : blended = Blended(model, u, strategy, n)
      OBVIOUS
    <2>13. /\ r.failed = FALSE /\ r.cache = d /\ r.logits = blended.logits
           /\ r.made = blended.passes /\ r.reported = blended.passes
      BY <2>11, <2>12 DEF PonderDone, BlendOf, Sound
    <2>14. /\ text' \in Seq(Token) /\ Len(text') <= MaxCtx
           /\ Fits(model', text', cache')
      <3>1. pos + 1 <= MaxCtx
        BY <1>1, <2>1, InferenceAssumption
      <3> QED BY <1>1, <2>3, <2>5, <2>7, <2>8, <2>13, <3>1 DEF Extended
    <2>15. /\ out'.kind = "pondered" /\ out'.strategy = strategy /\ out'.n = n
           /\ out'.logits = r.logits /\ out'.made = r.made /\ out'.reported = r.reported
      BY <2>3
    <2>16. ~out'.failed
      BY <2>3, <2>13
    <2>17. PonderBlends'
      <3>1. Blended(model', text', out'.strategy, out'.n) = blended
        BY <1>1, <2>3, <2>7, <2>12, <2>15
      <3> QED BY <2>13, <2>15, <3>1 DEF PonderBlends
    <2>18. BatchIsSequential'
      BY <2>15 DEF BatchIsSequential
    <2> QED BY <1>1, <2>14, <2>16, <2>17, <2>18 DEF InferenceInv, OutInv
  <1> QED BY <1>2, <1>3

(* The invariant holds at first and is preserved.                           *)
LEMMA InferenceInit == Init => InferenceInv
  <1> SUFFICES ASSUME Init PROVE InferenceInv
    OBVIOUS
  <1>1. model \in Models /\ text = <<>> /\ cache = NewCaches /\ out = Nothing
    BY DEF Init
  <1>2. text \in Seq(Token) /\ Len(text) = 0
    BY <1>1
  <1>3. MaxCtx \in Nat
    BY InferenceAssumption
  <1>4. CacheType(NewCache(MaxCtx), MaxCtx) /\ NewCache(MaxCtx).filled = 0
    BY <1>3, NewCacheFacts
  <1>5. PICK c : c = NewCache(MaxCtx)
    OBVIOUS
  <1>6. cache = [li \in 0 .. NumLayers - 1 |-> c]
    BY <1>1, <1>5 DEF NewCaches
  <1>7. CachesType(cache)
    BY <1>4, <1>5, <1>6 DEF CachesType
  <1>8. Level(cache)
    <2> SUFFICES ASSUME NEW k \in 1 .. Len(DraftLayers)
                 PROVE  cache[DraftLayers[k]].filled = cache[DraftLayers[1]].filled
      BY DEF Level
    <2>1. PICK m \in Nat : m = Len(DraftLayers)
      BY InferenceAssumption
    <2>2. k \in 1 .. m /\ 1 \in 1 .. m
      BY <2>1
    <2>3. DraftLayers[k] \in 0 .. NumLayers - 1 /\ DraftLayers[1] \in 0 .. NumLayers - 1
      BY <2>1, <2>2, InferenceAssumption
    <2> QED BY <1>6, <2>3
  <1>9. \A li \in 0 .. NumLayers - 1 : Holds(model, text, Len(text), cache, li)
    BY <1>2, <1>4, <1>5, <1>6 DEF Holds
  <1>10. out.kind = "nothing" /\ "failed" \notin DOMAIN out
    BY <1>1 DEF Nothing
  <1>11. BatchIsSequential /\ PonderBlends
    BY <1>10 DEF BatchIsSequential, PonderBlends
  <1> QED BY <1>1, <1>2, <1>3, <1>7, <1>8, <1>9, <1>10, <1>11 DEF InferenceInv, OutInv, Fits

LEMMA InferenceNext ==
    ASSUME \A m \in Models : Convertible(m)
    PROVE  InferenceInv /\ [Next]_vars => InferenceInv'
  <1> SUFFICES ASSUME InferenceInv, [Next]_vars PROVE InferenceInv'
    OBVIOUS
  <1>1. ASSUME NEW t \in Token, Step(t) PROVE InferenceInv'
    BY <1>1, StepInv
  <1>2. ASSUME NEW k \in 2 .. MaxBatch, NEW ts \in [1 .. k -> Token], Batch(ts) PROVE InferenceInv'
    <2>1. k \in Nat \ {0}
      BY InferenceAssumption
    <2> QED BY <1>2, <2>1, BatchInv
  <1>3. ASSUME NEW t \in Token, Draft(t) PROVE InferenceInv'
    BY <1>3, DraftInv
  <1>4. ASSUME NEW n \in 0 .. MaxCtx, Rollback(n) PROVE InferenceInv'
    <2>1. n \in Nat
      BY InferenceAssumption
    <2> QED BY <1>4, <2>1, RollbackInv
  <1>5. ASSUME NEW t \in Token, NEW s \in Strategies, Pondered(t, s[1], s[2]) PROVE InferenceInv'
    <2>1. s[1] \in {"none", "cfg", "ensemble", "cfg+ensemble", "adaptive"} /\ s[2] \in Nat
      BY InferenceAssumption
    <2> QED BY <1>5, <2>1, PonderedInv
  <1>6. CASE UNCHANGED vars
    BY <1>6 DEF vars, InferenceInv, Fits, OutInv, BatchIsSequential, PonderBlends
  <1> QED BY <1>1, <1>2, <1>3, <1>4, <1>5, <1>6 DEF Next

(* Whatever passes, batches, drafts, rollbacks and pondered passes came      *)
(* before, in any order, every entry of the cache that a later pass may read *)
(* is the one the reference transformer has at that position of the text,    *)
(* and no pass ran into an assertion.  (Model::forward_from_hidden,          *)
(* forward_batch, forward_partial and KVCache::truncate.)                    *)
THEOREM CachedText ==
    ASSUME \A m \in Models : Convertible(m)
    PROVE  Spec => []CacheIsText
  <1>1. InferenceInv => CacheIsText
    <2> SUFFICES ASSUME InferenceInv PROVE CacheIsText
      OBVIOUS
    <2>1. PICK n \in Nat : n = Len(text)
      BY DEF InferenceInv
    <2>2. \A li \in 0 .. NumLayers - 1 : Holds(model, text, n, cache, li)
      BY <2>1 DEF InferenceInv, Fits
    <2>3. \A li \in 0 .. NumLayers - 1 :
             /\ cache[li].filled >= n
             /\ \A p \in 0 .. n - 1 : cache[li].data[p] = Entry(model, Streams(model, text)[li], li, p)
      <3> TAKE li \in 0 .. NumLayers - 1
      <3>1. cache[li].filled \in Nat
        BY DEF InferenceInv, Fits, CachesType, CacheType
      <3> QED BY <2>2, <3>1 DEF Holds
    <2> QED BY <2>1, <2>3 DEF CacheIsText, InferenceInv, OutInv
  <1> QED BY <1>1, InferenceInit, InferenceNext, PTL DEF Spec

(* The logits of a single pass, and those of each token of a batch, are the  *)
(* reference's for the text so far: a verified draft and a prefilled prompt  *)
(* get the bits that token-by-token decoding would give.                     *)
(* (Model::forward_batch, hidden_to_logits_batch.)                           *)
THEOREM SequentialBits ==
    ASSUME \A m \in Models : Convertible(m)
    PROVE  Spec => []BatchIsSequential
  <1>1. InferenceInv => BatchIsSequential
    BY DEF InferenceInv, OutInv
  <1> QED BY <1>1, InferenceInit, InferenceNext, PTL DEF Spec

(* The logits of a pondered pass are the blend its strategy names of the     *)
(* reference's for its token, for the null token and for its noisy           *)
(* embeddings, each over the text up to and with that token; and it reports  *)
(* the passes it made.  (pondered_forward and the strategies of ponder.rs.)  *)
THEOREM PonderedBlends ==
    ASSUME \A m \in Models : Convertible(m)
    PROVE  Spec => []PonderBlends
  <1>1. InferenceInv => PonderBlends
    BY DEF InferenceInv, OutInv
  <1> QED BY <1>1, InferenceInit, InferenceNext, PTL DEF Spec

-----------------------------------------------------------------------------
(* Numbers: blocks of a fixed size, and the place in a block. *)
LEMMA Blocks ==
    ASSUME NEW w \in Nat \ {0}, NEW i \in Nat
    PROVE  /\ i \div w \in Nat /\ i % w \in 0 .. w - 1
           /\ i = (i \div w) * w + (i % w)
  OBVIOUS

LEMMA BlocksApart ==
    ASSUME NEW w \in Nat \ {0}, NEW a \in Nat, NEW b \in Nat, NEW s \in 0 .. w - 1,
           NEW t \in 0 .. w - 1, a * w + s = b * w + t
    PROVE  a = b /\ s = t
  <1>1. \A x, y \in Nat : x < y => x * w + w <= y * w
    <2> TAKE x, y \in Nat
    <2> HAVE x < y
    <2>1. PICK d \in Nat : y = x + 1 + d
      BY x + 1 + (y - x - 1) = y
    <2>2. y * w = x * w + w + d * w /\ d * w >= 0
      BY <2>1
    <2> QED BY <2>2
  <1>2. a * w \in Nat /\ b * w \in Nat
    OBVIOUS
  <1>3. ~(a < b) /\ ~(b < a)
    BY <1>1, <1>2
  <1> QED BY <1>2, <1>3

(* A vector loop visits every index once, in its body or behind it.          *)
LEMMA VisitsFacts ==
    ASSUME NEW n \in Nat, NEW avx2 \in BOOLEAN
    PROVE  /\ {v[1] : v \in Visits(n, avx2)} = 0 .. n - 1
           /\ \A v \in Visits(n, avx2) :
                 /\ ExpCurve(v[2]) = IF avx2 THEN "schraudolph" ELSE "exp"
                 /\ v[2] = "body" <=> avx2 /\ v[1] < (n \div Lanes) * Lanes
  <1>1. Lanes \in Nat \ {0}
    BY KernelsAssumption
  <1>2. PICK body : body = IF avx2 THEN n \div Lanes ELSE 0
    OBVIOUS
  <1>3. body \in Nat /\ body * Lanes <= n
    BY <1>1, <1>2, Blocks
  <1> DEFINE inside == { <<c * Lanes + j, "body">> : c \in 0 .. body - 1, j \in 0 .. Lanes - 1 }
             behind == { <<i, IF avx2 THEN "tail" ELSE "scalar">> : i \in body * Lanes .. n - 1 }
  <1>4. Visits(n, avx2) = inside \cup behind
    BY <1>2 DEF Visits
  <1>5. ASSUME NEW v \in inside
        PROVE  v[1] \in 0 .. n - 1 /\ v[2] = "body" /\ avx2 /\ v[1] < body * Lanes
    <2>1. PICK c \in 0 .. body - 1, j \in 0 .. Lanes - 1 : v = <<c * Lanes + j, "body">>
      OBVIOUS
    <2>2. (body - 1 - c) * Lanes >= 0 /\ c * Lanes >= 0
      BY <1>1, <1>3
    <2>3. body * Lanes = (body - 1 - c) * Lanes + c * Lanes + Lanes
      BY <1>1, <1>3
    <2>4. c * Lanes \in Nat /\ (body - 1 - c) * Lanes \in Nat /\ body * Lanes \in Nat
      BY <1>1, <1>3
    <2>5. c * Lanes + j \in 0 .. n - 1
      BY <1>1, <1>3, <2>2, <2>3, <2>4
    <2>6. avx2
      BY <1>2, <1>3
    <2>7. c * Lanes + j < body * Lanes
      BY <1>1, <2>2, <2>3, <2>4
    <2> QED BY <2>1, <2>5, <2>6, <2>7
  <1>6. ASSUME NEW v \in behind
        PROVE  /\ v[1] \in 0 .. n - 1 /\ v[2] = IF avx2 THEN "tail" ELSE "scalar"
               /\ ~ (v[1] < body * Lanes)
    <2>1. PICK bl \in Nat : bl = body * Lanes
      <3>1. body * Lanes \in Nat
        BY <1>1, <1>3
      <3> QED BY <3>1
    <2>2. PICK i \in bl .. n - 1 : v = <<i, IF avx2 THEN "tail" ELSE "scalar">>
      BY <2>1
    <2>3. i \in 0 .. n - 1 /\ ~ (i < bl)
      BY <2>1
    <2> QED BY <2>1, <2>2, <2>3
  <1>7. ASSUME NEW i \in 0 .. n - 1
        PROVE  \E v \in inside \cup behind : v[1] = i
    <2>1. CASE i < body * Lanes
      <3>0. /\ i \div Lanes \in Nat /\ i % Lanes \in 0 .. Lanes - 1
            /\ i = (i \div Lanes) * Lanes + (i % Lanes)
        <4>1. i \in Nat
          BY <1>3
        <4> QED BY <1>1, <4>1, Blocks
      <3>1. PICK c \in Nat, j \in 0 .. Lanes - 1 : i = c * Lanes + j
        BY <3>0
      <3>2. c < body
        <4> SUFFICES ASSUME body <= c PROVE FALSE
          BY <1>3
        <4>1. (c - body) * Lanes >= 0 /\ c * Lanes = body * Lanes + (c - body) * Lanes
          BY <1>1, <1>3
        <4>2. c * Lanes \in Nat /\ (c - body) * Lanes \in Nat /\ body * Lanes \in Nat
          BY <1>1, <1>3
        <4> QED BY <2>1, <3>1, <4>1, <4>2
      <3>3. PICK v : v = <<c * Lanes + j, "body">>
        OBVIOUS
      <3>4. v \in inside /\ v[1] = i
        BY <1>3, <3>1, <3>2, <3>3
      <3> QED BY <3>4
    <2>2. CASE ~(i < body * Lanes)
      <3>1. i \in body * Lanes .. n - 1
        BY <1>1, <1>3, <2>2
      <3>2. PICK v : v = <<i, IF avx2 THEN "tail" ELSE "scalar">>
        OBVIOUS
      <3>3. v \in behind /\ v[1] = i
        BY <3>1, <3>2
      <3> QED BY <3>3
    <2> QED BY <2>1, <2>2
  <1>8. \A v \in inside \cup behind :
           v[1] \in 0 .. n - 1 /\ ExpCurve(v[2]) = IF avx2 THEN "schraudolph" ELSE "exp"
    BY <1>5, <1>6 DEF ExpCurve
  <1>9. ASSUME NEW v \in inside \cup behind
        PROVE  v[2] = "body" <=> avx2 /\ v[1] < (n \div Lanes) * Lanes
    <2> HIDE DEF inside, behind
    <2>1. CASE v \in inside
      BY <1>2, <1>5, <2>1
    <2>2. CASE v \in behind
      <3>1. v[2] # "body" /\ ~ (v[1] < body * Lanes)
        BY <1>6, <2>2
      <3> QED BY <1>2, <3>1
    <2> QED BY <2>1, <2>2
  <1> HIDE DEF inside, behind
  <1> QED BY <1>4, <1>7, <1>8, <1>9

-----------------------------------------------------------------------------
(* Attention.  The scratch buffer is one, and in a batch the heads of a      *)
(* token share their part of it.                                             *)
Attending == vector # Idle /\ vector.op \in {"decode", "batch"}

LastPosition(task) == vector.positions[task[1] + 1]

MixedExactly(task) ==
    [t \in 0 .. LastPosition(task) |->
       <<Weights(vector, task)[t], KvHead(vector, task), t>>]

(* A head is scored after all that it has to wait for is mixed; until it is  *)
(* mixed itself its scores are in its part of the scratch buffer.            *)
AttentionInv ==
    /\ vector \in VectorCalls \cup {Idle}
    /\ ~ Attending => scored = {} /\ mixed = {}
    /\ vector = Idle => result = {}
    /\ Attending =>
          /\ mixed \subseteq scored /\ scored \subseteq Tasks(vector)
          /\ \A u \in scored : DoneFirst(vector, u) \subseteq mixed
          /\ \A u \in Tasks(vector) : \A t \in 0 .. LastPosition(u) :
                Slot(vector, u, t) \in DOMAIN scratch
          /\ \A u \in scored \ mixed : \A t \in 0 .. LastPosition(u) :
                scratch[Slot(vector, u, t)] = Weights(vector, u)[t]
          /\ \A r \in result : r.at \in Tasks(vector) /\ r.term = MixedExactly(r.at)

LEMMA CallFacts ==
    ASSUME AttentionInv, Attending
    PROVE  /\ vector.heads \in Nat /\ vector.headDim \in Nat
           /\ vector.positions \in Seq(Nat) /\ Len(vector.positions) \in Nat \ {0}
           /\ vector.positions[1] \in Nat
           /\ vector.op = "decode" => Len(vector.positions) = 1
           /\ vector.avx2 \in BOOLEAN
           /\ \A u \in Tasks(vector) :
                 /\ u[1] \in 0 .. Len(vector.positions) - 1 /\ u[2] \in 0 .. vector.heads - 1
                 /\ u = <<u[1], u[2]>>
                 /\ LastPosition(u) \in Nat
                 /\ vector.op = "decode" => u[1] = 0 /\ LastPosition(u) = vector.positions[1]
  <1>1. vector \in VectorCalls /\ vector.op \in {"decode", "batch"}
    BY DEF AttentionInv, Attending
  <1>2. /\ vector.heads \in Nat /\ vector.headDim \in Nat
        /\ vector.positions \in Seq(Nat) /\ vector.positions # <<>>
        /\ vector.op = "decode" => Len(vector.positions) = 1
        /\ vector.avx2 \in BOOLEAN
    BY <1>1, VectorKernelsAssumption
  <1>3. Len(vector.positions) \in Nat \ {0}
    BY <1>2, EmptySeq
  <1>4. ASSUME NEW u \in Tasks(vector)
        PROVE  /\ u[1] \in 0 .. Len(vector.positions) - 1 /\ u[2] \in 0 .. vector.heads - 1
               /\ u = <<u[1], u[2]>>
    BY DEF Tasks
  <1>5. ASSUME NEW u \in Tasks(vector)
        PROVE  /\ LastPosition(u) \in Nat
               /\ vector.op = "decode" => u[1] = 0 /\ LastPosition(u) = vector.positions[1]
    <2>1. PICK ps \in Seq(Nat) : ps = vector.positions
      BY <1>2
    <2>2. PICK k : k = u[1] + 1
      OBVIOUS
    <2>3. k \in 1 .. Len(ps) /\ u[1] = k - 1
      <3>1. PICK n \in Nat \ {0} : n = Len(vector.positions)
        BY <1>3
      <3>2. u[1] \in 0 .. n - 1
        BY <1>4, <3>1
      <3>3. PICK h \in Nat : h = u[1] /\ h <= n - 1
        BY <3>2
      <3>4. k = h + 1 /\ Len(ps) = n
        BY <2>1, <2>2, <3>1, <3>3
      <3>5. k \in 1 .. n /\ h = k - 1
        BY <3>3, <3>4
      <3> QED BY <3>3, <3>4, <3>5
    <2>4. ps[k] \in Nat /\ LastPosition(u) = ps[k]
      BY <2>1, <2>2, <2>3 DEF LastPosition
    <2>5. vector.op = "decode" => k = 1
      <3>1. vector.op = "decode" => Len(ps) = 1
        BY <1>2, <2>1
      <3>2. PICK n \in Nat : n = Len(ps)
        BY <2>1
      <3>3. k \in 1 .. n
        BY <2>3, <3>2
      <3>4. n = 1 => k = 1
        BY <3>3
      <3> QED BY <3>1, <3>2, <3>4
    <2> QED BY <2>1, <2>3, <2>4, <2>5
  <1>6. vector.positions[1] \in Nat
    BY <1>2, <1>3
  <1> QED BY <1>2, <1>3, <1>4, <1>5, <1>6

(* Two heads that use the same place are the same head, or heads of one      *)
(* token of a batch; a head uses each place for one position.                *)
LEMMA SlotsApart ==
    ASSUME AttentionInv, Attending,
           NEW u \in Tasks(vector), NEW v \in Tasks(vector),
           NEW s \in 0 .. LastPosition(u), NEW t \in 0 .. LastPosition(v),
           Slot(vector, u, s) = Slot(vector, v, t)
    PROVE  /\ s = t
           /\ u = v \/ (vector.op = "batch" /\ u[1] = v[1])
  <1>1. CASE vector.op = "decode"
    <2>0. vector.positions[1] \in Nat
      BY CallFacts
    <2>1. PICK w \in Nat \ {0} : w = vector.positions[1] + 1
      BY <2>0
    <2>2. u[2] * w + s = v[2] * w + t
      BY <1>1, <2>1 DEF Slot
    <2>3. u[2] \in Nat /\ v[2] \in Nat /\ s \in 0 .. w - 1 /\ t \in 0 .. w - 1
      <3>1. PICK n \in Nat : n = vector.heads
        BY CallFacts
      <3>2. /\ u[2] \in 0 .. n - 1 /\ LastPosition(u) = vector.positions[1]
            /\ v[2] \in 0 .. n - 1 /\ LastPosition(v) = vector.positions[1]
        BY <1>1, <3>1, CallFacts
      <3>3. u[2] \in Nat /\ v[2] \in Nat
        BY <3>2
      <3>4. w - 1 = vector.positions[1]
        BY <2>0, <2>1
      <3> QED BY <3>2, <3>3, <3>4
    <2>4. PICK a \in Nat, b \in Nat : a = u[2] /\ b = v[2]
      BY <2>3
    <2>5. a * w + s = b * w + t
      BY <2>2, <2>4
    <2>6. a = b /\ s = t
      BY <2>3, <2>5, BlocksApart
    <2> QED BY <1>1, <2>4, <2>6, CallFacts
  <1>2. CASE vector.op # "decode"
    <2>1. vector.op = "batch"
      BY <1>2 DEF Attending
    <2> QED BY <1>2, <2>1 DEF Slot
  <1> QED BY <1>1, <1>2

(* Of two heads of a token of a batch, one waits for the other. *)
LEMMA OneWaits ==
    ASSUME AttentionInv, Attending, vector.op = "batch",
           NEW u \in Tasks(vector), NEW v \in Tasks(vector), u # v, u[1] = v[1]
    PROVE  u \in DoneFirst(vector, v) \/ v \in DoneFirst(vector, u)
  <1>1. u[2] \in Int /\ v[2] \in Int /\ u[2] # v[2]
    <2>1. PICK n \in Nat : n = vector.heads
      BY CallFacts
    <2>2. /\ u[2] \in 0 .. n - 1 /\ v[2] \in 0 .. n - 1
          /\ u = <<u[1], u[2]>> /\ v = <<v[1], v[2]>>
      BY <2>1, CallFacts
    <2>3. u[2] # v[2]
      BY <2>2
    <2> QED BY <2>2, <2>3
  <1>2. u[2] < v[2] \/ v[2] < u[2]
    BY <1>1
  <1> QED BY <1>2 DEF DoneFirst, SpreadHeads

LEMMA ScoreInv ==
    ASSUME AttentionInv, NEW task, Score(task)
    PROVE  AttentionInv'
  <1>1. Attending
    BY DEF Score, Attending
  <1>2. /\ task \in Tasks(vector) /\ task \notin scored
        /\ DoneFirst(vector, task) \subseteq mixed
        /\ scored' = scored \cup {task} /\ vector' = vector /\ mixed' = mixed
        /\ result' = result
    BY DEF Score
  <1>3. PICK w : w = Weights(vector, task)
    OBVIOUS
  <1>4. DOMAIN w = 0 .. LastPosition(task)
    BY <1>3 DEF Weights, LastPosition
  <1>5. scratch' = [ s \in DOMAIN scratch |->
                       IF \E t \in DOMAIN w : Slot(vector, task, t) = s
                       THEN w[CHOOSE t \in DOMAIN w : Slot(vector, task, t) = s]
                       ELSE scratch[s] ]
    BY <1>3 DEF Score
  <1>6. ASSUME NEW t \in 0 .. LastPosition(task)
        PROVE  scratch'[Slot(vector, task, t)] = w[t]
    <2>1. PICK s : s = Slot(vector, task, t)
      OBVIOUS
    <2>2. s \in DOMAIN scratch
      BY <1>1, <1>2, <2>1 DEF AttentionInv
    <2>3. PICK x \in DOMAIN w : x = CHOOSE y \in DOMAIN w : Slot(vector, task, y) = s
      BY <1>4, <2>1
    <2>4. Slot(vector, task, x) = s
      BY <1>4, <2>1, <2>3
    <2>5. x = t
      BY <1>1, <1>2, <1>4, <2>1, <2>4, SlotsApart
    <2>6. scratch'[s] = w[x]
      BY <1>4, <1>5, <2>1, <2>2, <2>3
    <2> QED BY <2>1, <2>5, <2>6
  <1>7. ASSUME NEW u \in scored \ mixed, NEW t \in 0 .. LastPosition(u)
        PROVE  scratch'[Slot(vector, u, t)] = scratch[Slot(vector, u, t)]
    <2>1. u \in Tasks(vector) /\ u # task
      BY <1>1, <1>2 DEF AttentionInv
    <2>2. Slot(vector, u, t) \in DOMAIN scratch
      BY <1>1, <2>1 DEF AttentionInv
    <2>3. ASSUME NEW x \in DOMAIN w, Slot(vector, task, x) = Slot(vector, u, t)
          PROVE  FALSE
      <3>1. vector.op = "batch" /\ u[1] = task[1]
        BY <1>1, <1>2, <1>4, <2>1, <2>3, SlotsApart
      <3>2. CASE u \in DoneFirst(vector, task)
        BY <1>2, <3>2
      <3>3. CASE task \in DoneFirst(vector, u)
        BY <1>1, <1>2, <3>3 DEF AttentionInv
      <3> QED BY <1>1, <1>2, <2>1, <3>1, <3>2, <3>3, OneWaits
    <2> QED BY <1>5, <2>2, <2>3
  <1>8. /\ Attending' /\ DOMAIN scratch' = DOMAIN scratch
        /\ \A u : /\ LastPosition(u)' = LastPosition(u)
                  /\ MixedExactly(u)' = MixedExactly(u)
    BY <1>1, <1>2, <1>5 DEF Attending, LastPosition, MixedExactly
  <1>9. \A u \in scored' \ mixed' : \A t \in 0 .. LastPosition(u) :
           scratch'[Slot(vector, u, t)] = Weights(vector, u)[t]
    <2> TAKE u \in scored' \ mixed'
    <2> TAKE t \in 0 .. LastPosition(u)
    <2>1. CASE u = task
      BY <1>3, <1>6, <2>1
    <2>2. CASE u # task
      BY <1>1, <1>2, <1>7, <2>2 DEF AttentionInv
    <2> QED BY <2>1, <2>2
  <1>10. /\ mixed' \subseteq scored' /\ scored' \subseteq Tasks(vector)
         /\ \A u \in scored' : DoneFirst(vector, u) \subseteq mixed'
    BY <1>1, <1>2 DEF AttentionInv
  <1>11. /\ vector \in VectorCalls /\ vector # Idle
         /\ \A u \in Tasks(vector) : \A t \in 0 .. LastPosition(u) :
                Slot(vector, u, t) \in DOMAIN scratch
         /\ \A r \in result : r.at \in Tasks(vector) /\ r.term = MixedExactly(r.at)
    BY <1>1 DEF AttentionInv, Attending
  <1> QED BY <1>2, <1>8, <1>9, <1>10, <1>11 DEF AttentionInv

LEMMA MixInv ==
    ASSUME AttentionInv, NEW task, Mix(task)
    PROVE  AttentionInv'
  <1>1. /\ vector # Idle /\ task \in scored \ mixed
        /\ mixed' = mixed \cup {task}
        /\ vector' = vector /\ scored' = scored /\ scratch' = scratch
    BY DEF Mix
  <1>2. Attending
    BY <1>1 DEF AttentionInv
  <1>3. PICK r : r = [to |-> "output", at |-> task, term |-> Mixed(vector, task)]
    OBVIOUS
  <1>4. result' = result \cup {r}
    BY <1>3 DEF Mix
  <1>5. task \in Tasks(vector) /\ r.at = task /\ r.term = Mixed(vector, task)
    BY <1>1, <1>2, <1>3 DEF AttentionInv
  <1>6. \A t \in 0 .. LastPosition(task) :
           scratch[Slot(vector, task, t)] = Weights(vector, task)[t]
    BY <1>1, <1>2 DEF AttentionInv
  <1>7. Mixed(vector, task) = MixedExactly(task)
    BY <1>6 DEF Mixed, MixedExactly, LastPosition
  <1>8. /\ Attending'
        /\ \A u : /\ LastPosition(u)' = LastPosition(u)
                  /\ MixedExactly(u)' = MixedExactly(u)
    BY <1>1, <1>2 DEF Attending, LastPosition, MixedExactly
  <1>9. \A q \in result' : q.at \in Tasks(vector) /\ q.term = MixedExactly(q.at)
    BY <1>2, <1>4, <1>5, <1>7 DEF AttentionInv
  <1>10. /\ mixed' \subseteq scored
         /\ \A u \in scored : DoneFirst(vector, u) \subseteq mixed'
         /\ scored \subseteq Tasks(vector) /\ vector \in VectorCalls
         /\ \A u \in Tasks(vector) : \A t \in 0 .. LastPosition(u) :
                Slot(vector, u, t) \in DOMAIN scratch
         /\ \A u \in scored \ mixed' : \A t \in 0 .. LastPosition(u) :
                scratch[Slot(vector, u, t)] = Weights(vector, u)[t]
    BY <1>1, <1>2 DEF AttentionInv
  <1> QED BY <1>1, <1>8, <1>9, <1>10 DEF AttentionInv

LEMMA VectorNextInv == AttentionInv /\ [VectorNext]_vectorVars => AttentionInv'
  <1> SUFFICES ASSUME AttentionInv, [VectorNext]_vectorVars PROVE AttentionInv'
    OBVIOUS
  <1>1. ASSUME NEW c \in VectorCalls, RunLoop(c) PROVE AttentionInv'
    <2>1. /\ vector = Idle /\ vector' = c /\ c.op \notin {"decode", "batch"}
          /\ scored' = scored /\ mixed' = mixed
      BY <1>1 DEF RunLoop
    <2>2. c # Idle /\ scored = {} /\ mixed = {}
      BY <2>1, VectorKernelsAssumption DEF AttentionInv, Attending
    <2>3. ~ Attending'
      BY <2>1 DEF Attending
    <2> QED BY <2>1, <2>2, <2>3 DEF AttentionInv
  <1>2. ASSUME NEW c \in VectorCalls, StartAttention(c) PROVE AttentionInv'
    <2>1. /\ vector = Idle /\ vector' = c
          /\ scored' = scored /\ mixed' = mixed /\ result' = result
          /\ DOMAIN scratch' = {Slot(c, task, t) : task \in Tasks(c), t \in 0 .. 0}
                \cup UNION { { Slot(c, task, t) : t \in 0 .. c.positions[task[1] + 1] } :
                             task \in Tasks(c) }
      BY <1>2 DEF StartAttention
    <2>2. c # Idle /\ scored = {} /\ mixed = {} /\ result = {}
      BY <2>1, VectorKernelsAssumption DEF AttentionInv, Attending
    <2>3. \A u \in Tasks(c) : \A t \in 0 .. c.positions[u[1] + 1] :
             Slot(c, u, t) \in DOMAIN scratch'
      BY <2>1
    <2> QED BY <2>1, <2>2, <2>3 DEF AttentionInv, LastPosition
  <1>3. CASE EndVector
    BY <1>3 DEF EndVector, AttentionInv, Attending
  <1>4. CASE UNCHANGED vectorVars
    BY <1>4 DEF vectorVars, AttentionInv, Attending, LastPosition, MixedExactly
  <1> QED BY <1>1, <1>2, <1>3, <1>4, ScoreInv, MixInv DEF VectorNext

(* No thread mixes a head with scores that another head, token or call left  *)
(* in the scratch buffer, however the tasks of a call are interleaved.       *)
THEOREM OwnScores == VectorInit /\ [][VectorNext]_vectorVars => []AttentionExact
  <1>1. VectorInit => AttentionInv
    BY DEF VectorInit, AttentionInv, Attending
  <1>2. AttentionInv => AttentionExact
    <2> SUFFICES ASSUME AttentionInv, Attending, NEW r \in result
                 PROVE  LET kv  == KvHead(vector, r.at)
                            all == 0 .. LastPosition(r.at)
                        IN  /\ DOMAIN r.term = all
                            /\ \A t \in all :
                                 r.term[t] = << <<r.term[0][1][1],
                                                  <<"score", r.at, kv, t, 0 .. vector.headDim - 1>>,
                                                  all>>,
                                                kv, t >>
      BY DEF AttentionExact, Attending, KvHead, LastPosition
    <2>1. r.at \in Tasks(vector) /\ r.term = MixedExactly(r.at)
      BY DEF AttentionInv
    <2>2. PICK pos \in Nat : pos = LastPosition(r.at)
      BY <2>1, CallFacts
    <2>3. PICK avx2 \in BOOLEAN : avx2 = (vector.avx2 /\ vector.headDim % Lanes = 0)
      BY CallFacts
    <2>4. PICK curve : curve = IF avx2 THEN "schraudolph" ELSE "exp"
      OBVIOUS
    <2>5. /\ {v[1] : v \in Visits(vector.headDim, avx2)} = 0 .. vector.headDim - 1
          /\ {v[1] : v \in Visits(pos + 1, avx2)} = 0 .. pos
          /\ \A v \in Visits(pos + 1, avx2) : ExpCurve(v[2]) = curve
      <3>1. PICK n \in Nat : n = vector.headDim
        BY CallFacts
      <3>2. {v[1] : v \in Visits(n, avx2)} = 0 .. n - 1
        BY VisitsFacts
      <3>3. PICK m \in Nat : m = pos + 1
        OBVIOUS
      <3>4. /\ {v[1] : v \in Visits(m, avx2)} = 0 .. m - 1
            /\ \A v \in Visits(m, avx2) : ExpCurve(v[2]) = curve
        BY <2>4, VisitsFacts
      <3> QED BY <3>1, <3>2, <3>3, <3>4
    <2>6. ASSUME NEW t \in 0 .. pos
          PROVE  Weights(vector, r.at)[t]
                   = <<curve,
                       <<"score", r.at, KvHead(vector, r.at), t, 0 .. vector.headDim - 1>>,
                       0 .. pos>>
      <3>1. PICK v : v = CHOOSE x \in Visits(pos + 1, avx2) : x[1] = t
        OBVIOUS
      <3>2. v \in Visits(pos + 1, avx2)
        BY <2>5, <3>1
      <3>3. ExpCurve(v[2]) = curve
        BY <2>5, <3>2
      <3> QED BY <2>2, <2>3, <2>5, <3>1, <3>3 DEF Weights, LastPosition
    <2>7. 0 \in 0 .. pos
      OBVIOUS
    <2> QED BY <2>1, <2>2, <2>6, <2>7 DEF MixedExactly
  <1> QED BY <1>1, <1>2, VectorNextInv, PTL

-----------------------------------------------------------------------------
(* Sums over a finite set, as SumFunction folds them: in the order of a      *)
(* choice, which does not matter.                                            *)
Folds(f, g, D) ==
    f = [s \in SUBSET D |-> IF s = {} THEN 0
                            ELSE g[CHOOSE x \in s : TRUE] + f[s \ {CHOOSE x \in s : TRUE}]]

FoldsTo(f, g, D, n) ==
    f = [s \in {u \in SUBSET D : Cardinality(u) <= n} |->
           IF s = {} THEN 0
           ELSE g[CHOOSE x \in s : TRUE] + f[s \ {CHOOSE x \in s : TRUE}]]

LEMMA SmallerSet ==
    ASSUME NEW D, IsFiniteSet(D), NEW s \in SUBSET D, s # {}
    PROVE  /\ (CHOOSE x \in s : TRUE) \in s
           /\ \A x \in s : /\ s \ {x} \in SUBSET D
                           /\ Cardinality(s \ {x}) \in Nat
                           /\ Cardinality(s) = Cardinality(s \ {x}) + 1
  <1>1. IsFiniteSet(s)
    BY FS_Subset
  <1>2. ASSUME NEW x \in s
        PROVE  /\ s \ {x} \in SUBSET D /\ Cardinality(s \ {x}) \in Nat
               /\ Cardinality(s) = Cardinality(s \ {x}) + 1
    <2>1. IsFiniteSet(s \ {x}) /\ Cardinality(s \ {x}) = Cardinality(s) - 1
      BY <1>1, FS_RemoveElement
    <2>2. Cardinality(s \ {x}) \in Nat /\ Cardinality(s) \in Nat
      BY <1>1, <2>1, FS_CardinalityType
    <2> QED BY <2>1, <2>2
  <1> QED BY <1>2

LEMMA FoldsToExists ==
    ASSUME NEW D, IsFiniteSet(D), NEW g, NEW n \in Nat
    PROVE  \E f : FoldsTo(f, g, D, n)
  <1> DEFINE Missing == {k \in Nat : ~ \E f : FoldsTo(f, g, D, k)}
  <1> SUFFICES ASSUME Missing # {} PROVE FALSE
    OBVIOUS
  <1>1. PICK k \in Missing : \A j \in Missing : k <= j
    BY Least
  <1>2. CASE k = 0
    <2>1. PICK f : f = [s \in {u \in SUBSET D : Cardinality(u) <= 0} |-> 0]
      OBVIOUS
    <2>2. \A s \in {u \in SUBSET D : Cardinality(u) <= 0} : s = {}
      <3> TAKE s \in {u \in SUBSET D : Cardinality(u) <= 0}
      <3> SUFFICES ASSUME s # {} PROVE FALSE
        OBVIOUS
      <3>1. PICK x : x \in s
        OBVIOUS
      <3>2. Cardinality(s) = Cardinality(s \ {x}) + 1 /\ Cardinality(s \ {x}) \in Nat
        BY <3>1, SmallerSet
      <3> QED BY <3>2
    <2>3. FoldsTo(f, g, D, 0)
      BY <2>1, <2>2 DEF FoldsTo
    <2> QED BY <1>2, <2>3
  <1>3. CASE k # 0
    <2>1. k - 1 \in Nat /\ k - 1 \notin Missing
      BY <1>1, <1>3
    <2>2. PICK f : FoldsTo(f, g, D, k - 1)
      BY <2>1
    <2>3. PICK h : h = [s \in {u \in SUBSET D : Cardinality(u) <= k} |->
             IF s = {} THEN 0
             ELSE g[CHOOSE x \in s : TRUE] + f[s \ {CHOOSE x \in s : TRUE}]]
      OBVIOUS
    <2>4. ASSUME NEW s \in {u \in SUBSET D : Cardinality(u) <= k - 1}
          PROVE  h[s] = f[s]
      <3>1. Cardinality(s) \in Nat /\ Cardinality(s) <= k
        BY <1>1, FS_Subset, FS_CardinalityType
      <3>2. h[s] = IF s = {} THEN 0
                   ELSE g[CHOOSE x \in s : TRUE] + f[s \ {CHOOSE x \in s : TRUE}]
        BY <2>3, <3>1
      <3>3. f[s] = IF s = {} THEN 0
                   ELSE g[CHOOSE x \in s : TRUE] + f[s \ {CHOOSE x \in s : TRUE}]
        BY <2>2 DEF FoldsTo
      <3> QED BY <3>2, <3>3
    <2>5. ASSUME NEW s \in {u \in SUBSET D : Cardinality(u) <= k}, s # {}
          PROVE  f[s \ {CHOOSE x \in s : TRUE}] = h[s \ {CHOOSE x \in s : TRUE}]
      <3>1. PICK y \in s : y = CHOOSE x \in s : TRUE
        BY <2>5
      <3>2. s \ {y} \in {u \in SUBSET D : Cardinality(u) <= k - 1}
        <4>1. /\ s \ {y} \in SUBSET D /\ Cardinality(s \ {y}) \in Nat
              /\ Cardinality(s) = Cardinality(s \ {y}) + 1
          BY <2>5, <3>1, SmallerSet
        <4> QED BY <1>1, <4>1
      <3> QED BY <2>4, <3>1, <3>2
    <2>6. FoldsTo(h, g, D, k)
      <3>1. \A s \in {u \in SUBSET D : Cardinality(u) <= k} :
               h[s] = IF s = {} THEN 0
                      ELSE g[CHOOSE x \in s : TRUE] + h[s \ {CHOOSE x \in s : TRUE}]
        <4> TAKE s \in {u \in SUBSET D : Cardinality(u) <= k}
        <4>1. h[s] = IF s = {} THEN 0
                     ELSE g[CHOOSE x \in s : TRUE] + f[s \ {CHOOSE x \in s : TRUE}]
          BY <2>3
        <4>2. CASE s = {}
          BY <4>1, <4>2
        <4>3. CASE s # {}
          BY <2>5, <4>1, <4>3
        <4> QED BY <4>2, <4>3
      <3>2. h = [s \in {u \in SUBSET D : Cardinality(u) <= k} |-> h[s]]
        BY <2>3
      <3> QED BY <3>1, <3>2 DEF FoldsTo
    <2> QED BY <1>1, <2>6
  <1> QED BY <1>2, <1>3

LEMMA FoldsExists ==
    ASSUME NEW D, IsFiniteSet(D), NEW g
    PROVE  \E f : Folds(f, g, D)
  <1>1. PICK n \in Nat : n = Cardinality(D)
    BY FS_CardinalityType
  <1>2. {u \in SUBSET D : Cardinality(u) <= n} = SUBSET D
    BY <1>1, FS_Subset
  <1>3. PICK f : FoldsTo(f, g, D, n)
    BY FoldsToExists
  <1>4. Folds(f, g, D)
    BY <1>2, <1>3 DEF FoldsTo, Folds
  <1> QED BY <1>4

(* Whatever is chosen first, taking an element out takes its value out.      *)
LEMMA FoldsRemove ==
    ASSUME NEW D, IsFiniteSet(D), NEW g \in [D -> Nat], NEW f, Folds(f, g, D)
    PROVE  /\ f[{}] = 0
           /\ \A s \in SUBSET D : f[s] \in Nat
           /\ \A s \in SUBSET D : \A x \in s : f[s] = g[x] + f[s \ {x}]
  <1>1. f[{}] = 0
    BY DEF Folds
  <1>2. ASSUME NEW s \in SUBSET D, s # {}
        PROVE  \E y \in s : f[s] = g[y] + f[s \ {y}]
    BY <1>2 DEF Folds
  <1> DEFINE Good(s) == f[s] \in Nat /\ \A x \in s : f[s] = g[x] + f[s \ {x}]
             Bad == {n \in Nat : \E s \in SUBSET D : Cardinality(s) = n /\ ~ Good(s)}
  <1>3. SUFFICES ASSUME NEW t \in SUBSET D, ~ Good(t) PROVE FALSE
    BY <1>1
  <1>4. Cardinality(t) \in Bad
    BY <1>3, FS_Subset, FS_CardinalityType
  <1>5. PICK n \in Bad : \A k \in Bad : n <= k
    BY <1>4, Least
  <1>6. PICK s \in SUBSET D : Cardinality(s) = n /\ ~ Good(s)
    BY <1>5
  <1>7. ASSUME NEW u \in SUBSET D, Cardinality(u) \in Nat, Cardinality(u) < n
        PROVE  Good(u)
    BY <1>5, <1>7
  <1>8. s # {}
    BY <1>1, <1>6
  <1>9. PICK y \in s : f[s] = g[y] + f[s \ {y}]
    BY <1>2, <1>8
  <1>10. ASSUME NEW x \in s PROVE Good(s \ {x}) /\ s \ {x} \in SUBSET D
    <2>1. /\ s \ {x} \in SUBSET D /\ Cardinality(s \ {x}) \in Nat
          /\ Cardinality(s) = Cardinality(s \ {x}) + 1
      BY <1>8, SmallerSet
    <2>2. Cardinality(s \ {x}) < n
      BY <1>6, <2>1
    <2> QED BY <1>7, <2>1, <2>2
  <1>11. f[s] \in Nat
    <2>1. g[y] \in Nat
      OBVIOUS
    <2>2. f[s \ {y}] \in Nat
      BY <1>10
    <2> QED BY <1>9, <2>1, <2>2
  <1>12. ASSUME NEW x \in s PROVE f[s] = g[x] + f[s \ {x}]
    <2>1. CASE x = y
      BY <1>9, <2>1
    <2>2. CASE x # y
      <3>1. x \in s \ {y} /\ y \in s \ {x}
        BY <2>2
      <3>2. f[s \ {y}] = g[x] + f[(s \ {y}) \ {x}]
        BY <1>10, <3>1
      <3>3. f[s \ {x}] = g[y] + f[(s \ {x}) \ {y}]
        BY <1>10, <3>1
      <3>4. PICK u : u = (s \ {y}) \ {x}
        OBVIOUS
      <3>5. u = (s \ {x}) \ {y}
        BY <3>4
      <3>6. u \in SUBSET D /\ Good(s \ {x})
        BY <1>10, <3>4
      <3>7. g[x] \in Nat /\ g[y] \in Nat /\ f[s \ {x}] \in Nat
        BY <3>6
      <3>8. f[u] \in Nat
        <4>1. /\ Cardinality(s \ {x}) \in Nat /\ Cardinality(s) = Cardinality(s \ {x}) + 1
          BY <1>8, SmallerSet
        <4>2. /\ Cardinality(u) \in Nat /\ Cardinality(s \ {x}) = Cardinality(u) + 1
          <5>1. PICK v : v = s \ {x}
            OBVIOUS
          <5>2. v \in SUBSET D /\ y \in v /\ v # {} /\ u = v \ {y}
            BY <1>10, <3>1, <3>5, <5>1
          <5>3. Cardinality(u) \in Nat /\ Cardinality(v) = Cardinality(u) + 1
            BY <5>2, SmallerSet
          <5> QED BY <5>1, <5>3
        <4>3. Cardinality(u) < n
          BY <1>6, <4>1, <4>2
        <4> QED BY <1>7, <3>6, <4>2, <4>3
      <3>9. f[s] = g[y] + f[s \ {y}] /\ f[s \ {y}] = g[x] + f[u]
               /\ f[s \ {x}] = g[y] + f[u]
        BY <1>9, <3>2, <3>3, <3>4, <3>5
      <3> QED BY <3>7, <3>8, <3>9
    <2> QED BY <2>1, <2>2
  <1> QED BY <1>6, <1>11, <1>12

SumsTo(f, g, D) ==
    /\ f[{}] = 0 /\ SumFunction(g) = f[D]
    /\ \A s \in SUBSET D : f[s] \in Nat
    /\ \A s \in SUBSET D : \A x \in s : f[s] = g[x] + f[s \ {x}]

LEMMA SumFolds ==
    ASSUME NEW D, IsFiniteSet(D), NEW g \in [D -> Nat]
    PROVE  \E f : SumsTo(f, g, D)
  <1>1. \E f : Folds(f, g, D)
    BY FoldsExists
  <1>2. Folds(CHOOSE f : Folds(f, g, D), g, D)
    BY <1>1
  <1>3. SumFunction(g) = (CHOOSE f : Folds(f, g, D))[D]
    <2>1. DOMAIN g = D
      OBVIOUS
    <2> QED BY <2>1 DEF SumFunction, SumFunctionOnSet, FoldFunctionOnSet, MapThenFoldSet, Folds
  <1>4. PICK f : f = (CHOOSE h : Folds(h, g, D))
    OBVIOUS
  <1>5. Folds(f, g, D) /\ SumFunction(g) = f[D]
    BY <1>2, <1>3, <1>4
  <1>6. /\ f[{}] = 0
        /\ \A s \in SUBSET D : f[s] \in Nat
        /\ \A s \in SUBSET D : \A x \in s : f[s] = g[x] + f[s \ {x}]
    BY <1>5, FoldsRemove
  <1>7. SumsTo(f, g, D)
    BY <1>5, <1>6 DEF SumsTo
  <1> QED BY <1>7

-----------------------------------------------------------------------------
(* Chunks.  What a call that was let in has, and how its rows are cut. *)
RowsAtOnce(c, m) == IF Parallel(c) THEN ChunkRows(c) ELSE c.rows[m]

LEMMA ValidFacts ==
    ASSUME NEW c \in Calls, Valid(c)
    PROVE  /\ c.rows \in Seq(Nat) /\ Len(c.rows) \in Nat /\ DOMAIN c.rows = 1 .. Len(c.rows)
           /\ \A m \in 1 .. Len(c.rows) : c.rows[m] \in Nat \ {0}
           /\ c.cols \in Nat \ {0} /\ c.groupSize \in Nat \ {0} /\ c.tokens \in Nat \ {0}
           /\ c.avx2 \in BOOLEAN
           /\ c.kind \in {"matvec", "fused", "matmul", "legacy", "lm_head"}
           /\ c.kind \in {"matmul", "legacy"} \/ c.tokens = 1
  <1>1. /\ c.rows \in Seq(Nat) /\ c.cols \in Nat /\ c.groupSize \in Nat /\ c.tokens \in Nat
        /\ c.avx2 \in BOOLEAN
        /\ c.kind \in {"matvec", "fused", "matmul", "legacy", "lm_head"}
        /\ c.kind \in {"matmul", "legacy"} \/ c.tokens = 1
    BY KernelsAssumption
  <1>2. PICK r \in Seq(Nat) : r = c.rows
    BY <1>1
  <1>3. Len(r) \in Nat /\ DOMAIN r = 1 .. Len(r) /\ \A m \in 1 .. Len(r) : r[m] \in Nat
    OBVIOUS
  <1>4. /\ \A m \in DOMAIN r : r[m] > 0
        /\ c.cols > 0 /\ c.groupSize > 0 /\ c.tokens > 0
    BY <1>2 DEF Valid
  <1>5. \A m \in 1 .. Len(r) : r[m] \in Nat \ {0}
    BY <1>3, <1>4
  <1>6. c.cols \in Nat \ {0} /\ c.groupSize \in Nat \ {0} /\ c.tokens \in Nat \ {0}
    BY <1>1, <1>4
  <1> QED BY <1>1, <1>2, <1>3, <1>5, <1>6

LEMMA RowsAtOnceType ==
    ASSUME NEW c \in Calls, Valid(c), NEW m \in 1 .. Len(c.rows)
    PROVE  RowsAtOnce(c, m) \in Nat \ {0}
  <1>1. c.rows[m] \in Nat \ {0}
    BY ValidFacts
  <1>2. ChunkRows(c) \in Nat \ {0}
    <2>1. PICK half : half = IF Half(c) > 0 THEN Half(c) ELSE 1
      OBVIOUS
    <2>2. half \in Nat \ {0}
      <3>1. PICK n \in Nat : n = c.cols
        BY ValidFacts
      <3>2. n \div 2 \in Nat
        BY <3>1
      <3> QED BY <2>1, <3>1, <3>2 DEF Half
    <2>3. ChunkBytes \in Nat /\ ChunkBytes \div half \in Nat
      BY <2>2, Blocks, KernelsAssumption
    <2>4. PICK fits \in Nat : fits = ChunkBytes \div half
      BY <2>3
    <2>5. ChunkRows(c) = IF c.kind = "lm_head" THEN LmChunk
                         ELSE IF fits < MinChunk THEN MinChunk ELSE AtMost(fits, MaxChunk)
      BY <2>1, <2>4 DEF ChunkRows
    <2>6. LmChunk \in Nat \ {0} /\ MinChunk \in Nat \ {0} /\ MaxChunk \in Nat /\ MinChunk <= MaxChunk
      BY KernelsAssumption
    <2> QED BY <2>5, <2>6 DEF AtMost
  <1> QED BY <1>1, <1>2 DEF RowsAtOnce

(* As many chunks as are needed: the last one begins inside the matrix, and  *)
(* every row is in one.                                                      *)
LEMMA ChunkCount ==
    ASSUME NEW c \in Calls, Valid(c), NEW m \in 1 .. Len(c.rows)
    PROVE  /\ ChunksOf(c, m) \in Nat \ {0}
           /\ \A j \in 0 .. ChunksOf(c, m) - 1 :
                 j * RowsAtOnce(c, m) \in 0 .. c.rows[m] - 1
           /\ \A row \in 0 .. c.rows[m] - 1 :
                 row \div RowsAtOnce(c, m) \in 0 .. ChunksOf(c, m) - 1
  <1>1. PICK r \in Nat \ {0} : r = c.rows[m]
    BY ValidFacts
  <1>2. PICK w \in Nat \ {0} : w = RowsAtOnce(c, m)
    BY RowsAtOnceType
  <1>3. PICK n : n = ChunksOf(c, m)
    OBVIOUS
  <1>4. n \in Nat /\ n * w >= r /\ n * w < r + w
    <2>1. CASE Parallel(c)
      <3>1. n = (r + w - 1) \div w
        BY <1>1, <1>2, <1>3, <2>1 DEF ChunksOf, CeilDiv, RowsAtOnce
      <3>2. PICK k \in Nat : k = r + w - 1
        BY <1>1, <1>2
      <3>3. k \div w \in Nat /\ k % w \in 0 .. w - 1 /\ k = (k \div w) * w + (k % w)
        BY <1>2, Blocks
      <3>4. n \in Nat /\ n * w \in Nat
        BY <3>1, <3>2, <3>3
      <3>5. PICK p \in Nat, q \in 0 .. w - 1 : p = n * w /\ q = k % w
        BY <3>3, <3>4
      <3>6. k = p + q
        BY <3>1, <3>2, <3>3, <3>5
      <3>7. p >= r /\ p < r + w
        BY <3>2, <3>5, <3>6
      <3> QED BY <3>4, <3>5, <3>7
    <2>2. CASE ~ Parallel(c)
      <3>1. n = 1 /\ w = r
        BY <1>1, <1>2, <1>3, <2>2 DEF ChunksOf, RowsAtOnce
      <3> QED BY <3>1
    <2> QED BY <2>1, <2>2
  <1>5. n # 0
    BY <1>4
  <1>6. ASSUME NEW j \in 0 .. n - 1 PROVE j * w \in 0 .. r - 1
    <2>1. PICK d \in Nat : n = j + 1 + d
      <3>1. n - j - 1 \in Nat /\ n = j + 1 + (n - j - 1)
        BY <1>4
      <3> QED BY <3>1
    <2>2. n * w = j * w + w + d * w /\ j * w \in Nat /\ d * w \in Nat /\ n * w \in Nat
      BY <1>4, <2>1
    <2> QED BY <1>4, <2>2
  <1>7. ASSUME NEW row \in 0 .. r - 1 PROVE row \div w \in 0 .. n - 1
    <2>1. row \div w \in Nat /\ row % w \in 0 .. w - 1 /\ row = (row \div w) * w + (row % w)
      <3>1. row \in Nat
        OBVIOUS
      <3> QED BY <1>2, <3>1, Blocks
    <2>2. PICK a \in Nat : a = row \div w
      BY <2>1
    <2>3. a * w <= row
      <3>1. PICK p \in Nat, q \in Nat : p = a * w /\ q = row % w
        BY <2>1, <2>2
      <3>2. row = p + q
        BY <2>1, <2>2, <3>1
      <3> QED BY <3>1, <3>2
    <2>4. a < n
      <3> SUFFICES ASSUME n <= a PROVE FALSE
        BY <1>4
      <3>1. PICK d \in Nat : a = n + d
        <4>1. a - n \in Nat /\ a = n + (a - n)
          BY <1>4
        <4> QED BY <4>1
      <3>2. a * w = n * w + d * w /\ d * w \in Nat /\ n * w \in Nat
        BY <1>4, <3>1
      <3> QED BY <1>4, <2>3, <3>2
    <2> QED BY <1>4, <2>2, <2>4
  <1> QED BY <1>1, <1>2, <1>3, <1>4, <1>5, <1>6, <1>7

(* Where the chunks of each matrix begin. *)
Offsets(f, c) ==
    f = [m \in 1 .. Len(c.rows) |-> IF m = 1 THEN 0 ELSE f[m - 1] + ChunksOf(c, m - 1)]

InMatrix(f, c, m, i) == f[m] <= i /\ i < f[m] + ChunksOf(c, m)

LEMMA OffsetsUnique ==
    ASSUME NEW c, Len(c.rows) \in Nat, NEW f, Offsets(f, c), NEW g, Offsets(g, c)
    PROVE  f = g
  <1> DEFINE Differ == {m \in 1 .. Len(c.rows) : f[m] # g[m]}
  <1>1. /\ f = [m \in 1 .. Len(c.rows) |-> f[m]] /\ g = [m \in 1 .. Len(c.rows) |-> g[m]]
        /\ \A m \in 1 .. Len(c.rows) :
              /\ f[m] = IF m = 1 THEN 0 ELSE f[m - 1] + ChunksOf(c, m - 1)
              /\ g[m] = IF m = 1 THEN 0 ELSE g[m - 1] + ChunksOf(c, m - 1)
    BY DEF Offsets
  <1> SUFFICES ASSUME Differ # {} PROVE FALSE
    BY <1>1
  <1>2. Differ \in SUBSET Nat
    OBVIOUS
  <1>3. PICK d \in Differ : \A i \in Differ : d <= i
    BY <1>2, Least
  <1>4. d \in 1 .. Len(c.rows) /\ d \in Nat /\ f[d] # g[d]
    BY <1>3
  <1>5. d # 1 => f[d - 1] = g[d - 1]
    <2> SUFFICES ASSUME d # 1, f[d - 1] # g[d - 1] PROVE FALSE
      OBVIOUS
    <2>1. d - 1 \in Differ
      BY <1>4
    <2>2. d <= d - 1
      BY <1>3, <2>1
    <2> QED BY <1>4, <2>2
  <1>6. CASE d = 1
    BY <1>1, <1>4, <1>6
  <1>7. CASE d # 1
    <2>1. f[d] = f[d - 1] + ChunksOf(c, d - 1) /\ g[d] = g[d - 1] + ChunksOf(c, d - 1)
      BY <1>1, <1>4, <1>7
    <2> QED BY <1>4, <1>5, <1>7, <2>1
  <1> QED BY <1>6, <1>7

(* The chunks are numbered through: each number is in one matrix. *)
LEMMA Numbering ==
    ASSUME NEW c \in Calls, Valid(c)
    PROVE  \E f : /\ Offsets(f, c)
                  /\ TotalChunks(c) \in Nat
                  /\ \A m \in 1 .. Len(c.rows) :
                        f[m] \in Nat /\ f[m] + ChunksOf(c, m) <= TotalChunks(c)
                  /\ \A i \in 0 .. TotalChunks(c) - 1 :
                        \E m \in 1 .. Len(c.rows) : InMatrix(f, c, m, i)
                  /\ \A i \in Nat : \A m, k \in 1 .. Len(c.rows) :
                        InMatrix(f, c, m, i) /\ InMatrix(f, c, k, i) => m = k
  <1>1. PICK n \in Nat : n = Len(c.rows) /\ DOMAIN c.rows = 1 .. n
    BY ValidFacts
  <1>2. PICK g : g = [m \in DOMAIN c.rows |-> ChunksOf(c, m)]
    OBVIOUS
  <1>3. g \in [1 .. n -> Nat] /\ \A m \in 1 .. n : g[m] = ChunksOf(c, m)
    <2>1. \A m \in 1 .. n : ChunksOf(c, m) \in Nat
      BY <1>1, ChunkCount
    <2> QED BY <1>1, <1>2, <2>1
  <1>4. IsFiniteSet(1 .. n)
    BY FS_Interval
  <1>5. PICK F : /\ F[{}] = 0 /\ SumFunction(g) = F[1 .. n]
                 /\ \A s \in SUBSET (1 .. n) : F[s] \in Nat
                 /\ \A s \in SUBSET (1 .. n) : \A x \in s : F[s] = g[x] + F[s \ {x}]
    <2>1. PICK D : D = 1 .. n
      OBVIOUS
    <2>2. IsFiniteSet(D) /\ g \in [D -> Nat]
      BY <1>3, <1>4, <2>1
    <2>3. \E f : SumsTo(f, g, D)
      BY <2>2, SumFolds
    <2> QED BY <2>1, <2>3 DEF SumsTo
  <1>6. PICK up : up = [m \in 0 .. n |-> F[1 .. m]]
    OBVIOUS
  <1>7. /\ up[0] = 0 /\ up[n] = TotalChunks(c)
        /\ \A m \in 0 .. n : up[m] \in Nat
    <2>1. 1 .. 0 = {}
      OBVIOUS
    <2>2. \A m \in 0 .. n : 1 .. m \in SUBSET (1 .. n)
      OBVIOUS
    <2>3. TotalChunks(c) = SumFunction(g)
      BY <1>2 DEF TotalChunks
    <2> QED BY <1>5, <1>6, <2>1, <2>2, <2>3
  <1>8. \A m \in 1 .. n : up[m] = up[m - 1] + ChunksOf(c, m)
    <2> TAKE m \in 1 .. n
    <2>1. PICK s : s = 1 .. m
      OBVIOUS
    <2>2. s \in SUBSET (1 .. n) /\ m \in s /\ s \ {m} = 1 .. m - 1
      BY <2>1
    <2>3. F[s] = g[m] + F[s \ {m}]
      BY <1>5, <2>2
    <2>4. up[m] = F[s] /\ up[m - 1] = F[s \ {m}] /\ m - 1 \in 0 .. n /\ m \in 0 .. n
      <3>1. m - 1 \in 0 .. n /\ m \in 0 .. n
        OBVIOUS
      <3>2. up[m] = F[1 .. m] /\ up[m - 1] = F[1 .. m - 1]
        BY <1>6, <3>1
      <3> QED BY <2>1, <2>2, <3>1, <3>2
    <2>5. PICK a \in Nat, b \in Nat, d \in Nat :
            a = up[m] /\ b = up[m - 1] /\ d = ChunksOf(c, m)
      BY <1>3, <1>7, <2>4
    <2>6. a = d + b
      BY <1>3, <2>3, <2>4, <2>5
    <2> QED BY <2>5, <2>6
  <1>9. ASSUME NEW a \in 0 .. n, NEW b \in 0 .. n, a <= b PROVE up[a] <= up[b]
    <2> DEFINE Bad == {k \in 0 .. n : a <= k /\ ~(up[a] <= up[k])}
    <2> SUFFICES ASSUME Bad # {} PROVE FALSE
      BY <1>9
    <2>1. Bad \in SUBSET Nat
      OBVIOUS
    <2>2. PICK k \in Bad : \A j \in Bad : k <= j
      BY <2>1, Least
    <2>3. k # a /\ k \in 0 .. n /\ a <= k
      BY <1>7, <2>2
    <2>4. k - 1 \in 0 .. n /\ a <= k - 1 /\ k \in 1 .. n
      BY <2>3
    <2>5. k - 1 \notin Bad
      BY <2>2, <2>3
    <2>6. up[a] <= up[k - 1]
      BY <2>4, <2>5
    <2>7. PICK x \in Nat, y \in Nat, d \in Nat :
            x = up[k - 1] /\ y = up[a] /\ d = ChunksOf(c, k)
      BY <1>3, <1>7, <2>4
    <2>8. y <= x /\ up[k] = x + d
      BY <1>8, <2>4, <2>6, <2>7
    <2>9. up[a] <= up[k]
      BY <2>7, <2>8
    <2> QED BY <2>2, <2>9
  <1>10. PICK f : f = [m \in 1 .. n |-> up[m - 1]]
    OBVIOUS
  <1>11. \A m \in 1 .. n : /\ f[m] = up[m - 1] /\ m - 1 \in 0 .. n /\ f[m] \in Nat
                           /\ f[m] + ChunksOf(c, m) = up[m]
    BY <1>7, <1>8, <1>10
  <1>12. Offsets(f, c)
    <2>1. ASSUME NEW m \in 1 .. n
          PROVE  f[m] = IF m = 1 THEN 0 ELSE f[m - 1] + ChunksOf(c, m - 1)
      <3>1. CASE m = 1
        BY <1>7, <1>11, <3>1
      <3>2. CASE m # 1
        <4>1. m - 1 \in 1 .. n
          BY <3>2
        <4> QED BY <1>11, <3>2, <4>1
      <3> QED BY <3>1, <3>2
    <2>2. f = [m \in 1 .. n |-> f[m]]
      BY <1>10
    <2> QED BY <1>1, <2>1, <2>2 DEF Offsets
  <1>13. \A m \in 1 .. n : f[m] \in Nat /\ f[m] + ChunksOf(c, m) <= TotalChunks(c)
    <2> TAKE m \in 1 .. n
    <2>1. m \in 0 .. n /\ n \in 0 .. n /\ m <= n
      OBVIOUS
    <2>2. up[m] <= up[n]
      BY <1>9, <2>1
    <2> QED BY <1>7, <1>11, <2>2
  <1>14. ASSUME NEW i \in 0 .. TotalChunks(c) - 1
         PROVE  \E m \in 1 .. n : InMatrix(f, c, m, i)
    <2> DEFINE T == {m \in 0 .. n : i < up[m]}
    <2>1. n \in T /\ T \in SUBSET Nat
      BY <1>7
    <2>2. PICK m \in T : \A k \in T : m <= k
      BY <2>1, Least
    <2>3. m # 0 /\ m \in 0 .. n /\ i < up[m]
      BY <1>7, <2>2
    <2>4. m \in 1 .. n /\ m - 1 \in 0 .. n /\ m - 1 \notin T
      BY <2>2, <2>3
    <2>5. up[m - 1] <= i
      BY <1>7, <2>4
    <2> QED BY <1>11, <2>3, <2>4, <2>5 DEF InMatrix
  <1>15. ASSUME NEW i \in Nat, NEW m \in 1 .. n, NEW k \in 1 .. n,
                InMatrix(f, c, m, i), InMatrix(f, c, k, i)
         PROVE  ~ (m < k)
    <2> SUFFICES ASSUME m < k PROVE FALSE
      OBVIOUS
    <2>1. i < up[m] /\ up[k - 1] <= i
      BY <1>11, <1>15 DEF InMatrix
    <2>2. m \in 0 .. n /\ k - 1 \in 0 .. n /\ m <= k - 1
      OBVIOUS
    <2>3. up[m] <= up[k - 1] /\ up[m] \in Nat /\ up[k - 1] \in Nat
      BY <1>7, <1>9, <2>2
    <2> QED BY <2>1, <2>3
  <1>16. ASSUME NEW i \in Nat, NEW m \in 1 .. n, NEW k \in 1 .. n,
                InMatrix(f, c, m, i), InMatrix(f, c, k, i)
         PROVE  m = k
    <2>1. ~(m < k) /\ ~(k < m)
      BY <1>15, <1>16
    <2> QED BY <2>1
  <1>17. n = Len(c.rows) /\ TotalChunks(c) \in Nat
    BY <1>1, <1>7
  <1> QED BY <1>12, <1>13, <1>14, <1>16, <1>17

(* So a chunk has its matrix, and its rows there, and no other has them.     *)
Placed(f, c) ==
    /\ TotalChunks(c) \in Nat
    /\ \A m \in 1 .. Len(c.rows) :
          f[m] \in Nat /\ f[m] + ChunksOf(c, m) <= TotalChunks(c)
    /\ \A i \in 0 .. TotalChunks(c) - 1 :
          \E m \in 1 .. Len(c.rows) :
             /\ InMatrix(f, c, m, i)
             /\ ChunkInMatrix(c, i) = [matrix |-> m, start |-> (i - f[m]) * RowsAtOnce(c, m)]
    /\ \A i \in Nat : \A m, k \in 1 .. Len(c.rows) :
          InMatrix(f, c, m, i) /\ InMatrix(f, c, k, i) => m = k

LEMMA Places ==
    ASSUME NEW c \in Calls, Valid(c)
    PROVE  \E f : Placed(f, c)
  <1>1. PICK f : /\ Offsets(f, c)
                 /\ TotalChunks(c) \in Nat
                 /\ \A m \in 1 .. Len(c.rows) :
                       f[m] \in Nat /\ f[m] + ChunksOf(c, m) <= TotalChunks(c)
                 /\ \A i \in 0 .. TotalChunks(c) - 1 :
                       \E m \in 1 .. Len(c.rows) : InMatrix(f, c, m, i)
                 /\ \A i \in Nat : \A m, k \in 1 .. Len(c.rows) :
                       InMatrix(f, c, m, i) /\ InMatrix(f, c, k, i) => m = k
    BY Numbering
  <1>2. Len(c.rows) \in Nat /\ DOMAIN c.rows = 1 .. Len(c.rows)
    BY ValidFacts
  <1>3. (CHOOSE g : Offsets(g, c)) = f
    <2>1. Offsets(CHOOSE g : Offsets(g, c), c)
      BY <1>1
    <2> QED BY <1>1, <1>2, <2>1, OffsetsUnique
  <1>4. ASSUME NEW i \in 0 .. TotalChunks(c) - 1
        PROVE  \E m \in 1 .. Len(c.rows) :
                 /\ InMatrix(f, c, m, i)
                 /\ ChunkInMatrix(c, i) = [matrix |-> m, start |-> (i - f[m]) * RowsAtOnce(c, m)]
    <2>1. PICK m \in 1 .. Len(c.rows) : InMatrix(f, c, m, i)
      BY <1>1
    <2>2. PICK h : h = CHOOSE g : Offsets(g, c)
      OBVIOUS
    <2>3. PICK k : k = CHOOSE x \in DOMAIN c.rows : h[x] <= i /\ i < h[x] + ChunksOf(c, x)
      OBVIOUS
    <2>4. k \in DOMAIN c.rows /\ InMatrix(f, c, k, i)
      BY <1>2, <1>3, <2>1, <2>2, <2>3 DEF InMatrix
    <2>5. i \in Nat
      BY <1>1
    <2>6. k = m
      BY <1>1, <1>2, <2>1, <2>4, <2>5
    <2>7. ChunkInMatrix(c, i)
            = [matrix |-> k, start |-> (i - h[k]) * (IF Parallel(c) THEN ChunkRows(c) ELSE c.rows[k])]
      BY <2>2, <2>3 DEF ChunkInMatrix, Offsets
    <2>8. ChunkInMatrix(c, i) = [matrix |-> m, start |-> (i - f[m]) * RowsAtOnce(c, m)]
      BY <1>3, <2>2, <2>6, <2>7 DEF RowsAtOnce
    <2> QED BY <2>1, <2>8
  <1> QED BY <1>1, <1>4 DEF Placed

-----------------------------------------------------------------------------
(* A tile and a single token.  The two programs for a group do the same to   *)
(* an accumulator, token by token.                                           *)
WideBlocks(c, row, t, g) ==
    UNION { Block(c, row, t, g, b * Wide, Wide) : b \in 0 .. GroupLen(c, g) \div Wide - 1 }

Accumulated(c, row, t, acc, g, done, rest) ==
    AddIf(rest < GroupLen(c, g),
          AddIf(done + Wide \div 2 <= GroupLen(c, g),
                Append(acc, ScaledStep(g, g, WideBlocks(c, row, t, g))),
                ScaledStep(g, g, Block(c, row, t, g, done, Wide \div 2))),
          ScaledStep(g, "none", Pairs(c, row, t, g, rest)))

LEMMA GroupsAgree ==
    ASSUME NEW c \in Calls, Valid(c), NEW row, NEW base, NEW size, NEW accs,
           NEW g \in Nat, NEW j \in 0 .. size - 1
    PROVE  TileGroup(c, row, base, size, accs, g)[j]
             = MatvecGroup(c, row, base + j, accs[j], g)
  <1>1. PICK len \in Int : len = GroupLen(c, g)
    <2>1. PICK cols \in Nat, gs \in Nat : cols = c.cols /\ gs = c.groupSize
      BY ValidFacts
    <2>2. g * gs \in Int /\ (g + 1) * gs \in Int
      BY <2>1
    <2> QED BY <2>1, <2>2 DEF GroupLen, GroupStart, AtMost
  <1>2. PICK done \in Int : done = (len \div Wide) * Wide
    <2>1. Wide \in Nat \ {0}
      BY KernelsAssumption
    <2>2. len \div Wide \in Int
      BY <2>1
    <2> QED BY <2>1, <2>2
  <1>3. PICK half \in Int : half = Wide \div 2
    <2>1. Wide \in Nat
      BY KernelsAssumption
    <2> QED BY <2>1
  <1>4. PICK rest : rest = IF done + half <= len THEN done + half ELSE done
    OBVIOUS
  <1>5. rest = done + (IF done + half <= len THEN half ELSE 0)
    BY <1>4
  <1>6. MatvecGroup(c, row, base + j, accs[j], g)
          = Accumulated(c, row, base + j, accs[j], g, done, rest)
    BY <1>1, <1>2, <1>3, <1>4 DEF MatvecGroup, Accumulated, WideBlocks
  <1>7. TileGroup(c, row, base, size, accs, g)[j]
          = Accumulated(c, row, base + j, accs[j], g, done, rest)
    BY <1>1, <1>2, <1>3, <1>5 DEF TileGroup, Accumulated, WideBlocks
  <1> QED BY <1>6, <1>7

LEMMA GroupsType ==
    ASSUME NEW c \in Calls, Valid(c)
    PROVE  NumGroups(c) \in Nat
  <1>1. PICK cols \in Nat \ {0}, gs \in Nat \ {0} : cols = c.cols /\ gs = c.groupSize
    BY ValidFacts
  <1>2. PICK k \in Nat : k = cols + gs - 1
    BY <1>1
  <1>3. k \div gs \in Nat
    BY <1>1, Blocks
  <1> QED BY <1>1, <1>2, <1>3 DEF NumGroups, CeilDiv

MatvecRec(f, c, row, t, n) ==
    f = [k \in 0 .. n |-> IF k = 0 THEN <<>> ELSE MatvecGroup(c, row, t, f[k - 1], k - 1)]

TileRec(f, c, row, base, size, n) ==
    f = [k \in 0 .. n |-> IF k = 0 THEN [j \in 0 .. size - 1 |-> <<>>]
                          ELSE TileGroup(c, row, base, size, f[k - 1], k - 1)]

LEMMA MatvecExists ==
    ASSUME NEW c, NEW row, NEW t, NEW n \in Nat
    PROVE  \E f : MatvecRec(f, c, row, t, n)
  <1> DEFINE Missing == {k \in Nat : ~ \E f : MatvecRec(f, c, row, t, k)}
  <1> SUFFICES ASSUME Missing # {} PROVE FALSE
    OBVIOUS
  <1>1. PICK m \in Missing : \A k \in Missing : m <= k
    BY Least
  <1>2. m # 0
    <2>1. PICK f : f = [k \in 0 .. 0 |-> <<>>]
      OBVIOUS
    <2>2. MatvecRec(f, c, row, t, 0)
      BY <2>1 DEF MatvecRec
    <2> QED BY <2>2
  <1>3. m - 1 \in Nat /\ m - 1 \notin Missing
    BY <1>1, <1>2
  <1>4. PICK f : MatvecRec(f, c, row, t, m - 1)
    BY <1>3
  <1>5. \A k \in 0 .. m - 1 :
           f[k] = IF k = 0 THEN <<>> ELSE MatvecGroup(c, row, t, f[k - 1], k - 1)
    BY <1>4 DEF MatvecRec
  <1> DEFINE g == [k \in 0 .. m |-> IF k <= m - 1 THEN f[k]
                                    ELSE MatvecGroup(c, row, t, f[k - 1], k - 1)]
  <1>6. \A k \in 0 .. m :
           g[k] = IF k = 0 THEN <<>> ELSE MatvecGroup(c, row, t, g[k - 1], k - 1)
    <2> TAKE k \in 0 .. m
    <2>1. k # 0 => k - 1 \in 0 .. m /\ k - 1 <= m - 1 /\ g[k - 1] = f[k - 1]
      BY <1>1
    <2>2. CASE k <= m - 1
      <3>1. g[k] = f[k] /\ k \in 0 .. m - 1
        BY <1>1, <2>2
      <3> QED BY <1>5, <2>1, <3>1
    <2>3. CASE ~ (k <= m - 1)
      <3>1. g[k] = MatvecGroup(c, row, t, f[k - 1], k - 1) /\ k # 0
        BY <1>1, <1>2, <2>3
      <3> QED BY <2>1, <3>1
    <2> QED BY <2>2, <2>3
  <1>7. PICK h : h = g
    OBVIOUS
  <1>8. h = [k \in 0 .. m |-> h[k]]
    BY <1>7
  <1>9. \A k \in 0 .. m :
           h[k] = IF k = 0 THEN <<>> ELSE MatvecGroup(c, row, t, h[k - 1], k - 1)
    BY <1>6, <1>7
  <1>10. MatvecRec(h, c, row, t, m)
    BY <1>8, <1>9 DEF MatvecRec
  <1> QED BY <1>1, <1>10

LEMMA TileUnique ==
    ASSUME NEW c, NEW row, NEW base, NEW size, NEW n \in Nat,
           NEW f, TileRec(f, c, row, base, size, n), NEW g, TileRec(g, c, row, base, size, n)
    PROVE  f = g
  <1> DEFINE Differ == {m \in 0 .. n : f[m] # g[m]}
  <1>1. /\ f = [m \in 0 .. n |-> f[m]] /\ g = [m \in 0 .. n |-> g[m]]
        /\ \A m \in 0 .. n :
              /\ f[m] = IF m = 0 THEN [j \in 0 .. size - 1 |-> <<>>]
                        ELSE TileGroup(c, row, base, size, f[m - 1], m - 1)
              /\ g[m] = IF m = 0 THEN [j \in 0 .. size - 1 |-> <<>>]
                        ELSE TileGroup(c, row, base, size, g[m - 1], m - 1)
    BY DEF TileRec
  <1> SUFFICES ASSUME Differ # {} PROVE FALSE
    BY <1>1
  <1>2. Differ \in SUBSET Nat
    OBVIOUS
  <1>3. PICK d \in Differ : \A i \in Differ : d <= i
    BY <1>2, Least
  <1>4. d \in 0 .. n /\ d \in Nat /\ f[d] # g[d]
    BY <1>3
  <1>5. d # 0 => f[d - 1] = g[d - 1]
    <2> SUFFICES ASSUME d # 0, f[d - 1] # g[d - 1] PROVE FALSE
      OBVIOUS
    <2>1. d - 1 \in Differ
      BY <1>4
    <2>2. d <= d - 1
      BY <1>3, <2>1
    <2> QED BY <1>4, <2>2
  <1> QED BY <1>1, <1>4, <1>5

(* A row of a tile is, for each of its tokens, the row of that token alone.  *)
LEMMA TileIsMatvec ==
    ASSUME NEW c \in Calls, Valid(c), NEW row, NEW base, NEW size, NEW j \in 0 .. size - 1
    PROVE  TileRow(c, row, base, size)[j] = MatvecRow(c, row, base + j)
  <1>1. PICK n \in Nat : n = NumGroups(c)
    BY GroupsType
  <1>2. PICK single : single = [i \in 0 .. size - 1 |-> CHOOSE f : MatvecRec(f, c, row, base + i, n)]
    OBVIOUS
  <1>3. ASSUME NEW i \in 0 .. size - 1 PROVE MatvecRec(single[i], c, row, base + i, n)
    BY <1>2, MatvecExists
  <1>4. PICK h : h = [k \in 0 .. n |-> [i \in 0 .. size - 1 |-> single[i][k]]]
    OBVIOUS
  <1>5. ASSUME NEW k \in 0 .. n
        PROVE  h[k] = IF k = 0 THEN [i \in 0 .. size - 1 |-> <<>>]
                      ELSE TileGroup(c, row, base, size, h[k - 1], k - 1)
    <2>1. \A i \in 0 .. size - 1 :
             h[k][i] = IF k = 0 THEN <<>>
                       ELSE MatvecGroup(c, row, base + i, single[i][k - 1], k - 1)
      <3> TAKE i \in 0 .. size - 1
      <3>1. single[i][k] = IF k = 0 THEN <<>>
                           ELSE MatvecGroup(c, row, base + i, single[i][k - 1], k - 1)
        BY <1>3 DEF MatvecRec
      <3> QED BY <1>4, <3>1
    <2>2. h[k] = [i \in 0 .. size - 1 |-> h[k][i]]
      BY <1>4
    <2>3. CASE k = 0
      BY <2>1, <2>2, <2>3
    <2>4. CASE k # 0
      <3>1. k - 1 \in 0 .. n /\ k - 1 \in Nat
        BY <2>4
      <3>2. PICK T : T = TileGroup(c, row, base, size, h[k - 1], k - 1)
        OBVIOUS
      <3>3. T = [i \in 0 .. size - 1 |-> T[i]]
        BY <3>2 DEF TileGroup
      <3>4. \A i \in 0 .. size - 1 : T[i] = h[k][i]
        <4> TAKE i \in 0 .. size - 1
        <4>1. h[k - 1][i] = single[i][k - 1]
          BY <1>4, <3>1
        <4>2. T[i] = MatvecGroup(c, row, base + i, h[k - 1][i], k - 1)
          BY <3>1, <3>2, GroupsAgree
        <4> QED BY <2>1, <2>4, <4>1, <4>2
      <3>5. T = h[k]
        BY <2>2, <3>3, <3>4
      <3> QED BY <2>4, <3>2, <3>5
    <2> QED BY <2>3, <2>4
  <1>6. TileRec(h, c, row, base, size, n)
    <2>1. h = [k \in 0 .. n |-> h[k]]
      BY <1>4
    <2> QED BY <1>5, <2>1 DEF TileRec
  <1>7. (CHOOSE f : TileRec(f, c, row, base, size, n)) = h
    <2>1. TileRec(CHOOSE f : TileRec(f, c, row, base, size, n), c, row, base, size, n)
      BY <1>6
    <2> QED BY <1>6, <2>1, TileUnique
  <1>8. TileRow(c, row, base, size)
          = [i \in 0 .. size - 1 |-> [dot |-> h[n][i], zero |-> ZeroPart(c, row, base + i)]]
    <2>1. TileRow(c, row, base, size)
            = LET f == CHOOSE f : TileRec(f, c, row, base, size, n)
              IN  [i \in 0 .. size - 1 |-> [dot |-> f[n][i], zero |-> ZeroPart(c, row, base + i)]]
      BY <1>1 DEF TileRow, TileRec
    <2> QED BY <1>7, <2>1
  <1>9. MatvecRow(c, row, base + j)
          = [dot |-> (CHOOSE f : MatvecRec(f, c, row, base + j, n))[n],
             zero |-> ZeroPart(c, row, base + j)]
    BY <1>1 DEF MatvecRow, MatvecRec
  <1>10. h[n][j] = (CHOOSE f : MatvecRec(f, c, row, base + j, n))[n]
    BY <1>2, <1>4
  <1> QED BY <1>8, <1>9, <1>10

-----------------------------------------------------------------------------
(* The inputs a call prepared, and so what a row of it is, stay.             *)
LEMMA SameValues ==
    ASSUME UNCHANGED <<call, buffers>>
    PROVE  \A row : RowValues(call, row)' = RowValues(call, row)
  <1>1. \A row : MatvecValues(call, row)' = MatvecValues(call, row)
    BY DEF MatvecValues, MatvecRow, MatvecGroup, ScalarRow, Block, Split, ZeroPart, GroupLen,
           GroupStart, Pairs, Code, Float, NumGroups, Half, AddIf, ScaledStep
  <1>2. \A row : LmHeadValues(call, row)' = LmHeadValues(call, row)
    BY DEF LmHeadValues, LmHeadRow, ScalarRow, ZeroPart, GroupLen, GroupStart, Pairs, Code,
           Float, NumGroups, Half, AddIf, ScaledStep
  <1>3. \A row : MatmulValues(call, row)' = MatmulValues(call, row)
    BY DEF MatmulValues, MatvecValues, MatvecRow, MatvecGroup, TileRow, TileGroup, ScalarRow,
           Block, Split, ZeroPart, GroupLen, GroupStart, Pairs, Code, Float, NumGroups, Half,
           AddIf, ScaledStep
  <1> QED BY <1>1, <1>2, <1>3 DEF RowValues

LEMMA SameStores ==
    ASSUME UNCHANGED <<call, buffers>>
    PROVE  \A i : ChunkStores(call, i)' = ChunkStores(call, i)
  <1>1. \A i : ChunkInMatrix(call, i)' = ChunkInMatrix(call, i)
    BY DEF ChunkInMatrix, ChunksOf, Parallel, ChunkRows, ShouldParallelize, TotalRows, Half,
           AtMost, CeilDiv
  <1>2. \A m, s : ChunkLen(call, m, s)' = ChunkLen(call, m, s)
    BY DEF ChunkLen, Parallel, ChunkRows, ShouldParallelize, TotalRows, Half, AtMost
  <1> QED BY <1>1, <1>2, SameValues DEF ChunkStores

(* What is written is what the chunks that were taken store. *)
Taken == (0 .. TotalChunks(call) - 1) \ waiting

CallInv ==
    call # Idle => /\ call \in Calls /\ Valid(call)
                   /\ waiting \subseteq 0 .. TotalChunks(call) - 1
                   /\ written = UNION { ChunkStores(call, i) : i \in Taken }

LEMMA CallNextInv == CallInv /\ [CallNext]_callVars => CallInv'
  <1> SUFFICES ASSUME CallInv, [CallNext]_callVars PROVE CallInv'
    OBVIOUS
  <1>1. ASSUME NEW c \in Calls, StartCall(c) PROVE CallInv'
    <2>1. /\ call' = c /\ Valid(c) /\ waiting' = 0 .. TotalChunks(c) - 1 /\ written' = {}
      BY <1>1 DEF StartCall
    <2>2. TotalChunks(call)' = TotalChunks(c) /\ Valid(call)'
      BY <2>1 DEF TotalChunks, ChunksOf, Parallel, ChunkRows, ShouldParallelize, TotalRows,
                  Half, AtMost, CeilDiv, Valid, NumGroups
    <2>3. Taken' = {}
      BY <2>1, <2>2 DEF Taken
    <2> QED BY <2>1, <2>2, <2>3 DEF CallInv
  <1>2. ASSUME NEW i \in waiting, RunChunk(i) PROVE CallInv'
    <2>1. /\ call # Idle /\ waiting' = waiting \ {i}
          /\ written' = written \cup ChunkStores(call, i)
          /\ call' = call /\ buffers' = buffers
      BY <1>2 DEF RunChunk
    <2>2. /\ call \in Calls /\ waiting \subseteq 0 .. TotalChunks(call) - 1
          /\ written = UNION { ChunkStores(call, j) : j \in Taken }
          /\ Valid(call)
      BY <2>1 DEF CallInv
    <2>3. TotalChunks(call)' = TotalChunks(call) /\ Valid(call)'
      BY <2>1, <2>2 DEF TotalChunks, ChunksOf, Parallel, ChunkRows, ShouldParallelize,
                        TotalRows, Half, AtMost, CeilDiv, Valid, NumGroups
    <2>4. Taken' = Taken \cup {i}
      BY <2>1, <2>2, <2>3 DEF Taken
    <2>5. \A j : ChunkStores(call, j)' = ChunkStores(call, j)
      BY <2>1, SameStores
    <2>6. written' = UNION { ChunkStores(call, j) : j \in Taken \cup {i} }
      BY <2>1, <2>2
    <2>7. written' = UNION { ChunkStores(call, j)' : j \in Taken' }
      BY <2>4, <2>5, <2>6
    <2> QED BY <2>1, <2>2, <2>3, <2>7 DEF CallInv
  <1>3. CASE EndCall
    BY <1>3 DEF EndCall, CallInv
  <1>4. CASE UNCHANGED callVars
    <2>1. /\ call' = call /\ buffers' = buffers /\ waiting' = waiting /\ written' = written
      BY <1>4 DEF callVars
    <2>2. TotalChunks(call)' = TotalChunks(call) /\ Valid(call)' = Valid(call)
      BY <2>1 DEF TotalChunks, ChunksOf, Parallel, ChunkRows, ShouldParallelize, TotalRows,
                  Half, AtMost, CeilDiv, Valid, NumGroups
    <2>3. \A j : ChunkStores(call, j)' = ChunkStores(call, j)
      BY <2>1, SameStores
    <2> QED BY <2>1, <2>2, <2>3 DEF CallInv, Taken
  <1> QED BY <1>1, <1>2, <1>3, <1>4 DEF CallNext

-----------------------------------------------------------------------------
(* The rows of a chunk, and the stores it makes: one for each of its rows    *)
(* and each token.                                                           *)
Element(c, m, row, t, i) ==
    [to |-> <<m, t * c.rows[m] + row>>, chunk |-> i, value |-> RowValues(c, row)[t]]

InChunk(c, f, m, i, row) == row \div RowsAtOnce(c, m) = i - f[m]

Stored(c, f, m, i, s) ==
    \E row \in 0 .. c.rows[m] - 1 : \E t \in 0 .. c.tokens - 1 :
        InChunk(c, f, m, i, row) /\ s = Element(c, m, row, t, i)

LEMMA ValuesByToken ==
    ASSUME NEW c \in Calls, Valid(c), NEW row
    PROVE  DOMAIN RowValues(c, row) = 0 .. c.tokens - 1
  <1>1. PICK n \in Nat \ {0} : n = c.tokens
    BY ValidFacts
  <1>2. /\ c.kind \in {"matvec", "fused", "matmul", "legacy", "lm_head"}
        /\ c.kind \in {"matmul", "legacy"} \/ n = 1
    BY <1>1, ValidFacts
  <1>3. DOMAIN MatvecValues(c, row) = {0} /\ DOMAIN LmHeadValues(c, row) = {0}
    BY DEF MatvecValues, LmHeadValues
  <1>4. n = 1 => 0 .. n - 1 = {0}
    OBVIOUS
  <1>5. DOMAIN MatmulValues(c, row) = 0 .. n - 1
    BY <1>1, <1>3, <1>4 DEF MatmulValues
  <1> QED BY <1>1, <1>2, <1>3, <1>4, <1>5 DEF RowValues

LEMMA ChunkRange ==
    ASSUME NEW c \in Calls, Valid(c), NEW m \in 1 .. Len(c.rows),
           NEW k \in 0 .. ChunksOf(c, m) - 1, NEW start, start = k * RowsAtOnce(c, m)
    PROVE  \A row : row \in start .. start + ChunkLen(c, m, start) - 1
                      <=> row \in 0 .. c.rows[m] - 1 /\ row \div RowsAtOnce(c, m) = k
  <1>1. PICK r \in Nat \ {0} : r = c.rows[m]
    BY ValidFacts
  <1>2. PICK w \in Nat \ {0} : w = RowsAtOnce(c, m)
    BY RowsAtOnceType
  <1>3. start \in 0 .. r - 1 /\ start = k * w /\ k \in Nat
    BY <1>1, <1>2, ChunkCount
  <1>4. ChunkLen(c, m, start) = AtMost(w, r - start)
    <2>1. CASE Parallel(c)
      BY <1>1, <1>2, <2>1 DEF ChunkLen, RowsAtOnce
    <2>2. CASE ~ Parallel(c)
      <3>1. k = 0 /\ w = r
        BY <1>1, <1>2, <2>2 DEF ChunksOf, RowsAtOnce
      <3>2. start = 0
        BY <1>3, <3>1
      <3> QED BY <1>1, <2>2, <3>1, <3>2 DEF ChunkLen, AtMost
    <2> QED BY <2>1, <2>2
  <1>5. ASSUME NEW row \in start .. start + AtMost(w, r - start) - 1
        PROVE  row \in 0 .. r - 1 /\ row \div w = k
    <2>1. row \in 0 .. r - 1 /\ row \in Nat /\ row - start \in 0 .. w - 1
      <3>1. PICK first \in Nat, len \in Int :
              first = start /\ len = AtMost(w, r - start) /\ len <= w /\ len <= r - first
        BY <1>3 DEF AtMost
      <3>2. row \in first .. first + len - 1
        BY <3>1
      <3>3. PICK x \in Int : x = row /\ first <= x /\ x <= first + len - 1
        BY <3>1, <3>2
      <3>4. x \in 0 .. r - 1 /\ x \in Nat /\ x - first \in 0 .. w - 1
        <4>1. x <= first + len - 1 /\ len <= w /\ first + len <= r /\ 0 <= first /\ first <= x
          BY <3>1, <3>3
        <4>2. x <= r - 1 /\ 0 <= x /\ 0 <= x - first /\ x - first <= w - 1
          BY <4>1
        <4> QED BY <4>2
      <3> QED BY <3>1, <3>3, <3>4
    <2>2. row \div w \in Nat /\ row % w \in 0 .. w - 1 /\ row = (row \div w) * w + (row % w)
      BY <2>1, Blocks
    <2>3. PICK s \in 0 .. w - 1 : s = row - start
      BY <2>1
    <2>4. row = k * w + s
      BY <1>3, <2>1, <2>3
    <2>5. PICK a \in Nat, q \in 0 .. w - 1 : a = row \div w /\ q = row % w
      BY <2>2
    <2>6. a * w + q = k * w + s
      BY <2>2, <2>4, <2>5
    <2>7. a = k
      BY <1>3, <2>6, BlocksApart
    <2> QED BY <2>1, <2>5, <2>7
  <1>6. ASSUME NEW row \in 0 .. r - 1, row \div w = k
        PROVE  row \in start .. start + AtMost(w, r - start) - 1
    <2>1. row \in Nat
      OBVIOUS
    <2>2. row % w \in 0 .. w - 1 /\ row = (row \div w) * w + (row % w)
      BY <2>1, Blocks
    <2>3. PICK s \in 0 .. w - 1 : s = row % w
      BY <2>2
    <2>4. row = start + s
      BY <1>3, <1>6, <2>2, <2>3
    <2>5. PICK first \in Nat, len \in Int :
            first = start /\ len = AtMost(w, r - start) /\ (len = w \/ len = r - first)
      BY <1>3 DEF AtMost
    <2>6. PICK x \in Nat : x = row /\ x <= r - 1 /\ x = first + s
      BY <2>1, <2>4, <2>5
    <2>7. s >= 0 /\ s <= w - 1
      OBVIOUS
    <2>8. first <= x /\ x <= first + len - 1
      <3>1. CASE len = w
        BY <2>6, <2>7, <3>1
      <3>2. CASE len = r - first
        BY <2>6, <2>7, <3>2
      <3> QED BY <2>5, <3>1, <3>2
    <2>9. x \in first .. first + len - 1
      BY <2>8
    <2> QED BY <2>5, <2>6, <2>9
  <1> QED BY <1>1, <1>2, <1>4, <1>5, <1>6

LEMMA StoresOf ==
    ASSUME NEW c \in Calls, Valid(c), NEW f, Placed(f, c), NEW i \in 0 .. TotalChunks(c) - 1
    PROVE  \E m \in 1 .. Len(c.rows) :
              InMatrix(f, c, m, i) /\ \A s : s \in ChunkStores(c, i) <=> Stored(c, f, m, i, s)
  <1>1. PICK m \in 1 .. Len(c.rows) :
             /\ InMatrix(f, c, m, i)
             /\ ChunkInMatrix(c, i) = [matrix |-> m, start |-> (i - f[m]) * RowsAtOnce(c, m)]
    BY DEF Placed
  <1>2. i \in Nat /\ f[m] \in Nat /\ ChunksOf(c, m) \in Nat
    BY ChunkCount DEF Placed
  <1>3. PICK k : k = i - f[m]
    OBVIOUS
  <1>4. k \in 0 .. ChunksOf(c, m) - 1
    BY <1>1, <1>2, <1>3 DEF InMatrix
  <1>5. PICK start : start = k * RowsAtOnce(c, m)
    OBVIOUS
  <1>6. \A row : row \in start .. start + ChunkLen(c, m, start) - 1
                   <=> row \in 0 .. c.rows[m] - 1 /\ row \div RowsAtOnce(c, m) = k
    BY <1>4, <1>5, ChunkRange
  <1>7. ChunkStores(c, i)
          = UNION { { Element(c, m, row, t, i) : t \in 0 .. c.tokens - 1 } :
                    row \in start .. start + ChunkLen(c, m, start) - 1 }
    <2>1. ChunkInMatrix(c, i).matrix = m /\ ChunkInMatrix(c, i).start = start
      BY <1>1, <1>3, <1>5
    <2>2. \A row : DOMAIN RowValues(c, row) = 0 .. c.tokens - 1
      BY ValuesByToken
    <2>3. ChunkStores(c, i)
            = UNION { { Element(c, m, row, t, i) : t \in DOMAIN RowValues(c, row) } :
                      row \in start .. start + ChunkLen(c, m, start) - 1 }
      BY <2>1 DEF ChunkStores, Element
    <2> DEFINE ByDomain(row) == { Element(c, m, row, t, i) : t \in DOMAIN RowValues(c, row) }
               ByTokens(row) == { Element(c, m, row, t, i) : t \in 0 .. c.tokens - 1 }
    <2>4. \A row : ByDomain(row) = ByTokens(row)
      BY <2>2
    <2>5. ChunkStores(c, i)
            = UNION { ByDomain(row) : row \in start .. start + ChunkLen(c, m, start) - 1 }
      BY <2>3
    <2> HIDE DEF ByDomain, ByTokens
    <2>6. ChunkStores(c, i)
            = UNION { ByTokens(row) : row \in start .. start + ChunkLen(c, m, start) - 1 }
      BY <2>4, <2>5
    <2> QED BY <2>6 DEF ByTokens
  <1>8. ASSUME NEW s PROVE s \in ChunkStores(c, i) <=> Stored(c, f, m, i, s)
    BY <1>3, <1>6, <1>7 DEF Stored, InChunk
  <1> QED BY <1>1, <1>8

(* The address of an element tells its row and its token. *)
LEMMA AddressFacts ==
    ASSUME NEW r \in Nat \ {0}, NEW n \in Nat \ {0}, NEW row \in 0 .. r - 1, NEW t \in 0 .. n - 1
    PROVE  /\ t * r + row \in 0 .. n * r - 1
           /\ (t * r + row) \div r = t /\ (t * r + row) % r = row
  <1>1. PICK a : a = t * r + row
    OBVIOUS
  <1>2. a \in Nat
    <2>1. t * r \in Nat
      OBVIOUS
    <2> QED BY <1>1, <2>1
  <1>3. PICK q \in Nat, p \in 0 .. r - 1 : q = a \div r /\ p = a % r /\ a = q * r + p
    BY <1>2, Blocks
  <1>4. t * r + row = q * r + p /\ t \in Nat
    BY <1>1, <1>3
  <1>5. q = t /\ p = row
    BY <1>4, BlocksApart
  <1>6. PICK d \in Nat : n = t + 1 + d
    <2>1. n - t - 1 \in Nat /\ n = t + 1 + (n - t - 1)
      OBVIOUS
    <2> QED BY <2>1
  <1>7. n * r = t * r + r + d * r /\ d * r \in Nat /\ t * r \in Nat /\ n * r \in Nat
    BY <1>6
  <1>8. a < n * r
    BY <1>1, <1>7
  <1> QED BY <1>1, <1>2, <1>3, <1>5, <1>7, <1>8

LEMMA AddressSplits ==
    ASSUME NEW r \in Nat \ {0}, NEW n \in Nat \ {0}, NEW a \in 0 .. n * r - 1
    PROVE  a \div r \in 0 .. n - 1 /\ a % r \in 0 .. r - 1 /\ a = (a \div r) * r + (a % r)
  <1>1. PICK q \in Nat, p \in 0 .. r - 1 : q = a \div r /\ p = a % r /\ a = q * r + p
    <2>1. a \in Nat
      OBVIOUS
    <2> QED BY <2>1, Blocks
  <1>2. q < n
    <2> SUFFICES ASSUME n <= q PROVE FALSE
      OBVIOUS
    <2>1. PICK d \in Nat : q = n + d
      <3>1. q - n \in Nat /\ q = n + (q - n)
        OBVIOUS
      <3> QED BY <3>1
    <2>2. q * r = n * r + d * r /\ d * r \in Nat /\ n * r \in Nat
      BY <2>1
    <2>3. a < n * r
      OBVIOUS
    <2> QED BY <1>1, <2>2, <2>3
  <1> QED BY <1>1, <1>2

(* Whatever the entry point, with AVX2 a row is what the single-token kernel *)
(* makes of it.                                                              *)
LEMMA ValueIsMatvec ==
    ASSUME NEW c \in Calls, Valid(c), c.avx2, c.kind # "lm_head", NEW row,
           NEW t \in 0 .. c.tokens - 1
    PROVE  RowValues(c, row)[t] = MatvecRow(c, row, t)
  <1>1. PICK n \in Nat \ {0} : n = c.tokens
    BY ValidFacts
  <1>2. c.kind \in {"matvec", "fused", "matmul", "legacy"} /\ (c.kind \in {"matmul", "legacy"} \/ n = 1)
    BY <1>1, ValidFacts
  <1>3. n = 1 => MatvecValues(c, row)[t] = MatvecRow(c, row, t)
    BY <1>1 DEF MatvecValues
  <1>4. c.kind \in {"matmul", "legacy"} => MatmulValues(c, row)[t] = MatvecRow(c, row, t)
    <2> SUFFICES ASSUME c.kind \in {"matmul", "legacy"}, n # 1
                 PROVE  MatmulValues(c, row)[t] = MatvecRow(c, row, t)
      BY <1>1, <1>3 DEF MatmulValues
    <2>1. Tile \in Nat \ {0} /\ t \in Nat /\ t \in 0 .. n - 1
      BY <1>1, KernelsAssumption
    <2>2. PICK q \in Nat, p \in 0 .. Tile - 1 :
            q = t \div Tile /\ p = t % Tile /\ t = q * Tile + p
      BY <2>1, Blocks
    <2>3. PICK b \in Nat, e \in 0 .. Tile - 1 :
            b = n \div Tile /\ e = n % Tile /\ n = b * Tile + e
      BY <2>1, Blocks
    <2>4. PICK whole \in Nat : whole = b * Tile
      BY <2>1
    <2>5. MatmulValues(c, row)[t]
            = IF c.kind = "legacy" THEN MatvecRow(c, row, t)
              ELSE IF t < whole
                   THEN [k \in 0 .. b - 1 |-> TileRow(c, row, k * Tile, Tile)][q][p]
                   ELSE TileRow(c, row, t, 1)[0]
      <3>1. MatmulValues(c, row)[t]
              = CASE ~c.avx2 -> ScalarRow(c, row, t)
                  [] c.avx2 /\ c.kind = "legacy" -> MatvecRow(c, row, t)
                  [] c.avx2 /\ c.kind = "matmul" /\ t < whole ->
                       [k \in 0 .. b - 1 |-> TileRow(c, row, k * Tile, Tile)][q][p]
                  [] OTHER -> TileRow(c, row, t, 1)[0]
        BY <1>1, <2>1, <2>2, <2>3, <2>4 DEF MatmulValues
      <3>2. CASE c.kind = "legacy"
        BY <3>1, <3>2
      <3>3. CASE c.kind = "matmul" /\ t < whole
        BY <3>1, <3>3
      <3>4. CASE c.kind = "matmul" /\ ~(t < whole)
        BY <3>1, <3>4
      <3> QED BY <3>2, <3>3, <3>4
    <2>6. t < whole => q \in 0 .. b - 1
      <3> SUFFICES ASSUME t < whole, b <= q PROVE FALSE
        BY <2>1
      <3>1. PICK d \in Nat : q = b + d
        <4>1. q - b \in Nat /\ q = b + (q - b)
          OBVIOUS
        <4> QED BY <4>1
      <3>2. q * Tile = b * Tile + d * Tile /\ d * Tile \in Nat /\ b * Tile \in Nat
        BY <2>1, <3>1
      <3> QED BY <2>2, <2>4, <3>2
    <2>7. TileRow(c, row, q * Tile, Tile)[p] = MatvecRow(c, row, t)
      <3>1. PICK base : base = q * Tile
        OBVIOUS
      <3>2. TileRow(c, row, base, Tile)[p] = MatvecRow(c, row, base + p)
        BY TileIsMatvec
      <3> QED BY <2>2, <3>1, <3>2
    <2>8. TileRow(c, row, t, 1)[0] = MatvecRow(c, row, t)
      <3>1. PICK j \in 0 .. 1 - 1 : j = 0
        OBVIOUS
      <3>2. TileRow(c, row, t, 1)[j] = MatvecRow(c, row, t + j)
        BY TileIsMatvec
      <3>3. t + j = t
        BY <2>1, <3>1
      <3> QED BY <3>1, <3>2, <3>3
    <2> QED BY <2>5, <2>6, <2>7, <2>8
  <1> QED BY <1>2, <1>3, <1>4 DEF RowValues

(* A token's product is the same bit for bit in a batch and alone, for every *)
(* shape of the call and every order the threads take its chunks in.         *)
THEOREM BatchBits == CallInit /\ [][CallNext]_callVars => []BatchSameBits
  <1>1. CallInit => CallInv
    BY DEF CallInit, CallInv
  <1>2. CallInv => BatchSameBits
    <2> SUFFICES ASSUME CallInv, call # Idle, call.avx2, call.kind # "lm_head", NEW s \in written
                 PROVE  s.value = MatvecRow(call, s.to[2] % call.rows[s.to[1]],
                                            s.to[2] \div call.rows[s.to[1]])
      BY DEF BatchSameBits
    <2>1. /\ call \in Calls /\ Valid(call)
          /\ written = UNION { ChunkStores(call, i) : i \in Taken }
      BY DEF CallInv
    <2>2. PICK i \in 0 .. TotalChunks(call) - 1 : s \in ChunkStores(call, i)
      BY <2>1 DEF Taken
    <2>3. PICK f : Placed(f, call)
      BY <2>1, Places
    <2>4. PICK m \in 1 .. Len(call.rows) : Stored(call, f, m, i, s)
      BY <2>1, <2>2, <2>3, StoresOf
    <2>5. PICK row \in 0 .. call.rows[m] - 1 :
             \E t \in 0 .. call.tokens - 1 : s = Element(call, m, row, t, i)
      BY <2>4 DEF Stored
    <2>6. PICK t \in 0 .. call.tokens - 1 : s = Element(call, m, row, t, i)
      BY <2>5
    <2>7. PICK r \in Nat \ {0}, n \in Nat \ {0} : r = call.rows[m] /\ n = call.tokens
      BY <2>1, ValidFacts
    <2>8. s.to = <<m, t * r + row>> /\ s.value = RowValues(call, row)[t]
      BY <2>6, <2>7 DEF Element
    <2>9. (t * r + row) \div r = t /\ (t * r + row) % r = row
      <3>1. row \in 0 .. r - 1 /\ t \in 0 .. n - 1
        BY <2>7
      <3> QED BY <3>1, AddressFacts
    <2>10. RowValues(call, row)[t] = MatvecRow(call, row, t)
      BY <2>1, <2>6, ValueIsMatvec
    <2> QED BY <2>7, <2>8, <2>9, <2>10
  <1> QED BY <1>1, <1>2, CallNextInv, PTL

-----------------------------------------------------------------------------
(* The outputs, element by element.                                          *)
Addresses(c) ==
    UNION { { <<m, a>> : a \in 0 .. c.tokens * c.rows[m] - 1 } : m \in DOMAIN c.rows }

LEMMA FiniteAddresses ==
    ASSUME NEW c \in Calls, Valid(c)
    PROVE  IsFiniteSet(Addresses(c))
  <1> DEFINE Of(m) == { <<m, a>> : a \in 0 .. c.tokens * c.rows[m] - 1 }
             All == { Of(m) : m \in DOMAIN c.rows }
  <1>1. PICK n \in Nat : n = Len(c.rows) /\ DOMAIN c.rows = 1 .. n
    BY ValidFacts
  <1>2. IsFiniteSet(All)
    <2>1. PICK f : f = [m \in 1 .. n |-> Of(m)]
      OBVIOUS
    <2>2. f \in Surjection(1 .. n, All)
      <3> HIDE DEF Of
      <3>1. \A m \in 1 .. n : f[m] \in All /\ f[m] = Of(m)
        BY <1>1, <2>1
      <3>2. \A y \in All : \E m \in 1 .. n : f[m] = y
        BY <1>1, <3>1
      <3>3. f \in [1 .. n -> All]
        BY <2>1, <3>1
      <3> HIDE DEF All
      <3> QED BY <3>2, <3>3 DEF Surjection
    <2>3. IsFiniteSet(1 .. n)
      BY FS_Interval
    <2> HIDE DEF All
    <2> QED BY <2>2, <2>3, FS_Surjection
  <1>3. ASSUME NEW m \in 1 .. n PROVE IsFiniteSet(Of(m))
    <2>1. PICK last \in Int : last = c.tokens * c.rows[m] - 1
      <3>1. c.tokens \in Nat /\ c.rows[m] \in Nat
        BY <1>1, ValidFacts
      <3> QED BY <3>1
    <2>2. PICK f : f = [a \in 0 .. last |-> <<m, a>>]
      OBVIOUS
    <2>3. f \in Surjection(0 .. last, Of(m))
      BY <2>1, <2>2 DEF Surjection
    <2>4. IsFiniteSet(0 .. last)
      BY FS_Interval
    <2> HIDE DEF Of
    <2> QED BY <2>3, <2>4, FS_Surjection
  <1>4. \A T \in All : IsFiniteSet(T)
    BY <1>1, <1>3
  <1>5. Addresses(c) = UNION All
    BY DEF Addresses
  <1> HIDE DEF All
  <1> QED BY <1>2, <1>4, <1>5, FS_UNION

(* An element is stored by one chunk, from one row and one token.            *)
StoredBy(c, f, i, m, row, t) ==
    /\ i \in 0 .. TotalChunks(c) - 1 /\ m \in 1 .. Len(c.rows) /\ InMatrix(f, c, m, i)
    /\ row \in 0 .. c.rows[m] - 1 /\ t \in 0 .. c.tokens - 1 /\ InChunk(c, f, m, i, row)

LEMMA OneStore ==
    ASSUME NEW c \in Calls, Valid(c), NEW f, Placed(f, c),
           NEW i, NEW m, NEW row, NEW t, StoredBy(c, f, i, m, row, t),
           NEW j, NEW k, NEW row2, NEW t2, StoredBy(c, f, j, k, row2, t2),
           Element(c, m, row, t, i).to = Element(c, k, row2, t2, j).to
    PROVE  Element(c, m, row, t, i) = Element(c, k, row2, t2, j)
  <1>1. m = k /\ t * c.rows[m] + row = t2 * c.rows[m] + row2
    BY DEF Element
  <1>2. PICK r \in Nat \ {0} : r = c.rows[m]
    BY ValidFacts DEF StoredBy
  <1>3. /\ t \in Nat /\ t2 \in Nat /\ row \in 0 .. r - 1 /\ row2 \in 0 .. r - 1
        /\ t * r + row = t2 * r + row2
    <2>1. PICK n \in Nat \ {0} : n = c.tokens
      BY ValidFacts
    <2>2. t \in 0 .. n - 1 /\ t2 \in 0 .. n - 1
      BY <2>1 DEF StoredBy
    <2> QED BY <1>1, <1>2, <2>2 DEF StoredBy
  <1>4. t = t2 /\ row = row2
    BY <1>3, BlocksApart
  <1>5. i - f[m] = j - f[m]
    BY <1>1, <1>4 DEF StoredBy, InChunk
  <1>6. i \in Int /\ j \in Int /\ f[m] \in Int
    <2>1. TotalChunks(c) \in Nat /\ f[m] \in Nat
      BY DEF Placed, StoredBy
    <2> QED BY <2>1 DEF StoredBy
  <1>7. i = j
    BY <1>5, <1>6
  <1> QED BY <1>1, <1>4, <1>7

LEMMA WrittenBy ==
    ASSUME CallInv, call # Idle, NEW f, Placed(f, call)
    PROVE  \A s : s \in written <=>
              \E i \in Taken : \E m, row, t :
                 StoredBy(call, f, i, m, row, t) /\ s = Element(call, m, row, t, i)
  <1>1. /\ call \in Calls /\ Valid(call)
        /\ written = UNION { ChunkStores(call, i) : i \in Taken }
    BY DEF CallInv
  <1>2. ASSUME NEW i \in Taken, NEW s
        PROVE  s \in ChunkStores(call, i) <=>
                 \E m, row, t : StoredBy(call, f, i, m, row, t) /\ s = Element(call, m, row, t, i)
    <2>1. i \in 0 .. TotalChunks(call) - 1 /\ i \in Nat
      BY DEF Taken, Placed
    <2>2. PICK m \in 1 .. Len(call.rows) :
             /\ InMatrix(f, call, m, i)
             /\ \A x : x \in ChunkStores(call, i) <=> Stored(call, f, m, i, x)
      BY <1>1, <2>1, StoresOf
    <2>3. \A k, row, t : StoredBy(call, f, i, k, row, t) => k = m
      BY <2>1, <2>2 DEF StoredBy, Placed
    <2>4. Stored(call, f, m, i, s) <=>
             \E row, t : StoredBy(call, f, i, m, row, t) /\ s = Element(call, m, row, t, i)
      BY <2>1, <2>2 DEF Stored, StoredBy
    <2> QED BY <2>2, <2>3, <2>4
  <1> QED BY <1>1, <1>2

(* No element of an output is written by two threads, none outside it, and   *)
(* when the last chunk is done none is left out.                             *)
THEOREM EveryRowOnce == CallInit /\ [][CallNext]_callVars => []RowsOnce
  <1>1. CallInit => CallInv
    BY DEF CallInit, CallInv
  <1>2. CallInv => RowsOnce
    <2> SUFFICES ASSUME CallInv, call # Idle
                 PROVE  LET stored == { s.to : s \in written }
                        IN  /\ Cardinality(written) = Cardinality(stored)
                            /\ stored \subseteq Addresses(call)
                            /\ waiting = {} => stored = Addresses(call)
      BY DEF RowsOnce, Addresses
    <2> DEFINE stored == { s.to : s \in written }
    <2>1. call \in Calls /\ Valid(call)
      BY DEF CallInv
    <2>2. PICK f : Placed(f, call)
      BY <2>1, Places
    <2>3. \A s : s \in written <=>
              \E i \in Taken : \E m, row, t :
                 StoredBy(call, f, i, m, row, t) /\ s = Element(call, m, row, t, i)
      BY <2>2, WrittenBy
    <2>4. PICK n \in Nat \ {0} : n = call.tokens
      BY <2>1, ValidFacts
    <2>5. stored \subseteq Addresses(call)
      <3> SUFFICES ASSUME NEW s \in written PROVE s.to \in Addresses(call)
        OBVIOUS
      <3>1. PICK i, m, row, t :
               StoredBy(call, f, i, m, row, t) /\ s = Element(call, m, row, t, i)
        BY <2>3
      <3>2. PICK r \in Nat \ {0} : r = call.rows[m]
        BY <2>1, <3>1, ValidFacts DEF StoredBy
      <3>3. row \in 0 .. r - 1 /\ t \in 0 .. n - 1 /\ m \in DOMAIN call.rows
        BY <2>1, <2>4, <3>1, <3>2, ValidFacts DEF StoredBy
      <3>4. t * r + row \in 0 .. n * r - 1
        BY <3>3, AddressFacts
      <3>5. s.to = <<m, t * r + row>>
        BY <3>1, <3>2 DEF Element
      <3> QED BY <2>4, <3>2, <3>3, <3>4, <3>5 DEF Addresses
    <2>6. Cardinality(written) = Cardinality(stored)
      <3>1. PICK to : to = [s \in written |-> s.to]
        OBVIOUS
      <3>2. to \in [written -> stored]
        BY <3>1
      <3>3. \A p, q \in written : to[p] = to[q] => p = q
        <4> TAKE p, q \in written
        <4> HAVE to[p] = to[q]
        <4>1. PICK i, m, row, t :
                 StoredBy(call, f, i, m, row, t) /\ p = Element(call, m, row, t, i)
          BY <2>3
        <4>2. PICK j, k, row2, t2 :
                 StoredBy(call, f, j, k, row2, t2) /\ q = Element(call, k, row2, t2, j)
          BY <2>3
        <4>3. p.to = q.to
          BY <3>1
        <4> QED BY <2>1, <2>2, <4>1, <4>2, <4>3, OneStore
      <3>4. \A y \in stored : \E p \in written : to[p] = y
        BY <3>1
      <3>5. IsFiniteSet(stored)
        BY <2>1, <2>5, FiniteAddresses, FS_Subset
      <3> HIDE DEF stored
      <3>6. to \in Injection(written, stored) /\ to \in Surjection(written, stored)
        BY <3>2, <3>3, <3>4 DEF Injection, Surjection, IsInjective
      <3> QED BY <3>5, <3>6, FS_Injection
    <2>7. ASSUME waiting = {} PROVE Addresses(call) \subseteq stored
      <3> SUFFICES ASSUME NEW m \in DOMAIN call.rows,
                          NEW a \in 0 .. call.tokens * call.rows[m] - 1
                   PROVE  <<m, a>> \in stored
        BY DEF Addresses
      <3>1. PICK r \in Nat \ {0} : r = call.rows[m] /\ m \in 1 .. Len(call.rows)
        BY <2>1, ValidFacts
      <3>2. a \in 0 .. n * r - 1
        BY <2>4, <3>1
      <3>3. PICK t \in 0 .. n - 1, row \in 0 .. r - 1 : a = t * r + row
        <4>1. a \div r \in 0 .. n - 1 /\ a % r \in 0 .. r - 1 /\ a = (a \div r) * r + (a % r)
          BY <2>4, <3>2, AddressSplits
        <4>2. PICK q, p : q = a \div r /\ p = a % r
          OBVIOUS
        <4> QED BY <4>1, <4>2
      <3>4. PICK k : k = row \div RowsAtOnce(call, m)
        OBVIOUS
      <3>5. k \in 0 .. ChunksOf(call, m) - 1 /\ ChunksOf(call, m) \in Nat
        BY <2>1, <3>1, <3>4, ChunkCount
      <3>6. PICK i : i = f[m] + k
        OBVIOUS
      <3>7. /\ f[m] \in Nat /\ f[m] + ChunksOf(call, m) <= TotalChunks(call)
            /\ TotalChunks(call) \in Nat
        BY <2>2, <3>1 DEF Placed
      <3>8. i \in 0 .. TotalChunks(call) - 1 /\ InMatrix(f, call, m, i) /\ i - f[m] = k
        BY <3>5, <3>6, <3>7 DEF InMatrix
      <3>9. StoredBy(call, f, i, m, row, t) /\ i \in Taken
        BY <2>4, <2>7, <3>1, <3>3, <3>4, <3>8 DEF StoredBy, InChunk, Taken
      <3>10. Element(call, m, row, t, i) \in written
        BY <2>3, <3>9
      <3>11. Element(call, m, row, t, i).to = <<m, a>>
        BY <3>1, <3>3 DEF Element
      <3> QED BY <3>10, <3>11
    <2> QED BY <2>5, <2>6, <2>7
  <1> QED BY <1>1, <1>2, CallNextInv, PTL

-----------------------------------------------------------------------------
(* Every element of a product, from the buffers its entry point filled.      *)
(* The columns before group g: where it starts. *)
Reached(c, g) == AtMost(g * c.groupSize, c.cols)

(* The number of groups is the columns divided by the group size, rounded    *)
(* up.                                                                       *)
LEMMA CallSizes ==
    ASSUME NEW c \in Calls, Valid(c)
    PROVE  \E cols \in Nat \ {0}, gs \in Nat \ {0}, r \in Nat :
              /\ cols = c.cols /\ gs = c.groupSize /\ r < gs
              /\ NumGroups(c) * gs + r = cols + gs - 1
  <1>1. PICK cols \in Nat \ {0}, gs \in Nat \ {0} : cols = c.cols /\ gs = c.groupSize
    BY ValidFacts
  <1>2. PICK k \in Nat : k = cols + gs - 1
    BY <1>1
  <1>3. k % gs \in 0 .. gs - 1 /\ k = (k \div gs) * gs + (k % gs)
    BY <1>1, Blocks
  <1>4. NumGroups(c) = k \div gs
    BY <1>1, <1>2 DEF NumGroups, CeilDiv
  <1>5. PICK r \in 0 .. gs - 1 : r = k % gs
    BY <1>3
  <1>6. NumGroups(c) * gs + r = cols + gs - 1
    BY <1>2, <1>3, <1>4, <1>5
  <1> QED BY <1>1, <1>6

(* A group starts where the groups before it end, and none is empty. *)
LEMMA GroupFacts ==
    ASSUME NEW c \in Calls, Valid(c), NEW g \in 0 .. NumGroups(c) - 1
    PROVE  /\ GroupStart(c, g) \in Nat /\ GroupStart(c, g) = g * c.groupSize
           /\ GroupLen(c, g) \in Nat \ {0} /\ GroupLen(c, g) <= c.groupSize
           /\ GroupStart(c, g) + GroupLen(c, g) <= c.cols
           /\ Reached(c, g) = GroupStart(c, g)
           /\ Reached(c, g + 1) = GroupStart(c, g) + GroupLen(c, g)
  <1>1. PICK cols \in Nat \ {0}, gs \in Nat \ {0}, r \in Nat :
              /\ cols = c.cols /\ gs = c.groupSize /\ r < gs
              /\ NumGroups(c) * gs + r = cols + gs - 1
    BY CallSizes
  <1>2. PICK G \in Nat : G = NumGroups(c)
    BY GroupsType
  <1>3. PICK d \in Nat : G = g + 1 + d
    <2>1. g \in 0 .. G - 1
      BY <1>2
    <2>2. G - g - 1 \in Nat /\ G = g + 1 + (G - g - 1)
      BY <2>1
    <2> QED BY <2>2
  <1>4. g \in Nat
    BY <1>2
  <1>5. PICK at \in Nat, dg \in Nat : at = g * gs /\ dg = d * gs
    <2>1. g * gs \in Nat /\ d * gs \in Nat
      BY <1>4
    <2> QED BY <2>1
  <1>6. (g + 1) * gs = at + gs
    BY <1>4, <1>5
  <1>7. G * gs = at + gs + dg
    BY <1>3, <1>4, <1>5
  <1>8. at + gs + dg + r = cols + gs - 1
    BY <1>1, <1>2, <1>7
  <1>9. at < cols
    BY <1>8
  <1>10. PICK len \in Int : len = IF at + gs < cols THEN gs ELSE cols - at
    <2>1. (IF at + gs < cols THEN gs ELSE cols - at) \in Int
      OBVIOUS
    <2> QED BY <2>1
  <1>11. GroupStart(c, g) = at
    BY <1>1, <1>5 DEF GroupStart
  <1>12. GroupLen(c, g) = len
    BY <1>1, <1>6, <1>10, <1>11 DEF GroupLen, AtMost
  <1>13. len \in Nat \ {0} /\ len <= gs /\ at + len <= cols
    BY <1>9, <1>10
  <1>14. Reached(c, g) = at
    BY <1>1, <1>5, <1>9 DEF Reached, AtMost
  <1>15. Reached(c, g + 1) = at + len
    BY <1>1, <1>6, <1>10 DEF Reached, AtMost
  <1> QED BY <1>1, <1>5, <1>11, <1>12, <1>13, <1>14, <1>15

(* The groups are all the columns. *)
LEMMA AllReached ==
    ASSUME NEW c \in Calls, Valid(c)
    PROVE  Reached(c, 0) = 0 /\ Reached(c, NumGroups(c)) = c.cols
  <1>1. PICK cols \in Nat \ {0}, gs \in Nat \ {0}, r \in Nat :
              /\ cols = c.cols /\ gs = c.groupSize /\ r < gs
              /\ NumGroups(c) * gs + r = cols + gs - 1
    BY CallSizes
  <1>2. PICK end \in Nat : end = NumGroups(c) * gs
    <2>1. NumGroups(c) * gs \in Nat
      BY GroupsType
    <2> QED BY <2>1
  <1>3. end >= cols
    BY <1>1, <1>2
  <1>4. Reached(c, NumGroups(c)) = c.cols
    BY <1>1, <1>2, <1>3 DEF Reached, AtMost
  <1> QED BY <1>1, <1>4 DEF Reached, AtMost

(* Which group a column is in. *)
LEMMA InGroup ==
    ASSUME NEW c \in Calls, Valid(c), NEW col \in 0 .. c.cols - 1
    PROVE  /\ col \div c.groupSize \in 0 .. NumGroups(c) - 1
           /\ \A g \in 0 .. NumGroups(c) - 1 :
                 col \div c.groupSize = g
                   <=> col \in GroupStart(c, g) .. GroupStart(c, g) + GroupLen(c, g) - 1
  <1>1. PICK cols \in Nat \ {0}, gs \in Nat \ {0}, r \in Nat :
              /\ cols = c.cols /\ gs = c.groupSize /\ r < gs
              /\ NumGroups(c) * gs + r = cols + gs - 1
    BY CallSizes
  <1>2. PICK G \in Nat : G = NumGroups(c)
    BY GroupsType
  <1>3. col \in 0 .. cols - 1 /\ col \in Nat
    BY <1>1
  <1>4. PICK q \in Nat, p \in 0 .. gs - 1 : q = col \div gs /\ col = q * gs + p
    BY <1>3, Blocks
  <1>5. q < G
    <2> SUFFICES ASSUME G <= q PROVE FALSE
      BY <1>2
    <2>1. PICK d \in Nat : q = G + d
      <3>1. q - G \in Nat /\ q = G + (q - G)
        OBVIOUS
      <3> QED BY <3>1
    <2>2. q * gs = G * gs + d * gs /\ d * gs \in Nat /\ G * gs \in Nat
      BY <2>1
    <2>3. PICK dg \in Nat, end \in Nat : dg = d * gs /\ end = G * gs
      BY <2>2
    <2>4. end + r = cols + gs - 1 /\ col = end + dg + p
      BY <1>1, <1>2, <1>4, <2>2, <2>3
    <2> QED BY <1>1, <1>3, <2>4
  <1>6. ASSUME NEW g \in 0 .. NumGroups(c) - 1
        PROVE  q = g <=> col \in GroupStart(c, g) .. GroupStart(c, g) + GroupLen(c, g) - 1
    <2>1. PICK at \in Nat, len \in Nat \ {0} :
             /\ at = GroupStart(c, g) /\ at = g * gs /\ len = GroupLen(c, g) /\ len <= gs
             /\ Reached(c, g + 1) = at + len
      BY <1>1, GroupFacts
    <2>2. g \in Nat
      BY <1>2
    <2>3. (g + 1) * gs = at + gs
      BY <2>1, <2>2
    <2>4. at + len = IF at + gs < cols THEN at + gs ELSE cols
      BY <1>1, <2>1, <2>3 DEF Reached, AtMost
    <2>5. ASSUME q = g PROVE col \in at .. at + len - 1
      <3>1. col = at + p
        BY <1>4, <2>1, <2>5
      <3> QED BY <1>3, <2>4, <3>1
    <2>6. ASSUME col \in at .. at + len - 1 PROVE q = g
      <3>1. PICK s \in 0 .. gs - 1 : col = at + s
        <4>1. col - at \in 0 .. gs - 1 /\ col = at + (col - at)
          BY <1>3, <2>1, <2>6
        <4> QED BY <4>1
      <3>2. q * gs + p = g * gs + s
        BY <1>4, <2>1, <3>1
      <3> QED BY <2>2, <3>2, BlocksApart
    <2> QED BY <2>1, <2>5, <2>6
  <1> QED BY <1>1, <1>2, <1>4, <1>5, <1>6

(* Columns come in pairs, where the code packs two to a byte. *)
LEMMA EvenGroups ==
    ASSUME NEW c \in Calls, Valid(c), c.kind # "lm_head", NEW g \in 0 .. NumGroups(c) - 1
    PROVE  \E h \in Nat, l \in Nat \ {0} :
              /\ GroupStart(c, g) = 2 * h /\ GroupLen(c, g) = 2 * l
              /\ h + l <= Half(c) /\ Half(c) \in Nat /\ c.cols = 2 * Half(c)
  <1>1. PICK cols \in Nat \ {0}, gs \in Nat \ {0} : cols = c.cols /\ gs = c.groupSize
    BY ValidFacts
  <1>2. cols % 2 = 0 /\ gs % 2 = 0
    BY <1>1 DEF Valid
  <1>3. PICK H \in Nat, k \in Nat : cols = 2 * H /\ gs = 2 * k
    <2>1. cols = 2 * (cols \div 2) /\ gs = 2 * (gs \div 2) /\ cols \div 2 \in Nat /\ gs \div 2 \in Nat
      BY <1>1, <1>2
    <2> QED BY <2>1
  <1>4. Half(c) = H
    BY <1>1, <1>3 DEF Half
  <1>5. g \in Nat
    BY GroupsType
  <1>6. PICK h \in Nat : h = g * k
    <2>1. g * k \in Nat
      BY <1>5
    <2> QED BY <2>1
  <1>7. g * gs = 2 * h /\ (g + 1) * gs = 2 * (h + k)
    BY <1>3, <1>5, <1>6
  <1>8. /\ GroupStart(c, g) = 2 * h /\ GroupLen(c, g) \in Nat \ {0}
        /\ GroupStart(c, g) + GroupLen(c, g) <= cols
        /\ Reached(c, g + 1) = GroupStart(c, g) + GroupLen(c, g)
    BY <1>1, <1>7, GroupFacts
  <1>9. Reached(c, g + 1) = IF 2 * (h + k) < 2 * H THEN 2 * (h + k) ELSE 2 * H
    BY <1>1, <1>3, <1>7 DEF Reached, AtMost
  <1>10. PICK l \in Int : l = IF h + k < H THEN k ELSE H - h
    <2>1. (IF h + k < H THEN k ELSE H - h) \in Int
      OBVIOUS
    <2> QED BY <2>1
  <1>11. GroupLen(c, g) = 2 * l
    BY <1>8, <1>9, <1>10
  <1>12. l \in Nat \ {0} /\ h + l <= H
    BY <1>3, <1>8, <1>11
  <1> QED BY <1>1, <1>3, <1>4, <1>8, <1>11, <1>12

(* Whole blocks of w cover the numbers below b * w. *)
LEMMA BlocksCover ==
    ASSUME NEW w \in Nat \ {0}, NEW b \in Nat
    PROVE  /\ b * w \in Nat
           /\ \A i \in 0 .. b - 1, j \in 0 .. w - 1 :
                 i * w \in Nat /\ i * w + j \in 0 .. b * w - 1 /\ i * w + w <= b * w
           /\ \A x \in 0 .. b * w - 1 :
                 \E i \in 0 .. b - 1, j \in 0 .. w - 1 : x = i * w + j
  <1>1. b * w \in Nat
    OBVIOUS
  <1>2. CASE b = 0
    BY <1>2
  <1>3. ASSUME b # 0, NEW i \in 0 .. b - 1, NEW j \in 0 .. w - 1
        PROVE  i * w \in Nat /\ i * w + j \in 0 .. b * w - 1 /\ i * w + w <= b * w
    <2>1. PICK d \in Nat : b = i + 1 + d
      <3>1. b - i - 1 \in Nat /\ b = i + 1 + (b - i - 1)
        OBVIOUS
      <3> QED BY <3>1
    <2>2. PICK iw \in Nat, dw \in Nat : iw = i * w /\ dw = d * w
      <3>1. i * w \in Nat /\ d * w \in Nat
        OBVIOUS
      <3> QED BY <3>1
    <2>3. b * w = iw + w + dw
      BY <2>1, <2>2
    <2>4. iw + j \in 0 .. (iw + w + dw) - 1 /\ iw + w <= iw + w + dw
      OBVIOUS
    <2> QED BY <2>2, <2>3, <2>4
  <1>4. ASSUME b # 0, NEW x \in 0 .. b * w - 1
        PROVE  \E i \in 0 .. b - 1, j \in 0 .. w - 1 : x = i * w + j
    <2>1. b \in Nat \ {0}
      BY <1>4
    <2> QED BY <2>1, AddressSplits
  <1> QED BY <1>1, <1>2, <1>3, <1>4

(* Whole registers of a group, and then its remainder: all its columns. *)
LEMMA BodyAndTail ==
    ASSUME NEW start \in Nat, NEW len \in Nat
    PROVE  { start + i : i \in 0 .. (len \div Lanes) * Lanes - 1 }
             \cup { start + i : i \in (len \div Lanes) * Lanes .. len - 1 }
             = start .. start + len - 1
  <1>1. PICK b \in Nat : b = (len \div Lanes) * Lanes /\ b <= len
    <2>1. Lanes \in Nat \ {0}
      BY KernelsAssumption
    <2>2. len \div Lanes \in Nat /\ len = (len \div Lanes) * Lanes + (len % Lanes)
          /\ len % Lanes \in 0 .. Lanes - 1
      BY <2>1, Blocks
    <2>3. PICK k \in Nat, p \in Nat : k = (len \div Lanes) * Lanes /\ p = len % Lanes
      <3>1. (len \div Lanes) * Lanes \in Nat
        BY <2>1, <2>2
      <3> QED BY <2>2, <3>1
    <2>4. k <= len
      BY <2>2, <2>3
    <2> QED BY <2>3, <2>4
  <1>2. { start + i : i \in 0 .. b - 1 } \cup { start + i : i \in b .. len - 1 } = start .. start + len - 1
    <2>1. ASSUME NEW x \in start .. start + len - 1
          PROVE  \E i \in (0 .. b - 1) \cup (b .. len - 1) : x = start + i
      <3>1. x - start \in (0 .. b - 1) \cup (b .. len - 1) /\ x = start + (x - start)
        BY <1>1
      <3> QED BY <3>1
    <2>2. ASSUME NEW i \in (0 .. b - 1) \cup (b .. len - 1) PROVE start + i \in start .. start + len - 1
      BY <1>1
    <2> QED BY <2>1, <2>2
  <1> QED BY <1>1, <1>2

(* A group's columns, which its sum and its part of the hidden state take. *)
ColumnsOf(c, g) == GroupStart(c, g) .. GroupStart(c, g) + GroupLen(c, g) - 1

(* A group's sum and its part of the hidden state are of the columns of the  *)
(* group.                                                                    *)
LEMMA GroupColumns ==
    ASSUME NEW c \in Calls, Valid(c), NEW g \in 0 .. NumGroups(c) - 1
    PROVE  /\ SumOf(c, g) = ColumnsOf(c, g) /\ HiddenStores(c, g) = ColumnsOf(c, g)
           /\ ColumnsOf(c, g) = { col \in 0 .. c.cols - 1 : col \div c.groupSize = g }
  <1>1. PICK start \in Nat, len \in Nat :
           /\ start = GroupStart(c, g) /\ len = GroupLen(c, g) /\ start + len <= c.cols
    BY GroupFacts
  <1>2. SumOf(c, g) = start .. start + len - 1
    <2>1. SumOf(c, g) = { start + i : i \in 0 .. (len \div Lanes) * Lanes - 1 }
             \cup { start + i : i \in (len \div Lanes) * Lanes .. len - 1 }
      BY <1>1 DEF SumOf, Body
    <2> QED BY <2>1, BodyAndTail
  <1>3. HiddenStores(c, g) = start .. start + len - 1
    <2>1. HiddenStores(c, g) = { start + i : i \in 0 .. (len \div Lanes) * Lanes - 1 }
             \cup { start + i : i \in (len \div Lanes) * Lanes .. len - 1 }
      BY <1>1 DEF HiddenStores, Body
    <2> QED BY <2>1, BodyAndTail
  <1>4. start .. start + len - 1 = { col \in 0 .. c.cols - 1 : col \div c.groupSize = g }
    <2>1. \A col \in start .. start + len - 1 : col \in 0 .. c.cols - 1
      <3>1. c.cols \in Nat
        BY ValidFacts
      <3> QED BY <1>1, <3>1
    <2>2. \A col \in 0 .. c.cols - 1 :
             col \div c.groupSize = g <=> col \in start .. start + len - 1
      BY <1>1, InGroup
    <2> QED BY <2>1, <2>2
  <1> QED BY <1>1, <1>2, <1>3, <1>4 DEF ColumnsOf

(* Cell q of the two halves holds columns 2 * q and 2 * q + 1. *)
PairAt(q) == <<q, 2 * q, 2 * q + 1>>

(* Pair j of register i of a group that starts at a column, as it is         *)
(* stored.                                                                   *)
FromRegister(start, lanes, i, j) ==
    <<start \div 2 + i * (lanes \div 2) + j, start + i * lanes + 2 * j, start + i * lanes + 2 * j + 1>>

(* The pair that starts at a column, as the loop behind the registers        *)
(* stores it.                                                                *)
OneByOne(col) == <<col \div 2, col, col + 1>>

(* What b registers of w pairs store. *)
InRegisters(start, lanes, b, w) ==
    { FromRegister(start, lanes, i, j) : i \in 0 .. b - 1, j \in 0 .. w - 1 }
(* What the loop behind them stores, from a column on. *)
Behind(from, len) ==
    { OneByOne(col) : col \in { from + 2 * k : k \in 0 .. len \div 2 - 1 } }
(* The pairs of cells h .. a - 1. *)
PairsAt(h, a) == { PairAt(q) : q \in h .. a - 1 }

(* What the registers of a group store, and then the loop behind them. *)
LEMMA VectorPairs ==
    ASSUME NEW h \in Nat, NEW w \in Nat \ {0}, NEW b \in Nat,
           NEW start, start = 2 * h, NEW lanes, lanes = 2 * w, NEW a, a = h + b * w
    PROVE  InRegisters(start, lanes, b, w) = PairsAt(h, a)
  <1>1. ASSUME NEW i \in 0 .. b - 1, NEW j \in 0 .. w - 1
        PROVE  FromRegister(start, lanes, i, j) \in { PairAt(q) : q \in h .. a - 1 }
    <2>1. PICK iw \in Nat, bw \in Nat : iw = i * w /\ bw = b * w /\ iw + j \in 0 .. bw - 1
      BY BlocksCover
    <2>2. i * (2 * w) = 2 * iw
      BY <2>1
    <2>3. (2 * h) \div 2 = h /\ (2 * w) \div 2 = w
      OBVIOUS
    <2>4. PICK q \in h .. a - 1 : q = h + (iw + j)
      <3>1. h + (iw + j) \in h .. a - 1
        BY <2>1
      <3> QED BY <3>1
    <2>5. FromRegister(start, lanes, i, j) = PairAt(q)
      BY <2>1, <2>2, <2>3, <2>4 DEF PairAt, FromRegister
    <2> QED BY <2>5
  <1>2. ASSUME NEW q \in h .. a - 1
        PROVE  PairAt(q) \in { FromRegister(start, lanes, i, j) : i \in 0 .. b - 1, j \in 0 .. w - 1 }
    <2>1. PICK bw \in Nat : bw = b * w
      BY BlocksCover
    <2>2. PICK x \in 0 .. bw - 1 : q = h + x
      <3>1. q - h \in 0 .. bw - 1 /\ q = h + (q - h)
        BY <2>1
      <3> QED BY <3>1
    <2>3. PICK i \in 0 .. b - 1, j \in 0 .. w - 1 : x = i * w + j
      BY <2>1, BlocksCover
    <2>4. PICK iw \in Nat : iw = i * w
      BY BlocksCover
    <2>5. i * (2 * w) = 2 * iw
      BY <2>4
    <2>6. (2 * h) \div 2 = h /\ (2 * w) \div 2 = w
      OBVIOUS
    <2>7. PairAt(q) = FromRegister(start, lanes, i, j)
      BY <2>2, <2>3, <2>4, <2>5, <2>6 DEF PairAt, FromRegister
    <2> QED BY <2>7
  <1> QED BY <1>1, <1>2 DEF InRegisters, PairsAt

(* The loop behind the registers stores the pairs of the columns that are    *)
(* left.                                                                     *)
LEMMA TailPairs ==
    ASSUME NEW a \in Nat, NEW e \in Nat, a <= e, NEW from, from = 2 * a, NEW len, len = 2 * e - 2 * a
    PROVE  Behind(from, len) = PairsAt(a, e)
  <1>1. PICK n \in Nat : n = len \div 2 /\ n = e - a
    <2>1. (2 * e - 2 * a) \div 2 = e - a /\ e - a \in Nat
      OBVIOUS
    <2> QED BY <2>1
  <1>2. ASSUME NEW k \in 0 .. n - 1
        PROVE  /\ a + k \in a .. e - 1
               /\ PairAt(a + k) = OneByOne(from + 2 * k)
    <2>1. (2 * a + 2 * k) \div 2 = a + k
      OBVIOUS
    <2> QED BY <1>1, <2>1 DEF PairAt, OneByOne
  <1>3. ASSUME NEW q \in a .. e - 1
        PROVE  \E k \in 0 .. n - 1 : q = a + k
    <2>1. q - a \in 0 .. n - 1 /\ q = a + (q - a)
      BY <1>1
    <2> QED BY <2>1
  <1>4. { OneByOne(col) : col \in { from + 2 * k : k \in 0 .. n - 1 } }
          = { OneByOne(from + 2 * k) : k \in 0 .. n - 1 }
    OBVIOUS
  <1>5. { OneByOne(from + 2 * k) : k \in 0 .. n - 1 } = { PairAt(q) : q \in a .. e - 1 }
    BY <1>2, <1>3
  <1> QED BY <1>1, <1>4, <1>5 DEF Behind, PairsAt

(* Pairs up to a cell, and those from it. *)
LEMMA PairsJoin ==
    ASSUME NEW h \in Nat, NEW a \in Nat, NEW e \in Nat, h <= a, a <= e
    PROVE  PairsAt(h, a) \cup PairsAt(a, e) = PairsAt(h, e)
  <1>1. \A q : q \in h .. e - 1 <=> q \in h .. a - 1 \/ q \in a .. e - 1
    OBVIOUS
  <1> QED BY <1>1 DEF PairsAt

(* Twice as wide, twice as much.                                             *)
LEMMA TwiceAsWide ==
    ASSUME NEW k \in Nat, NEW w \in Nat, NEW x, x = 2 * w
    PROVE  k * x = 2 * (k * w)
  <1>1. k * (2 * w) = 2 * (k * w)
    OBVIOUS
  <1> QED BY <1>1

(* A group stores the pairs of its columns, each at its cell. *)
LEMMA SplitStoresAre ==
    ASSUME NEW c \in Calls, Valid(c), c.kind # "lm_head", NEW g \in 0 .. NumGroups(c) - 1,
           NEW h \in Nat, NEW l \in Nat, GroupStart(c, g) = 2 * h, GroupLen(c, g) = 2 * l
    PROVE  SplitStores(c, g) = PairsAt(h, h + l)
  <1>1. PICK w \in Nat \ {0} : Lanes = 2 * w /\ Lanes \div 2 = w
    <2>1. Lanes = 2 * (Lanes \div 2) /\ Lanes \div 2 \in Nat \ {0}
      BY KernelsAssumption
    <2> QED BY <2>1
  <1>2. PICK b \in Nat : /\ b = IF c.avx2 THEN (2 * l) \div Lanes ELSE 0
                         /\ b * w <= l
    <2>1. CASE c.avx2
      <3>1. Lanes \in Nat \ {0} /\ 2 * l \in Nat
        BY KernelsAssumption
      <3>2. PICK k \in Nat, p \in 0 .. Lanes - 1 : k = (2 * l) \div Lanes /\ 2 * l = k * Lanes + p
        <4>1. PICK x \in Nat : x = 2 * l
          BY <3>1
        <4>2. /\ x \div Lanes \in Nat /\ x % Lanes \in 0 .. Lanes - 1
              /\ x = (x \div Lanes) * Lanes + (x % Lanes)
          BY <3>1, Blocks
        <4> QED BY <4>1, <4>2
      <3>3. PICK kw \in Nat : kw = k * w
        <4>1. k * w \in Nat
          OBVIOUS
        <4> QED BY <4>1
      <3>4. k * Lanes = 2 * kw
        <4>1. k * Lanes = 2 * (k * w)
          BY <1>1, TwiceAsWide
        <4> QED BY <3>3, <4>1
      <3>5. kw <= l
        BY <3>1, <3>2, <3>4
      <3> QED BY <2>1, <3>2, <3>3, <3>5
    <2>2. CASE ~ c.avx2
      BY <2>2
    <2> QED BY <2>1, <2>2
  <1>3. PICK a \in Nat : a = h + b * w /\ a <= h + l
    <2>1. b * w \in Nat
      OBVIOUS
    <2>2. PICK bw \in Nat : bw = b * w
      BY <2>1
    <2>3. h + bw <= h + l /\ h + bw \in Nat
      BY <1>2, <2>2
    <2> QED BY <2>2, <2>3
  <1>4. PICK body : body = IF c.avx2 THEN Body(c, g) ELSE 0
    OBVIOUS
  <1>5. body = b * (2 * w) /\ body = 2 * (b * w)
    BY <1>1, <1>2, <1>4 DEF Body
  <1>6. body \div Lanes = b
    <2>1. PICK k \in Nat, p \in 0 .. Lanes - 1 : k = body \div Lanes /\ body = k * Lanes + p
      <3>1. b * w \in Nat
        OBVIOUS
      <3>2. PICK n \in Nat : n = body
        BY <1>1, <1>5, <3>1
      <3>3. Lanes \in Nat \ {0}
        BY KernelsAssumption
      <3>4. n \div Lanes \in Nat /\ n % Lanes \in 0 .. Lanes - 1
            /\ n = (n \div Lanes) * Lanes + (n % Lanes)
        BY <3>2, <3>3, Blocks
      <3> QED BY <3>2, <3>4
    <2>2. Lanes \in Nat \ {0} /\ 0 \in 0 .. Lanes - 1
      BY KernelsAssumption
    <2>3. k * Lanes + p = b * Lanes + 0
      BY <1>1, <1>5, <2>1
    <2>4. k = b
      BY <2>2, <2>3, BlocksApart
    <2> QED BY <2>1, <2>4
  <1>7. PICK start, from, rest : /\ start = 2 * h /\ from = 2 * h + body /\ rest = 2 * l - body
    OBVIOUS
  <1>8. from = 2 * a /\ rest = 2 * (h + l) - 2 * a
    <2>1. PICK bw \in Nat : bw = b * w
      BY BlocksCover
    <2>2. body = 2 * bw /\ a = h + bw
      BY <1>3, <1>5, <2>1
    <2> QED BY <1>7, <2>2
  <1>9. SplitStores(c, g) = InRegisters(start, Lanes, b, w) \cup Behind(from, rest)
    <2>1. SplitStores(c, g) = InRegisters(start, Lanes, body \div Lanes, w)
                              \cup Behind(2 * h + body, 2 * l - body)
      <3>1. GroupStart(c, g) = start /\ GroupLen(c, g) = 2 * l
        BY <1>7
      <3>2. InRegisters(start, Lanes, body \div Lanes, w)
              = { <<start \div 2 + i * (Lanes \div 2) + j, start + i * Lanes + 2 * j,
                    start + i * Lanes + 2 * j + 1>> :
                  i \in 0 .. body \div Lanes - 1, j \in 0 .. Lanes \div 2 - 1 }
        BY <1>1 DEF InRegisters, FromRegister
      <3>3. Behind(start + body, 2 * l - body)
              = { <<col \div 2, col, col + 1>> :
                    col \in { start + body + 2 * k : k \in 0 .. (2 * l - body) \div 2 - 1 } }
        BY DEF Behind, OneByOne
      <3> QED BY <1>4, <1>7, <3>1, <3>2, <3>3 DEF SplitStores
    <2> QED BY <1>6, <1>7, <2>1
  <1>10. InRegisters(start, Lanes, b, w) = PairsAt(h, a)
    BY <1>1, <1>3, <1>7, VectorPairs
  <1>11. Behind(from, rest) = PairsAt(a, h + l)
    <2>1. PICK e \in Nat : e = h + l
      OBVIOUS
    <2>2. rest = 2 * e - 2 * a /\ a <= e
      BY <1>3, <1>8, <2>1
    <2>3. Behind(from, rest) = PairsAt(a, e)
      BY <1>3, <1>8, <2>2, TailPairs
    <2> QED BY <2>1, <2>3
  <1>12. h <= a
    <2>1. PICK bw \in Nat : bw = b * w
      BY BlocksCover
    <2> QED BY <1>3, <2>1
  <1>13. PairsAt(h, a) \cup PairsAt(a, h + l) = PairsAt(h, h + l)
    <2>1. PICK e \in Nat : e = h + l
      OBVIOUS
    <2> QED BY <1>3, <1>12, <2>1, PairsJoin
  <1> QED BY <1>9, <1>10, <1>11, <1>13

(* The groups together: every pair of columns, and every column. *)
LEMMA AllPairs ==
    ASSUME NEW c \in Calls, Valid(c), c.kind # "lm_head"
    PROVE  UNION { SplitStores(c, g) : g \in 0 .. NumGroups(c) - 1 } = PairsAt(0, Half(c))
  <1>1. PICK H \in Nat : H = Half(c) /\ c.cols = 2 * H
    <2>1. PICK cols \in Nat \ {0} : cols = c.cols /\ cols % 2 = 0
      BY ValidFacts DEF Valid
    <2>2. cols = 2 * (cols \div 2) /\ cols \div 2 \in Nat
      BY <2>1
    <2> QED BY <2>1, <2>2 DEF Half
  <1>2. ASSUME NEW g \in 0 .. NumGroups(c) - 1
        PROVE  SplitStores(c, g) \subseteq PairsAt(0, H)
    <2>1. PICK h \in Nat, l \in Nat \ {0} :
              GroupStart(c, g) = 2 * h /\ GroupLen(c, g) = 2 * l /\ h + l <= H
      BY <1>1, EvenGroups
    <2>2. SplitStores(c, g) = PairsAt(h, h + l)
      BY <2>1, SplitStoresAre
    <2>3. \A q \in h .. h + l - 1 : q \in 0 .. H - 1
      BY <1>1, <2>1
    <2> QED BY <2>2, <2>3 DEF PairsAt
  <1>3. ASSUME NEW q \in 0 .. H - 1
        PROVE  \E g \in 0 .. NumGroups(c) - 1 : PairAt(q) \in SplitStores(c, g)
    <2>1. PICK col \in 0 .. c.cols - 1 : col = 2 * q
      BY <1>1
    <2>2. PICK g \in 0 .. NumGroups(c) - 1 : g = col \div c.groupSize
      BY InGroup
    <2>3. PICK h \in Nat, l \in Nat \ {0} :
              GroupStart(c, g) = 2 * h /\ GroupLen(c, g) = 2 * l /\ h + l <= H
      BY <1>1, EvenGroups
    <2>4. col \in 2 * h .. 2 * h + 2 * l - 1
      BY <2>2, <2>3, InGroup
    <2>5. q \in h .. h + l - 1
      BY <2>1, <2>4
    <2>6. SplitStores(c, g) = PairsAt(h, h + l)
      BY <2>3, SplitStoresAre
    <2>7. PairAt(q) \in SplitStores(c, g)
      BY <2>5, <2>6 DEF PairsAt
    <2> QED BY <2>7
  <1>4. \A s \in PairsAt(0, H) : \E q \in 0 .. H - 1 : s = PairAt(q)
    BY DEF PairsAt
  <1> QED BY <1>1, <1>2, <1>3, <1>4

(* The groups together store the hidden state, every column of it. *)
LEMMA AllHidden ==
    ASSUME NEW c \in Calls, Valid(c)
    PROVE  UNION { HiddenStores(c, g) : g \in 0 .. NumGroups(c) - 1 } = 0 .. c.cols - 1
  <1>1. \A g \in 0 .. NumGroups(c) - 1 :
           HiddenStores(c, g) = { col \in 0 .. c.cols - 1 : col \div c.groupSize = g }
    BY GroupColumns
  <1>2. \A col \in 0 .. c.cols - 1 : col \div c.groupSize \in 0 .. NumGroups(c) - 1
    BY InGroup
  <1> QED BY <1>1, <1>2

(* What a cell of the two halves of a token holds. *)
OnlyPair(c, at) == { s \in PairsAt(0, Half(c)) : s[1] = at % Half(c) }

(* A cell is one pair's, and its token's. *)
LEMMA OnlyPairIs ==
    ASSUME NEW c \in Calls, NEW H \in Nat \ {0}, Half(c) = H, NEW t \in Nat, NEW q \in 0 .. H - 1
    PROVE  /\ OnlyPair(c, t * H + q) = {PairAt(q)}
           /\ (t * H + q) \div H = t
  <1>1. q \in Nat /\ t + 1 \in Nat \ {0} /\ t \in 0 .. (t + 1) - 1
    OBVIOUS
  <1>2. (t * H + q) \div H = t /\ (t * H + q) % H = q
    BY <1>1, AddressFacts
  <1>3. \A x : PairAt(x)[1] = x
    BY DEF PairAt
  <1>4. PairAt(q) \in PairsAt(0, H)
    BY DEF PairsAt
  <1>5. \A s \in PairsAt(0, H) : s[1] = q <=> s = PairAt(q)
    BY <1>3 DEF PairsAt
  <1> QED BY <1>2, <1>4, <1>5 DEF OnlyPair

(* What the groups store in a cell. *)
StoredAt(c, at) ==
    { s \in UNION { SplitStores(c, g) : g \in 0 .. NumGroups(c) - 1 } : s[1] = at % Half(c) }

(* The inputs as the kernels index them. *)
Laid(c, b, t) ==
    /\ \A g \in 0 .. NumGroups(c) - 1 :
          b.sums[t * NumGroups(c) + g] = <<t, ColumnsOf(c, g)>>
    /\ c.kind # "lm_head" =>
          \A q \in 0 .. Half(c) - 1 :
             /\ b.even[t * Half(c) + q] = <<"i8", t, 2 * q>>
             /\ b.odd[t * Half(c) + q] = <<"i8", t, 2 * q + 1>>
    /\ c.kind = "lm_head" => \A col \in 0 .. c.cols - 1 : b.hidden[col] = <<"i8", 0, col>>

(* What an entry point prepares is laid out so, for each of its tokens. *)
LEMMA PreparedFacts ==
    ASSUME NEW c \in Calls, Valid(c), NEW t \in 0 .. c.tokens - 1
    PROVE  Laid(c, Prepared(c), t)
  <1>1. PICK n \in Nat \ {0} : n = c.tokens /\ t \in 0 .. n - 1
    BY ValidFacts
  <1>2. ASSUME NEW g \in 0 .. NumGroups(c) - 1
        PROVE  Prepared(c).sums[t * NumGroups(c) + g] = <<t, ColumnsOf(c, g)>>
    <2>1. PICK G \in Nat \ {0} : G = NumGroups(c)
      BY GroupsType
    <2>2. PICK at : at = t * G + g
      OBVIOUS
    <2>3. g \in 0 .. G - 1
      BY <2>1
    <2>4. at \in 0 .. n * G - 1 /\ at \div G = t /\ at % G = g
      <3>1. t * G + g \in 0 .. n * G - 1 /\ (t * G + g) \div G = t /\ (t * G + g) % G = g
        BY <1>1, <2>3, AddressFacts
      <3> QED BY <2>2, <3>1
    <2>5. Prepared(c).sums = [i \in 0 .. c.tokens * NumGroups(c) - 1 |->
                        <<i \div NumGroups(c), SumOf(c, i % NumGroups(c))>>]
      BY DEF Prepared
    <2>6. Prepared(c).sums[at] = <<t, SumOf(c, g)>>
      BY <1>1, <2>1, <2>4, <2>5
    <2> QED BY <2>1, <2>2, <2>6, GroupColumns
  <1>3. ASSUME c.kind # "lm_head", NEW q \in 0 .. Half(c) - 1
        PROVE  /\ Prepared(c).even[t * Half(c) + q] = <<"i8", t, 2 * q>>
               /\ Prepared(c).odd[t * Half(c) + q] = <<"i8", t, 2 * q + 1>>
    <2>1. PICK H \in Nat \ {0} : H = Half(c)
      <3>1. PICK cols \in Nat : cols = c.cols
        BY ValidFacts
      <3>2. cols \div 2 \in Nat
        BY <3>1
      <3>3. PICK H \in Nat : H = Half(c)
        BY <3>1, <3>2 DEF Half
      <3>4. q \in 0 .. H - 1
        BY <3>3
      <3>5. H # 0
        BY <3>4
      <3> QED BY <3>3, <3>5
    <2>2. PICK at : at = t * H + q
      OBVIOUS
    <2>3. q \in 0 .. H - 1 /\ t \in Nat
      BY <2>1, <1>1
    <2>4. at \in 0 .. n * H - 1
      BY <1>1, <2>2, <2>3, AddressFacts
    <2>5. OnlyPair(c, at) = {PairAt(q)} /\ at \div H = t
      <3>1. OnlyPair(c, t * H + q) = {PairAt(q)} /\ (t * H + q) \div H = t
        BY <2>1, <2>3, OnlyPairIs
      <3> QED BY <2>2, <3>1
    <2>6. PICK pair : pair = CHOOSE s \in OnlyPair(c, at) : TRUE
      OBVIOUS
    <2>7. pair = PairAt(q)
      BY <2>5, <2>6
    <2>8. \A i : StoredAt(c, i) = OnlyPair(c, i)
      BY <1>3, AllPairs DEF StoredAt, OnlyPair
    <2>9. Prepared(c).even = [i \in 0 .. c.tokens * Half(c) - 1 |->
               IF StoredAt(c, i) = {} THEN "zero"
               ELSE <<"i8", i \div Half(c), (CHOOSE s \in StoredAt(c, i) : TRUE)[2]>>]
      BY <1>3 DEF Prepared, StoredAt
    <2>10. Prepared(c).odd = [i \in 0 .. c.tokens * Half(c) - 1 |->
               IF StoredAt(c, i) = {} THEN "zero"
               ELSE <<"i8", i \div Half(c), (CHOOSE s \in StoredAt(c, i) : TRUE)[3]>>]
      BY <1>3 DEF Prepared, StoredAt
    <2>11. at \in 0 .. c.tokens * Half(c) - 1 /\ StoredAt(c, at) = OnlyPair(c, at) /\ OnlyPair(c, at) # {}
      BY <1>1, <2>1, <2>4, <2>5, <2>8
    <2>12. Prepared(c).even[at] = <<"i8", at \div Half(c), (CHOOSE s \in OnlyPair(c, at) : TRUE)[2]>>
      BY <2>9, <2>11
    <2>13. Prepared(c).odd[at] = <<"i8", at \div Half(c), (CHOOSE s \in OnlyPair(c, at) : TRUE)[3]>>
      BY <2>10, <2>11
    <2>14. pair[2] = 2 * q /\ pair[3] = 2 * q + 1
      BY <2>7 DEF PairAt
    <2>15. at \div Half(c) = t
      BY <2>1, <2>5
    <2> QED BY <2>1, <2>2, <2>6, <2>12, <2>13, <2>14, <2>15
  <1>4. ASSUME c.kind = "lm_head", NEW col \in 0 .. c.cols - 1
        PROVE  Prepared(c).hidden[col] = <<"i8", 0, col>>
    <2>1. UNION { HiddenStores(c, g) : g \in 0 .. NumGroups(c) - 1 } = 0 .. c.cols - 1
      BY AllHidden
    <2>2. Prepared(c).hidden =
             [at \in 0 .. c.cols - 1 |->
                IF at \in UNION { HiddenStores(c, g) : g \in 0 .. NumGroups(c) - 1 }
                THEN <<"i8", 0, at>> ELSE "zero"]
      BY <1>4 DEF Prepared
    <2> QED BY <2>1, <2>2
  <1> QED BY <1>2, <1>3, <1>4 DEF Laid

(* The products of columns a .. b - 1 of a row with a token's inputs.        *)
Products(row, t, kind, a, b) == { <<<<row, col>>, <<kind, t, col>>>> : col \in a .. b - 1 }

(* The columns of some products. *)
ColumnsTaken(products) == { p[1][2] : p \in products }

(* Some products are of columns a .. b - 1, each once. *)
Takes(products, row, t, kind, a, b) ==
    /\ Cardinality(products) = b - a /\ ColumnsTaken(products) = a .. b - 1
    /\ \A p \in products :
          p[1] = <<row, p[1][2]>> /\ p[2] = <<kind, t, p[1][2]>> /\ p[1][2] \in a .. b - 1

(* The products of columns a .. b - 1 are. *)
LEMMA ProductsFacts ==
    ASSUME NEW row, NEW t, NEW kind, NEW a \in Nat, NEW b \in Nat, a <= b
    PROVE  Takes(Products(row, t, kind, a, b), row, t, kind, a, b)
  <1> DEFINE Product(col) == <<<<row, col>>, <<kind, t, col>>>>
  <1>1. PICK f : f = [col \in a .. b - 1 |-> Product(col)]
    OBVIOUS
  <1>2. f \in Bijection(a .. b - 1, Products(row, t, kind, a, b))
    <2>1. \A x, y : Product(x) = Product(y) => x = y
      OBVIOUS
    <2>2. f \in [a .. b - 1 -> Products(row, t, kind, a, b)]
      BY <1>1 DEF Products
    <2>3. \A x, y \in a .. b - 1 : f[x] = f[y] => x = y
      <3> HIDE DEF Product
      <3> QED BY <1>1, <2>1
    <2>4. f \in Injection(a .. b - 1, Products(row, t, kind, a, b))
      BY <2>2, <2>3 DEF Injection, IsInjective
    <2>5. \A p \in Products(row, t, kind, a, b) : \E x \in a .. b - 1 : f[x] = p
      BY <1>1 DEF Products
    <2>6. f \in Surjection(a .. b - 1, Products(row, t, kind, a, b))
      BY <2>2, <2>5 DEF Surjection
    <2> QED BY <2>4, <2>6 DEF Bijection
  <1>3. IsFiniteSet(a .. b - 1) /\ Cardinality(a .. b - 1) = b - a
    <2>1. PICK z \in Int : z = b - 1
      OBVIOUS
    <2>2. IsFiniteSet(a .. z) /\ Cardinality(a .. z) = IF a > z THEN 0 ELSE z - a + 1
      BY FS_Interval
    <2> QED BY <2>1, <2>2
  <1>4. Cardinality(Products(row, t, kind, a, b)) = b - a
    <2>1. ExistsBijection(a .. b - 1, Products(row, t, kind, a, b))
      BY <1>2 DEF ExistsBijection
    <2> QED BY <1>3, <2>1, FS_Bijection
  <1>5. \A p \in Products(row, t, kind, a, b) :
                 p[1] = <<row, p[1][2]>> /\ p[2] = <<kind, t, p[1][2]>> /\ p[1][2] \in a .. b - 1
    BY DEF Products
  <1>6. ASSUME NEW col \in a .. b - 1
        PROVE  col \in ColumnsTaken(Products(row, t, kind, a, b))
    <2>1. PICK p \in Products(row, t, kind, a, b) : p = Product(col)
      BY DEF Products
    <2>2. p[1][2] = col
      BY <2>1
    <2> QED BY <2>2 DEF ColumnsTaken
  <1>7. ColumnsTaken(Products(row, t, kind, a, b)) = a .. b - 1
    <2>1. \A x \in ColumnsTaken(Products(row, t, kind, a, b)) : x \in a .. b - 1
      BY <1>5 DEF ColumnsTaken
    <2> QED BY <1>6, <2>1
  <1> QED BY <1>4, <1>5, <1>7 DEF Takes

(* A step of an accumulator that takes columns a .. b - 1, all of one group.  *)
StepOver(c, row, t, s, a, b) ==
    \E g \in 0 .. NumGroups(c) - 1, kind \in {"i8", "f32"} :
       /\ s = ScaledStep(g, IF kind = "f32" THEN "none" ELSE g, Products(row, t, kind, a, b))
       /\ GroupStart(c, g) <= a /\ a <= b /\ b <= GroupStart(c, g) + GroupLen(c, g)

(* The steps of d take the columns below n in their order: e[i] are taken    *)
(* after i steps.                                                            *)
CutAt(c, row, t, d, e, n) ==
    /\ \E S : d \in Seq(S)
    /\ e \in [0 .. Len(d) -> Nat] /\ e[0] = 0 /\ e[Len(d)] = n
    /\ \A i \in 1 .. Len(d) : StepOver(c, row, t, d[i], e[i - 1], e[i])

(* The steps of d take the columns below n, in order. *)
Taking(c, row, t, d, n) == \E e : CutAt(c, row, t, d, e, n)

(* An accumulator starts with nothing. *)
LEMMA NothingTaken ==
    ASSUME NEW c, NEW row, NEW t
    PROVE  Taking(c, row, t, <<>>, 0)
  <1>1. PICK e : e = [i \in 0 .. 0 |-> 0]
    OBVIOUS
  <1>2. <<>> \in Seq({}) /\ Len(<<>>) = 0
    OBVIOUS
  <1>3. CutAt(c, row, t, <<>>, e, 0)
    BY <1>1, <1>2 DEF CutAt
  <1> QED BY <1>3 DEF Taking

(* A sequence with one more step. *)
LEMMA StepAdded ==
    ASSUME NEW S, NEW d \in Seq(S), NEW x
    PROVE  /\ Append(d, x) \in Seq(S \cup {x}) /\ Len(d) \in Nat
           /\ Len(Append(d, x)) = Len(d) + 1
           /\ \A i \in 1 .. Len(d) : Append(d, x)[i] = d[i]
           /\ Append(d, x)[Len(d) + 1] = x
  <1>1. d \in Seq(S \cup {x})
    OBVIOUS
  <1>2. x \in S \cup {x}
    OBVIOUS
  <1> QED BY <1>1, <1>2, AppendProperties

(* A step over the columns from n to m takes the accumulator from n to m. *)
LEMMA TakingMore ==
    ASSUME NEW c, NEW row, NEW t, NEW d, NEW n, Taking(c, row, t, d, n),
           NEW m \in Nat, NEW x, StepOver(c, row, t, x, n, m)
    PROVE  Taking(c, row, t, Append(d, x), m)
  <1>1. PICK e : CutAt(c, row, t, d, e, n)
    BY DEF Taking
  <1>2. PICK S : d \in Seq(S)
    BY <1>1 DEF CutAt
  <1>3. PICK L \in Nat : L = Len(d)
    BY <1>2
  <1>4. PICK h : h = [i \in 0 .. L + 1 |-> IF i <= L THEN e[i] ELSE m]
    OBVIOUS
  <1>5. /\ e \in [0 .. L -> Nat] /\ e[0] = 0 /\ e[L] = n
        /\ \A i \in 1 .. L : StepOver(c, row, t, d[i], e[i - 1], e[i])
    BY <1>1, <1>3 DEF CutAt
  <1>6. h \in [0 .. L + 1 -> Nat] /\ h[L] = n /\ h[L + 1] = m /\ h[0] = 0
    BY <1>4, <1>5
  <1>7. PICK y : y = Append(d, x)
    OBVIOUS
  <1>8. /\ y \in Seq(S \cup {x}) /\ Len(y) = L + 1 /\ y[L + 1] = x
        /\ \A i \in 1 .. L : y[i] = d[i]
    BY <1>2, <1>3, <1>7, StepAdded
  <1>9. ASSUME NEW i \in 1 .. L + 1 PROVE StepOver(c, row, t, y[i], h[i - 1], h[i])
    <2>1. CASE i <= L
      <3>1. i \in 1 .. L /\ h[i] = e[i] /\ h[i - 1] = e[i - 1] /\ y[i] = d[i]
        BY <1>4, <1>8, <2>1
      <3> QED BY <1>5, <3>1
    <2>2. CASE i = L + 1
      <3>1. h[i] = m /\ h[i - 1] = n /\ y[i] = x
        BY <1>6, <1>8, <2>2
      <3> QED BY <3>1
    <2> QED BY <2>1, <2>2
  <1>10. CutAt(c, row, t, y, h, m)
    BY <1>6, <1>8, <1>9 DEF CutAt
  <1> QED BY <1>7, <1>10 DEF Taking

(* The dot product of DotExact. *)
ExactDot(c, row, t, dot) ==
    /\ \A i \in DOMAIN dot : \A p \in dot[i].products :
          /\ p[1] = <<row, p[1][2]>> /\ p[2] = <<p[2][1], t, p[1][2]>>
          /\ dot[i].weightScale = p[1][2] \div c.groupSize
          /\ dot[i].inputScale = IF p[2][1] = "f32" THEN "none" ELSE p[1][2] \div c.groupSize
    /\ UNION { { p[1][2] : p \in dot[i].products } : i \in DOMAIN dot } = 0 .. c.cols - 1
    /\ SumFunction([i \in DOMAIN dot |-> Cardinality(dot[i].products)]) = c.cols

(* A step takes each of its columns once, with the scales of that column's   *)
(* group.                                                                    *)
ExactStep(c, row, t, s, a, b) ==
    /\ a <= b /\ b <= c.cols
    /\ Cardinality(s.products) = b - a /\ ColumnsTaken(s.products) = a .. b - 1
    /\ \A p \in s.products :
          /\ p[1] = <<row, p[1][2]>> /\ p[2] = <<p[2][1], t, p[1][2]>>
          /\ s.weightScale = p[1][2] \div c.groupSize
          /\ s.inputScale = IF p[2][1] = "f32" THEN "none" ELSE p[1][2] \div c.groupSize

(* A step over columns of one group is exact. *)
LEMMA StepFacts ==
    ASSUME NEW c \in Calls, Valid(c), NEW row, NEW t, NEW a \in Nat, NEW b \in Nat, NEW s,
           StepOver(c, row, t, s, a, b)
    PROVE  ExactStep(c, row, t, s, a, b)
  <1>1. PICK g \in 0 .. NumGroups(c) - 1, kind \in {"i8", "f32"} :
             /\ s = ScaledStep(g, IF kind = "f32" THEN "none" ELSE g, Products(row, t, kind, a, b))
             /\ GroupStart(c, g) <= a /\ a <= b /\ b <= GroupStart(c, g) + GroupLen(c, g)
    BY DEF StepOver
  <1>2. PICK start \in Nat, len \in Nat, cols \in Nat :
            /\ start = GroupStart(c, g) /\ len = GroupLen(c, g) /\ cols = c.cols
            /\ start + len <= cols
    BY GroupFacts, ValidFacts
  <1>3. a <= b /\ b <= cols
    BY <1>1, <1>2
  <1>4. /\ s.products = Products(row, t, kind, a, b) /\ s.weightScale = g
        /\ s.inputScale = IF kind = "f32" THEN "none" ELSE g
    BY <1>1 DEF ScaledStep
  <1>5. Takes(s.products, row, t, kind, a, b)
    BY <1>3, <1>4, ProductsFacts
  <1>6. ASSUME NEW col \in a .. b - 1 PROVE col \div c.groupSize = g
    <2>1. col \in 0 .. c.cols - 1 /\ col \in GroupStart(c, g) .. GroupStart(c, g) + GroupLen(c, g) - 1
      BY <1>1, <1>2
    <2> QED BY <2>1, InGroup
  <1>7. ASSUME NEW p \in s.products
        PROVE  /\ p[1] = <<row, p[1][2]>> /\ p[2] = <<p[2][1], t, p[1][2]>>
               /\ s.weightScale = p[1][2] \div c.groupSize
               /\ s.inputScale = IF p[2][1] = "f32" THEN "none" ELSE p[1][2] \div c.groupSize
    <2>1. p[1] = <<row, p[1][2]>> /\ p[2] = <<kind, t, p[1][2]>> /\ p[1][2] \in a .. b - 1
      BY <1>5 DEF Takes
    <2>2. p[2][1] = kind
      BY <2>1
    <2>3. p[1][2] \div c.groupSize = g
      BY <1>6, <2>1
    <2> QED BY <1>4, <2>1, <2>2, <2>3
  <1> QED BY <1>2, <1>3, <1>5, <1>7 DEF Takes, ExactStep

(* Steps that take all the columns in order are the dot product: every       *)
(* column once.                                                              *)
LEMMA TakenExactly ==
    ASSUME NEW c \in Calls, Valid(c), NEW row, NEW t, NEW d, Taking(c, row, t, d, c.cols)
    PROVE  ExactDot(c, row, t, d)
  <1>1. PICK e : CutAt(c, row, t, d, e, c.cols)
    BY DEF Taking
  <1>2. PICK S : d \in Seq(S)
    BY <1>1 DEF CutAt
  <1>3. PICK L \in Nat : L = Len(d) /\ DOMAIN d = 1 .. L
    BY <1>2
  <1>4. PICK cols \in Nat : cols = c.cols
    BY ValidFacts
  <1>5. /\ e \in [0 .. L -> Nat] /\ e[0] = 0 /\ e[L] = cols
        /\ \A i \in 1 .. L : StepOver(c, row, t, d[i], e[i - 1], e[i])
    BY <1>1, <1>3, <1>4 DEF CutAt
  <1>6. ASSUME NEW i \in 1 .. L
        PROVE  /\ e[i - 1] \in Nat /\ e[i] \in Nat
               /\ ExactStep(c, row, t, d[i], e[i - 1], e[i])
    <2>1. PICK a \in Nat, b \in Nat : a = e[i - 1] /\ b = e[i]
      <3>1. i - 1 \in 0 .. L /\ i \in 0 .. L
        OBVIOUS
      <3> QED BY <1>5, <3>1
    <2>2. StepOver(c, row, t, d[i], a, b)
      BY <1>5, <2>1
    <2> QED BY <1>4, <2>1, <2>2, StepFacts
  <1>9. ASSUME NEW i \in 1 .. L
        PROVE  /\ e[i - 1] \in Nat /\ e[i] \in Nat /\ e[i - 1] <= e[i] /\ e[i] <= cols
               /\ Cardinality(d[i].products) = e[i] - e[i - 1]
               /\ ColumnsTaken(d[i].products) = e[i - 1] .. e[i] - 1
    BY <1>4, <1>6 DEF ExactStep
  <1>7. UNION { { p[1][2] : p \in d[i].products } : i \in 1 .. L } = 0 .. cols - 1
    <2> DEFINE Found == { k \in 0 .. L : \A x \in 0 .. e[k] - 1 :
                             \E i \in 1 .. k : x \in e[i - 1] .. e[i] - 1 }
    <2>1. 0 \in Found
      BY <1>5
    <2>2. ASSUME NEW k \in 1 .. L, k - 1 \in Found PROVE k \in Found
      <3>1. ASSUME NEW x \in 0 .. e[k] - 1
            PROVE  \E i \in 1 .. k : x \in e[i - 1] .. e[i] - 1
        <4>1. e[k - 1] \in Nat /\ e[k] \in Nat
          BY <1>9
        <4>2. CASE x < e[k - 1]
          <5>1. x \in 0 .. e[k - 1] - 1
            BY <4>1, <4>2
          <5>2. PICK i \in 1 .. k - 1 : x \in e[i - 1] .. e[i] - 1
            BY <2>2, <5>1
          <5>3. i \in 1 .. k
            OBVIOUS
          <5> QED BY <5>2, <5>3
        <4>3. CASE ~(x < e[k - 1])
          <5>1. x \in e[k - 1] .. e[k] - 1 /\ k \in 1 .. k
            BY <4>1, <4>3
          <5> QED BY <5>1
        <4> QED BY <4>2, <4>3
      <3>2. k \in 0 .. L
        OBVIOUS
      <3> QED BY <3>1, <3>2
    <2>3. \A k \in 0 .. L : k \in Found
      <3> HIDE DEF Found
      <3> QED BY <2>1, <2>2, Climb
    <2>4. \A x \in 0 .. cols - 1 : \E i \in 1 .. L : x \in e[i - 1] .. e[i] - 1
      <3>1. L \in Found
        BY <2>3
      <3> QED BY <1>5, <3>1
    <2>5. ASSUME NEW i \in 1 .. L, NEW x \in e[i - 1] .. e[i] - 1 PROVE x \in 0 .. cols - 1
      <3>1. e[i - 1] \in Nat /\ e[i] \in Nat /\ e[i] <= cols
        BY <1>9
      <3> QED BY <3>1
    <2>6. UNION { ColumnsTaken(d[i].products) : i \in 1 .. L } = 0 .. cols - 1
      BY <1>9, <2>4, <2>5
    <2> QED BY <2>6 DEF ColumnsTaken
  <1>8. SumFunction([i \in 1 .. L |-> Cardinality(d[i].products)]) = cols
    <2>1. PICK g : g = [i \in 1 .. L |-> Cardinality(d[i].products)]
      OBVIOUS
    <2>2. \A i \in 1 .. L : g[i] = e[i] - e[i - 1] /\ g[i] \in Nat
      BY <1>9, <2>1
    <2>3. g \in [1 .. L -> Nat]
      BY <2>1, <2>2
    <2>4. IsFiniteSet(1 .. L)
      BY FS_Interval
    <2>5. PICK f : SumsTo(f, g, 1 .. L)
      BY <2>3, <2>4, SumFolds
    <2> DEFINE Summed == { k \in 0 .. L : f[1 .. k] = e[k] }
    <2>6. 0 \in Summed
      <3>1. 1 .. 0 = {} /\ f[{}] = 0
        BY <2>5 DEF SumsTo
      <3> QED BY <1>5, <3>1
    <2>7. ASSUME NEW k \in 1 .. L, k - 1 \in Summed PROVE k \in Summed
      <3>1. 1 .. k \in SUBSET (1 .. L) /\ k \in 1 .. k /\ (1 .. k) \ {k} = 1 .. k - 1
        OBVIOUS
      <3>2. f[1 .. k] = g[k] + f[1 .. k - 1]
        <4>1. f[1 .. k] = g[k] + f[(1 .. k) \ {k}]
          BY <2>5, <3>1 DEF SumsTo
        <4> QED BY <3>1, <4>1
      <3>3. f[1 .. k - 1] = e[k - 1]
        BY <2>7
      <3>4. f[1 .. k] = e[k]
        BY <1>9, <2>2, <3>2, <3>3
      <3>5. k \in 0 .. L
        OBVIOUS
      <3> QED BY <3>4, <3>5
    <2>8. \A k \in 0 .. L : k \in Summed
      <3> HIDE DEF Summed
      <3> QED BY <2>6, <2>7, Climb
    <2>9. f[1 .. L] = e[L]
      BY <2>8
    <2> QED BY <1>5, <2>1, <2>5, <2>9 DEF SumsTo
  <1>10. \A i \in 1 .. L : \A p \in d[i].products :
          /\ p[1] = <<row, p[1][2]>> /\ p[2] = <<p[2][1], t, p[1][2]>>
          /\ d[i].weightScale = p[1][2] \div c.groupSize
          /\ d[i].inputScale = IF p[2][1] = "f32" THEN "none" ELSE p[1][2] \div c.groupSize
    BY <1>6 DEF ExactStep
  <1> QED BY <1>3, <1>4, <1>7, <1>8, <1>10 DEF ExactDot

(* Two columns to a byte: nibble n of byte x of a row is column 2 * x + n. *)
ByteAt(c, row, x) == row * Half(c) + x
CodeWithSplit(c, row, t, x, n) == <<Code(c, ByteAt(c, row, x), n), Split(ByteAt(c, t, x), n)>>
CodeWithFloat(c, row, t, x, n) ==
    <<Code(c, ByteAt(c, row, x), n), Float(c, t * c.cols + 2 * x + n)>>
(* The product of a column of a row with that column of a token. *)
Product(row, t, kind, col) == <<<<row, col>>, <<kind, t, col>>>>

(* A member of Products is one of these. *)
LEMMA IsProduct ==
    ASSUME NEW row, NEW t, NEW kind, NEW a, NEW b, NEW p
    PROVE  p \in Products(row, t, kind, a, b)
             <=> \E col \in a .. b - 1 : p = Product(row, t, kind, col)
  BY DEF Products, Product

(* A flat index is the row and the place in it. *)
LEMMA AddressOf ==
    ASSUME NEW r \in Nat \ {0}, NEW t \in Nat, NEW x \in 0 .. r - 1, NEW a, a = t * r + x
    PROVE  a \in Nat /\ a \div r = t /\ a % r = x
  <1>1. a \in Nat
    <2>1. t * r \in Nat
      OBVIOUS
    <2> QED BY <2>1
  <1>2. PICK q \in Nat, p \in 0 .. r - 1 : q = a \div r /\ p = a % r /\ a = q * r + p
    BY <1>1, Blocks
  <1>3. q * r + p = t * r + x
    BY <1>2
  <1>4. q = t /\ p = x
    BY <1>3, BlocksApart
  <1> QED BY <1>1, <1>2, <1>4

(* A nibble of a row's byte is the code of its column. *)
LEMMA CodeAt ==
    ASSUME NEW c, Half(c) \in Nat, NEW row \in Nat, NEW x \in 0 .. Half(c) - 1, NEW n \in {0, 1}
    PROVE  Code(c, ByteAt(c, row, x), n) = <<row, 2 * x + n>>
  <1>1. PICK H \in Nat \ {0} : H = Half(c)
    OBVIOUS
  <1>2. PICK a : a = ByteAt(c, row, x)
    OBVIOUS
  <1>3. a = row * H + x /\ x \in 0 .. H - 1
    BY <1>1, <1>2 DEF ByteAt
  <1>4. a \div H = row /\ a % H = x
    BY <1>3, AddressOf
  <1> QED BY <1>1, <1>2, <1>4 DEF Code

(* A nibble meets the input of its own column in the split halves. *)
LEMMA MeetsSplit ==
    ASSUME NEW c, c.kind # "lm_head", Half(c) \in Nat, NEW row \in Nat, NEW t \in Nat,
           Laid(c, buffers, t), NEW x \in 0 .. Half(c) - 1, NEW n \in {0, 1}
    PROVE  CodeWithSplit(c, row, t, x, n) = Product(row, t, "i8", 2 * x + n)
  <1>1. PICK at : at = ByteAt(c, row, x)
    OBVIOUS
  <1>2. Code(c, at, n) = <<row, 2 * x + n>>
    BY <1>1, CodeAt
  <1>3. PICK i : i = ByteAt(c, t, x)
    OBVIOUS
  <1>4. buffers.even[i] = <<"i8", t, 2 * x>> /\ buffers.odd[i] = <<"i8", t, 2 * x + 1>>
    BY <1>3 DEF Laid, ByteAt
  <1>5. Split(i, n) = <<"i8", t, 2 * x + n>>
    <2>1. CASE n = 0
      BY <1>4, <2>1 DEF Split
    <2>2. CASE n = 1
      BY <1>4, <2>2 DEF Split
    <2> QED BY <2>1, <2>2
  <1> QED BY <1>1, <1>2, <1>3, <1>5 DEF CodeWithSplit, Product

(* The packed kernels have an even number of columns. *)
LEMMA HalfFacts ==
    ASSUME NEW c \in Calls, Valid(c), c.kind # "lm_head"
    PROVE  Half(c) \in Nat /\ c.cols = 2 * Half(c)
  <1>1. PICK cols \in Nat : cols = c.cols
    BY ValidFacts
  <1>2. cols % 2 = 0
    BY <1>1 DEF Valid
  <1>3. cols = 2 * (cols \div 2) /\ cols \div 2 \in Nat
    BY <1>2
  <1> QED BY <1>1, <1>3 DEF Half

(* And in the floating-point inputs. *)
LEMMA MeetsFloat ==
    ASSUME NEW c \in Calls, Valid(c), c.kind # "lm_head", NEW row \in Nat, NEW t \in Nat,
           NEW x \in 0 .. Half(c) - 1, NEW n \in {0, 1}
    PROVE  CodeWithFloat(c, row, t, x, n) = Product(row, t, "f32", 2 * x + n)
  <1>1. PICK at : at = ByteAt(c, row, x)
    OBVIOUS
  <1>2. Code(c, at, n) = <<row, 2 * x + n>>
    BY <1>1, HalfFacts, CodeAt
  <1>3. PICK cols \in Nat \ {0} : cols = c.cols /\ cols = 2 * Half(c)
    BY ValidFacts, HalfFacts
  <1>4. PICK col \in 0 .. cols - 1 : col = 2 * x + n
    <2>1. PICK H \in Nat : H = Half(c)
      BY HalfFacts
    <2>2. x \in 0 .. H - 1 /\ cols = 2 * H
      BY <1>3, <2>1
    <2>3. 2 * x + n \in 0 .. cols - 1
      BY <2>2
    <2> QED BY <2>3
  <1>5. PICK tc \in Nat : tc = t * cols
    <2>1. t * cols \in Nat
      OBVIOUS
    <2> QED BY <2>1
  <1>6. PICK i : i = t * c.cols + 2 * x + n
    OBVIOUS
  <1>7. i = t * cols + col
    <2>1. i = tc + 2 * x + n
      BY <1>3, <1>5, <1>6
    <2>2. x \in Nat
      BY HalfFacts
    <2> QED BY <1>4, <1>5, <2>1, <2>2
  <1>8. i \div cols = t /\ i % cols = col
    BY <1>7, AddressOf
  <1>9. Float(c, i) = <<"f32", t, 2 * x + n>>
    BY <1>3, <1>4, <1>8 DEF Float
  <1> QED BY <1>1, <1>2, <1>6, <1>9 DEF CodeWithFloat, Product

(* What a block's step sums: the products of its columns. *)
LEMMA BlockIs ==
    ASSUME NEW c \in Calls, Valid(c), c.kind # "lm_head", NEW row \in Nat, NEW t \in Nat,
           Laid(c, buffers, t), NEW g \in 0 .. NumGroups(c) - 1,
           NEW f \in Nat, NEW w \in Nat, NEW from, from = 2 * f, NEW width, width = 2 * w,
           from + width <= GroupLen(c, g), NEW a, a = GroupStart(c, g) + from
    PROVE  Block(c, row, t, g, from, width) = Products(row, t, "i8", a, a + width)
  <1>1. PICK h \in Nat, l \in Nat, H \in Nat :
             /\ GroupStart(c, g) = 2 * h /\ GroupLen(c, g) = 2 * l
             /\ h + l <= H /\ H = Half(c)
    BY EvenGroups
  <1>2. PICK at \in Nat : at = h + f
    OBVIOUS
  <1>3. a = 2 * at /\ (GroupStart(c, g) + from) \div 2 = at /\ at + w <= H /\ width \div 2 = w
    BY <1>1, <1>2
  <1>4. Block(c, row, t, g, from, width)
          = { <<Code(c, row * H + at + k, n), Split(t * H + at + k, n)>> : k \in 0 .. w - 1, n \in {0, 1} }
    BY <1>1, <1>3 DEF Block
  <1>5. ASSUME NEW k \in 0 .. w - 1, NEW n \in {0, 1}
        PROVE  /\ <<Code(c, row * H + at + k, n), Split(t * H + at + k, n)>>
                    = Product(row, t, "i8", 2 * (at + k) + n)
               /\ at + k \in at .. (at + w) - 1
    <2>1. PICK x \in 0 .. H - 1 : x = at + k
      BY <1>3
    <2>2. row * H + at + k = row * H + x /\ t * H + at + k = t * H + x
      <3>1. PICK rh \in Nat, th \in Nat : rh = row * H /\ th = t * H
        <4>1. row * H \in Nat /\ t * H \in Nat
          OBVIOUS
        <4> QED BY <4>1
      <3> QED BY <2>1, <3>1
    <2>3. CodeWithSplit(c, row, t, x, n) = Product(row, t, "i8", 2 * x + n)
      BY <1>1, MeetsSplit
    <2>4. <<Code(c, row * H + x, n), Split(t * H + x, n)>> = Product(row, t, "i8", 2 * x + n)
      BY <1>1, <2>3 DEF CodeWithSplit, ByteAt
    <2> QED BY <2>1, <2>2, <2>4
  <1>6. ASSUME NEW col \in a .. a + width - 1
        PROVE  \E k \in 0 .. w - 1, n \in {0, 1} : col = 2 * (at + k) + n
    <2>1. col \in 2 * at .. 2 * (at + w) - 1 /\ col \in Nat
      BY <1>3
    <2>2. PICK x \in Nat, n \in {0, 1} : col = 2 * x + n
      <3>1. col \div 2 \in Nat /\ col % 2 \in {0, 1} /\ col = 2 * (col \div 2) + (col % 2)
        BY <2>1
      <3> QED BY <3>1
    <2>3. x - at \in 0 .. w - 1 /\ at + (x - at) = x
      BY <2>1, <2>2
    <2> QED BY <2>2, <2>3
  <1>7. ASSUME NEW k \in 0 .. w - 1, NEW n \in {0, 1}
        PROVE  2 * (at + k) + n \in a .. a + width - 1
    BY <1>3
  <1>8. Products(row, t, "i8", a, a + width) = { Product(row, t, "i8", col) : col \in a .. a + width - 1 }
    BY DEF Products, Product
  <1> DEFINE F(k, n) == <<Code(c, row * H + at + k, n), Split(t * H + at + k, n)>>
             Col(k, n) == 2 * (at + k) + n
  <1>9. /\ \A k \in 0 .. w - 1, n \in {0, 1} :
              F(k, n) = Product(row, t, "i8", Col(k, n)) /\ Col(k, n) \in a .. a + width - 1
        /\ \A col \in a .. a + width - 1 : \E k \in 0 .. w - 1, n \in {0, 1} : col = Col(k, n)
        /\ Block(c, row, t, g, from, width) = { F(k, n) : k \in 0 .. w - 1, n \in {0, 1} }
    BY <1>4, <1>5, <1>6, <1>7
  <1> HIDE DEF F, Col
  <1>10. ASSUME NEW p \in Block(c, row, t, g, from, width) PROVE p \in Products(row, t, "i8", a, a + width)
    <2>1. PICK k \in 0 .. w - 1, n \in {0, 1} : p = F(k, n)
      BY <1>9
    <2> QED BY <1>8, <1>9, <2>1
  <1>11. ASSUME NEW p \in Products(row, t, "i8", a, a + width) PROVE p \in Block(c, row, t, g, from, width)
    <2>1. PICK col \in a .. a + width - 1 : p = Product(row, t, "i8", col)
      BY <1>8
    <2>2. PICK k \in 0 .. w - 1, n \in {0, 1} : col = Col(k, n)
      BY <1>9
    <2> QED BY <1>9, <2>1, <2>2
  <1> QED BY <1>10, <1>11

(* What the pairs behind a group's blocks sum: the products of their         *)
(* columns.                                                                  *)
LEMMA PairsIs ==
    ASSUME NEW c \in Calls, Valid(c), c.kind # "lm_head", NEW row \in Nat, NEW t \in Nat,
           NEW g \in 0 .. NumGroups(c) - 1, NEW f \in Nat, NEW from, from = 2 * f,
           from <= GroupLen(c, g), NEW a, a = GroupStart(c, g) + from,
           NEW b, b = GroupStart(c, g) + GroupLen(c, g)
    PROVE  Pairs(c, row, t, g, from) = Products(row, t, "f32", a, b)
  <1>1. PICK h \in Nat, l \in Nat, H \in Nat :
             /\ GroupStart(c, g) = 2 * h /\ GroupLen(c, g) = 2 * l
             /\ h + l <= H /\ H = Half(c) /\ c.cols = 2 * H
    BY EvenGroups
  <1>2. PICK at \in Nat, w \in Nat : at = h + f /\ w = l - f
    <2>1. l - f \in Nat
      BY <1>1
    <2> QED BY <2>1
  <1>3. a = 2 * at /\ b = 2 * (at + w) /\ at + w <= H /\ (GroupLen(c, g) - from) \div 2 = w
    BY <1>1, <1>2
  <1>4. Pairs(c, row, t, g, from)
          = UNION { { <<Code(c, row * H + (2 * h + (from + 2 * k)) \div 2, n),
                        Float(c, t * c.cols + 2 * h + (from + 2 * k) + n)>> : n \in {0, 1} } :
                    k \in 0 .. w - 1 }
    BY <1>1, <1>3 DEF Pairs
  <1>5. ASSUME NEW k \in 0 .. w - 1, NEW n \in {0, 1}
        PROVE  /\ <<Code(c, row * H + (2 * h + (from + 2 * k)) \div 2, n),
                        Float(c, t * c.cols + 2 * h + (from + 2 * k) + n)>>
                    = Product(row, t, "f32", 2 * (at + k) + n)
    <2>1. PICK x \in 0 .. H - 1 : x = at + k
      BY <1>3
    <2>2. (2 * h + (from + 2 * k)) \div 2 = x
      BY <1>2, <2>1
    <2>3. t * c.cols + 2 * h + (from + 2 * k) + n = t * c.cols + 2 * x + n
      <3>1. PICK tc \in Nat : tc = t * c.cols
        <4>1. t * c.cols \in Nat
          BY <1>1
        <4> QED BY <4>1
      <3> QED BY <1>2, <2>1, <3>1
    <2>4. CodeWithFloat(c, row, t, x, n) = Product(row, t, "f32", 2 * x + n)
      <3>1. x \in 0 .. Half(c) - 1
        BY <1>1
      <3> QED BY <3>1, MeetsFloat
    <2>5. <<Code(c, row * H + x, n), Float(c, t * c.cols + 2 * x + n)>>
            = Product(row, t, "f32", 2 * x + n)
      BY <1>1, <2>4 DEF CodeWithFloat, ByteAt
    <2> QED BY <2>1, <2>2, <2>3, <2>5
  <1>6. ASSUME NEW col \in a .. b - 1
        PROVE  \E k \in 0 .. w - 1, n \in {0, 1} : col = 2 * (at + k) + n
    <2>1. col \in 2 * at .. 2 * (at + w) - 1 /\ col \in Nat
      BY <1>3
    <2>2. PICK x \in Nat, n \in {0, 1} : col = 2 * x + n
      <3>1. col \div 2 \in Nat /\ col % 2 \in {0, 1} /\ col = 2 * (col \div 2) + (col % 2)
        BY <2>1
      <3> QED BY <3>1
    <2>3. x - at \in 0 .. w - 1 /\ at + (x - at) = x
      BY <2>1, <2>2
    <2> QED BY <2>2, <2>3
  <1>7. ASSUME NEW k \in 0 .. w - 1, NEW n \in {0, 1}
        PROVE  2 * (at + k) + n \in a .. b - 1
    BY <1>3
  <1>8. Products(row, t, "f32", a, b) = { Product(row, t, "f32", col) : col \in a .. b - 1 }
    BY DEF Products, Product
  <1> DEFINE F(k, n) == <<Code(c, row * H + (2 * h + (from + 2 * k)) \div 2, n),
                          Float(c, t * c.cols + 2 * h + (from + 2 * k) + n)>>
             Col(k, n) == 2 * (at + k) + n
  <1>9. /\ \A k \in 0 .. w - 1, n \in {0, 1} :
              F(k, n) = Product(row, t, "f32", Col(k, n)) /\ Col(k, n) \in a .. b - 1
        /\ \A col \in a .. b - 1 : \E k \in 0 .. w - 1, n \in {0, 1} : col = Col(k, n)
        /\ Pairs(c, row, t, g, from) = UNION { { F(k, n) : n \in {0, 1} } : k \in 0 .. w - 1 }
    BY <1>4, <1>5, <1>6, <1>7
  <1> HIDE DEF F, Col
  <1>10. ASSUME NEW p \in Pairs(c, row, t, g, from) PROVE p \in Products(row, t, "f32", a, b)
    <2>1. PICK k \in 0 .. w - 1, n \in {0, 1} : p = F(k, n)
      BY <1>9
    <2> QED BY <1>8, <1>9, <2>1
  <1>11. ASSUME NEW p \in Products(row, t, "f32", a, b) PROVE p \in Pairs(c, row, t, g, from)
    <2>1. PICK col \in a .. b - 1 : p = Product(row, t, "f32", col)
      BY <1>8
    <2>2. PICK k \in 0 .. w - 1, n \in {0, 1} : col = Col(k, n)
      BY <1>9
    <2> QED BY <1>9, <2>1, <2>2
  <1> QED BY <1>10, <1>11

(* The whole blocks of a group, as one sum. *)
LEMMA WideIs ==
    ASSUME NEW c \in Calls, Valid(c), c.kind # "lm_head", NEW row \in Nat, NEW t \in Nat,
           Laid(c, buffers, t), NEW g \in 0 .. NumGroups(c) - 1,
           NEW done, done = (GroupLen(c, g) \div Wide) * Wide,
           NEW a, a = GroupStart(c, g)
    PROVE  WideBlocks(c, row, t, g) = Products(row, t, "i8", a, a + done)
  <1>1. PICK len \in Nat : len = GroupLen(c, g)
    BY GroupFacts
  <1>2. a \in Nat
    BY GroupFacts
  <1>3. PICK w \in Nat \ {0} : Wide = 2 * w
    <2>1. Wide \in Nat \ {0} /\ Wide % 2 = 0
      BY KernelsAssumption
    <2>2. Wide = 2 * (Wide \div 2) /\ Wide \div 2 \in Nat \ {0}
      BY <2>1
    <2> QED BY <2>2
  <1>4. Wide \in Nat \ {0}
    BY KernelsAssumption
  <1>5. PICK n \in Nat, r \in 0 .. Wide - 1 : n = len \div Wide /\ len = n * Wide + r
    BY <1>4, Blocks
  <1>6. done = n * Wide /\ done \in Nat /\ done <= len
    <2>1. PICK x \in Nat : x = n * Wide
      <3>1. n * Wide \in Nat
        BY <1>4
      <3> QED BY <3>1
    <2> QED BY <1>1, <1>4, <1>5, <2>1
  <1>7. ASSUME NEW b \in 0 .. n - 1
        PROVE  /\ b * Wide \in Nat /\ b * Wide + Wide <= done
               /\ Block(c, row, t, g, b * Wide, Wide)
                    = Products(row, t, "i8", a + b * Wide, a + b * Wide + Wide)
    <2>1. PICK from \in Nat : from = b * Wide /\ from + Wide <= done
      <3>1. 0 \in 0 .. Wide - 1
        BY <1>4
      <3>2. b * Wide \in Nat /\ b * Wide + Wide <= n * Wide
        BY <1>4, <3>1, BlocksCover
      <3> QED BY <1>6, <3>2
    <2>2. PICK f \in Nat : f = b * w
      <3>1. b * w \in Nat
        OBVIOUS
      <3> QED BY <3>1
    <2>3. from = 2 * f
      BY <1>3, <2>1, <2>2
    <2>4. from + Wide <= GroupLen(c, g)
      BY <1>1, <1>4, <1>6, <2>1
    <2>5. PICK at : at = a + from
      OBVIOUS
    <2>6. Block(c, row, t, g, from, Wide) = Products(row, t, "i8", at, at + Wide)
      BY <1>3, <2>3, <2>4, <2>5, BlockIs
    <2> QED BY <2>1, <2>5, <2>6
  <1>8. WideBlocks(c, row, t, g) = UNION { Block(c, row, t, g, b * Wide, Wide) : b \in 0 .. n - 1 }
    BY <1>1, <1>5 DEF WideBlocks
  <1>9. ASSUME NEW p \in WideBlocks(c, row, t, g) PROVE p \in Products(row, t, "i8", a, a + done)
    <2>1. PICK b \in 0 .. n - 1 : p \in Block(c, row, t, g, b * Wide, Wide)
      BY <1>8
    <2>2. PICK from \in Nat : from = b * Wide /\ from + Wide <= done
      BY <1>7
    <2>3. PICK x, y, z : x = a + from /\ y = a + from + Wide /\ z = a + done
      OBVIOUS
    <2>4. p \in Products(row, t, "i8", x, y)
      BY <1>7, <2>1, <2>2, <2>3
    <2>5. PICK col \in x .. y - 1 : p = Product(row, t, "i8", col)
      BY <2>4, IsProduct
    <2>6. col \in a .. z - 1
      BY <1>2, <1>4, <1>6, <2>2, <2>3
    <2>7. p \in Products(row, t, "i8", a, z)
      BY <2>5, <2>6, IsProduct
    <2> QED BY <2>3, <2>7
  <1>10. ASSUME NEW p \in Products(row, t, "i8", a, a + done) PROVE p \in WideBlocks(c, row, t, g)
    <2>1. PICK z : z = a + done
      OBVIOUS
    <2>2. PICK col \in a .. z - 1 : p = Product(row, t, "i8", col)
      BY <2>1, IsProduct
    <2>3. PICK x \in 0 .. done - 1 : col = a + x
      <3>1. col - a \in 0 .. done - 1 /\ col = a + (col - a)
        BY <1>2, <1>6, <2>1
      <3> QED BY <3>1
    <2>4. PICK b \in 0 .. n - 1, j \in 0 .. Wide - 1 : x = b * Wide + j
      <3>1. x \in 0 .. n * Wide - 1
        BY <1>6
      <3>2. \A i \in 0 .. n * Wide - 1 : \E b \in 0 .. n - 1, j \in 0 .. Wide - 1 : i = b * Wide + j
        BY <1>4, BlocksCover
      <3> QED BY <3>1, <3>2
    <2>5. PICK from \in Nat : from = b * Wide
      BY <1>7
    <2>6. PICK u, v : u = a + from /\ v = a + from + Wide
      OBVIOUS
    <2>7. col \in u .. v - 1
      BY <1>2, <1>4, <2>3, <2>4, <2>5, <2>6
    <2>8. p \in Products(row, t, "i8", u, v)
      BY <2>2, <2>7, IsProduct
    <2>9. p \in Block(c, row, t, g, b * Wide, Wide)
      BY <1>7, <2>5, <2>6, <2>8
    <2> QED BY <1>8, <2>9
  <1> QED BY <1>9, <1>10

(* A group of the single-token kernel takes the group's columns. *)
LEMMA GroupTaken ==
    ASSUME NEW c \in Calls, Valid(c), c.kind # "lm_head", NEW row \in Nat, NEW t \in Nat,
           Laid(c, buffers, t), NEW g \in 0 .. NumGroups(c) - 1,
           NEW acc, Taking(c, row, t, acc, Reached(c, g))
    PROVE  Taking(c, row, t, MatvecGroup(c, row, t, acc, g), Reached(c, g + 1))
  <1>1. PICK a \in Nat, len \in Nat \ {0} :
           /\ a = GroupStart(c, g) /\ len = GroupLen(c, g)
           /\ Reached(c, g) = a /\ Reached(c, g + 1) = a + len
    BY GroupFacts
  <1>2. PICK w \in Nat \ {0} : Wide = 4 * w /\ Wide \div 2 = 2 * w
    <2>1. Wide = 4 * (Wide \div 4) /\ Wide \div 4 \in Nat \ {0} /\ Wide \div 2 = 2 * (Wide \div 4)
      BY KernelsAssumption
    <2> QED BY <2>1
  <1>3. PICK done \in Nat : done = (len \div Wide) * Wide /\ done <= len
    <2>1. Wide \in Nat \ {0}
      BY <1>2
    <2>2. PICK n \in Nat, r \in 0 .. Wide - 1 : n = len \div Wide /\ len = n * Wide + r
      BY <2>1, Blocks
    <2>3. PICK x \in Nat : x = n * Wide
      <3>1. n * Wide \in Nat
        BY <2>1
      <3> QED BY <3>1
    <2> QED BY <2>1, <2>2, <2>3
  <1>4. PICK f \in Nat : done = 2 * f
    <2>1. Wide \in Nat \ {0}
      BY <1>2
    <2>2. PICK n \in Nat : n = len \div Wide
      BY <2>1, Blocks
    <2>3. done = 2 * (n * (2 * w)) /\ n * (2 * w) \in Nat
      BY <1>2, <1>3, <2>2
    <2> QED BY <2>3
  <1>5. PICK half \in Nat : half = 2 * w /\ half = Wide \div 2
    BY <1>2
  <1>6. PICK rest : rest = IF done + half <= len THEN done + half ELSE done
    OBVIOUS
  <1>7. PICK k \in Nat : rest = 2 * k /\ rest <= len /\ rest \in Nat
    <2>1. CASE done + half <= len
      <3>1. rest = 2 * (f + w) /\ f + w \in Nat
        BY <1>4, <1>5, <1>6, <2>1
      <3> QED BY <1>6, <2>1, <3>1
    <2>2. CASE ~ (done + half <= len)
      BY <1>3, <1>4, <1>6, <2>2
    <2> QED BY <2>1, <2>2
  <1> DEFINE acc1 == Append(acc, ScaledStep(g, g, WideBlocks(c, row, t, g)))
             acc2 == AddIf(done + half <= len, acc1,
                           ScaledStep(g, g, Block(c, row, t, g, done, half)))
             acc3 == AddIf(rest < len, acc2, ScaledStep(g, "none", Pairs(c, row, t, g, rest)))
  <1>8. MatvecGroup(c, row, t, acc, g) = acc3
    BY <1>1, <1>3, <1>5, <1>6 DEF MatvecGroup, WideBlocks
  <1>9. Taking(c, row, t, acc1, a + done)
    <2>1. WideBlocks(c, row, t, g) = Products(row, t, "i8", a, a + done)
      BY <1>1, <1>3, WideIs
    <2>2. PICK s : s = ScaledStep(g, g, WideBlocks(c, row, t, g))
      OBVIOUS
    <2>3. PICK b \in Nat : b = a + done
      OBVIOUS
    <2>4. StepOver(c, row, t, s, a, b)
      <3>1. s = ScaledStep(g, IF "i8" = "f32" THEN "none" ELSE g, Products(row, t, "i8", a, b))
        BY <2>1, <2>2, <2>3
      <3>2. GroupStart(c, g) <= a /\ a <= b /\ b <= GroupStart(c, g) + GroupLen(c, g)
        BY <1>1, <1>3, <2>3
      <3> QED BY <3>1, <3>2 DEF StepOver
    <2>5. Taking(c, row, t, Append(acc, s), b)
      BY <1>1, <2>4, TakingMore
    <2> QED BY <2>2, <2>3, <2>5
  <1>10. Taking(c, row, t, acc2, a + rest)
    <2>1. CASE done + half <= len
      <3>1. PICK y : y = acc1
        OBVIOUS
      <3>2. PICK s : s = ScaledStep(g, g, Block(c, row, t, g, done, half))
        OBVIOUS
      <3>3. PICK from \in Nat, b \in Nat : from = a + done /\ b = from + half
        OBVIOUS
      <3>4. Block(c, row, t, g, done, half) = Products(row, t, "i8", from, b)
        <4>1. done + half <= GroupLen(c, g) /\ from = GroupStart(c, g) + done
          BY <1>1, <2>1, <3>3
        <4>2. Block(c, row, t, g, done, half) = Products(row, t, "i8", from, from + half)
          BY <1>4, <1>5, <4>1, BlockIs
        <4> QED BY <3>3, <4>2
      <3>5. StepOver(c, row, t, s, from, b)
        <4>1. s = ScaledStep(g, IF "i8" = "f32" THEN "none" ELSE g, Products(row, t, "i8", from, b))
          BY <3>2, <3>4
        <4>2. GroupStart(c, g) <= from /\ from <= b /\ b <= GroupStart(c, g) + GroupLen(c, g)
          BY <1>1, <2>1, <3>3
        <4> QED BY <4>1, <4>2 DEF StepOver
      <3>6. Taking(c, row, t, Append(y, s), b)
        BY <1>9, <3>1, <3>3, <3>5, TakingMore
      <3>7. acc2 = Append(y, s)
        BY <2>1, <3>1, <3>2 DEF AddIf
      <3>8. a + rest = b
        BY <1>6, <2>1, <3>3
      <3> HIDE DEF acc2
      <3> QED BY <3>6, <3>7, <3>8
    <2>2. CASE ~ (done + half <= len)
      <3>1. acc2 = acc1 /\ rest = done
        BY <1>6, <2>2 DEF AddIf
      <3> HIDE DEF acc1, acc2
      <3> QED BY <1>9, <3>1
    <2> QED BY <2>1, <2>2
  <1>11. Taking(c, row, t, acc3, a + len)
    <2>1. CASE rest < len
      <3>1. PICK y : y = acc2
        OBVIOUS
      <3>2. PICK s : s = ScaledStep(g, "none", Pairs(c, row, t, g, rest))
        OBVIOUS
      <3>3. PICK from \in Nat, b \in Nat : from = a + rest /\ b = a + len
        BY <1>7
      <3>4. Pairs(c, row, t, g, rest) = Products(row, t, "f32", from, b)
        <4>1. rest <= GroupLen(c, g) /\ from = GroupStart(c, g) + rest
              /\ b = GroupStart(c, g) + GroupLen(c, g)
          BY <1>1, <1>7, <3>3
        <4> QED BY <1>7, <4>1, PairsIs
      <3>5. StepOver(c, row, t, s, from, b)
        <4>1. s = ScaledStep(g, IF "f32" = "f32" THEN "none" ELSE g, Products(row, t, "f32", from, b))
          BY <3>2, <3>4
        <4>2. GroupStart(c, g) <= from /\ from <= b /\ b <= GroupStart(c, g) + GroupLen(c, g)
          BY <1>1, <1>7, <3>3
        <4> QED BY <4>1, <4>2 DEF StepOver
      <3>6. Taking(c, row, t, Append(y, s), b)
        BY <1>10, <3>1, <3>3, <3>5, TakingMore
      <3>7. acc3 = Append(y, s)
        BY <2>1, <3>1, <3>2 DEF AddIf
      <3> HIDE DEF acc3
      <3> QED BY <3>3, <3>6, <3>7
    <2>2. CASE ~ (rest < len)
      <3>1. acc3 = acc2 /\ rest = len
        BY <1>7, <2>2 DEF AddIf
      <3> HIDE DEF acc2, acc3
      <3> QED BY <1>10, <3>1
    <2> QED BY <2>1, <2>2
  <1> HIDE DEF acc3
  <1> QED BY <1>1, <1>8, <1>11

(* A row of the single-token kernel takes all the columns. *)
LEMMA MatvecTaken ==
    ASSUME NEW c \in Calls, Valid(c), c.kind # "lm_head", NEW row \in Nat, NEW t \in Nat,
           Laid(c, buffers, t)
    PROVE  /\ Taking(c, row, t, MatvecRow(c, row, t).dot, c.cols)
           /\ MatvecRow(c, row, t).zero = ZeroPart(c, row, t)
  <1>1. PICK n \in Nat : n = NumGroups(c)
    BY GroupsType
  <1>2. PICK f : f = CHOOSE h : MatvecRec(h, c, row, t, n)
    OBVIOUS
  <1>3. MatvecRec(f, c, row, t, n)
    BY <1>2, MatvecExists
  <1>4. MatvecRow(c, row, t) = [dot |-> f[n], zero |-> ZeroPart(c, row, t)]
    BY <1>1, <1>2 DEF MatvecRow, MatvecRec
  <1> DEFINE Good == {k \in 0 .. n : Taking(c, row, t, f[k], Reached(c, k))}
  <1>5. 0 \in Good
    <2>1. f[0] = <<>>
      BY <1>3 DEF MatvecRec
    <2> QED BY <2>1, AllReached, NothingTaken
  <1>6. ASSUME NEW k \in 1 .. n, k - 1 \in Good PROVE k \in Good
    <2>1. f[k] = MatvecGroup(c, row, t, f[k - 1], k - 1)
      BY <1>3 DEF MatvecRec
    <2>2. PICK g \in 0 .. NumGroups(c) - 1 : g = k - 1 /\ g + 1 = k
      BY <1>1
    <2>3. Taking(c, row, t, MatvecGroup(c, row, t, f[g], g), Reached(c, g + 1))
      BY <1>6, <2>2, GroupTaken
    <2> QED BY <2>1, <2>2, <2>3
  <1>7. \A k \in 0 .. n : k \in Good
    <2> HIDE DEF Good
    <2> QED BY <1>5, <1>6, Climb
  <1>8. Taking(c, row, t, f[n], Reached(c, n))
    BY <1>7
  <1> QED BY <1>1, <1>4, <1>8, AllReached

(* The scalar loops: a step for each group. *)
LEMMA ScalarTaken ==
    ASSUME NEW c \in Calls, Valid(c), NEW row \in Nat, NEW t \in Nat
    PROVE  Taking(c, row, t, ScalarRow(c, row, t).dot, c.cols)
  <1>1. PICK n \in Nat : n = NumGroups(c)
    BY GroupsType
  <1>2. PICK e : e = [i \in 0 .. n |-> Reached(c, i)]
    OBVIOUS
  <1>3. PICK d : d = ScalarRow(c, row, t).dot
    OBVIOUS
  <1>4. ASSUME NEW i \in 1 .. n
        PROVE  e[i - 1] \in Nat /\ e[i] \in Nat /\ StepOver(c, row, t, d[i], e[i - 1], e[i])
    <2>1. PICK g \in 0 .. NumGroups(c) - 1 : g = i - 1 /\ g + 1 = i
      BY <1>1
    <2>2. PICK a \in Nat, len \in Nat \ {0} :
             /\ a = GroupStart(c, g) /\ len = GroupLen(c, g)
             /\ Reached(c, g) = a /\ Reached(c, g + 1) = a + len
      BY GroupFacts
    <2>3. PICK b \in Nat : b = a + len
      OBVIOUS
    <2>4. e[i - 1] = a /\ e[i] = b
      BY <1>2, <2>1, <2>2, <2>3
    <2>5. PICK P : P = IF c.kind = "lm_head"
                  THEN { <<<<row, col>>, <<"f32", t, col>>>> :
                           col \in GroupStart(c, i - 1) ..
                                   GroupStart(c, i - 1) + GroupLen(c, i - 1) - 1 }
                  ELSE Pairs(c, row, t, i - 1, 0)
      OBVIOUS
    <2>6. d[i] = ScaledStep(g, "none", P)
      BY <1>1, <1>3, <2>1, <2>5 DEF ScalarRow
    <2>7. P = Products(row, t, "f32", a, b)
      <3>1. CASE c.kind = "lm_head"
        BY <2>1, <2>2, <2>3, <2>5, <3>1 DEF Products
      <3>2. CASE c.kind # "lm_head"
        <4>1. P = Pairs(c, row, t, g, 0)
          BY <2>1, <2>5, <3>2
        <4>2. PICK f \in Nat, from \in Nat : f = 0 /\ from = 0
          OBVIOUS
        <4>3. from <= GroupLen(c, g) /\ a = GroupStart(c, g) + from
              /\ b = GroupStart(c, g) + GroupLen(c, g) /\ from = 2 * f
          BY <2>2, <2>3, <4>2
        <4>4. Pairs(c, row, t, g, from) = Products(row, t, "f32", a, b)
          BY <3>2, <4>3, PairsIs
        <4> QED BY <4>1, <4>2, <4>4
      <3> QED BY <3>1, <3>2
    <2>8. StepOver(c, row, t, d[i], a, b)
      <3>1. d[i] = ScaledStep(g, IF "f32" = "f32" THEN "none" ELSE g, Products(row, t, "f32", a, b))
        BY <2>6, <2>7
      <3>2. GroupStart(c, g) <= a /\ a <= b /\ b <= GroupStart(c, g) + GroupLen(c, g)
        BY <2>2, <2>3
      <3> QED BY <3>1, <3>2 DEF StepOver
    <2> QED BY <2>4, <2>8
  <1>5. e[0] = 0 /\ e[n] = c.cols
    BY <1>1, <1>2, AllReached
  <1>6. e \in [0 .. n -> Nat]
    <2>1. ASSUME NEW i \in 0 .. n PROVE e[i] \in Nat
      <3>1. CASE i = 0
        BY <1>5, <3>1
      <3>2. CASE i # 0
        <4>1. i \in 1 .. n
          BY <3>2
        <4> QED BY <1>4, <4>1
      <3> QED BY <3>1, <3>2
    <2> QED BY <1>2, <2>1
  <1>7. d = [i \in 1 .. n |-> d[i]]
    BY <1>1, <1>3 DEF ScalarRow
  <1>8. d \in Seq({d[i] : i \in 1 .. n}) /\ Len(d) = n
    <2>1. d \in [1 .. n -> {d[i] : i \in 1 .. n}]
      BY <1>7
    <2> QED BY <2>1
  <1>9. CutAt(c, row, t, d, e, c.cols)
    BY <1>4, <1>5, <1>6, <1>8 DEF CutAt
  <1> QED BY <1>3, <1>9 DEF Taking

(* Whole blocks do not exceed the length. *)
LEMMA WholeBlocks ==
    ASSUME NEW w \in Nat \ {0}, NEW len \in Nat, NEW x, x = (len \div w) * w
    PROVE  x \in Nat /\ x <= len
  <1>1. PICK n \in Nat, r \in 0 .. w - 1 : n = len \div w /\ len = n * w + r
    BY Blocks
  <1>2. n * w \in Nat
    OBVIOUS
  <1> QED BY <1>1, <1>2

(* One step more, and two. *)
LEMMA StepsJoined ==
    ASSUME NEW S, NEW d \in Seq(S), NEW x, NEW y
    PROVE  d \o <<x>> = Append(d, x) /\ d \o Append(<<x>>, y) = Append(Append(d, x), y)
  <1>1. PICK T : T = S \cup {x, y}
    OBVIOUS
  <1>2. d \in Seq(T) /\ x \in T /\ y \in T /\ <<x>> \in Seq(T) /\ <<y>> \in Seq(T)
    BY <1>1
  <1>3. d \o <<x>> = Append(d, x) /\ Append(d, x) \in Seq(T)
    BY <1>2, AppendIsConcat, AppendProperties
  <1>4. Append(<<x>>, y) = <<x>> \o <<y>> /\ Append(Append(d, x), y) = Append(d, x) \o <<y>>
    BY <1>2, <1>3, AppendIsConcat
  <1>5. (d \o <<x>>) \o <<y>> = d \o (<<x>> \o <<y>>)
    BY <1>2, ConcatAssociative
  <1> QED BY <1>3, <1>4, <1>5

(* The 8-bit kernel, group by group. *)
CodeOf(c, at) == <<at \div c.cols, at % c.cols>>
(* What the 8-bit kernel sums for a column. *)
LmProduct(c, row, col) == <<CodeOf(c, row * c.cols + col), buffers.hidden[col]>>
(* A step of it over some columns of a group. *)
LmSpan(c, row, g, from, to) ==
    ScaledStep(g, g, { LmProduct(c, row, GroupStart(c, g) + i) : i \in from .. to - 1 })
(* How many columns of a group its blocks take. *)
LmDone(c, g) == (GroupLen(c, g) \div (Wide \div 2)) * (Wide \div 2)
(* The steps of a group: its blocks, and the columns left over if any are. *)
LmGroup(c, row, g) ==
    AddIf(LmDone(c, g) < GroupLen(c, g), << LmSpan(c, row, g, 0, LmDone(c, g)) >>,
          LmSpan(c, row, g, LmDone(c, g), GroupLen(c, g)))

(* The accumulator of a row after each group. *)
LmRec(f, c, row, n) == f = [k \in 0 .. n |-> IF k = 0 THEN <<>> ELSE f[k - 1] \o LmGroup(c, row, k - 1)]

(* There is one. *)
LEMMA LmExists ==
    ASSUME NEW c, NEW row, NEW n \in Nat
    PROVE  \E f : LmRec(f, c, row, n)
  <1> DEFINE Missing == {k \in Nat : ~ \E f : LmRec(f, c, row, k)}
  <1> SUFFICES ASSUME Missing # {} PROVE FALSE
    OBVIOUS
  <1>1. PICK m \in Missing : \A k \in Missing : m <= k
    BY Least
  <1>2. m # 0
    <2>1. PICK f : f = [k \in 0 .. 0 |-> <<>>]
      OBVIOUS
    <2>2. LmRec(f, c, row, 0)
      BY <2>1 DEF LmRec
    <2> QED BY <2>2
  <1>3. m - 1 \in Nat /\ m - 1 \notin Missing
    BY <1>1, <1>2
  <1>4. PICK f : LmRec(f, c, row, m - 1)
    BY <1>3
  <1>5. \A k \in 0 .. m - 1 : f[k] = IF k = 0 THEN <<>> ELSE f[k - 1] \o LmGroup(c, row, k - 1)
    BY <1>4 DEF LmRec
  <1> DEFINE g == [k \in 0 .. m |-> IF k <= m - 1 THEN f[k]
                                    ELSE f[k - 1] \o LmGroup(c, row, k - 1)]
  <1>6. \A k \in 0 .. m : g[k] = IF k = 0 THEN <<>> ELSE g[k - 1] \o LmGroup(c, row, k - 1)
    <2> TAKE k \in 0 .. m
    <2>1. k # 0 => k - 1 \in 0 .. m /\ k - 1 <= m - 1 /\ g[k - 1] = f[k - 1]
      BY <1>1
    <2>2. CASE k <= m - 1
      <3>1. g[k] = f[k] /\ k \in 0 .. m - 1
        BY <1>1, <2>2
      <3> QED BY <1>5, <2>1, <3>1
    <2>3. CASE ~ (k <= m - 1)
      <3>1. g[k] = f[k - 1] \o LmGroup(c, row, k - 1)
        BY <2>3
      <3>2. k # 0
        BY <1>1, <1>2, <2>3
      <3>3. g[k - 1] = f[k - 1]
        BY <2>1, <3>2
      <3> HIDE DEF g
      <3> QED BY <3>1, <3>2, <3>3
    <2> QED BY <2>2, <2>3
  <1>7. PICK h : h = g
    OBVIOUS
  <1>8. h = [k \in 0 .. m |-> h[k]]
    BY <1>7
  <1>9. \A k \in 0 .. m : h[k] = IF k = 0 THEN <<>> ELSE h[k - 1] \o LmGroup(c, row, k - 1)
    BY <1>6, <1>7
  <1>10. LmRec(h, c, row, m)
    BY <1>8, <1>9 DEF LmRec
  <1> QED BY <1>1, <1>10

(* A step of the 8-bit kernel takes its columns. *)
LEMMA LmSpanIs ==
    ASSUME NEW c \in Calls, Valid(c), c.kind = "lm_head", NEW row \in Nat, Laid(c, buffers, 0),
           NEW g \in 0 .. NumGroups(c) - 1, NEW from \in Nat, NEW to \in Nat,
           from <= to, to <= GroupLen(c, g), NEW a, a = GroupStart(c, g) + from,
           NEW b, b = GroupStart(c, g) + to
    PROVE  StepOver(c, row, 0, LmSpan(c, row, g, from, to), a, b)
  <1>1. PICK start \in Nat, len \in Nat, cols \in Nat \ {0} :
          /\ start = GroupStart(c, g) /\ len = GroupLen(c, g) /\ cols = c.cols /\ start + len <= cols
    BY GroupFacts, ValidFacts
  <1>2. ASSUME NEW col \in 0 .. cols - 1
        PROVE  LmProduct(c, row, col) = Product(row, 0, "i8", col)
    <2>1. buffers.hidden[col] = <<"i8", 0, col>>
      BY <1>1 DEF Laid
    <2>2. PICK at : at = row * cols + col
      OBVIOUS
    <2>3. at \div cols = row /\ at % cols = col
      BY <2>2, AddressOf
    <2>4. CodeOf(c, at) = <<row, col>>
      BY <1>1, <2>3 DEF CodeOf
    <2> QED BY <1>1, <2>1, <2>2, <2>4 DEF LmProduct, Product
  <1>3. \A i \in from .. to - 1 : start + i \in a .. b - 1 /\ start + i \in 0 .. cols - 1
    BY <1>1
  <1>4. ASSUME NEW col \in a .. b - 1 PROVE \E i \in from .. to - 1 : col = start + i
    <2>1. col - start \in from .. to - 1 /\ col = start + (col - start)
      BY <1>1
    <2> QED BY <2>1
  <1>5. { LmProduct(c, row, start + i) : i \in from .. to - 1 } = Products(row, 0, "i8", a, b)
    <2>1. ASSUME NEW p \in { LmProduct(c, row, start + i) : i \in from .. to - 1 }
          PROVE  p \in Products(row, 0, "i8", a, b)
      <3>1. PICK col \in a .. b - 1 : p = LmProduct(c, row, col) /\ col \in 0 .. cols - 1
        BY <1>3
      <3> QED BY <1>2, <3>1, IsProduct
    <2>2. ASSUME NEW p \in Products(row, 0, "i8", a, b)
          PROVE  p \in { LmProduct(c, row, start + i) : i \in from .. to - 1 }
      <3>1. PICK col \in a .. b - 1 : p = Product(row, 0, "i8", col)
        BY IsProduct
      <3>2. PICK i \in from .. to - 1 : col = start + i
        BY <1>4
      <3>3. p = LmProduct(c, row, start + i)
        BY <1>2, <1>3, <3>1, <3>2
      <3> QED BY <3>3
    <2> QED BY <2>1, <2>2
  <1>6. PICK s : s = LmSpan(c, row, g, from, to)
    OBVIOUS
  <1>7. s = ScaledStep(g, IF "i8" = "f32" THEN "none" ELSE g, Products(row, 0, "i8", a, b))
    BY <1>1, <1>5, <1>6 DEF LmSpan
  <1>8. GroupStart(c, g) <= a /\ a <= b /\ b <= GroupStart(c, g) + GroupLen(c, g)
    BY <1>1
  <1> QED BY <1>6, <1>7, <1>8 DEF StepOver

(* A group of it takes the group's columns. *)
LEMMA LmGroupTaken ==
    ASSUME NEW c \in Calls, Valid(c), c.kind = "lm_head", NEW row \in Nat, Laid(c, buffers, 0),
           NEW g \in 0 .. NumGroups(c) - 1, NEW acc, Taking(c, row, 0, acc, Reached(c, g))
    PROVE  Taking(c, row, 0, acc \o LmGroup(c, row, g), Reached(c, g + 1))
  <1>1. PICK a \in Nat, len \in Nat \ {0} :
           /\ a = GroupStart(c, g) /\ len = GroupLen(c, g)
           /\ Reached(c, g) = a /\ Reached(c, g + 1) = a + len
    BY GroupFacts
  <1>2. PICK done \in Nat : done = LmDone(c, g) /\ done <= len
    <2>1. PICK w \in Nat \ {0} : w = Wide \div 2
      <3>1. Wide \div 2 \in Nat \ {0}
        BY KernelsAssumption
      <3> QED BY <3>1
    <2>2. PICK done : done = LmDone(c, g)
      OBVIOUS
    <2>3. done = (len \div w) * w
      BY <1>1, <2>1, <2>2 DEF LmDone
    <2>4. done \in Nat /\ done <= len
      BY <2>3, WholeBlocks
    <2> QED BY <2>2, <2>4
  <1>3. PICK x, y : x = LmSpan(c, row, g, 0, done) /\ y = LmSpan(c, row, g, done, len)
    OBVIOUS
  <1>4. PICK mid \in Nat, b \in Nat : mid = a + done /\ b = a + len
    OBVIOUS
  <1>5. StepOver(c, row, 0, x, a, mid)
    <2>1. 0 <= done /\ done <= GroupLen(c, g) /\ a = GroupStart(c, g) + 0 /\ mid = GroupStart(c, g) + done
      BY <1>1, <1>2, <1>4
    <2> QED BY <1>3, <2>1, LmSpanIs
  <1>6. StepOver(c, row, 0, y, mid, b)
    <2>1. done <= len /\ len <= GroupLen(c, g) /\ mid = GroupStart(c, g) + done /\ b = GroupStart(c, g) + len
      BY <1>1, <1>2, <1>4
    <2> QED BY <1>3, <2>1, LmSpanIs
  <1>7. Taking(c, row, 0, Append(acc, x), mid)
    BY <1>1, <1>5, TakingMore
  <1>8. PICK S : acc \in Seq(S)
    BY DEF Taking, CutAt
  <1>9. CASE done < len
    <2>1. LmGroup(c, row, g) = Append(<<x>>, y)
      BY <1>1, <1>2, <1>3, <1>9 DEF LmGroup, AddIf
    <2>2. acc \o LmGroup(c, row, g) = Append(Append(acc, x), y)
      BY <1>8, <2>1, StepsJoined
    <2>3. Taking(c, row, 0, Append(Append(acc, x), y), b)
      BY <1>6, <1>7, TakingMore
    <2> QED BY <1>1, <1>4, <2>2, <2>3
  <1>10. CASE ~ (done < len)
    <2>1. LmGroup(c, row, g) = <<x>>
      BY <1>1, <1>2, <1>3, <1>10 DEF LmGroup, AddIf
    <2>2. acc \o LmGroup(c, row, g) = Append(acc, x)
      BY <1>8, <2>1, StepsJoined
    <2>3. mid = b
      BY <1>2, <1>4, <1>10
    <2> QED BY <1>1, <1>4, <1>7, <2>2, <2>3
  <1> QED BY <1>9, <1>10

(* A row of it takes all the columns. *)
LEMMA LmHeadTaken ==
    ASSUME NEW c \in Calls, Valid(c), c.kind = "lm_head", NEW row \in Nat, Laid(c, buffers, 0)
    PROVE  /\ Taking(c, row, 0, LmHeadRow(c, row).dot, c.cols)
           /\ LmHeadRow(c, row).zero = ZeroPart(c, row, 0)
  <1>1. PICK n \in Nat : n = NumGroups(c)
    BY GroupsType
  <1>2. PICK f : f = CHOOSE h : LmRec(h, c, row, n)
    OBVIOUS
  <1>3. LmRec(f, c, row, n)
    BY <1>2, LmExists
  <1>4. LmHeadRow(c, row) = [dot |-> f[n], zero |-> ZeroPart(c, row, 0)]
    BY <1>1, <1>2 DEF LmHeadRow, LmRec, LmGroup, LmSpan, LmDone, LmProduct, CodeOf
  <1> DEFINE Good == {k \in 0 .. n : Taking(c, row, 0, f[k], Reached(c, k))}
  <1>5. 0 \in Good
    <2>1. f[0] = <<>>
      BY <1>3 DEF LmRec
    <2> QED BY <2>1, AllReached, NothingTaken
  <1>6. ASSUME NEW k \in 1 .. n, k - 1 \in Good PROVE k \in Good
    <2>1. f[k] = f[k - 1] \o LmGroup(c, row, k - 1)
      BY <1>3 DEF LmRec
    <2>2. PICK g \in 0 .. NumGroups(c) - 1 : g = k - 1 /\ g + 1 = k
      BY <1>1
    <2>3. Taking(c, row, 0, f[g] \o LmGroup(c, row, g), Reached(c, g + 1))
      BY <1>6, <2>2, LmGroupTaken
    <2>4. PICK x : x = f[g] \o LmGroup(c, row, g)
      OBVIOUS
    <2>5. f[k] = x
      BY <2>1, <2>2, <2>4
    <2>6. PICK r : r = Reached(c, g + 1)
      OBVIOUS
    <2>7. Taking(c, row, 0, x, r)
      BY <2>3, <2>4, <2>6
    <2>8. r = Reached(c, k)
      BY <2>2, <2>6
    <2>9. Taking(c, row, 0, f[k], Reached(c, k))
      BY <2>5, <2>7, <2>8
    <2> QED BY <2>9
  <1>7. \A k \in 0 .. n : k \in Good
    <2> HIDE DEF Good
    <2> QED BY <1>5, <1>6, Climb
  <1>8. Taking(c, row, 0, f[n], Reached(c, n))
    BY <1>7
  <1> QED BY <1>1, <1>4, <1>8, AllReached

(* The part of the zero points has a term for each group, with the sum of    *)
(* the group's inputs.                                                       *)
LEMMA ZeroExact ==
    ASSUME NEW c \in Calls, Valid(c), NEW row, NEW t \in Nat, Laid(c, buffers, t)
    PROVE  ZeroPart(c, row, t)
             = [i \in 1 .. NumGroups(c) |->
                  <<row, i - 1, <<t, { col \in 0 .. c.cols - 1 : col \div c.groupSize = i - 1 }>>>>]
  <1>1. PICK n \in Nat : n = NumGroups(c)
    BY GroupsType
  <1>2. ASSUME NEW i \in 1 .. n
        PROVE  buffers.sums[t * NumGroups(c) + i - 1]
                 = <<t, { col \in 0 .. c.cols - 1 : col \div c.groupSize = i - 1 }>>
    <2>1. PICK g \in 0 .. NumGroups(c) - 1 : g = i - 1
      BY <1>1
    <2>2. t * NumGroups(c) + i - 1 = t * NumGroups(c) + g
      <3>1. PICK x \in Nat : x = t * NumGroups(c)
        <4>1. t * n \in Nat
          OBVIOUS
        <4> QED BY <1>1, <4>1
      <3> QED BY <1>1, <2>1, <3>1
    <2>3. PICK at : at = t * NumGroups(c) + g
      OBVIOUS
    <2>4. buffers.sums[at] = <<t, ColumnsOf(c, g)>>
      BY <2>3 DEF Laid
    <2>5. ColumnsOf(c, g) = { col \in 0 .. c.cols - 1 : col \div c.groupSize = g }
      BY GroupColumns
    <2> QED BY <2>1, <2>2, <2>3, <2>4, <2>5
  <1> QED BY <1>1, <1>2 DEF ZeroPart

(* An element of an output, as DotExact has it. *)
ExactElement(c, row, t, v) ==
    /\ ExactDot(c, row, t, v.dot)
    /\ v.zero = [i \in 1 .. NumGroups(c) |->
          <<row, i - 1, <<t, { col \in 0 .. c.cols - 1 : col \div c.groupSize = i - 1 }>>>>]

(* Without AVX2 an element is the scalar loop. *)
LEMMA ValueIsScalar ==
    ASSUME NEW c \in Calls, Valid(c), ~ c.avx2, NEW row, NEW t \in 0 .. c.tokens - 1
    PROVE  RowValues(c, row)[t] = ScalarRow(c, row, t)
  <1>1. PICK n \in Nat \ {0} : n = c.tokens
    BY ValidFacts
  <1>2. /\ c.kind \in {"matvec", "fused", "matmul", "legacy", "lm_head"}
        /\ c.kind \in {"matmul", "legacy"} \/ n = 1
    BY <1>1, ValidFacts
  <1>3. n = 1 => /\ MatvecValues(c, row)[t] = ScalarRow(c, row, t)
                 /\ LmHeadValues(c, row)[t] = ScalarRow(c, row, t)
    BY <1>1 DEF MatvecValues, LmHeadValues
  <1>4. MatmulValues(c, row)[t] = ScalarRow(c, row, t)
    <2>1. CASE n = 1
      BY <1>1, <1>3, <2>1 DEF MatmulValues
    <2>2. CASE n # 1
      BY <1>1, <2>2 DEF MatmulValues
    <2> QED BY <2>1, <2>2
  <1>5. CASE c.kind \in {"matmul", "legacy"}
    BY <1>4, <1>5 DEF RowValues
  <1>6. CASE c.kind \in {"matvec", "fused"}
    BY <1>2, <1>3, <1>6 DEF RowValues
  <1>7. CASE c.kind = "lm_head"
    BY <1>2, <1>3, <1>7 DEF RowValues
  <1> QED BY <1>2, <1>5, <1>6, <1>7

(* With it, an 8-bit element is the 8-bit kernel, and the token is the       *)
(* first.                                                                    *)
LEMMA ValueIsLmHead ==
    ASSUME NEW c \in Calls, Valid(c), c.avx2, c.kind = "lm_head", NEW row,
           NEW t \in 0 .. c.tokens - 1
    PROVE  t = 0 /\ RowValues(c, row)[t] = LmHeadRow(c, row)
  <1>1. c.tokens = 1
    BY ValidFacts
  <1>2. t = 0
    BY <1>1
  <1> QED BY <1>2 DEF RowValues, LmHeadValues

(* Every element of every kernel is exact. *)
LEMMA ElementExact ==
    ASSUME NEW c \in Calls, Valid(c), buffers = Prepared(c), NEW row \in Nat,
           NEW t \in 0 .. c.tokens - 1
    PROVE  ExactElement(c, row, t, RowValues(c, row)[t])
  <1>1. PICK v : v = RowValues(c, row)[t]
    OBVIOUS
  <1>2. Laid(c, buffers, t) /\ t \in Nat
    <2>1. c.tokens \in Nat
      BY ValidFacts
    <2> QED BY <2>1, PreparedFacts
  <1>3. Taking(c, row, t, v.dot, c.cols) /\ v.zero = ZeroPart(c, row, t)
    <2>1. CASE ~ c.avx2
      <3>1. v = ScalarRow(c, row, t)
        BY <1>1, <2>1, ValueIsScalar
      <3>2. v.zero = ZeroPart(c, row, t)
        BY <3>1 DEF ScalarRow
      <3> QED BY <1>2, <3>1, <3>2, ScalarTaken
    <2>2. CASE c.avx2 /\ c.kind = "lm_head"
      <3>1. t = 0 /\ v = LmHeadRow(c, row)
        BY <1>1, <2>2, ValueIsLmHead
      <3>2. Laid(c, buffers, 0)
        BY <1>2, <3>1
      <3> QED BY <2>2, <3>1, <3>2, LmHeadTaken
    <2>3. CASE c.avx2 /\ c.kind # "lm_head"
      <3>1. v = MatvecRow(c, row, t)
        BY <1>1, <2>3, ValueIsMatvec
      <3> QED BY <1>2, <2>3, <3>1, MatvecTaken
    <2> QED BY <2>1, <2>2, <2>3, ValidFacts
  <1>4. ExactDot(c, row, t, v.dot)
    BY <1>3, TakenExactly
  <1>5. v.zero = [i \in 1 .. NumGroups(c) |->
          <<row, i - 1, <<t, { col \in 0 .. c.cols - 1 : col \div c.groupSize = i - 1 }>>>>]
    BY <1>2, <1>3, ZeroExact
  <1> QED BY <1>1, <1>4, <1>5 DEF ExactElement

(* The buffers of a call are what its entry point prepared. *)
InputsInv ==
    /\ call = Idle => written = {}
    /\ \A c : c = call /\ c # Idle => buffers = Prepared(c)

(* No step of a call disturbs the buffers it was given. *)
LEMMA InputsNext == InputsInv /\ [CallNext]_callVars => InputsInv'
  <1> SUFFICES ASSUME InputsInv, [CallNext]_callVars PROVE InputsInv'
    OBVIOUS
  <1>1. ASSUME NEW c \in Calls, StartCall(c) PROVE InputsInv'
    <2>1. call' = c /\ buffers' = Prepared(c) /\ written' = {} /\ c # Idle
      BY <1>1, KernelsAssumption DEF StartCall
    <2> QED BY <2>1 DEF InputsInv
  <1>2. ASSUME NEW i \in waiting, RunChunk(i) PROVE InputsInv'
    <2>1. call # Idle /\ call' = call /\ buffers' = buffers
      BY <1>2 DEF RunChunk
    <2> QED BY <2>1 DEF InputsInv
  <1>3. CASE EndCall
    BY <1>3 DEF EndCall, InputsInv
  <1>4. CASE UNCHANGED callVars
    BY <1>4 DEF callVars, InputsInv
  <1> QED BY <1>1, <1>2, <1>3, <1>4 DEF CallNext

(* An element of an output is the product of its row and its token, for      *)
(* every shape of the call, entry point, host and order of the threads.      *)
THEOREM ExactProducts == CallInit /\ [][CallNext]_callVars => []DotExact
  <1>1. CallInit => CallInv /\ InputsInv
    BY DEF CallInit, CallInv, InputsInv
  <1>2. CallInv /\ InputsInv => DotExact
    <2> SUFFICES ASSUME CallInv, InputsInv, NEW s \in written
                 PROVE  ExactElement(call, s.to[2] % call.rows[s.to[1]],
                                     s.to[2] \div call.rows[s.to[1]], s.value)
      BY DEF DotExact, ExactElement, ExactDot
    <2>1. call # Idle /\ buffers = Prepared(call)
      BY DEF InputsInv
    <2>2. /\ call \in Calls /\ Valid(call)
          /\ written = UNION { ChunkStores(call, i) : i \in Taken }
      BY <2>1 DEF CallInv
    <2>3. PICK i \in 0 .. TotalChunks(call) - 1 : s \in ChunkStores(call, i)
      BY <2>2 DEF Taken
    <2>4. PICK f : Placed(f, call)
      BY <2>2, Places
    <2>5. PICK m \in 1 .. Len(call.rows) : Stored(call, f, m, i, s)
      BY <2>2, <2>3, <2>4, StoresOf
    <2>6. PICK row \in 0 .. call.rows[m] - 1 :
             \E t \in 0 .. call.tokens - 1 : s = Element(call, m, row, t, i)
      BY <2>5 DEF Stored
    <2>7. PICK t \in 0 .. call.tokens - 1 : s = Element(call, m, row, t, i)
      BY <2>6
    <2>8. PICK r \in Nat \ {0}, n \in Nat \ {0} : r = call.rows[m] /\ n = call.tokens
      BY <2>2, ValidFacts
    <2>9. s.to = <<m, t * r + row>> /\ s.value = RowValues(call, row)[t]
      BY <2>7, <2>8 DEF Element
    <2>10. (t * r + row) \div r = t /\ (t * r + row) % r = row
      <3>1. row \in 0 .. r - 1 /\ t \in 0 .. n - 1
        BY <2>8
      <3> QED BY <3>1, AddressFacts
    <2>11. row \in Nat
      BY <2>8
    <2>12. ExactElement(call, row, t, RowValues(call, row)[t])
      BY <2>1, <2>2, <2>11, ElementExact
    <2>13. s.to[1] = m /\ s.to[2] \div call.rows[s.to[1]] = t /\ s.to[2] % call.rows[s.to[1]] = row
      BY <2>8, <2>9, <2>10
    <2> QED BY <2>9, <2>12, <2>13
  <1> QED BY <1>1, <1>2, CallNextInv, InputsNext, PTL

-----------------------------------------------------------------------------
(* The loops of layers.rs.                                                  *)
(* The output of a loop whose element i is T[i].                             *)
Filled(n, T) == { [to |-> "output", at |-> i, term |-> T[i]] : i \in 0 .. n - 1 }

(* It has one record for each index.                                         *)
LEMMA FilledFacts ==
    ASSUME NEW n \in Nat, NEW T
    PROVE  /\ { r.at : r \in Filled(n, T) } = 0 .. n - 1 /\ Cardinality(Filled(n, T)) = n
           /\ \A r \in Filled(n, T) :
                 r.to = "output" /\ r.at \in 0 .. n - 1 /\ r.term = T[r.at]
  <1> DEFINE Rec(i) == [to |-> "output", at |-> i, term |-> T[i]]
  <1>1. PICK f : f = [i \in 0 .. n - 1 |-> Rec(i)]
    OBVIOUS
  <1>2. f \in Bijection(0 .. n - 1, Filled(n, T))
    <2>1. \A x, y : Rec(x) = Rec(y) => x = y
      OBVIOUS
    <2>2. f \in [0 .. n - 1 -> Filled(n, T)]
      BY <1>1 DEF Filled
    <2>3. \A x, y \in 0 .. n - 1 : f[x] = f[y] => x = y
      <3> HIDE DEF Rec
      <3> QED BY <1>1, <2>1
    <2>4. f \in Injection(0 .. n - 1, Filled(n, T))
      BY <2>2, <2>3 DEF Injection, IsInjective
    <2>5. \A r \in Filled(n, T) : \E x \in 0 .. n - 1 : f[x] = r
      BY <1>1 DEF Filled
    <2>6. f \in Surjection(0 .. n - 1, Filled(n, T))
      BY <2>2, <2>5 DEF Surjection
    <2> QED BY <2>4, <2>6 DEF Bijection
  <1>3. IsFiniteSet(0 .. n - 1) /\ Cardinality(0 .. n - 1) = n
    <2>1. PICK z \in Int : z = n - 1
      OBVIOUS
    <2>2. IsFiniteSet(0 .. z) /\ Cardinality(0 .. z) = IF 0 > z THEN 0 ELSE z - 0 + 1
      BY FS_Interval
    <2> QED BY <2>1, <2>2
  <1>4. Cardinality(Filled(n, T)) = n
    <2>1. ExistsBijection(0 .. n - 1, Filled(n, T))
      BY <1>2 DEF ExistsBijection
    <2> QED BY <1>3, <2>1, FS_Bijection
  <1>5. \A r \in Filled(n, T) :
           r.to = "output" /\ r.at \in 0 .. n - 1 /\ r.term = T[r.at]
    BY DEF Filled
  <1>6. ASSUME NEW i \in 0 .. n - 1 PROVE i \in { r.at : r \in Filled(n, T) }
    <2>1. PICK r \in Filled(n, T) : r = Rec(i)
      BY DEF Filled
    <2>2. r.at = i
      BY <2>1
    <2> QED BY <2>2
  <1>7. \A i \in { r.at : r \in Filled(n, T) } : i \in 0 .. n - 1
    BY <1>5
  <1> QED BY <1>4, <1>5, <1>6, <1>7

(* What a loop computes from its visits is Filled, when the term of a visit  *)
(* is that of its index.                                                     *)
Sweeps(R, n, avx2, T) ==
    \A r : r \in R <=> \E v \in Visits(n, avx2) :
                          r = [to |-> "output", at |-> v[1], term |-> T[v[1]]]
LEMMA VisitsFill ==
    ASSUME NEW n \in Nat, NEW avx2 \in BOOLEAN, NEW T, NEW R, Sweeps(R, n, avx2, T)
    PROVE  R = Filled(n, T)
  <1>1. {v[1] : v \in Visits(n, avx2)} = 0 .. n - 1
    BY VisitsFacts
  <1>2. ASSUME NEW r \in R PROVE r \in Filled(n, T)
    <2>1. PICK v \in Visits(n, avx2) : r = [to |-> "output", at |-> v[1], term |-> T[v[1]]]
      BY DEF Sweeps
    <2>2. PICK i : i = v[1]
      OBVIOUS
    <2>3. i \in 0 .. n - 1
      BY <1>1, <2>2
    <2> QED BY <2>1, <2>2, <2>3 DEF Filled
  <1>3. ASSUME NEW r \in Filled(n, T) PROVE r \in R
    <2>1. PICK i \in 0 .. n - 1 : r = [to |-> "output", at |-> i, term |-> T[i]]
      BY DEF Filled
    <2>2. PICK v \in Visits(n, avx2) : v[1] = i
      BY <1>1
    <2> QED BY <2>1, <2>2 DEF Sweeps
  <1> QED BY <1>2, <1>3

(* The exponential of a loop.                                                *)
Curve(avx2) == IF avx2 THEN "schraudolph" ELSE "exp"

(* The terms of the element-wise loops.                                      *)
SiluTerms(n, avx2) == [i \in 0 .. n - 1 |-> <<"silu", Curve(avx2), i, i>>]
RoundedAt(n, avx2, i) == IF avx2 /\ i < (n \div Lanes) * Lanes THEN "fused" ELSE "separate"
GeluTerms(n, avx2) == [i \in 0 .. n - 1 |-> <<"gelu", RoundedAt(n, avx2, i), i, i>>]
AddTerms(n) == [i \in 0 .. n - 1 |-> <<"add", i, i>>]
NormTerms(n, avx2) == [i \in 0 .. n - 1 |-> <<"normed", i, SumSquares(n, avx2)>>]

(* The loops compute these.                                                  *)
LEMMA LoopsFill ==
    ASSUME NEW n \in Nat, NEW avx2 \in BOOLEAN
    PROVE  /\ ElementWise("silu", n, avx2) = Filled(n, SiluTerms(n, avx2))
           /\ ElementWise("gelu", n, avx2) = Filled(n, GeluTerms(n, avx2))
           /\ ElementWise("add", n, avx2) = Filled(n, AddTerms(n))
           /\ RmsNorm(n, avx2) = Filled(n, NormTerms(n, avx2))
  <1>1. \A v \in Visits(n, avx2) : v[1] \in 0 .. n - 1 /\ ExpCurve(v[2]) = Curve(avx2)
    BY VisitsFacts DEF Curve
  <1>2. ElementWise("silu", n, avx2) = Filled(n, SiluTerms(n, avx2))
    <2>1. \A v \in Visits(n, avx2) :
             <<"silu", ExpCurve(v[2]), v[1], v[1]>> = SiluTerms(n, avx2)[v[1]]
      BY <1>1 DEF SiluTerms
    <2>2. Sweeps(ElementWise("silu", n, avx2), n, avx2, SiluTerms(n, avx2))
      BY <2>1 DEF Sweeps, ElementWise
    <2> QED BY <2>2, VisitsFill
  <1>3. ElementWise("gelu", n, avx2) = Filled(n, GeluTerms(n, avx2))
    <2>0. \A v \in Visits(n, avx2) : Rounding(v[2]) = RoundedAt(n, avx2, v[1])
      <3>1. \A v \in Visits(n, avx2) : v[2] = "body" <=> avx2 /\ v[1] < (n \div Lanes) * Lanes
        BY VisitsFacts
      <3> QED BY <3>1 DEF Rounding, RoundedAt
    <2>1. \A v \in Visits(n, avx2) :
             <<"gelu", Rounding(v[2]), v[1], v[1]>> = GeluTerms(n, avx2)[v[1]]
      BY <1>1, <2>0 DEF GeluTerms
    <2>2. Sweeps(ElementWise("gelu", n, avx2), n, avx2, GeluTerms(n, avx2))
      BY <2>1 DEF Sweeps, ElementWise
    <2> QED BY <2>2, VisitsFill
  <1>4. ElementWise("add", n, avx2) = Filled(n, AddTerms(n))
    <2>1. \A v \in Visits(n, avx2) : <<"add", v[1], v[1]>> = AddTerms(n)[v[1]]
      BY <1>1 DEF AddTerms
    <2>2. Sweeps(ElementWise("add", n, avx2), n, avx2, AddTerms(n))
      BY <2>1 DEF Sweeps, ElementWise
    <2> QED BY <2>2, VisitsFill
  <1>5. RmsNorm(n, avx2) = Filled(n, NormTerms(n, avx2))
    <2>1. \A v \in Visits(n, avx2) :
             <<"normed", v[1], SumSquares(n, avx2)>> = NormTerms(n, avx2)[v[1]]
      BY <1>1 DEF NormTerms
    <2>2. Sweeps(RmsNorm(n, avx2), n, avx2, NormTerms(n, avx2))
      BY <2>1 DEF Sweeps, RmsNorm
    <2> QED BY <2>2, VisitsFill
  <1> QED BY <1>2, <1>3, <1>4, <1>5

(* Where the registers of a norm's first phase end: pairs of registers, then *)
(* one register alone if it fits, then one by one.                           *)
PairsOf(n, avx2) == IF avx2 THEN (n \div Lanes) \div 2 ELSE 0
PairedTo(n, avx2) == PairsOf(n, avx2) * 2 * Lanes
SingleFits(n, avx2) == avx2 /\ PairedTo(n, avx2) + Lanes <= n
SinglesTo(n, avx2) == PairedTo(n, avx2) + (IF SingleFits(n, avx2) THEN Lanes ELSE 0)

(* Pairs of registers, the single one and the rest follow on each other.     *)
LEMMA PairedFacts ==
    ASSUME NEW n \in Nat, NEW avx2 \in BOOLEAN
    PROVE  /\ PairsOf(n, avx2) \in Nat /\ PairedTo(n, avx2) \in Nat
           /\ PairedTo(n, avx2) = PairsOf(n, avx2) * (2 * Lanes)
           /\ PairedTo(n, avx2) <= SinglesTo(n, avx2) /\ SinglesTo(n, avx2) <= n
           /\ SinglesTo(n, avx2) \in Nat
  <1>1. Lanes \in Nat \ {0}
    BY KernelsAssumption
  <1>2. PICK p : p = PairsOf(n, avx2)
    OBVIOUS
  <1>3. p \in Nat /\ 2 * p <= (IF avx2 THEN n \div Lanes ELSE 0)
    <2>1. n \div Lanes \in Nat
      BY <1>1, Blocks
    <2> QED BY <1>2, <2>1 DEF PairsOf
  <1>4. PICK q \in Nat : q = 2 * p
    BY <1>3
  <1>5. q * Lanes \in Nat /\ q * Lanes <= n
    <2>1. CASE avx2
      <3>2. PICK d \in Nat : d = n \div Lanes
        BY <1>1, Blocks
      <3>3. d * Lanes \in Nat /\ d * Lanes <= n
        BY <1>1, <3>2, WholeBlocks
      <3>4. q * Lanes <= d * Lanes
        <4>1. q <= d
          BY <1>3, <1>4, <2>1, <3>2
        <4> QED BY <1>1, <4>1
      <3> QED BY <1>1, <3>3, <3>4
    <2>2. CASE ~ avx2
      BY <1>1, <1>3, <1>4, <2>2
    <2> QED BY <2>1, <2>2
  <1>6. PairedTo(n, avx2) = q * Lanes
    <2>1. p * 2 = q
      BY <1>3, <1>4
    <2> QED BY <1>2, <2>1 DEF PairedTo
  <1>7. q * Lanes = p * (2 * Lanes)
    <2>1. (2 * p) * Lanes = p * (2 * Lanes)
      BY <1>1, <1>3
    <2> QED BY <1>4, <2>1
  <1>8. PICK at \in Nat : at = PairedTo(n, avx2) /\ at <= n
    BY <1>5, <1>6
  <1>9. /\ at <= SinglesTo(n, avx2) /\ SinglesTo(n, avx2) <= n /\ SinglesTo(n, avx2) \in Nat
    BY <1>1, <1>8 DEF SinglesTo, SingleFits
  <1> QED BY <1>2, <1>3, <1>6, <1>7, <1>8, <1>9

(* A sum over 0 .. n, taken from the left: h[k] is the sum of the first k.   *)
LEMMA PrefixSum ==
    ASSUME NEW n \in Nat, NEW g \in [0 .. n -> Nat], NEW h, h[0] = 0,
           \A k \in 0 .. n : h[k + 1] = h[k] + g[k]
    PROVE  SumFunction(g) = h[n + 1]
  <1>1. PICK D : D = 0 .. n
    OBVIOUS
  <1>2. IsFiniteSet(D) /\ g \in [D -> Nat]
    <2>1. 0 \in Int /\ n \in Int
      OBVIOUS
    <2>2. IsFiniteSet(0 .. n)
      BY <2>1, FS_Interval
    <2> QED BY <1>1, <2>2
  <1>3. PICK f : SumsTo(f, g, D)
    BY <1>2, SumFolds
  <1> DEFINE T == { k \in 0 .. n + 1 : f[0 .. k - 1] = h[k] }
  <1>4. 0 \in T
    <2>1. 0 .. 0 - 1 = {}
      OBVIOUS
    <2> QED BY <1>3, <2>1 DEF SumsTo
  <1>5. ASSUME NEW k \in 1 .. n + 1, k - 1 \in T PROVE k \in T
    <2>1. PICK i \in 0 .. n : i = k - 1 /\ k = i + 1
      OBVIOUS
    <2>2. PICK s : s = 0 .. k - 1
      OBVIOUS
    <2>3. s \in SUBSET D /\ i \in s /\ s \ {i} = 0 .. i - 1
      BY <1>1, <2>1, <2>2
    <2>4. f[s] = g[i] + f[s \ {i}]
      BY <1>3, <2>3 DEF SumsTo
    <2>5. f[0 .. i - 1] = h[i]
      BY <1>5, <2>1
    <2>6. f[s \ {i}] \in Nat /\ g[i] \in Nat
      BY <1>3, <2>3 DEF SumsTo
    <2>7. f[s] = h[k]
      <3>1. h[i + 1] = h[i] + g[i]
        BY <2>1
      <3>2. f[s] = g[i] + h[i] /\ h[i] \in Nat
        BY <2>3, <2>4, <2>5, <2>6
      <3>3. h[i] + g[i] = g[i] + h[i]
        BY <2>6, <3>2
      <3> QED BY <2>1, <3>1, <3>2, <3>3
    <2> QED BY <2>2, <2>7
  <1>6. \A k \in 0 .. n + 1 : k \in T
    <2> HIDE DEF T
    <2>1. PICK m \in Nat : m = n + 1
      OBVIOUS
    <2>2. \A k \in 1 .. m : k - 1 \in T => k \in T
      BY <1>5, <2>1
    <2>3. \A k \in 0 .. m : k \in T
      BY <1>4, <2>2, Climb
    <2> QED BY <2>1, <2>3
  <1>7. f[0 .. n] = h[n + 1]
    <2>1. n + 1 \in T
      BY <1>6
    <2>2. 0 .. (n + 1) - 1 = 0 .. n
      OBVIOUS
    <2> QED BY <2>1, <2>2
  <1> QED BY <1>1, <1>3, <1>7 DEF SumsTo

(* The squares of a lane of one of the two registers.                        *)
Lane(p, x) == [c \in 1 .. p |-> (c - 1) * (2 * Lanes) + x]
LaneIndices(p, x) == { c * (2 * Lanes) + x : c \in 0 .. p - 1 }

(* How many squares a lane has, and which.                                   *)
LEMMA LaneFacts ==
    ASSUME NEW p \in Nat, NEW x \in Nat
    PROVE  /\ Lane(p, x) \in Seq(Nat) /\ Len(Lane(p, x)) = p
           /\ Range(Lane(p, x)) = LaneIndices(p, x)
  <1>1. 2 * Lanes \in Nat
    BY KernelsAssumption
  <1>2. PICK w \in Nat : w = 2 * Lanes
    BY <1>1
  <1>3. \A c \in 1 .. p : (c - 1) * w + x \in Nat
    OBVIOUS
  <1>4. Lane(p, x) = [c \in 1 .. p |-> (c - 1) * w + x]
    BY <1>2 DEF Lane
  <1>5. Lane(p, x) \in Seq(Nat) /\ Len(Lane(p, x)) = p
    BY <1>3, <1>4
  <1>6. DOMAIN Lane(p, x) = 1 .. p
    BY DEF Lane
  <1>7. ASSUME NEW y \in Range(Lane(p, x)) PROVE y \in LaneIndices(p, x)
    <2>1. PICK c \in 1 .. p : y = Lane(p, x)[c]
      BY <1>6 DEF Range
    <2>2. PICK d \in 0 .. p - 1 : d = c - 1
      OBVIOUS
    <2>3. y = d * (2 * Lanes) + x
      BY <2>1, <2>2 DEF Lane
    <2> QED BY <2>3 DEF LaneIndices
  <1>8. ASSUME NEW y \in LaneIndices(p, x) PROVE y \in Range(Lane(p, x))
    <2>1. PICK d \in 0 .. p - 1 : y = d * (2 * Lanes) + x
      BY DEF LaneIndices
    <2>2. PICK c \in 1 .. p : d = c - 1
      <3>1. d + 1 \in 1 .. p /\ d = (d + 1) - 1
        OBVIOUS
      <3> QED BY <3>1
    <2>3. y = Lane(p, x)[c]
      BY <2>1, <2>2 DEF Lane
    <2> QED BY <1>6, <2>3 DEF Range
  <1> QED BY <1>5, <1>7, <1>8

(* One more at the end.                                                      *)
LEMMA RangeAppend ==
    ASSUME NEW S, NEW s \in Seq(S), NEW y
    PROVE  Range(Append(s, y)) = Range(s) \cup {y}
  <1>1. PICK n \in Nat : n = Len(s)
    OBVIOUS
  <1>2. PICK a : a = Append(s, y)
    OBVIOUS
  <1>3. /\ DOMAIN a = 1 .. n + 1 /\ DOMAIN s = 1 .. n
        /\ \A i \in 1 .. n : a[i] = s[i]
        /\ a[n + 1] = y
    <2>1. a \in Seq(S \cup {y}) /\ Len(a) = n + 1
      BY <1>1, <1>2, StepAdded
    <2>2. \A i \in 1 .. Len(s) : a[i] = s[i]
      BY <1>2, StepAdded
    <2>3. a[Len(s) + 1] = y
      BY <1>2, StepAdded
    <2> QED BY <1>1, <2>1, <2>2, <2>3
  <1>4. \A z : z \in Range(a) <=> \E i \in 1 .. n + 1 : z = a[i]
    BY <1>3 DEF Range
  <1>5. \A z : z \in Range(s) <=> \E i \in 1 .. n : z = s[i]
    BY <1>3 DEF Range
  <1>6. \A i \in 1 .. n + 1 : i \in 1 .. n \/ i = n + 1
    OBVIOUS
  <1>7. 1 .. n \subseteq 1 .. n + 1 /\ n + 1 \in 1 .. n + 1
    OBVIOUS
  <1>8. ASSUME NEW z \in Range(a) PROVE z \in Range(s) \cup {y}
    BY <1>3, <1>4, <1>5, <1>6
  <1>9. ASSUME NEW z \in Range(s) \cup {y} PROVE z \in Range(a)
    BY <1>3, <1>4, <1>5, <1>7
  <1> QED BY <1>2, <1>8, <1>9

(* The parts of a norm's sum, as LoopExact counts them: lane by lane of the  *)
(* first register, of the second, and the rest.                              *)
SummedOf(sum) ==
    [j \in 0 .. 2 * Lanes |->
       IF j < Lanes THEN sum.first[j]
       ELSE IF j < 2 * Lanes THEN sum.second[j - Lanes] ELSE sum.tail]

(* How long a part is, and which squares it has.                             *)
PartLen(n, avx2, j) ==
    IF j < Lanes THEN PairsOf(n, avx2) + (IF SingleFits(n, avx2) THEN 1 ELSE 0)
    ELSE IF j < 2 * Lanes THEN PairsOf(n, avx2) ELSE n - SinglesTo(n, avx2)
PartOf(n, avx2, j) ==
    IF j < Lanes
    THEN LaneIndices(PairsOf(n, avx2), j)
           \cup (IF SingleFits(n, avx2) THEN {PairedTo(n, avx2) + j} ELSE {})
    ELSE IF j < 2 * Lanes THEN LaneIndices(PairsOf(n, avx2), j)
    ELSE SinglesTo(n, avx2) .. n - 1

(* The lanes of the first register, which takes the single one too.          *)
LEMMA FirstPart ==
    ASSUME NEW n \in Nat, NEW avx2 \in BOOLEAN, NEW j \in 0 .. Lanes - 1
    PROVE  /\ Len(SumSquares(n, avx2).first[j]) = PartLen(n, avx2, j)
           /\ Range(SumSquares(n, avx2).first[j]) = PartOf(n, avx2, j)
  <1>1. PICK p \in Nat : p = PairsOf(n, avx2)
    BY PairedFacts
  <1>2. PICK at \in Nat : at = PairedTo(n, avx2)
    BY PairedFacts
  <1>3. SumSquares(n, avx2).first[j]
          = [c \in 1 .. p |-> (c - 1) * 2 * Lanes + 0 + j]
              \o (IF SingleFits(n, avx2) THEN <<at + j>> ELSE <<>>)
    BY <1>1, <1>2 DEF SumSquares, PairsOf, PairedTo, SingleFits
  <1>4. [c \in 1 .. p |-> (c - 1) * 2 * Lanes + 0 + j] = Lane(p, j)
    <2>1. Lanes \in Nat
      BY KernelsAssumption
    <2>2. ASSUME NEW c \in 1 .. p
          PROVE  (c - 1) * 2 * Lanes + 0 + j = (c - 1) * (2 * Lanes) + j
      BY <2>1
    <2> QED BY <2>2 DEF Lane
  <1>5. PICK s : s = Lane(p, j)
    OBVIOUS
  <1>6. s \in Seq(Nat) /\ Len(s) = p /\ Range(s) = LaneIndices(p, j)
    BY <1>5, LaneFacts, KernelsAssumption
  <1>7. CASE SingleFits(n, avx2)
    <2>1. PICK y : y = at + j
      OBVIOUS
    <2>2. SumSquares(n, avx2).first[j] = Append(s, y)
      BY <1>3, <1>4, <1>5, <1>6, <1>7, <2>1, StepsJoined
    <2>3. Len(Append(s, y)) = p + 1
      BY <1>6, StepAdded
    <2>4. Range(Append(s, y)) = LaneIndices(p, j) \cup {y}
      BY <1>6, RangeAppend
    <2>5. j < Lanes
      BY KernelsAssumption
    <2> QED BY <1>1, <1>2, <1>7, <2>1, <2>2, <2>3, <2>4, <2>5 DEF PartLen, PartOf
  <1>8. CASE ~ SingleFits(n, avx2)
    <2>1. SumSquares(n, avx2).first[j] = s
      BY <1>3, <1>4, <1>5, <1>6, <1>8
    <2>2. j < Lanes
      BY KernelsAssumption
    <2> QED BY <1>1, <1>6, <1>8, <2>1, <2>2 DEF PartLen, PartOf
  <1> QED BY <1>7, <1>8

(* The lanes of the second.                                                  *)
LEMMA SecondPart ==
    ASSUME NEW n \in Nat, NEW avx2 \in BOOLEAN, NEW j \in Lanes .. 2 * Lanes - 1
    PROVE  /\ Len(SumSquares(n, avx2).second[j - Lanes]) = PartLen(n, avx2, j)
           /\ Range(SumSquares(n, avx2).second[j - Lanes]) = PartOf(n, avx2, j)
  <1>1. PICK p \in Nat : p = PairsOf(n, avx2)
    BY PairedFacts
  <1>0. Lanes \in Nat /\ j \in Nat /\ ~ (j < Lanes) /\ j < 2 * Lanes
    BY KernelsAssumption
  <1>2. PICK i \in 0 .. Lanes - 1 : i = j - Lanes
    BY <1>0
  <1>3. SumSquares(n, avx2).second[i] = [c \in 1 .. p |-> (c - 1) * 2 * Lanes + Lanes + i]
    BY <1>1 DEF SumSquares, PairsOf, PairedTo, SingleFits
  <1>4. [c \in 1 .. p |-> (c - 1) * 2 * Lanes + Lanes + i] = Lane(p, j)
    <2>1. ASSUME NEW c \in 1 .. p
          PROVE  (c - 1) * 2 * Lanes + Lanes + i = (c - 1) * (2 * Lanes) + j
      BY <1>0, <1>2
    <2> QED BY <2>1 DEF Lane
  <1>5. Len(Lane(p, j)) = p /\ Range(Lane(p, j)) = LaneIndices(p, j)
    BY <1>0, LaneFacts
  <1> QED BY <1>0, <1>1, <1>2, <1>3, <1>4, <1>5 DEF PartLen, PartOf

(* The squares added one by one.                                             *)
LEMMA LastPart ==
    ASSUME NEW n \in Nat, NEW avx2 \in BOOLEAN
    PROVE  /\ Len(SumSquares(n, avx2).tail) = PartLen(n, avx2, 2 * Lanes)
           /\ Range(SumSquares(n, avx2).tail) = PartOf(n, avx2, 2 * Lanes)
  <1>0. Lanes \in Nat /\ ~ (2 * Lanes < Lanes) /\ ~ (2 * Lanes < 2 * Lanes)
    BY KernelsAssumption
  <1>1. PICK a \in Nat : a = SinglesTo(n, avx2) /\ a <= n
    BY PairedFacts
  <1>2. PICK at \in Nat : at = PairedTo(n, avx2)
    BY PairedFacts
  <1>3. SumSquares(n, avx2).tail = [k \in 1 .. n - a |-> a + k - 1]
    <2>1. SumSquares(n, avx2).tail
            = [k \in 1 .. n - at - (IF SingleFits(n, avx2) THEN Lanes ELSE 0) |->
                 at + (IF SingleFits(n, avx2) THEN Lanes ELSE 0) + k - 1]
      BY <1>2 DEF SumSquares, PairsOf, PairedTo, SingleFits
    <2>2. PICK l \in Nat : l = IF SingleFits(n, avx2) THEN Lanes ELSE 0
      BY <1>0
    <2>3. a = at + l
      BY <1>1, <1>2, <2>2 DEF SinglesTo
    <2>4. n - at - l = n - a
      BY <2>3
    <2>5. SumSquares(n, avx2).tail = [k \in 1 .. n - a |-> at + l + k - 1]
      BY <2>1, <2>2, <2>4
    <2>6. \A k \in 1 .. n - a : at + l + k - 1 = a + k - 1
      BY <2>3
    <2> QED BY <2>5, <2>6
  <1>4. PICK m \in Nat : m = n - a
    BY <1>1
  <1>5. PICK s : s = [k \in 1 .. m |-> a + k - 1]
    OBVIOUS
  <1>6. DOMAIN s = 1 .. m /\ Len(s) = m
    BY <1>5
  <1>7. Range(s) = a .. n - 1
    <2>1. ASSUME NEW y \in Range(s) PROVE y \in a .. n - 1
      <3>1. PICK k \in 1 .. m : y = s[k]
        BY <1>6 DEF Range
      <3>2. y = a + k - 1
        BY <1>5, <3>1
      <3> QED BY <1>4, <3>2
    <2>2. ASSUME NEW y \in a .. n - 1 PROVE y \in Range(s)
      <3>1. PICK k \in 1 .. m : y = a + k - 1
        <4>1. y - a + 1 \in 1 .. m /\ y = a + (y - a + 1) - 1
          BY <1>4
        <4> QED BY <4>1
      <3>2. y = s[k]
        BY <1>5, <3>1
      <3> QED BY <1>6, <3>2 DEF Range
    <2> QED BY <2>1, <2>2
  <1> QED BY <1>0, <1>1, <1>3, <1>4, <1>5, <1>6, <1>7 DEF PartLen, PartOf

(* The parts together.                                                       *)
LEMMA PartFacts ==
    ASSUME NEW n \in Nat, NEW avx2 \in BOOLEAN, NEW j \in 0 .. 2 * Lanes
    PROVE  /\ Len(SummedOf(SumSquares(n, avx2))[j]) = PartLen(n, avx2, j)
           /\ Range(SummedOf(SumSquares(n, avx2))[j]) = PartOf(n, avx2, j)
  <1>1. Lanes \in Nat /\ j \in Nat
    BY KernelsAssumption
  <1>2. PICK s : s = SumSquares(n, avx2)
    OBVIOUS
  <1>3. SummedOf(s)[j] = IF j < Lanes THEN s.first[j]
                         ELSE IF j < 2 * Lanes THEN s.second[j - Lanes] ELSE s.tail
    BY DEF SummedOf
  <1>4. CASE j < Lanes
    <2>1. j \in 0 .. Lanes - 1
      BY <1>1, <1>4
    <2>2. SummedOf(s)[j] = s.first[j]
      BY <1>3, <1>4
    <2> QED BY <1>2, <2>1, <2>2, FirstPart
  <1>5. CASE ~ (j < Lanes) /\ j < 2 * Lanes
    <2>1. j \in Lanes .. 2 * Lanes - 1
      BY <1>1, <1>5
    <2>2. SummedOf(s)[j] = s.second[j - Lanes]
      BY <1>3, <1>5
    <2>3. /\ Len(s.second[j - Lanes]) = PartLen(n, avx2, j)
          /\ Range(s.second[j - Lanes]) = PartOf(n, avx2, j)
      BY <1>2, <2>1, SecondPart
    <2> QED BY <1>2, <2>2, <2>3
  <1>6. CASE ~ (j < Lanes) /\ ~ (j < 2 * Lanes)
    <2>1. j = 2 * Lanes
      BY <1>1, <1>6
    <2>2. SummedOf(s)[j] = s.tail
      BY <1>3, <1>6
    <2>3. /\ Len(s.tail) = PartLen(n, avx2, 2 * Lanes)
          /\ Range(s.tail) = PartOf(n, avx2, 2 * Lanes)
      BY <1>2, LastPart
    <2>4. /\ Len(s.tail) = PartLen(n, avx2, j)
          /\ Range(s.tail) = PartOf(n, avx2, j)
      BY <2>1, <2>3
    <2> QED BY <1>2, <2>2, <2>4
  <1> QED BY <1>4, <1>5, <1>6

(* A norm's sum has every square.                                            *)
LEMMA PartsCover ==
    ASSUME NEW n \in Nat, NEW avx2 \in BOOLEAN
    PROVE  UNION { PartOf(n, avx2, j) : j \in 0 .. 2 * Lanes } = 0 .. n - 1
  <1>1. Lanes \in Nat \ {0} /\ Lanes < 2 * Lanes
    BY KernelsAssumption
  <1>2. PICK w \in Nat \ {0} : w = 2 * Lanes /\ Lanes < w
    BY <1>1
  <1>3. PICK p \in Nat : p = PairsOf(n, avx2)
    BY PairedFacts
  <1>4. PICK at \in Nat : at = PairedTo(n, avx2) /\ at = p * w
    BY <1>2, <1>3, PairedFacts
  <1>5. PICK a \in Nat : a = SinglesTo(n, avx2) /\ at <= a /\ a <= n
    BY <1>4, PairedFacts
  <1>6. SingleFits(n, avx2) => a = at + Lanes
    BY <1>4, <1>5 DEF SinglesTo
  <1>7. ~ SingleFits(n, avx2) => a = at
    <2>1. ~ SingleFits(n, avx2) => SinglesTo(n, avx2) = at + 0
      BY <1>4 DEF SinglesTo
    <2> QED BY <1>4, <1>5, <2>1
  <1>8. /\ \A i \in 0 .. p - 1, j \in 0 .. w - 1 : i * w + j \in 0 .. at - 1
        /\ \A x \in 0 .. at - 1 : \E i \in 0 .. p - 1, j \in 0 .. w - 1 : x = i * w + j
    <2>1. /\ \A i \in 0 .. p - 1, j \in 0 .. w - 1 : i * w + j \in 0 .. p * w - 1
          /\ \A x \in 0 .. p * w - 1 : \E i \in 0 .. p - 1, j \in 0 .. w - 1 : x = i * w + j
      BY BlocksCover
    <2> QED BY <1>4, <2>1
  <1>9. \A j : LaneIndices(p, j) = { i * w + j : i \in 0 .. p - 1 }
    BY <1>2 DEF LaneIndices
  <1>10. ASSUME NEW j \in 0 .. w PROVE PartOf(n, avx2, j) \subseteq 0 .. n - 1
    <2>1. CASE j < Lanes
      <3>1. ASSUME NEW x \in LaneIndices(p, j) PROVE x \in 0 .. n - 1
        <4>1. PICK i \in 0 .. p - 1 : x = i * w + j
          BY <1>9
        <4>2. j \in 0 .. w - 1
          BY <1>1, <1>2, <2>1
        <4>3. x \in 0 .. at - 1
          BY <1>8, <4>1, <4>2
        <4> QED BY <1>5, <4>3
      <3>2. SingleFits(n, avx2) => at + j \in 0 .. n - 1
        BY <1>1, <1>5, <1>6, <2>1
      <3> QED BY <1>3, <1>4, <2>1, <3>1, <3>2 DEF PartOf
    <2>2. CASE ~ (j < Lanes) /\ j < w
      <3>1. ASSUME NEW x \in LaneIndices(p, j) PROVE x \in 0 .. n - 1
        <4>1. PICK i \in 0 .. p - 1 : x = i * w + j
          BY <1>9
        <4>2. j \in 0 .. w - 1
          BY <1>2, <2>2
        <4>3. x \in 0 .. at - 1
          BY <1>8, <4>1, <4>2
        <4> QED BY <1>5, <4>3
      <3> QED BY <1>2, <1>3, <2>2, <3>1 DEF PartOf
    <2>3. CASE ~ (j < Lanes) /\ ~ (j < w)
      <3>1. PartOf(n, avx2, j) = a .. n - 1
        BY <1>2, <1>5, <2>3 DEF PartOf
      <3> QED BY <1>5, <3>1
    <2> QED BY <2>1, <2>2, <2>3
  <1>11. ASSUME NEW x \in 0 .. n - 1 PROVE \E j \in 0 .. w : x \in PartOf(n, avx2, j)
    <2>1. CASE x < at
      <3>1. x \in 0 .. at - 1
        BY <2>1
      <3>2. PICK i \in 0 .. p - 1, j \in 0 .. w - 1 : x = i * w + j
        BY <1>8, <3>1
      <3>3. x \in LaneIndices(p, j)
        BY <1>9, <3>2
      <3>4. j \in 0 .. w /\ j < 2 * Lanes
        BY <1>2
      <3>5. x \in PartOf(n, avx2, j)
        BY <1>3, <3>3, <3>4 DEF PartOf
      <3> QED BY <3>4, <3>5
    <2>2. CASE at <= x /\ x < a
      <3>1. SingleFits(n, avx2) /\ a = at + Lanes
        BY <1>6, <1>7, <2>2
      <3>2. PICK j \in 0 .. Lanes - 1 : x = at + j
        <4>1. x - at \in 0 .. Lanes - 1 /\ x = at + (x - at)
          BY <1>1, <2>2, <3>1
        <4> QED BY <4>1
      <3>3. j \in 0 .. w /\ j < Lanes
        BY <1>1, <1>2
      <3>4. x \in PartOf(n, avx2, j)
        BY <1>4, <3>1, <3>2, <3>3 DEF PartOf
      <3> QED BY <3>3, <3>4
    <2>3. CASE a <= x
      <3>1. x \in a .. n - 1
        BY <2>3
      <3>2. w \in 0 .. w /\ ~ (w < Lanes) /\ ~ (w < 2 * Lanes)
        BY <1>1, <1>2
      <3>3. x \in PartOf(n, avx2, w)
        BY <1>5, <3>1, <3>2 DEF PartOf
      <3> QED BY <3>2, <3>3
    <2> QED BY <2>1, <2>2, <2>3
  <1> QED BY <1>2, <1>10, <1>11

(* And each once: as many as there are.                                      *)
LEMMA PartsCount ==
    ASSUME NEW n \in Nat, NEW avx2 \in BOOLEAN,
           NEW g \in [0 .. 2 * Lanes -> Nat], \A j \in 0 .. 2 * Lanes : g[j] = PartLen(n, avx2, j)
    PROVE  SumFunction(g) = n
  <1>1. PICK l \in Nat \ {0} : l = Lanes
    BY KernelsAssumption
  <1>2. PICK w \in Nat \ {0} : w = 2 * Lanes /\ l < w /\ w = l + l
    BY <1>1
  <1>3. PICK p \in Nat : p = PairsOf(n, avx2)
    BY PairedFacts
  <1>4. PICK at \in Nat : at = PairedTo(n, avx2) /\ at = p * w
    BY <1>2, <1>3, PairedFacts
  <1>5. PICK a \in Nat : a = SinglesTo(n, avx2) /\ at <= a /\ a <= n
    BY <1>4, PairedFacts
  <1>6. PICK q \in Nat : q = p + (IF SingleFits(n, avx2) THEN 1 ELSE 0)
    <2>1. p + (IF SingleFits(n, avx2) THEN 1 ELSE 0) \in Nat
      OBVIOUS
    <2> QED BY <2>1
  <1>7. PICK lq \in Nat, lp \in Nat : lq = l * q /\ lp = l * p
    <2>1. l * q \in Nat /\ l * p \in Nat
      OBVIOUS
    <2> QED BY <2>1
  <1>8. lq + lp = a
    <2>1. at = lp + lp
      <3>1. p * (l + l) = l * p + l * p
        OBVIOUS
      <3> QED BY <1>2, <1>4, <1>7, <3>1
    <2>2. CASE SingleFits(n, avx2)
      <3>1. q = p + 1 /\ a = at + l
        BY <1>1, <1>4, <1>5, <1>6, <2>2 DEF SinglesTo
      <3>2. l * (p + 1) = l * p + l
        OBVIOUS
      <3> QED BY <1>7, <2>1, <3>1, <3>2
    <2>3. CASE ~ SingleFits(n, avx2)
      <3>1. SinglesTo(n, avx2) = at + 0 /\ q = p + 0
        BY <1>4, <1>6, <2>3 DEF SinglesTo
      <3>2. q = p /\ a = at
        BY <1>5, <3>1
      <3> QED BY <1>7, <2>1, <3>2
    <2> QED BY <2>2, <2>3
  <1> DEFINE H(k) == IF k <= l THEN k * q ELSE IF k <= w THEN lq + (k - l) * p ELSE n
  <1>9. PICK h : h = [k \in 0 .. w + 1 |-> H(k)]
    OBVIOUS
  <1>10. h[0] = 0
    BY <1>9
  <1>11. ASSUME NEW k \in 0 .. w PROVE h[k + 1] = h[k] + g[k]
    <2>1. h[k] = H(k) /\ h[k + 1] = H(k + 1)
      BY <1>9
    <2>2. CASE k < l
      <3>1. g[k] = q
        BY <1>1, <1>2, <1>3, <1>6, <2>2 DEF PartLen
      <3>2. H(k) = k * q /\ H(k + 1) = (k + 1) * q
        BY <2>2
      <3>3. (k + 1) * q = k * q + q
        OBVIOUS
      <3> QED BY <2>1, <3>1, <3>2, <3>3
    <2>3. CASE ~ (k < l) /\ k < w
      <3>1. g[k] = p
        BY <1>1, <1>2, <1>3, <2>3 DEF PartLen
      <3>2. PICK d \in Nat : d = k - l
        BY <2>3
      <3>3. H(k + 1) = lq + (d + 1) * p
        <4>1. ~ (k + 1 <= l) /\ k + 1 <= w /\ (k + 1) - l = d + 1
          BY <2>3, <3>2
        <4> QED BY <4>1
      <3>4. H(k) = lq + d * p
        <4>1. CASE k = l
          <5>1. d = 0 /\ d * p = 0 /\ H(k) = l * q
            BY <3>2, <4>1
          <5> QED BY <1>7, <5>1
        <4>2. CASE k # l
          <5>1. ~ (k <= l) /\ k <= w
            BY <2>3, <4>2
          <5> QED BY <3>2, <5>1
        <4> QED BY <4>1, <4>2
      <3>5. (d + 1) * p = d * p + p /\ d * p \in Nat
        OBVIOUS
      <3>6. PICK dp \in Nat : dp = d * p
        BY <3>5
      <3> HIDE DEF H
      <3>7. H(k + 1) = lq + (dp + p) /\ H(k) = lq + dp
        BY <3>3, <3>4, <3>5, <3>6
      <3>8. lq + (dp + p) = (lq + dp) + p
        OBVIOUS
      <3> QED BY <2>1, <3>1, <3>7, <3>8
    <2>4. CASE k = w
      <3>1. g[k] = n - a
        <4>1. ~ (k < Lanes) /\ ~ (k < 2 * Lanes)
          BY <1>1, <1>2, <2>4
        <4> QED BY <1>2, <1>5, <4>1 DEF PartLen
      <3>2. H(k + 1) = n
        BY <1>2, <2>4
      <3>3. H(k) = lq + (w - l) * p
        <4>1. ~ (k <= l) /\ k <= w
          BY <1>2, <2>4
        <4>2. H(k) = lq + (k - l) * p
          BY <4>1
        <4> QED BY <2>4, <4>2
      <3>4. (w - l) * p = lp
        <4>1. w - l = l
          BY <1>2
        <4> QED BY <1>7, <4>1
      <3> HIDE DEF H
      <3>5. H(k) = a
        BY <1>8, <3>3, <3>4
      <3>6. a + (n - a) = n
        BY <1>5
      <3> QED BY <2>1, <3>1, <3>2, <3>5, <3>6
    <2> QED BY <2>2, <2>3, <2>4
  <1>12. g \in [0 .. w -> Nat]
    BY <1>2
  <1>13. SumFunction(g) = h[w + 1]
    <2>1. w \in Nat
      OBVIOUS
    <2> HIDE DEF H
    <2> QED BY <1>10, <1>11, <1>12, <2>1, PrefixSum
  <1>14. h[w + 1] = n
    BY <1>2, <1>9
  <1> QED BY <1>13, <1>14

(* What a loop leaves in its buffers.                                        *)
Computed(c) ==
    CASE c.op \in {"silu", "gelu", "add"} -> ElementWise(c.op, c.n, c.avx2)
      [] c.op = "norm" -> RmsNorm(c.n, c.avx2)
      [] c.op = "norm+residual" ->
           RmsNorm(c.n, c.avx2)
           \cup { [to |-> "residual", at |-> i, term |-> <<"copy", i>>] : i \in Residual(c.n, c.avx2) }
      [] c.op = "rope" ->
           LET b == RotateHeads(c.heads, c.headDim, c.avx2)
           IN  { [to |-> "output", at |-> a, term |-> b[a]] : a \in DOMAIN b }

Looping(c) == c # Idle /\ c.op \notin {"decode", "batch"}

(* Nothing changes the buffers of a loop after it ran.                       *)
LoopInv == \A c : c = vector /\ Looping(c) => c \in VectorCalls /\ result = Computed(c)

(* No step of a call changes what its loop computed.                         *)
LEMMA LoopNext == AttentionInv /\ LoopInv /\ [VectorNext]_vectorVars => LoopInv'
  <1> SUFFICES ASSUME AttentionInv, LoopInv, [VectorNext]_vectorVars PROVE LoopInv'
    OBVIOUS
  <1> SUFFICES ASSUME NEW c, c = vector', Looping(c)
               PROVE  c \in VectorCalls /\ result' = Computed(c)
    BY DEF LoopInv
  <1>1. ASSUME NEW d \in VectorCalls, RunLoop(d) PROVE c \in VectorCalls /\ result' = Computed(c)
    BY <1>1 DEF RunLoop, Computed
  <1>2. ASSUME NEW d \in VectorCalls, StartAttention(d) PROVE FALSE
    BY <1>2 DEF StartAttention, Looping
  <1>3. ASSUME NEW task, Score(task) PROVE FALSE
    BY <1>3 DEF Score, Looping
  <1>4. ASSUME NEW task, Mix(task) PROVE FALSE
    <2>1. task \in scored /\ vector' = vector
      BY <1>4 DEF Mix
    <2>2. Attending
      BY <2>1 DEF AttentionInv
    <2> QED BY <2>1, <2>2 DEF Attending, Looping
  <1>5. CASE EndVector
    BY <1>5 DEF EndVector, Looping
  <1>6. CASE UNCHANGED vectorVars
    BY <1>6 DEF vectorVars, LoopInv
  <1> QED BY <1>1, <1>2, <1>3, <1>4, <1>5, <1>6 DEF VectorNext

(* A norm's sum is of all n squares, each once.                              *)
SumWhole(sum, n) ==
    /\ UNION { Range(SummedOf(sum)[j]) : j \in DOMAIN SummedOf(sum) } = 0 .. n - 1
    /\ SumFunction([j \in DOMAIN SummedOf(sum) |-> Len(SummedOf(sum)[j])]) = n

(* The first half of LoopExact, of what a call computed.                     *)
SweptExactly(c, R) ==
    LET norm  == c.op \in {"norm", "norm+residual"}
        sum   == SumSquares(c.n, c.avx2)
        terms == { r \in R : r.to = "output" }
    IN  /\ { r.at : r \in terms } = 0 .. c.n - 1 /\ Cardinality(terms) = c.n
        /\ \A r \in terms :
             r.term = CASE c.op = "silu" -> <<"silu", r.term[2], r.at, r.at>>
                        [] c.op = "gelu" -> <<"gelu", RoundedAt(c.n, c.avx2, r.at), r.at, r.at>>
                        [] c.op = "add"  -> <<"add", r.at, r.at>>
                        [] norm          -> <<"normed", r.at, sum>>
        /\ c.op = "silu" => Cardinality({ r.term[2] : r \in terms }) <= 1
        /\ norm => SumWhole(sum, c.n)
        /\ c.op = "norm+residual" =>
             { r.term : r \in R \ terms } = { <<"copy", i>> : i \in 0 .. c.n - 1 }

(* A norm's sum takes each square once.                                      *)
LEMMA NormSum ==
    ASSUME NEW n \in Nat, NEW avx2 \in BOOLEAN, NEW S, S = SummedOf(SumSquares(n, avx2))
    PROVE  /\ UNION { Range(S[j]) : j \in DOMAIN S } = 0 .. n - 1
           /\ SumFunction([j \in DOMAIN S |-> Len(S[j])]) = n
  <1>1. DOMAIN S = 0 .. 2 * Lanes
    BY DEF SummedOf
  <1>2. \A j \in 0 .. 2 * Lanes : Len(S[j]) = PartLen(n, avx2, j) /\ Range(S[j]) = PartOf(n, avx2, j)
    BY PartFacts
  <1>3. \A j \in 0 .. 2 * Lanes : PartLen(n, avx2, j) \in Nat
    <2>1. PICK p \in Nat, a \in Nat : p = PairsOf(n, avx2) /\ a = SinglesTo(n, avx2) /\ a <= n
      BY PairedFacts
    <2>2. n - a \in Nat /\ p + (IF SingleFits(n, avx2) THEN 1 ELSE 0) \in Nat
      BY <2>1
    <2> QED BY <2>1, <2>2 DEF PartLen
  <1>4. PICK g : g = [j \in 0 .. 2 * Lanes |-> Len(S[j])]
    OBVIOUS
  <1>5. g \in [0 .. 2 * Lanes -> Nat] /\ \A j \in 0 .. 2 * Lanes : g[j] = PartLen(n, avx2, j)
    BY <1>2, <1>3, <1>4
  <1>6. SumFunction(g) = n
    BY <1>5, PartsCount
  <1>7. UNION { Range(S[j]) : j \in 0 .. 2 * Lanes } = UNION { PartOf(n, avx2, j) : j \in 0 .. 2 * Lanes }
    BY <1>2
  <1> QED BY <1>1, <1>4, <1>6, <1>7, PartsCover

(* The copy of a fused norm is whole.                                        *)
LEMMA ResidualWhole ==
    ASSUME NEW n \in Nat, NEW avx2 \in BOOLEAN
    PROVE  Residual(n, avx2) = 0 .. n - 1
  <1>1. PICK at \in Nat, a \in Nat : /\ at = PairedTo(n, avx2) /\ a = SinglesTo(n, avx2)
                                    /\ at <= a /\ a <= n
    BY PairedFacts
  <1>2. PICK l \in Nat : l = Lanes
    BY KernelsAssumption
  <1>3. (IF avx2 THEN ((n \div Lanes) \div 2) * 2 * Lanes ELSE 0) = at
    BY <1>1, KernelsAssumption DEF PairedTo, PairsOf
  <1>4. PICK f \in BOOLEAN : f = SingleFits(n, avx2)
    BY DEF SingleFits
  <1>5. Residual(n, avx2) = 0 .. at - 1 \cup (IF f THEN at .. at + l - 1 ELSE {})
                              \cup (at + (IF f THEN l ELSE 0)) .. n - 1
    BY <1>1, <1>2, <1>3, <1>4 DEF Residual, SingleFits
  <1>6. CASE f
    <2>1. at + l <= n
      BY <1>1, <1>2, <1>4, <1>6 DEF SingleFits
    <2>2. Residual(n, avx2) = 0 .. at - 1 \cup at .. at + l - 1 \cup (at + l) .. n - 1
      BY <1>5, <1>6
    <2> QED BY <2>1, <2>2
  <1>7. CASE ~ f
    <2>1. Residual(n, avx2) = 0 .. at - 1 \cup {} \cup (at + 0) .. n - 1
      BY <1>5, <1>7
    <2> QED BY <1>1, <2>1
  <1> QED BY <1>6, <1>7

(* Which the element-wise loops and the norms satisfy.                       *)
LEMMA SiluExact ==
    ASSUME NEW n \in Nat, NEW avx2 \in BOOLEAN
    PROVE  Cardinality({ r.term[2] : r \in Filled(n, SiluTerms(n, avx2)) }) <= 1
  <1>1. PICK V : V = { r.term[2] : r \in Filled(n, SiluTerms(n, avx2)) }
    OBVIOUS
  <1>2. V \subseteq {Curve(avx2)}
    <2>1. PICK T : T = SiluTerms(n, avx2)
      OBVIOUS
    <2>2. \A r \in Filled(n, T) : r.at \in 0 .. n - 1 /\ r.term = T[r.at]
      BY FilledFacts
    <2>3. \A i \in 0 .. n - 1 : T[i] = <<"silu", Curve(avx2), i, i>>
      BY <2>1 DEF SiluTerms
    <2>4. \A r \in Filled(n, T) : r.term[2] = Curve(avx2)
      BY <2>2, <2>3
    <2> QED BY <1>1, <2>1, <2>4
  <1>3. CASE V = {}
    <2>1. Cardinality(V) = 0
      BY <1>3, FS_EmptySet
    <2> QED BY <1>1, <2>1
  <1>4. CASE V = {Curve(avx2)}
    <2>1. Cardinality(V) = 1
      BY <1>4, FS_Singleton
    <2> QED BY <1>1, <2>1
  <1> QED BY <1>2, <1>3, <1>4

(* An element-wise loop or a norm is its formula.                            *)
LEMMA SweepIsExact ==
    ASSUME NEW c \in VectorCalls, c.op \notin {"decode", "batch", "rope"}
    PROVE  SweptExactly(c, Computed(c))
  <1>1. /\ c.op \in {"silu", "gelu", "add", "norm", "norm+residual"} /\ c.n \in Nat
        /\ c.avx2 \in BOOLEAN
    BY VectorKernelsAssumption
  <1>2. PICK n \in Nat, avx2 \in BOOLEAN : n = c.n /\ avx2 = c.avx2
    BY <1>1
  <1> DEFINE Outputs(R) == { r \in R : r.to = "output" }
  <1>3. ASSUME NEW T PROVE Outputs(Filled(n, T)) = Filled(n, T)
    BY FilledFacts
  <1>4. ASSUME NEW T
        PROVE  /\ { r.at : r \in Filled(n, T) } = 0 .. n - 1 /\ Cardinality(Filled(n, T)) = n
               /\ \A r \in Filled(n, T) : r.at \in 0 .. n - 1 /\ r.term = T[r.at]
    BY FilledFacts
  <1>5. PICK sum : sum = SumSquares(n, avx2)
    OBVIOUS
  <1>6. SumWhole(sum, n)
    <2>1. PICK S : S = SummedOf(sum)
      OBVIOUS
    <2>2. /\ UNION { Range(S[j]) : j \in DOMAIN S } = 0 .. n - 1
          /\ SumFunction([j \in DOMAIN S |-> Len(S[j])]) = n
      BY <1>5, <2>1, NormSum
    <2> QED BY <2>1, <2>2 DEF SumWhole
  <1>7. CASE c.op = "silu"
    <2>1. PICK R : R = Filled(n, SiluTerms(n, avx2))
      OBVIOUS
    <2>2. Computed(c) = R
      BY <1>2, <1>7, <2>1, LoopsFill DEF Computed
    <2>3. /\ Outputs(R) = R /\ { r.at : r \in R } = 0 .. n - 1 /\ Cardinality(R) = n
          /\ Cardinality({ r.term[2] : r \in R }) <= 1
      BY <1>3, <1>4, <2>1, SiluExact
    <2>4. \A r \in R : r.term = <<"silu", Curve(avx2), r.at, r.at>>
      BY <1>4, <2>1 DEF SiluTerms
    <2>5. \A r \in R : r.term = <<"silu", r.term[2], r.at, r.at>>
      BY <2>4
    <2> QED BY <1>2, <1>7, <2>2, <2>3, <2>5 DEF SweptExactly
  <1>8. CASE c.op = "gelu"
    <2>1. PICK R : R = Filled(n, GeluTerms(n, avx2))
      OBVIOUS
    <2>2. Computed(c) = R
      BY <1>2, <1>8, <2>1, LoopsFill DEF Computed
    <2>3. Outputs(R) = R /\ { r.at : r \in R } = 0 .. n - 1 /\ Cardinality(R) = n
      BY <1>3, <1>4, <2>1
    <2>4. \A r \in R : r.term = <<"gelu", RoundedAt(n, avx2, r.at), r.at, r.at>>
      BY <1>4, <2>1 DEF GeluTerms
    <2> QED BY <1>2, <1>8, <2>2, <2>3, <2>4 DEF SweptExactly
  <1>9. CASE c.op = "add"
    <2>1. PICK R : R = Filled(n, AddTerms(n))
      OBVIOUS
    <2>2. Computed(c) = R
      BY <1>2, <1>9, <2>1, LoopsFill DEF Computed
    <2>3. Outputs(R) = R /\ { r.at : r \in R } = 0 .. n - 1 /\ Cardinality(R) = n
      BY <1>3, <1>4, <2>1
    <2>4. \A r \in R : r.term = <<"add", r.at, r.at>>
      BY <1>4, <2>1 DEF AddTerms
    <2> QED BY <1>2, <1>9, <2>2, <2>3, <2>4 DEF SweptExactly
  <1>10. PICK N : N = Filled(n, NormTerms(n, avx2))
    OBVIOUS
  <1>11. /\ Outputs(N) = N /\ { r.at : r \in N } = 0 .. n - 1 /\ Cardinality(N) = n
         /\ \A r \in N : r.term = <<"normed", r.at, sum>>
    BY <1>3, <1>4, <1>5, <1>10 DEF NormTerms
  <1>12. RmsNorm(n, avx2) = N
    BY <1>10, LoopsFill
  <1>13. CASE c.op = "norm"
    <2>1. Computed(c) = N
      BY <1>2, <1>12, <1>13 DEF Computed
    <2> QED BY <1>2, <1>5, <1>6, <1>11, <1>13, <2>1 DEF SweptExactly
  <1>14. CASE c.op = "norm+residual"
    <2>1. PICK C : C = { [to |-> "residual", at |-> i, term |-> <<"copy", i>>] : i \in 0 .. n - 1 }
      OBVIOUS
    <2>2. Computed(c) = N \cup C
      BY <1>2, <1>12, <1>14, <2>1, ResidualWhole DEF Computed
    <2>3. \A r \in C : r.to = "residual"
      BY <2>1
    <2>4. \A r \in N : r.to = "output"
      BY <1>11
    <2>5. Outputs(N \cup C) = N /\ (N \cup C) \ N = C
      BY <2>3, <2>4
    <2>6. { r.term : r \in C } = { <<"copy", i>> : i \in 0 .. n - 1 }
      <3>1. ASSUME NEW x \in { r.term : r \in C } PROVE \E i \in 0 .. n - 1 : x = <<"copy", i>>
        BY <2>1
      <3>2. ASSUME NEW i \in 0 .. n - 1 PROVE <<"copy", i>> \in { r.term : r \in C }
        <4>1. PICK r \in C : r = [to |-> "residual", at |-> i, term |-> <<"copy", i>>]
          BY <2>1
        <4>2. r.term = <<"copy", i>>
          BY <4>1
        <4> QED BY <4>2
      <3> QED BY <3>1, <3>2
    <2> QED BY <1>2, <1>5, <1>6, <1>11, <1>14, <2>2, <2>5, <2>6 DEF SweptExactly
  <1> QED BY <1>1, <1>7, <1>8, <1>9, <1>13, <1>14

(* The turns a rotation takes for a head: registers, then one by one.        *)
RotHalf(hd) == hd \div 2
RotBody(hd, avx2) == IF avx2 /\ hd % Lanes = 0 THEN RotHalf(hd) \div Lanes ELSE 0
RotSteps(hd, avx2) == RotBody(hd, avx2) + (RotHalf(hd) - RotBody(hd, avx2) * Lanes)
RotTurn(hd, avx2, k) ==
    IF k < RotBody(hd, avx2) THEN k * Lanes .. k * Lanes + Lanes - 1
    ELSE {RotBody(hd, avx2) * Lanes + k - RotBody(hd, avx2)}

(* The turn that index i of a half is in.                                    *)
TurnOf(hd, avx2, i) ==
    IF i < RotBody(hd, avx2) * Lanes THEN i \div Lanes
    ELSE RotBody(hd, avx2) + (i - RotBody(hd, avx2) * Lanes)

(* A head has whole registers of pairs, and then pairs one by one.           *)
LEMMA RotFacts ==
    ASSUME NEW hd \in Nat, hd > 0, hd % 2 = 0, NEW avx2
    PROVE  /\ RotHalf(hd) \in Nat \ {0} /\ hd = RotHalf(hd) + RotHalf(hd)
           /\ RotBody(hd, avx2) \in Nat
           /\ RotBody(hd, avx2) * Lanes \in Nat /\ RotBody(hd, avx2) * Lanes <= RotHalf(hd)
           /\ RotSteps(hd, avx2) \in Nat \ {0}
  <1>1. PICK l \in Nat \ {0} : l = Lanes
    BY KernelsAssumption
  <1>2. PICK h \in Nat \ {0} : h = RotHalf(hd) /\ hd = h + h
    <2>1. hd \div 2 \in Nat \ {0} /\ hd = hd \div 2 + hd \div 2
      OBVIOUS
    <2> QED BY <2>1 DEF RotHalf
  <1>3. PICK b : b = RotBody(hd, avx2)
    OBVIOUS
  <1>4. b \in Nat /\ b * l \in Nat /\ b * l <= h
    <2>1. CASE avx2 /\ hd % Lanes = 0
      <3>1. b = h \div l
        BY <1>1, <1>2, <1>3, <2>1 DEF RotBody
      <3>2. h \div l \in Nat
        BY Blocks
      <3>3. PICK x : x = (h \div l) * l
        OBVIOUS
      <3>4. x \in Nat /\ x <= h
        BY <3>3, WholeBlocks
      <3> QED BY <3>1, <3>2, <3>3, <3>4
    <2>2. CASE ~ (avx2 /\ hd % Lanes = 0)
      <3>1. b = 0
        BY <1>3, <2>2 DEF RotBody
      <3>2. 0 * l = 0
        OBVIOUS
      <3> QED BY <3>1, <3>2
    <2> QED BY <2>1, <2>2
  <1>5. RotSteps(hd, avx2) = b + (h - b * l)
    BY <1>1, <1>2, <1>3 DEF RotSteps
  <1>6. PICK bl \in Nat : bl = b * l
    BY <1>4
  <1>7. b + (h - bl) \in Nat \ {0}
    <2>1. bl = 0 \/ b # 0
      <3>1. b = 0 => b * l = 0
        OBVIOUS
      <3> QED BY <1>6, <3>1
    <2> QED BY <1>2, <1>4, <1>6, <2>1
  <1> QED BY <1>1, <1>2, <1>3, <1>4, <1>5, <1>6, <1>7

(* Every index of a half is in one turn, and no others are.                  *)
LEMMA TurnFacts ==
    ASSUME NEW hd \in Nat, hd > 0, hd % 2 = 0, NEW avx2
    PROVE  /\ \A i \in 0 .. RotHalf(hd) - 1 : TurnOf(hd, avx2, i) \in 0 .. RotSteps(hd, avx2) - 1
           /\ \A i \in Int, k \in 0 .. RotSteps(hd, avx2) - 1 :
                 i \in RotTurn(hd, avx2, k)
                   <=> i \in 0 .. RotHalf(hd) - 1 /\ TurnOf(hd, avx2, i) = k
  <1>1. PICK l \in Nat \ {0} : l = Lanes
    BY KernelsAssumption
  <1>2. PICK h \in Nat : h = RotHalf(hd)
    BY RotFacts
  <1>3. PICK b \in Nat, bl \in Nat : b = RotBody(hd, avx2) /\ bl = b * l /\ bl <= h
    BY <1>1, <1>2, RotFacts
  <1>4. PICK s \in Nat : s = RotSteps(hd, avx2) /\ s = b + (h - bl)
    BY <1>1, <1>2, <1>3, RotFacts DEF RotSteps
  <1>5. \A i : TurnOf(hd, avx2, i) = IF i < bl THEN i \div l ELSE b + (i - bl)
    BY <1>1, <1>3 DEF TurnOf
  <1>6. \A k : RotTurn(hd, avx2, k) = IF k < b THEN k * l .. k * l + l - 1 ELSE {bl + k - b}
    BY <1>1, <1>3 DEF RotTurn
  <1>7. ASSUME NEW i \in 0 .. bl - 1
        PROVE  i \div l \in 0 .. b - 1 /\ i \in (i \div l) * l .. (i \div l) * l + l - 1
    <2>1. PICK c \in 0 .. b - 1, j \in 0 .. l - 1 : i = c * l + j
      <3>1. \A x \in 0 .. b * l - 1 : \E c \in 0 .. b - 1, j \in 0 .. l - 1 : x = c * l + j
        BY BlocksCover
      <3> QED BY <1>3, <3>1
    <2>2. i \div l = c
      BY <2>1, AddressOf
    <2>3. c * l \in Nat
      OBVIOUS
    <2> QED BY <2>1, <2>2, <2>3
  <1>8. ASSUME NEW k \in 0 .. b - 1, NEW i \in k * l .. k * l + l - 1
        PROVE  i \in 0 .. bl - 1 /\ i \div l = k
    <2>1. PICK j \in 0 .. l - 1 : i = k * l + j
      <3>1. PICK kl \in Nat : kl = k * l
        <4>1. k * l \in Nat
          OBVIOUS
        <4> QED BY <4>1
      <3>2. i - kl \in 0 .. l - 1 /\ i = kl + (i - kl)
        BY <3>1
      <3> QED BY <3>1, <3>2
    <2>2. i \div l = k
      BY <2>1, AddressOf
    <2>3. \A x \in 0 .. b - 1, j2 \in 0 .. l - 1 : x * l + j2 \in 0 .. b * l - 1
      BY BlocksCover
    <2> QED BY <1>3, <2>1, <2>2, <2>3
  <1>9. ASSUME NEW i \in 0 .. h - 1 PROVE TurnOf(hd, avx2, i) \in 0 .. s - 1
    <2>1. CASE i < bl
      <3>1. i \in 0 .. bl - 1
        BY <2>1
      <3>2. PICK t \in 0 .. b - 1 : t = i \div l
        <4>1. i \div l \in 0 .. b - 1
          BY <1>7, <3>1
        <4> QED BY <4>1
      <3>3. TurnOf(hd, avx2, i) = t
        BY <1>5, <2>1, <3>2
      <3> QED BY <1>3, <1>4, <3>3
    <2>2. CASE ~ (i < bl)
      BY <1>3, <1>4, <1>5, <2>2
    <2> QED BY <2>1, <2>2
  <1>10. ASSUME NEW i \in Int, NEW k \in 0 .. s - 1, i \in RotTurn(hd, avx2, k)
         PROVE  i \in 0 .. h - 1 /\ TurnOf(hd, avx2, i) = k
    <2>1. CASE k < b
      <3>1. i \in k * l .. k * l + l - 1 /\ k \in 0 .. b - 1
        BY <1>6, <1>10, <2>1
      <3>2. i \in 0 .. bl - 1 /\ i \div l = k
        BY <1>8, <3>1
      <3> QED BY <1>3, <1>5, <3>2
    <2>2. CASE ~ (k < b)
      <3>1. i = bl + k - b
        BY <1>6, <1>10, <2>2
      <3>2. ~ (i < bl) /\ i \in 0 .. h - 1 /\ b + (i - bl) = k
        BY <1>3, <1>4, <2>2, <3>1
      <3> QED BY <1>5, <3>2
    <2> QED BY <2>1, <2>2
  <1>11. ASSUME NEW i \in 0 .. h - 1, NEW k \in 0 .. s - 1, TurnOf(hd, avx2, i) = k
         PROVE  i \in RotTurn(hd, avx2, k)
    <2>1. CASE i < bl
      <3>1. i \div l \in 0 .. b - 1 /\ i \in (i \div l) * l .. (i \div l) * l + l - 1
        BY <1>7, <2>1
      <3>2. i \div l = k
        BY <1>5, <1>11, <2>1
      <3>3. k < b /\ i \in k * l .. k * l + l - 1
        BY <3>1, <3>2
      <3> QED BY <1>6, <3>3
    <2>2. CASE ~ (i < bl)
      <3>1. k = b + (i - bl)
        BY <1>5, <1>11, <2>2
      <3>2. ~ (k < b) /\ i = bl + k - b
        BY <2>2, <3>1
      <3> QED BY <1>6, <3>2
    <2> QED BY <2>1, <2>2
  <1> QED BY <1>2, <1>4, <1>9, <1>10, <1>11

(* How a turn rounds, and how the index of a half is rounded.                *)
TurnRounding(hd, avx2, k) == Rounding(IF k < RotBody(hd, avx2) THEN "body" ELSE "tail")
RotRounding(hd, avx2, i) ==
    IF hd % Lanes = 0 /\ avx2 /\ i < (RotHalf(hd) \div Lanes) * Lanes THEN "fused" ELSE "separate"

(* The turns of whole registers are those of the first indices.              *)
LEMMA TurnRounds ==
    ASSUME NEW hd \in Nat, hd > 0, hd % 2 = 0, NEW avx2, NEW i \in 0 .. RotHalf(hd) - 1,
           NEW k, k = TurnOf(hd, avx2, i)
    PROVE  TurnRounding(hd, avx2, k) = RotRounding(hd, avx2, i)
  <1>1. PICK l \in Nat \ {0} : l = Lanes
    BY KernelsAssumption
  <1>2. PICK h \in Nat : h = RotHalf(hd)
    BY RotFacts
  <1>3. PICK b \in Nat, bl \in Nat : b = RotBody(hd, avx2) /\ bl = b * l /\ bl <= h
    BY <1>1, <1>2, RotFacts
  <1>4. k = IF i < bl THEN i \div l ELSE b + (i - bl)
    BY <1>1, <1>3 DEF TurnOf
  <1>5. k < b <=> i < bl
    <2>1. CASE i < bl
      <3>1. i \in 0 .. bl - 1
        BY <1>2, <1>3, <2>1
      <3>2. PICK c \in 0 .. b - 1, j \in 0 .. l - 1 : i = c * l + j
        <4>1. \A x \in 0 .. b * l - 1 : \E c \in 0 .. b - 1, j \in 0 .. l - 1 : x = c * l + j
          BY BlocksCover
        <4> QED BY <1>3, <3>1, <4>1
      <3>3. i \div l = c
        <4>1. c \in Nat /\ i = c * l + j
          BY <1>3, <3>2
        <4> QED BY <4>1, AddressOf
      <3> QED BY <1>4, <2>1, <3>3
    <2>2. CASE ~ (i < bl)
      <3>1. k = b + (i - bl)
        BY <1>4, <2>2
      <3> QED BY <1>2, <1>3, <2>2, <3>1
    <2> QED BY <2>1, <2>2
  <1>6. i < bl <=> hd % Lanes = 0 /\ avx2 /\ i < (h \div l) * l
    <2>1. CASE avx2 /\ hd % Lanes = 0
      <3>1. b = h \div l
        BY <1>1, <1>2, <1>3, <2>1 DEF RotBody
      <3> QED BY <1>3, <2>1, <3>1
    <2>2. CASE ~ (avx2 /\ hd % Lanes = 0)
      <3>1. b = 0
        BY <1>3, <2>2 DEF RotBody
      <3>2. bl = 0
        BY <1>1, <1>3, <3>1
      <3>3. ~ (i < bl)
        BY <3>2
      <3> QED BY <2>2, <3>3
    <2> QED BY <2>1, <2>2
  <1>7. TurnRounding(hd, avx2, k) = IF k < b THEN "fused" ELSE "separate"
    BY <1>3 DEF TurnRounding, Rounding
  <1>8. RotRounding(hd, avx2, i)
          = IF hd % Lanes = 0 /\ avx2 /\ i < (h \div l) * l THEN "fused" ELSE "separate"
    BY <1>1, <1>2 DEF RotRounding
  <1> QED BY <1>5, <1>6, <1>7, <1>8

(* The buffer of a rotation after each of n turns.                           *)
Unturned(heads, hd) == [a \in 0 .. heads * hd - 1 |-> <<"x", a>>]
TurnedOnce(buffer, hd, avx2, k) ==
    RotateFrom(buffer, ((k - 1) \div RotSteps(hd, avx2)) * hd, RotHalf(hd),
               RotTurn(hd, avx2, (k - 1) % RotSteps(hd, avx2)),
               TurnRounding(hd, avx2, (k - 1) % RotSteps(hd, avx2)))
RotRec(f, heads, hd, avx2, n) ==
    f = [k \in 0 .. n |-> IF k = 0 THEN Unturned(heads, hd) ELSE TurnedOnce(f[k - 1], hd, avx2, k)]

(* There is such a sequence of buffers.                                      *)
LEMMA RotExists ==
    ASSUME NEW heads, NEW hd, NEW avx2, NEW n \in Nat
    PROVE  \E f : RotRec(f, heads, hd, avx2, n)
  <1> DEFINE Missing == {k \in Nat : ~ \E f : RotRec(f, heads, hd, avx2, k)}
  <1> SUFFICES ASSUME Missing # {} PROVE FALSE
    OBVIOUS
  <1>1. PICK m \in Missing : \A k \in Missing : m <= k
    BY Least
  <1>2. m # 0
    <2>1. PICK f : f = [k \in 0 .. 0 |-> Unturned(heads, hd)]
      OBVIOUS
    <2>2. RotRec(f, heads, hd, avx2, 0)
      BY <2>1 DEF RotRec
    <2> QED BY <2>2
  <1>3. m - 1 \in Nat /\ m - 1 \notin Missing
    BY <1>1, <1>2
  <1>4. PICK f : RotRec(f, heads, hd, avx2, m - 1)
    BY <1>3
  <1>5. \A k \in 0 .. m - 1 : f[k] = IF k = 0 THEN Unturned(heads, hd)
                                     ELSE TurnedOnce(f[k - 1], hd, avx2, k)
    BY <1>4 DEF RotRec
  <1> DEFINE g == [k \in 0 .. m |-> IF k <= m - 1 THEN f[k] ELSE TurnedOnce(f[k - 1], hd, avx2, k)]
  <1>6. \A k \in 0 .. m : g[k] = IF k = 0 THEN Unturned(heads, hd)
                                 ELSE TurnedOnce(g[k - 1], hd, avx2, k)
    <2> TAKE k \in 0 .. m
    <2>1. k # 0 => k - 1 \in 0 .. m /\ k - 1 <= m - 1 /\ g[k - 1] = f[k - 1]
      BY <1>1
    <2>2. CASE k <= m - 1
      <3>1. g[k] = f[k] /\ k \in 0 .. m - 1
        BY <1>1, <2>2
      <3> QED BY <1>5, <2>1, <3>1
    <2>3. CASE ~ (k <= m - 1)
      <3>1. g[k] = TurnedOnce(f[k - 1], hd, avx2, k)
        BY <2>3
      <3>2. k # 0
        BY <1>1, <1>2, <2>3
      <3>3. g[k - 1] = f[k - 1]
        BY <2>1, <3>2
      <3> HIDE DEF g
      <3> QED BY <3>1, <3>2, <3>3
    <2> QED BY <2>2, <2>3
  <1>7. PICK h : h = g
    OBVIOUS
  <1>8. h = [k \in 0 .. m |-> h[k]]
    BY <1>7
  <1>9. \A k \in 0 .. m : h[k] = IF k = 0 THEN Unturned(heads, hd)
                                 ELSE TurnedOnce(h[k - 1], hd, avx2, k)
    BY <1>6, <1>7
  <1>10. RotRec(h, heads, hd, avx2, m)
    BY <1>8, <1>9 DEF RotRec
  <1> QED BY <1>1, <1>10

(* Element o of head h, when it turns, and into what.                        *)
IndexOf(hd, o) == IF o < RotHalf(hd) THEN o ELSE o - RotHalf(hd)
TimeOf(hd, avx2, h, o) == h * RotSteps(hd, avx2) + TurnOf(hd, avx2, IndexOf(hd, o))
Rotated(hd, avx2, o, a) ==
    IF o < RotHalf(hd)
    THEN <<"cos-sin", RotRounding(hd, avx2, o), o, <<"x", a>>, <<"x", a + RotHalf(hd)>>>>
    ELSE <<"cos+sin", RotRounding(hd, avx2, o - RotHalf(hd)), o - RotHalf(hd),
           <<"x", a>>, <<"x", a - RotHalf(hd)>>>>
AfterTurns(hd, avx2, n, h, o, a) ==
    IF TimeOf(hd, avx2, h, o) < n THEN Rotated(hd, avx2, o, a) ELSE <<"x", a>>

(* A turn of head hh finds element o of head h where its own lies.           *)
LEMMA OwnHead ==
    ASSUME NEW hd \in Nat \ {0}, NEW h \in Nat, NEW hh \in Nat, NEW o \in 0 .. hd - 1,
           NEW x \in 0 .. hd - 1, NEW a, a = h * hd + o, NEW base, base = hh * hd
    PROVE  a - base = x <=> h = hh /\ o = x
  <1>1. a \in Nat /\ base \in Nat
    BY AddressOf
  <1>2. a - base = x => a = base + x
    BY <1>1
  <1>3. h * hd + o = hh * hd + x => h = hh /\ o = x
    BY BlocksApart
  <1>4. h = hh /\ o = x => a = base + x
    OBVIOUS
  <1>5. a = base + x => a - base = x
    BY <1>1
  <1> QED BY <1>2, <1>3, <1>4, <1>5

(* Element o of head h is at a; turn m is of the head that starts at base,   *)
(* and of the indices I there.                                               *)
Lies(a, hd, h, o) == a = h * hd + o
Turns(hd, avx2, m, base, I) ==
    /\ base = (m \div RotSteps(hd, avx2)) * hd
    /\ I = RotTurn(hd, avx2, m % RotSteps(hd, avx2))

(* The time tells head and turn.                                             *)
LEMMA TimeTells ==
    ASSUME NEW s \in Nat \ {0}, NEW h \in Nat, NEW t \in 0 .. s - 1, NEW m \in Nat,
           NEW x, Lies(x, s, h, t)
    PROVE  x = m <=> m \div s = h /\ m % s = t
  <1>0. x = h * s + t
    BY DEF Lies
  <1>1. x = m => m \div s = h /\ m % s = t
    BY <1>0, AddressOf
  <1>2. m \div s \in Nat /\ m % s \in 0 .. s - 1 /\ m = (m \div s) * s + (m % s)
    BY Blocks
  <1>3. m \div s = h /\ m % s = t => x = m
    BY <1>0, <1>2
  <1> QED BY <1>1, <1>3

(* An index of a half has a time.                                            *)
LEMMA IndexFacts ==
    ASSUME NEW hd \in Nat, hd > 0, hd % 2 = 0, NEW avx2, NEW o \in 0 .. hd - 1
    PROVE  /\ IndexOf(hd, o) \in 0 .. RotHalf(hd) - 1
           /\ TurnOf(hd, avx2, IndexOf(hd, o)) \in 0 .. RotSteps(hd, avx2) - 1
           /\ o < RotHalf(hd) => o + RotHalf(hd) \in 0 .. hd - 1 /\ IndexOf(hd, o + RotHalf(hd)) = IndexOf(hd, o)
           /\ ~ (o < RotHalf(hd)) => o - RotHalf(hd) \in 0 .. hd - 1 /\ IndexOf(hd, o - RotHalf(hd)) = IndexOf(hd, o)
  <1>1. PICK f \in Nat \ {0} : f = RotHalf(hd) /\ hd = f + f
    BY RotFacts
  <1>2. IndexOf(hd, o) \in 0 .. f - 1
    BY <1>1 DEF IndexOf
  <1>3. TurnOf(hd, avx2, IndexOf(hd, o)) \in 0 .. RotSteps(hd, avx2) - 1
    BY <1>1, <1>2, TurnFacts
  <1>4. o < f => o + f \in 0 .. hd - 1 /\ IndexOf(hd, o + f) = IndexOf(hd, o)
    BY <1>1 DEF IndexOf
  <1>5. ~ (o < f) => o - f \in 0 .. hd - 1 /\ IndexOf(hd, o - f) = IndexOf(hd, o)
    BY <1>1 DEF IndexOf
  <1> QED BY <1>1, <1>2, <1>3, <1>4, <1>5

(* Which elements a turn rotates: those whose time it is.                    *)
LEMMA TurnsOwn ==
    ASSUME NEW hd \in Nat, hd > 0, hd % 2 = 0, NEW avx2, NEW h \in Nat, NEW o \in 0 .. hd - 1,
           NEW m \in Nat, NEW a, Lies(a, hd, h, o), NEW base, NEW I, Turns(hd, avx2, m, base, I)
    PROVE  /\ a - base \in I <=> o < RotHalf(hd) /\ TimeOf(hd, avx2, h, o) = m
           /\ a - base \in I => a - base = o
           /\ a - base - RotHalf(hd) \in I
                <=> ~ (o < RotHalf(hd)) /\ TimeOf(hd, avx2, h, o) = m
           /\ a - base - RotHalf(hd) \in I => a - base - RotHalf(hd) = o - RotHalf(hd)
  <1>1. PICK f \in Nat \ {0} : f = RotHalf(hd) /\ hd = f + f
    BY RotFacts
  <1>2. PICK s \in Nat \ {0} : s = RotSteps(hd, avx2)
    BY RotFacts
  <1>3. PICK hh \in Nat, k \in 0 .. s - 1 : hh = m \div s /\ k = m % s
    <2>1. m \div s \in Nat /\ m % s \in 0 .. s - 1
      BY Blocks
    <2> QED BY <2>1
  <1>4. PICK i \in 0 .. f - 1 : i = IndexOf(hd, o)
    BY <1>1, IndexFacts
  <1>5. PICK t \in 0 .. s - 1 : t = TurnOf(hd, avx2, i)
    BY <1>2, <1>4, IndexFacts
  <1>6. TimeOf(hd, avx2, h, o) = m <=> hh = h /\ k = t
    <2>1. TimeOf(hd, avx2, h, o) = h * s + t
      BY <1>2, <1>4, <1>5 DEF TimeOf
    <2>2. PICK x : x = h * s + t
      OBVIOUS
    <2>3. x = m <=> m \div s = h /\ m % s = t
      <3>1. Lies(x, s, h, t)
        BY <2>2 DEF Lies
      <3> QED BY <3>1, TimeTells
    <2> QED BY <1>3, <2>1, <2>2, <2>3
  <1>7. \A x \in Int : x \in I <=> x \in 0 .. f - 1 /\ TurnOf(hd, avx2, x) = k
    BY <1>1, <1>2, <1>3, TurnFacts DEF Turns
  <1>8. a \in Nat /\ base \in Nat /\ base = hh * hd
    <2>1. hd \in Nat \ {0}
      OBVIOUS
    <2>2. a \in Nat
      BY <2>1, AddressOf DEF Lies
    <2>3. base = hh * hd
      BY <1>2, <1>3 DEF Turns
    <2>4. hh * hd \in Nat
      OBVIOUS
    <2> QED BY <2>2, <2>3, <2>4
  <1>9. \A x \in 0 .. hd - 1 : a - base = x <=> h = hh /\ o = x
    BY <1>8, OwnHead DEF Lies
  <1>10. a - base \in I <=> o < f /\ hh = h /\ k = t
    <2>1. ASSUME a - base \in I PROVE o < f /\ hh = h /\ k = t /\ a - base = o
      <3>1. PICK x \in 0 .. f - 1 : x = a - base /\ TurnOf(hd, avx2, x) = k
        BY <1>7, <1>8, <2>1
      <3>2. x \in 0 .. hd - 1
        BY <1>1
      <3>3. h = hh /\ o = x
        BY <1>9, <3>1, <3>2
      <3>4. i = o /\ o < f
        BY <1>1, <1>4, <3>1, <3>3 DEF IndexOf
      <3> QED BY <1>5, <3>1, <3>3, <3>4
    <2>2. ASSUME o < f, hh = h, k = t PROVE a - base \in I
      <3>1. a - base = o
        BY <1>9, <2>2
      <3>2. i = o
        BY <1>1, <1>4, <2>2 DEF IndexOf
      <3> QED BY <1>5, <1>7, <2>2, <3>1, <3>2
    <2> QED BY <2>1, <2>2
  <1>11. a - base \in I => a - base = o
    BY <1>9, <1>10
  <1>12. a - base - f \in I <=> ~ (o < f) /\ hh = h /\ k = t
    <2>1. ASSUME a - base - f \in I PROVE ~ (o < f) /\ hh = h /\ k = t
      <3>1. PICK x \in 0 .. f - 1 : x = a - base - f /\ TurnOf(hd, avx2, x) = k
        BY <1>7, <1>8, <2>1
      <3>2. PICK y \in 0 .. hd - 1 : y = x + f
        BY <1>1
      <3>3. a - base = y
        BY <1>8, <3>1, <3>2
      <3>4. h = hh /\ o = y
        BY <1>9, <3>3
      <3>5. i = x /\ ~ (o < f)
        <4>1. ~ (o < f) /\ o - f = x
          BY <3>2, <3>4
        <4>2. IndexOf(hd, o) = o - f
          BY <1>1, <4>1 DEF IndexOf
        <4> QED BY <1>4, <4>1, <4>2
      <3> QED BY <1>5, <3>1, <3>4, <3>5
    <2>2. ASSUME ~ (o < f), hh = h, k = t PROVE a - base - f \in I
      <3>1. a - base = o
        BY <1>9, <2>2
      <3>2. i = o - f
        BY <1>1, <1>4, <2>2 DEF IndexOf
      <3>3. a - base - f = i
        BY <3>1, <3>2
      <3> QED BY <1>5, <1>7, <2>2, <3>3
    <2> QED BY <2>1, <2>2
  <1>13. a - base - f \in I => a - base - f = o - f
    BY <1>9, <1>12
  <1> QED BY <1>1, <1>6, <1>10, <1>11, <1>12, <1>13

(* The turn an element is rotated in rounds as its index does.               *)
LEMMA RoundsOwn ==
    ASSUME NEW hd \in Nat, hd > 0, hd % 2 = 0, NEW avx2, NEW h \in Nat, NEW o \in 0 .. hd - 1,
           NEW m \in Nat, TimeOf(hd, avx2, h, o) = m
    PROVE  TurnRounding(hd, avx2, m % RotSteps(hd, avx2)) = RotRounding(hd, avx2, IndexOf(hd, o))
  <1>1. PICK s \in Nat \ {0} : s = RotSteps(hd, avx2)
    BY RotFacts
  <1>2. PICK i \in 0 .. RotHalf(hd) - 1 : i = IndexOf(hd, o)
    BY IndexFacts
  <1>3. PICK t \in 0 .. s - 1 : t = TurnOf(hd, avx2, i)
    BY <1>1, <1>2, IndexFacts
  <1>4. Lies(m, s, h, t)
    BY <1>1, <1>2, <1>3 DEF TimeOf, Lies
  <1>5. m % s = t
    BY <1>4, TimeTells
  <1>6. TurnRounding(hd, avx2, t) = RotRounding(hd, avx2, i)
    BY <1>3, TurnRounds
  <1> QED BY <1>1, <1>2, <1>5, <1>6

(* A buffer in the middle of a rotation: what was due is turned.             *)
Halfway(buffer, heads, hd, avx2, n) ==
    /\ DOMAIN buffer = 0 .. heads * hd - 1
    /\ \A h \in 0 .. heads - 1, o \in 0 .. hd - 1 :
          \A a : a = h * hd + o => buffer[a] = AfterTurns(hd, avx2, n, h, o, a)

(* A turn rotates what is due, from the values before the rotation.          *)
LEMMA TurnedFurther ==
    ASSUME NEW heads \in Nat, NEW hd \in Nat, hd > 0, hd % 2 = 0, NEW avx2,
           NEW n \in Nat, NEW m \in Nat, n = m + 1,
           NEW buffer, Halfway(buffer, heads, hd, avx2, m)
    PROVE  Halfway(TurnedOnce(buffer, hd, avx2, n), heads, hd, avx2, n)
  <1>1. PICK f \in Nat \ {0} : f = RotHalf(hd) /\ hd = f + f
    BY RotFacts
  <1>2. PICK base : base = (m \div RotSteps(hd, avx2)) * hd
    OBVIOUS
  <1>3. PICK I : I = RotTurn(hd, avx2, m % RotSteps(hd, avx2))
    OBVIOUS
  <1>4. n - 1 = m
    OBVIOUS
  <1>12. PICK w : w = TurnRounding(hd, avx2, m % RotSteps(hd, avx2))
    OBVIOUS
  <1>5. TurnedOnce(buffer, hd, avx2, n) = RotateFrom(buffer, base, f, I, w)
    BY <1>1, <1>2, <1>3, <1>4, <1>12 DEF TurnedOnce
  <1>6. PICK b : b = RotateFrom(buffer, base, f, I, w)
    OBVIOUS
  <1>7. PICK N : N = 0 .. heads * hd - 1
    OBVIOUS
  <1>8. DOMAIN buffer = N /\ DOMAIN b = N
    BY <1>6, <1>7 DEF RotateFrom, Halfway
  <1>9. \A a \in N :
           b[a] = IF a - base \in I THEN <<"cos-sin", w, a - base, buffer[a], buffer[a + f]>>
                  ELSE IF a - base - f \in I
                  THEN <<"cos+sin", w, a - base - f, buffer[a], buffer[a - f]>>
                  ELSE buffer[a]
    BY <1>6, <1>8 DEF RotateFrom
  <1>10. ASSUME NEW h \in 0 .. heads - 1, NEW o \in 0 .. hd - 1, NEW a, a = h * hd + o
         PROVE  b[a] = AfterTurns(hd, avx2, n, h, o, a)
    <2>1. h * hd + o \in N
      <3>1. hd \in Nat \ {0}
        OBVIOUS
      <3>2. \A x \in 0 .. heads - 1, y \in 0 .. hd - 1 : x * hd + y \in 0 .. heads * hd - 1
        BY <3>1, BlocksCover
      <3> QED BY <1>7, <3>2
    <2>2. a \in N /\ a \in Nat
      <3>1. hd \in Nat \ {0} /\ h \in Nat
        OBVIOUS
      <3>2. a \in Nat
        BY <1>10, <3>1, AddressOf
      <3> QED BY <1>10, <2>1, <3>2
    <2>3. buffer[a] = AfterTurns(hd, avx2, m, h, o, a)
      BY <1>10 DEF Halfway
    <2>4. /\ a - base \in I <=> o < f /\ TimeOf(hd, avx2, h, o) = m
          /\ a - base \in I => a - base = o
          /\ a - base - f \in I <=> ~ (o < f) /\ TimeOf(hd, avx2, h, o) = m
          /\ a - base - f \in I => a - base - f = o - f
      <3>1. h \in Nat
        OBVIOUS
      <3>2. /\ a - base \in I <=> o < RotHalf(hd) /\ TimeOf(hd, avx2, h, o) = m
            /\ a - base \in I => a - base = o
            /\ a - base - RotHalf(hd) \in I
                 <=> ~ (o < RotHalf(hd)) /\ TimeOf(hd, avx2, h, o) = m
            /\ a - base - RotHalf(hd) \in I => a - base - RotHalf(hd) = o - RotHalf(hd)
        <4>1. Lies(a, hd, h, o) /\ Turns(hd, avx2, m, base, I)
          BY <1>2, <1>3, <1>10 DEF Lies, Turns
        <4> QED BY <3>1, <4>1, TurnsOwn
      <3> QED BY <1>1, <3>2
    <2>5. PICK T \in Nat : T = TimeOf(hd, avx2, h, o)
      <3>1. PICK s \in Nat \ {0} : s = RotSteps(hd, avx2)
        BY RotFacts
      <3>2. PICK t \in 0 .. s - 1 : t = TurnOf(hd, avx2, IndexOf(hd, o))
        BY <3>1, IndexFacts
      <3>3. h * s + t \in Nat
        <4>1. h \in Nat
          OBVIOUS
        <4> QED BY <4>1, AddressOf
      <3> QED BY <3>1, <3>2, <3>3 DEF TimeOf
    <2>6. T = m => buffer[a] = <<"x", a>>
      BY <2>3, <2>5 DEF AfterTurns
    <2>10. T = m => w = RotRounding(hd, avx2, IndexOf(hd, o))
      <3> SUFFICES ASSUME T = m
                   PROVE  w = RotRounding(hd, avx2, IndexOf(hd, o))
        OBVIOUS
      <3>1. h \in Nat /\ TimeOf(hd, avx2, h, o) = m
        BY <2>5
      <3>2. TurnRounding(hd, avx2, m % RotSteps(hd, avx2)) = RotRounding(hd, avx2, IndexOf(hd, o))
        BY <3>1, RoundsOwn
      <3> QED BY <1>12, <3>2
    <2>7. CASE T = m /\ o < f
      <3>0. w = RotRounding(hd, avx2, o)
        BY <1>1, <2>7, <2>10 DEF IndexOf
      <3>1. b[a] = <<"cos-sin", w, o, <<"x", a>>, buffer[a + f]>>
        BY <1>9, <2>2, <2>4, <2>5, <2>6, <2>7
      <3>2. PICK y \in 0 .. hd - 1 : y = o + f /\ IndexOf(hd, y) = IndexOf(hd, o)
        BY <1>1, <2>7, IndexFacts
      <3>3. TimeOf(hd, avx2, h, y) = m
        BY <2>5, <2>7, <3>2 DEF TimeOf
      <3>4. a + f = h * hd + y
        <4>1. h * hd \in Nat
          OBVIOUS
        <4> QED BY <1>10, <3>2, <4>1
      <3>5. buffer[a + f] = AfterTurns(hd, avx2, m, h, y, a + f)
        BY <3>4 DEF Halfway
      <3>6. buffer[a + f] = <<"x", a + f>>
        BY <3>3, <3>5 DEF AfterTurns
      <3>7. AfterTurns(hd, avx2, n, h, o, a) = Rotated(hd, avx2, o, a)
        BY <2>5, <2>7 DEF AfterTurns
      <3> QED BY <1>1, <2>7, <3>0, <3>1, <3>6, <3>7 DEF Rotated
    <2>8. CASE T = m /\ ~ (o < f)
      <3>0. w = RotRounding(hd, avx2, o - f)
        BY <1>1, <2>8, <2>10 DEF IndexOf
      <3>1. b[a] = <<"cos+sin", w, o - f, <<"x", a>>, buffer[a - f]>>
        BY <1>9, <2>2, <2>4, <2>5, <2>6, <2>8
      <3>2. PICK y \in 0 .. hd - 1 : y = o - f /\ IndexOf(hd, y) = IndexOf(hd, o)
        BY <1>1, <2>8, IndexFacts
      <3>3. TimeOf(hd, avx2, h, y) = m
        BY <2>5, <2>8, <3>2 DEF TimeOf
      <3>4. a - f = h * hd + y
        <4>1. h * hd \in Nat
          OBVIOUS
        <4> QED BY <1>10, <3>2, <4>1
      <3>5. buffer[a - f] = AfterTurns(hd, avx2, m, h, y, a - f)
        BY <3>4 DEF Halfway
      <3>6. buffer[a - f] = <<"x", a - f>>
        BY <3>3, <3>5 DEF AfterTurns
      <3>7. AfterTurns(hd, avx2, n, h, o, a) = Rotated(hd, avx2, o, a)
        BY <2>5, <2>8 DEF AfterTurns
      <3> QED BY <1>1, <2>8, <3>0, <3>1, <3>6, <3>7 DEF Rotated
    <2>9. CASE T # m
      <3>1. b[a] = buffer[a]
        BY <1>9, <2>2, <2>4, <2>5, <2>9
      <3>2. T < n <=> T < m
        BY <2>9
      <3> QED BY <2>3, <2>5, <3>1, <3>2 DEF AfterTurns
    <2> QED BY <2>7, <2>8, <2>9
  <1>11. Halfway(b, heads, hd, avx2, n)
    BY <1>7, <1>8, <1>10 DEF Halfway
  <1> QED BY <1>5, <1>6, <1>11

(* After all turns every element is turned.                                  *)
LEMMA HeadsTurned ==
    ASSUME NEW heads \in Nat, NEW hd \in Nat, hd > 0, hd % 2 = 0, NEW avx2
    PROVE  Halfway(RotateHeads(heads, hd, avx2), heads, hd, avx2, heads * RotSteps(hd, avx2))
  <1>1. PICK s \in Nat \ {0} : s = RotSteps(hd, avx2)
    BY RotFacts
  <1>2. PICK n \in Nat : n = heads * s
    <2>1. heads * s \in Nat
      OBVIOUS
    <2> QED BY <2>1
  <1>3. PICK f : f = CHOOSE g : RotRec(g, heads, hd, avx2, n)
    OBVIOUS
  <1>4. RotRec(f, heads, hd, avx2, n)
    BY <1>3, RotExists
  <1>5. RotateHeads(heads, hd, avx2) = f[n]
    BY <1>1, <1>2, <1>3 DEF RotateHeads, RotRec, RotSteps, RotBody, RotHalf, RotTurn, Unturned, TurnedOnce,
      TurnRounding
  <1> DEFINE Good == {k \in 0 .. n : Halfway(f[k], heads, hd, avx2, k)}
  <1>6. 0 \in Good
    <2>1. f[0] = Unturned(heads, hd)
      BY <1>4 DEF RotRec
    <2>2. PICK b : b = Unturned(heads, hd)
      OBVIOUS
    <2>3. PICK N : N = 0 .. heads * hd - 1
      OBVIOUS
    <2>4. b = [a \in N |-> <<"x", a>>]
      BY <2>2, <2>3 DEF Unturned
    <2>5. ASSUME NEW h \in 0 .. heads - 1, NEW o \in 0 .. hd - 1, NEW a, a = h * hd + o
          PROVE  b[a] = AfterTurns(hd, avx2, 0, h, o, a)
      <3>1. a \in N
        <4>1. hd \in Nat \ {0}
          OBVIOUS
        <4>2. \A x \in 0 .. heads - 1, y \in 0 .. hd - 1 : x * hd + y \in 0 .. heads * hd - 1
          BY <4>1, BlocksCover
        <4> QED BY <2>3, <2>5, <4>2
      <3>2. PICK t \in 0 .. s - 1 : t = TurnOf(hd, avx2, IndexOf(hd, o))
        BY <1>1, IndexFacts
      <3>3. h * s + t \in Nat
        <4>1. h \in Nat
          OBVIOUS
        <4> QED BY <4>1, AddressOf
      <3>4. ~ (TimeOf(hd, avx2, h, o) < 0)
        BY <1>1, <3>2, <3>3 DEF TimeOf
      <3> QED BY <2>4, <3>1, <3>4 DEF AfterTurns
    <2>6. DOMAIN b = 0 .. heads * hd - 1
      BY <2>3, <2>4
    <2>7. Halfway(b, heads, hd, avx2, 0)
      BY <2>5, <2>6 DEF Halfway
    <2> QED BY <2>1, <2>2, <2>7
  <1>7. ASSUME NEW k \in 1 .. n, k - 1 \in Good PROVE k \in Good
    <2>1. f[k] = TurnedOnce(f[k - 1], hd, avx2, k)
      BY <1>4 DEF RotRec
    <2>2. PICK m \in Nat : m = k - 1 /\ k = m + 1
      OBVIOUS
    <2>3. PICK b : b = f[m]
      OBVIOUS
    <2>4. Halfway(b, heads, hd, avx2, m)
      BY <1>7, <2>2, <2>3
    <2>5. k \in Nat
      OBVIOUS
    <2>6. Halfway(TurnedOnce(b, hd, avx2, k), heads, hd, avx2, k)
      BY <2>2, <2>4, <2>5, TurnedFurther
    <2> QED BY <2>1, <2>2, <2>3, <2>6
  <1>8. \A k \in 0 .. n : k \in Good
    <2> HIDE DEF Good
    <2> QED BY <1>6, <1>7, Climb
  <1>9. Halfway(f[n], heads, hd, avx2, n)
    BY <1>8
  <1> QED BY <1>1, <1>2, <1>5, <1>9

(* The second half of LoopExact, of what a call computed.                    *)
TurnedExactly(c, R) ==
    LET half == c.headDim \div 2
        rounding(i) == IF c.headDim % Lanes = 0 /\ c.avx2 /\ i < (half \div Lanes) * Lanes
                       THEN "fused" ELSE "separate"
    IN  \A r \in R :
          LET i == r.at % c.headDim
          IN  r.term = IF i < half
                       THEN <<"cos-sin", rounding(i), i, <<"x", r.at>>, <<"x", r.at + half>>>>
                       ELSE <<"cos+sin", rounding(i - half), i - half,
                              <<"x", r.at>>, <<"x", r.at - half>>>>

(* A rotation is its formula.                                                *)
LEMMA RopeIsExact ==
    ASSUME NEW c \in VectorCalls, c.op = "rope"
    PROVE  TurnedExactly(c, Computed(c))
  <1>1. PICK heads \in Nat, hd \in Nat, avx2 \in BOOLEAN : /\ heads = c.heads /\ hd = c.headDim /\ avx2 = c.avx2
                                            /\ hd > 0 /\ hd % 2 = 0
    BY VectorKernelsAssumption
  <1>2. PICK b : b = RotateHeads(heads, hd, avx2)
    OBVIOUS
  <1>3. PICK s \in Nat \ {0} : s = RotSteps(hd, avx2)
    BY <1>1, RotFacts
  <1>4. PICK n : n = heads * s
    OBVIOUS
  <1>5. Halfway(b, heads, hd, avx2, n)
    <2>1. Halfway(RotateHeads(heads, hd, avx2), heads, hd, avx2, heads * RotSteps(hd, avx2))
      BY <1>1, HeadsTurned
    <2> QED BY <1>2, <1>3, <1>4, <2>1
  <1>6. Computed(c) = { [to |-> "output", at |-> a, term |-> b[a]] : a \in DOMAIN b }
    BY <1>1, <1>2 DEF Computed
  <1>7. hd \in Nat \ {0}
    BY <1>1
  <1>8. ASSUME NEW r \in Computed(c)
        PROVE  r.term = Rotated(hd, avx2, r.at % hd, r.at)
    <2>1. PICK a \in DOMAIN b : r = [to |-> "output", at |-> a, term |-> b[a]]
      BY <1>6
    <2>2. a \in 0 .. heads * hd - 1
      BY <1>5 DEF Halfway
    <2>3. PICK h \in 0 .. heads - 1, o \in 0 .. hd - 1 : a = h * hd + o
      <3>1. \A x \in 0 .. heads * hd - 1 : \E h \in 0 .. heads - 1, o \in 0 .. hd - 1 : x = h * hd + o
        BY <1>7, BlocksCover
      <3> QED BY <2>2, <3>1
    <2>4. h \in Nat
      OBVIOUS
    <2>5. a % hd = o
      BY <1>7, <2>3, <2>4, AddressOf
    <2>6. b[a] = AfterTurns(hd, avx2, n, h, o, a)
      BY <1>5, <2>3 DEF Halfway
    <2>7. PICK t \in 0 .. s - 1 : t = TurnOf(hd, avx2, IndexOf(hd, o))
      BY <1>1, <1>3, IndexFacts
    <2>8. TimeOf(hd, avx2, h, o) = h * s + t
      BY <1>3, <2>7 DEF TimeOf
    <2>9. h * s + t < heads * s
      <3>1. \A x \in 0 .. heads - 1, y \in 0 .. s - 1 : x * s + y \in 0 .. heads * s - 1
        BY BlocksCover
      <3>2. h * s + t \in 0 .. heads * s - 1
        BY <3>1
      <3>3. PICK z \in Nat : z = heads * s
        <4>1. heads * s \in Nat
          OBVIOUS
        <4> QED BY <4>1
      <3> QED BY <3>2, <3>3
    <2>10. TimeOf(hd, avx2, h, o) < n
      BY <1>4, <2>8, <2>9
    <2>11. b[a] = Rotated(hd, avx2, o, a)
      BY <2>6, <2>10 DEF AfterTurns
    <2> QED BY <2>1, <2>5, <2>11
  <1> QED BY <1>1, <1>8 DEF TurnedExactly, Rotated, RotHalf, RotRounding

(* What the loop of a call leaves is its formula, whatever the length, the   *)
(* number of heads and their size, with AVX2 or without.                     *)
THEOREM ExactLoops == VectorInit /\ [][VectorNext]_vectorVars => []LoopExact
  <1>1. VectorInit => AttentionInv /\ LoopInv
    BY DEF VectorInit, AttentionInv, Attending, LoopInv, Looping
  <1>2. AttentionInv /\ LoopInv /\ [VectorNext]_vectorVars => (AttentionInv /\ LoopInv)'
    BY VectorNextInv, LoopNext
  <1>3. LoopInv => LoopExact
    <2> SUFFICES ASSUME LoopInv PROVE SweepExact /\ RopeExact
      BY DEF LoopExact
    <2>1. ASSUME vector # Idle, vector.op \notin {"decode", "batch", "rope"}
          PROVE  SweptExactly(vector, result)
      <3>1. PICK c : c = vector
        OBVIOUS
      <3>2. c \in VectorCalls /\ result = Computed(c)
        BY <2>1, <3>1 DEF LoopInv, Looping
      <3> QED BY <2>1, <3>1, <3>2, SweepIsExact
    <2>2. SweepExact
      BY <2>1 DEF SweepExact, SweptExactly, SumWhole, SummedOf, InBody, RoundedAt
    <2>3. ASSUME vector # Idle, vector.op = "rope" PROVE TurnedExactly(vector, result)
      <3>1. PICK c : c = vector
        OBVIOUS
      <3>2. c \in VectorCalls /\ result = Computed(c)
        BY <2>3, <3>1 DEF LoopInv, Looping
      <3> QED BY <2>3, <3>1, <3>2, RopeIsExact
    <2>4. RopeExact
      BY <2>3 DEF RopeExact, TurnedExactly, InBody
    <2> QED BY <2>2, <2>4
  <1> QED BY <1>1, <1>2, <1>3, PTL

=============================================================================
