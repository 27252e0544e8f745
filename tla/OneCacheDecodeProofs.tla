------------------------ MODULE OneCacheDecodeProofs ------------------------
(***************************************************************************)
(* Proofs about OneCacheDecode, for any prompt, window, model and draft    *)
(* length, with either drafter.                                            *)
(*                                                                         *)
(* The layers a draft pass runs are ahead of the others while a step is    *)
(* under way, and what they hold there is nothing the whole model would    *)
(* compute.  The invariant is that the layers are level, and coherent, up  *)
(* to the watermark of the layers that only the whole model writes: a pass *)
(* of the whole model happens exactly there and overwrites what a draft    *)
(* pass left.                                                              *)
(***************************************************************************)
EXTENDS OneCacheDecode, KVCacheProofs, FiniteSetTheorems, WellFoundedInduction

(* The line of a state, position by position. *)
LineLen ==
    CASE pc \in {"draft", "verify", "judge"} -> Len(tokens) + Len(drafts)
      [] pc = "emit"                         -> Len(tokens) + Len(out) - taken
      [] OTHER                               -> Len(tokens)

LineAt(p) ==
    IF p < Len(tokens) THEN tokens[p + 1]
    ELSE IF pc = "emit" THEN out[taken + p - Len(tokens) + 1]
    ELSE drafts[p - Len(tokens) + 1]

LineBefore(p) == [q \in 0 .. p - 1 |-> LineAt(q)]

(* The first n entries of a cache were computed from the line. *)
Follows(c, n) == \A p \in 0 .. n - 1 : p < LineLen => c.data[p] = LineBefore(p + 1)

Types ==
    /\ drafter \in Drafters
    /\ tokens \in Seq(Token) /\ Len(tokens) >= 1
    /\ generated \in Nat
    /\ pos \in Nat
    /\ CacheType(draftKV, MaxCtx) /\ {"filled", "data"} \subseteq DOMAIN draftKV
    /\ CacheType(restKV, MaxCtx) /\ {"filled", "data"} \subseteq DOMAIN restKV
    /\ pc \in {"prefill", "loop", "single", "draft", "verify", "judge", "emit", "done"}
    /\ drafts \in Seq(Token)
    /\ draftProbs \in Seq([Token -> Nat])
    /\ verified \in Nat
    /\ out \in Seq(Token)
    /\ taken \in 0 .. Len(out)

Level ==
    /\ restKV.filled <= draftKV.filled
    /\ Follows(draftKV, restKV.filled)
    /\ Follows(restKV, restKV.filled)

PrefillInv ==
    pc = "prefill" =>
        /\ Len(tokens) <= MaxCtx
        /\ pos <= Len(tokens) - 1
        /\ draftKV.filled = pos /\ restKV.filled = pos

PosInv == pc # "prefill" => pos = Len(tokens) - 1

StepInv == pc \in {"single", "draft", "verify", "judge"} => WantsMore /\ taken = 0

SingleInv ==
    pc = "single" => draftKV.filled = pos /\ restKV.filled = pos /\ out = <<>>

(* What a draft pass reads is the line, with the marks taken off. *)
DraftInv ==
    pc = "draft" =>
        /\ drafter = "layers"
        /\ Len(drafts) < Budget
        /\ Len(draftProbs) = Len(drafts)
        /\ draftKV.filled = pos + Len(drafts) /\ restKV.filled = pos
        /\ \A q \in 0 .. draftKV.filled - 1 : Plain(draftKV.data[q][q]) = LineAt(q)
        /\ verified = 0 /\ out = <<>>

DraftsInv ==
    pc \in {"verify", "judge"} =>
        /\ Len(drafts) \in 1 .. Budget
        /\ drafter = "layers" => Len(draftProbs) = Len(drafts)

VerifyInv ==
    pc = "verify" =>
        /\ restKV.filled = pos + verified
        /\ verified <= Len(drafts) /\ out = <<>>

JudgeInv ==
    pc = "judge" =>
        /\ restKV.filled = pos + Len(drafts) + 1
        /\ Len(out) <= Len(drafts)
        /\ \A i \in 1 .. Len(out) : out[i] = drafts[i]

EmitInv ==
    pc = "emit" =>
        /\ Len(out) >= 1
        /\ restKV.filled = pos - taken + Len(out)
        /\ draftKV.filled = restKV.filled
        /\ restKV.filled <= MaxCtx

LoopInv ==
    pc = "loop" /\ WantsMore => draftKV.filled = pos /\ restKV.filled = pos

Control ==
    /\ PrefillInv /\ PosInv /\ StepInv /\ SingleInv /\ DraftInv /\ DraftsInv
    /\ VerifyInv /\ JudgeInv /\ EmitInv /\ LoopInv

IInv == Types /\ Level /\ Control

(* Every token that is settled but not committed yet is one the target model *)
(* can emit after the line before it.                                        *)
SettledLen ==
    CASE pc = "judge" -> Len(tokens) + Len(out)
      [] pc = "emit"  -> LineLen
      [] OTHER        -> Len(tokens)

OnlyPossible ==
    \A p \in Len(tokens) .. SettledLen - 1 :
        LineAt(p) \in Sampled(TargetProb(LineBefore(p)))

-----------------------------------------------------------------------------
LEMMA ConstantFacts ==
    /\ Token \subseteq Nat /\ 0 \in Token
    /\ MaxCtx \in Nat \ {0} /\ MaxTokens \in Nat \ {0} /\ K \in Nat \ {0}
    /\ MinNgram \in Nat \ {0} /\ MaxNgram \in Nat
    /\ Drafters \subseteq {"lookup", "layers"}
    /\ \A s \in Prompts : s \in Seq(Token) /\ Len(s) \in 1 .. MaxCtx
  BY OneCacheAssumption

LEMMA BudgetFacts ==
    ASSUME Types, pos < MaxCtx
    PROVE  Budget \in Nat /\ Budget <= MaxCtx - pos - 1
  BY ConstantFacts DEF Types, Budget, Lesser

LEMMA LineFacts ==
    ASSUME Types
    PROVE  /\ LineLen \in Nat
           /\ Line = [p \in 0 .. LineLen - 1 |-> LineAt(p)]
  <1> USE DEF Types
  <1> DEFINE ahead == CASE pc \in {"draft", "verify", "judge"} -> drafts
                        [] pc = "emit" -> SubSeq(out, taken + 1, Len(out))
                        [] OTHER -> <<>>
             s     == tokens \o ahead
  <1>1. Line = [p \in 0 .. Len(s) - 1 |-> s[p + 1]]
    BY DEF Line
  <1>2. CASE pc = "emit"
    <2> DEFINE rest == SubSeq(out, taken + 1, Len(out))
    <2>1. /\ rest \in Seq(Token) /\ Len(rest) = Len(out) - taken
          /\ \A i \in 1 .. Len(rest) : rest[i] = out[taken + i]
      OBVIOUS
    <2>2. s = tokens \o rest
      BY <1>2
    <2>3. /\ tokens \in Seq(Token) /\ out \in Seq(Token) /\ taken \in 0 .. Len(out)
          /\ Len(tokens) \in Nat /\ Len(out) \in Nat
      OBVIOUS
    <2>4. LineLen = Len(tokens) + Len(out) - taken
      BY <1>2 DEF LineLen
    <2> HIDE DEF rest, s
    <2>5. /\ Len(s) = LineLen /\ LineLen \in Nat
          /\ \A p \in 0 .. LineLen - 1 : s[p + 1] = LineAt(p)
      <3>1. Len(s) = LineLen /\ LineLen \in Nat
        BY ONLY <2>1, <2>2, <2>3, <2>4
      <3>2. ASSUME NEW p \in 0 .. LineLen - 1 PROVE s[p + 1] = LineAt(p)
        <4>1. CASE p < Len(tokens)
          BY <2>1, <2>2, <3>1, <4>1 DEF LineAt
        <4>2. CASE p >= Len(tokens)
          <5> DEFINE i == p + 1 - Len(tokens)
          <5>1. i \in 1 .. Len(rest) /\ taken + i = taken + p - Len(tokens) + 1
            BY ONLY <2>1, <2>3, <2>4, <4>2, p \in 0 .. LineLen - 1
          <5>2. s[p + 1] = rest[i]
            BY <2>1, <2>2, <4>2, <5>1
          <5>3. LineAt(p) = out[taken + i]
            BY <1>2, <4>2, <5>1, <2>3 DEF LineAt
          <5>4. rest[i] = out[taken + i]
            BY ONLY <2>1, <5>1
          <5> QED BY <5>2, <5>3, <5>4
        <4> QED BY <3>1, <4>1, <4>2
      <3> QED BY <3>1, <3>2
    <2> QED BY <1>1, <2>5
  <1>3. CASE pc \in {"draft", "verify", "judge"}
    <2>1. s = tokens \o drafts
      BY <1>3
    <2> HIDE DEF s
    <2>2. /\ Len(s) = LineLen /\ LineLen \in Nat
          /\ \A p \in 0 .. LineLen - 1 : s[p + 1] = LineAt(p)
      <3>1. Len(s) = LineLen /\ LineLen \in Nat
        BY <1>3, <2>1 DEF LineLen
      <3>2. ASSUME NEW p \in 0 .. LineLen - 1 PROVE s[p + 1] = LineAt(p)
        <4>1. CASE p < Len(tokens)
          BY <2>1, <3>1, <4>1 DEF LineAt
        <4>2. CASE p >= Len(tokens)
          <5> DEFINE i == p + 1 - Len(tokens)
          <5>1. i \in 1 .. Len(drafts) /\ i = p - Len(tokens) + 1
            BY <1>3, <4>2 DEF LineLen
          <5>2. s[p + 1] = drafts[i]
            BY <2>1, <4>2, <5>1
          <5> QED BY <1>3, <4>2, <5>1, <5>2 DEF LineAt
        <4> QED BY <3>1, <4>1, <4>2
      <3> QED BY <3>1, <3>2
    <2> QED BY <1>1, <2>2
  <1>4. CASE pc \notin {"emit", "draft", "verify", "judge"}
    <2>1. s = tokens \o <<>>
      BY <1>4
    <2> HIDE DEF s
    <2>2. /\ Len(s) = LineLen /\ LineLen \in Nat
          /\ \A p \in 0 .. LineLen - 1 : s[p + 1] = LineAt(p)
      BY <1>4, <2>1 DEF LineLen, LineAt
    <2> QED BY <1>1, <2>2
  <1> QED BY <1>2, <1>3, <1>4

(* Every position of the line holds a token. *)
LEMMA LineTokens ==
    ASSUME Types, NEW p \in 0 .. LineLen - 1
    PROVE  LineAt(p) \in Token
  <1> USE DEF Types
  <1>1. CASE p < Len(tokens)
    BY <1>1 DEF LineAt
  <1>2. CASE p >= Len(tokens) /\ pc = "emit"
    <2>1. taken + p - Len(tokens) + 1 \in 1 .. Len(out)
      BY <1>2 DEF LineLen
    <2> QED BY <1>2, <2>1 DEF LineAt
  <1>3. CASE p >= Len(tokens) /\ pc # "emit"
    <2>1. p - Len(tokens) + 1 \in 1 .. Len(drafts)
      BY <1>3 DEF LineLen
    <2> QED BY <1>3, <2>1 DEF LineAt
  <1> QED BY <1>1, <1>2, <1>3, LineFacts

LEMMA SameBefore ==
    ASSUME NEW n \in Nat, \A q \in 0 .. n - 1 : LineAt(q)' = LineAt(q),
           NEW p \in 0 .. n
    PROVE  LineBefore(p)' = LineBefore(p)
  BY DEF LineBefore

(* A cache that follows one line follows the next, as far as they agree. *)
LEMMA KeepsFollowing ==
    ASSUME NEW c, NEW n \in Nat, NEW k \in Nat, LineLen \in Nat, LineLen' \in Nat,
           k <= LineLen, n <= k \/ LineLen' <= k,
           \A q \in 0 .. k - 1 : LineAt(q)' = LineAt(q),
           Follows(c, n)
    PROVE  \A p \in 0 .. n - 1 : p < LineLen' => c.data[p] = LineBefore(p + 1)'
  <1> SUFFICES ASSUME NEW p \in 0 .. n - 1, p < LineLen'
               PROVE  c.data[p] = LineBefore(p + 1)'
    OBVIOUS
  <1>1. p + 1 \in 0 .. k /\ p < LineLen
    OBVIOUS
  <1>2. LineBefore(p + 1)' = LineBefore(p + 1)
    <2>1. PICK r : r = p + 1
      OBVIOUS
    <2> QED BY <1>1, <2>1, SameBefore
  <1> QED BY <1>1, <1>2 DEF Follows

(* A pass of the whole model at the watermark of the layers only it writes    *)
(* sees the line, whatever a draft pass left at that position and beyond.     *)
LEMMA SeenIsLine ==
    ASSUME NEW at \in Nat, at < LineLen, LineLen \in Nat,
           Follows(draftKV, at), Follows(restKV, at), NEW t, t = LineAt(at)
    PROVE  Seen(at, t) = LineBefore(at + 1)
  <1>1. ASSUME NEW q \in 0 .. at - 1
        PROVE  draftKV.data[q][q] = LineAt(q) /\ restKV.data[q][q] = LineAt(q)
    <2>1. draftKV.data[q] = LineBefore(q + 1) /\ restKV.data[q] = LineBefore(q + 1)
      BY DEF Follows
    <2>2. LineBefore(q + 1)[q] = LineAt(q)
      BY DEF LineBefore
    <2> QED BY <2>1, <2>2
  <1> QED BY <1>1 DEF Seen, LineBefore

(* It moves that watermark by one, leaves no layer behind it, and what every  *)
(* layer holds up to it was computed from the line.                           *)
LEMMA FullPassFacts ==
    ASSUME Types, Level, NEW at \in Nat, at < MaxCtx, restKV.filled = at,
           at < LineLen, NEW t, t = LineAt(at), FullPass(at, t)
    PROVE  /\ CacheType(draftKV', MaxCtx) /\ {"filled", "data"} \subseteq DOMAIN draftKV'
           /\ CacheType(restKV', MaxCtx) /\ {"filled", "data"} \subseteq DOMAIN restKV'
           /\ restKV'.filled = at + 1
           /\ draftKV'.filled = IF draftKV.filled <= at THEN at + 1 ELSE draftKV.filled
           /\ Follows(draftKV', at + 1) /\ Follows(restKV', at + 1)
  <1> DEFINE e == Seen(at, t)
  <1>1. /\ draftKV' = Store(draftKV, at, MaxCtx, e)
        /\ restKV' = Store(restKV, at, MaxCtx, e)
    BY DEF FullPass
  <1>2. /\ CacheType(draftKV, MaxCtx) /\ CacheType(restKV, MaxCtx) /\ MaxCtx \in Nat
        /\ at <= draftKV.filled /\ draftKV.filled \in Nat
        /\ Follows(draftKV, at) /\ Follows(restKV, at) /\ LineLen \in Nat
    BY ConstantFacts, LineFacts DEF Types, Level, CacheType
  <1>3. e = LineBefore(at + 1)
    BY <1>2, SeenIsLine
  <1> HIDE DEF e
  <1>4. /\ CacheType(draftKV', MaxCtx) /\ {"filled", "data"} \subseteq DOMAIN draftKV'
        /\ draftKV'.filled = IF draftKV.filled <= at THEN at + 1 ELSE draftKV.filled
        /\ draftKV'.data[at] = e
        /\ \A p \in 0 .. draftKV.filled - 1 : p # at => draftKV'.data[p] = draftKV.data[p]
    BY ONLY <1>1, <1>2, at \in Nat, at < MaxCtx, OverwriteFacts
  <1>5. /\ CacheType(restKV', MaxCtx) /\ {"filled", "data"} \subseteq DOMAIN restKV'
        /\ restKV'.filled = at + 1
        /\ restKV'.data[at] = e
        /\ \A p \in 0 .. restKV.filled - 1 : p # at => restKV'.data[p] = restKV.data[p]
    <2>1. at <= restKV.filled /\ restKV.filled <= at
      OBVIOUS
    <2>2. /\ CacheType(restKV', MaxCtx) /\ {"filled", "data"} \subseteq DOMAIN restKV'
          /\ restKV'.filled = IF restKV.filled <= at THEN at + 1 ELSE restKV.filled
          /\ restKV'.data[at] = e
          /\ \A p \in 0 .. restKV.filled - 1 : p # at => restKV'.data[p] = restKV.data[p]
      BY ONLY <1>1, <1>2, <2>1, at \in Nat, at < MaxCtx, OverwriteFacts
    <2> QED BY <2>1, <2>2
  <1>6. Follows(draftKV', at + 1)
    BY <1>2, <1>3, <1>4 DEF Follows
  <1>7. Follows(restKV', at + 1)
    BY <1>2, <1>3, <1>5 DEF Follows
  <1> QED BY <1>4, <1>5, <1>6, <1>7

-----------------------------------------------------------------------------
(* A non-empty set of numbers up to a bound has a largest element: the least *)
(* distance to the bound exists because intervals are finite.                *)
LEMMA MaxFacts ==
    ASSUME NEW b \in Nat, NEW S \in SUBSET (0 .. b), S # {}
    PROVE  Max(S) \in S /\ \A x \in S : x <= Max(S)
  <1> DEFINE R == StrictSubsetOrdering(Nat)
             F == FiniteSubsetsOf(Nat)
             T == {0 .. b - k : k \in S}
  <1>1. IsWellFoundedOn(R, F)
    BY FS_StrictSubsetOrderingWellFounded
  <1>2. \A k \in S : 0 .. b - k \in F
    <2> TAKE k \in S
    <2>1. 0 .. b - k \in SUBSET Nat
      OBVIOUS
    <2>2. IsFiniteSet(0 .. b - k)
      <3>1. 0 \in Int /\ b - k \in Int
        OBVIOUS
      <3> QED BY <3>1, FS_Interval
    <2> QED BY <2>1, <2>2 DEF FiniteSubsetsOf
  <1>3. T \subseteq F /\ T # {}
    BY <1>2
  <1> HIDE DEF R, F, T
  <1>4. PICK y \in T : \A z \in T : ~(<<z, y>> \in R)
    BY <1>1, <1>3, WFMin
  <1>5. PICK k \in S : y = 0 .. b - k
    BY DEF T
  <1>6. ASSUME NEW n \in S, n > k PROVE FALSE
    <2>1. 0 .. b - n \in T
      BY DEF T
    <2>2. /\ 0 .. b - n \in SUBSET Nat /\ 0 .. b - k \in SUBSET Nat
          /\ 0 .. b - n \subseteq 0 .. b - k /\ 0 .. b - n # 0 .. b - k
      <3>1. b - k \in 0 .. b - k /\ b - k \notin 0 .. b - n
        BY <1>6
      <3>2. 0 .. b - n \subseteq 0 .. b - k
        BY <1>6
      <3> QED BY <3>1, <3>2
    <2>3. <<0 .. b - n, 0 .. b - k>> \in R
      BY <2>2 DEF R, StrictSubsetOrdering
    <2> QED BY <1>4, <1>5, <2>1, <2>3
  <1>7. \A x \in S : k >= x
    BY <1>6
  <1>8. Max(S) \in S /\ \A x \in S : Max(S) >= x
    BY <1>7 DEF Max
  <1> QED BY <1>8

(* What lookup copies is a run of the text itself: tokens, and no more of     *)
(* them than it was asked for.                                                *)
LEMMA NgramDraftFacts ==
    ASSUME NEW s \in Seq(Token), Len(s) >= 1, NEW max \in Nat
    PROVE  NgramDraft(s, max) \in Seq(Token) /\ Len(NgramDraft(s, max)) <= max
  <1> DEFINE len        == Len(s)
             suffix(n)  == SubSeq(s, len - n + 1, len)
             starts(n)  == {i \in 1 .. len - n : SubSeq(s, i, i + n - 1) = suffix(n)}
             lengths    == {n \in MinNgram .. Lesser(MaxNgram, len - 1) : starts(n) # {}}
             longest    == Max(lengths)
             from       == Max(starts(longest)) + longest
             to         == Lesser(from + max - 1, len)
  <1>1. NgramDraft(s, max) = IF max = 0 \/ lengths = {} THEN <<>>
                             ELSE SubSeq(s, from, to)
    BY DEF NgramDraft
  <1>2. lengths \subseteq 0 .. len /\ len \in Nat
    BY ConstantFacts DEF Lesser
  <1>3. \A n \in lengths : starts(n) # {}
    OBVIOUS
  <1>4. \A n \in Nat : starts(n) \subseteq 1 .. len - n
    OBVIOUS
  <1> HIDE DEF lengths, starts
  <1>5. CASE max = 0 \/ lengths = {}
    <2>1. NgramDraft(s, max) = <<>>
      BY ONLY <1>1, <1>5
    <2> QED BY <2>1
  <1>6. CASE ~(max = 0 \/ lengths = {})
    <2>1. longest \in lengths
      BY <1>2, <1>6, MaxFacts
    <2> HIDE DEF longest
    <2>2. longest \in Nat /\ starts(longest) # {} /\ starts(longest) \subseteq 1 .. len - longest
      <3>1. longest \in Nat
        BY <1>2, <2>1
      <3> QED BY <1>3, <1>4, <2>1, <3>1
    <2>3. starts(longest) \subseteq 0 .. len
      BY <1>2, <2>2
    <2>4. Max(starts(longest)) \in 1 .. len - longest
      BY <1>2, <2>2, <2>3, MaxFacts
    <2>5. /\ from \in 1 .. len /\ to \in Nat /\ to <= len
          /\ to <= from + max - 1 /\ from <= to
      BY <1>2, <1>6, <2>2, <2>4 DEF Lesser
    <2>6. NgramDraft(s, max) = SubSeq(s, from, to)
      BY ONLY <1>1, <1>6
    <2> HIDE DEF from, to
    <2>7. SubSeq(s, from, to) \in Seq(Token) /\ Len(SubSeq(s, from, to)) = to - from + 1
      BY <1>2, <2>5
    <2> QED BY <1>2, <2>5, <2>6, <2>7
  <1> QED BY <1>5, <1>6

-----------------------------------------------------------------------------
(* The layers stay level when the caches follow the line before the step and *)
(* the line after it agrees as far as they are filled or as it goes.         *)
LEMMA LevelKept ==
    ASSUME NEW k \in Nat, LineLen \in Nat, LineLen' \in Nat, k <= LineLen,
           \A q \in 0 .. k - 1 : LineAt(q)' = LineAt(q),
           NEW n \in Nat, restKV'.filled = n, n <= draftKV'.filled,
           n <= k \/ LineLen' <= k,
           Follows(draftKV', n), Follows(restKV', n)
    PROVE  Level'
  <1>1. /\ \A p \in 0 .. n - 1 : p < LineLen' => draftKV'.data[p] = LineBefore(p + 1)'
        /\ \A p \in 0 .. n - 1 : p < LineLen' => restKV'.data[p] = LineBefore(p + 1)'
    BY KeepsFollowing
  <1> QED BY <1>1 DEF Level, Follows

(* ... in particular when neither changes. *)
LEMMA LevelSame ==
    ASSUME Types, Level, UNCHANGED caches, LineLen' = LineLen,
           \A q \in 0 .. LineLen - 1 : LineAt(q)' = LineAt(q)
    PROVE  Level'
  <1>1. LineLen \in Nat /\ draftKV' = draftKV /\ restKV' = restKV
    BY LineFacts DEF caches
  <1>2. PICK n \in Nat : n = restKV.filled
    BY DEF Types, CacheType
  <1>3. n <= draftKV.filled /\ Follows(draftKV, n) /\ Follows(restKV, n)
    BY <1>2 DEF Level
  <1> QED BY <1>1, <1>2, <1>3, LevelKept

LEMMA InitInv == Init => IInv
  <1> SUFFICES ASSUME Init PROVE IInv
    OBVIOUS
  <1> USE ConstantFacts DEF Init
  <1>1. /\ CacheType(draftKV, MaxCtx) /\ draftKV.filled = 0
        /\ CacheType(restKV, MaxCtx) /\ restKV.filled = 0
    BY NewCacheFacts
  <1>2. {"filled", "data"} \subseteq DOMAIN draftKV /\ {"filled", "data"} \subseteq DOMAIN restKV
    BY DEF NewCache
  <1>3. Types
    BY <1>1, <1>2 DEF Types
  <1>4. Level
    BY <1>1 DEF Level, Follows
  <1>5. Control
    BY <1>1 DEF Control, PrefillInv, PosInv, StepInv, SingleInv, DraftInv, DraftsInv,
                VerifyInv, JudgeInv, EmitInv, LoopInv
  <1> QED BY <1>3, <1>4, <1>5 DEF IInv

LEMMA PrefillStepInv == IInv /\ Prefill => IInv'
  <1> SUFFICES ASSUME IInv, Prefill PROVE IInv'
    OBVIOUS
  <1>1. /\ pc = "prefill" /\ Len(tokens) <= MaxCtx /\ pos <= Len(tokens) - 1
        /\ draftKV.filled = pos /\ restKV.filled = pos
        /\ pos \in Nat /\ tokens \in Seq(Token) /\ MaxCtx \in Nat
        /\ Types /\ Level
        /\ UNCHANGED <<drafter, tokens, generated, step>>
    BY ConstantFacts DEF IInv, Types, Control, PrefillInv, Prefill
  <1>2. CASE pos = Len(tokens) - 1
    <2>1. pc' = "loop" /\ UNCHANGED <<pos, caches>>
      BY <1>1, <1>2 DEF Prefill
    <2>2. LineLen' = LineLen /\ \A q \in 0 .. LineLen - 1 : LineAt(q)' = LineAt(q)
      BY <1>1, <2>1 DEF LineLen, LineAt
    <2>3. Level'
      BY <1>1, <2>1, <2>2, LevelSame
    <2>4. Types'
      BY <1>1, <2>1 DEF Types, step, caches
    <2>5. Control'
      BY <1>1, <1>2, <2>1
         DEF Control, PrefillInv, PosInv, StepInv, SingleInv, DraftInv, DraftsInv,
             VerifyInv, JudgeInv, EmitInv, LoopInv, caches
    <2> QED BY <2>3, <2>4, <2>5 DEF IInv
  <1>3. CASE pos # Len(tokens) - 1
    <2> DEFINE t == tokens[pos + 1]
    <2>1. pos < MaxCtx /\ FullPassAllowed(pos)
      BY <1>1, <1>3 DEF FullPassAllowed, StoreAllowed
    <2>2. FullPass(pos, t) /\ pos' = pos + 1 /\ pc' = pc
      BY <1>1, <1>3, <2>1 DEF Prefill
    <2>3. pos < LineLen /\ t = LineAt(pos) /\ LineLen \in Nat
      BY <1>1, <1>3 DEF LineLen, LineAt
    <2>4. /\ CacheType(draftKV', MaxCtx) /\ {"filled", "data"} \subseteq DOMAIN draftKV'
          /\ CacheType(restKV', MaxCtx) /\ {"filled", "data"} \subseteq DOMAIN restKV'
          /\ restKV'.filled = pos + 1 /\ draftKV'.filled = pos + 1
          /\ Follows(draftKV', pos + 1) /\ Follows(restKV', pos + 1)
      <3> HIDE DEF t
      <3> QED BY <1>1, <2>1, <2>2, <2>3, FullPassFacts
    <2>5. Types'
      BY <1>1, <2>2, <2>4 DEF Types, step
    <2>6. LineLen' = LineLen /\ \A q \in 0 .. LineLen - 1 : LineAt(q)' = LineAt(q)
      BY <1>1, <2>2 DEF LineLen, LineAt
    <2>7. Level'
      <3>1. PICK n \in Nat : n = pos + 1
        BY <1>1
      <3>2. n <= LineLen
        BY <3>1, <2>3, <1>1
      <3> QED BY <2>3, <2>4, <2>6, <3>1, <3>2, LevelKept
    <2>8. Control'
      BY <1>1, <1>3, <2>2, <2>4
         DEF Control, PrefillInv, PosInv, StepInv, SingleInv, DraftInv, DraftsInv,
             VerifyInv, JudgeInv, EmitInv, LoopInv
    <2> QED BY <2>5, <2>7, <2>8 DEF IInv
  <1> QED BY <1>2, <1>3

LEMMA LoopExitInv == IInv /\ LoopExit => IInv'
  <1> SUFFICES ASSUME IInv, LoopExit PROVE IInv'
    OBVIOUS
  <1> USE DEF IInv, LoopExit
  <1>1. Types'
    BY DEF Types, text, caches, step
  <1>2. LineLen' = LineLen /\ \A q \in 0 .. LineLen - 1 : LineAt(q)' = LineAt(q)
    BY DEF LineLen, LineAt, text
  <1>3. Level'
    BY <1>2, LevelSame
  <1>4. Control'
    BY DEF Control, PrefillInv, PosInv, StepInv, SingleInv, DraftInv, DraftsInv,
           VerifyInv, JudgeInv, EmitInv, LoopInv, text, caches, step
  <1> QED BY <1>1, <1>3, <1>4

LEMMA BeginStepInv == IInv /\ BeginStep => IInv'
  <1> SUFFICES ASSUME IInv, BeginStep PROVE IInv'
    OBVIOUS
  <1>1. /\ pc = "loop" /\ WantsMore /\ pos < MaxCtx /\ pos = Len(tokens) - 1
        /\ pos \in Nat /\ tokens \in Seq(Token) /\ Len(tokens) >= 1
        /\ draftKV.filled = pos /\ restKV.filled = pos
        /\ Types /\ Level /\ drafter \in {"lookup", "layers"}
        /\ UNCHANGED <<drafter, text, caches>>
        /\ draftProbs' = <<>> /\ verified' = 0 /\ out' = <<>> /\ taken' = 0
    BY ConstantFacts
       DEF IInv, Types, Control, LoopInv, PosInv, BeginStep, WantsMore
  <1>2. /\ drafts' = IF drafter = "lookup" THEN NgramDraft(tokens, Budget) ELSE <<>>
        /\ pc' = IF drafter = "layers"
                 THEN IF Budget = 0 THEN "single" ELSE "draft"
                 ELSE IF drafts' = <<>> THEN "single" ELSE "verify"
    <2>1. ~(pos >= MaxCtx \/ (drafter = "lookup" /\ pos + 1 # Len(tokens)))
      BY <1>1, ConstantFacts
    <2> QED BY <2>1 DEF BeginStep
  <1>3. Budget \in Nat /\ Budget' = Budget /\ WantsMore' = WantsMore
    BY <1>1, BudgetFacts DEF Budget, WantsMore, text
  <1>4. drafts' \in Seq(Token) /\ Len(drafts') <= Budget
    <2>1. CASE drafter = "lookup"
      BY <1>1, <1>2, <1>3, <2>1, NgramDraftFacts
    <2>2. CASE drafter # "lookup"
      BY <1>2, <1>3, <2>2
    <2> QED BY <2>1, <2>2
  <1>5. Types'
    BY <1>1, <1>2, <1>4 DEF Types, text, caches
  <1>6. /\ LineLen = Len(tokens) /\ LineLen' \in Nat /\ LineLen \in Nat
        /\ \A q \in 0 .. LineLen - 1 : LineAt(q)' = LineAt(q)
    <2>1. LineLen = Len(tokens) /\ LineLen \in Nat /\ tokens' = tokens
      BY <1>1 DEF LineLen, text
    <2>2. LineLen' \in Nat
      BY <1>2, <1>4, <2>1 DEF LineLen
    <2> QED BY <2>1, <2>2 DEF LineAt
  <1>7. Level'
    <2>1. /\ draftKV' = draftKV /\ restKV' = restKV
          /\ Follows(draftKV, pos) /\ Follows(restKV, pos)
      BY <1>1 DEF Level, caches
    <2> QED BY <1>1, <1>6, <2>1, LevelKept
  <1>8. \A q \in 0 .. pos - 1 : Plain(draftKV.data[q][q]) = LineAt(q)'
    <2> TAKE q \in 0 .. pos - 1
    <2>1. draftKV.data[q] = LineBefore(q + 1) /\ q < LineLen
      BY <1>1, <1>6 DEF Level, Follows
    <2>2. draftKV.data[q][q] = LineAt(q)
      BY <2>1 DEF LineBefore
    <2>3. LineAt(q) \in Nat
      <3>1. q \in 0 .. LineLen - 1
        BY <1>1, <1>6, <2>1
      <3> QED BY <1>1, <3>1, LineTokens, ConstantFacts
    <2> QED BY <1>6, <2>1, <2>2, <2>3 DEF Plain
  <1>9. DraftInv' /\ DraftsInv'
    <2>1. draftKV' = draftKV /\ restKV' = restKV /\ pos' = pos /\ drafter' = drafter
      BY <1>1 DEF text, caches
    <2>2. pc' = "draft" => drafts' = <<>> /\ drafter = "layers" /\ Budget # 0
      BY <1>1, <1>2
    <2>3. pc' \in {"verify", "judge"} => drafts' # <<>> /\ drafter = "lookup"
      BY <1>1, <1>2
    <2>4. DraftInv'
      <3>1. CASE pc' = "draft"
        <4>1. Len(drafts') = 0 /\ Len(draftProbs') = 0 /\ 0 < Budget
          BY <1>1, <1>3, <2>2, <3>1
        <4> QED BY <1>1, <1>3, <1>8, <2>1, <2>2, <3>1, <4>1 DEF DraftInv
      <3> QED BY <3>1 DEF DraftInv
    <2>5. DraftsInv'
      BY <1>3, <1>4, <2>1, <2>3 DEF DraftsInv
    <2> QED BY <2>4, <2>5
  <1>10. Control'
    BY <1>1, <1>2, <1>3, <1>4, <1>9
       DEF Control, PrefillInv, PosInv, StepInv, SingleInv,
           VerifyInv, JudgeInv, EmitInv, LoopInv, text, caches
  <1> QED BY <1>5, <1>7, <1>10 DEF IInv

LEMMA SingleStepInv == IInv /\ SingleStep => IInv'
  <1> SUFFICES ASSUME IInv, SingleStep PROVE IInv'
    OBVIOUS
  <1>1. /\ pc = "single" /\ WantsMore /\ pos < MaxCtx /\ pos = Len(tokens) - 1
        /\ pos \in Nat /\ tokens \in Seq(Token) /\ Len(tokens) >= 1 /\ taken = 0
        /\ draftKV.filled = pos /\ restKV.filled = pos
        /\ Types /\ Level
        /\ UNCHANGED <<drafter, text, drafts, draftProbs, verified, taken>>
    BY DEF IInv, Types, Control, SingleInv, PosInv, StepInv, SingleStep, WantsMore
  <1>2. FullPassAllowed(pos)
    BY <1>1 DEF FullPassAllowed, StoreAllowed
  <1>3. FullPass(pos, LastToken) /\ pc' = "emit"
    BY <1>2 DEF SingleStep
  <1>4. PICK t \in Token : out' = <<t>>
    BY <1>2 DEF SingleStep, Sampled
  <1>5. /\ LineLen = pos + 1 /\ LineAt(pos) = LastToken /\ LineLen' = pos + 2
        /\ \A q \in 0 .. pos : LineAt(q)' = LineAt(q)
    BY <1>1, <1>3, <1>4 DEF LineLen, LineAt, LastToken, text
  <1>6. /\ CacheType(draftKV', MaxCtx) /\ {"filled", "data"} \subseteq DOMAIN draftKV'
        /\ CacheType(restKV', MaxCtx) /\ {"filled", "data"} \subseteq DOMAIN restKV'
        /\ restKV'.filled = pos + 1 /\ draftKV'.filled = pos + 1
        /\ Follows(draftKV', pos + 1) /\ Follows(restKV', pos + 1)
    <2>1. pos < LineLen
      BY <1>1, <1>5
    <2>2. PICK given : given = LastToken
      OBVIOUS
    <2> QED BY <1>1, <1>3, <1>5, <2>1, <2>2, FullPassFacts
  <1>7. Types'
    BY <1>1, <1>3, <1>4, <1>6 DEF Types, text
  <1>8. Level'
    <2>1. PICK n \in Nat : n = pos + 1
      BY <1>1
    <2> QED BY <1>1, <1>5, <1>6, <2>1, LevelKept
  <1>9. EmitInv'
    <2>1. Len(out') = 1 /\ taken' = 0 /\ pos' = pos /\ MaxCtx \in Nat
      BY <1>1, <1>4, ConstantFacts DEF text
    <2>2. restKV'.filled = pos' - taken' + Len(out') /\ restKV'.filled <= MaxCtx
      BY <1>1, <1>6, <2>1
    <2> QED BY <1>6, <2>1, <2>2 DEF EmitInv
  <1>10. Control'
    BY <1>1, <1>3, <1>9
       DEF Control, PrefillInv, PosInv, StepInv, SingleInv, DraftInv, DraftsInv,
           VerifyInv, JudgeInv, LoopInv, text
  <1> QED BY <1>7, <1>8, <1>10 DEF IInv

LEMMA DraftTokenInv == IInv /\ DraftToken => IInv'
  <1> SUFFICES ASSUME IInv, DraftToken PROVE IInv'
    OBVIOUS
  <1> DEFINE n    == Len(drafts)
             t    == VerifyToken(n + 1)
  <1>0. PICK at : at = pos + n
    OBVIOUS
  <1> DEFINE seen == [q \in 0 .. at |-> IF q = at THEN t ELSE Plain(draftKV.data[q][q])]
             prob == DraftProb(seen)
             e    == Attended(draftKV, at, Skimmed(t))
  <1>1. /\ pc = "draft" /\ WantsMore /\ pos < MaxCtx /\ pos = Len(tokens) - 1
        /\ pos \in Nat /\ tokens \in Seq(Token) /\ Len(tokens) >= 1 /\ taken = 0
        /\ drafter = "layers" /\ n \in Nat /\ n < Budget /\ drafts \in Seq(Token)
        /\ Len(draftProbs) = n /\ draftProbs \in Seq([Token -> Nat])
        /\ draftKV.filled = at /\ restKV.filled = pos
        /\ CacheType(draftKV, MaxCtx) /\ MaxCtx \in Nat
        /\ verified = 0 /\ out = <<>>
        /\ Types /\ Level
    BY <1>0, ConstantFacts
       DEF IInv, Types, Control, DraftInv, PosInv, StepInv, DraftToken, WantsMore
  <1>2. /\ Budget \in Nat /\ Budget <= MaxCtx - pos - 1 /\ at \in Nat /\ at + 1 < MaxCtx
        /\ pos <= at
    BY <1>0, <1>1, BudgetFacts
  <1>3. StoreAllowed(draftKV, at, MaxCtx)
    BY <1>1, <1>2 DEF StoreAllowed
  <1>4. /\ draftKV' = Store(draftKV, at, MaxCtx, e)
        /\ draftProbs' = Append(draftProbs, prob)
        /\ pc' = IF n + 1 = Budget THEN "verify" ELSE "draft"
        /\ UNCHANGED <<drafter, text, restKV, verified, out, taken>>
    BY <1>0, <1>3 DEF DraftToken
  <1>5. PICK next \in Token : drafts' = Append(drafts, next)
    BY <1>0, <1>3 DEF DraftToken, Sampled
  <1>6. /\ Len(drafts') = n + 1 /\ drafts' \in Seq(Token)
        /\ \A i \in 1 .. n : drafts'[i] = drafts[i]
    BY <1>1, <1>5
  <1>7. /\ LineLen = at + 1 /\ LineLen' = at + 2 /\ LineAt(at) = t
    BY <1>0, <1>1, <1>4, <1>6 DEF LineLen, LineAt, VerifyToken, LastToken, text
  <1>8. ASSUME NEW q \in 0 .. at PROVE LineAt(q)' = LineAt(q)
    <2>1. CASE q < Len(tokens)
      BY <2>1, <1>4 DEF LineAt, text
    <2>2. CASE q >= Len(tokens)
      <3>1. q - Len(tokens) + 1 \in 1 .. n
        BY <2>2, <1>0, <1>1
      <3>2. pc' # "emit" /\ tokens' = tokens
        BY <1>4 DEF text
      <3> QED BY <3>1, <3>2, <2>2, <1>1, <1>6 DEF LineAt
    <2> QED BY <2>1, <2>2, <1>1
  <1>9. t \in Token /\ t \in Nat
    <2>1. at \in 0 .. LineLen - 1
      BY <1>2, <1>7
    <2> HIDE DEF t
    <2> QED BY <1>1, <1>7, <2>1, LineTokens, ConstantFacts
  <1>10. /\ CacheType(draftKV', MaxCtx) /\ {"filled", "data"} \subseteq DOMAIN draftKV'
         /\ draftKV'.filled = at + 1 /\ draftKV'.data[at] = e
         /\ \A p \in 0 .. at - 1 : draftKV'.data[p] = draftKV.data[p]
    <2>1. /\ at < MaxCtx /\ at <= draftKV.filled /\ draftKV.filled <= at /\ at \in Nat
          /\ CacheType(draftKV, MaxCtx) /\ MaxCtx \in Nat
          /\ draftKV' = Store(draftKV, at, MaxCtx, e)
      BY <1>1, <1>2, <1>4
    <2> HIDE DEF e
    <2>2. /\ CacheType(draftKV', MaxCtx) /\ {"filled", "data"} \subseteq DOMAIN draftKV'
          /\ draftKV'.filled = IF draftKV.filled <= at THEN at + 1 ELSE draftKV.filled
          /\ draftKV'.data[at] = e
          /\ \A p \in 0 .. draftKV.filled - 1 : p # at => draftKV'.data[p] = draftKV.data[p]
      BY ONLY <2>1, OverwriteFacts
    <2> QED BY <1>1, <2>1, <2>2
  <1>11. Plain(e[at]) = t
    <2>1. e[at] = Skimmed(t)
      BY <1>2 DEF Attended
    <2> HIDE DEF e, t
    <2> QED BY <1>9, <2>1 DEF Plain, Skimmed
  <1>12. prob \in [Token -> Nat]
    <2>1. \A q \in 0 .. at - 1 : Plain(draftKV.data[q][q]) = LineAt(q)
      BY <1>1 DEF IInv, Control, DraftInv
    <2>2. \A q \in 0 .. at - 1 : LineAt(q) \in Token
      BY <1>1, <1>2, <1>7, LineTokens
    <2> HIDE DEF t
    <2>3. seen \in [0 .. at -> Token]
      BY <1>2, <1>9, <2>1, <2>2
    <2>5. at + 1 \in 1 .. MaxCtx /\ (at + 1) - 1 = at
      BY <1>1, <1>2
    <2>4. seen \in Contexts
      BY <2>3, <2>5 DEF Contexts
    <2> QED BY <2>4, OneCacheAssumption DEF Weights
  <1>13. draftProbs' \in Seq([Token -> Nat]) /\ Len(draftProbs') = n + 1
    <2> HIDE DEF prob
    <2> QED BY <1>1, <1>4, <1>12
  <1>14. Types'
    BY <1>1, <1>4, <1>6, <1>10, <1>13 DEF Types, text
  <1>15. Level'
    <2>1. Follows(draftKV', pos) /\ Follows(restKV', pos) /\ restKV'.filled = pos
      BY <1>1, <1>2, <1>4, <1>10 DEF Level, Follows
    <2>2. PICK k \in Nat : k = at + 1
      BY <1>2
    <2>3. /\ k <= LineLen /\ LineLen \in Nat /\ LineLen' \in Nat
          /\ pos \in Nat /\ pos <= draftKV'.filled /\ pos <= k
          /\ \A q \in 0 .. k - 1 : LineAt(q)' = LineAt(q)
      <3>1. /\ k <= LineLen /\ LineLen \in Nat /\ LineLen' \in Nat
            /\ pos \in Nat /\ pos <= draftKV'.filled /\ pos <= k
        BY <1>1, <1>2, <1>7, <1>10, <2>2
      <3>2. \A q \in 0 .. k - 1 : LineAt(q)' = LineAt(q)
        BY <1>2, <1>8, <2>2
      <3> QED BY <3>1, <3>2
    <2> QED BY <2>1, <2>3, LevelKept
  <1>16. Budget' = Budget /\ WantsMore' = WantsMore /\ pos' = pos
    BY <1>4 DEF Budget, WantsMore, text
  <1>17. DraftInv'
    <2>1. ASSUME NEW q \in 0 .. at
          PROVE  Plain(draftKV'.data[q][q]) = LineAt(q)'
      <3>1. CASE q = at
        BY <1>7, <1>8, <1>10, <1>11, <3>1
      <3>2. CASE q # at
        <4>1. q \in 0 .. at - 1
          BY <1>2, <3>2
        <4>2. Plain(draftKV.data[q][q]) = LineAt(q)
          BY <1>1, <4>1 DEF IInv, Control, DraftInv
        <4> QED BY <1>8, <1>10, <4>1, <4>2
      <3> QED BY <3>1, <3>2
    <2>2. draftKV'.filled = pos' + Len(drafts') /\ draftKV'.filled - 1 = at
      <3>1. n \in Nat /\ pos \in Nat
        BY <1>1
      <3> HIDE DEF n
      <3> QED BY <1>0, <1>6, <1>10, <1>16, <3>1
    <2>3. pc' = "draft" => Len(drafts') < Budget'
      BY <1>1, <1>2, <1>4, <1>6, <1>16
    <2> QED BY <1>1, <1>4, <1>6, <1>13, <1>16, <2>1, <2>2, <2>3 DEF DraftInv
  <1>18. DraftsInv'
    <2>1. pc' = "verify" => Len(drafts') \in 1 .. Budget'
      BY <1>1, <1>2, <1>4, <1>6, <1>16
    <2> QED BY <1>4, <1>6, <1>13, <2>1 DEF DraftsInv
  <1>19. Control'
    BY <1>1, <1>4, <1>16, <1>17, <1>18
       DEF Control, PrefillInv, PosInv, StepInv, SingleInv,
           VerifyInv, JudgeInv, EmitInv, LoopInv, text
  <1> QED BY <1>14, <1>15, <1>19 DEF IInv

LEMMA VerifyPositionInv == IInv /\ VerifyPosition => IInv'
  <1> SUFFICES ASSUME IInv, VerifyPosition PROVE IInv'
    OBVIOUS
  <1> DEFINE n == Len(drafts)
             t == VerifyToken(verified + 1)
  <1>0. PICK at : at = pos + verified
    OBVIOUS
  <1>1. /\ pc = "verify" /\ WantsMore /\ pos < MaxCtx /\ pos = Len(tokens) - 1
        /\ pos \in Nat /\ tokens \in Seq(Token) /\ Len(tokens) >= 1 /\ taken = 0
        /\ n \in 1 .. Budget /\ drafts \in Seq(Token)
        /\ restKV.filled = at /\ restKV.filled <= draftKV.filled
        /\ verified \in Nat /\ verified <= n /\ out = <<>>
        /\ Types /\ Level
    BY <1>0
       DEF IInv, Types, Level, Control, DraftsInv, VerifyInv, PosInv, StepInv,
           VerifyPosition, WantsMore
  <1>2. /\ Budget \in Nat /\ Budget <= MaxCtx - pos - 1 /\ at \in Nat /\ at < MaxCtx
        /\ at <= pos + n
    <2>1. Budget \in Nat /\ Budget <= MaxCtx - pos - 1
      BY <1>1, BudgetFacts
    <2>2. n \in 1 .. Budget /\ MaxCtx \in Nat
      BY <1>1, ConstantFacts
    <2> HIDE DEF n
    <2> QED BY <1>0, <1>1, <2>1, <2>2
  <1>3. FullPassAllowed(at)
    BY <1>1, <1>2 DEF FullPassAllowed, StoreAllowed, Types, CacheType
  <1>4. /\ FullPass(at, t) /\ verified' = verified + 1
        /\ pc' = IF verified = n THEN "judge" ELSE "verify"
        /\ UNCHANGED <<drafter, text, drafts, draftProbs, out, taken>>
    BY <1>0, <1>3 DEF VerifyPosition
  <1>5. LineLen = pos + n + 1 /\ LineAt(at) = t
    BY <1>0, <1>1 DEF LineLen, LineAt, VerifyToken, LastToken
  <1>6. LineLen' = LineLen /\ \A q : LineAt(q)' = LineAt(q)
    BY <1>1, <1>4 DEF LineLen, LineAt, text
  <1>7. /\ CacheType(draftKV', MaxCtx) /\ {"filled", "data"} \subseteq DOMAIN draftKV'
        /\ CacheType(restKV', MaxCtx) /\ {"filled", "data"} \subseteq DOMAIN restKV'
        /\ restKV'.filled = at + 1 /\ at + 1 <= draftKV'.filled
        /\ Follows(draftKV', at + 1) /\ Follows(restKV', at + 1)
    <2>1. at < LineLen /\ draftKV.filled \in Nat
      BY <1>1, <1>2, <1>5 DEF Types, CacheType
    <2> HIDE DEF t
    <2> QED BY <1>1, <1>2, <1>4, <1>5, <2>1, FullPassFacts
  <1>8. Types'
    BY <1>1, <1>4, <1>7 DEF Types, text
  <1>9. Level'
    <2>1. PICK k \in Nat : k = at + 1
      BY <1>2
    <2>2. k <= LineLen
      BY <1>1, <1>2, <1>5, <2>1
    <2> QED BY <1>6, <1>7, <2>1, <2>2, LineFacts, <1>1, LevelKept
  <1>10. Budget' = Budget /\ WantsMore' = WantsMore /\ pos' = pos
    BY <1>4 DEF Budget, WantsMore, text
  <1>11. DraftsInv' /\ VerifyInv' /\ JudgeInv'
    <2>1. DraftsInv'
      BY <1>1, <1>4, <1>10 DEF DraftsInv, IInv, Control
    <2>2. restKV'.filled = pos' + verified' /\ out' = <<>> /\ Len(drafts') = Len(drafts)
      <3>1. verified \in Nat /\ pos \in Nat /\ at = pos + verified
        BY <1>0, <1>1
      <3> QED BY <1>1, <1>4, <1>7, <1>10, <3>1
    <2>3. VerifyInv'
      <3>1. pc' = "verify" => verified' <= Len(drafts')
        BY <1>1, <1>4, <2>2
      <3> QED BY <2>2, <3>1 DEF VerifyInv
    <2>4. JudgeInv'
      <3>1. pc' = "judge" => verified' = Len(drafts') + 1
        BY <1>1, <1>4, <2>2
      <3>2. pc' = "judge" => restKV'.filled = pos' + Len(drafts') + 1
        BY <1>1, <1>10, <2>2, <3>1
      <3> QED BY <1>1, <2>2, <3>2 DEF JudgeInv
    <2> QED BY <2>1, <2>3, <2>4
  <1>12. Control'
    BY <1>1, <1>4, <1>10, <1>11
       DEF Control, PrefillInv, PosInv, StepInv, SingleInv, DraftInv, EmitInv, LoopInv, text
  <1> QED BY <1>8, <1>9, <1>12 DEF IInv

(* What the three outcomes of a judgement start from. *)
LEMMA JudgeFacts ==
    ASSUME IInv, pc = "judge"
    PROVE  /\ pos = Len(tokens) - 1 /\ taken = 0 /\ pos \in Nat /\ WantsMore
           /\ Len(tokens) \in Nat /\ Len(tokens) >= 1
           /\ Len(drafts) \in Nat /\ Len(drafts) >= 1 /\ Len(drafts) <= Budget
           /\ Len(out) \in Nat /\ Len(out) <= Len(drafts)
           /\ restKV.filled = pos + Len(drafts) + 1
           /\ restKV.filled <= draftKV.filled /\ restKV.filled <= MaxCtx
           /\ MaxCtx \in Nat /\ draftKV.filled \in Nat
           /\ LineLen = restKV.filled
           /\ \A i \in 1 .. Len(out) : out[i] = drafts[i]
           /\ tokens \in Seq(Token) /\ drafts \in Seq(Token) /\ out \in Seq(Token)
  <1>1. /\ tokens \in Seq(Token) /\ drafts \in Seq(Token) /\ out \in Seq(Token)
        /\ pos = Len(tokens) - 1 /\ pos \in Nat /\ Len(tokens) >= 1
        /\ draftKV.filled \in Nat
    BY DEF IInv, Types, CacheType, Control, PosInv
  <1>2. /\ taken = 0 /\ WantsMore /\ Len(out) <= Len(drafts)
        /\ Len(drafts) \in 1 .. Budget
        /\ restKV.filled = pos + Len(drafts) + 1
        /\ restKV.filled <= draftKV.filled
        /\ \A i \in 1 .. Len(out) : out[i] = drafts[i]
    BY DEF IInv, Level, Control, StepInv, DraftsInv, JudgeInv
  <1>3. Budget \in Nat /\ Budget <= MaxCtx - pos - 1 /\ MaxCtx \in Nat
    BY <1>2, BudgetFacts, ConstantFacts DEF IInv, WantsMore
  <1>4. LineLen = Len(tokens) + Len(drafts)
    BY DEF LineLen
  <1> QED BY <1>1, <1>2, <1>3, <1>4

LEMMA AcceptInv == IInv /\ Accept => IInv'
  <1> SUFFICES ASSUME IInv, Accept PROVE IInv'
    OBVIOUS
  <1> DEFINE i == Len(out)
  <1>1. /\ pc = "judge" /\ pc' = "judge" /\ i < Len(drafts)
        /\ out' = Append(out, drafts[i + 1])
        /\ UNCHANGED <<drafter, text, caches, drafts, draftProbs, verified, taken>>
    BY DEF Accept
  <1>2. /\ out' \in Seq(Token) /\ Len(out') = i + 1
        /\ \A j \in 1 .. Len(out') : out'[j] = drafts[j]
    BY <1>1, JudgeFacts
  <1>3. Types'
    BY <1>1, <1>2, JudgeFacts DEF IInv, Types, text, caches
  <1>4. LineLen' = LineLen /\ \A q : LineAt(q)' = LineAt(q)
    BY <1>1 DEF LineLen, LineAt, text
  <1>5. Level'
    BY <1>1, <1>4, LevelSame DEF IInv
  <1>6. Budget' = Budget /\ WantsMore' = WantsMore
    BY <1>1 DEF Budget, WantsMore, text
  <1>7. Control'
    BY <1>1, <1>2, <1>6, JudgeFacts
       DEF IInv, Control, PrefillInv, PosInv, StepInv, SingleInv, DraftInv, DraftsInv,
           VerifyInv, JudgeInv, EmitInv, LoopInv, text, caches
  <1> QED BY <1>3, <1>5, <1>7 DEF IInv

(* The token that ends a judgement takes the place of the draft after the    *)
(* accepted ones; the line before it stays.                                  *)
LEMMA CompletesLine ==
    ASSUME IInv, pc = "judge", pc' = "emit", NEW c \in Token,
           out' = Append(out, c), UNCHANGED <<tokens, drafts, taken>>,
           NEW n, n = Len(tokens) + Len(out)
    PROVE  /\ n \in Nat /\ LineLen' = n + 1 /\ LineAt(n)' = c
           /\ \A q \in 0 .. n - 1 : LineAt(q)' = LineAt(q)
  <1>1. /\ n \in Nat /\ Len(out') = Len(out) + 1 /\ out'[Len(out) + 1] = c
        /\ \A j \in 1 .. Len(out) : out'[j] = drafts[j]
        /\ taken = 0 /\ Len(tokens) \in Nat /\ Len(out) \in Nat
    BY JudgeFacts
  <1>2. LineLen' = n + 1 /\ LineAt(n)' = c
    BY <1>1 DEF LineLen, LineAt
  <1>3. ASSUME NEW q \in 0 .. n - 1 PROVE LineAt(q)' = LineAt(q)
    <2>1. CASE q < Len(tokens)
      BY <2>1 DEF LineAt
    <2>2. CASE q >= Len(tokens)
      <3> DEFINE j == q - Len(tokens) + 1
      <3>1. j \in 1 .. Len(out) /\ taken + q - Len(tokens) + 1 = j
        BY <2>2, <1>1
      <3>2. LineAt(q) = drafts[j] /\ LineAt(q)' = out'[j]
        BY <2>2, <3>1 DEF LineAt
      <3> QED BY <3>1, <3>2, <1>1
    <2> QED BY <2>1, <2>2, <1>1
  <1> QED BY <1>1, <1>2, <1>3

(* A judgement ends with both parts cut off at what it settled, whether the  *)
(* draft layers were ahead or not.                                           *)
LEMMA JudgedInv ==
    ASSUME IInv, pc = "judge", pc' = "emit", NEW c \in Token,
           out' = Append(out, c), TruncateTo(pos + Len(out) + 1),
           UNCHANGED <<drafter, text, drafts, draftProbs, verified, taken>>
    PROVE  IInv'
  <1>1. PICK len : len = pos + Len(out) + 1
    OBVIOUS
  <1>2. /\ len \in Nat /\ len <= restKV.filled /\ len <= draftKV.filled
        /\ len = Len(tokens) + Len(out) /\ len <= MaxCtx /\ len <= LineLen
        /\ MaxCtx \in Nat /\ restKV.filled \in Nat /\ LineLen \in Nat
    BY <1>1, JudgeFacts
  <1>3. /\ LineLen' = len + 1
        /\ \A q \in 0 .. len - 1 : LineAt(q)' = LineAt(q)
    BY <1>2, CompletesLine DEF text
  <1>4. draftKV' = Truncate(draftKV, len) /\ restKV' = Truncate(restKV, len)
    BY <1>1 DEF TruncateTo
  <1>5. /\ CacheType(draftKV, MaxCtx) /\ {"filled", "data"} \subseteq DOMAIN draftKV
        /\ CacheType(restKV, MaxCtx) /\ {"filled", "data"} \subseteq DOMAIN restKV
        /\ Follows(draftKV, restKV.filled) /\ Follows(restKV, restKV.filled)
    BY DEF IInv, Types, Level
  <1>6. /\ CacheType(draftKV', MaxCtx) /\ draftKV'.filled = len
        /\ CacheType(restKV', MaxCtx) /\ restKV'.filled = len
    BY ONLY <1>2, <1>4, <1>5, TruncateBelow
  <1>7. draftKV'.data = draftKV.data /\ restKV'.data = restKV.data
    BY ONLY <1>2, <1>4, <1>5, TruncateFacts
  <1>8. /\ {"filled", "data"} \subseteq DOMAIN draftKV'
        /\ {"filled", "data"} \subseteq DOMAIN restKV'
    BY <1>4, <1>5 DEF Truncate
  <1>9. out' \in Seq(Token) /\ Len(out') = Len(out) + 1
    BY JudgeFacts
  <1>10. Types'
    BY <1>6, <1>8, <1>9, JudgeFacts DEF IInv, Types, text
  <1>11. Level'
    <2>1. Follows(draftKV', len) /\ Follows(restKV', len)
      BY <1>2, <1>5, <1>7 DEF Follows
    <2>2. LineLen' \in Nat /\ len <= draftKV'.filled
      BY <1>2, <1>3, <1>6
    <2> QED BY <1>2, <1>3, <1>6, <2>1, <2>2, LevelKept
  <1>12. EmitInv'
    <2>1. /\ pos' - taken' + Len(out') = len /\ Len(out') >= 1
      BY <1>1, <1>9, JudgeFacts DEF text
    <2> QED BY <1>2, <1>6, <2>1 DEF EmitInv
  <1>13. Control'
    BY <1>12, JudgeFacts
       DEF Control, PrefillInv, PosInv, StepInv, SingleInv, DraftInv, DraftsInv,
           VerifyInv, JudgeInv, LoopInv, text
  <1> QED BY <1>10, <1>11, <1>13 DEF IInv

LEMMA RejectInv == IInv /\ Reject => IInv'
  <1> SUFFICES ASSUME IInv, Reject PROVE IInv'
    OBVIOUS
  <1>1. PICK c \in Token : out' = Append(out, c)
    BY ConstantFacts DEF Reject, Correction, Sampled
  <1> QED BY <1>1, JudgedInv DEF Reject

LEMMA AllAcceptedInv == IInv /\ AllAccepted => IInv'
  <1> SUFFICES ASSUME IInv, AllAccepted PROVE IInv'
    OBVIOUS
  <1>1. PICK c \in Token : out' = Append(out, c)
    BY DEF AllAccepted, Sampled
  <1>2. TruncateTo(pos + Len(out) + 1)
    BY DEF AllAccepted
  <1> QED BY <1>1, <1>2, JudgedInv DEF AllAccepted

(* What the caller's loop over the new tokens starts from. *)
LEMMA EmitFacts ==
    ASSUME IInv, pc = "emit"
    PROVE  /\ pos = Len(tokens) - 1 /\ pos \in Nat
           /\ tokens \in Seq(Token) /\ out \in Seq(Token)
           /\ Len(tokens) \in Nat /\ Len(out) \in Nat /\ Len(out) >= 1
           /\ taken \in Nat /\ taken <= Len(out)
           /\ restKV.filled = pos - taken + Len(out)
           /\ draftKV.filled = restKV.filled /\ restKV.filled <= MaxCtx
           /\ LineLen = Len(tokens) + Len(out) - taken
  BY DEF IInv, Types, Control, PosInv, EmitInv, LineLen

(* Committing a token moves the border between text and new tokens, and      *)
(* leaves the line as it is.                                                 *)
LEMMA EmitTokenLine ==
    ASSUME IInv, EmitToken
    PROVE  /\ tokens' \in Seq(Token) /\ Len(tokens') = Len(tokens) + 1
           /\ LineLen' = LineLen
           /\ \A q \in 0 .. LineLen - 1 : LineAt(q)' = LineAt(q)
  <1> DEFINE t == out[taken + 1]
  <1>1. /\ pc = "emit" /\ pc' = "emit" /\ taken < Len(out)
        /\ tokens' = Append(tokens, t) /\ taken' = taken + 1 /\ out' = out
    BY DEF EmitToken
  <1>2. /\ Len(tokens) \in Nat /\ Len(out) \in Nat /\ taken \in Nat
        /\ tokens \in Seq(Token) /\ out \in Seq(Token)
        /\ LineLen = Len(tokens) + Len(out) - taken
    BY <1>1, EmitFacts
  <1>3. t \in Token
    BY ONLY <1>1, <1>2
  <1> HIDE DEF t
  <1>4. /\ tokens' \in Seq(Token) /\ Len(tokens') = Len(tokens) + 1
        /\ tokens'[Len(tokens) + 1] = t
        /\ \A i \in 1 .. Len(tokens) : tokens'[i] = tokens[i]
    BY ONLY <1>1, <1>2, <1>3
  <1>5. LineLen' = LineLen
    <2>1. LineLen' = Len(tokens') + Len(out') - taken'
      BY <1>1 DEF LineLen
    <2> QED BY ONLY <1>1, <1>2, <1>4, <2>1
  <1>6. ASSUME NEW q \in 0 .. LineLen - 1 PROVE LineAt(q)' = LineAt(q)
    <2>1. CASE q < Len(tokens)
      BY <2>1, <1>1, <1>2, <1>4 DEF LineAt
    <2>2. CASE q = Len(tokens)
      <3>1. taken + q - Len(tokens) + 1 = taken + 1
        BY <2>2, <1>2
      <3>2. LineAt(q) = t
        BY <2>2, <3>1, <1>1, <1>2 DEF LineAt, t
      <3>3. LineAt(q)' = tokens'[q + 1]
        BY <2>2, <1>1, <1>2, <1>4 DEF LineAt
      <3> QED BY <2>2, <3>2, <3>3, <1>4
    <2>3. CASE q > Len(tokens)
      <3>1. taken' + q - Len(tokens') + 1 = taken + q - Len(tokens) + 1
        BY <2>3, <1>1, <1>2, <1>4
      <3>2. LineAt(q) = out[taken + q - Len(tokens) + 1]
        BY <2>3, <1>1, <1>2 DEF LineAt
      <3>3. LineAt(q)' = out'[taken' + q - Len(tokens') + 1]
        BY <2>3, <1>1, <1>2, <1>4 DEF LineAt
      <3> QED BY <3>1, <3>2, <3>3, <1>1
    <2> QED BY <2>1, <2>2, <2>3, <1>2
  <1> QED BY <1>4, <1>5, <1>6

LEMMA EmitTokenInv == IInv /\ EmitToken => IInv'
  <1> SUFFICES ASSUME IInv, EmitToken PROVE IInv'
    OBVIOUS
  <1>1. /\ pc = "emit" /\ pc' = "emit" /\ taken < Len(out)
        /\ pos' = pos + 1 /\ generated' = generated + 1 /\ taken' = taken + 1
        /\ UNCHANGED <<drafter, caches, drafts, draftProbs, verified, out>>
    BY DEF EmitToken
  <1>2. Types'
    <2>1. generated \in Nat /\ generated' = generated + 1 /\ Len(tokens') >= 1
      BY <1>1, EmitFacts, EmitTokenLine DEF IInv, Types
    <2>2. pos' \in Nat /\ taken' \in 0 .. Len(out')
      BY <1>1, EmitFacts
    <2> QED BY <1>1, <2>1, <2>2, EmitTokenLine DEF IInv, Types, caches
  <1>3. Level'
    BY <1>1, EmitTokenLine, LevelSame DEF IInv
  <1>4. EmitInv'
    <2>1. /\ pos' - taken' + Len(out') = pos - taken + Len(out) /\ Len(out') >= 1
          /\ restKV' = restKV /\ draftKV' = draftKV
      <3>1. pos \in Nat /\ taken \in Nat /\ Len(out) \in Nat /\ Len(out) >= 1
        BY <1>1, EmitFacts
      <3> QED BY ONLY <1>1, <3>1 DEF caches
    <2> QED BY <1>1, <2>1, EmitFacts DEF EmitInv
  <1>5. pos' = Len(tokens') - 1
    BY <1>1, EmitFacts, EmitTokenLine
  <1>6. Control'
    BY <1>1, <1>4, <1>5
       DEF Control, PrefillInv, PosInv, StepInv, SingleInv, DraftInv, DraftsInv,
           VerifyInv, JudgeInv, LoopInv
  <1> QED BY <1>2, <1>3, <1>6 DEF IInv

LEMMA EmitEndsInv == IInv /\ (EmitEos \/ EmitDone) => IInv'
  <1> SUFFICES ASSUME IInv, EmitEos \/ EmitDone PROVE IInv'
    OBVIOUS
  <1>1. /\ pc = "emit" /\ pc' \in {"done", "loop"}
        /\ pc' = "loop" => taken = Len(out) \/ ~WantsMore
        /\ UNCHANGED <<drafter, text, caches, step>>
    <2>1. out # <<>>
      BY DEF IInv, Control, EmitInv, EmitEos, EmitDone
    <2> QED BY <2>1 DEF EmitEos, EmitDone
  <1>2. Types'
    BY <1>1 DEF IInv, Types, text, caches, step
  <1>3. /\ LineLen' = Len(tokens) /\ tokens' = tokens
        /\ restKV' = restKV /\ draftKV' = draftKV
    BY <1>1 DEF LineLen, text, caches
  <1>4. \A q \in 0 .. Len(tokens) - 1 : LineAt(q)' = LineAt(q)
    BY <1>3 DEF LineAt
  <1>5. Level'
    <2>1. PICK n \in Nat : n = restKV.filled
      BY DEF IInv, Types, CacheType
    <2>2. PICK k \in Nat : k = Len(tokens)
      BY <1>1, EmitFacts
    <2>3. k <= LineLen /\ LineLen \in Nat
      BY <1>1, <2>2, EmitFacts
    <2>4. n <= draftKV.filled /\ Follows(draftKV, n) /\ Follows(restKV, n)
      BY <2>1 DEF IInv, Level
    <2> QED BY <1>3, <1>4, <2>1, <2>2, <2>3, <2>4, LevelKept
  <1>6. WantsMore' = WantsMore /\ pos' = pos
    BY <1>1 DEF WantsMore, text
  <1>7. LoopInv'
    <2>1. pc' = "loop" /\ WantsMore => restKV.filled = pos /\ draftKV.filled = pos
      BY <1>1, EmitFacts
    <2> QED BY <1>3, <1>6, <2>1 DEF LoopInv
  <1>8. PosInv'
    BY <1>1, <1>3, <1>6, EmitFacts DEF PosInv
  <1>9. Control'
    BY <1>1, <1>7, <1>8
       DEF Control, PrefillInv, StepInv, SingleInv, DraftInv, DraftsInv,
           VerifyInv, JudgeInv, EmitInv
  <1> QED BY <1>2, <1>5, <1>9 DEF IInv

LEMMA StutterInv == IInv /\ UNCHANGED vars => IInv'
  <1> SUFFICES ASSUME IInv, UNCHANGED vars PROVE IInv'
    OBVIOUS
  <1> USE DEF IInv, vars, text, caches, step
  <1>1. Types'
    BY DEF Types
  <1>2. LineLen' = LineLen /\ \A q : LineAt(q)' = LineAt(q)
    BY DEF LineLen, LineAt
  <1>3. Level'
    BY <1>2, LevelSame
  <1>4. Control'
    BY <1>2 DEF Control, PrefillInv, PosInv, StepInv, SingleInv, DraftInv, DraftsInv,
           VerifyInv, JudgeInv, EmitInv, LoopInv, Budget, WantsMore
  <1> QED BY <1>1, <1>3, <1>4

LEMMA NextInv == IInv /\ [Next]_vars => IInv'
  BY PrefillStepInv, LoopExitInv, BeginStepInv, SingleStepInv, DraftTokenInv,
     VerifyPositionInv, AcceptInv, RejectInv, AllAcceptedInv, EmitTokenInv,
     EmitEndsInv, StutterInv
     DEF Next

(* The inductive invariant holds in every reachable state. *)
THEOREM Invariance == Spec => []IInv
  BY InitInv, NextInv, PTL DEF Spec

(* Neither decoder ever runs into an assertion of the cache, an error of its *)
(* own or the loop's check that a step made progress.                        *)
THEOREM NothingStuck == Spec => []NeverStuck
  <1>1. IInv => NeverStuck
    BY DEF IInv, Types, NeverStuck
  <1> QED BY Invariance, <1>1, PTL

(* What the layers that drafted and the others hold, where all are filled,   *)
(* is what the whole model computes from the text; between steps all layers  *)
(* are filled exactly up to the token the next step starts from.             *)
THEOREM LayersCoherent == Spec => []CacheCoherent
  <1>1. ASSUME IInv PROVE CacheCoherent
    <2> DEFINE whole == Lesser(draftKV.filled, restKV.filled)
               d     == [draftKV EXCEPT !.filled = whole]
               r     == [restKV EXCEPT !.filled = whole]
    <2>1. whole = restKV.filled /\ whole \in Nat
      BY <1>1 DEF IInv, Types, CacheType, Level, Lesser
    <2>2. {"filled", "data"} \subseteq DOMAIN draftKV /\ {"filled", "data"} \subseteq DOMAIN restKV
      BY <1>1 DEF IInv, Types
    <2>3. Follows(draftKV, whole) /\ Follows(restKV, whole)
      BY <1>1, <2>1 DEF IInv, Level
    <2> HIDE DEF whole
    <2>4. d.filled = whole /\ d.data = draftKV.data /\ r.filled = whole /\ r.data = restKV.data
      BY <2>2
    <2> HIDE DEF d, r
    <2>5. ASSUME NEW c, NEW e, c.filled = whole, c.data = e.data, Follows(e, whole)
          PROVE  Coherent(c, Line)
      <3> SUFFICES ASSUME NEW p \in 0 .. whole - 1, p \in DOMAIN Line
                   PROVE  c.data[p] = [q \in 0 .. p |-> Line[q]]
        BY <2>5 DEF Coherent
      <3>1. LineLen \in Nat /\ Line = [q \in 0 .. LineLen - 1 |-> LineAt(q)]
        BY <1>1, LineFacts DEF IInv
      <3>2. p \in 0 .. LineLen - 1 /\ \A q \in 0 .. p : Line[q] = LineAt(q)
        BY <3>1
      <3>3. c.data[p] = LineBefore(p + 1)
        <4>1. p < whole /\ p < LineLen
          BY <2>1, <3>1, <3>2
        <4>2. \A n \in 0 .. whole - 1 : n < LineLen => e.data[n] = LineBefore(n + 1)
          BY <2>5 DEF Follows
        <4> QED BY <2>5, <4>1, <4>2
      <3>4. LineBefore(p + 1) = [q \in 0 .. p |-> LineAt(q)]
        BY <2>1 DEF LineBefore
      <3> QED BY <3>2, <3>3, <3>4
    <2>6. Coherent(d, Line) /\ Coherent(r, Line)
      BY <2>3, <2>4, <2>5
    <2>7. pc = "loop" /\ WantsMore => draftKV.filled = pos /\ restKV.filled = pos
      BY <1>1 DEF IInv, Control, LoopInv
    <2> QED BY <2>6, <2>7 DEF CacheCoherent, whole, d, r
  <1> QED BY Invariance, <1>1, PTL

-----------------------------------------------------------------------------
RInv == IInv /\ OnlyPossible

(* A rejected draft is replaced by a token the target can emit: the residual *)
(* is positive only where the target is.                                     *)
LEMMA CorrectionPossible ==
    ASSUME ~ZeroDraw, NEW p, NEW q, q \in [Token -> Nat], p \in [Token -> Nat],
           NEW t \in Correction(p, q)
    PROVE  t \in Sampled(p)
  BY DEF Correction, Sampled

(* What is said of a draft is said of the line before it. *)
LEMMA SaidOfLine ==
    ASSUME IInv, pc = "judge", NEW i \in 0 .. Len(drafts)
    PROVE  /\ TargetSays(i) = TargetProb(LineBefore(Len(tokens) + i))
           /\ TargetSays(i) \in [Token -> Nat]
           /\ i < Len(drafts) => DraftSays(i) \in [Token -> Nat]
  <1>1. PICK p : p = pos + i
    OBVIOUS
  <1>2. /\ p \in Nat /\ p + 1 = Len(tokens) + i /\ p + 1 <= MaxCtx /\ MaxCtx \in Nat
        /\ p < LineLen /\ p < restKV.filled /\ LineLen \in Nat
    BY <1>1, JudgeFacts
  <1>3. restKV.data[p] = LineBefore(p + 1)
    <2>1. Follows(restKV, restKV.filled) /\ restKV.filled \in Nat
      BY JudgeFacts DEF IInv, Level
    <2> QED BY <1>2, <2>1 DEF Follows
  <1>4. LineBefore(p + 1) \in Contexts
    <2>1. \A q \in 0 .. p : LineAt(q) \in Token
      BY <1>2, LineTokens DEF IInv
    <2>2. LineBefore(p + 1) \in [0 .. (p + 1) - 1 -> Token] /\ p + 1 \in 1 .. MaxCtx
      BY <1>2, <2>1 DEF LineBefore
    <2> QED BY <2>2 DEF Contexts
  <1>5. TargetSays(i) = TargetProb(LineBefore(p + 1))
    BY <1>1, <1>3 DEF TargetSays
  <1>6. TargetSays(i) \in [Token -> Nat]
    BY <1>4, <1>5, OneCacheAssumption DEF Weights
  <1>7. i < Len(drafts) => DraftSays(i) \in [Token -> Nat]
    <2>1. CASE drafter = "lookup"
      <3> DEFINE w == TargetSays(i)
      <3>1. w \in [Token -> Nat]
        BY <1>6
      <3> HIDE DEF w
      <3>2. \A t : PointMass(t, w) \in [Token -> Nat]
        BY <3>1 DEF PointMass
      <3> QED BY <2>1, <3>2 DEF DraftSays, w
    <2>2. CASE drafter # "lookup"
      <3>1. drafter = "layers" /\ draftProbs \in Seq([Token -> Nat])
        BY <2>2, ConstantFacts DEF IInv, Types
      <3>2. Len(draftProbs) = Len(drafts)
        BY <3>1 DEF IInv, Control, DraftsInv
      <3>3. i < Len(drafts) => i + 1 \in 1 .. Len(draftProbs)
        BY <3>2, JudgeFacts
      <3>4. i < Len(drafts) => draftProbs[i + 1] \in [Token -> Nat]
        BY <3>1, <3>3
      <3> QED BY <3>1, <3>4 DEF DraftSays
    <2> QED BY <2>1, <2>2
  <1> QED BY <1>2, <1>5, <1>6, <1>7

LEMMA JudgedPossible ==
    ASSUME RInv, pc = "judge", pc' = "emit", UNCHANGED <<tokens, drafts, taken>>,
           NEW c \in Sampled(TargetSays(Len(out))), out' = Append(out, c)
    PROVE  OnlyPossible'
  <1>1. PICK n : n = Len(tokens) + Len(out)
    OBVIOUS
  <1>2. c \in Token
    BY DEF Sampled
  <1>3. /\ n \in Nat /\ LineLen' = n + 1 /\ LineAt(n)' = c
        /\ \A q \in 0 .. n - 1 : LineAt(q)' = LineAt(q)
    BY <1>1, <1>2, CompletesLine DEF RInv
  <1>4. SettledLen = n /\ SettledLen' = n + 1 /\ Len(tokens) \in Nat
    BY <1>1, <1>3, JudgeFacts DEF SettledLen, RInv
  <1>5. c \in Sampled(TargetProb(LineBefore(n)))
    <2>1. Len(out) \in 0 .. Len(drafts)
      BY JudgeFacts DEF RInv
    <2> QED BY <1>1, <2>1, SaidOfLine DEF RInv
  <1> SUFFICES ASSUME NEW p \in Len(tokens) .. n
               PROVE  LineAt(p)' \in Sampled(TargetProb(LineBefore(p)'))
    BY <1>3, <1>4 DEF OnlyPossible
  <1>6. LineBefore(p)' = LineBefore(p)
    BY <1>3, <1>4, SameBefore
  <1>7. CASE p = n
    BY <1>3, <1>5, <1>6, <1>7
  <1>8. CASE p # n
    <2>1. p \in Len(tokens) .. SettledLen - 1 /\ LineAt(p)' = LineAt(p)
      BY <1>3, <1>4, <1>8
    <2> QED BY <2>1, <1>6 DEF RInv, OnlyPossible
  <1> QED BY <1>7, <1>8

LEMMA SingleStepPossible == RInv /\ SingleStep => OnlyPossible'
  <1> SUFFICES ASSUME RInv, SingleStep PROVE OnlyPossible'
    OBVIOUS
  <1>1. PICK p : p = pos + 1
    OBVIOUS
  <1>2. /\ pc = "single" /\ pos < MaxCtx /\ pos = Len(tokens) - 1
        /\ pos \in Nat /\ tokens \in Seq(Token) /\ taken = 0
        /\ draftKV.filled = pos /\ restKV.filled = pos
        /\ Follows(draftKV, pos) /\ Follows(restKV, pos)
        /\ UNCHANGED <<tokens, taken>>
    BY DEF RInv, IInv, Types, Level, Control, SingleInv, PosInv, StepInv, SingleStep,
           WantsMore, text
  <1>3. FullPassAllowed(pos)
    BY <1>2 DEF FullPassAllowed, StoreAllowed
  <1>4. pc' = "emit"
    BY <1>3 DEF SingleStep
  <1>5. PICK t \in Sampled(TargetProb(Seen(pos, LastToken))) : out' = <<t>>
    BY <1>3 DEF SingleStep
  <1>6. /\ LineLen = p /\ LineAt(pos) = LastToken /\ LineLen' = p + 1
        /\ LineAt(p)' = t
        /\ \A q \in 0 .. p - 1 : LineAt(q)' = LineAt(q)
    BY <1>1, <1>2, <1>4, <1>5 DEF LineLen, LineAt, LastToken
  <1>7. Seen(pos, LastToken) = LineBefore(p)
    <2>1. pos < LineLen /\ LineLen \in Nat
      BY <1>1, <1>2, <1>6
    <2>2. Seen(pos, LastToken) = LineBefore(pos + 1)
      BY <1>2, <1>6, <2>1, SeenIsLine
    <2> QED BY <1>1, <2>2
  <1>8. SettledLen' = p + 1 /\ Len(tokens') = p
    BY <1>1, <1>2, <1>4, <1>6 DEF SettledLen
  <1>9. LineBefore(p)' = LineBefore(p)
    <2>1. p \in Nat /\ p \in 0 .. p
      BY <1>1, <1>2
    <2> QED BY <1>6, <2>1, SameBefore
  <1>10. ASSUME NEW r \in Len(tokens') .. SettledLen' - 1 PROVE r = p
    BY <1>1, <1>2, <1>8
  <1> QED BY <1>5, <1>6, <1>7, <1>9, <1>10 DEF OnlyPossible

LEMMA AcceptPossible == RInv /\ Accept => OnlyPossible'
  <1> SUFFICES ASSUME RInv, Accept PROVE OnlyPossible'
    OBVIOUS
  <1> DEFINE i == Len(out)
             n == Len(tokens) + i
  <1>1. /\ pc = "judge" /\ pc' = "judge" /\ i < Len(drafts)
        /\ CanAccept(TargetSays(i), DraftSays(i), drafts[i + 1])
        /\ out' = Append(out, drafts[i + 1])
        /\ UNCHANGED <<tokens, drafts, taken>>
    BY DEF Accept, text
  <1>2. /\ i \in 0 .. Len(drafts) /\ drafts[i + 1] \in Token /\ n \in Nat
        /\ Len(out') = i + 1 /\ Len(tokens) \in Nat
    BY <1>1, JudgeFacts DEF RInv
  <1>3. LineAt(n) = drafts[i + 1]
    BY <1>1, <1>2 DEF LineAt
  <1>4. LineAt(n) \in Sampled(TargetProb(LineBefore(n)))
    BY <1>1, <1>2, <1>3, SaidOfLine DEF CanAccept, Sampled, RInv
  <1>5. \A p : LineAt(p)' = LineAt(p) /\ LineBefore(p)' = LineBefore(p)
    BY <1>1 DEF LineAt, LineBefore
  <1>6. SettledLen = n /\ SettledLen' = n + 1
    BY <1>1, <1>2 DEF SettledLen
  <1> SUFFICES ASSUME NEW p \in Len(tokens) .. n
               PROVE  LineAt(p)' \in Sampled(TargetProb(LineBefore(p)'))
    BY <1>1, <1>2, <1>6 DEF OnlyPossible
  <1>7. p = n \/ p \in Len(tokens) .. SettledLen - 1
    BY <1>2, <1>6
  <1> QED BY <1>4, <1>5, <1>7 DEF RInv, OnlyPossible

LEMMA RejectPossible == ~ZeroDraw /\ RInv /\ Reject => OnlyPossible'
  <1> SUFFICES ASSUME ~ZeroDraw, RInv, Reject PROVE OnlyPossible'
    OBVIOUS
  <1> DEFINE i == Len(out)
  <1>1. /\ pc = "judge" /\ pc' = "emit" /\ i \in 0 .. Len(drafts) /\ i < Len(drafts)
        /\ UNCHANGED <<tokens, drafts, taken>>
    BY JudgeFacts DEF Reject, RInv, text
  <1>2. PICK c \in Correction(TargetSays(i), DraftSays(i)) : out' = Append(out, c)
    BY DEF Reject
  <1>3. TargetSays(i) \in [Token -> Nat] /\ DraftSays(i) \in [Token -> Nat]
    BY <1>1, SaidOfLine DEF RInv
  <1>4. c \in Sampled(TargetSays(i))
    BY <1>3, CorrectionPossible
  <1> QED BY <1>1, <1>2, <1>4, JudgedPossible

LEMMA AllAcceptedPossible == RInv /\ AllAccepted => OnlyPossible'
  <1> SUFFICES ASSUME RInv, AllAccepted PROVE OnlyPossible'
    OBVIOUS
  <1>1. /\ pc = "judge" /\ pc' = "emit" /\ UNCHANGED <<tokens, drafts, taken>>
        /\ \E b \in Sampled(TargetSays(Len(out))) : out' = Append(out, b)
    BY DEF AllAccepted, text
  <1> QED BY <1>1, JudgedPossible

LEMMA EmitTokenPossible == RInv /\ EmitToken => OnlyPossible'
  <1> SUFFICES ASSUME RInv, EmitToken PROVE OnlyPossible'
    OBVIOUS
  <1>1. /\ LineLen' = LineLen /\ LineLen \in Nat
        /\ \A q \in 0 .. LineLen - 1 : LineAt(q)' = LineAt(q)
        /\ Len(tokens') = Len(tokens) + 1
    BY EmitTokenLine, LineFacts DEF RInv, IInv
  <1>2. SettledLen = LineLen /\ SettledLen' = LineLen' /\ Len(tokens) \in Nat
    BY EmitFacts DEF EmitToken, SettledLen, RInv
  <1> SUFFICES ASSUME NEW p \in Len(tokens) + 1 .. LineLen - 1
               PROVE  LineAt(p)' \in Sampled(TargetProb(LineBefore(p)'))
    BY <1>1, <1>2 DEF OnlyPossible
  <1>3. LineAt(p)' = LineAt(p) /\ LineBefore(p)' = LineBefore(p)
    BY <1>1, <1>2, SameBefore
  <1>4. p \in Len(tokens) .. SettledLen - 1
    BY <1>1, <1>2
  <1> QED BY <1>3, <1>4 DEF RInv, OnlyPossible

(* Every other action ends with nothing settled ahead of the text.           *)
LEMMA NothingSettled ==
    ASSUME RInv, Prefill \/ LoopExit \/ BeginStep \/ DraftToken \/ VerifyPosition
                   \/ EmitEos \/ EmitDone
    PROVE  OnlyPossible'
  <1>1. Len(tokens') \in Nat /\ SettledLen' = Len(tokens')
    <2>1. pc = "verify" => out = <<>>
      BY DEF RInv, IInv, Control, VerifyInv
    <2>2. pc' = "judge" => out' = <<>>
      BY <2>1 DEF Prefill, LoopExit, BeginStep, DraftToken, VerifyPosition, EmitEos,
          EmitDone
    <2>3. pc' # "emit" /\ tokens' = tokens
      BY DEF Prefill, LoopExit, BeginStep, DraftToken, VerifyPosition, EmitEos,
          EmitDone, text
    <2> QED BY <2>2, <2>3 DEF SettledLen, RInv, IInv, Types
  <1> QED BY <1>1 DEF OnlyPossible

LEMMA StutterPossible == RInv /\ UNCHANGED vars => OnlyPossible'
  <1> SUFFICES ASSUME RInv, UNCHANGED vars PROVE OnlyPossible'
    OBVIOUS
  <1>1. /\ SettledLen' = SettledLen /\ tokens' = tokens
        /\ \A p : LineAt(p)' = LineAt(p) /\ LineBefore(p)' = LineBefore(p)
    BY DEF vars, text, step, SettledLen, LineLen, LineAt, LineBefore
  <1> QED BY <1>1 DEF RInv, OnlyPossible

LEMMA RInitial == Init => RInv
  <1> SUFFICES ASSUME Init PROVE RInv
    OBVIOUS
  <1>1. SettledLen = Len(tokens)
    BY DEF Init, SettledLen
  <1>2. Len(tokens) \in Nat
    BY InitInv DEF IInv, Types
  <1> QED BY <1>1, <1>2, InitInv DEF RInv, OnlyPossible

LEMMA RInductive == ~ZeroDraw /\ RInv /\ [Next]_vars => RInv'
  <1>1. IInv /\ [Next]_vars => IInv'
    BY NextInv
  <1>2. ~ZeroDraw /\ RInv /\ [Next]_vars => OnlyPossible'
    BY SingleStepPossible, AcceptPossible, RejectPossible, AllAcceptedPossible,
       EmitTokenPossible, NothingSettled, StutterPossible DEF Next
  <1> QED BY <1>1, <1>2 DEF RInv

(* One step of the decoder is one step of plain decoding, or none.           *)
LEMMA StepRefines == RInv /\ RInv' /\ [Next]_vars => [D!Next]_D!vars
  <1> SUFFICES ASSUME RInv, RInv', [Next]_vars PROVE [D!Next]_D!vars
    OBVIOUS
  <1>1. pc # "prefill" => pos = Len(tokens) - 1
    BY DEF RInv, IInv, Control, PosInv
  <1>2. D!WithinBudget <=> generated < MaxTokens /\ Len(tokens) - 1 < MaxCtx
    BY DEF D!WithinBudget
  <1>3. CASE LoopExit
    <2>1. ~D!WithinBudget
      BY <1>1, <1>2, <1>3 DEF LoopExit, WantsMore
    <2> QED BY <1>3, <2>1 DEF LoopExit, D!Next, D!OutOfBudget, text
  <1>4. ASSUME EmitToken \/ EmitEos
        PROVE  /\ D!WithinBudget
               /\ out[taken + 1] \in D!Possible(tokens)
    <2>1. pc = "emit" /\ taken < Len(out) /\ WantsMore
      BY <1>4 DEF EmitToken, EmitEos
    <2>2. D!WithinBudget
      BY <1>1, <1>2, <2>1 DEF WantsMore
    <2> DEFINE n == Len(tokens)
    <2>3. /\ n \in Nat /\ LineAt(n) = out[taken + 1] /\ n \in n .. SettledLen - 1
          /\ tokens \in Seq(Token)
      BY <2>1, EmitFacts DEF RInv, LineAt, SettledLen
    <2>4. LineAt(n) \in Sampled(TargetProb(LineBefore(n)))
      BY <2>3 DEF RInv, OnlyPossible
    <2>5. LineBefore(n) = D!ContextOf(tokens)
      BY <2>3 DEF LineBefore, LineAt, D!ContextOf
    <2> QED BY <2>2, <2>3, <2>4, <2>5 DEF Sampled, D!Possible
  <1>5. CASE EmitToken
    <2>1. D!Emit
      BY <1>4, <1>5 DEF EmitToken, D!Emit
    <2> QED BY <2>1 DEF D!Next
  <1>6. CASE EmitEos
    <2>1. D!EndOfSequence
      BY <1>4, <1>6 DEF EmitEos, D!EndOfSequence, text
    <2> QED BY <2>1 DEF D!Next
  <1>7. CASE Prefill \/ BeginStep \/ SingleStep \/ DraftToken
               \/ VerifyPosition \/ Accept \/ Reject \/ AllAccepted \/ EmitDone
    <2>1. pc \notin {"done", "failed"} /\ UNCHANGED <<tokens, generated>>
      BY <1>7
         DEF Prefill, BeginStep, SingleStep, DraftToken,
             VerifyPosition, Accept, Reject, AllAccepted, EmitDone, text
    <2>2. pc' # "failed"
      BY DEF RInv, IInv, Types
    <2>3. pc' # "done"
      BY <1>7, <2>1
         DEF Prefill, BeginStep, SingleStep, DraftToken,
             VerifyPosition, Accept, Reject, AllAccepted, EmitDone
    <2> QED BY <2>1, <2>2, <2>3 DEF D!vars
  <1>8. CASE UNCHANGED vars
    BY <1>8 DEF vars, D!vars, text
  <1> QED BY <1>3, <1>5, <1>6, <1>7, <1>8 DEF Next

(* Drafting out of the text or with some of the layers changes the speed of a *)
(* run and not what it can produce: its text is one that plain decoding could *)
(* have produced, token by token, ending for the same reasons.  The           *)
(* hypothesis excludes a random draw of exactly 0.0, for which the correction *)
(* may stop at a token of no weight.                                          *)
THEOREM Refinement == ASSUME ~ZeroDraw PROVE Spec => SequentialDecoding
  <1>1. Init => D!Init
    BY DEF Init, D!Init
  <1>2. RInv /\ [Next]_vars => RInv'
    BY RInductive
  <1>3. Spec => []RInv
    BY RInitial, <1>2, PTL DEF Spec
  <1> QED BY <1>1, <1>3, StepRefines, PTL DEF Spec, SequentialDecoding, D!Spec
=============================================================================
