-------------------------- MODULE SpecDecodeProofs --------------------------
(***************************************************************************)
(* Proofs about SpecDecode, for any prompt, windows, models and K.         *)
(*                                                                         *)
(* The invariants of SpecDecode are not inductive.  What they rest on is   *)
(* where both watermarks stand in each phase: every store of a decode      *)
(* happens exactly at a watermark, so no store can fail and none can leave *)
(* a stale entry below.  The parts of Control say so phase by phase.       *)
(*                                                                         *)
(* That the steps are those of Decode rests on OnlyPossible besides: what  *)
(* is settled and not committed yet is what the main model could sample.   *)
(***************************************************************************)
EXTENDS SpecDecode, KVCacheProofs

(* Prefill works through the prompt; both caches follow it. *)
PrefillInv ==
    pc = "prefill" =>
        /\ tokens \in Prompts
        /\ generated = 0
        /\ IF Len(tokens) > Shared THEN pos = 0 ELSE pos <= Len(tokens) - 1
        /\ draftKV.filled = pos /\ targetKV.filled = pos
        /\ drafts = <<>> /\ out = <<>> /\ taken = 0 /\ verified = 0

PosInv == pc \notin {"prefill", "failed"} => pos = Len(tokens) - 1

StepInv ==
    pc \in {"single", "draft", "verify", "judge"} =>
        /\ WantsMore
        /\ pos < Shared
        /\ taken = 0

SingleInv ==
    pc = "single" =>
        /\ Budget = 0
        /\ draftKV.filled = pos /\ targetKV.filled = pos
        /\ out = <<>>

DraftInv ==
    pc = "draft" =>
        /\ Len(drafts) < Budget
        /\ draftKV.filled = pos + Len(drafts) /\ targetKV.filled = pos
        /\ verified = 0 /\ out = <<>>

VerifyInv ==
    pc = "verify" =>
        /\ Len(drafts) = Budget /\ Budget >= 1
        /\ draftKV.filled = pos + Len(drafts)
        /\ targetKV.filled = pos + verified
        /\ verified <= Len(drafts) /\ out = <<>>

JudgeInv ==
    pc = "judge" =>
        /\ Len(drafts) = Budget /\ Budget >= 1
        /\ draftKV.filled = pos + Len(drafts)
        /\ targetKV.filled = pos + Len(drafts) + 1
        /\ Len(out) <= Len(drafts)
        /\ \A i \in 1 .. Len(out) : out[i] = drafts[i]

EmitInv ==
    pc = "emit" =>
        LET end == pos - taken + Len(out)
        IN  /\ Len(out) >= 1
            /\ targetKV.filled = end
            /\ end <= Shared
            /\ draftKV.filled = end \/ end >= Shared

LoopInv ==
    pc = "loop" /\ WantsMore /\ pos < Shared =>
        draftKV.filled = pos /\ targetKV.filled = pos

Control ==
    /\ PrefillInv /\ PosInv /\ StepInv /\ SingleInv /\ DraftInv
    /\ VerifyInv /\ JudgeInv /\ EmitInv /\ LoopInv

IInv == TypeOK /\ NoPanic /\ CacheCoherent /\ Control

-----------------------------------------------------------------------------
LEMMA ConstantFacts ==
    /\ Token \subseteq Nat /\ 0 \in Token
    /\ MaxCtx \in Nat \ {0} /\ MaxTokens \in Nat \ {0} /\ K \in Nat \ {0}
    /\ DraftWindows \subseteq Nat \ {0}
    /\ \A s \in Prompts : s \in Seq(Token) /\ Len(s) \in 1 .. MaxCtx
  BY SpecDecodeAssumption

(* The windows and the draft budget of a step. *)
LEMMA WindowFacts ==
    ASSUME TypeOK
    PROVE  /\ Shared \in Nat \ {0} /\ Shared <= MaxCtx
           /\ Shared < MaxCtx => draftMax = Shared
           /\ Budget \in Int /\ Budget <= K /\ Budget <= Shared - pos - 1
           /\ pos < Shared => Budget >= 0
           /\ pos < Shared /\ Budget = 0 => pos = Shared - 1
  BY ConstantFacts DEF TypeOK, Shared, Budget, Lesser

LEMMA InitInv == Init => IInv
  <1> SUFFICES ASSUME Init PROVE IInv
    OBVIOUS
  <1> USE ConstantFacts DEF Init
  <1>1. Shared \in Nat /\ Shared <= MaxCtx
    BY DEF Shared, Lesser
  <1>2. /\ CacheType(draftKV, Shared) /\ draftKV.filled = 0
        /\ CacheType(targetKV, MaxCtx) /\ targetKV.filled = 0
    BY <1>1, NewCacheFacts
  <1>3. TypeOK
    BY <1>2 DEF TypeOK
  <1>4. CacheCoherent
    BY <1>2 DEF CacheCoherent, Coherent
  <1>5. Control
    BY <1>2 DEF Control, PrefillInv, PosInv, StepInv, SingleInv, DraftInv,
                VerifyInv, JudgeInv, EmitInv, LoopInv
  <1> QED BY <1>3, <1>4, <1>5 DEF IInv, NoPanic

(* What is true of a line: its length and its first positions. *)
LEMMA LineFacts ==
    ASSUME TypeOK
    PROVE  /\ LineLen \in Nat
           /\ DOMAIN Line = 0 .. LineLen - 1
           /\ \A p \in 0 .. LineLen - 1 : Line[p] = LineAt(p)
  BY DEF Line, LineLen, TypeOK

(* A cache that follows one line follows the next, as far as they agree. *)
LEMMA FollowsLine ==
    ASSUME NEW c, c.filled \in Nat, NEW k \in Nat, NEW n \in Nat, NEW m \in Nat
    PROVE  /\ LineLen = n /\ LineLen' = m /\ k <= n /\ k <= m
           /\ Coherent(c, Line)
           /\ \A q \in 0 .. k - 1 : LineAt(q)' = LineAt(q)
           /\ c.filled <= k \/ m = k
           => Coherent(c, Line')
  <1> SUFFICES ASSUME LineLen = n, LineLen' = m, k <= n, k <= m,
                      Coherent(c, Line),
                      \A q \in 0 .. k - 1 : LineAt(q)' = LineAt(q),
                      c.filled <= k \/ m = k
               PROVE  Coherent(c, Line')
    OBVIOUS
  <1> DEFINE f == Line
             g == Line'
  <1>1. DOMAIN f = 0 .. n - 1 /\ DOMAIN g = 0 .. m - 1
    BY DEF Line
  <1>2. ASSUME NEW q \in 0 .. k - 1
        PROVE  q \in DOMAIN f /\ g[q] = f[q]
    <2>1. f[q] = LineAt(q) /\ q \in DOMAIN f
      BY DEF Line
    <2>2. g[q] = LineAt(q)'
      BY DEF Line
    <2>3. LineAt(q)' = LineAt(q)
      OBVIOUS
    <2> QED BY <2>1, <2>2, <2>3
  <1>3. c.filled <= k \/ DOMAIN g \subseteq 0 .. k - 1
    BY <1>1
  <1>4. Coherent(c, f)
    OBVIOUS
  <1> HIDE DEF f, g
  <1>5. Coherent(c, g)
    BY <1>2, <1>3, <1>4, CoherentTransfer
  <1> QED BY <1>5 DEF g

LEMMA PromptRefusedInv == IInv /\ PromptRefused => IInv'
  <1> SUFFICES ASSUME IInv, PromptRefused PROVE IInv'
    OBVIOUS
  <1> USE DEF IInv, PromptRefused
  <1>1. TypeOK'
    BY DEF TypeOK, Ended, Shared
  <1>2. CacheCoherent'
    BY DEF CacheCoherent, Coherent, Control, PrefillInv
  <1>3. Control'
    BY DEF Control, PrefillInv, PosInv, StepInv, SingleInv, DraftInv,
           VerifyInv, JudgeInv, EmitInv, LoopInv
  <1> QED BY <1>1, <1>2, <1>3 DEF NoPanic

LEMMA PrefillTokenInv == IInv /\ PrefillToken => IInv'
  <1> SUFFICES ASSUME IInv, PrefillToken PROVE IInv'
    OBVIOUS
  <1> USE DEF IInv
  <1> DEFINE t == tokens[pos + 1]
  <1>1. /\ pc = "prefill" /\ Len(tokens) <= Shared /\ pos < Len(tokens) - 1
        /\ draftKV.filled = pos /\ targetKV.filled = pos
        /\ pos \in Nat /\ pos < Shared /\ pos < MaxCtx
        /\ Shared \in Nat /\ MaxCtx \in Nat
        /\ CacheType(draftKV, Shared) /\ CacheType(targetKV, MaxCtx)
    BY ConstantFacts, WindowFacts DEF TypeOK, PrefillToken, Control, PrefillInv
  <1>2. StoreAllowed(draftKV, pos, Shared) /\ StoreAllowed(targetKV, pos, MaxCtx)
    BY <1>1 DEF StoreAllowed
  <1>3. /\ draftKV' = Store(draftKV, pos, Shared, Attended(draftKV, pos, t))
        /\ targetKV' = Store(targetKV, pos, MaxCtx, Attended(targetKV, pos, t))
        /\ pos' = pos + 1
        /\ UNCHANGED <<pc, tokens, generated, draftMax, drafts, verified, out, taken>>
    BY <1>2 DEF PrefillToken
  <1>4. /\ CacheType(draftKV', Shared) /\ draftKV'.filled = pos + 1
        /\ CacheType(targetKV', MaxCtx) /\ targetKV'.filled = pos + 1
    BY <1>1, <1>3, StoreFacts
  <1>5. TypeOK'
    BY <1>1, <1>3, <1>4 DEF TypeOK, Shared
  <1>6. LineLen = Len(tokens) /\ Line[pos] = t /\ Line' = Line
    BY <1>1, <1>3 DEF Line, LineLen, LineAt
  <1>7. Coherent(draftKV', Line) /\ Coherent(targetKV', Line)
    <2>1. Coherent(draftKV, Line) /\ Coherent(targetKV, Line)
      BY DEF CacheCoherent
    <2>2. 0 .. pos \subseteq DOMAIN Line /\ t = Line[pos]
      BY <1>1, <1>6, LineFacts
    <2> HIDE DEF t, IInv
    <2>3. Coherent(Store(draftKV, pos, Shared, Attended(draftKV, pos, t)), Line)
      BY <1>1, <2>1, <2>2, StoreCoherent
    <2>4. Coherent(Store(targetKV, pos, MaxCtx, Attended(targetKV, pos, t)), Line)
      BY <1>1, <2>1, <2>2, StoreCoherent
    <2> QED BY <1>3, <2>3, <2>4
  <1>8. CacheCoherent'
    BY <1>6, <1>7 DEF CacheCoherent
  <1>9. Control'
    BY <1>1, <1>3, <1>4 DEF Control, PrefillInv, PosInv, StepInv, SingleInv,
           DraftInv, VerifyInv, JudgeInv, EmitInv, LoopInv, Shared
  <1> QED BY <1>1, <1>3, <1>5, <1>8, <1>9 DEF NoPanic

LEMMA PrefillDoneInv == IInv /\ PrefillDone => IInv'
  <1> SUFFICES ASSUME IInv, PrefillDone PROVE IInv'
    OBVIOUS
  <1> USE DEF IInv, PrefillDone
  <1>1. TypeOK'
    BY DEF TypeOK, Shared
  <1>2. Line' = Line
    BY DEF Line, LineLen, LineAt
  <1>3. CacheCoherent'
    BY <1>2 DEF CacheCoherent
  <1>4. Control'
    BY DEF Control, PrefillInv, PosInv, StepInv, SingleInv, DraftInv,
           VerifyInv, JudgeInv, EmitInv, LoopInv, Shared
  <1> QED BY <1>1, <1>3, <1>4 DEF NoPanic

LEMMA LoopEndsInv == IInv /\ (LoopExit \/ StepRefused) => IInv'
  <1> SUFFICES ASSUME IInv, LoopExit \/ StepRefused PROVE IInv'
    OBVIOUS
  <1> USE DEF IInv, LoopExit, StepRefused
  <1>1. TypeOK'
    BY DEF TypeOK, Shared, Ended
  <1>2. Line' = Line
    BY DEF Line, LineLen, LineAt
  <1>3. CacheCoherent'
    BY <1>2 DEF CacheCoherent
  <1>4. Control'
    BY DEF Control, PrefillInv, PosInv, StepInv, SingleInv, DraftInv,
           VerifyInv, JudgeInv, EmitInv, LoopInv, Shared
  <1> QED BY <1>1, <1>3, <1>4 DEF NoPanic

LEMMA BeginStepInv == IInv /\ BeginStep => IInv'
  <1> SUFFICES ASSUME IInv, BeginStep PROVE IInv'
    OBVIOUS
  <1> USE DEF IInv, BeginStep
  <1>1. TypeOK'
    BY ConstantFacts DEF TypeOK, Shared
  <1>2. Line' = Line
    BY DEF Line, LineLen, LineAt, TypeOK
  <1>3. CacheCoherent'
    BY <1>2 DEF CacheCoherent
  <1>4. /\ pos < Shared /\ draftKV.filled = pos /\ targetKV.filled = pos
        /\ pos = Len(tokens) - 1 /\ pos \in Nat
    BY DEF Control, LoopInv, PosInv, TypeOK
  <1>5. Budget' = Budget /\ Shared' = Shared /\ WantsMore' = WantsMore
    BY DEF Budget, Shared, WantsMore
  <1>6. Control'
    BY <1>4, <1>5, WindowFacts
       DEF Control, PrefillInv, PosInv, StepInv, SingleInv, DraftInv,
           VerifyInv, JudgeInv, EmitInv, LoopInv
  <1> QED BY <1>1, <1>3, <1>6 DEF NoPanic

LEMMA SingleStepInv == IInv /\ SingleStep => IInv'
  <1> SUFFICES ASSUME IInv, SingleStep PROVE IInv'
    OBVIOUS
  <1> USE DEF IInv
  <1> DEFINE seen == Attended(targetKV, pos, LastToken)
  <1>1. /\ pc = "single" /\ pos = Len(tokens) - 1 /\ taken = 0
        /\ draftKV.filled = pos /\ targetKV.filled = pos
        /\ pos \in Nat /\ pos = Shared - 1 /\ pos < MaxCtx
        /\ Shared \in Nat /\ MaxCtx \in Nat
        /\ CacheType(targetKV, MaxCtx) /\ CacheType(draftKV, Shared)
    BY ConstantFacts, WindowFacts
       DEF TypeOK, SingleStep, Control, StepInv, PosInv, SingleInv
  <1>2. StoreAllowed(targetKV, pos, MaxCtx)
    BY <1>1 DEF StoreAllowed
  <1>3. /\ targetKV' = Store(targetKV, pos, MaxCtx, seen)
        /\ pc' = "emit"
        /\ UNCHANGED <<tokens, generated, pos, draftMax, draftKV, drafts,
                       verified, taken>>
    BY <1>2 DEF SingleStep
  <1>4. PICK t \in Token : out' = <<t>>
    BY <1>2 DEF SingleStep, Sampled
  <1>5. CacheType(targetKV', MaxCtx) /\ targetKV'.filled = pos + 1
    BY <1>1, <1>3, StoreFacts
  <1>6. TypeOK'
    BY <1>1, <1>3, <1>4, <1>5, ConstantFacts DEF TypeOK, Shared
  <1>7. /\ LineLen = pos + 1 /\ LineAt(pos) = LastToken /\ LineLen' = pos + 2
        /\ \A q \in 0 .. pos : LineAt(q)' = LineAt(q)
    BY <1>1, <1>3, <1>4 DEF LineLen, LineAt, LastToken, TypeOK
  <1>8. Coherent(targetKV', Line)
    BY <1>1, <1>3, <1>7, StoreCoherent DEF CacheCoherent, Line
  <1>9. Coherent(draftKV, Line') /\ Coherent(targetKV', Line')
    BY <1>1, <1>5, <1>6, <1>7, <1>8, FollowsLine DEF CacheCoherent
  <1>10. CacheCoherent'
    BY <1>3, <1>9 DEF CacheCoherent
  <1>11. Control'
    BY <1>1, <1>3, <1>4, <1>5 DEF Control, PrefillInv, PosInv, StepInv, SingleInv,
           DraftInv, VerifyInv, JudgeInv, EmitInv, LoopInv, Shared
  <1> QED BY <1>3, <1>6, <1>10, <1>11 DEF NoPanic

LEMMA DraftTokenInv == IInv /\ DraftToken => IInv'
  <1> SUFFICES ASSUME IInv, DraftToken PROVE IInv'
    OBVIOUS
  <1> USE DEF IInv
  <1> DEFINE n    == Len(drafts)
             at   == pos + n
             t    == VerifyToken(n + 1)
             seen == Attended(draftKV, at, t)
  <1>1. /\ pc = "draft" /\ pos = Len(tokens) - 1 /\ taken = 0
        /\ n \in Nat /\ n < Budget /\ Budget \in Nat /\ Budget <= K
        /\ draftKV.filled = at /\ targetKV.filled = pos
        /\ pos \in Nat /\ at \in Nat /\ at < Shared
        /\ verified = 0 /\ out = <<>> /\ WantsMore /\ pos < Shared
        /\ Shared \in Nat /\ MaxCtx \in Nat
        /\ CacheType(targetKV, MaxCtx) /\ CacheType(draftKV, Shared)
    BY ConstantFacts, WindowFacts
       DEF TypeOK, DraftToken, Control, StepInv, PosInv, DraftInv
  <1>2. StoreAllowed(draftKV, at, Shared)
    BY <1>1 DEF StoreAllowed
  <1>3. /\ draftKV' = Store(draftKV, at, Shared, seen)
        /\ pc' = IF n + 1 = Budget THEN "verify" ELSE "draft"
        /\ UNCHANGED <<tokens, generated, pos, draftMax, targetKV, verified, out,
                       taken>>
    BY <1>2 DEF DraftToken
  <1>4. PICK next \in Token : drafts' = Append(drafts, next)
    BY <1>2 DEF DraftToken, Sampled
  <1>5. /\ Len(drafts') = n + 1 /\ drafts' \in Seq(Token)
        /\ \A i \in 1 .. n : drafts'[i] = drafts[i]
    BY <1>4 DEF TypeOK
  <1>6. Budget' = Budget /\ Shared' = Shared /\ WantsMore' = WantsMore
    BY <1>3 DEF Budget, Shared, WantsMore
  <1>7. LineLen = at + 1 /\ LineLen' = at + 2
    BY <1>1, <1>3, <1>5 DEF LineLen, TypeOK
  <1>8. LineAt(at) = t
    BY <1>1 DEF LineAt, VerifyToken, LastToken, TypeOK
  <1>9. ASSUME NEW q \in 0 .. at PROVE LineAt(q)' = LineAt(q)
    <2>1. CASE q < Len(tokens)
      BY <2>1, <1>3 DEF LineAt
    <2>2. CASE q >= Len(tokens)
      <3>1. q - Len(tokens) + 1 \in 1 .. n
        BY <2>2, <1>1 DEF TypeOK
      <3> QED BY <3>1, <2>2, <1>1, <1>3, <1>5 DEF LineAt, TypeOK
    <2> QED BY <2>1, <2>2, <1>1 DEF TypeOK
  <1>10. /\ CacheType(draftKV', Shared) /\ draftKV'.filled = at + 1
         /\ Coherent(draftKV', Line)
    <2>1. /\ at \in Nat /\ at < Shared /\ draftKV.filled = at
          /\ Shared \in Nat /\ CacheType(draftKV, Shared)
          /\ 0 .. at \subseteq DOMAIN Line /\ Line[at] = t
          /\ Coherent(draftKV, Line)
      BY <1>1, <1>7, <1>8 DEF Line, CacheCoherent
    <2> HIDE DEF at, t
    <2> QED BY <2>1, <1>3, StoreFacts, StoreCoherent
  <1>11. TypeOK'
    BY <1>1, <1>3, <1>5, <1>6, <1>10, ConstantFacts DEF TypeOK
  <1>12. Coherent(draftKV', Line') /\ Coherent(targetKV, Line')
    <2>1. /\ at + 1 \in Nat /\ \A q \in 0 .. (at + 1) - 1 : LineAt(q)' = LineAt(q)
      BY <1>1, <1>9
    <2> QED BY <2>1, <1>1, <1>7, <1>10, <1>11, FollowsLine DEF CacheCoherent
  <1>13. CacheCoherent'
    BY <1>3, <1>12 DEF CacheCoherent
  <1>14. Control'
    BY <1>1, <1>3, <1>5, <1>6, <1>10
       DEF Control, PrefillInv, PosInv, StepInv, SingleInv,
           DraftInv, VerifyInv, JudgeInv, EmitInv, LoopInv
  <1> QED BY <1>3, <1>11, <1>13, <1>14 DEF NoPanic

LEMMA VerifyPositionInv == IInv /\ VerifyPosition => IInv'
  <1> SUFFICES ASSUME IInv, VerifyPosition PROVE IInv'
    OBVIOUS
  <1> USE DEF IInv
  <1> DEFINE n  == Len(drafts)
             at == pos + verified
             t  == VerifyToken(verified + 1)
  <1>1. /\ pc = "verify" /\ pos = Len(tokens) - 1 /\ taken = 0
        /\ n \in Nat /\ n = Budget /\ n >= 1 /\ n <= K
        /\ draftKV.filled = pos + n /\ targetKV.filled = at
        /\ verified \in Nat /\ verified <= n
        /\ pos \in Nat /\ at \in Nat /\ pos + n < Shared /\ Shared <= MaxCtx
        /\ out = <<>> /\ WantsMore /\ pos < Shared
        /\ Shared \in Nat /\ MaxCtx \in Nat
        /\ CacheType(targetKV, MaxCtx) /\ CacheType(draftKV, Shared)
    BY ConstantFacts, WindowFacts
       DEF TypeOK, VerifyPosition, Control, StepInv, PosInv, VerifyInv
  <1>2. StoreAllowed(targetKV, at, MaxCtx)
    BY <1>1 DEF StoreAllowed
  <1>3. /\ targetKV' = Store(targetKV, at, MaxCtx, Attended(targetKV, at, t))
        /\ verified' = verified + 1
        /\ pc' = IF verified = n THEN "judge" ELSE "verify"
        /\ UNCHANGED <<tokens, generated, pos, draftMax, draftKV, drafts, out,
                       taken>>
    BY <1>2 DEF VerifyPosition
  <1>4. Budget' = Budget /\ Shared' = Shared /\ WantsMore' = WantsMore
    BY <1>3 DEF Budget, Shared, WantsMore
  <1>5. LineLen = pos + n + 1 /\ LineAt(at) = t
    BY <1>1 DEF LineLen, LineAt, VerifyToken, LastToken, TypeOK
  <1>6. Line' = Line
    BY <1>1, <1>3 DEF Line, LineLen, LineAt
  <1>7. /\ CacheType(targetKV', MaxCtx) /\ targetKV'.filled = at + 1
        /\ Coherent(targetKV', Line)
    <2>1. /\ at \in Nat /\ at < MaxCtx /\ targetKV.filled = at
          /\ MaxCtx \in Nat /\ CacheType(targetKV, MaxCtx)
          /\ 0 .. at \subseteq DOMAIN Line /\ Line[at] = t
          /\ Coherent(targetKV, Line)
      BY <1>1, <1>5 DEF Line, CacheCoherent
    <2>2. targetKV' = Store(targetKV, at, MaxCtx, Attended(targetKV, at, t))
      BY <1>3
    <2> HIDE DEF at, t
    <2>3. CacheType(targetKV', MaxCtx) /\ targetKV'.filled = at + 1
      BY <2>1, <2>2, StoreFacts
    <2>4. Coherent(targetKV', Line)
      BY <2>1, <2>2, StoreCoherent
    <2> QED BY <2>3, <2>4
  <1>8. TypeOK'
    BY <1>1, <1>3, <1>4, <1>7, ConstantFacts DEF TypeOK
  <1>9. CacheCoherent'
    BY <1>3, <1>6, <1>7 DEF CacheCoherent
  <1>10. Control'
    BY <1>1, <1>3, <1>4, <1>7
       DEF Control, PrefillInv, PosInv, StepInv, SingleInv,
           DraftInv, VerifyInv, JudgeInv, EmitInv, LoopInv
  <1> QED BY <1>3, <1>8, <1>9, <1>10 DEF NoPanic

(* What the three outcomes of a judgement start from. *)
LEMMA JudgeFacts ==
    ASSUME IInv, pc = "judge"
    PROVE  /\ pos = Len(tokens) - 1 /\ taken = 0 /\ pos \in Nat
           /\ Len(drafts) \in Nat /\ Len(drafts) >= 1 /\ Len(drafts) <= K
           /\ Len(out) \in Nat /\ Len(out) <= Len(drafts)
           /\ draftKV.filled = pos + Len(drafts)
           /\ targetKV.filled = pos + Len(drafts) + 1
           /\ pos + Len(drafts) < Shared /\ Shared <= MaxCtx
           /\ Shared \in Nat /\ MaxCtx \in Nat
           /\ CacheType(targetKV, MaxCtx) /\ CacheType(draftKV, Shared)
           /\ Coherent(targetKV, Line) /\ Coherent(draftKV, Line)
           /\ LineLen = pos + Len(drafts) + 1
           /\ \A i \in 1 .. Len(out) : out[i] = drafts[i]
           /\ tokens \in Seq(Token) /\ drafts \in Seq(Token) /\ out \in Seq(Token)
  <1>1. /\ tokens \in Seq(Token) /\ drafts \in Seq(Token) /\ out \in Seq(Token)
        /\ pos = Len(tokens) - 1 /\ pos \in Nat
        /\ Len(drafts) = Budget /\ Budget >= 1
    BY DEF IInv, TypeOK, Control, PosInv, JudgeInv
  <1>2. LineLen = Len(tokens) + Len(drafts)
    BY DEF LineLen
  <1>3. Coherent(targetKV, Line) /\ Coherent(draftKV, Line)
    BY DEF IInv, CacheCoherent
  <1>4. /\ taken = 0 /\ Len(out) <= Len(drafts)
        /\ draftKV.filled = pos + Len(drafts)
        /\ targetKV.filled = pos + Len(drafts) + 1
        /\ \A i \in 1 .. Len(out) : out[i] = drafts[i]
        /\ CacheType(targetKV, MaxCtx) /\ CacheType(draftKV, Shared)
    BY DEF IInv, TypeOK, Control, StepInv, JudgeInv
  <1> QED BY <1>1, <1>2, <1>3, <1>4, ConstantFacts, WindowFacts DEF IInv

LEMMA AcceptInv == IInv /\ Accept => IInv'
  <1> SUFFICES ASSUME IInv, Accept PROVE IInv'
    OBVIOUS
  <1> DEFINE i == Len(out)
  <1>1. /\ pc = "judge" /\ pc' = "judge" /\ i < Len(drafts)
        /\ out' = Append(out, drafts[i + 1])
        /\ UNCHANGED <<tokens, generated, pos, draftMax, draftKV, targetKV, drafts,
                       verified, taken>>
    BY DEF Accept
  <1>2. /\ out' \in Seq(Token) /\ Len(out') = i + 1
        /\ \A j \in 1 .. Len(out') : out'[j] = drafts[j]
    BY <1>1, JudgeFacts
  <1>3. TypeOK'
    BY <1>1, <1>2, JudgeFacts, ConstantFacts DEF IInv, TypeOK, Shared
  <1>4. Line' = Line
    BY <1>1 DEF Line, LineLen, LineAt
  <1>5. CacheCoherent'
    BY <1>1, <1>4 DEF IInv, CacheCoherent
  <1>6. Control'
    BY <1>1, <1>2, JudgeFacts
       DEF IInv, Control, PrefillInv, PosInv, StepInv, SingleInv, DraftInv,
           VerifyInv, JudgeInv, EmitInv, LoopInv, Shared, Budget, WantsMore
  <1> QED BY <1>1, <1>3, <1>5, <1>6 DEF IInv, NoPanic

LEMMA RejectInv == IInv /\ Reject => IInv'
  <1> SUFFICES ASSUME IInv, Reject PROVE IInv'
    OBVIOUS
  <1> DEFINE i   == Len(out)
             len == pos + i + 1
  <1>1. /\ pc = "judge" /\ pc' = "emit" /\ i < Len(drafts)
        /\ draftKV' = Truncate(draftKV, len)
        /\ targetKV' = Truncate(targetKV, len)
        /\ UNCHANGED <<tokens, generated, pos, draftMax, drafts, verified, taken>>
    BY DEF Reject
  <1>2. PICK c \in Token : out' = Append(out, c)
    BY ConstantFacts DEF Reject, Correction, Sampled
  <1>3. /\ out' \in Seq(Token) /\ Len(out') = i + 1
        /\ \A j \in 1 .. i : out'[j] = drafts[j]
    BY <1>1, <1>2, JudgeFacts
  <1>4. len \in Nat /\ len <= draftKV.filled /\ len <= targetKV.filled
    BY <1>1, JudgeFacts
  <1>5. /\ CacheType(draftKV', Shared) /\ draftKV'.filled = len
        /\ CacheType(targetKV', MaxCtx) /\ targetKV'.filled = len
        /\ Coherent(draftKV', Line) /\ Coherent(targetKV', Line)
    <2>1. len \in Nat
      BY <1>4
    <2> HIDE DEF len
    <2>2. /\ CacheType(draftKV', Shared) /\ draftKV'.filled = len
          /\ CacheType(targetKV', MaxCtx) /\ targetKV'.filled = len
      BY <2>1, <1>1, <1>4, JudgeFacts, TruncateBelow
    <2>3. Coherent(draftKV', Line) /\ Coherent(targetKV', Line)
      BY <2>1, <1>1, JudgeFacts, TruncateCoherent
    <2> QED BY <2>2, <2>3
  <1>6. TypeOK'
    BY <1>1, <1>3, <1>5, JudgeFacts, ConstantFacts DEF IInv, TypeOK, Shared
  <1>7. LineLen' = len + 1
    BY <1>1, <1>3, JudgeFacts DEF LineLen
  <1>8. ASSUME NEW q \in 0 .. len - 1 PROVE LineAt(q)' = LineAt(q)
    <2>1. CASE q < Len(tokens)
      BY <2>1, <1>1 DEF LineAt
    <2>2. CASE q >= Len(tokens)
      <3> DEFINE j == q - Len(tokens) + 1
      <3>1. j \in 1 .. i /\ taken + q - Len(tokens) + 1 = j
        BY <2>2, JudgeFacts, <1>1
      <3>2. LineAt(q) = drafts[j]
        BY <2>2, <1>1, JudgeFacts DEF LineAt
      <3>3. LineAt(q)' = out'[j]
        BY <2>2, <3>1, <1>1, JudgeFacts DEF LineAt
      <3> QED BY <3>1, <3>2, <3>3, <1>3
    <2> QED BY <2>1, <2>2, JudgeFacts, <1>1
  <1>9. Coherent(draftKV', Line') /\ Coherent(targetKV', Line')
    <2>1. len <= LineLen /\ LineLen \in Nat /\ len + 1 \in Nat
      BY <1>1, <1>4, JudgeFacts
    <2>2. len \in Nat /\ len <= len + 1
      BY <1>4
    <2> HIDE DEF len
    <2> QED BY <2>1, <2>2, <1>5, <1>7, <1>8, FollowsLine
  <1>10. CacheCoherent'
    BY <1>9 DEF CacheCoherent
  <1>11. Control'
    BY <1>1, <1>3, <1>5, JudgeFacts
       DEF IInv, Control, PrefillInv, PosInv, StepInv, SingleInv, DraftInv,
           VerifyInv, JudgeInv, EmitInv, LoopInv, Shared
  <1> QED BY <1>1, <1>6, <1>10, <1>11 DEF IInv, NoPanic

LEMMA AllAcceptedInv == IInv /\ AllAccepted => IInv'
  <1> SUFFICES ASSUME IInv, AllAccepted PROVE IInv'
    OBVIOUS
  <1> DEFINE n        == Len(drafts)
             at       == pos + n
             advanced == Store(draftKV, at, Shared, Attended(draftKV, at, drafts[n]))
  <1>1. pc = "judge" /\ Len(out) = n
    BY DEF AllAccepted
  <1>2. StoreAllowed(draftKV, at, Shared)
    BY <1>1, JudgeFacts DEF StoreAllowed
  <1>3. /\ draftKV' = Truncate(advanced, at + 1)
        /\ targetKV' = Truncate(targetKV, at + 1)
        /\ pc' = "emit"
        /\ UNCHANGED <<tokens, generated, pos, draftMax, drafts, verified, taken>>
    BY <1>2 DEF AllAccepted
  <1>4. PICK b \in Token : out' = Append(out, b)
    BY <1>2 DEF AllAccepted, Sampled
  <1>5. /\ out' \in Seq(Token) /\ Len(out') = n + 1
        /\ \A j \in 1 .. n : out'[j] = drafts[j]
    <2>1. /\ out \in Seq(Token) /\ Len(out) = n
          /\ \A j \in 1 .. n : out[j] = drafts[j]
      BY <1>1, JudgeFacts
    <2>2. out' \in Seq(Token) /\ Len(out') = n + 1
      BY <2>1, <1>4
    <2>3. \A j \in 1 .. n : out'[j] = out[j]
      BY <2>1, <1>4
    <2> QED BY <2>1, <2>2, <2>3
  <1>6. LineAt(at) = drafts[n]
    BY <1>1, JudgeFacts DEF LineAt
  <1>7. /\ CacheType(draftKV', Shared) /\ draftKV'.filled = at + 1
        /\ CacheType(targetKV', MaxCtx) /\ targetKV'.filled = at + 1
        /\ Coherent(draftKV', Line) /\ Coherent(targetKV', Line)
    <2> DEFINE d   == drafts[n]
               len == at + 1
    <2>1. /\ at \in Nat /\ at < Shared /\ Shared \in Nat /\ len \in Nat
          /\ draftKV.filled = at /\ targetKV.filled = len /\ len = at + 1
          /\ CacheType(draftKV, Shared) /\ CacheType(targetKV, MaxCtx)
          /\ MaxCtx \in Nat
          /\ 0 .. at \subseteq DOMAIN Line /\ Line[at] = d
          /\ Coherent(draftKV, Line) /\ Coherent(targetKV, Line)
      BY <1>1, <1>6, JudgeFacts DEF Line
    <2>2. /\ advanced = Store(draftKV, at, Shared, Attended(draftKV, at, d))
          /\ draftKV' = Truncate(advanced, len)
          /\ targetKV' = Truncate(targetKV, len)
      BY <1>3
    <2> HIDE DEF at, d, len, advanced
    <2>3. CacheType(advanced, Shared) /\ advanced.filled = at + 1
      BY <2>1, <2>2, StoreFacts
    <2>4. Coherent(advanced, Line)
      BY <2>1, <2>2, StoreCoherent
    <2>5. /\ CacheType(draftKV', Shared) /\ draftKV'.filled = len
          /\ Coherent(draftKV', Line)
      BY <2>1, <2>2, <2>3, <2>4, TruncateBelow, TruncateCoherent
    <2>6. /\ CacheType(targetKV', MaxCtx) /\ targetKV'.filled = len
          /\ Coherent(targetKV', Line)
      BY <2>1, <2>2, TruncateBelow, TruncateCoherent
    <2> QED BY <2>5, <2>6 DEF len
  <1>8. TypeOK'
    BY <1>3, <1>5, <1>7, JudgeFacts, <1>1, ConstantFacts DEF IInv, TypeOK, Shared
  <1>9. LineLen' = at + 2
    BY <1>1, <1>3, <1>5, JudgeFacts DEF LineLen
  <1>10. ASSUME NEW q \in 0 .. at PROVE LineAt(q)' = LineAt(q)
    <2>1. CASE q < Len(tokens)
      BY <2>1, <1>3 DEF LineAt
    <2>2. CASE q >= Len(tokens)
      <3> DEFINE j == q - Len(tokens) + 1
      <3>1. j \in 1 .. n /\ taken + q - Len(tokens) + 1 = j
        BY <2>2, JudgeFacts, <1>1
      <3>2. LineAt(q) = drafts[j]
        BY <2>2, <1>1, JudgeFacts DEF LineAt
      <3>3. LineAt(q)' = out'[j]
        BY <2>2, <3>1, <1>3, JudgeFacts, <1>1 DEF LineAt
      <3> QED BY <3>1, <3>2, <3>3, <1>5
    <2> QED BY <2>1, <2>2, JudgeFacts, <1>1
  <1>11. Coherent(draftKV', Line') /\ Coherent(targetKV', Line')
    <2> DEFINE k == at + 1
    <2>1. /\ k \in Nat /\ k + 1 \in Nat /\ k <= k + 1
          /\ LineLen = k /\ LineLen' = k + 1
          /\ draftKV'.filled = k /\ targetKV'.filled = k
      BY <1>1, <1>7, <1>9, JudgeFacts
    <2>2. \A q \in 0 .. k - 1 : LineAt(q)' = LineAt(q)
      BY <1>1, <1>10, JudgeFacts
    <2> HIDE DEF k
    <2> QED BY <2>1, <2>2, <1>7, FollowsLine
  <1>12. CacheCoherent'
    BY <1>11 DEF CacheCoherent
  <1>13. Control'
    BY <1>1, <1>3, <1>5, <1>7, JudgeFacts
       DEF IInv, Control, PrefillInv, PosInv, StepInv, SingleInv, DraftInv,
           VerifyInv, JudgeInv, EmitInv, LoopInv, Shared
  <1> QED BY <1>3, <1>8, <1>12, <1>13 DEF IInv, NoPanic

(* What the caller's loop over the new tokens starts from. *)
LEMMA EmitFacts ==
    ASSUME IInv, pc = "emit"
    PROVE  /\ pos = Len(tokens) - 1 /\ pos \in Nat
           /\ tokens \in Seq(Token) /\ out \in Seq(Token)
           /\ Len(out) \in Nat /\ Len(out) >= 1
           /\ taken \in Nat /\ taken <= Len(out)
           /\ targetKV.filled = pos - taken + Len(out)
           /\ draftKV.filled = targetKV.filled \/ targetKV.filled >= Shared
           /\ targetKV.filled <= Shared
           /\ Shared \in Nat /\ MaxCtx \in Nat /\ Shared <= MaxCtx
           /\ CacheType(targetKV, MaxCtx) /\ CacheType(draftKV, Shared)
           /\ Coherent(targetKV, Line) /\ Coherent(draftKV, Line)
           /\ LineLen = Len(tokens) + Len(out) - taken
  <1>1. LineLen = Len(tokens) + Len(out) - taken
    BY DEF LineLen
  <1>2. Coherent(targetKV, Line) /\ Coherent(draftKV, Line)
    BY DEF IInv, CacheCoherent
  <1>3. /\ pos = Len(tokens) - 1 /\ pos \in Nat
        /\ tokens \in Seq(Token) /\ out \in Seq(Token)
        /\ Len(out) \in Nat /\ taken \in Nat /\ taken <= Len(out)
        /\ CacheType(targetKV, MaxCtx) /\ CacheType(draftKV, Shared)
    BY ConstantFacts DEF IInv, TypeOK, Control, PosInv
  <1>4. /\ Len(out) >= 1
        /\ targetKV.filled = pos - taken + Len(out)
        /\ draftKV.filled = targetKV.filled \/ targetKV.filled >= Shared
        /\ targetKV.filled <= Shared
    BY <1>3 DEF IInv, Control, EmitInv
  <1>5. Shared \in Nat /\ MaxCtx \in Nat /\ Shared <= MaxCtx
    <2>1. TypeOK
      BY DEF IInv
    <2> QED BY <2>1, ConstantFacts, WindowFacts
  <1> QED BY <1>1, <1>2, <1>3, <1>4, <1>5

(* Committing a token moves the border between text and new tokens, and      *)
(* leaves the line as it is.                                                 *)
LEMMA EmitTokenLine ==
    ASSUME IInv, EmitToken
    PROVE  /\ LineLen' = LineLen
           /\ \A q \in 0 .. LineLen - 1 : LineAt(q)' = LineAt(q)
  <1> DEFINE t == out[taken + 1]
  <1>1. /\ pc = "emit" /\ pc' = "emit" /\ taken < Len(out) /\ WantsMore
        /\ tokens' = Append(tokens, t)
        /\ pos' = pos + 1 /\ generated' = generated + 1 /\ taken' = taken + 1
        /\ UNCHANGED <<draftMax, draftKV, targetKV, drafts, verified, out>>
    BY DEF EmitToken
  <1>2. /\ t \in Token /\ tokens' \in Seq(Token) /\ Len(tokens') = Len(tokens) + 1
        /\ tokens'[Len(tokens) + 1] = t
        /\ \A i \in 1 .. Len(tokens) : tokens'[i] = tokens[i]
    <2>1. tokens \in Seq(Token) /\ out \in Seq(Token) /\ taken \in 0 .. Len(out)
      BY DEF IInv, TypeOK
    <2>2. t \in Token
      BY ONLY <1>1, <2>1
    <2> HIDE DEF t
    <2> QED BY ONLY <1>1, <2>1, <2>2
  <1>3. LineLen' = LineLen
    <2>1. LineLen' = Len(tokens') + Len(out') - taken'
      BY <1>1 DEF LineLen
    <2>2. /\ Len(tokens) \in Nat /\ Len(out) \in Nat /\ taken \in Nat
          /\ Len(tokens') = Len(tokens) + 1 /\ Len(out') = Len(out)
          /\ taken' = taken + 1
          /\ LineLen = Len(tokens) + Len(out) - taken
      BY <1>1, <1>2, EmitFacts
    <2> QED BY <2>1, <2>2
  <1>4. ASSUME NEW q \in 0 .. LineLen - 1 PROVE LineAt(q)' = LineAt(q)
    <2>1. CASE q < Len(tokens)
      BY <2>1, <1>1, <1>2, EmitFacts DEF LineAt
    <2>2. CASE q = Len(tokens)
      <3>1. taken + q - Len(tokens) + 1 = taken + 1
        BY <2>2, EmitFacts, <1>1
      <3>2. LineAt(q) = t
        BY <2>2, <3>1, <1>1, EmitFacts DEF LineAt
      <3>3. LineAt(q)' = tokens'[q + 1]
        BY <2>2, <1>1, <1>2, EmitFacts DEF LineAt
      <3> QED BY <2>2, <3>2, <3>3, <1>2
    <2>3. CASE q > Len(tokens)
      <3>1. taken' + q - Len(tokens') + 1 = taken + q - Len(tokens) + 1
        BY <2>3, EmitFacts, <1>1, <1>2
      <3>2. LineAt(q) = out[taken + q - Len(tokens) + 1]
        BY <2>3, <1>1, EmitFacts DEF LineAt
      <3>3. LineAt(q)' = out'[taken' + q - Len(tokens') + 1]
        BY <2>3, <1>1, <1>2, EmitFacts DEF LineAt
      <3> QED BY <3>1, <3>2, <3>3, <1>1
    <2> QED BY <2>1, <2>2, <2>3, EmitFacts, <1>1
  <1> QED BY <1>3, <1>4

LEMMA EmitTokenInv == IInv /\ EmitToken => IInv'
  <1> SUFFICES ASSUME IInv, EmitToken PROVE IInv'
    OBVIOUS
  <1> DEFINE t == out[taken + 1]
  <1>1. /\ pc = "emit" /\ pc' = "emit" /\ taken < Len(out) /\ WantsMore
        /\ tokens' = Append(tokens, t)
        /\ pos' = pos + 1 /\ generated' = generated + 1 /\ taken' = taken + 1
        /\ UNCHANGED <<draftMax, draftKV, targetKV, drafts, verified, out>>
    BY DEF EmitToken
  <1>2. /\ t \in Token /\ tokens' \in Seq(Token) /\ Len(tokens') = Len(tokens) + 1
        /\ tokens'[Len(tokens) + 1] = t
        /\ \A i \in 1 .. Len(tokens) : tokens'[i] = tokens[i]
    BY <1>1, EmitFacts
  <1>3. generated \in Nat /\ generated < MaxTokens /\ pos < MaxCtx
    BY <1>1 DEF IInv, TypeOK, WantsMore
  <1>4. TypeOK'
    BY <1>1, <1>2, <1>3, EmitFacts, ConstantFacts DEF IInv, TypeOK, Shared
  <1>5. /\ LineLen' = LineLen
        /\ \A q \in 0 .. LineLen - 1 : LineAt(q)' = LineAt(q)
    BY EmitTokenLine
  <1>7. Coherent(draftKV, Line') /\ Coherent(targetKV, Line')
    <2>1. /\ LineLen \in Nat /\ LineLen <= LineLen
          /\ draftKV.filled <= LineLen /\ draftKV.filled \in Nat
          /\ targetKV.filled <= LineLen /\ targetKV.filled \in Nat
      <3>1. /\ Len(tokens) \in Nat /\ LineLen = Len(tokens) + Len(out) - taken
            /\ targetKV.filled = Len(tokens) - 1 - taken + Len(out)
            /\ draftKV.filled = targetKV.filled \/ targetKV.filled >= Shared
            /\ taken \in Nat /\ Len(out) \in Nat /\ taken <= Len(out)
            /\ Shared \in Nat
        BY <1>1, EmitFacts
      <3>2. /\ targetKV.filled \in Nat /\ draftKV.filled \in Nat
            /\ draftKV.filled <= Shared
        <4>1. CacheType(targetKV, MaxCtx) /\ CacheType(draftKV, Shared)
          BY <1>1, EmitFacts
        <4>2. MaxCtx \in Nat /\ Shared \in Nat
          BY <1>1, EmitFacts
        <4> QED BY ONLY <4>1, <4>2 DEF CacheType
      <3> QED BY <3>1, <3>2
    <2>2. Coherent(draftKV, Line) /\ Coherent(targetKV, Line)
      BY <1>1, EmitFacts
    <2> QED BY <1>5, <2>1, <2>2, FollowsLine
  <1>8. CacheCoherent'
    BY <1>1, <1>7 DEF CacheCoherent
  <1>9. Control'
    <2>1. /\ pos' = Len(tokens') - 1
          /\ pos' - taken' + Len(out') = pos - taken + Len(out)
      <3>1. /\ pos \in Nat /\ taken \in Nat /\ Len(out) \in Nat
            /\ pos = Len(tokens) - 1 /\ Len(tokens') = Len(tokens) + 1
            /\ pos' = pos + 1 /\ taken' = taken + 1 /\ Len(out') = Len(out)
        BY <1>1, <1>2, EmitFacts
      <3> QED BY <3>1
    <2>2. EmitInv'
      BY <1>1, <2>1, EmitFacts DEF EmitInv, Shared
    <2> QED BY <1>1, <2>1, <2>2
            DEF Control, PrefillInv, PosInv, StepInv, SingleInv, DraftInv,
                VerifyInv, JudgeInv, LoopInv
  <1> QED BY <1>1, <1>4, <1>8, <1>9 DEF IInv, NoPanic

LEMMA EmitEndsInv == IInv /\ (EmitEos \/ EmitDone) => IInv'
  <1> SUFFICES ASSUME IInv, EmitEos \/ EmitDone PROVE IInv'
    OBVIOUS
  <1>1. /\ pc = "emit" /\ pc' \in {"done", "loop"}
        /\ pc' = "loop" => taken = Len(out) \/ ~WantsMore
        /\ UNCHANGED <<tokens, generated, pos, draftMax, draftKV, targetKV, drafts,
                       verified, out, taken>>
    <2>1. out # <<>>
      BY DEF IInv, Control, EmitInv, EmitEos, EmitDone
    <2> QED BY <2>1 DEF EmitEos, EmitDone
  <1>2. TypeOK'
    BY <1>1 DEF IInv, TypeOK, Ended, Shared
  <1>3. LineLen' = Len(tokens)
    BY <1>1 DEF LineLen
  <1>4. ASSUME NEW q \in 0 .. Len(tokens) - 1 PROVE LineAt(q)' = LineAt(q)
    BY <1>1, EmitFacts DEF LineAt
  <1>5. Coherent(draftKV, Line') /\ Coherent(targetKV, Line')
    <2>1. /\ Len(tokens) \in Nat /\ LineLen \in Nat /\ Len(tokens) <= LineLen
          /\ draftKV.filled \in Nat /\ targetKV.filled \in Nat
          /\ Len(tokens) <= Len(tokens)
      <3>1. CacheType(targetKV, MaxCtx) /\ CacheType(draftKV, Shared)
        BY <1>1, EmitFacts
      <3>2. /\ Len(tokens) \in Nat /\ Len(out) \in Nat /\ taken \in Nat
            /\ taken <= Len(out) /\ LineLen = Len(tokens) + Len(out) - taken
            /\ MaxCtx \in Nat /\ Shared \in Nat
        BY <1>1, EmitFacts
      <3>3. draftKV.filled \in Nat /\ targetKV.filled \in Nat
        BY ONLY <3>1, <3>2 DEF CacheType
      <3> QED BY ONLY <3>2, <3>3
    <2>2. Coherent(draftKV, Line) /\ Coherent(targetKV, Line)
      BY <1>1, EmitFacts
    <2> QED BY <1>3, <1>4, <2>1, <2>2, FollowsLine
  <1>6. CacheCoherent'
    BY <1>1, <1>5 DEF CacheCoherent
  <1>7. Control'
    BY <1>1, EmitFacts
       DEF IInv, Control, PrefillInv, PosInv, StepInv, SingleInv, DraftInv,
           VerifyInv, JudgeInv, EmitInv, LoopInv, Shared, WantsMore
  <1> QED BY <1>1, <1>2, <1>6, <1>7 DEF IInv, NoPanic

LEMMA StutterInv == IInv /\ UNCHANGED vars => IInv'
  <1> SUFFICES ASSUME IInv, UNCHANGED vars PROVE IInv'
    OBVIOUS
  <1> USE DEF IInv, vars
  <1>1. TypeOK' /\ NoPanic'
    BY DEF TypeOK, NoPanic, Shared
  <1>2. Line' = Line
    BY DEF Line, LineLen, LineAt
  <1>3. CacheCoherent'
    BY <1>2 DEF CacheCoherent
  <1>4. Control'
    BY DEF Control, PrefillInv, PosInv, StepInv, SingleInv, DraftInv,
           VerifyInv, JudgeInv, EmitInv, LoopInv, Shared, Budget, WantsMore
  <1> QED BY <1>1, <1>3, <1>4

LEMMA NextInv == IInv /\ [Next]_vars => IInv'
  BY PromptRefusedInv, PrefillTokenInv, PrefillDoneInv, LoopEndsInv, BeginStepInv,
     SingleStepInv, DraftTokenInv, VerifyPositionInv, AcceptInv, RejectInv,
     AllAcceptedInv, EmitTokenInv, EmitEndsInv, StutterInv
     DEF Next

(* The inductive invariant holds in every reachable state. *)
THEOREM Invariance == Spec => []IInv
  BY InitInv, NextInv, PTL DEF Spec

(* The variables keep their types and both caches stay in their windows. *)
THEOREM TypeCorrect == Spec => []TypeOK
  <1>1. IInv => TypeOK
    BY DEF IInv
  <1> QED BY Invariance, <1>1, PTL

(* No store of a decode leaves a gap or a window: the assertions of          *)
(* LayerKVCache::store never fire, whatever is drafted, accepted and         *)
(* rejected, for any K and any pair of windows.                              *)
THEOREM NeverPanics == Spec => []NoPanic
  <1>1. IInv => NoPanic
    BY DEF IInv
  <1> QED BY Invariance, <1>1, PTL

(* Every entry that counts was computed from the tokens of the sequence: the *)
(* entry of a rejected draft is never attended to.                           *)
THEOREM CachesCoherent == Spec => []CacheCoherent
  <1>1. IInv => CacheCoherent
    BY DEF IInv
  <1> QED BY Invariance, <1>1, PTL

(* A step always starts with both caches filled to exactly its position. *)
THEOREM FrontierExact == Spec => []Frontier
  <1>1. IInv => Frontier
    BY DEF IInv, Frontier, Control, PosInv, LoopInv
  <1> QED BY Invariance, <1>1, PTL

(* A run ends in an error only at the window of a draft model smaller than   *)
(* the run's own: prefill and step have no other way to refuse.              *)
THEOREM ErrorsExplained == Spec => []FailsOnlyAtDraftWindow
  <1>1. Init => FailsOnlyAtDraftWindow
    BY DEF Init, FailsOnlyAtDraftWindow
  <1>2. IInv /\ FailsOnlyAtDraftWindow /\ [Next]_vars => FailsOnlyAtDraftWindow'
    <2> SUFFICES ASSUME IInv, FailsOnlyAtDraftWindow, [Next]_vars, pc' = "failed"
                 PROVE  draftMax' < MaxCtx /\ Len(tokens') > draftMax'
      BY DEF FailsOnlyAtDraftWindow
    <2>1. pc = "failed" \/ PromptRefused \/ StepRefused
      <3>1. pc = "emit" => out # <<>>
        BY DEF IInv, Control, EmitInv
      <3> QED BY <3>1
          DEF Next, vars, PrefillToken, PrefillDone, LoopExit, BeginStep, SingleStep,
             DraftToken, VerifyPosition, Accept, Reject, AllAccepted, EmitToken,
             EmitEos, EmitDone
    <2>2. CASE pc = "failed"
      <3>1. UNCHANGED vars
        BY <2>2 DEF Next, PromptRefused, PrefillToken, PrefillDone, LoopExit,
             StepRefused, BeginStep, SingleStep, DraftToken, VerifyPosition, Accept,
             Reject, AllAccepted, EmitToken, EmitEos, EmitDone
      <3> QED BY <2>2, <3>1 DEF FailsOnlyAtDraftWindow, vars
    <2>3. CASE PromptRefused
      <3>1. Len(tokens) > Shared /\ Len(tokens) <= MaxCtx
        BY <2>3, ConstantFacts DEF PromptRefused, IInv, Control, PrefillInv
      <3> QED BY <2>3, <3>1, ConstantFacts
              DEF PromptRefused, IInv, TypeOK, Shared, Lesser
    <2>4. CASE StepRefused
      <3>1. /\ pos >= Shared /\ pos < MaxCtx /\ pos = Len(tokens) - 1
            /\ pos \in Nat
        BY <2>4 DEF StepRefused, WantsMore, IInv, Control, PosInv, TypeOK
      <3> QED BY <2>4, <3>1, ConstantFacts
              DEF StepRefused, IInv, TypeOK, Shared, Lesser
    <2> QED BY <2>1, <2>2, <2>3, <2>4
  <1> QED BY Invariance, <1>1, <1>2, PTL DEF Spec

-----------------------------------------------------------------------------
(* Every token that is settled but not committed yet - accepted, corrected or *)
(* sampled - is one the target model can emit after the line before it.       *)
SettledLen ==
    CASE pc = "judge" -> Len(tokens) + Len(out)
      [] pc = "emit"  -> LineLen
      [] OTHER        -> Len(tokens)

LineBefore(p) == [q \in 0 .. p - 1 |-> LineAt(q)]

OnlyPossible ==
    \A p \in Len(tokens) .. SettledLen - 1 :
        LineAt(p) \in Sampled(TargetProb(LineBefore(p)))

RInv == IInv /\ OnlyPossible

(* What a pass at the watermark attends to is the line up to its token. *)
LEMMA AttendedIsLine ==
    ASSUME NEW max \in Nat, NEW c, CacheType(c, max), NEW at \in Nat, c.filled = at,
           NEW line, 0 .. at \subseteq DOMAIN line, Coherent(c, line),
           NEW t, t = line[at]
    PROVE  Attended(c, at, t) = [q \in 0 .. at |-> line[q]]
  <1>1. ASSUME NEW p \in 0 .. at - 1
        PROVE  c.data[p][p] = line[p]
    <2>1. c.data[p] = [q \in 0 .. p |-> line[q]] /\ p \in 0 .. p
      BY DEF Coherent
    <2> QED BY <2>1
  <1> QED BY <1>1 DEF Attended

(* What both models said of a draft is what they say of the line before it. *)
LEMMA SaidOfLine ==
    ASSUME IInv, pc = "judge", NEW i \in 0 .. Len(drafts)
    PROVE  /\ TargetSays(i) = TargetProb(LineBefore(Len(tokens) + i))
           /\ i < Len(drafts) => DraftSays(i) = DraftProb(LineBefore(Len(tokens) + i))
           /\ LineBefore(Len(tokens) + i) \in Contexts
  <1> DEFINE p == pos + i
  <1>1. /\ p \in Nat /\ p < LineLen /\ p + 1 = Len(tokens) + i /\ p + 1 <= MaxCtx
        /\ p < targetKV.filled
        /\ i < Len(drafts) => p < draftKV.filled
        /\ LineLen \in Nat /\ MaxCtx \in Nat
        /\ targetKV.filled \in Nat /\ draftKV.filled \in Nat
    BY JudgeFacts
  <1>2. LineBefore(p + 1) = [q \in 0 .. p |-> Line[q]]
    BY <1>1 DEF LineBefore, Line
  <1>3. Coherent(targetKV, Line) /\ Coherent(draftKV, Line) /\ p \in DOMAIN Line
    BY <1>1, JudgeFacts DEF Line
  <1>4. targetKV.data[p] = LineBefore(p + 1)
    BY <1>1, <1>2, <1>3 DEF Coherent
  <1>5. i < Len(drafts) => draftKV.data[p] = LineBefore(p + 1)
    BY <1>1, <1>2, <1>3 DEF Coherent
  <1>6. LineBefore(p + 1) \in Contexts
    <2>1. ASSUME NEW q \in 0 .. p PROVE LineAt(q) \in Token
      <3>1. CASE q < Len(tokens)
        BY <3>1, JudgeFacts DEF LineAt
      <3>2. CASE q >= Len(tokens)
        <4>1. q - Len(tokens) + 1 \in 1 .. Len(drafts)
          BY <1>1, <3>2, JudgeFacts
        <4> QED BY <3>2, <4>1, JudgeFacts DEF LineAt
      <3> QED BY <3>1, <3>2, JudgeFacts
    <2>2. LineBefore(p + 1) \in [0 .. (p + 1) - 1 -> Token] /\ p + 1 \in 1 .. MaxCtx
      BY <1>1, <2>1 DEF LineBefore
    <2> QED BY <2>2 DEF Contexts
  <1> QED BY <1>1, <1>4, <1>5, <1>6 DEF TargetSays, DraftSays

(* A rejected draft is replaced by a token the target can emit: the residual *)
(* is positive only where the target is.                                     *)
LEMMA CorrectionPossible ==
    ASSUME ~ZeroDraw, NEW p, NEW q, q \in [Token -> Nat], p \in [Token -> Nat],
           NEW t \in Correction(p, q)
    PROVE  t \in Sampled(p)
  BY DEF Correction, Sampled

(* Lines that agree so far have the same text before each of their tokens. *)
LEMMA SameBefore ==
    ASSUME NEW n \in Nat, \A q \in 0 .. n - 1 : LineAt(q)' = LineAt(q),
           NEW p \in 0 .. n
    PROVE  LineBefore(p)' = LineBefore(p)
  BY DEF LineBefore

(* The token that ends a judgement takes the place of the draft after the    *)
(* accepted ones; the line before it stays.                                  *)
LEMMA CompletesLine ==
    ASSUME IInv, pc = "judge", pc' = "emit", NEW c \in Token,
           out' = Append(out, c), UNCHANGED <<tokens, drafts, taken>>,
           NEW n, n = Len(tokens) + Len(out)
    PROVE  /\ n \in Nat /\ LineLen' = n + 1 /\ LineAt(n)' = c
           /\ \A q \in 0 .. n - 1 : LineAt(q)' = LineAt(q)
  <1>1. /\ n \in Nat /\ Len(out') = Len(out) + 1 /\ out'[Len(out) + 1] = c
        /\ \A j \in 1 .. Len(out) : out'[j] = drafts[j]
        /\ taken = 0 /\ Len(tokens) \in Nat /\ Len(out) \in Nat
    BY JudgeFacts
  <1>2. LineLen' = n + 1 /\ LineAt(n)' = c
    BY <1>1 DEF LineLen, LineAt
  <1>3. ASSUME NEW q \in 0 .. n - 1 PROVE LineAt(q)' = LineAt(q)
    <2>1. CASE q < Len(tokens)
      BY <2>1 DEF LineAt
    <2>2. CASE q >= Len(tokens)
      <3> DEFINE j == q - Len(tokens) + 1
      <3>1. j \in 1 .. Len(out) /\ taken + q - Len(tokens) + 1 = j
        BY <2>2, <1>1
      <3>2. LineAt(q) = drafts[j] /\ LineAt(q)' = out'[j]
        BY <2>2, <3>1 DEF LineAt
      <3> QED BY <3>1, <3>2, <1>1
    <2> QED BY <2>1, <2>2, <1>1
  <1> QED BY <1>1, <1>2, <1>3

LEMMA JudgedPossible ==
    ASSUME RInv, pc = "judge", pc' = "emit", UNCHANGED <<tokens, drafts, taken>>,
           NEW c \in Sampled(TargetSays(Len(out))), out' = Append(out, c)
    PROVE  OnlyPossible'
  <1>0. PICK n : n = Len(tokens) + Len(out)
    OBVIOUS
  <1>1. c \in Token
    BY DEF Sampled
  <1>2. /\ n \in Nat /\ LineLen' = n + 1 /\ LineAt(n)' = c
        /\ \A q \in 0 .. n - 1 : LineAt(q)' = LineAt(q)
    BY <1>0, <1>1, CompletesLine DEF RInv
  <1>3. SettledLen = n /\ SettledLen' = n + 1 /\ Len(tokens) \in Nat /\ tokens' = tokens
    BY <1>0, <1>2, JudgeFacts DEF SettledLen, RInv
  <1>4. c \in Sampled(TargetProb(LineBefore(n)))
    <2>1. Len(out) \in 0 .. Len(drafts)
      BY JudgeFacts DEF RInv
    <2> QED BY <1>0, <2>1, SaidOfLine DEF RInv
  <1> SUFFICES ASSUME NEW p \in Len(tokens) .. n
               PROVE  LineAt(p)' \in Sampled(TargetProb(LineBefore(p)'))
    BY <1>2, <1>3 DEF OnlyPossible
  <1>5. LineBefore(p)' = LineBefore(p)
    BY <1>2, <1>3, SameBefore
  <1>6. CASE p = n
    BY <1>2, <1>4, <1>5, <1>6
  <1>7. CASE p # n
    <2>1. p \in Len(tokens) .. SettledLen - 1 /\ LineAt(p)' = LineAt(p)
      BY <1>2, <1>3, <1>7
    <2> QED BY <2>1, <1>5 DEF RInv, OnlyPossible
  <1> QED BY <1>6, <1>7

LEMMA SingleStepPossible == RInv /\ SingleStep => OnlyPossible'
  <1> SUFFICES ASSUME RInv, SingleStep PROVE OnlyPossible'
    OBVIOUS
  <1> DEFINE seen == Attended(targetKV, pos, LastToken)
  <1>0. PICK p : p = pos + 1
    OBVIOUS
  <1>1. /\ pc = "single" /\ pos = Len(tokens) - 1 /\ taken = 0
        /\ targetKV.filled = pos /\ pos \in Nat /\ pos < MaxCtx /\ MaxCtx \in Nat
        /\ CacheType(targetKV, MaxCtx) /\ tokens \in Seq(Token)
        /\ Coherent(targetKV, Line)
    BY ConstantFacts
       DEF RInv, IInv, TypeOK, SingleStep, Control, StepInv, PosInv, SingleInv,
           CacheCoherent, WantsMore
  <1>2. StoreAllowed(targetKV, pos, MaxCtx)
    BY <1>1 DEF StoreAllowed
  <1>3. pc' = "emit" /\ UNCHANGED <<tokens, taken>>
    BY <1>2 DEF SingleStep
  <1>4. PICK t \in Sampled(TargetProb(seen)) : out' = <<t>>
    BY <1>2 DEF SingleStep
  <1>5. /\ LineLen = p /\ LineAt(pos) = LastToken /\ LineLen' = p + 1
        /\ LineAt(p)' = t
        /\ \A q \in 0 .. p - 1 : LineAt(q)' = LineAt(q)
    BY <1>0, <1>1, <1>3, <1>4 DEF LineLen, LineAt, LastToken
  <1>6. seen = LineBefore(p)
    <2>1. /\ 0 .. pos \subseteq DOMAIN Line /\ LastToken = Line[pos]
          /\ \A q \in 0 .. pos : Line[q] = LineAt(q)
      BY <1>0, <1>1, <1>5 DEF Line
    <2>2. /\ MaxCtx \in Nat /\ CacheType(targetKV, MaxCtx) /\ targetKV.filled = pos
          /\ pos \in Nat /\ Coherent(targetKV, Line)
      BY <1>1
    <2>3. seen = [q \in 0 .. pos |-> Line[q]]
      BY ONLY <2>1, <2>2, AttendedIsLine
    <2> QED BY <1>0, <1>1, <2>1, <2>3 DEF LineBefore
  <1>7. SettledLen' = p + 1 /\ Len(tokens') = p
    BY <1>0, <1>1, <1>3, <1>5 DEF SettledLen
  <1>8. LineBefore(p)' = LineBefore(p)
    <2>1. p \in Nat /\ p \in 0 .. p
      BY <1>0, <1>1
    <2> QED BY <1>5, <2>1, SameBefore
  <1>9. ASSUME NEW r \in Len(tokens') .. SettledLen' - 1 PROVE r = p
    BY <1>0, <1>1, <1>7
  <1> QED BY <1>4, <1>5, <1>6, <1>8, <1>9 DEF OnlyPossible

LEMMA AcceptPossible == RInv /\ Accept => OnlyPossible'
  <1> SUFFICES ASSUME RInv, Accept PROVE OnlyPossible'
    OBVIOUS
  <1> DEFINE i == Len(out)
             n == Len(tokens) + i
  <1>1. /\ pc = "judge" /\ pc' = "judge" /\ i < Len(drafts)
        /\ CanAccept(TargetSays(i), DraftSays(i), drafts[i + 1])
        /\ out' = Append(out, drafts[i + 1])
        /\ UNCHANGED <<tokens, drafts, taken>>
    BY DEF Accept
  <1>2. /\ i \in 0 .. Len(drafts) /\ drafts[i + 1] \in Token /\ n \in Nat
        /\ Len(out') = i + 1 /\ Len(tokens) \in Nat
    BY <1>1, JudgeFacts DEF RInv
  <1>3. LineAt(n) = drafts[i + 1]
    BY <1>1, <1>2 DEF LineAt
  <1>4. LineAt(n) \in Sampled(TargetProb(LineBefore(n)))
    BY <1>1, <1>2, <1>3, SaidOfLine DEF CanAccept, Sampled, RInv
  <1>5. \A p : LineAt(p)' = LineAt(p) /\ LineBefore(p)' = LineBefore(p)
    BY <1>1 DEF LineAt, LineBefore
  <1>6. SettledLen = n /\ SettledLen' = n + 1
    BY <1>1, <1>2 DEF SettledLen
  <1> SUFFICES ASSUME NEW p \in Len(tokens) .. n
               PROVE  LineAt(p)' \in Sampled(TargetProb(LineBefore(p)'))
    BY <1>1, <1>2, <1>6 DEF OnlyPossible
  <1>7. p = n \/ p \in Len(tokens) .. SettledLen - 1
    BY <1>2, <1>6
  <1> QED BY <1>4, <1>5, <1>7 DEF RInv, OnlyPossible

LEMMA RejectPossible == ~ZeroDraw /\ RInv /\ Reject => OnlyPossible'
  <1> SUFFICES ASSUME ~ZeroDraw, RInv, Reject PROVE OnlyPossible'
    OBVIOUS
  <1> DEFINE i == Len(out)
  <1>1. /\ pc = "judge" /\ pc' = "emit" /\ i \in 0 .. Len(drafts) /\ i < Len(drafts)
        /\ UNCHANGED <<tokens, drafts, taken>>
    BY JudgeFacts DEF Reject, RInv
  <1>2. PICK c \in Correction(TargetSays(i), DraftSays(i)) : out' = Append(out, c)
    BY DEF Reject
  <1>3. TargetSays(i) \in [Token -> Nat] /\ DraftSays(i) \in [Token -> Nat]
    BY <1>1, SaidOfLine, SpecDecodeAssumption DEF Weights, RInv
  <1>4. c \in Sampled(TargetSays(i))
    BY <1>3, CorrectionPossible
  <1> QED BY <1>1, <1>2, <1>4, JudgedPossible

LEMMA AllAcceptedPossible == RInv /\ AllAccepted => OnlyPossible'
  <1> SUFFICES ASSUME RInv, AllAccepted PROVE OnlyPossible'
    OBVIOUS
  <1> DEFINE n == Len(drafts)
  <1>1. pc = "judge" /\ Len(out) = n
    BY DEF AllAccepted
  <1>2. StoreAllowed(draftKV, pos + n, Shared)
    BY <1>1, JudgeFacts DEF StoreAllowed, RInv
  <1>3. /\ pc' = "emit" /\ UNCHANGED <<tokens, drafts, taken>>
        /\ \E b \in Sampled(TargetSays(n)) : out' = Append(out, b)
    BY <1>2 DEF AllAccepted
  <1> QED BY <1>1, <1>3, JudgedPossible

LEMMA EmitTokenPossible == RInv /\ EmitToken => OnlyPossible'
  <1> SUFFICES ASSUME RInv, EmitToken PROVE OnlyPossible'
    OBVIOUS
  <1>1. /\ LineLen' = LineLen /\ LineLen \in Nat
        /\ \A q \in 0 .. LineLen - 1 : LineAt(q)' = LineAt(q)
    BY EmitTokenLine, LineFacts DEF RInv, IInv
  <1>2. /\ SettledLen = LineLen /\ SettledLen' = LineLen'
        /\ Len(tokens') = Len(tokens) + 1 /\ Len(tokens) \in Nat
    BY EmitFacts DEF EmitToken, SettledLen, RInv
  <1> SUFFICES ASSUME NEW p \in Len(tokens) + 1 .. LineLen - 1
               PROVE  LineAt(p)' \in Sampled(TargetProb(LineBefore(p)'))
    BY <1>1, <1>2 DEF OnlyPossible
  <1>3. LineAt(p)' = LineAt(p) /\ LineBefore(p)' = LineBefore(p)
    BY <1>1, <1>2, SameBefore
  <1>4. p \in Len(tokens) .. SettledLen - 1
    BY <1>1, <1>2
  <1> QED BY <1>3, <1>4 DEF RInv, OnlyPossible

(* Every other action ends with nothing settled ahead of the text.           *)
LEMMA NothingSettled ==
    ASSUME RInv,
           PromptRefused \/ PrefillToken \/ PrefillDone \/ LoopExit \/ StepRefused
             \/ BeginStep \/ DraftToken \/ VerifyPosition \/ EmitEos \/ EmitDone
    PROVE  OnlyPossible'
  <1>1. Len(tokens') \in Nat /\ SettledLen' = Len(tokens')
    <2>1. pc = "verify" => out = <<>>
      BY DEF RInv, IInv, Control, VerifyInv
    <2>2. pc' = "judge" => out' = <<>>
      BY <2>1 DEF PromptRefused, PrefillToken, PrefillDone, LoopExit, StepRefused,
          BeginStep, DraftToken, VerifyPosition, EmitEos, EmitDone
    <2>3. pc' # "emit" /\ tokens' = tokens
      BY DEF PromptRefused, PrefillToken, PrefillDone, LoopExit, StepRefused,
          BeginStep, DraftToken, VerifyPosition, EmitEos, EmitDone
    <2> QED BY <2>2, <2>3 DEF SettledLen, RInv, IInv, TypeOK
  <1> QED BY <1>1 DEF OnlyPossible

LEMMA StutterPossible == RInv /\ UNCHANGED vars => OnlyPossible'
  <1> SUFFICES ASSUME RInv, UNCHANGED vars PROVE OnlyPossible'
    OBVIOUS
  <1>1. /\ SettledLen' = SettledLen /\ tokens' = tokens
        /\ \A p : LineAt(p)' = LineAt(p) /\ LineBefore(p)' = LineBefore(p)
    BY DEF vars, SettledLen, LineLen, LineAt, LineBefore
  <1> QED BY <1>1 DEF RInv, OnlyPossible

LEMMA RInitial == Init => RInv
  <1> SUFFICES ASSUME Init PROVE RInv
    OBVIOUS
  <1>1. SettledLen = Len(tokens)
    BY DEF Init, SettledLen
  <1>2. Len(tokens) \in Nat
    BY InitInv DEF IInv, TypeOK
  <1> QED BY <1>1, <1>2, InitInv DEF RInv, OnlyPossible

LEMMA RInductive == ~ZeroDraw /\ RInv /\ [Next]_vars => RInv'
  <1>1. IInv /\ [Next]_vars => IInv'
    BY NextInv
  <1>2. ~ZeroDraw /\ RInv /\ [Next]_vars => OnlyPossible'
    BY SingleStepPossible, AcceptPossible, RejectPossible, AllAcceptedPossible,
       EmitTokenPossible, NothingSettled, StutterPossible DEF Next
  <1> QED BY <1>1, <1>2 DEF RInv

(* One step of the decoder is one step of plain decoding, or none.           *)
LEMMA StepRefines == RInv /\ RInv' /\ [Next]_vars => [D!Next]_D!vars
  <1> SUFFICES ASSUME RInv, RInv', [Next]_vars PROVE [D!Next]_D!vars
    OBVIOUS
  <1> DEFINE status == IF pc = "done" THEN "done"
                       ELSE IF pc = "failed" THEN "failed" ELSE "running"
  <1>1. pc \notin {"done", "failed"} /\ pc # "prefill" => pos = Len(tokens) - 1
    BY DEF RInv, IInv, Control, PosInv
  <1>2. D!WithinBudget <=> generated < MaxTokens /\ Len(tokens) - 1 < MaxCtx
    BY DEF D!WithinBudget
  <1>3. CASE PromptRefused \/ StepRefused
    BY <1>3 DEF PromptRefused, StepRefused, D!Next, D!Abort, D!vars
  <1>4. CASE LoopExit
    <2>1. ~D!WithinBudget
      BY <1>1, <1>2, <1>4 DEF LoopExit, WantsMore
    <2> QED BY <1>4, <2>1 DEF LoopExit, D!Next, D!OutOfBudget
  <1>5. ASSUME EmitToken \/ EmitEos
        PROVE  /\ D!WithinBudget
               /\ out[taken + 1] \in D!Possible(tokens)
    <2>1. pc = "emit" /\ taken < Len(out) /\ WantsMore
      BY <1>5 DEF EmitToken, EmitEos
    <2>2. D!WithinBudget
      BY <1>1, <1>2, <2>1 DEF WantsMore
    <2> DEFINE n == Len(tokens)
    <2>3. /\ n \in Nat /\ LineAt(n) = out[taken + 1] /\ n \in n .. SettledLen - 1
          /\ tokens \in Seq(Token)
      BY <2>1, EmitFacts DEF RInv, LineAt, SettledLen
    <2>4. LineAt(n) \in Sampled(TargetProb(LineBefore(n)))
      BY <2>3 DEF RInv, OnlyPossible
    <2>5. LineBefore(n) = D!ContextOf(tokens)
      BY <2>3 DEF LineBefore, LineAt, D!ContextOf
    <2> QED BY <2>2, <2>3, <2>4, <2>5 DEF Sampled, D!Possible
  <1>6. CASE EmitToken
    <2>1. D!Emit
      BY <1>5, <1>6 DEF EmitToken, D!Emit
    <2> QED BY <2>1 DEF D!Next
  <1>7. CASE EmitEos
    <2>1. D!EndOfSequence
      BY <1>5, <1>7 DEF EmitEos, D!EndOfSequence
    <2> QED BY <2>1 DEF D!Next
  <1>8. CASE PrefillToken \/ PrefillDone \/ BeginStep \/ SingleStep \/ DraftToken
               \/ VerifyPosition \/ Accept \/ Reject \/ AllAccepted \/ EmitDone
    <2>1. out # <<>> \/ pc # "emit"
      BY DEF RInv, IInv, Control, EmitInv
    <2>2. /\ pc \notin {"done", "failed"} /\ pc' \notin {"done", "failed"}
          /\ UNCHANGED <<tokens, generated>>
      BY <1>8, <2>1
         DEF PrefillToken, PrefillDone, BeginStep, SingleStep, DraftToken,
             VerifyPosition, Accept, Reject, AllAccepted, EmitDone
    <2> QED BY <2>2 DEF D!vars
  <1>9. CASE UNCHANGED vars
    BY <1>9 DEF vars, D!vars
  <1> QED BY <1>3, <1>4, <1>6, <1>7, <1>8, <1>9 DEF Next

(* Speculative decoding implements plain decoding: whatever the draft model   *)
(* proposes, and for any windows and K, the text that comes out is one the    *)
(* target model could have produced token by token, and it ends for the same  *)
(* reasons.  The hypothesis excludes a random draw of exactly 0.0, for which   *)
(* the correction may stop at a token of no weight.                           *)
THEOREM Refinement == ASSUME ~ZeroDraw PROVE Spec => SequentialDecoding
  <1>1. Init => D!Init
    BY DEF Init, D!Init
  <1>2. RInv /\ [Next]_vars => RInv'
    BY RInductive
  <1>3. Spec => []RInv
    BY RInitial, <1>2, PTL DEF Spec
  <1> QED BY <1>1, <1>3, StepRefines, PTL DEF Spec, SequentialDecoding, D!Spec
=============================================================================
