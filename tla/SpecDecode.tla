----------------------------- MODULE SpecDecode -----------------------------
(***************************************************************************)
(* Draft-model speculative decoding: SpeculativeDecoder of                 *)
(* rai-infer/src/speculative.rs, driven by the "SPECULATIVE DECODING" loop *)
(* of rai-infer/src/cli/run.rs.                                            *)
(*                                                                         *)
(* A small draft model proposes up to K tokens one by one, the target      *)
(* model scores all of them in one batched pass, and each is accepted or   *)
(* rejected.  Both models keep a key/value cache that runs ahead of the    *)
(* committed text while a step is under way and is truncated at its end.   *)
(* What can go wrong is the bookkeeping: an entry of a rejected draft that *)
(* still counts, a position neither model ever processed, or a step that   *)
(* runs past a window.                                                     *)
(*                                                                         *)
(* All layers of one model move together on this path (every forward pass  *)
(* runs every layer), so one LayerKVCache stands for the cache of a model. *)
(***************************************************************************)
EXTENDS KVCache, Acceptance, Sequences

CONSTANTS
    Eos, MaxCtx, MaxTokens, Prompts, TargetProb(_),
    DraftProb(_),    \* the draft model: a context to its token weights
    DraftWindows,    \* the max_context a draft model's header may hold
    K                \* --draft-k

(* A context: the tokens at positions 0..n-1. *)
Contexts == UNION {[0 .. n - 1 -> Token] : n \in 1 .. MaxCtx}

ASSUME SpecDecodeAssumption ==
    /\ Token \subseteq Nat /\ 0 \in Token
    /\ Eos \subseteq Token
    /\ MaxCtx \in Nat \ {0}
    /\ MaxTokens \in Nat \ {0}
    /\ K \in Nat \ {0}
    /\ DraftWindows \subseteq Nat \ {0}
    /\ ZeroDraw \in BOOLEAN
    /\ \A s \in Prompts : s \in Seq(Token) /\ Len(s) \in 1 .. MaxCtx
    /\ \A c \in Contexts : Weights(TargetProb(c)) /\ Weights(DraftProb(c))

VARIABLES
    tokens,        \* all_tokens
    generated,     \* tokens_generated
    pos,           \* where the last token of `tokens` will be processed
    draftMax,      \* draft.config.max_context
    draftKV,       \* SpeculativeDecoder::draft_kv
    targetKV,      \* SpeculativeDecoder::target_kv
    pc,            \* the phase the single thread is in
    drafts,        \* draft_tokens of the step under way
    verified,      \* positions of the verification batch stored so far
    out,           \* accepted_tokens of the step under way, new_tokens after it
    taken          \* how many of `out` the caller's loop has consumed

vars == <<tokens, generated, pos, draftMax, draftKV, targetKV, pc, drafts,
          verified, out, taken>>

Ended == {"done", "failed", "panicked"}

-----------------------------------------------------------------------------
(* SpeculativeDecoder::new clamps the shared window and the draft's cache to *)
(* what both models support.  The target's own window is at least MaxCtx:    *)
(* choose_context_window has clamped MaxCtx to it.                           *)
SharedLessOne == Lesser(MaxCtx, draftMax) - 1   \* mutant: off by one

Shared == Lesser(MaxCtx, draftMax)

(* How many tokens this step drafts: one verification position is kept for   *)
(* the last drafted token.                                                   *)
OneTooMany == Lesser(K, Shared - pos)        \* mutant: forgets that position

Budget == Lesser(K, Shared - pos - 1)

LastToken == tokens[Len(tokens)]

(* The i-th token (from 1) of the verification batch. *)
VerifyToken(i) == IF i = 1 THEN LastToken ELSE drafts[i - 1]

-----------------------------------------------------------------------------
Init ==
    /\ tokens \in Prompts
    /\ generated = 0
    /\ pos = 0
    /\ draftMax \in DraftWindows
    /\ draftKV = NewCache(Shared)
    /\ targetKV = NewCache(MaxCtx)
    /\ pc = "prefill"
    /\ drafts = <<>>
    /\ verified = 0
    /\ out = <<>>
    /\ taken = 0

(* prefill refuses a prompt longer than the shared window. *)
PromptRefused ==
    /\ pc = "prefill" /\ pos = 0
    /\ Len(tokens) > Shared
    /\ pc' = "failed"
    /\ UNCHANGED <<tokens, generated, pos, draftMax, draftKV, targetKV, drafts,
                   verified, out, taken>>

(* One iteration of prefill's loop: the draft, then the target.  The last    *)
(* prompt token is left for the first step.                                  *)
PrefillToken ==
    /\ pc = "prefill"
    /\ Len(tokens) <= Shared
    /\ pos < Len(tokens) - 1
    /\ LET t       == tokens[pos + 1]
           allowed == /\ StoreAllowed(draftKV, pos, Shared)
                      /\ StoreAllowed(targetKV, pos, MaxCtx)
       IN  IF allowed
           THEN /\ draftKV' = Store(draftKV, pos, Shared, Attended(draftKV, pos, t))
                /\ targetKV' = Store(targetKV, pos, MaxCtx, Attended(targetKV, pos, t))
                /\ pos' = pos + 1
                /\ UNCHANGED pc
           ELSE /\ pc' = "panicked"
                /\ UNCHANGED <<draftKV, targetKV, pos>>
    /\ UNCHANGED <<tokens, generated, draftMax, drafts, verified, out, taken>>

PrefillDone ==
    /\ pc = "prefill"
    /\ Len(tokens) <= Shared
    /\ pos = Len(tokens) - 1
    /\ pc' = "loop"
    /\ UNCHANGED <<tokens, generated, pos, draftMax, draftKV, targetKV, drafts,
                   verified, out, taken>>

-----------------------------------------------------------------------------
(* run.rs: while tokens_generated < max_tokens && pos < max_ctx.             *)
WantsMore == generated < MaxTokens /\ pos < MaxCtx

LoopExit ==
    /\ pc = "loop"
    /\ ~WantsMore
    /\ pc' = "done"
    /\ UNCHANGED <<tokens, generated, pos, draftMax, draftKV, targetKV, drafts,
                   verified, out, taken>>

(* step: the position lies outside the decoder's own window, and the error   *)
(* ends the run.                                                             *)
StepRefused ==
    /\ pc = "loop"
    /\ WantsMore
    /\ pos >= Shared
    /\ pc' = "failed"
    /\ UNCHANGED <<tokens, generated, pos, draftMax, draftKV, targetKV, drafts,
                   verified, out, taken>>

BeginStep ==
    /\ pc = "loop"
    /\ WantsMore
    /\ pos < Shared
    /\ pc' = IF Budget = 0 THEN "single" ELSE "draft"
    /\ drafts' = <<>>
    /\ verified' = 0
    /\ out' = <<>>
    /\ taken' = 0
    /\ UNCHANGED <<tokens, generated, pos, draftMax, draftKV, targetKV>>

(* step with k = 0: one exact target-model step; the draft is not run.       *)
SingleStep ==
    /\ pc = "single"
    /\ IF StoreAllowed(targetKV, pos, MaxCtx)
       THEN LET seen == Attended(targetKV, pos, LastToken)
            IN  /\ targetKV' = Store(targetKV, pos, MaxCtx, seen)
                /\ \E t \in Sampled(TargetProb(seen)) : out' = <<t>>
                /\ pc' = "emit"
       ELSE /\ pc' = "panicked"
            /\ UNCHANGED <<targetKV, out>>
    /\ UNCHANGED <<tokens, generated, pos, draftMax, draftKV, drafts, verified,
                   taken>>

(* Phase 1, one iteration: the draft processes its last proposal (at first   *)
(* the last committed token) and proposes the next one.                      *)
DraftToken ==
    /\ pc = "draft"
    /\ LET at   == pos + Len(drafts)
           t    == VerifyToken(Len(drafts) + 1)
           seen == Attended(draftKV, at, t)
       IN  IF StoreAllowed(draftKV, at, Shared)
           THEN /\ draftKV' = Store(draftKV, at, Shared, seen)
                /\ \E n \in Sampled(DraftProb(seen)) : drafts' = Append(drafts, n)
                /\ pc' = IF Len(drafts) + 1 = Budget THEN "verify" ELSE "draft"
           ELSE /\ pc' = "panicked"
                /\ UNCHANGED <<draftKV, drafts>>
    /\ UNCHANGED <<tokens, generated, pos, draftMax, targetKV, verified, out, taken>>

(* Phase 2, one position of the batch: forward_batch stores the positions in *)
(* order before any of them attends, and position i reads only 0..i.         *)
VerifyPosition ==
    /\ pc = "verify"
    /\ LET at == pos + verified
           t  == VerifyToken(verified + 1)
       IN  IF StoreAllowed(targetKV, at, MaxCtx)
           THEN /\ targetKV' = Store(targetKV, at, MaxCtx, Attended(targetKV, at, t))
                /\ verified' = verified + 1
                /\ pc' = IF verified = Len(drafts) THEN "judge" ELSE "verify"
           ELSE /\ pc' = "panicked"
                /\ UNCHANGED <<targetKV, verified>>
    /\ UNCHANGED <<tokens, generated, pos, draftMax, draftKV, drafts, out, taken>>

(* The logits both models gave for the draft at index i (from 0): each is    *)
(* the output of the pass that stored position pos + i.                      *)
TargetSays(i) == TargetProb(targetKV.data[pos + i])
DraftSays(i)  == DraftProb(draftKV.data[pos + i])

(* Phase 3, a draft token accepted. *)
Accept ==
    /\ pc = "judge"
    /\ Len(out) < Len(drafts)
    /\ LET i == Len(out)
           t == drafts[i + 1]
       IN  /\ CanAccept(TargetSays(i), DraftSays(i), t)
           /\ out' = Append(out, t)
    /\ UNCHANGED <<tokens, generated, pos, draftMax, draftKV, targetKV, pc, drafts,
                   verified, taken>>

(* Phase 3, the first rejection: its replacement ends the step, and both     *)
(* caches drop what lies beyond the tokens produced.                         *)
Reject ==
    /\ pc = "judge"
    /\ Len(out) < Len(drafts)
    /\ LET i == Len(out)
           t == drafts[i + 1]
       IN  /\ CanReject(TargetSays(i), DraftSays(i), t)
           /\ \E c \in Correction(TargetSays(i), DraftSays(i)) : out' = Append(out, c)
           /\ draftKV' = Truncate(draftKV, pos + i + 1)
           /\ targetKV' = Truncate(targetKV, pos + i + 1)
    /\ pc' = "emit"
    /\ UNCHANGED <<tokens, generated, pos, draftMax, drafts, verified, taken>>

(* Phase 3, every draft accepted: a bonus token from the last verification   *)
(* position.  The draft has not processed its last proposal yet; its cache   *)
(* is advanced so that the next step finds no gap.                           *)
AllAccepted ==
    /\ pc = "judge"
    /\ Len(out) = Len(drafts)
    /\ LET n == Len(drafts)
       IN  IF StoreAllowed(draftKV, pos + n, Shared)
           THEN /\ \E b \in Sampled(TargetSays(n)) : out' = Append(out, b)
                /\ LET advanced == Store(draftKV, pos + n, Shared,
                                         Attended(draftKV, pos + n, drafts[n]))
                   IN  draftKV' = Truncate(advanced, pos + n + 1)
                /\ targetKV' = Truncate(targetKV, pos + n + 1)
                /\ pc' = "emit"
           ELSE /\ pc' = "panicked"
                /\ UNCHANGED <<draftKV, targetKV, out>>
    /\ UNCHANGED <<tokens, generated, pos, draftMax, drafts, verified, taken>>

-----------------------------------------------------------------------------
(* run.rs: one iteration over new_tokens.iter().take(remaining). `remaining` *)
(* is fixed before the loop, and shrinks by one with each token taken.       *)
EmitToken ==
    /\ pc = "emit"
    /\ taken < Len(out)
    /\ WantsMore
    /\ out[taken + 1] \notin Eos
    /\ tokens' = Append(tokens, out[taken + 1])
    /\ pos' = pos + 1
    /\ generated' = generated + 1
    /\ taken' = taken + 1
    /\ UNCHANGED <<draftMax, draftKV, targetKV, pc, drafts, verified, out>>

EmitEosGoesOn ==                         \* mutant: the outer loop is not left
    /\ pc = "emit"
    /\ taken < Len(out)
    /\ WantsMore
    /\ out[taken + 1] \in Eos
    /\ pc' = "loop"
    /\ UNCHANGED <<tokens, generated, pos, draftMax, draftKV, targetKV, drafts,
                   verified, out, taken>>

EmitEos ==
    /\ pc = "emit"
    /\ taken < Len(out)
    /\ WantsMore
    /\ out[taken + 1] \in Eos
    /\ pc' = "done"
    /\ UNCHANGED <<tokens, generated, pos, draftMax, draftKV, targetKV, drafts,
                   verified, out, taken>>

(* Before its first iteration the loop insists that the step made progress. *)
EmitDone ==
    /\ pc = "emit"
    /\ taken = Len(out) \/ ~WantsMore
    /\ pc' = IF out = <<>> THEN "failed" ELSE "loop"
    /\ UNCHANGED <<tokens, generated, pos, draftMax, draftKV, targetKV, drafts,
                   verified, out, taken>>

Next ==
    \/ PromptRefused \/ PrefillToken \/ PrefillDone
    \/ LoopExit \/ StepRefused \/ BeginStep \/ SingleStep
    \/ DraftToken \/ VerifyPosition \/ Accept \/ Reject \/ AllAccepted
    \/ EmitToken \/ EmitEos \/ EmitDone

(* The loop runs on the main thread and nothing in it waits. *)
Spec == Init /\ [][Next]_vars /\ WF_vars(Next)

-----------------------------------------------------------------------------
(* The sequence the caches are working on: the committed tokens, then the    *)
(* proposals of the step under way, or what it produced and the caller has   *)
(* not consumed yet.                                                         *)
LineLen ==
    CASE pc \in {"draft", "verify", "judge"} -> Len(tokens) + Len(drafts)
      [] pc = "emit"                         -> Len(tokens) + Len(out) - taken
      [] OTHER                               -> Len(tokens)

LineAt(p) ==
    IF p < Len(tokens) THEN tokens[p + 1]
    ELSE IF pc = "emit" THEN out[taken + p - Len(tokens) + 1]
    ELSE drafts[p - Len(tokens) + 1]

Line == [p \in 0 .. LineLen - 1 |-> LineAt(p)]

(* The variables have their types, and no cache outgrows its window. *)
TypeOK ==
    /\ tokens \in Seq(Token) /\ Len(tokens) \in 1 .. MaxCtx + 1
    /\ generated \in 0 .. MaxTokens
    /\ pos \in 0 .. MaxCtx
    /\ draftMax \in DraftWindows
    /\ CacheType(draftKV, Shared)
    /\ CacheType(targetKV, MaxCtx)
    /\ pc \in {"prefill", "loop", "single", "draft", "verify", "judge", "emit"}
              \cup Ended
    /\ drafts \in Seq(Token) /\ Len(drafts) <= K
    /\ verified \in 0 .. K + 1
    /\ out \in Seq(Token) /\ Len(out) <= K + 1
    /\ taken \in 0 .. Len(out)

(* kv_cache.rs turns a gap, or a position outside the window, into a panic:  *)
(* no step of a decode ever runs into one.                                   *)
NoPanic == pc # "panicked"

(* Every entry that counts, in both models' caches, was computed from        *)
(* exactly the tokens of the sequence up to its position: nothing of a       *)
(* rejected draft is ever attended to.                                       *)
CacheCoherent == Coherent(draftKV, Line) /\ Coherent(targetKV, Line)

(* A step starts with both caches filled up to the token it will process,    *)
(* neither behind (a missing context position) nor ahead (a stale draft).    *)
Frontier ==
    pc = "loop" /\ WantsMore /\ pos < Shared =>
        /\ pos = Len(tokens) - 1
        /\ draftKV.filled = pos
        /\ targetKV.filled = pos

(* A run ends in an error only where the text has reached the window of a    *)
(* draft model smaller than the run's own.                                   *)
FailsOnlyAtDraftWindow ==
    pc = "failed" => draftMax < MaxCtx /\ Len(tokens) > draftMax

(* Speculation changes the speed of a run and not what it can produce:       *)
(* every token is one the target model could emit after the text before it.  *)
D == INSTANCE Decode WITH
        status <- IF pc = "done" THEN "done"
                  ELSE IF pc = "failed" THEN "failed"
                  ELSE "running"

SequentialDecoding == D!Spec

(* Every run ends, whatever is accepted and rejected: each step commits at   *)
(* least one token.                                                          *)
Termination == <>(pc \in Ended)

(* step's own assertion (`pos >= self.max_ctx` is an error): the caller's    *)
(* loop never asks for a position outside the decoder's window.              *)
StepsInsideWindow == pc = "loop" /\ WantsMore => pos < Shared

=============================================================================
