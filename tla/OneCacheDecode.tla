--------------------------- MODULE OneCacheDecode ---------------------------
(***************************************************************************)
(* The two speculative decoders of rai-infer without a draft model:        *)
(* LookupDecoder (lookup.rs), which copies its draft out of the text, and  *)
(* SelfSpecDecoder (self_speculative.rs), which drafts with some of the    *)
(* target's own layers.  Either is driven by the loop that run.rs writes   *)
(* for the first; nothing in the repository drives the second.             *)
(*                                                                         *)
(* There is one key/value cache, and draft and verification both write to  *)
(* it.  The draft pass stores entries in its own layers only, computed     *)
(* without the layers it skips: the layers run at different watermarks,    *)
(* and every such entry has to be overwritten before the target attends    *)
(* to it.  So the cache is split in two, the layers a draft pass runs and  *)
(* the others; within a part all layers move together.                     *)
(***************************************************************************)
EXTENDS KVCache, Acceptance, Sequences, FiniteSetsExt

CONSTANTS
    Eos, MaxCtx, MaxTokens, Prompts, TargetProb(_),
    DraftProb(_),        \* the draft layers: a context to its token weights
    Drafters,            \* which decoders: a subset of {"lookup", "layers"}
    MinNgram, MaxNgram,  \* --lookup-min-ngram, --lookup-ngram
    K                    \* --lookup-k, SelfSpecConfig::draft_k

Contexts == UNION {[0 .. n - 1 -> Token] : n \in 1 .. MaxCtx}

ASSUME OneCacheAssumption ==
    /\ Token \subseteq Nat /\ 0 \in Token
    /\ Eos \subseteq Token
    /\ MaxCtx \in Nat \ {0}
    /\ MaxTokens \in Nat \ {0}
    /\ K \in Nat \ {0}
    /\ MinNgram \in Nat \ {0} /\ MaxNgram \in Nat /\ MinNgram <= MaxNgram
    /\ Drafters \subseteq {"lookup", "layers"}
    /\ ZeroDraw \in BOOLEAN
    /\ \A s \in Prompts : s \in Seq(Token) /\ Len(s) \in 1 .. MaxCtx
    /\ \A c \in Contexts : Weights(TargetProb(c)) /\ Weights(DraftProb(c))

VARIABLES
    drafter,       \* which decoder the run uses
    tokens,        \* all_tokens
    generated,     \* tokens_generated
    pos,           \* where the last token of `tokens` will be processed
    draftKV,       \* kv_cache, the layers in draft_layer_indices
    restKV,        \* kv_cache, the other layers
    pc,            \* the phase the single thread is in
    drafts,        \* draft_tokens of the step under way
    draftProbs,    \* draft_probs: the weights each draft was sampled from
    verified,      \* positions of the verification batch stored so far
    out,           \* accepted_tokens of the step under way, new_tokens after it
    taken          \* how many of `out` the caller's loop has consumed

caches == <<draftKV, restKV>>
step   == <<drafts, draftProbs, verified, out, taken>>
text   == <<tokens, generated, pos>>
vars   == <<drafter, text, caches, pc, step>>

Ended == {"done", "failed", "panicked"}

-----------------------------------------------------------------------------
(* Lookup: the most recent earlier occurrence of the longest suffix that     *)
(* has one; what followed it is the draft, up to max tokens and the end.     *)
NgramDraft(s, max) ==
    LET len     == Len(s)
        suffix(n)  == SubSeq(s, len - n + 1, len)
        starts(n)  == {i \in 1 .. len - n : SubSeq(s, i, i + n - 1) = suffix(n)}
        lengths == {n \in MinNgram .. Lesser(MaxNgram, len - 1) : starts(n) # {}}
    IN  IF max = 0 \/ lengths = {}
        THEN <<>>
        ELSE LET n    == Max(lengths)
                 from == Max(starts(n)) + n
             IN  SubSeq(s, from, Lesser(from + max - 1, len))

(* How many tokens this step may draft: one verification position is kept    *)
(* for the last of them.                                                     *)
BudgetOneTooMany == Lesser(K, MaxCtx - pos)  \* mutant: forgets that position

Budget == Lesser(K, MaxCtx - pos - 1)

LastToken == tokens[Len(tokens)]

(* The i-th token (from 1) of the verification batch. *)
VerifyToken(i) == IF i = 1 THEN LastToken ELSE drafts[i - 1]

(* What a pass over some of the layers leaves in the cache is no value the   *)
(* whole model would compute: its tokens are kept, marked by their sign.     *)
Skimmed(t) == -1 - t
Plain(m)   == IF m < 0 THEN -1 - m ELSE m

(* The point mass a copied draft is compared with, on the scale of p: all    *)
(* the weight there is, more than p[t] if p leaves some to another token.    *)
PointMass(t, p) ==
    [x \in Token |-> IF x # t THEN 0
                     ELSE IF \E y \in Token \ {t} : p[y] > 0 THEN p[t] + 1
                     ELSE p[t]]

(* A pass of the whole model over t at position `at` stores and attends in   *)
(* both parts: a token it finds skimmed in one of them spoils what it        *)
(* computes.                                                                 *)
FullPassAllowed(at) ==
    StoreAllowed(draftKV, at, MaxCtx) /\ StoreAllowed(restKV, at, MaxCtx)

Seen(at, t) ==
    [q \in 0 .. at |->
        IF q = at THEN t
        ELSE IF draftKV.data[q][q] = restKV.data[q][q] THEN restKV.data[q][q]
        ELSE Skimmed(restKV.data[q][q])]

FullPassFillsGaps(at, t) ==    \* mutant: the draft's entries are left in place
    /\ draftKV' = IF at < draftKV.filled
                  THEN draftKV
                  ELSE Store(draftKV, at, MaxCtx, Seen(at, t))
    /\ restKV' = Store(restKV, at, MaxCtx, Seen(at, t))

FullPass(at, t) ==
    /\ draftKV' = Store(draftKV, at, MaxCtx, Seen(at, t))
    /\ restKV' = Store(restKV, at, MaxCtx, Seen(at, t))

TruncateTo(len) ==
    /\ draftKV' = Truncate(draftKV, len)
    /\ restKV' = Truncate(restKV, len)

-----------------------------------------------------------------------------
Init ==
    /\ drafter \in Drafters
    /\ tokens \in Prompts
    /\ generated = 0
    /\ pos = 0
    /\ draftKV = NewCache(MaxCtx)
    /\ restKV = NewCache(MaxCtx)
    /\ pc = "prefill"
    /\ drafts = <<>>
    /\ draftProbs = <<>>
    /\ verified = 0
    /\ out = <<>>
    /\ taken = 0

(* prefill: every prompt token but the last, in one batch or one at a time.  *)
Prefill ==
    /\ pc = "prefill"
    /\ IF Len(tokens) > MaxCtx
       THEN pc' = "failed" /\ UNCHANGED <<pos, caches>>
       ELSE IF pos = Len(tokens) - 1
       THEN pc' = "loop" /\ UNCHANGED <<pos, caches>>
       ELSE IF FullPassAllowed(pos)
       THEN FullPass(pos, tokens[pos + 1]) /\ pos' = pos + 1 /\ UNCHANGED pc
       ELSE pc' = "panicked" /\ UNCHANGED <<pos, caches>>
    /\ UNCHANGED <<drafter, tokens, generated, step>>

(* run.rs: while tokens_generated < max_tokens && pos < max_ctx.             *)
WantsMore == generated < MaxTokens /\ pos < MaxCtx

LoopExit ==
    /\ pc = "loop"
    /\ ~WantsMore
    /\ pc' = "done"
    /\ UNCHANGED <<drafter, text, caches, step>>

(* The errors that would end a run here: the loop's check that the text and  *)
(* the position agree, which only the lookup loop makes, and step's check of *)
(* the window.  A copied draft is in the vocabulary because the text is.     *)
BeginStep ==
    /\ pc = "loop"
    /\ WantsMore
    /\ IF pos >= MaxCtx \/ (drafter = "lookup" /\ pos + 1 # Len(tokens))
       THEN pc' = "failed" /\ UNCHANGED drafts
       ELSE /\ drafts' = IF drafter = "lookup" THEN NgramDraft(tokens, Budget) ELSE <<>>
            /\ pc' = IF drafter = "layers"
                     THEN IF Budget = 0 THEN "single" ELSE "draft"
                     ELSE IF drafts' = <<>> THEN "single" ELSE "verify"
    /\ draftProbs' = <<>>
    /\ verified' = 0
    /\ out' = <<>>
    /\ taken' = 0
    /\ UNCHANGED <<drafter, text, caches>>

(* No draft, or no room for one: one ordinary step of the whole model. *)
SingleStep ==
    /\ pc = "single"
    /\ IF FullPassAllowed(pos)
       THEN /\ FullPass(pos, LastToken)
            /\ \E t \in Sampled(TargetProb(Seen(pos, LastToken))) : out' = <<t>>
            /\ pc' = "emit"
       ELSE /\ pc' = "panicked"
            /\ UNCHANGED <<caches, out>>
    /\ UNCHANGED <<drafter, text, drafts, draftProbs, verified, taken>>

(* Phase 1 of SelfSpecDecoder, one iteration: the draft layers process the   *)
(* last proposal (at first the last committed token) and propose the next.   *)
DraftToken ==
    /\ pc = "draft"
    /\ LET at   == pos + Len(drafts)
           t    == VerifyToken(Len(drafts) + 1)
           seen == [q \in 0 .. at |-> IF q = at THEN t ELSE Plain(draftKV.data[q][q])]
           prob == DraftProb(seen)
       IN  IF StoreAllowed(draftKV, at, MaxCtx)
           THEN /\ draftKV' = Store(draftKV, at, MaxCtx,
                                    Attended(draftKV, at, Skimmed(t)))
                /\ \E n \in Sampled(prob) : drafts' = Append(drafts, n)
                /\ draftProbs' = Append(draftProbs, prob)
                /\ pc' = IF Len(drafts) + 1 = Budget THEN "verify" ELSE "draft"
           ELSE /\ pc' = "panicked"
                /\ UNCHANGED <<draftKV, drafts, draftProbs>>
    /\ UNCHANGED <<drafter, text, restKV, verified, out, taken>>

(* One position of the verification batch: forward_batch stores a layer's    *)
(* positions in order before any of them attends, and position i reads only  *)
(* 0..i.                                                                     *)
VerifyPosition ==
    /\ pc = "verify"
    /\ IF FullPassAllowed(pos + verified)
       THEN /\ FullPass(pos + verified, VerifyToken(verified + 1))
            /\ verified' = verified + 1
            /\ pc' = IF verified = Len(drafts) THEN "judge" ELSE "verify"
       ELSE /\ pc' = "panicked"
            /\ UNCHANGED <<caches, verified>>
    /\ UNCHANGED <<drafter, text, drafts, draftProbs, out, taken>>

(* The weights for the draft at index i (from 0). *)
TargetSays(i) == TargetProb(restKV.data[pos + i])
DraftSays(i)  == IF drafter = "lookup"
                 THEN PointMass(drafts[i + 1], TargetSays(i))
                 ELSE draftProbs[i + 1]

Accept ==
    /\ pc = "judge"
    /\ Len(out) < Len(drafts)
    /\ LET i == Len(out)
           t == drafts[i + 1]
       IN  /\ CanAccept(TargetSays(i), DraftSays(i), t)
           /\ out' = Append(out, t)
    /\ UNCHANGED <<drafter, text, caches, pc, drafts, draftProbs, verified, taken>>

(* The first rejection: its replacement ends the step, and every layer drops *)
(* what lies beyond the tokens produced.                                     *)
Reject ==
    /\ pc = "judge"
    /\ Len(out) < Len(drafts)
    /\ LET i == Len(out)
           t == drafts[i + 1]
       IN  /\ CanReject(TargetSays(i), DraftSays(i), t)
           /\ \E c \in Correction(TargetSays(i), DraftSays(i)) : out' = Append(out, c)
           /\ TruncateTo(pos + i + 1)
    /\ pc' = "emit"
    /\ UNCHANGED <<drafter, text, drafts, draftProbs, verified, taken>>

(* Every draft accepted: a bonus token from the last verification position.  *)
AllAccepted ==
    /\ pc = "judge"
    /\ Len(out) = Len(drafts)
    /\ \E b \in Sampled(TargetSays(Len(drafts))) : out' = Append(out, b)
    /\ TruncateTo(pos + Len(drafts) + 1)
    /\ pc' = "emit"
    /\ UNCHANGED <<drafter, text, drafts, draftProbs, verified, taken>>

-----------------------------------------------------------------------------
(* run.rs: one iteration over new_tokens.iter().take(remaining). *)
EmitTokenOverBudget ==                   \* mutant: `take(remaining)` is dropped
    /\ pc = "emit"
    /\ taken < Len(out)
    /\ out[taken + 1] \notin Eos
    /\ tokens' = Append(tokens, out[taken + 1])
    /\ pos' = pos + 1
    /\ generated' = generated + 1
    /\ taken' = taken + 1
    /\ UNCHANGED <<drafter, caches, pc, drafts, draftProbs, verified, out>>

EmitToken ==
    /\ pc = "emit"
    /\ taken < Len(out)
    /\ WantsMore
    /\ out[taken + 1] \notin Eos
    /\ tokens' = Append(tokens, out[taken + 1])
    /\ pos' = pos + 1
    /\ generated' = generated + 1
    /\ taken' = taken + 1
    /\ UNCHANGED <<drafter, caches, pc, drafts, draftProbs, verified, out>>

EmitEosGoesOn ==                         \* mutant: the outer loop is not left
    /\ pc = "emit"
    /\ taken < Len(out)
    /\ WantsMore
    /\ out[taken + 1] \in Eos
    /\ pc' = "loop"
    /\ UNCHANGED <<drafter, text, caches, step>>

EmitEos ==
    /\ pc = "emit"
    /\ taken < Len(out)
    /\ WantsMore
    /\ out[taken + 1] \in Eos
    /\ pc' = "done"
    /\ UNCHANGED <<drafter, text, caches, step>>

(* Before its first iteration the loop insists that the step made progress. *)
EmitDone ==
    /\ pc = "emit"
    /\ taken = Len(out) \/ ~WantsMore
    /\ pc' = IF out = <<>> THEN "failed" ELSE "loop"
    /\ UNCHANGED <<drafter, text, caches, step>>

Next ==
    \/ Prefill \/ LoopExit \/ BeginStep \/ SingleStep
    \/ DraftToken \/ VerifyPosition \/ Accept \/ Reject \/ AllAccepted
    \/ EmitToken \/ EmitEos \/ EmitDone

(* The loop runs on the main thread and nothing in it waits. *)
Spec == Init /\ [][Next]_vars /\ WF_vars(Next)

-----------------------------------------------------------------------------
(* The sequence the cache is working on: the committed tokens, then the      *)
(* draft under way, or what the step produced and is not consumed yet.       *)
Line ==
    LET ahead == CASE pc \in {"draft", "verify", "judge"} -> drafts
                   [] pc = "emit" -> SubSeq(out, taken + 1, Len(out))
                   [] OTHER -> <<>>
        s     == tokens \o ahead
    IN  [p \in 0 .. Len(s) - 1 |-> s[p + 1]]

(* No step runs into an assertion of the cache or an error of its own: text, *)
(* position, window and watermarks never go out of step with one another,    *)
(* although the layers are filled to different depths in between.            *)
NeverStuck == pc \notin {"failed", "panicked"}

(* Wherever every layer is filled, every layer holds the entry the whole     *)
(* model computes from the text: nothing a draft pass or a rejected draft    *)
(* left behind is attended to.  Between steps no layer is ahead or behind.   *)
CacheCoherent ==
    /\ LET whole == Lesser(draftKV.filled, restKV.filled)
       IN  /\ Coherent([draftKV EXCEPT !.filled = whole], Line)
           /\ Coherent([restKV EXCEPT !.filled = whole], Line)
    /\ pc = "loop" /\ WantsMore => draftKV.filled = pos /\ restKV.filled = pos

(* A draft without a draft model changes the speed of a run and not what it  *)
(* can produce: every token is one the target model could emit after the     *)
(* text before it, in a copied run of text as in one drafted by its layers.  *)
D == INSTANCE Decode WITH
        status <- IF pc \in {"done", "failed"} THEN pc ELSE "running"

SequentialDecoding == D!Spec

(* Every run ends: each step commits at least one token or the end. *)
Termination == <>(pc \in Ended)
=============================================================================
