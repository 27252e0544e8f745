----------------------------- MODULE Inference ------------------------------
(***************************************************************************)
(* A session with a loaded model: the calls its users make on the one      *)
(* cache, in any order the decoding loops produce - single passes, batches *)
(* (verification and prefill), the layer-skipping drafts of self-          *)
(* speculation, rollbacks, and pondered passes.                            *)
(*                                                                         *)
(* Against it stands Reference, the transformer itself: a function of the  *)
(* text alone, without a cache, a batch or a position to keep.             *)
(***************************************************************************)
EXTENDS Ponder

CONSTANTS
    Token,
    Models,         \* the models a session may have loaded
    Strategies,     \* pairs of a ponder strategy and ensemble_n
    MaxBatch,
    DraftLayers     \* the layers a draft pass runs, ascending

ASSUME InferenceAssumption ==
    /\ NumLayers \in Nat \ {0}
    /\ Token \subseteq Nat /\ NullToken \in Token
    /\ MaxCtx \in Nat \ {0} /\ MaxBatch \in Nat \ {0}
    /\ \A m \in Models : Loadable(m) /\ m.experts \in Nat
    /\ Strategies \subseteq
           {"none", "cfg", "ensemble", "cfg+ensemble", "adaptive"} \X Nat
    /\ DraftLayers \in Seq(0 .. NumLayers - 1)

VARIABLES
    model,     \* the loaded model
    text,      \* the tokens processed, by position from 0: a sequence
    cache,     \* the KVCache, one record per layer
    out        \* what the last call returned

vars == <<model, text, cache, out>>

Nothing == [kind |-> "nothing"]

-----------------------------------------------------------------------------
Init ==
    /\ model \in Models
    /\ text = <<>>
    /\ cache = NewCaches
    /\ out = Nothing

(* forward: one token at the end of the text. *)
Step(t) ==
    /\ Len(text) < MaxCtx
    /\ LET pass == ForwardFromHidden(model, Embed(model, t), Len(text), cache, TRUE)
       IN  /\ cache' = pass.cache
           /\ out' = [kind |-> "pass", failed |-> pass.failed,
                      logits |-> <<Logits(model, pass.hidden)>>]
    /\ text' = Append(text, t)
    /\ UNCHANGED model

(* forward_batch and hidden_to_logits_batch. *)
Batch(ts) ==
    /\ Len(text) + Len(ts) <= MaxCtx
    /\ LET pass == ForwardBatch(model, [b \in DOMAIN ts |-> Embed(model, ts[b])],
                                Len(text), cache)
       IN  /\ cache' = pass.cache
           /\ out' = [kind |-> "pass", failed |-> pass.failed,
                      logits |-> [b \in DOMAIN ts |-> Logits(model, pass.hidden[b])]]
    /\ text' = text \o ts
    /\ UNCHANGED model

(* One draft pass of self-speculation at the end of the text, or behind an   *)
(* earlier draft: entries of the draft's layers only, and no text.           *)
Draft(t) ==
    /\ DraftLayers # <<>>
    /\ \E pos \in Len(text) .. cache[DraftLayers[1]].filled :
         /\ pos < MaxCtx
         /\ LET pass == ForwardPartial(model, Embed(model, t), pos, cache, DraftLayers)
            IN  /\ cache' = pass.cache
                /\ out' = [kind |-> "draft", failed |-> pass.failed]
    /\ UNCHANGED <<model, text>>

(* KVCache::truncate, after a verification refused some of its tokens.       *)
Rollback(n) ==
    /\ n < Len(text)
    /\ text' = SubSeq(text, 1, n)
    /\ cache' = [li \in DOMAIN cache |-> Truncate(cache[li], n)]
    /\ out' = Nothing
    /\ UNCHANGED model

(* pondered_forward in place of a single pass. *)
Pondered(t, strategy, n) ==
    /\ Len(text) < MaxCtx
    /\ IF Refused(strategy, n)
       THEN out' = Nothing /\ UNCHANGED <<text, cache>>
       ELSE /\ \E result \in {PonderedForward(model, t, Len(text), cache, strategy, n)} :
                   /\ cache' = result.cache
                   /\ out' = [kind |-> "pondered", failed |-> result.failed,
                              strategy |-> strategy, n |-> n, logits |-> result.logits,
                              made |-> result.made, reported |-> result.reported]
            /\ text' = Append(text, t)
    /\ UNCHANGED model

Next ==
    \/ \E t \in Token : Step(t)
    \/ \E k \in 2 .. MaxBatch : \E ts \in [1 .. k -> Token] : Batch(ts)
    \/ \E t \in Token : Draft(t)
    \/ \E n \in 0 .. MaxCtx : Rollback(n)
    \/ \E t \in Token, s \in Strategies : Pondered(t, s[1], s[2])

Spec == Init /\ [][Next]_vars

-----------------------------------------------------------------------------
(* The transformer, written down from the shapes of its blocks: the residual *)
(* streams of the text's positions after li layers.                          *)
Around(m, li, slot, x, block) ==
    CASE m.placement = "pre"      -> VecAdd(x, block)
      [] m.placement = "sandwich" -> VecAdd(x, <<"norm", <<"extra", li, slot>>, block>>)
      [] m.placement = "post"     -> VecAdd(x, <<"norm", <<"slot", li, slot>>, block>>)

Before(m, li, slot) ==
    IF m.placement = "post" THEN Input ELSE <<"norm", <<"slot", li, slot>>, Input>>

Entry(m, x, li, p) == KeyValue(m, li, p, x[p + 1], Before(m, li, 0))

Entries(m, li, x) == [p \in 0 .. Len(x) - 1 |-> Entry(m, x, li, p)]

(* What a layer makes of the stream x of a token at pos that attends to the  *)
(* entries kv: its attention block, then its MLP.                            *)
Entered(m, li, pos, x, kv) ==
    Around(m, li, 0, x,
           AddBias(m, li, 3,
             Matvec(li, 0, 3, Attend(m, pos, Query(m, li, pos, Before(m, li, 0)), kv))))

Left(m, li, mid) == Around(m, li, 1, mid, MlpBlock(m, li, mid, Before(m, li, 1)))

Through(m, li, pos, x, kv) == Left(m, li, Entered(m, li, pos, x, kv))

Streams(m, s) ==
    LET f[li \in 0 .. NumLayers] ==
            IF li = 0
            THEN Whole([i \in DOMAIN s |-> Embed(m, s[i])])
            ELSE LET x   == f[li - 1]
                     kv  == Entries(m, li - 1, x)
                     mid == Whole([i \in DOMAIN x |-> Entered(m, li - 1, i - 1, x[i], kv)])
                 IN  Whole([i \in DOMAIN x |-> Left(m, li - 1, mid[i])])
    IN  f

(* The logits after each token of s, from 1. *)
Reference(m, s) ==
    LET x == Streams(m, s)[NumLayers] IN [i \in DOMAIN s |-> Logits(m, x[i])]

(* The logits of x in the place of the last token of s.  It attends to the   *)
(* whole text, that token's own entry included, and leaves none.             *)
ProbeReference(m, s, x) ==
    LET streams == Streams(m, s)
        f[li \in 0 .. NumLayers] ==
            IF li = 0
            THEN x
            ELSE Through(m, li - 1, Len(s) - 1, f[li - 1],
                         Entries(m, li - 1, streams[li - 1]))
    IN  Logits(m, f[NumLayers])

(* The logits of the last token of s, and of n of its noisy embeddings.      *)
NoisySum(m, s, n) ==
    LET noisy(i) == ProbeReference(m, s, Noisy(i, Embed(m, s[Len(s)])))
        f[i \in 0 .. n] ==
            IF i = 0 THEN Reference(m, s)[Len(s)] ELSE <<"sum", f[i - 1], noisy(i)>>
    IN  f[n]

(* Logits, contrasted with those of the null token in the same place. *)
Contrasted(m, s, logits) == <<"guided", ProbeReference(m, s, Embed(m, NullToken)), logits>>

(* What each strategy promises for the last token of s, and in how many      *)
(* passes: guidance away from the null token, the mean of the token and its  *)
(* noisy embeddings, guidance of that mean, or as much of it as the token    *)
(* is hard.                                                                  *)
Blended(m, s, strategy, n) ==
    LET real   == Reference(m, s)[Len(s)]
        guided == Contrasted(m, s, real)
        noisy  == ProbeReference(m, s, Noisy(1, Embed(m, s[Len(s)])))
        unsettled == 10 * Entropy(guided) > 8 * Threshold /\ n > 2
        In(passes, logits) == [logits |-> logits, passes |-> passes]
    IN  CASE strategy = "none"     -> In(1, real)
          [] strategy = "cfg"      -> In(2, guided)
          [] strategy = "ensemble" -> In(n, <<"mean", n, NoisySum(m, s, n - 1)>>)
          [] strategy = "cfg+ensemble" ->
                 In(n, Contrasted(m, s, <<"mean", n - 1, NoisySum(m, s, n - 2)>>))
          [] strategy = "adaptive" -> IF Entropy(real) < Threshold THEN In(1, real)
                                      ELSE IF unsettled
                                      THEN In(3, <<"blend", guided, noisy>>)
                                      ELSE In(2, guided)

-----------------------------------------------------------------------------
(* The cache holds what the text determines: after any order of passes,      *)
(* batches, drafts, rollbacks and pondering, every entry a later pass will   *)
(* read is the reference transformer's, in every layer, and no pass ran into *)
(* an assertion.  (model.rs: the three forward paths, kv_cache.rs.)          *)
CacheIsText ==
    /\ "failed" \in DOMAIN out => ~out.failed
    /\ LET streams == Streams(model, text)
       IN  \A li \in 0 .. NumLayers - 1 :
             /\ cache[li].filled >= Len(text)
             /\ \A p \in 0 .. Len(text) - 1 :
                  cache[li].data[p] = Entry(model, streams[li], li, p)

(* The logits a single pass or a batch returns are the reference's for the   *)
(* tokens it processed: token by token and batched give the same bits.       *)
BatchIsSequential ==
    out.kind = "pass" =>
        LET logits == Reference(model, text)
            before == Len(text) - Len(out.logits)
        IN  \A b \in DOMAIN out.logits : out.logits[b] = logits[before + b]

(* The logits a pondered pass returns are its strategy's blend, of what the  *)
(* reference has for its token and for each probe: every pass is in it once, *)
(* the real token's first, and every probe has seen the text up to and with  *)
(* that token and no other probe.  It reports the passes it made.            *)
(* (ponder.rs, PonderMetrics.)                                               *)
PonderBlends ==
    out.kind = "pondered" =>
        LET blended == Blended(model, text, out.strategy, out.n)
        IN  /\ out.logits = blended.logits
            /\ out.made = blended.passes /\ out.reported = blended.passes
=============================================================================
