------------------------------ MODULE Forward -------------------------------
(***************************************************************************)
(* The forward passes of rai-infer/src/model.rs over the key/value cache:  *)
(* forward_from_hidden (one token), forward_partial (some of the layers)   *)
(* and forward_batch (several tokens at once).                             *)
(*                                                                         *)
(* A cache is one KVCache record per layer; an entry is the pair of the    *)
(* key's and the value's term.  A pass returns what it leaves in `hidden`  *)
(* and the cache; `failed` says that it was refused, or that an assertion  *)
(* of the attention or of the store stopped it.                            *)
(***************************************************************************)
EXTENDS Layers, KVCache

CONSTANTS MaxCtx

NewCaches == [li \in 0 .. NumLayers - 1 |-> NewCache(MaxCtx)]

(* embed_token: the table's row, scaled when the header says so.             *)
Embed(m, token) == << <<IF m.scaled THEN "scale" ELSE "embed", token>> >>

(* gqa_attention_decode: a storing pass may write at the watermark, a probe  *)
(* needs its position to be there already.                                   *)
AttentionAllowed(cache, li, pos, store) ==
    IF store THEN StoreAllowed(cache[li], pos, MaxCtx) ELSE pos < cache[li].filled

ProbeStores(cache, li, pos, store, kv) ==   \* mutant: a probe writes its entry
    [cache EXCEPT ![li] = Store(@, pos, MaxCtx, kv)]

StoreIf(cache, li, pos, store, kv) ==
    IF store THEN [cache EXCEPT ![li] = Store(@, pos, MaxCtx, kv)] ELSE cache

(* One layer of the sequential paths.  The attention block's input is read   *)
(* before the cache is written, and the cache afterwards.                    *)
DecodeLayer(m, li, pos, store, state) ==
    IF state.failed \/ ~AttentionAllowed(state.cache, li, pos, store)
    THEN [state EXCEPT !.failed = TRUE]
    ELSE LET norms  == NormPlacement(m, li)
             stream == state.hidden
             input  == Normed(norms.beforeAttn, Input)
             cache  == StoreIf(state.cache, li, pos, store, KeyValue(m, li, pos, stream, input))
             mixed  == Attend(m, pos, Query(m, li, pos, input), cache[li].data)
             attn   == AddBias(m, li, 3, Matvec(li, 0, 3, mixed))
             after  == VecAdd(stream, Normed(norms.afterAttn, attn))
             mlp    == MlpBlock(m, li, after, Normed(norms.beforeMlp, Input))
         IN  [ hidden |-> VecAdd(after, Normed(norms.afterMlp, mlp)),
               cache  |-> cache,
               failed |-> FALSE ]

(* The layers of a pass, one after the other. *)
ThroughLayers(m, layers, pos, store, hidden, cache) ==
    LET f[n \in 0 .. Len(layers)] ==
            IF n = 0
            THEN [hidden |-> hidden, cache |-> cache, failed |-> FALSE]
            ELSE DecodeLayer(m, layers[n], pos, store, f[n - 1])
    IN  f[Len(layers)]

AllLayers == [n \in 1 .. NumLayers |-> n - 1]

(* What each pass ensures before its first layer: its positions are inside   *)
(* the window, and it has something to do.  If not, nothing is changed.      *)
Denied(hidden, cache) == [hidden |-> hidden, cache |-> cache, failed |-> TRUE]

ForwardFromHidden(m, hidden, pos, cache, store) ==
    IF pos < MaxCtx
    THEN ThroughLayers(m, AllLayers, pos, store, hidden, cache)
    ELSE Denied(hidden, cache)

(* forward_partial: some layers, in ascending order; it always stores.       *)
ForwardPartial(m, hidden, pos, cache, layers) ==
    IF pos < MaxCtx /\ layers # <<>>
    THEN ThroughLayers(m, layers, pos, TRUE, hidden, cache)
    ELSE Denied(hidden, cache)

-----------------------------------------------------------------------------
(* The store loop of forward_batch: every token's key and value of a layer,  *)
(* token by token, before any token attends.                                 *)
StoreAll(m, li, from, streams, input, cache) ==
    LET f[b \in 0 .. Len(streams)] ==
            IF b = 0
            THEN [cache |-> cache, failed |-> FALSE]
            ELSE LET before == f[b - 1]
                     pos    == from + b - 1
                 IN  IF before.failed \/ ~StoreAllowed(before.cache[li], pos, MaxCtx)
                     THEN [before EXCEPT !.failed = TRUE]
                     ELSE [ before EXCEPT !.cache =
                              StoreIf(@, li, pos, TRUE, KeyValue(m, li, pos, streams[b], input)) ]
    IN  f[Len(streams)]

(* The MLP of a batch: a dense layer as three matrix products with the       *)
(* activation between, a sparse one token by token through mlp_block; then   *)
(* the bias of the down projection is added to either.                       *)
BatchMlp(m, li, stream, x) ==
    LET part(i) == AddBias(m, li, i, Matvec(li, 0, i, x))
        out     == IF m.experts > 0
                   THEN MlpBlock(m, li, stream, x)
                   ELSE Matvec(li, 0, 6, <<"glu", part(4), part(5)>>)
    IN  AddBias(m, li, 6, out)

(* attend_batch: token b reads the positions up to its own. *)
BatchReadsWholeBatch(m, pos, last, q, kv) ==  \* mutant: every token reads all of them
    Attend(m, last, q, kv)

BatchAttend(m, pos, last, q, kv) == Attend(m, pos, q, kv)

(* The sequence s, as a value of its own: TLC then computes its elements     *)
(* once and not again wherever one is used.                                  *)
Whole(s) == SubSeq(s, 1, Len(s))

(* One layer of forward_batch; token b (from 1) is at position from + b - 1. *)
BatchLayer(m, li, from, state) ==
    LET norms   == NormPlacement(m, li)
        tokens  == DOMAIN state.hidden
        input   == Normed(norms.beforeAttn, Input)
        stored  == StoreAll(m, li, from, state.hidden, input, state.cache)
        last    == from + Len(state.hidden) - 1
        mixed(b) == BatchAttend(m, from + b - 1, last,
                                Query(m, li, from + b - 1, input), stored.cache[li].data)
        attn(b) == AddBias(m, li, 3, Matvec(li, 0, 3, mixed(b)))
        after   == Whole([b \in tokens |->
                            VecAdd(state.hidden[b], Normed(norms.afterAttn, attn(b)))])
        mlp(b)  == BatchMlp(m, li, after[b], Normed(norms.beforeMlp, Input))
    IN  IF state.failed \/ stored.failed
        THEN [state EXCEPT !.failed = TRUE]
        ELSE [ hidden |-> Whole([b \in tokens |->
                                   VecAdd(after[b], Normed(norms.afterMlp, mlp(b)))]),
               cache  |-> stored.cache,
               failed |-> FALSE ]

(* forward_batch over consecutive positions. *)
ForwardBatch(m, hiddens, from, cache) ==
    LET f[n \in 0 .. NumLayers] ==
            IF n = 0
            THEN [hidden |-> hiddens, cache |-> cache, failed |-> FALSE]
            ELSE BatchLayer(m, n - 1, from, f[n - 1])
    IN  IF Len(hiddens) \in 1 .. MaxCtx - from THEN f[NumLayers] ELSE Denied(hiddens, cache)

-----------------------------------------------------------------------------
(* hidden_to_logits_into, and per token hidden_to_logits_batch: the final    *)
(* norm, the head - its own matrix or the embedding table - and the softcap. *)
Logits(m, hidden) ==
    LET scores == <<IF m.tied THEN "tied" ELSE "head", <<"norm", <<"final">>, Input>>>>
    IN  <<"logits", hidden, IF m.finalCap THEN <<"capped", scores>> ELSE scores>>
=============================================================================
