------------------------------- MODULE Layers -------------------------------
(***************************************************************************)
(* One transformer layer of rai-infer (layers.rs, model.rs), as operators  *)
(* on terms.                                                               *)
(*                                                                         *)
(* A vector of floats is the term of how it was computed: <<"norm", w, x>> *)
(* is x under RMSNorm with the weights w, and so on.  The arithmetic of a  *)
(* kernel is left out; which kernels are applied to what, in which order,  *)
(* is kept: vectors with the same term are the same bit for bit.           *)
(*                                                                         *)
(* The residual stream of a token is the sequence of what was added to it: *)
(* the embedding, then the output of every block.  Inside the term of a    *)
(* block's output, Input stands for the stream before that block, which is *)
(* what enter_block saves as the residual and what it normalizes.          *)
(* Layers, heads and positions are 0-based, as in the code.                *)
(*                                                                         *)
(* A model is a record of the capabilities of its header that steer the    *)
(* pass: where its norms are, which of the seven projections have a bias,  *)
(* its query/key norms, its rotary tables, its experts and its heads.      *)
(***************************************************************************)
EXTENDS Integers, Sequences, Functions

CONSTANTS
    NumLayers,
    RouterProbs(_, _),    \* layer and stream to the experts' probabilities, the
                          \* f32 softmax of the router; None when they are NaN
    None

(* None is no weights, the absent norms of NormPlacement, and no             *)
(* probabilities.                                                            *)
ASSUME NoneAssumption ==
    \A li \in 0 .. NumLayers - 1, i \in 0 .. 1 :
        None \notin {<<"slot", li, i>>, <<"extra", li, i>>}

(* PROJECTION_NAMES, from 0. *)
Projection == <<"q", "k", "v", "o", "gate", "up", "down">>

(* What read_v2_capabilities and the layout checks accept of a model.        *)
Loadable(m) ==
    /\ m.placement \in {"pre", "sandwich", "post"}
    /\ m.biases \subseteq 0 .. 6
    /\ m.qkNorm \in {"none", "heads", "full"}
    /\ m.stride # 1
    /\ IF m.experts = 0
       THEN m.perToken = 0 /\ ~m.normTopk
       ELSE m.experts >= 2 /\ m.perToken \in 1 .. m.experts
    /\ m.heads % m.kvHeads = 0

(* What the converter writes of them: it refuses experts with biases.        *)
Convertible(m) == Loadable(m) /\ (m.experts > 0 => m.biases = {})

-----------------------------------------------------------------------------
(* The rotary table of a layer: every stride-th layer is global.             *)
RopeFor(m, li) ==
    IF m.stride > 0 /\ (li + 1) % m.stride # 0 THEN "local" ELSE "global"

(* norm_placement: the four places of a norm, resolved once per layer.       *)
NormPlacement(m, li) ==
    LET slot(i)  == <<"slot", li, i>>
        extra(i) == IF m.placement = "sandwich" THEN <<"extra", li, i>> ELSE None
    IN  IF m.placement = "post"
        THEN [ beforeAttn |-> None,    afterAttn |-> slot(0),
               beforeMlp  |-> None,    afterMlp  |-> slot(1) ]
        ELSE [ beforeAttn |-> slot(0), afterAttn |-> extra(0),
               beforeMlp  |-> slot(1), afterMlp  |-> extra(1) ]

Input == <<"input">>

(* enter_block and norm_block_output: without weights the value passes.      *)
Normed(w, x) == IF w = None THEN x ELSE <<"norm", w, x>>

(* vec_add: the residual the block saved, and the block's output. *)
VecAdd(residual, addition) == Append(residual, addition)

(* w4a8_matvec with the projection's weights, of an expert or of the layer.  *)
Matvec(li, expert, i, x) == <<Projection[i + 1], li, expert, x>>

AddBias(m, li, i, x) == IF i \in m.biases THEN <<"bias", li, i, x>> ELSE x

(* QkNorm::apply: one RMS per head, or one over the whole projection.        *)
ApplyQkNorm(m, li, i, x) ==
    CASE m.qkNorm = "none"  -> x
      [] m.qkNorm = "heads" -> <<"qknorm", li, i, 1, x>>
      [] m.qkNorm = "full"  -> <<"qknorm", li, i, IF i = 0 THEN m.heads ELSE m.kvHeads, x>>

(* RoPETable::apply. *)
Rotate(m, li, pos, x) == <<"rope", RopeFor(m, li), pos, x>>

(* attention_all_heads and attention_head: each query head attends to its   *)
(* KV head at every position up to pos; kv is indexed by position.          *)
Attend(m, pos, q, kv) ==
    <<"attend", q, [t \in 0 .. pos |-> kv[t]],
      [h \in 0 .. m.heads - 1 |-> h \div (m.heads \div m.kvHeads)]>>

(* The query, and the key and value the cache stores, of one token: project, *)
(* bias, norm, rotate.  The value is neither normed nor rotated.  A cached   *)
(* entry carries the stream it was computed from.                            *)
Query(m, li, pos, x) ==
    Rotate(m, li, pos, ApplyQkNorm(m, li, 0, AddBias(m, li, 0, Matvec(li, 0, 0, x))))

KeyValue(m, li, pos, stream, x) ==
    [ of |-> stream,
      k  |-> Rotate(m, li, pos, ApplyQkNorm(m, li, 1, AddBias(m, li, 1, Matvec(li, 0, 1, x)))),
      v  |-> AddBias(m, li, 2, Matvec(li, 0, 2, x)) ]

-----------------------------------------------------------------------------
(* swiglu_mlp: gate and up with their biases, the activation, down and its   *)
(* bias.                                                                     *)
Swiglu(m, li, expert, x) ==
    LET part(i) == AddBias(m, li, i, Matvec(li, expert, i, x))
    IN  AddBias(m, li, 6, Matvec(li, expert, 6, <<"glu", part(4), part(5)>>))

(* route_experts: a selection sort over the experts not taken yet, the first *)
(* of equal ones.  One NaN in a softmax makes every probability NaN: none is *)
(* the best, and no expert is picked.                                        *)
Route(m, li, stream) ==
    LET probs == RouterProbs(li, stream)
        Better(e, f) == probs[f] < probs[e] \/ (probs[f] = probs[e] /\ e < f)
        Best(rest) == CHOOSE e \in rest : \A f \in rest \ {e} : Better(e, f)
        picked[n \in 0 .. m.perToken] ==
            IF n = 0 THEN <<>>
            ELSE Append(picked[n - 1], Best((0 .. m.experts - 1) \ Range(picked[n - 1])))
    IN  IF probs = None THEN <<>> ELSE picked[m.perToken]

(* mlp_block: a dense layer is one MLP, a sparse layer the weighted sum of   *)
(* the outputs of the experts the token is routed to, in their order.  Their *)
(* weights are the probabilities, divided by the sum of those of the chosen  *)
(* when the header says so; the first of them is at least 1 / experts, so    *)
(* that sum is positive when there are any.                                  *)
MlpBlock(m, li, stream, x) ==
    IF m.experts = 0
    THEN Swiglu(m, li, 0, x)
    ELSE LET chosen == Route(m, li, stream)
         IN  << IF m.normTopk THEN "experts, normalized" ELSE "experts",
                [i \in DOMAIN chosen |->
                    <<"prob", chosen[i], Swiglu(m, li, chosen[i], x)>>] >>
=============================================================================
