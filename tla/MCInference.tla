---------------------------- MODULE MCInference -----------------------------
(* A small instance of Inference: two layers, two tokens, and one model per  *)
(* family the loader knows, so that every capability occurs and several meet.*)
(* The kernels below the session are explored beside it, in the session that *)
(* has done nothing yet: they read nothing of it.                            *)
EXTENDS Inference, VectorKernels

Llama   == [ placement |-> "pre", biases |-> {}, qkNorm |-> "none", stride |-> 0,
             experts |-> 0, perToken |-> 0, normTopk |-> FALSE, heads |-> 2, kvHeads |-> 2,
             scaled |-> FALSE, tied |-> TRUE, finalCap |-> FALSE ]
Qwen    == [Llama EXCEPT !.biases = 0 .. 6, !.kvHeads = 1, !.qkNorm = "heads"]
Gemma   == [Llama EXCEPT !.placement = "sandwich", !.scaled = TRUE, !.finalCap = TRUE,
                         !.qkNorm = "heads", !.stride = 2]
Olmo    == [Llama EXCEPT !.placement = "post", !.qkNorm = "full", !.tied = FALSE]
Sparse  == [Llama EXCEPT !.experts = 3, !.perToken = 2, !.normTopk = TRUE, !.tied = FALSE]

(* What `rai convert` writes. *)
MCModels == {m \in {Qwen, Gemma, Olmo, Sparse} : Convertible(m)}

(* A file of experts with a bias, which the reader accepts.                  *)
MCReadable == {[Sparse EXCEPT !.biases = {6}]}

MCStrategies ==
    { <<"none", 0>>, <<"cfg", 0>>, <<"ensemble", 1>>, <<"ensemble", 2>>,
      <<"cfg+ensemble", 3>>, <<"adaptive", 3>> }

MCDraftLayers == <<1>>

(* Its argument, evaluated once. *)
Once(Op(_), x) == CHOOSE y \in { Op(z) : z \in {x} } : TRUE

(* The token a stream began with; a noisy embedding is a token's too. *)
Origin(stream) ==
    LET of(first) == IF first[1] = "noise" THEN first[3][2] ELSE first[2] IN Once(of, stream[1])

(* Ties, an order that differs by layer and by token, and with noise on the  *)
(* second token, no probabilities in the second layer.                       *)
MCRouterProbs(li, x) ==
    LET probs(stream) ==
          CASE (li + Origin(stream)) % 3 = 0 -> [e \in 0 .. 2 |-> IF e = 1 THEN 0 ELSE 1]
            [] (li + Origin(stream)) % 3 = 1 -> [e \in 0 .. 2 |-> e]
            [] (li + Origin(stream)) % 3 = 2 -> IF stream[1][1] = "noise" THEN None
                                                ELSE [e \in 0 .. 2 |-> 2 - e]
    IN  Once(probs, x)

(* Token 0 is easy; token 1 is hard, and guidance settles it in two models.  *)
MCEntropy(logits) ==
    LET of(l) == IF l[1] = "logits"
                 THEN IF Origin(l[2]) = 0 THEN 1 ELSE 4
                 ELSE IF l[3][2][1][1] = "scale" \/ l[3][3][1] = "head" THEN 4 ELSE 2
    IN  Once(of, logits)
-----------------------------------------------------------------------------
(* Columns and groups of every kind: shorter than a block, whole blocks,     *)
(* half a block, a rest of one to three pairs, and a last group cut short.   *)
MCShapes ==
    { [cols |-> n, groupSize |-> g] : n \in {2, 6, 16, 20, 26}, g \in {2, 4, 8, 10, 14, 24} }

(* Too small and large enough for threads, with a last chunk that is whole   *)
(* and ones that are not.                                                    *)
MCCalls ==
    LET request(kind, rows, tokens, shape, avx2) ==
            [ kind |-> kind, rows |-> rows, tokens |-> tokens, cols |-> shape.cols,
              groupSize |-> shape.groupSize, avx2 |-> avx2 ]
    IN  { request("matvec", <<r>>, 1, s, b) : r \in {1, 5}, s \in MCShapes, b \in BOOLEAN }
        \cup { request("fused", rows, 1, s, TRUE) : rows \in {<<5, 2, 2>>, <<3, 4>>}, s \in MCShapes }
        \cup { request(kind, <<5>>, t, s, TRUE) :
                  kind \in {"matmul", "legacy"}, t \in {1, 2, 5}, s \in MCShapes }
        \cup { request("lm_head", <<3>>, 1, s, b) : s \in MCShapes, b \in BOOLEAN }
        \cup { request("matmul", <<3>>, 2, s, FALSE) : s \in MCShapes }

MCVectorCalls ==
    { [op |-> op, n |-> n, avx2 |-> b] :
        op \in {"silu", "gelu", "add", "norm", "norm+residual"}, n \in 1 .. 21, b \in BOOLEAN }
    \cup { [op |-> "rope", heads |-> 2, headDim |-> d, avx2 |-> b] :
              d \in {2, 4, 6, 8, 12, 20}, b \in BOOLEAN }
    \cup { [op |-> op, heads |-> 2, kvHeads |-> kv, headDim |-> d, positions |-> p,
            avx2 |-> b, serial |-> serial] :
              op \in {"decode"}, kv \in {1, 2}, d \in {4, 6}, p \in {<<0>>, <<4>>, <<6>>},
              b \in BOOLEAN, serial \in BOOLEAN }
    \cup { [op |-> op, heads |-> 2, kvHeads |-> kv, headDim |-> 4, positions |-> p,
            avx2 |-> b, serial |-> serial] :
              op \in {"batch"}, kv \in {1, 2}, p \in {<<0, 1>>, <<3, 4, 5>>},
              b \in BOOLEAN, serial \in BOOLEAN }

Fresh == text = <<>> /\ out = Nothing /\ cache = NewCaches /\ model = CHOOSE m \in Models : TRUE

MCInit == Init /\ CallInit /\ VectorInit

MCNext ==
    \/ call = Idle /\ vector = Idle /\ Next /\ UNCHANGED <<callVars, vectorVars>>
    \/ Fresh /\ vector = Idle /\ CallNext /\ UNCHANGED <<vars, vectorVars>>
    \/ Fresh /\ call = Idle /\ VectorNext /\ UNCHANGED <<vars, callVars>>

MCSpec == MCInit /\ [][MCNext]_<<vars, callVars, vectorVars>>
=============================================================================
