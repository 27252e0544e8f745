----------------------------- MODULE MCConvert -----------------------------
(***************************************************************************)
(* Checkpoints for TLC: one of every family the converter knows, as small  *)
(* as the reader's checks allow, and for each refusal one that meets it.   *)
(***************************************************************************)
EXTENDS Convert

MCLimit == [f \in CoreSize |->
               CASE f = "layers" -> 2 [] f \in {"heads", "kvHeads"} -> 4
                 [] f \in {"hidden", "headDim", "context"} -> 8
                 [] f = "vocab" -> 3 [] f = "inter" -> 16]

PreNorm  == {"input_layernorm", "post_attention_layernorm"}
FourNorm == PreNorm \cup {"pre_feedforward_layernorm", "post_feedforward_layernorm"}

PlainLayer == [bias |-> {}, q |-> 0, k |-> 0, norms |-> PreNorm, fused |-> FALSE]
Twice(layer) == <<layer, layer>>
Single(k)    == [k EXCEPT !.layers = 1, !.layer = <<k.layer[1]>>]

Llama ==
    [modelType |-> "llama", hidden |-> 4, layers |-> 2, heads |-> 2, kvHeads |-> 1,
     headDim |-> 8, inter |-> 6, vocab |-> 3, declared |-> 4, window |-> 0, useWindow |-> TRUE,
     hiddenAct |-> "silu", hiddenActivation |-> "", scaling |-> <<>>,
     attnCap |-> 0, finalCap |-> 0, preAttn |-> 0,
     localBase |-> 0, pattern |-> 0, layerTypes |-> <<>>, tied |-> TRUE,
     experts |-> 0, perToken |-> 0, shared |-> 0, moeInter |-> 0, normTopk |-> TRUE,
     requested |-> 0, group |-> 4, embedGroup |-> 2,
     layer |-> Twice(PlainLayer), attention |-> TRUE, headBias |-> FALSE, router |-> "",
     fusedRows |-> [qkv |-> 0, gateUp |-> 0, bias |-> FALSE], complete |-> TRUE,
     spoilt |-> [tensor |-> "", values |-> "plain"], tok |-> "t"]

Llama3Scaling == [type |-> "llama3", factor |-> 8, low |-> 1, high |-> 4, original |-> 0]
Llama3 == [Llama EXCEPT !.scaling = <<Llama3Scaling>>]
Gemma  == [Llama EXCEPT !.modelType = "gemma", !.hiddenAct = "gelu"]
Gemma2 == [Gemma EXCEPT !.modelType = "gemma2", !.hiddenActivation = "gelu_pytorch_tanh",
                        !.attnCap = 50, !.finalCap = 30, !.preAttn = 8,
                        !.layer = Twice([PlainLayer EXCEPT !.norms = FourNorm])]
Gemma3 == [Gemma2 EXCEPT !.modelType = "gemma3_text", !.localBase = 10, !.pattern = 2,
                         !.layerTypes = <<"sliding_attention", "full_attention">>,
                         !.attnCap = 0, !.finalCap = 0, !.layer[1].q = 8, !.layer[1].k = 8,
                         !.layer[2].q = 8, !.layer[2].k = 8]
Olmo2  == [Llama EXCEPT !.layer = Twice([PlainLayer EXCEPT
              !.norms = {"post_attention_layernorm", "post_feedforward_layernorm"},
              !.q = 16, !.k = 8])]
Qwen2  == [Llama EXCEPT !.layer = Twice([PlainLayer EXCEPT !.bias = {1, 2, 3}]),
                        !.window = 2, !.useWindow = FALSE, !.tied = FALSE, !.tok = "u"]
Qwen3  == [Llama EXCEPT !.layer = Twice([PlainLayer EXCEPT !.q = 8, !.k = 8])]
Olmoe  == [Llama EXCEPT !.layer = Twice([PlainLayer EXCEPT !.q = 16, !.k = 8]),
                        !.experts = 3, !.perToken = 2, !.normTopk = FALSE, !.router = "mlp"]
Mixtral == [Llama EXCEPT !.experts = 2, !.perToken = 1, !.router = "block_sparse_moe"]
PostNormed == [Llama3 EXCEPT !.layer = Twice([PlainLayer EXCEPT
                  !.norms = {"post_attention_layernorm", "post_feedforward_layernorm"}])]
Phi3   == [Llama EXCEPT !.layer = Twice([PlainLayer EXCEPT !.fused = TRUE]),
                        !.fusedRows = [qkv |-> 32, gateUp |-> 12, bias |-> FALSE]]
Mistral == [Llama EXCEPT !.headDim = 0, !.hidden = 8, !.heads = 1, !.declared = 6, !.window = 4]

(* A sandwich-normed Gemma with experts: no published model is one, the      *)
(* container could store it.                                                 *)
Mixed  == [Gemma2 EXCEPT !.preAttn = 6, !.experts = 2, !.perToken = 1, !.tied = FALSE, !.router = "mlp"]

(* A base for the sliding layers that is no number counts as none; a row of  *)
(* one value and a vector of large ones are no obstacle.                     *)
Odd == {[Gemma3 EXCEPT !.localBase = -1],
        Single([Gemma EXCEPT !.spoilt = [tensor |-> "q", values |-> "flat"]]),
        Single([Qwen3 EXCEPT !.spoilt = [tensor |-> "final_norm", values |-> "wide"]])}

(* Its file is the only one above MaxModelBytes, that of Olmoe just as long. *)
Oversized == [Mixed EXCEPT !.inter = 16]

Convertible == {Llama, Gemma2, Gemma3, Olmo2, Qwen2, Olmoe, Oversized}
                   \cup {Single(k) : k \in {PostNormed, Mixtral, Phi3, Mistral, Mixed}} \cup Odd

(* Checkpoints that pass every check and end at a section. *)
Spoilt ==
    {Single([Olmoe EXCEPT !.spoilt = s]) :
        s \in {[tensor |-> "embed_tokens", values |-> "wide"], [tensor |-> "down", values |-> "wide"],
               [tensor |-> "router", values |-> "nonfinite"]}}

MCExisting == {Llama}

(* Inputs that both verdicts refuse. *)
Refused ==
    {[Llama EXCEPT !.inter = 5], [Llama EXCEPT !.headDim = 4], [Llama EXCEPT !.group = 2],
     [Llama EXCEPT !.kvHeads = 3], [Llama EXCEPT !.declared = 7], [Llama EXCEPT !.requested = 7],
     [Mistral EXCEPT !.requested = 5], [Llama EXCEPT !.headBias = TRUE],
     [Llama EXCEPT !.attention = FALSE], [Llama EXCEPT !.hiddenAct = "relu"],
     [Gemma EXCEPT !.hiddenActivation = "gelu"], [Gemma2 EXCEPT !.finalCap = -1],
     [Gemma2 EXCEPT !.preAttn = -1], [Llama3 EXCEPT !.scaling[1].type = "yarn"],
     [Llama3 EXCEPT !.scaling[1].high = 1], [Llama3 EXCEPT !.scaling[1].original = 9],
     [Gemma3 EXCEPT !.pattern = 1], [Gemma3 EXCEPT !.pattern = 3],
     [Gemma3 EXCEPT !.layerTypes = <<"sliding_attention">>],
     [Olmoe EXCEPT !.experts = 1], [Olmoe EXCEPT !.shared = 1], [Olmoe EXCEPT !.moeInter = 4],
     [Olmoe EXCEPT !.perToken = 4], [Olmoe EXCEPT !.experts = 65536],
     [Olmoe EXCEPT !.experts = 256, !.perToken = 256],
     [Qwen2 EXCEPT !.layer[2].bias = {1}], [Qwen3 EXCEPT !.layer[2].k = 0],
     [Olmo2 EXCEPT !.layer[2].k = 16], [Olmo2 EXCEPT !.layer[2].norms = FourNorm],
     [Gemma2 EXCEPT !.layer[2].norms = PreNorm],
     [Phi3 EXCEPT !.layer[2].fused = FALSE], [Phi3 EXCEPT !.fusedRows.qkv = 30]}

(* Inputs on which the verdicts differ. *)
Disputed ==
    {[Olmo2 EXCEPT !.modelType = "gemma2", !.hiddenAct = ""], [Mixtral EXCEPT !.router = ""],
     [Olmoe EXCEPT !.layer = Qwen2.layer],
     [Llama EXCEPT !.complete = FALSE], [Llama EXCEPT !.embedGroup = 3]}

MCSource == Convertible \cup Spoilt \cup Refused \cup Disputed

(* What the proof that a converted file is usable asks of the checkpoints. *)
ASSUME NormsKnown == \A k \in Source : Converts(k) => NormsRecognised(k)
=============================================================================
