----------------------------- MODULE Checkpoint -----------------------------
(***************************************************************************)
(* What rai-infer/src/convert.rs makes of a HuggingFace checkpoint: the    *)
(* configuration it resolves, whether it converts it at all, and what      *)
(* `preflight` answers to the same question before the conversion.         *)
(*                                                                         *)
(* A checkpoint is a record.  From config.json: modelType and the sizes;   *)
(* declared (the maximum of positions), window and useWindow; hiddenAct and*)
(* hiddenActivation; scaling, a sequence of no or one rope_scaling;        *)
(* attnCap, finalCap, preAttn (query_pre_attn_scalar), localBase, pattern  *)
(* (of sliding windows) and layerTypes; tied; experts, perToken, shared    *)
(* (experts), moeInter, normTopk.  A field that is absent or null is 0, "" *)
(* or <<>>, a number that is not one, or not positive, -1.  From the       *)
(* command line: group, embedGroup and requested (the context or 0).       *)
(* From the tensors: layer, a sequence of records; attention, whether      *)
(* layer 1 has any; headBias, of lm_head; router, which of the two expert  *)
(* layouts there is; fusedRows; complete, whether every tensor that only   *)
(* the conversion asks for is there with its shape; spoilt, the name of a  *)
(* tensor and what its values are.  tok is its tokenizer.                  *)
(***************************************************************************)
EXTENDS Container

(* What the fields of a checkpoint are, as far as no check of the converter  *)
(* asks: how many numbers a checkpoint may hold is for Converts to say.      *)
CheckpointType(k) ==
    /\ k.experts \in Int /\ k.localBase \in Int
    /\ k.layer[1].bias \subseteq 1..7
    /\ k.spoilt.values \in {"plain", "flat", "wide", "nonfinite"}

GemmaModelTypes        == {"gemma", "gemma2", "gemma3", "gemma3_text"}
SandwichNormModelTypes == {"gemma2", "gemma3", "gemma3_text"}

IsGemma(k)      == k.modelType \in GemmaModelTypes
SandwichType(k) == k.modelType \in SandwichNormModelTypes

(* The norms that a layer carries, and where the checkpoint's own model      *)
(* applies the one of that name; w1, w3 and w2 are Mixtral's names.          *)
Role(k, name) ==
    CASE name = "input_layernorm"            -> "before_attn"
      [] name = "pre_feedforward_layernorm"  -> "before_mlp"
      [] name = "post_feedforward_layernorm" -> "after_mlp"
      [] name = "post_attention_layernorm"   ->
            IF "post_feedforward_layernorm" \in k.layer[1].norms
            THEN "after_attn" ELSE "before_mlp"
      [] name = "w1" -> "gate" [] name = "w3" -> "up" [] name = "w2" -> "down"
      [] OTHER -> name

NormTensors ==
    {"input_layernorm", "pre_feedforward_layernorm", "post_attention_layernorm",
     "post_feedforward_layernorm", "q_norm", "k_norm", "final_norm"}

-----------------------------------------------------------------------------
(* The resolvers.  Each has a condition, the refusals it can make, and a     *)
(* value, which is meant where the condition holds.                          *)

HeadDimResolves(k) == k.heads > 0 /\ (k.headDim # 0 \/ k.hidden % k.heads = 0)

HeadDim(k) == IF k.headDim # 0 THEN k.headDim ELSE k.hidden \div k.heads

(* resolve_max_context: what is asked for, or the model's own context capped *)
(* by its window; too long a context of its own is refused, not clamped.     *)
SlidingWindow(k) == IF k.useWindow THEN k.window ELSE 0

ContextTokens(k) ==
    CASE k.requested # 0 -> k.requested
      [] k.requested = 0 /\ SlidingWindow(k) \in 1..(k.declared - 1) -> SlidingWindow(k)
      [] OTHER -> k.declared

RopeContextLimit(k) ==
    LET perPosition == (HeadDim(k) \div 2) * 2 * 4
    IN  IF perPosition = 0 THEN Limit["context"] ELSE MaxRopeBytes \div perPosition

ContextResolves(k) ==
    k.requested = 0 =>
        /\ k.declared > 0
        /\ ContextTokens(k) <= RopeContextLimit(k)
        /\ ContextTokens(k) <= Limit["context"]

(* resolve_activation.  Gemma's old configurations say "gelu" and mean the   *)
(* tanh form of it.                                                          *)
Activations(k) ==
    LET declared == IF k.hiddenActivation # "" THEN k.hiddenActivation ELSE k.hiddenAct
    IN  {a \in {"silu", "gelu_tanh"} :
            \/ a = "gelu_tanh" /\ declared = "gelu_pytorch_tanh"
            \/ /\ a = "gelu_tanh" /\ IsGemma(k)
               /\ \/ declared = ""
                  \/ declared = "gelu" /\ k.hiddenActivation = ""
            \/ a = "silu" /\ ~IsGemma(k) /\ declared \in {"", "silu", "swish"}}

(* resolve_rope_scaling. *)
RopeScaling(k) ==
    IF k.scaling = <<>> \/ k.scaling[1].type \in {"", "default"} THEN PlainRope
    ELSE [k.scaling[1] EXCEPT !.original = IF @ = 0 THEN k.declared ELSE @]

RopeScalingResolves(k) ==
    LET r == RopeScaling(k)
    IN  r # PlainRope => /\ r.type = "llama3"
                         /\ r.factor > 0 /\ r.low > 0 /\ r.high > 0 /\ r.low # r.high
                         /\ r.original \in 1..Limit["context"]

(* resolve_softcap, of either cap: 0 is "off". *)
SoftcapResolves(cap) == cap >= 0

(* resolve_attn_scale: 1 / sqrt(preAttn), unless it is the default. *)
AttnScale(k) == IF k.preAttn = HeadDim(k) THEN 0 ELSE k.preAttn

(* resolve_per_layer_rope.  A base that is not a positive number counts as   *)
(* none: alone among the caps and scales it is not refused.                  *)
Stride(k) == CASE k.localBase <= 0                  -> 0
               [] k.localBase > 0 /\ k.pattern = 0 -> 6
               [] k.localBase > 0 /\ k.pattern # 0 -> k.pattern

LocalRopeResolves(k) ==
    k.localBase > 0 =>
        /\ Stride(k) \in 2..255
        /\ k.layerTypes # <<>> =>
              k.layerTypes = [l \in 1..k.layers |-> IF l % Stride(k) = 0 THEN "full_attention"
                                                    ELSE "sliding_attention"]

(* assert_exportable_architecture: attention is always full, so a context    *)
(* beyond a window in use is refused; weights, whether they are at hand.     *)
ArchitectureExportable(k, weights) ==
    /\ weights => k.attention /\ ~k.headBias
    /\ SlidingWindow(k) # 0 => ContextTokens(k) <= SlidingWindow(k)

(* resolve_experts: routed experts of one width, and no other, in a u16 and  *)
(* a u8.                                                                     *)
MaxExperts  == 65535
MaxPerToken == 255

ExpertsResolve(k) ==
    k.experts # 0 => /\ k.experts >= 2 /\ k.experts <= MaxExperts
                     /\ k.perToken \in 1..k.experts /\ k.perToken <= MaxPerToken
                     /\ k.shared = 0
                     /\ k.moeInter \in {0, k.inter}

(* ExpertLayout: the two places of a router, and the tensors of an expert in *)
(* stored order.                                                             *)
ExpertsLocated(k) == k.router \in {"mlp", "block_sparse_moe"}

ExpertTensors(k) ==
    IF k.router = "mlp" THEN <<"gate", "up", "down">> ELSE <<"w1", "w3", "w2">>

(* resolve_bias_mask: one mask for the whole model. *)
BiasResolves(k) == \A l \in 1..k.layers : k.layer[l].bias = k.layer[1].bias

(* resolve_qk_norm: both norms or neither, in every layer, of one width.     *)
(* layer[l].q and .k are the lengths of the two vectors, 0 where absent.     *)
QkKind(k) ==
    LET q == k.layer[1].q
    IN  CASE q = 0                                                  -> "none"
          [] q # 0 /\ q = HeadDim(k)                                -> "head"
          [] q \notin {0, HeadDim(k)} /\ q = k.heads * HeadDim(k)   -> "full"
          [] OTHER                                                  -> "neither"

QkResolves(k) ==
    /\ \A l \in 1..k.layers :
          /\ (k.layer[l].q = 0) = (k.layer[1].q = 0)
          /\ (k.layer[l].k = 0) = (k.layer[1].q = 0)
    /\ QkKind(k) # "neither"
    /\ QkKind(k) = "head" =>
          \A l \in 1..k.layers : k.layer[l].q = HeadDim(k) /\ k.layer[l].k = HeadDim(k)
    /\ QkKind(k) = "full" =>
          \A l \in 1..k.layers : /\ k.layer[l].q = k.heads * HeadDim(k)
                                 /\ k.layer[l].k = k.kvHeads * HeadDim(k)

(* resolve_post_norm: no layer has an input norm, all have both output norms.*)
PostNorm(k) == "input_layernorm" \notin k.layer[1].norms

PostNormResolves(k) ==
    PostNorm(k) => \A l \in 1..k.layers :
                      /\ "input_layernorm" \notin k.layer[l].norms
                      /\ ToSet(SandwichNormNames) \subseteq k.layer[l].norms

(* SANDWICH_NORM_MODEL_TYPES: a model with norms behind attention and        *)
(* perceptron is known as one by its model type, or because it has no others.*)
NormsRecognised(k) ==
    \/ SandwichType(k) \/ PostNorm(k)
    \/ "post_feedforward_layernorm" \notin k.layer[1].norms

SandwichNormsPresent(k) ==
    \A l \in 1..k.layers :
        ToSet(SandwichNormNames) \cup {"pre_feedforward_layernorm"} \subseteq k.layer[l].norms

(* The fields that config.json and the command line settle. *)
BaseConfig(k) ==
    With([f \in CoreSize \ {"headDim", "context"} |-> k[f]],
         [headDim |-> HeadDim(k), context |-> ContextTokens(k),
          group |-> k.group, embedGroup |-> k.embedGroup,
          activation |-> CHOOSE a \in Activations(k) : TRUE, rope |-> RopeScaling(k),
          embedScale |-> IF IsGemma(k) THEN k.hidden ELSE 1,
          attnCap |-> k.attnCap, finalCap |-> k.finalCap, attnScale |-> AttnScale(k),
          localBase |-> IF Stride(k) = 0 THEN 0 ELSE k.localBase, stride |-> Stride(k),
          experts |-> k.experts, perToken |-> IF k.experts = 0 THEN 0 ELSE k.perToken,
          normTopk |-> k.experts # 0 /\ k.normTopk])

(* validate_model_config, the converter's mirror of the reader's checks. *)
ModelConfigValid(c) ==
    /\ \A f \in CoreSize : c[f] \in 1..Limit[f]
    /\ Even(c.hidden) /\ Even(c.inter)
    /\ c.headDim % 8 = 0
    /\ c.heads % c.kvHeads = 0
    /\ AttentionDim(c) <= Limit["inter"] /\ Even(AttentionDim(c))
    /\ \A n \in {c.hidden, c.inter, AttentionDim(c)} : DivCeil(n, c.group) <= MaxGroups
    /\ DivCeil(c.hidden, c.embedGroup) <= MaxGroups
    /\ c.context * (c.headDim \div 2) * 2 * 4 <= MaxRopeBytes

-----------------------------------------------------------------------------
(* ProjectionLayout: projections each in a tensor of its own, or q, k, v and *)
(* gate, up concatenated.                                                    *)

Fused(k) == k.layer[1].fused

LayoutDetected(k) == Fused(k) => \A l \in 1..k.layers : k.layer[l].fused

FusedTensorsChecked(k, c) ==
    LET rows(i) == ProjectionDims(c)[i].rows
    IN  Fused(k) => /\ k.fusedRows.qkv = rows(1) + rows(2) + rows(3)
                    /\ k.fusedRows.gateUp = rows(5) + rows(6)
                    /\ ~k.fusedRows.bias

(* The first row of projection i in the fused tensor that holds it. *)
RowOffset(i, dims) ==
    CASE i = 2 -> dims[1].rows
      [] i = 3 -> dims[1].rows + dims[2].rows
      [] i = 6 -> dims[5].rows
      [] OTHER -> 0

(* Whose rows are read for projection i: those that lie at its offset in the *)
(* checkpoint, where the parts of a fused tensor follow each other.          *)
HeldAt(parts, offset, dims) ==
    {p \in parts : SumFunction([q \in {r \in parts : r < p} |-> dims[q].rows]) = offset}

Origin(k, c, i) ==
    LET dims == ProjectionDims(c)
        parts == IF i \in 1..3 THEN 1..3 ELSE 5..6
    IN  CASE k.experts # 0 /\ i >= 5 -> ExpertTensors(k)[i - 4]
          [] Fused(k) /\ i \notin {4, 7} /\ ~(k.experts # 0 /\ i >= 5) ->
                Projections[CHOOSE p \in HeldAt(parts, RowOffset(i, dims), dims) : TRUE]
          [] OTHER -> Projections[i]

(* The checks that convert makes before it writes, and preflight does not:   *)
(* every tensor of every layer under the name it will be read by.            *)
TensorsChecked(k, c) ==
    /\ k.experts # 0 => c.bias = {} /\ ExpertsLocated(k)
    /\ \A l \in 1..k.layers : ~Fused(k) => ~k.layer[l].fused
    /\ \A l \in 1..k.layers : ToSet(TailNormNames(c)) \subseteq k.layer[l].norms
    /\ k.complete

-----------------------------------------------------------------------------
(* The two verdicts. *)

(* validate_options. *)
OptionsValid(k) ==
    /\ k.group \in 2..254 /\ Even(k.group)
    /\ k.embedGroup \in 2..254 /\ Even(k.embedGroup)
    /\ k.requested <= Limit["context"]

(* What both go through. *)
Resolves(k, weights) ==
    /\ HeadDimResolves(k) /\ ContextResolves(k)
    /\ Activations(k) # {} /\ RopeScalingResolves(k)
    /\ SoftcapResolves(k.attnCap) /\ SoftcapResolves(k.finalCap) /\ SoftcapResolves(k.preAttn)
    /\ LocalRopeResolves(k) /\ ExpertsResolve(k)
    /\ ArchitectureExportable(k, weights)
    /\ weights => BiasResolves(k) /\ QkResolves(k) /\ PostNormResolves(k)

(* convert_with_progress, up to the first byte it writes. *)
ConvertedConfig(k) ==
    With(BaseConfig(k), [bias |-> k.layer[1].bias, qk |-> QkKind(k),
                         sandwich |-> SandwichType(k), postNorm |-> PostNorm(k)])

Converts(k) ==
    LET c == ConvertedConfig(k)
    IN  /\ OptionsValid(k)
        /\ Resolves(k, TRUE)
        /\ ~(PostNorm(k) /\ SandwichType(k))
        /\ ModelConfigValid(c)
        /\ LayoutDetected(k) /\ FusedTensorsChecked(k, c)
        /\ TensorsChecked(k, c)
        /\ SandwichType(k) => SandwichNormsPresent(k)

(* preflight, of a checkpoint or of its config.json alone. *)
PreflightConfig(k, weights) ==
    IF weights
    THEN With(BaseConfig(k), [bias |-> k.layer[1].bias, qk |-> QkKind(k),
                              sandwich |-> SandwichType(k) /\ ~PostNorm(k),
                              postNorm |-> PostNorm(k)])
    ELSE With(BaseConfig(k), [bias |-> {}, qk |-> "none",
                              sandwich |-> SandwichType(k), postNorm |-> FALSE])

PreflightSupports(k, weights) ==
    LET c == PreflightConfig(k, weights)
    IN  /\ Resolves(k, weights)
        /\ c.sandwich /\ weights => SandwichNormsPresent(k)
        /\ k.group <= 255 /\ k.embedGroup <= 255
        /\ ModelConfigValid(c)
        /\ weights => LayoutDetected(k) /\ FusedTensorsChecked(k, c)

(* The report: a verdict, and the container that a conversion would write. *)
PreflightReport(k, weights) ==
    LET c == PreflightConfig(k, weights)
        sizes == PlanSections(c, k.tied)
        table == SectionTable(c, sizes)
    IN  [weights |-> weights, supported |-> PreflightSupports(k, weights),
         container |-> IF ~PreflightSupports(k, weights) THEN <<>>
                       ELSE <<[version |-> Version(c), sections |-> Len(sizes),
                               bytes |-> table[Len(sizes)].offset + table[Len(sizes)].size]>>]

-----------------------------------------------------------------------------
(* The file a conversion of k writes, up to its first n sections. *)

PlannedSections(k) == Len(PlanSections(ConvertedConfig(k), k.tied))

ValuesOf(k, name) == IF name = k.spoilt.tensor THEN k.spoilt.values ELSE "plain"

(* Mutant: a range that f16 cannot hold is written as the infinity it became.*)
QuantizesWide(part, values) == values # "nonfinite"

(* quantize_row and write_f32_vector: no weight that is not finite, and no   *)
(* scale or zero point that f16 makes infinite, reaches the file.            *)
Quantizes(part, values) ==
    /\ values # "nonfinite"
    /\ part = "params" => values # "wide"

File(k, n) ==
    LET c == ConvertedConfig(k)
        sizes == PlanSections(c, k.tied)
        origin == [i \in 1..7 |-> Origin(k, c, i)]
        Stored(block) ==
            With(block, [valid |-> StoredValid(block.part[1], ValuesOf(k, block.tensor.name))])
        sections == WriteSections(c, k.tied, IsGemma(k), origin)
    IN  [header   |-> WriteHeader(c, Len(sizes)),
         table    |-> SectionTable(c, sizes),
         sections |-> [i \in 1..n |-> [j \in DOMAIN sections[i] |-> Stored(sections[i][j])]]]

(* Whether the n-th section can be written at all. *)
SectionWritable(k, n) ==
    \A block \in ToSet(File(k, n).sections[n]) :
        Quantizes(block.part[1], ValuesOf(k, block.tensor.name))

(* The last check before the rename: as many bytes as planned. *)
SizeAsPlanned(k, n) ==
    LET sizes == PlanSections(ConvertedConfig(k), k.tied)
        table == SectionTable(ConvertedConfig(k), sizes)
    IN  FileLen(File(k, n)) = table[Len(sizes)].offset + table[Len(sizes)].size

(* What a model of k must give back when it is read: its configuration, and  *)
(* in every slot the tensor that has this role in the checkpoint's own model *)
(* (1 added to the norms of Gemma).                                          *)
Holds(k, slot, block) ==
    /\ block.part = slot.part
    /\ block.tensor.layer = slot.layer /\ block.tensor.expert = slot.expert
    /\ Role(k, block.tensor.name) = slot.role
    /\ block.tensor.plusOne = (IsGemma(k) /\ block.tensor.name \in NormTensors)

ReadsBack(k, f) ==
    /\ ReadConfig(f.header) = ConvertedConfig(k)
    /\ \A i \in DOMAIN f.table :
          \A s \in ToSet(ReadSection(ReadConfig(f.header), i)) :
              \E p \in ReadPairs(f, i) : p[1].item = s /\ Holds(k, s, p[2].item)
=============================================================================
