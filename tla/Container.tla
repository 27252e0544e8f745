----------------------------- MODULE Container -----------------------------
(***************************************************************************)
(* The `.raimodel` container, whose layout is written down three times: by *)
(* the planner that sizes the sections before a byte exists and by the     *)
(* writer that streams them (rai-infer/src/convert.rs), and by the reader  *)
(* that slices them (rai-infer/src/format.rs).  Each is an operator of its *)
(* own here, as it is a function of its own there.                         *)
(*                                                                         *)
(* A block is a run of bytes of one kind from one tensor.  What the bytes  *)
(* are is abstracted to which tensor they came from; how many they are is  *)
(* kept, because nothing else says where a block begins.                   *)
(*                                                                         *)
(* A configuration is a record: the sizes of CoreSize, the two group sizes,*)
(* and what a version 2 header can say besides: bias (the set of           *)
(* projections that carry one), qk ("none", "head" or "full"), sandwich,   *)
(* postNorm, and the fields of Capability.  A real number is an integer    *)
(* here, 0 where it means "off"; a square root is known by its square.     *)
(***************************************************************************)
EXTENDS Integers, SequencesExt

CONSTANTS
    Limit,          \* CoreSize -> MAX_HIDDEN_SIZE, MAX_LAYERS, and so on
    MaxGroups,      \* MAX_GROUPS, the kernels' group budget
    MaxRopeBytes,   \* MAX_ROPE_TABLE_BYTES
    MaxModelBytes   \* MAX_MODEL_FILE_BYTES, a limit that only the reader knows

CoreSize == {"hidden", "layers", "heads", "kvHeads", "headDim", "inter", "vocab", "context"}

ASSUME ContainerAssumption ==
    /\ Limit \in [CoreSize -> Nat] /\ MaxGroups \in Nat
    /\ MaxRopeBytes \in Nat /\ MaxModelBytes \in Nat

(* rope_scaling none: no parameter is stored. *)
PlainRope == [type |-> "default", factor |-> 0, low |-> 0, high |-> 0, original |-> 0]

(* What a model that needs only version 1 has of each capability. *)
NoCapabilities ==
    [activation |-> "silu", rope |-> PlainRope, embedScale |-> 1, attnCap |-> 0, finalCap |-> 0,
     attnScale |-> 0, localBase |-> 0, stride |-> 0, experts |-> 0, perToken |-> 0,
     normTopk |-> FALSE, bias |-> {}, qk |-> "none", sandwich |-> FALSE, postNorm |-> FALSE]

Capability ==
    {"activation", "rope", "embedScale", "attnCap", "finalCap", "attnScale", "localBase",
     "stride", "experts", "perToken", "normTopk", "bias"}

Projections == <<"q", "k", "v", "o", "gate", "up", "down">>
Biases      == <<"q_bias", "k_bias", "v_bias", "o_bias", "gate_bias", "up_bias", "down_bias">>

(* f, and of g the fields that f does not have. *)
With(f, g) ==
    [x \in (DOMAIN f) \cup (DOMAIN g) |-> IF x \in DOMAIN f THEN f[x] ELSE g[x]]

Even(n) == n % 2 = 0

DivCeil(a, b) == (a + b - 1) \div b

AttentionDim(c) == c.heads * c.headDim
KvDim(c)        == c.kvHeads * c.headDim

Dim(rows, cols) == [rows |-> rows, cols |-> cols]

ParamBytes(d, group) == d.rows * DivCeil(d.cols, group) * 4

TotalBytes(blocks) == SumFunction([i \in DOMAIN blocks |-> blocks[i].bytes])

(* RaiConfig::projection_dims. *)
ProjectionDims(c) ==
    <<Dim(AttentionDim(c), c.hidden), Dim(KvDim(c), c.hidden), Dim(KvDim(c), c.hidden),
      Dim(c.hidden, AttentionDim(c)),
      Dim(c.inter, c.hidden), Dim(c.inter, c.hidden), Dim(c.hidden, c.inter)>>

(* RaiConfig::version: 1 as long as nothing of the model needs more. *)
Version(c) ==
    IF \A f \in (DOMAIN NoCapabilities) \ {"localBase", "perToken", "normTopk"} :
           c[f] = NoCapabilities[f]
    THEN 1 ELSE 2

HeaderSize(version) == IF version = 1 THEN 64 ELSE 128
EntrySize == 16

-----------------------------------------------------------------------------
(* The plan: section sizes from the configuration alone. *)

EmbeddingLen(c) == ParamBytes(Dim(c.vocab, c.hidden), c.embedGroup) + c.vocab * c.hidden

LinearLen(d, group) == 8 + ParamBytes(d, group) + (d.rows * d.cols) \div 2

(* Mutant: the second copy forgets the two sizes a linear begins with. *)
ExpertLinearLenWithoutDims(d, group) == ParamBytes(d, group) + DivCeil(d.rows * d.cols, 2)

(* linear_bytes, the second copy of the rule, used for the experts. *)
ExpertLinearLen(d, group) == 8 + ParamBytes(d, group) + DivCeil(d.rows * d.cols, 2)

LayerLen(c) ==
    LET dims == ProjectionDims(c)
        linears == SumFunction([i \in 1..7 |-> LinearLen(dims[i], c.group)])
        biases  == SumFunction([i \in c.bias |-> dims[i].rows * 4])
        qkNorm  == CASE c.qk = "head" -> 2 * c.headDim * 4
                     [] c.qk = "full" -> (AttentionDim(c) + KvDim(c)) * 4
                     [] OTHER         -> 0
        sandwich == IF c.sandwich THEN 2 * c.hidden * 4 ELSE 0
        perExpert == SumFunction([i \in 5..7 |-> ExpertLinearLen(dims[i], c.group)])
        experts == IF c.experts = 0 THEN 0
                   ELSE c.experts * c.hidden * 4 + (c.experts - 1) * perExpert
    IN  linears + biases + qkNorm + sandwich + experts + 2 * c.hidden * 4

PlanSections(c, tied) ==
    <<EmbeddingLen(c)>> \o [l \in 1..c.layers |-> LayerLen(c)] \o <<c.hidden * 4>>
        \o (IF tied THEN <<>> ELSE <<LinearLen(Dim(c.vocab, c.hidden), c.group)>>)

(* The section table: contiguous, beginning where the table itself ends. *)
SectionTable(c, sizes) ==
    LET start == HeaderSize(Version(c)) + Len(sizes) * EntrySize
    IN  [i \in DOMAIN sizes |->
            [offset |-> start + SumFunction([j \in 1..(i - 1) |-> sizes[j]]),
             size   |-> sizes[i]]]

-----------------------------------------------------------------------------
(* The writer: the blocks of each section in the order of their bytes.  A    *)
(* matrix's codes reach the file before its parameters do, with a seek; only *)
(* a reader of an unfinished file could tell.                                *)

Tensor(layer, name) == [layer |-> layer, name |-> name, expert |-> 0, plusOne |-> FALSE]

Block(tensor, part, bytes) == [tensor |-> tensor, part |-> part, bytes |-> bytes]

WriteMatrix(tensor, d, group) ==
    <<Block(tensor, <<"dims", d.rows, d.cols>>, 8),
      Block(tensor, <<"params">>, ParamBytes(d, group)),
      Block(tensor, <<"codes">>, d.rows * (d.cols \div 2))>>

WriteVector(tensor, len) == <<Block(tensor, <<"f32">>, len * 4)>>

WriteEmbedding(c) ==
    LET t == Tensor(0, "embed_tokens")
    IN  <<Block(t, <<"params">>, ParamBytes(Dim(c.vocab, c.hidden), c.embedGroup)),
          Block(t, <<"codes">>, c.vocab * c.hidden)>>

SandwichNormNames == <<"post_attention_layernorm", "post_feedforward_layernorm">>

TailNormNames(c) ==
    IF c.postNorm THEN SandwichNormNames
    ELSE <<"input_layernorm",
           IF c.sandwich THEN "pre_feedforward_layernorm" ELSE "post_attention_layernorm">>

QkLens(c) == IF c.qk = "full" THEN <<AttentionDim(c), KvDim(c)>> ELSE <<c.headDim, c.headDim>>

(* One layer.  origin[i] is the projection whose rows are read for the i-th, *)
(* and fold says whether 1 is added to norm weights (GemmaFolds).            *)
WriteLayer(c, l, fold, origin) ==
    LET dims == ProjectionDims(c)
        Norm(name) == [Tensor(l, name) EXCEPT !.plusOne = fold]
        linears == [i \in 1..7 |-> WriteMatrix(Tensor(l, origin[i]), dims[i], c.group)]
        biases  == [i \in 1..7 |-> IF i \in c.bias
                                   THEN WriteVector(Tensor(l, Biases[i]), dims[i].rows)
                                   ELSE <<>>]
        qkNorm  == IF c.qk = "none" THEN <<>>
                   ELSE WriteVector(Norm("q_norm"), QkLens(c)[1])
                            \o WriteVector(Norm("k_norm"), QkLens(c)[2])
        sandwich == IF ~c.sandwich THEN <<>>
                    ELSE WriteVector(Norm(SandwichNormNames[1]), c.hidden)
                             \o WriteVector(Norm(SandwichNormNames[2]), c.hidden)
        Expert(e) == FlattenSeq([i \in 1..3 |->
                         WriteMatrix([Tensor(l, origin[4 + i]) EXCEPT !.expert = e],
                                     dims[4 + i], c.group)])
        experts == IF c.experts = 0 THEN <<>>
                   ELSE WriteVector(Tensor(l, "router"), c.experts * c.hidden)
                            \o FlattenSeq([e \in 1..(c.experts - 1) |-> Expert(e)])
        tail    == WriteVector(Norm(TailNormNames(c)[1]), c.hidden)
                       \o WriteVector(Norm(TailNormNames(c)[2]), c.hidden)
    IN  FlattenSeq(linears) \o FlattenSeq(biases) \o qkNorm \o sandwich \o experts \o tail

WriteSections(c, tied, fold, origin) ==
    <<WriteEmbedding(c)>>
        \o [l \in 1..c.layers |-> WriteLayer(c, l, fold, origin)]
        \o <<WriteVector([Tensor(0, "final_norm") EXCEPT !.plusOne = fold], c.hidden)>>
        \o (IF tied THEN <<>>
            ELSE <<WriteMatrix(Tensor(0, "lm_head"), Dim(c.vocab, c.hidden), c.group)>>)

(* RaiConfig::flags and write_header.  A version 1 header ends before the    *)
(* capability block.                                                         *)
Flags(c) ==
    {f \in {"biases", "qkHead", "qkFull", "sandwich", "postNorm"} :
        CASE f = "biases"   -> c.bias # {}
          [] f = "qkHead"   -> c.qk = "head"
          [] f = "qkFull"   -> c.qk = "full"
          [] f = "sandwich" -> c.sandwich
          [] f = "postNorm" -> c.postNorm}

WriteHeader(c, sections) ==
    [version  |-> Version(c),
     sections |-> sections,
     core     |-> [f \in CoreSize \cup {"group", "embedGroup"} |-> c[f]],
     caps     |-> IF Version(c) = 1 THEN <<>>
                  ELSE <<With([flags |-> Flags(c)], [f \in Capability |-> c[f]])>>]

-----------------------------------------------------------------------------
(* The reader. *)

(* What parse_header makes of a header it accepts. *)
ReadConfig(h) ==
    IF h.version = 1 THEN With(h.core, NoCapabilities)
    ELSE LET v == h.caps[1]
             named == [sandwich |-> "sandwich" \in v.flags,
                       postNorm |-> "postNorm" \in v.flags,
                       qk |-> CASE "qkHead" \in v.flags -> "head"
                                [] "qkFull" \in v.flags -> "full"
                                [] OTHER -> "none"]
         IN  With(With(h.core, [f \in Capability |-> v[f]]), named)

(* read_v2_capabilities, part by part: what must agree in the flags, *)
FlagsAccepted(v) ==
    /\ v.activation \in {"silu", "gelu_tanh"}
    /\ v.bias \subseteq 1..7 /\ ("biases" \in v.flags) = (v.bias # {})
    /\ ~({"qkHead", "qkFull"} \subseteq v.flags)
    /\ ~({"sandwich", "postNorm"} \subseteq v.flags)

(* in the RoPE parameters, *)
RopeAccepted(r) ==
    \/ r = PlainRope
    \/ /\ r.type = "llama3"
       /\ r.factor > 0 /\ r.low > 0 /\ r.high > 0 /\ r.low # r.high
       /\ r.original \in 1..Limit["context"]

(* in the number of experts, *)
ExpertsAccepted(v) ==
    IF v.experts = 0 THEN v.perToken = 0 /\ ~v.normTopk
    ELSE v.experts >= 2 /\ v.perToken \in 1..v.experts

(* and in the second RoPE base. *)
LocalRopeAccepted(v) ==
    /\ v.localBase >= 0 /\ (v.localBase > 0) = (v.stride > 0)
    /\ v.stride # 1

CapabilitiesAccepted(v) ==
    /\ FlagsAccepted(v) /\ RopeAccepted(v.rope)
    /\ v.embedScale > 0 /\ v.attnCap >= 0 /\ v.finalCap >= 0 /\ v.attnScale >= 0
    /\ ExpertsAccepted(v) /\ LocalRopeAccepted(v)

(* What the kernels can run: validate_config of the reader. *)
ConfigAccepted(c) ==
    /\ \A f \in CoreSize : c[f] \in 1..Limit[f]
    /\ c.group > 0 /\ Even(c.group) /\ c.embedGroup > 0 /\ Even(c.embedGroup)
    /\ Even(c.hidden) /\ Even(c.inter)
    /\ c.headDim % 8 = 0
    /\ c.heads % c.kvHeads = 0
    /\ AttentionDim(c) <= Limit["inter"] /\ Even(AttentionDim(c))
    /\ \A n \in {c.hidden, c.inter, AttentionDim(c)} : DivCeil(n, c.group) <= MaxGroups
    /\ DivCeil(c.hidden, c.embedGroup) <= MaxGroups
    /\ c.context * (c.headDim \div 2) * 2 * 4 <= MaxRopeBytes

HeaderAccepted(h) ==
    /\ h.version = 1 \/ CapabilitiesAccepted(h.caps[1])
    /\ ConfigAccepted(ReadConfig(h))
    /\ h.sections \in {h.core.layers + 2, h.core.layers + 3}

(* ModelConfig::projection_dims. *)
ReaderDims(c) ==
    LET qDim == AttentionDim(c)
        kvDim == KvDim(c)
    IN  <<Dim(qDim, c.hidden), Dim(kvDim, c.hidden), Dim(kvDim, c.hidden), Dim(c.hidden, qDim),
          Dim(c.inter, c.hidden), Dim(c.inter, c.hidden), Dim(c.hidden, c.inter)>>

(* A slot is what the reader takes a run of bytes to be: the part a weight   *)
(* plays in the forward pass, which for a norm is where it is applied        *)
(* (RaiModel::norm_placement).                                               *)
Slot(layer, role, part, bytes) ==
    [layer |-> layer, role |-> role, expert |-> 0, part |-> part, bytes |-> bytes]

ReadLinear(layer, role, d, group) ==
    <<Slot(layer, role, <<"dims", d.rows, d.cols>>, 8),
      Slot(layer, role, <<"params">>, ParamBytes(d, group)),
      Slot(layer, role, <<"codes">>, DivCeil(d.rows * d.cols, 2))>>

TakeVector(layer, role, values) == <<Slot(layer, role, <<"f32">>, values * 4)>>

ReadEmbedding(c) ==
    <<Slot(0, "embed_tokens", <<"params">>,
           c.vocab * DivCeil(c.hidden, c.embedGroup) * 4),
      Slot(0, "embed_tokens", <<"codes">>, c.vocab * c.hidden)>>

ReadLayer(c, l) ==
    LET dims == ReaderDims(c)
        Take(role, values) == TakeVector(l, role, values)
        linears == [i \in 1..7 |-> ReadLinear(l, Projections[i], dims[i], c.group)]
        biases  == [i \in 1..7 |-> IF i \in c.bias
                                   THEN Take(Biases[i], dims[i].rows)
                                   ELSE <<>>]
        qkNorm  == CASE c.qk = "head" -> Take("q_norm", c.headDim) \o Take("k_norm", c.headDim)
                     [] c.qk = "full" -> Take("q_norm", AttentionDim(c))
                                             \o Take("k_norm", KvDim(c))
                     [] OTHER -> <<>>
        sandwich == IF c.sandwich
                    THEN Take("after_attn", c.hidden) \o Take("after_mlp", c.hidden)
                    ELSE <<>>
        Expert(e) == LET slots == FlattenSeq([i \in 1..3 |->
                                      ReadLinear(l, Projections[4 + i], dims[4 + i], c.group)])
                     IN  [j \in DOMAIN slots |-> [slots[j] EXCEPT !.expert = e]]
        experts == IF c.experts = 0 THEN <<>>
                   ELSE Take("router", c.experts * c.hidden)
                            \o FlattenSeq([e \in 1..(c.experts - 1) |-> Expert(e)])
        tail    == IF c.postNorm
                   THEN Take("after_attn", c.hidden) \o Take("after_mlp", c.hidden)
                   ELSE Take("before_attn", c.hidden) \o Take("before_mlp", c.hidden)
    IN  FlattenSeq(linears) \o FlattenSeq(biases) \o qkNorm \o sandwich \o experts \o tail

(* Section i: embedding, layers, final norm, and lm_head if there is one. *)
ReadSection(c, i) ==
    CASE i = 1 -> ReadEmbedding(c)
      [] i \in 2..(c.layers + 1) -> ReadLayer(c, i - 1)
      [] i = c.layers + 2 -> TakeVector(0, "final_norm", c.hidden)
      [] i = c.layers + 3 -> ReadLinear(0, "lm_head", Dim(c.vocab, c.hidden), c.group)

-----------------------------------------------------------------------------
(* A file: its header, its table, and the blocks of the sections written. *)

FileLen(f) ==
    HeaderSize(f.header.version) + Len(f.table) * EntrySize + TotalBytes(FlattenSeq(f.sections))

(* Blocks or slots laid end to end from an offset on. *)
Placed(items, from) ==
    LET start[i \in 1..Len(items)] ==
            IF i = 1 THEN from ELSE start[i - 1] + items[i - 1].bytes
    IN  {[start |-> start[i], item |-> items[i]] : i \in DOMAIN items}

(* What the slots of section i hold: pairs of a slot and the block that lies *)
(* exactly there.  A slot that straddles blocks is in no pair.               *)
ReadPairs(f, i) ==
    LET body   == HeaderSize(f.header.version) + Len(f.table) * EntrySize
        blocks == Placed(FlattenSeq(f.sections), body)
        slots  == Placed(ReadSection(ReadConfig(f.header), i), f.table[i].offset)
    IN  {p \in slots \X blocks : /\ p[1].start = p[2].start
                                 /\ p[1].item.bytes = p[2].item.bytes}

(* What a quantized matrix holds after its scales and zero points were       *)
(* rounded to f16, and a vector after it was written: values is what its     *)
(* tensor holds, "flat" (one value, whose range of 0 the smallest scale      *)
(* replaces), "wide" (a range or an offset that f16 cannot hold),            *)
(* "nonfinite" or "plain".                                                   *)
StoredValid(part, values) ==
    CASE part = "params" -> values \in {"plain", "flat"}
      [] part = "f32"    -> values # "nonfinite"
      [] OTHER           -> TRUE

(* validate_layout: every scale is finite and positive, every zero point and *)
(* every value of a vector finite, in the experts as in the dense part.      *)
ValuesAccepted(f) == \A b \in ToSet(FlattenSeq(f.sections)) : b.valid

(* A file of more bytes is refused before any of them is read. *)
WithinFileLimit(f) == FileLen(f) <= MaxModelBytes

(* RaiModelFile::open: a file within the limit, its header, contiguous       *)
(* non-empty sections that end with it, every section as long as its slots,  *)
(* every linear of the dimensions the configuration implies.                 *)
Opens(f) ==
    LET h == f.header
        SectionEnd(i) == IF i = 0 THEN HeaderSize(h.version) + h.sections * EntrySize
                         ELSE f.table[i].offset + f.table[i].size
    IN  /\ WithinFileLimit(f)
        /\ HeaderAccepted(h)
        /\ \A i \in 1..h.sections : f.table[i].size > 0 /\ f.table[i].offset = SectionEnd(i - 1)
        /\ SectionEnd(h.sections) = FileLen(f)
        /\ \A i \in 1..h.sections :
              LET slots == ReadSection(ReadConfig(h), i)
              IN  /\ f.table[i].size = TotalBytes(slots)
                  /\ \A s \in ToSet(slots) : s.part[1] = "dims" =>
                        \E p \in ReadPairs(f, i) : p[1].item = s /\ p[2].item.part = s.part
        /\ ValuesAccepted(f)
=============================================================================
