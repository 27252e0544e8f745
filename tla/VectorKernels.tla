---------------------------- MODULE VectorKernels ----------------------------
(***************************************************************************)
(* The vector loops of layers.rs: a body of Lanes elements at a time and a *)
(* tail one by one, the norms whose sum runs through two registers, the    *)
(* rotation in place, and attention, whose heads share scratch and threads.*)
(*                                                                         *)
(* As in Kernels a number is the term of how it was computed.  Calls       *)
(* concern one buffer of n elements, or the heads of some tokens.          *)
(***************************************************************************)
EXTENDS Kernels

CONSTANTS
    ParallelMinPos,   \* PARALLEL_ATTENTION_MIN_POS: 256
    VectorCalls

(* A rotation has heads of an even size, or RoPETable refuses them.  The     *)
(* tokens of a call of attention are at positions from 0; a decode has one.  *)
ASSUME VectorKernelsAssumption ==
    /\ ParallelMinPos \in Nat
    /\ Idle \notin VectorCalls
    /\ \A c \in VectorCalls :
          /\ c.avx2 \in BOOLEAN
          /\ \/ c.op \in {"silu", "gelu", "add", "norm", "norm+residual"} /\ c.n \in Nat
             \/ /\ c.op \in {"rope", "decode", "batch"}
                /\ c.heads \in Nat /\ c.headDim \in Nat
    /\ \A c \in VectorCalls : c.op = "rope" => c.headDim > 0 /\ c.headDim % 2 = 0
    /\ \A c \in VectorCalls : c.op \in {"decode", "batch"} =>
          /\ c.positions \in Seq(Nat) \ {<<>>}
          /\ c.op = "decode" => Len(c.positions) = 1
          /\ c.serial \in BOOLEAN

VARIABLES
    vector,     \* the call being made, or Idle
    scored,     \* the heads whose scores are in the scratch buffer
    mixed,      \* the heads that are done
    scratch,    \* the scores
    result      \* the output buffer: index to term

vectorVars == <<vector, scored, mixed, scratch, result>>

-----------------------------------------------------------------------------
(* Which index an element-wise loop visits, and where: silu_mul, gelu_mul,   *)
(* vec_add, add_bias and the second phase of the norms share it.             *)
Visits(n, avx2) ==
    LET body == IF avx2 THEN n \div Lanes ELSE 0
    IN  { <<c * Lanes + j, "body">> : c \in 0 .. body - 1, j \in 0 .. Lanes - 1 }
        \cup { <<i, IF avx2 THEN "tail" ELSE "scalar">> : i \in body * Lanes .. n - 1 }

(* The products of a body are fused with the sums around them and rounded    *)
(* once; those of a tail, written as Rust expressions, are rounded by        *)
(* themselves.                                                               *)
Rounding(where) == IF where = "body" THEN "fused" ELSE "separate"

(* The exponential of a loop: the body's is Schraudolph's, and so is the     *)
(* tail's; only the loop without AVX2 uses the library's.                    *)
ExpCurve(via) == IF via = "scalar" THEN "exp" ELSE "schraudolph"

(* The loops of silu_mul_inplace, gelu_tanh_mul_inplace, vec_add, add_bias.  *)
ElementWise(op, n, avx2) ==
    { [to |-> "output", at |-> v[1],
       term |-> CASE op = "silu" -> <<"silu", ExpCurve(v[2]), v[1], v[1]>>
                  [] op = "gelu" -> <<"gelu", Rounding(v[2]), v[1], v[1]>>
                  [] op = "add"  -> <<"add", v[1], v[1]>>] :
      v \in Visits(n, avx2) }

(* Phase 1 of rms_norm: the squares each lane of the two registers adds up,  *)
(* in order, and the squares added after the horizontal sum.                 *)
SumSquares(n, avx2) ==
    LET pairs  == IF avx2 THEN (n \div Lanes) \div 2 ELSE 0
        at     == pairs * 2 * Lanes
        single == avx2 /\ at + Lanes <= n
        lane(j, offset) == [c \in 1 .. pairs |-> (c - 1) * 2 * Lanes + offset + j]
    IN  [ first  |-> [j \in 0 .. Lanes - 1 |->
                        lane(j, 0) \o (IF single THEN <<at + j>> ELSE <<>>)],
          second |-> [j \in 0 .. Lanes - 1 |-> lane(j, Lanes)],
          tail   |-> [k \in 1 .. n - at - (IF single THEN Lanes ELSE 0) |->
                        at + (IF single THEN Lanes ELSE 0) + k - 1] ]

(* rms_norm: each element under the root of the sum, times its weight.       *)
RmsNorm(n, avx2) ==
    { [to |-> "output", at |-> v[1],
        term |-> <<"normed", v[1], SumSquares(n, avx2)>>] : v \in Visits(n, avx2) }

(* rms_norm_with_residual: the same, and phase 1 stores the residual as it   *)
(* reads: two registers, one register, one element.                          *)
ResidualWithoutSingle(n, avx2) ==     \* mutant: the single register is not stored
    LET at     == IF avx2 THEN ((n \div Lanes) \div 2) * 2 * Lanes ELSE 0
        single == avx2 /\ at + Lanes <= n
    IN  0 .. at - 1 \cup (at + (IF single THEN Lanes ELSE 0)) .. n - 1

Residual(n, avx2) ==
    LET at     == IF avx2 THEN ((n \div Lanes) \div 2) * 2 * Lanes ELSE 0
        single == avx2 /\ at + Lanes <= n
    IN  0 .. at - 1 \cup (IF single THEN at .. at + Lanes - 1 ELSE {})
        \cup (at + (IF single THEN Lanes ELSE 0)) .. n - 1

(* RoPETable::apply, in place: element i of a head turns with element        *)
(* i + half.  The body reads both registers before it stores either.         *)
RotateFrom(buffer, base, half, indices, rounding) ==
    [a \in DOMAIN buffer |->
       IF a - base \in indices
       THEN <<"cos-sin", rounding, a - base, buffer[a], buffer[a + half]>>
       ELSE IF a - base - half \in indices
       THEN <<"cos+sin", rounding, a - base - half, buffer[a], buffer[a - half]>>
       ELSE buffer[a]]

RotateHeads(heads, headDim, avx2) ==
    LET half  == headDim \div 2
        body  == IF avx2 /\ headDim % Lanes = 0 THEN half \div Lanes ELSE 0
        steps == body + (half - body * Lanes)     \* the loop's turns per head
        turn(k) == IF k < body THEN k * Lanes .. k * Lanes + Lanes - 1
                   ELSE {body * Lanes + k - body}
        rounding(k) == Rounding(IF k < body THEN "body" ELSE "tail")
        f[n \in 0 .. heads * steps] ==
            IF n = 0
            THEN [a \in 0 .. heads * headDim - 1 |-> <<"x", a>>]
            ELSE RotateFrom(f[n - 1], ((n - 1) \div steps) * headDim, half,
                            turn((n - 1) % steps), rounding((n - 1) % steps))
    IN  f[heads * steps]

-----------------------------------------------------------------------------
(* Attention.  A call has heads, kvHeads, headDim and the positions of its   *)
(* tokens; "decode" is attention_all_heads for one token, "batch" is         *)
(* attend_batch.  A task is a head of a token, both 0-based.                 *)
Tasks(c) == (0 .. Len(c.positions) - 1) \X (0 .. c.heads - 1)

(* What has to be done before a task may start: nothing where the heads of a *)
(* long decode are spread over the threads, the token's earlier heads where  *)
(* the tokens of a batch are, all that comes earlier in a serial loop.       *)
SpreadHeads(c) == c.op = "decode" /\ ~c.serial /\ c.positions[1] >= ParallelMinPos
SpreadTokens(c) == c.op = "batch" /\ ~c.serial

DoneFirst(c, task) ==
    { u \in Tasks(c) :
        IF SpreadHeads(c) THEN FALSE
        ELSE \/ u[1] = task[1] /\ u[2] < task[2]
             \/ u[1] < task[1] /\ ~SpreadTokens(c) }

(* The slice of the scratch buffer a task uses: a row of the flat buffer for *)
(* each head, or a token's own buffer for all its heads.                     *)
SlotShared(c, task, t) == <<0, t>>            \* mutant: one row for every head

Slot(c, task, t) ==
    IF c.op = "decode" THEN <<0, task[2] * (c.positions[1] + 1) + t>> ELSE <<task[1], t>>

KvHead(c, task) == task[2] \div (c.heads \div c.kvHeads)

(* attention_head, first half: the dot products over the head's columns,     *)
(* capped, and the softmax over the positions 0..pos in place.               *)
Weights(c, task) ==
    LET pos   == c.positions[task[1] + 1]
        avx2  == c.avx2 /\ c.headDim % Lanes = 0
        dot(t) == <<"score", task, KvHead(c, task), t, { v[1] : v \in Visits(c.headDim, avx2) }>>
        exps  == Visits(pos + 1, avx2)
        sum   == { v[1] : v \in exps }
    IN  [ t \in 0 .. pos |->
            LET v == CHOOSE v \in exps : v[1] = t
            IN  <<ExpCurve(v[2]), dot(t), sum>> ]

(* Second half: zero the output, then add each position's value, scaled by   *)
(* what the scratch buffer holds for it.                                     *)
Mixed(c, task) ==
    LET pos == c.positions[task[1] + 1]
    IN  [ t \in 0 .. pos |-> <<scratch[Slot(c, task, t)], KvHead(c, task), t>> ]

-----------------------------------------------------------------------------
VectorInit ==
    /\ vector = Idle
    /\ scored = {} /\ mixed = {} /\ scratch = <<>> /\ result = {}

(* An element-wise loop, a norm or a rotation: one thread, one step.         *)
RunLoop(c) ==
    /\ vector = Idle
    /\ c.op \notin {"decode", "batch"}
    /\ vector' = c
    /\ result' = CASE c.op \in {"silu", "gelu", "add"} -> ElementWise(c.op, c.n, c.avx2)
                   [] c.op = "norm" -> RmsNorm(c.n, c.avx2)
                   [] c.op = "norm+residual" ->
                        RmsNorm(c.n, c.avx2)
                        \cup { [to |-> "residual", at |-> i, term |-> <<"copy", i>>] : i \in Residual(c.n, c.avx2) }
                   [] c.op = "rope" ->
                        LET b == RotateHeads(c.heads, c.headDim, c.avx2)
                        IN  { [to |-> "output", at |-> a, term |-> b[a]] : a \in DOMAIN b }
    /\ UNCHANGED <<scored, mixed, scratch>>

(* The scratch buffer is resized, so it holds whatever an earlier call left. *)
StartAttention(c) ==
    /\ vector = Idle
    /\ c.op \in {"decode", "batch"}
    /\ vector' = c
    /\ scratch' = [s \in {Slot(c, task, t) : task \in Tasks(c), t \in 0 .. 0}
                      \cup UNION { { Slot(c, task, t) : t \in 0 .. c.positions[task[1] + 1] } :
                                   task \in Tasks(c) } |-> "stale"]
    /\ UNCHANGED <<scored, mixed, result>>

Score(task) ==
    /\ vector # Idle /\ vector.op \in {"decode", "batch"}
    /\ task \in Tasks(vector) \ scored
    /\ DoneFirst(vector, task) \subseteq mixed
    /\ LET w == Weights(vector, task)
       IN  scratch' = [ s \in DOMAIN scratch |->
                          IF \E t \in DOMAIN w : Slot(vector, task, t) = s
                          THEN w[CHOOSE t \in DOMAIN w : Slot(vector, task, t) = s]
                          ELSE scratch[s] ]
    /\ scored' = scored \cup {task}
    /\ UNCHANGED <<vector, mixed, result>>

Mix(task) ==
    /\ vector # Idle /\ task \in scored \ mixed
    /\ mixed' = mixed \cup {task}
    /\ result' = result \cup {[to |-> "output", at |-> task, term |-> Mixed(vector, task)]}
    /\ UNCHANGED <<vector, scored, scratch>>

EndVector ==
    /\ vector # Idle
    /\ vector.op \in {"decode", "batch"} => mixed = Tasks(vector)
    /\ vector' = Idle
    /\ scored' = {} /\ mixed' = {} /\ scratch' = <<>> /\ result' = {}

VectorNext ==
    \/ \E c \in VectorCalls : RunLoop(c) \/ StartAttention(c)
    \/ \E task \in UNION { Tasks(c) : c \in { c \in VectorCalls : c.op \in {"decode", "batch"} } } :
         Score(task) \/ Mix(task)
    \/ EndVector

-----------------------------------------------------------------------------
(* The first indices of a loop over n, those of whole registers.             *)
InBody(i, n) == vector.avx2 /\ i < (n \div Lanes) * Lanes

SweepExact ==
    vector # Idle /\ vector.op \notin {"decode", "batch", "rope"} =>
        LET n     == vector.n
            norm  == vector.op \in {"norm", "norm+residual"}
            sum   == SumSquares(n, vector.avx2)
            terms == { r \in result : r.to = "output" }
            summed == [j \in 0 .. 2 * Lanes |->
                         IF j < Lanes THEN sum.first[j]
                         ELSE IF j < 2 * Lanes THEN sum.second[j - Lanes] ELSE sum.tail]
        IN  /\ { r.at : r \in terms } = 0 .. n - 1 /\ Cardinality(terms) = n
            /\ \A r \in terms :
                 r.term = CASE vector.op = "silu" -> <<"silu", r.term[2], r.at, r.at>>
                            [] vector.op = "gelu" ->
                                 <<"gelu", IF InBody(r.at, n) THEN "fused" ELSE "separate", r.at, r.at>>
                            [] vector.op = "add"  -> <<"add", r.at, r.at>>
                            [] norm               -> <<"normed", r.at, sum>>
            /\ vector.op = "silu" => Cardinality({ r.term[2] : r \in terms }) <= 1
            /\ norm => /\ UNION { Range(summed[j]) : j \in DOMAIN summed } = 0 .. n - 1
                       /\ SumFunction([j \in DOMAIN summed |-> Len(summed[j])]) = n
            /\ vector.op = "norm+residual" =>
                 { r.term : r \in result \ terms } = { <<"copy", i>> : i \in 0 .. n - 1 }

RopeExact ==
    vector # Idle /\ vector.op = "rope" =>
        LET half == vector.headDim \div 2
            rounding(i) == IF vector.headDim % Lanes = 0 /\ InBody(i, half) THEN "fused" ELSE "separate"
        IN  \A r \in result :
              LET i == r.at % vector.headDim
              IN  r.term = IF i < half
                           THEN <<"cos-sin", rounding(i), i, <<"x", r.at>>, <<"x", r.at + half>>>>
                           ELSE <<"cos+sin", rounding(i - half), i - half,
                                  <<"x", r.at>>, <<"x", r.at - half>>>>

(* A loop is its formula at every length: each element is computed once from *)
(* the elements of its own index - body, tail and all with one exponential - *)
(* a norm's sum takes each square once, the fused norm leaves a whole copy   *)
(* and the bits of the plain one, and a rotation pairs i with i + half of    *)
(* the values before it.  Only in its rounding does an element depend on     *)
(* where it lies: those in whole registers of a GeLU or a rotation are       *)
(* rounded once where the others, and all without AVX2, are rounded twice.   *)
(* tanh_poly's doc says that body and tail of a buffer cannot disagree.      *)
LoopExact == SweepExact /\ RopeExact

(* A head's output mixes the values of its own KV head at every position up  *)
(* to its token's, under one softmax over just those positions and with one  *)
(* exponential - not with scores another head or call left in the scratch.   *)
AttentionExact ==
    vector # Idle /\ vector.op \in {"decode", "batch"} =>
        \A r \in result :
            LET kv  == r.at[2] \div (vector.heads \div vector.kvHeads)
                all == 0 .. vector.positions[r.at[1] + 1]
            IN  /\ DOMAIN r.term = all
                /\ \A t \in all :
                     r.term[t] = << <<r.term[0][1][1], 
                                      <<"score", r.at, kv, t, 0 .. vector.headDim - 1>>, all>>,
                                    kv, t >>
=============================================================================
