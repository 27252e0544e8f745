------------------------------ MODULE Kernels -------------------------------
(***************************************************************************)
(* The matrix kernels of rai-infer (gemm.rs): how the rows of a product    *)
(* are handed to threads, and what each row is the sum of.                 *)
(*                                                                         *)
(* A number is the list of what was summed to get it: steps of a float     *)
(* accumulator in their order, each a set of products (their sum is exact  *)
(* integer arithmetic, or one scalar loop) under one scale.  A product     *)
(* names the weight and the input it reads by the address arithmetic of    *)
(* the kernel, so an offset that is wrong shows as a wrong product.  Two   *)
(* numbers with the same list are the same bit for bit.                    *)
(*                                                                         *)
(* A call is a record: its kind, the rows of each of its matrices, cols,   *)
(* groupSize, tokens, and whether the host has AVX2.  Rows, columns,       *)
(* tokens and groups are 0-based.                                          *)
(***************************************************************************)
EXTENDS Integers, Sequences, FiniteSets, Functions

CONSTANTS
    Wide,               \* weights per 256-bit block: 64
    Lanes,              \* floats per register: 8
    Tile,               \* tokens per tile of the batch kernel: 4
    MaxGroups,          \* MAX_GROUPS: 1024
    ChunkBytes,         \* weight bytes per chunk: 24576
    MinChunk, MaxChunk, \* its rows are clamped between: 4 and 64
    ParThreshold,       \* PAR_THRESHOLD: 256 rows
    ParMinBytes,        \* PAR_MIN_BYTES: 512 KiB
    LmChunk,            \* LM_CHUNK: 512 rows
    Calls,              \* the calls explored
    Idle

ASSUME KernelsAssumption ==
    /\ Wide \in Nat /\ Wide >= 4 /\ Wide % 4 = 0
    /\ Lanes \in Nat /\ Lanes >= 2 /\ Lanes % 2 = 0
    /\ {Tile, MaxGroups, ChunkBytes, ParThreshold, ParMinBytes, LmChunk} \subseteq Nat \ {0}
    /\ MinChunk \in Nat \ {0} /\ MaxChunk \in Nat /\ MinChunk <= MaxChunk
    /\ Idle \notin Calls
    /\ \A c \in Calls :
          /\ c.kind \in {"matvec", "fused", "matmul", "legacy", "lm_head"}
          /\ c.rows \in Seq(Nat)
          /\ {c.cols, c.groupSize, c.tokens} \subseteq Nat /\ c.avx2 \in BOOLEAN
          /\ c.kind \in {"matmul", "legacy"} \/ c.tokens = 1

VARIABLES
    call,      \* the call being made, or Idle
    waiting,   \* the chunks no thread has taken yet
    buffers,   \* the inputs as the entry point prepared them for the kernels
    written    \* the stores into the outputs

callVars == <<call, waiting, buffers, written>>

CeilDiv(a, b) == (a + b - 1) \div b
AtMost(a, b) == IF a < b THEN a ELSE b

NumGroups(c) == CeilDiv(c.cols, c.groupSize)
Half(c) == c.cols \div 2
GroupStart(c, g) == g * c.groupSize
GroupLen(c, g) == AtMost((g + 1) * c.groupSize, c.cols) - GroupStart(c, g)

(* validate_weight_buffers, of the dimensions; the buffers are the model's.  *)
Valid(c) ==
    /\ \A m \in DOMAIN c.rows : c.rows[m] > 0
    /\ c.cols > 0 /\ c.groupSize > 0 /\ c.tokens > 0
    /\ c.cols % 2 = 0
    /\ c.kind = "lm_head" \/ c.groupSize % 2 = 0
    /\ NumGroups(c) <= MaxGroups

-----------------------------------------------------------------------------
(* Preparing a token's input: its sum over each group, and the quantised     *)
(* input.  The loops take Lanes columns at a time and the rest one by one.   *)
Body(c, g) == (GroupLen(c, g) \div Lanes) * Lanes

(* compute_input_sums: the columns of a group's sum. *)
SumOf(c, g) ==
    LET start == GroupStart(c, g)
    IN  { start + i : i \in 0 .. Body(c, g) - 1 }
        \cup { start + i : i \in Body(c, g) .. GroupLen(c, g) - 1 }

(* quantize_input_split: what it stores for a group, as triples of an index  *)
(* and the columns that go to the even and to the odd half there; with AVX2  *)
(* the pairs of a register go to consecutive indices.                        *)
SplitStores(c, g) ==
    LET start == GroupStart(c, g)
        body  == IF c.avx2 THEN Body(c, g) ELSE 0
        vector == { <<start \div 2 + i * (Lanes \div 2) + j,
                      start + i * Lanes + 2 * j, start + i * Lanes + 2 * j + 1>> :
                    i \in 0 .. body \div Lanes - 1, j \in 0 .. Lanes \div 2 - 1 }
        tail   == { <<col \div 2, col, col + 1>> :
                    col \in { start + body + 2 * k :
                              k \in 0 .. (GroupLen(c, g) - body) \div 2 - 1 } }
    IN  vector \cup tail

(* quantize_hidden_i8: the columns a group stores, in place. *)
HiddenStores(c, g) ==
    { GroupStart(c, g) + i : i \in 0 .. Body(c, g) - 1 }
    \cup { GroupStart(c, g) + i : i \in Body(c, g) .. GroupLen(c, g) - 1 }

(* The buffers of a call: per token, as the kernels index them.  "zero" is   *)
(* what the allocation left where nothing was stored.                        *)
Prepared(c) ==
    LET groups == 0 .. NumGroups(c) - 1
        split  == UNION { SplitStores(c, g) : g \in groups }
        hidden == UNION { HiddenStores(c, g) : g \in groups }
        half(col) ==
            [at \in 0 .. c.tokens * Half(c) - 1 |->
               LET mine == { s \in split : s[1] = at % Half(c) }
               IN  IF mine = {} THEN "zero"
                   ELSE <<"i8", at \div Half(c), (CHOOSE s \in mine : TRUE)[col]>>]
    IN  [ sums   |-> [at \in 0 .. c.tokens * NumGroups(c) - 1 |->
                        <<at \div NumGroups(c), SumOf(c, at % NumGroups(c))>>],
          even   |-> IF c.kind = "lm_head" THEN <<>> ELSE half(2),
          odd    |-> IF c.kind = "lm_head" THEN <<>> ELSE half(3),
          hidden |-> IF c.kind = "lm_head"
                     THEN [at \in 0 .. c.cols - 1 |->
                             IF at \in hidden THEN <<"i8", 0, at>> ELSE "zero"]
                     ELSE <<>> ]

-----------------------------------------------------------------------------
(* Two 4-bit codes to a byte, a row after the other; a token's floats; and   *)
(* its 8-bit halves, low nibbles against even columns.                       *)
Code(c, byte, nibble) == <<byte \div Half(c), 2 * (byte % Half(c)) + nibble>>
Float(c, at) == <<"f32", at \div c.cols, at % c.cols>>
Split(at, nibble) == IF nibble = 0 THEN buffers.even[at] ELSE buffers.odd[at]

(* width products from column `from` of group g: the low nibbles with the    *)
(* even inputs and the high ones with the odd.                               *)
Block(c, row, t, g, from, width) ==
    LET at == (GroupStart(c, g) + from) \div 2
    IN  { <<Code(c, row * Half(c) + at + k, n), Split(t * Half(c) + at + k, n)>> :
            k \in 0 .. width \div 2 - 1, n \in {0, 1} }

(* The scalar loop over what is left: pairs while tc + 1 < actual_gs. *)
Pairs(c, row, t, g, from) ==
    LET start == GroupStart(c, g)
    IN  UNION { LET tc   == from + 2 * k
                    byte == row * Half(c) + (start + tc) \div 2
                IN  { <<Code(c, byte, n), Float(c, t * c.cols + start + tc + n)>> : n \in {0, 1} } :
                k \in 0 .. (GroupLen(c, g) - from) \div 2 - 1 }

ScaledStep(weightScale, inputScale, products) ==
    [weightScale |-> weightScale, inputScale |-> inputScale, products |-> products]

(* Adds a step to the accumulator when the code does. *)
AddIf(condition, acc, step) == IF condition THEN Append(acc, step) ELSE acc

(* The zero points' part of a row: zero of group g times the sum of the      *)
(* token's inputs in g.                                                      *)
ZeroPart(c, row, t) ==
    [i \in 1 .. NumGroups(c) |-> <<row, i - 1, buffers.sums[t * NumGroups(c) + i - 1]>>]

(* matvec_chunk_i8, one row: whole blocks as one integer sum, half a block   *)
(* if it fits, and the rest in floats.                                       *)
MatvecGroupTailTwice(c, row, t, acc, g) ==   \* mutant: the rest begins behind whole blocks
    LET len   == GroupLen(c, g)
        done  == (len \div Wide) * Wide
        half  == done + Wide \div 2 <= len
        wide  == UNION { Block(c, row, t, g, b * Wide, Wide) : b \in 0 .. len \div Wide - 1 }
        acc1  == Append(acc, ScaledStep(g, g, wide))
        acc2  == AddIf(half, acc1, ScaledStep(g, g, Block(c, row, t, g, done, Wide \div 2)))
    IN  AddIf(done < len, acc2, ScaledStep(g, "none", Pairs(c, row, t, g, done)))

MatvecGroup(c, row, t, acc, g) ==
    LET len   == GroupLen(c, g)
        done  == (len \div Wide) * Wide
        half  == done + Wide \div 2 <= len
        done2 == IF half THEN done + Wide \div 2 ELSE done
        wide  == UNION { Block(c, row, t, g, b * Wide, Wide) : b \in 0 .. len \div Wide - 1 }
        acc1  == Append(acc, ScaledStep(g, g, wide))
        acc2  == AddIf(half, acc1, ScaledStep(g, g, Block(c, row, t, g, done, Wide \div 2)))
    IN  AddIf(done2 < len, acc2, ScaledStep(g, "none", Pairs(c, row, t, g, done2)))

MatvecRow(c, row, t) ==
    LET f[n \in 0 .. NumGroups(c)] ==
            IF n = 0 THEN <<>> ELSE MatvecGroup(c, row, t, f[n - 1], n - 1)
    IN  [dot |-> f[NumGroups(c)], zero |-> ZeroPart(c, row, t)]

(* matmul_row_tile, one row for the tokens base .. base + size - 1: the      *)
(* blocks of a group are unpacked once and summed for every token, then each *)
(* token's sums are scaled and added.                                        *)
TileGroupFromBase(c, row, base, size, accs, g) ==  \* mutant: half a block of token base
    LET len   == GroupLen(c, g)
        done  == (len \div Wide) * Wide
        half  == done + Wide \div 2 <= len
        done2 == done + (IF half THEN Wide \div 2 ELSE 0)
        iacc  == [j \in 0 .. size - 1 |->
                    UNION { Block(c, row, base + j, g, b * Wide, Wide) : b \in 0 .. len \div Wide - 1 }]
        rest(j, acc) ==
            AddIf(done2 < len,
                  AddIf(half, acc, ScaledStep(g, g, Block(c, row, base, g, done, Wide \div 2))),
                  ScaledStep(g, "none", Pairs(c, row, base + j, g, done2)))
    IN  [j \in 0 .. size - 1 |-> rest(j, Append(accs[j], ScaledStep(g, g, iacc[j])))]

TileGroup(c, row, base, size, accs, g) ==
    LET len   == GroupLen(c, g)
        done  == (len \div Wide) * Wide
        half  == done + Wide \div 2 <= len
        done2 == done + (IF half THEN Wide \div 2 ELSE 0)
        iacc  == [j \in 0 .. size - 1 |->
                    UNION { Block(c, row, base + j, g, b * Wide, Wide) : b \in 0 .. len \div Wide - 1 }]
        rest(j, acc) ==
            AddIf(done2 < len,
                  AddIf(half, acc, ScaledStep(g, g, Block(c, row, base + j, g, done, Wide \div 2))),
                  ScaledStep(g, "none", Pairs(c, row, base + j, g, done2)))
    IN  [j \in 0 .. size - 1 |-> rest(j, Append(accs[j], ScaledStep(g, g, iacc[j])))]

TileRow(c, row, base, size) ==
    LET f[n \in 0 .. NumGroups(c)] ==
            IF n = 0
            THEN [j \in 0 .. size - 1 |-> <<>>]
            ELSE TileGroup(c, row, base, size, f[n - 1], n - 1)
        accs == f[NumGroups(c)]
    IN  [j \in 0 .. size - 1 |-> [dot |-> accs[j], zero |-> ZeroPart(c, row, base + j)]]

(* matvec_row_scalar and lm_head_row_scalar: one float sum per group.        *)
ScalarRow(c, row, t) ==
    [ dot |-> [i \in 1 .. NumGroups(c) |->
                ScaledStep(i - 1, "none",
                  IF c.kind = "lm_head"
                  THEN { <<<<row, col>>, <<"f32", t, col>>>> :
                           col \in GroupStart(c, i - 1) ..
                                   GroupStart(c, i - 1) + GroupLen(c, i - 1) - 1 }
                  ELSE Pairs(c, row, t, i - 1, 0))],
      zero |-> ZeroPart(c, row, t) ]

(* lm_head_chunk_i8, one row of 8-bit codes: blocks of half the width, the   *)
(* rest one by one, all against the 8-bit hidden state.                      *)
LmHeadRow(c, row) ==
    LET code(at) == <<at \div c.cols, at % c.cols>>
        product(col) == <<code(row * c.cols + col), buffers.hidden[col]>>
        group(g) ==
            LET start == GroupStart(c, g)
                len   == GroupLen(c, g)
                done  == (len \div (Wide \div 2)) * (Wide \div 2)
            IN  AddIf(done < len,
                      << ScaledStep(g, g, { product(start + i) : i \in 0 .. done - 1 }) >>,
                      ScaledStep(g, g, { product(start + i) : i \in done .. len - 1 }))
        f[n \in 0 .. NumGroups(c)] == IF n = 0 THEN <<>> ELSE f[n - 1] \o group(n - 1)
    IN  [dot |-> f[NumGroups(c)], zero |-> ZeroPart(c, row, 0)]

-----------------------------------------------------------------------------
(* Dispatch.  Whether a single token's product is worth threads: its rows    *)
(* and its weight bytes, those of all the matrices of a fused call.          *)
TotalRows(c) == SumFunction(c.rows)

ShouldParallelize(c) ==
    TotalRows(c) >= ParThreshold /\ (TotalRows(c) * c.cols) \div 2 >= ParMinBytes

ChunkRows(c) ==
    IF c.kind = "lm_head"
    THEN LmChunk
    ELSE LET fits == ChunkBytes \div (IF Half(c) > 0 THEN Half(c) ELSE 1)
         IN  IF fits < MinChunk THEN MinChunk ELSE AtMost(fits, MaxChunk)

Parallel(c) ==
    /\ c.avx2
    /\ \/ c.kind = "lm_head"
       \/ c.kind \in {"matmul", "legacy"} /\ c.tokens > 1
       \/ ShouldParallelize(c)

(* The chunks of a call: those of each matrix one after the other.  A serial *)
(* call is one piece of work per matrix.                                     *)
ChunksOf(c, m) == IF Parallel(c) THEN CeilDiv(c.rows[m], ChunkRows(c)) ELSE 1

TotalChunks(c) == SumFunction([m \in DOMAIN c.rows |-> ChunksOf(c, m)])

(* The index arithmetic of the fused calls: the matrix of chunk i, and the   *)
(* chunk's number in it.                                                     *)
ChunkInMatrix(c, i) ==
    LET before[m \in 1 .. Len(c.rows)] ==
            IF m = 1 THEN 0 ELSE before[m - 1] + ChunksOf(c, m - 1)
        m == CHOOSE k \in DOMAIN c.rows : before[k] <= i /\ i < before[k] + ChunksOf(c, k)
    IN  [matrix |-> m, start |-> (i - before[m]) * (IF Parallel(c) THEN ChunkRows(c) ELSE c.rows[m])]

ChunkLenWhole(c, m, start) ==          \* mutant: the last chunk is a whole one
    IF Parallel(c) THEN ChunkRows(c) ELSE c.rows[m]

ChunkLen(c, m, start) ==
    IF Parallel(c) THEN AtMost(ChunkRows(c), c.rows[m] - start) ELSE c.rows[m]

(* What each entry point computes of a row, by token.  w4a8_matvec and the   *)
(* fused calls: the kernel, or without AVX2 the scalar loop.                 *)
MatvecValues(c, row) ==
    [t \in {0} |-> IF c.avx2 THEN MatvecRow(c, row, t) ELSE ScalarRow(c, row, t)]

(* w4a8_matmul: one token is a matvec; several go in tiles and the rest one  *)
(* by one, or, by the legacy switch, all through the single-token kernel.    *)
MatmulValues(c, row) ==
    LET whole == (c.tokens \div Tile) * Tile
        tiles == [b \in 0 .. c.tokens \div Tile - 1 |-> TileRow(c, row, b * Tile, Tile)]
    IN  IF c.tokens = 1 THEN MatvecValues(c, row)
        ELSE [t \in 0 .. c.tokens - 1 |->
                CASE ~c.avx2 -> ScalarRow(c, row, t)
                  [] c.avx2 /\ c.kind = "legacy" -> MatvecRow(c, row, t)
                  [] c.avx2 /\ c.kind = "matmul" /\ t < whole -> tiles[t \div Tile][t % Tile]
                  [] OTHER -> TileRow(c, row, t, 1)[0]]

(* tied_lm_head. *)
LmHeadValues(c, row) ==
    [t \in {0} |-> IF c.avx2 THEN LmHeadRow(c, row) ELSE ScalarRow(c, row, t)]

RowValues(c, row) ==
    CASE c.kind \in {"matvec", "fused"}  -> MatvecValues(c, row)
      [] c.kind \in {"matmul", "legacy"} -> MatmulValues(c, row)
      [] c.kind = "lm_head"              -> LmHeadValues(c, row)

(* What chunk i stores: the outputs of a token are together. *)
ChunkStores(c, i) ==
    LET at == ChunkInMatrix(c, i)
        m  == at.matrix
    IN  UNION { LET values == RowValues(c, row)
                IN  { [to |-> <<m, t * c.rows[m] + row>>, chunk |-> i, value |-> values[t]] :
                        t \in DOMAIN values } :
                row \in at.start .. at.start + ChunkLen(c, m, at.start) - 1 }

-----------------------------------------------------------------------------
CallInit ==
    /\ call = Idle
    /\ waiting = {} /\ buffers = <<>> /\ written = {}

(* A public entry point (w4a8_matvec, w4a8_fused_qkv, w4a8_fused_gate_up,    *)
(* w4a8_matmul, tied_lm_head): its checks, which panic before anything is    *)
(* stored, the prepared input, and the chunks put before the threads.        *)
StartCall(c) ==
    /\ call = Idle
    /\ Valid(c)
    /\ call' = c
    /\ buffers' = Prepared(c)
    /\ waiting' = 0 .. TotalChunks(c) - 1
    /\ written' = {}

(* Some thread takes a chunk; the chunks share nothing but the outputs.      *)
RunChunk(i) ==
    /\ call # Idle /\ i \in waiting
    /\ waiting' = waiting \ {i}
    /\ written' = written \cup ChunkStores(call, i)
    /\ UNCHANGED <<call, buffers>>

EndCall ==
    /\ call # Idle /\ waiting = {}
    /\ call' = Idle
    /\ buffers' = <<>> /\ written' = {}
    /\ UNCHANGED waiting

CallNext ==
    \/ \E c \in Calls : StartCall(c)
    \/ \E i \in waiting : RunChunk(i)
    \/ EndCall

-----------------------------------------------------------------------------
(* The threads write through bare pointers: no element of an output is       *)
(* written twice, none outside it, and none is left out, whatever the number *)
(* of rows leaves for the last chunk of each matrix.                         *)
RowsOnce ==
    call # Idle =>
        LET addresses == UNION { { <<m, a>> : a \in 0 .. call.tokens * call.rows[m] - 1 } :
                                 m \in DOMAIN call.rows }
            stored    == { s.to : s \in written }
        IN  /\ Cardinality(written) = Cardinality(stored)
            /\ stored \subseteq addresses
            /\ waiting = {} => stored = addresses

(* An element is the product of its row and its token: each column's code    *)
(* meets the input of that column once, under the scales of its own group,   *)
(* and the zero point of each group meets the sum of that group's inputs -   *)
(* for every way the columns fall into groups, blocks and rests.             *)
DotExact ==
    \A s \in written :
        LET row  == s.to[2] % call.rows[s.to[1]]
            t    == s.to[2] \div call.rows[s.to[1]]
            cols == 0 .. call.cols - 1
            dot  == s.value.dot
            group(col) == col \div call.groupSize
        IN  /\ \A i \in DOMAIN dot : \A p \in dot[i].products :
                  /\ p[1] = <<row, p[1][2]>> /\ p[2] = <<p[2][1], t, p[1][2]>>
                  /\ dot[i].weightScale = group(p[1][2])
                  /\ dot[i].inputScale = IF p[2][1] = "f32" THEN "none" ELSE group(p[1][2])
            /\ UNION { { p[1][2] : p \in dot[i].products } : i \in DOMAIN dot } = cols
            /\ SumFunction([i \in DOMAIN dot |-> Cardinality(dot[i].products)]) = call.cols
            /\ s.value.zero = [i \in 1 .. NumGroups(call) |->
                  <<row, i - 1, <<t, { col \in cols : group(col) = i - 1 }>>>>]

(* A token's product is the same bit for bit in a batch and alone: the tile, *)
(* the legacy loop and the single kernel sum the same things in one order.   *)
(* A comment at the test of the two (gemm.rs:2362) expects their orders to   *)
(* differ and tolerates it; forward_batch relies on their being one.         *)
BatchSameBits ==
    call # Idle /\ call.avx2 /\ call.kind # "lm_head" =>
        \A s \in written :
            s.value = MatvecRow(call, s.to[2] % call.rows[s.to[1]],
                                s.to[2] \div call.rows[s.to[1]])
=============================================================================
