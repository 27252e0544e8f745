------------------------------ MODULE KVCache ------------------------------
(***************************************************************************)
(* The key/value cache of rai-infer/src/kv_cache.rs, as operators on a     *)
(* value.                                                                  *)
(*                                                                         *)
(* A cache is a record of three fields of LayerKVCache: the allocated      *)
(* capacity, the `filled` watermark and the buffer.  The buffer holds one  *)
(* entry per allocated position.  An entry stands for the K and V vectors  *)
(* of a position, and is the *context* they are a function of: the tokens  *)
(* at positions 0..p that the forward pass attended to when it computed    *)
(* them.  Heads and head_dim are left out: every head of a position is     *)
(* written and copied together.                                            *)
(*                                                                         *)
(* Positions are 0-based, as in the code.                                  *)
(***************************************************************************)
EXTENDS Integers

CONSTANTS
    InitialPositions,  \* INITIAL_POSITIONS: positions allocated up front
    Blank              \* an allocated position nothing was ever stored at

ASSUME InitialPositionsAssumption == InitialPositions \in Nat \ {0}

Lesser(a, b)  == IF a <= b THEN a ELSE b
Greater(a, b) == IF a >= b THEN a ELSE b

(* LayerKVCache::new for a window of max positions. *)
NewCache(max) ==
    LET capacity == Lesser(max, InitialPositions)
    IN  [ capacity |-> capacity,
          filled   |-> 0,
          data     |-> [p \in 0 .. capacity - 1 |-> Blank] ]

(* LayerKVCache::grow_to_hold: double, but never past the window.  Only    *)
(* the filled positions are copied to the new buffers; what lay beyond the *)
(* watermark is lost.                                                      *)
Grow(c, pos, max) ==
    IF pos < c.capacity
    THEN c
    ELSE LET target == Lesser(Greater(2 * c.capacity, pos + 1), max)
         IN  [ capacity |-> target,
               filled   |-> c.filled,
               data     |-> [p \in 0 .. target - 1 |->
                               IF p < c.filled THEN c.data[p] ELSE Blank] ]

(* The assertions of `store` on the position: inside the window, and no    *)
(* gap of unwritten positions below it.                                    *)
StoreAllowed(c, pos, max) == pos < max /\ pos <= c.filled

(* LayerKVCache::store, its assertions aside. *)
Store(c, pos, max, entry) ==
    LET g == Grow(c, pos, max)
    IN  [ capacity |-> g.capacity,
          filled   |-> Greater(g.filled, pos + 1),
          data     |-> [g.data EXCEPT ![pos] = entry] ]

(* KVCache::truncate: the entries stay where they are and stop counting.   *)
TruncateNothing(c, len) == c           \* mutant: rejected drafts are kept

Truncate(c, len) == [c EXCEPT !.filled = Lesser(c.filled, len)]

(* What a forward pass over token t at pos computes from: its own token,   *)
(* and the token each cached entry below pos was computed for.             *)
Attended(c, pos, t) ==
    [q \in 0 .. pos |-> IF q = pos THEN t ELSE c.data[q][q]]

-----------------------------------------------------------------------------
(* The type of a cache for a window of max positions. *)
CacheType(c, max) ==
    /\ c.capacity \in Nat /\ c.capacity <= max
    /\ c.filled \in Nat /\ c.filled <= c.capacity
    /\ DOMAIN c.data = 0 .. c.capacity - 1

(* A line is the sequence a cache works on, by position.  A cache is         *)
(* coherent with it when every entry that counts, and lies on the line, was  *)
(* computed from exactly the tokens of the line up to its position.          *)
Coherent(c, line) ==
    \A p \in 0 .. c.filled - 1 :
        p \in DOMAIN line => c.data[p] = [q \in 0 .. p |-> line[q]]
=============================================================================
