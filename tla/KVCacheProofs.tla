--------------------------- MODULE KVCacheProofs ---------------------------
(***************************************************************************)
(* Facts about the cache operators, for caches of any capacity and windows *)
(* of any size.                                                            *)
(***************************************************************************)
EXTENDS KVCache, TLAPS

(* A fresh cache is empty and no larger than its window. *)
LEMMA NewCacheFacts ==
    ASSUME NEW max \in Nat
    PROVE  /\ CacheType(NewCache(max), max)
           /\ NewCache(max).filled = 0
  BY InitialPositionsAssumption DEF NewCache, CacheType, Lesser

(* Growing to hold a position below the window yields a cache that holds it, *)
(* no larger than the window, and loses nothing that counts.                 *)
LEMMA GrowFacts ==
    ASSUME NEW max \in Nat, NEW c, CacheType(c, max),
           NEW pos \in Nat, pos < max
    PROVE  /\ CacheType(Grow(c, pos, max), max)
           /\ pos < Grow(c, pos, max).capacity
           /\ Grow(c, pos, max).filled = c.filled
           /\ \A p \in 0 .. c.filled - 1 : Grow(c, pos, max).data[p] = c.data[p]
  <1>1. CASE pos < c.capacity
    BY <1>1 DEF Grow
  <1>2. CASE ~(pos < c.capacity)
    <2> DEFINE target == Lesser(Greater(2 * c.capacity, pos + 1), max)
               data   == [p \in 0 .. target - 1 |->
                            IF p < c.filled THEN c.data[p] ELSE Blank]
    <2>1. /\ target \in Nat /\ target <= max /\ pos < target
          /\ c.filled \in Nat /\ c.filled <= target
      BY <1>2 DEF CacheType, Lesser, Greater
    <2>2. Grow(c, pos, max) =
            [capacity |-> target, filled |-> c.filled, data |-> data]
      BY <1>2 DEF Grow
    <2>3. \A p \in 0 .. c.filled - 1 : data[p] = c.data[p]
      BY <2>1
    <2> HIDE DEF target
    <2> QED BY <2>1, <2>2, <2>3 DEF CacheType
  <1> QED BY <1>1, <1>2

(* A store at the watermark moves it by one and leaves every entry below it. *)
LEMMA StoreFacts ==
    ASSUME NEW max \in Nat, NEW c, CacheType(c, max),
           NEW pos \in Nat, pos < max, c.filled = pos, NEW entry
    PROVE  LET d == Store(c, pos, max, entry)
           IN  /\ CacheType(d, max)
               /\ d.filled = pos + 1
               /\ d.data[pos] = entry
               /\ \A p \in 0 .. pos - 1 : d.data[p] = c.data[p]
  <1> DEFINE g == Grow(c, pos, max)
             d == Store(c, pos, max, entry)
  <1>1. /\ CacheType(g, max) /\ pos < g.capacity /\ g.filled = c.filled
        /\ \A p \in 0 .. c.filled - 1 : g.data[p] = c.data[p]
    BY GrowFacts
  <1>2. d = [ capacity |-> g.capacity,
              filled   |-> Greater(g.filled, pos + 1),
              data     |-> [g.data EXCEPT ![pos] = entry] ]
    BY DEF Store
  <1> HIDE DEF g, d
  <1>3. d.capacity = g.capacity /\ d.filled = pos + 1
    BY <1>1, <1>2 DEF Greater
  <1>4. DOMAIN d.data = 0 .. g.capacity - 1
    BY <1>1, <1>2 DEF CacheType
  <1>5. d.data[pos] = entry
    BY <1>1, <1>2 DEF CacheType
  <1>6. \A p \in 0 .. pos - 1 : d.data[p] = c.data[p]
    BY <1>1, <1>2 DEF CacheType
  <1>7. CacheType(d, max)
    BY <1>1, <1>3, <1>4 DEF CacheType
  <1> QED BY <1>3, <1>5, <1>6, <1>7 DEF d

(* A store below the watermark overwrites one entry and moves nothing. *)
LEMMA OverwriteFacts ==
    ASSUME NEW max \in Nat, NEW c, CacheType(c, max),
           NEW pos \in Nat, pos < max, pos <= c.filled, NEW entry
    PROVE  LET d == Store(c, pos, max, entry)
           IN  /\ CacheType(d, max)
               /\ d.filled = IF c.filled <= pos THEN pos + 1 ELSE c.filled
               /\ d.data[pos] = entry
               /\ \A p \in 0 .. c.filled - 1 : p # pos => d.data[p] = c.data[p]
               /\ {"filled", "data"} \subseteq DOMAIN d
  <1> DEFINE g == Grow(c, pos, max)
             d == Store(c, pos, max, entry)
  <1>1. /\ CacheType(g, max) /\ pos < g.capacity /\ g.filled = c.filled
        /\ \A p \in 0 .. c.filled - 1 : g.data[p] = c.data[p]
    BY GrowFacts
  <1>2. d = [ capacity |-> g.capacity,
              filled   |-> Greater(g.filled, pos + 1),
              data     |-> [g.data EXCEPT ![pos] = entry] ]
    BY DEF Store
  <1> HIDE DEF g, d
  <1>3. /\ d.capacity = g.capacity
        /\ d.filled = IF c.filled <= pos THEN pos + 1 ELSE c.filled
    BY <1>1, <1>2 DEF Greater, CacheType
  <1>4. DOMAIN d.data = 0 .. g.capacity - 1 /\ d.data[pos] = entry
    BY <1>1, <1>2 DEF CacheType
  <1>5. \A p \in 0 .. c.filled - 1 : p # pos => d.data[p] = c.data[p]
    BY <1>1, <1>2 DEF CacheType
  <1>6. CacheType(d, max)
    BY <1>1, <1>3, <1>4 DEF CacheType
  <1>7. {"filled", "data"} \subseteq DOMAIN d
    BY <1>2
  <1> QED BY <1>3, <1>4, <1>5, <1>6, <1>7 DEF d

(* The watermark after a store at pos. *)
Reach(filled, pos) == IF filled <= pos THEN pos + 1 ELSE filled

(* OverwriteFacts with that name. *)
LEMMA OverwriteReach ==
    ASSUME NEW max \in Nat, NEW c, CacheType(c, max),
           NEW pos \in Nat, pos < max, pos <= c.filled, NEW entry, NEW d, d = Store(c, pos, max, entry)
    PROVE  /\ CacheType(d, max) /\ d.filled = Reach(c.filled, pos) /\ d.data[pos] = entry
           /\ \A p \in 0 .. c.filled - 1 : p # pos => d.data[p] = c.data[p]
  BY OverwriteFacts DEF Reach

(* A cache that is filled up to p takes the entry of p.                      *)
LEMMA NextStored ==
    ASSUME NEW max \in Nat, NEW c, CacheType(c, max), NEW p \in Nat, p < max, c.filled = p,
           NEW entry
    PROVE  CacheType(Store(c, p, max, entry), max) /\ Store(c, p, max, entry).filled = p + 1
  <1>1. p <= c.filled
    OBVIOUS
  <1>2. PICK d : d = Store(c, p, max, entry)
    OBVIOUS
  <1>3. CacheType(d, max) /\ d.filled = Reach(c.filled, p)
    BY <1>1, <1>2, OverwriteReach
  <1>4. d.filled = p + 1
    BY <1>3 DEF Reach
  <1> QED BY <1>2, <1>3, <1>4

(* Truncation never touches an entry; it only lowers the watermark. *)
LEMMA TruncateFacts ==
    ASSUME NEW max \in Nat, NEW c, CacheType(c, max), NEW len \in Nat
    PROVE  LET d == Truncate(c, len)
           IN  /\ CacheType(d, max)
               /\ d.filled = IF c.filled <= len THEN c.filled ELSE len
               /\ d.data = c.data
  BY DEF Truncate, CacheType, Lesser

LEMMA TruncateBelow ==
    ASSUME NEW max \in Nat, NEW c, CacheType(c, max),
           NEW len \in Nat, len <= c.filled
    PROVE  CacheType(Truncate(c, len), max) /\ Truncate(c, len).filled = len
  BY DEF Truncate, CacheType, Lesser

(* Coherence only looks at the entries that count and at the line below      *)
(* them: it carries over to any line that agrees on the first k positions,   *)
(* when either the cache or that line ends there.                            *)
LEMMA CoherentTransfer ==
    ASSUME NEW c, c.filled \in Nat,
           NEW line, NEW other, NEW k \in Nat, Coherent(c, line),
           \A q \in 0 .. k - 1 : q \in DOMAIN line /\ other[q] = line[q],
           c.filled <= k \/ DOMAIN other \subseteq 0 .. k - 1
    PROVE  Coherent(c, other)
  <1> SUFFICES ASSUME NEW p \in 0 .. c.filled - 1, p \in DOMAIN other
               PROVE  c.data[p] = [q \in 0 .. p |-> other[q]]
    BY DEF Coherent
  <1>1. p \in 0 .. k - 1
    OBVIOUS
  <1>2. c.data[p] = [q \in 0 .. p |-> line[q]]
    BY <1>1 DEF Coherent
  <1>3. \A q \in 0 .. p : other[q] = line[q]
    BY <1>1
  <1> QED BY <1>2, <1>3

(* The forward pass that stores at the watermark reads coherent entries only *)
(* and so leaves a coherent cache: what it computed for the token of the     *)
(* line at that position is what the line says.                              *)
THEOREM StoreCoherent ==
    ASSUME NEW max \in Nat, NEW c, CacheType(c, max),
           NEW pos \in Nat, pos < max, c.filled = pos,
           NEW line, 0 .. pos \subseteq DOMAIN line,
           Coherent(c, line), NEW t, t = line[pos]
    PROVE  Coherent(Store(c, pos, max, Attended(c, pos, t)), line)
  <1> DEFINE e == Attended(c, pos, t)
             d == Store(c, pos, max, e)
  <1>1. \A p \in 0 .. pos - 1 : c.data[p] = [q \in 0 .. p |-> line[q]]
    BY DEF Coherent
  <1>2. ASSUME NEW p \in 0 .. pos - 1
        PROVE  c.data[p][p] = line[p]
    <2>1. c.data[p] = [q \in 0 .. p |-> line[q]] /\ p \in 0 .. p
      BY <1>1
    <2> QED BY <2>1
  <1>3. e = [q \in 0 .. pos |-> line[q]]
    BY <1>2 DEF Attended
  <1>4. /\ d.filled = pos + 1 /\ d.data[pos] = e
        /\ \A p \in 0 .. pos - 1 : d.data[p] = c.data[p]
    BY StoreFacts
  <1> HIDE DEF d, e
  <1>5. ASSUME NEW p \in 0 .. d.filled - 1
        PROVE  d.data[p] = [q \in 0 .. p |-> line[q]]
    <2>1. CASE p = pos
      BY <2>1, <1>3, <1>4
    <2>2. CASE p \in 0 .. pos - 1
      BY <2>2, <1>1, <1>4
    <2> QED BY <1>4, <2>1, <2>2
  <1>6. Coherent(d, line)
    BY <1>5 DEF Coherent
  <1> QED BY <1>6 DEF d, e

(* What is cut off stops counting; what stays was coherent before. *)
THEOREM TruncateCoherent ==
    ASSUME NEW max \in Nat, NEW c, CacheType(c, max), NEW line,
           Coherent(c, line), NEW len \in Nat
    PROVE  Coherent(Truncate(c, len), line)
  <1>1. /\ Truncate(c, len).data = c.data
        /\ Truncate(c, len).filled \in Nat
        /\ Truncate(c, len).filled <= c.filled
    BY TruncateFacts DEF CacheType
  <1> QED BY <1>1 DEF Coherent, CacheType
=============================================================================
