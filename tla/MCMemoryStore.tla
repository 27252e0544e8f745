--------------------------- MODULE MCMemoryStore ---------------------------
(* A small instance of MemoryStore: two texts that are near each other, a    *)
(* third that is asked about only, and the sum of the two.                   *)
EXTENDS MemoryStore

CONSTANTS t1, t2, far, sum

MCSimilarity(q, t) ==
    IF q = t THEN 10 ELSE IF q = far THEN -2 ELSE IF q = sum THEN 9 ELSE 7

(* A snapshot of these items, with labels or, in version 0, without. *)
Written(version, items, entries) ==
    [ version |-> version, units |-> 3, nra |-> items, rem |-> items,
      texts |-> IF version = 0 THEN <<>> ELSE items,
      index |-> [ entries |-> [k \in DOMAIN entries |-> [id |-> k - 1, text |-> entries[k]]],
                  ids |-> [t \in Text |-> IF t \in Texts(entries)
                                          THEN FirstAt(entries, t) - 1 ELSE None] ] ]

(* No snapshot, one with a text stored twice, one without labels, and one    *)
(* that has lost a label: it stored a text twice.                            *)
MCFound ==
    {None, Written(1, <<t1, t2, t1>>, <<t1, t2>>), Written(0, <<t2, t1>>, <<t2, t1>>),
     Written(0, <<t1, t1>>, <<t1>>)}

(* What the proof that answers agree asks of the snapshots. *)
ASSUME LabelsInOrder == \A s \in Found \ {None} : Faithful(s)
=============================================================================
