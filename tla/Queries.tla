------------------------------ MODULE Queries ------------------------------
(***************************************************************************)
(* What the memory service answers to a request that reads: recall,        *)
(* intersect, check_contradiction, measure_surprise, explain_confidence    *)
(* and health (rai-core, memory/manager.rs and reasoning/; rem-nra).       *)
(*                                                                         *)
(* A vector is known by the text it was projected from.  What the code     *)
(* computes from vectors, it computes from the cosine of two of them: the  *)
(* constant Similarity, in tenths.  A question is the text asked about, or *)
(* the sum of the addresses of several.                                    *)
(***************************************************************************)
EXTENDS Integers, Sequences, FiniteSetsExt

CONSTANTS
    Text,               \* texts that pass validate_text
    Question,           \* what may be asked about: texts, stored or not, and sums
    Similarity(_, _),   \* question, text -> -10 .. 10
    None

(* The cosine of a vector with itself is the largest, and it is symmetric.   *)
ASSUME QueriesAssumption ==
    /\ Text \subseteq Question /\ None \notin Question
    /\ \A q \in Question, t \in Text : Similarity(q, t) \in -10 .. 10
    /\ \A t, u \in Text : /\ Similarity(t, u) = Similarity(u, t)
                          /\ (Similarity(t, u) = 10) <=> (t = u)

-----------------------------------------------------------------------------
(* The best-matching item: of equally good ones the first.                   *)
BestAt(q, items) ==
    Min({k \in DOMAIN items :
           \A n \in DOMAIN items : Similarity(q, items[n]) <= Similarity(q, items[k])})

(* NonlinearResonanceMemory::retrieve_with_diagnostics: the value of the     *)
(* best match and -5 times its cosine; the zero vector of an empty store     *)
(* scores 0, as does a match that points away.                               *)
Retrieved(q, items) ==
    IF items = <<>> THEN [value |-> None, energy |-> 0]
    ELSE LET t == items[BestAt(q, items)]
         IN  [value |-> t, energy |-> -5 * Max({0, Similarity(q, t)})]

(* EmbeddingBridge::nearest_text: the entry whose value is nearest, the last *)
(* of equally near ones; an empty index has none.                            *)
NearestText(value, entries) ==
    IF entries = <<>> THEN None
    ELSE LET Near(k) == IF value = None THEN 0 ELSE Similarity(value, entries[k].text)
         IN  entries[Max({k \in DOMAIN entries :
                            \A n \in DOMAIN entries : Near(n) <= Near(k)})].text

(* ConfidenceGate::classify *)
Tier(energy) ==
    CASE energy >= 0 -> "no match"
      [] energy < -30 -> "high"
      [] energy \in -30 .. -11 -> "medium"
      [] OTHER -> "low"

-----------------------------------------------------------------------------
(* energy_snapshot: how close each item's nearest other neighbour is.        *)
EnergySnapshot(items) ==
    [k \in DOMAIN items |->
       -5 * Max({0} \cup {Similarity(items[n], items[k]) : n \in DOMAIN items \ {k}})]

(* check_contradiction and detect: the places of the items whose energy      *)
(* drops by more than minor_threshold once the fact is stored in a copy.     *)
Drop(items, fact, k) ==
    EnergySnapshot(items)[k] - EnergySnapshot(Append(items, fact))[k]

Crowded(items, fact) == {k \in DOMAIN items : Drop(items, fact, k) > 5}

Severity(items, fact) ==
    LET worst == Max({0} \cup {Drop(items, fact, k) : k \in Crowded(items, fact)})
    IN  CASE worst > 40 -> "critical"
          [] worst \in 21 .. 40 -> "major"
          [] worst \in 6 .. 20 -> "minor"
          [] OTHER -> "none"

(* ResidualEquilibriumMemory::predict and SurpriseDetector::compute: the     *)
(* score of a text is its distance from the value of the nearest key.        *)
Predicted(keys, t) == IF keys = <<>> THEN None ELSE keys[BestAt(t, keys)]

Unsurprising(keys, t) == Predicted(keys, t) = t

(* health *)
Health(items, units) == [memories |-> Len(items), used |-> <<Len(items), units>>]
=============================================================================
