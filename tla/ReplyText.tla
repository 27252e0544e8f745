----------------------------- MODULE ReplyText -----------------------------
(***************************************************************************)
(* The text of a reply while it is generated: where a stop sequence cuts   *)
(* it, how much of it may already be shown, and what is new since the last *)
(* time (rai-infer/src/cli/serve.rs and run.rs).                           *)
(*                                                                         *)
(* A text is a sequence of characters.  The tokenizer decodes all of the   *)
(* generated tokens at every step, so a text need not extend the one       *)
(* before it: a character split over two tokens is first the replacement   *)
(* character U+FFFD and then itself.                                       *)
(***************************************************************************)
EXTENDS Integers, Sequences, FiniteSetsExt

CONSTANTS
    Character,
    Unsettled,       \* U+FFFD
    Stops            \* ChatTemplate::stop_sequences, in its order

ASSUME StopsAssumption ==                \* none of them is empty
    Stops \in Seq(Seq(Character) \ {<<>>})

OccursAt(s, text) ==
    {p \in 1 .. Len(text) - Len(s) + 1 : SubSeq(text, p, p + Len(s) - 1) = s}

(* The stop sequences that occur in a text, by their place in the list. *)
Hits(text) == {i \in 1 .. Len(Stops) : OccursAt(Stops[i], text) # {}}

(* The first one listed cuts the text where it first occurs. *)
CutAtFirstStop(text) ==                \* mutant: looks for one stop only
    LET at == OccursAt(Stops[1], text)
    IN  IF at = {} THEN text ELSE SubSeq(text, 1, Min(at) - 1)

CutAtStop(text) ==
    IF Hits(text) = {}
    THEN text
    ELSE SubSeq(text, 1, Min(OccursAt(Stops[Min(Hits(text))], text)) - 1)

(* incremental_suffix: the part of current that previous does not cover. *)
IncrementalSuffix(previous, current) ==
    LET shared == {n \in 0 .. Len(previous) :
                     n <= Len(current) /\ SubSeq(previous, 1, n) = SubSeq(current, 1, n)}
    IN  SubSeq(current, Max(shared) + 1, Len(current))

(* A text without the replacement characters it ends with. *)
Settled(text) ==
    SubSeq(text, 1, Max({0} \cup {n \in 1 .. Len(text) : text[n] # Unsettled}))

(* emittable_len: not a trailing replacement character, and not the longest  *)
(* proper prefix of a stop sequence the rest ends with.                      *)
EmittableWithoutHold(pending) == Len(Settled(pending))    \* mutant: stops shown

EmittableLen(pending) ==
    LET head == Settled(pending)
        held == {n \in 1 .. Len(head) : \E i \in 1 .. Len(Stops) :
                    /\ n < Len(Stops[i])
                    /\ SubSeq(Stops[i], 1, n)
                         = SubSeq(head, Len(head) - n + 1, Len(head))}
    IN  Len(head) - Max({0} \cup held)
=============================================================================
