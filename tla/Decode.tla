------------------------------- MODULE Decode -------------------------------
(***************************************************************************)
(* What every decoding mode of `rai run` promises: the text is the one     *)
(* ordinary autoregressive sampling could have produced.                   *)
(*                                                                         *)
(* This is the loop under "NORMAL DECODING" in rai-infer/src/cli/run.rs    *)
(* with everything but its control left out: one token is sampled from the *)
(* target model's distribution after the whole sequence so far, an end     *)
(* token stops the loop, and so do the token budget and the context        *)
(* window.  The speculative decoders refine it.                            *)
(***************************************************************************)
EXTENDS Integers, Sequences

CONSTANTS
    Token,           \* token ids
    Eos,             \* the ids that end generation
    MaxCtx,          \* the context window the run was given
    MaxTokens,       \* --max-tokens
    Prompts,         \* the prompts considered: non-empty, no longer than MaxCtx
    TargetProb(_)    \* the target model: a context to its token weights

VARIABLES
    tokens,          \* all_tokens: the prompt and what was generated
    generated,       \* tokens_generated
    status           \* "running", "done", or "failed" (an error left the loop)

vars == <<tokens, generated, status>>

(* The context after a sequence of tokens, indexed by position. *)
ContextOf(s) == [p \in 0 .. Len(s) - 1 |-> s[p + 1]]

(* The tokens the target model can emit after s. *)
Possible(s) == {t \in Token : TargetProb(ContextOf(s))[t] > 0}

WithinBudget == generated < MaxTokens /\ Len(tokens) - 1 < MaxCtx

Init ==
    /\ tokens \in Prompts
    /\ generated = 0
    /\ status = "running"

Emit ==
    /\ status = "running"
    /\ WithinBudget
    /\ \E t \in Possible(tokens) \ Eos : tokens' = Append(tokens, t)
    /\ generated' = generated + 1
    /\ UNCHANGED status

EndOfSequence ==
    /\ status = "running"
    /\ WithinBudget
    /\ Possible(tokens) \cap Eos # {}
    /\ status' = "done"
    /\ UNCHANGED <<tokens, generated>>

OutOfBudget ==
    /\ status = "running"
    /\ ~WithinBudget
    /\ status' = "done"
    /\ UNCHANGED <<tokens, generated>>

(* An error propagated with `?` ends the run where it is. *)
Abort ==
    /\ status = "running"
    /\ status' = "failed"
    /\ UNCHANGED <<tokens, generated>>

Next == Emit \/ EndOfSequence \/ OutOfBudget \/ Abort

Spec == Init /\ [][Next]_vars
=============================================================================
