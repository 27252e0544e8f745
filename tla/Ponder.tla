------------------------------- MODULE Ponder -------------------------------
(***************************************************************************)
(* Pondering (rai-infer/src/ponder.rs): a token's logits from several      *)
(* forward passes at one position.  The first pass is the real token's and *)
(* stores its key and value; the others - the null token, or the token     *)
(* with noise on its embedding - are probes over the same cache.           *)
(*                                                                         *)
(* A strategy's result carries the logits' term, the cache, the passes     *)
(* made and `reported`, the forward_passes of its metrics.                 *)
(***************************************************************************)
EXTENDS Forward

CONSTANTS
    NullToken,      \* null_token_id
    Threshold,      \* entropy_threshold
    Entropy(_)      \* logit_entropy of a term

(* sample_normal on every element: the i-th draw of a call. *)
Noisy(i, stream) == << <<"noise", i, stream[1]>> >>

(* A result as it is after one more pass, with the logits blended from its. *)
Made(before, pass, logits) ==
    [ before EXCEPT !.logits = logits, !.cache = pass.cache,
                    !.failed = @ \/ pass.failed, !.made = @ + 1 ]

(* The first pass of every strategy. *)
CleanPass(m, token, pos, cache) ==
    LET Clean(pass) == Made([ logits |-> <<>>, cache |-> cache, failed |-> FALSE,
                              made |-> 0, reported |-> 1 ],
                            pass, Logits(m, pass.hidden))
    IN  Clean(ForwardFromHidden(m, Embed(m, token), pos, cache, TRUE))

(* A further pass, of the embedding x: it stores nothing. *)
Probe(m, before, x, pos) == ForwardFromHidden(m, x, pos, before.cache, FALSE)

(* The guidance of a null-token pass: uncond + scale * (cond - uncond). *)
Guide(m, before, pos) ==
    LET Guided(pass) == Made(before, pass, <<"guided", Logits(m, pass.hidden), before.logits>>)
    IN  Guided(Probe(m, before, Embed(m, NullToken), pos))

(* Mutant: the noisy logits take the place of the sum. *)
AddNoiseOverwrites(m, token, before, n, pos) ==
    LET Add(sum, pass) == Made(sum, pass, Logits(m, pass.hidden))
        f[i \in 0 .. n] ==
            IF i = 0 THEN before
            ELSE Add(f[i - 1], Probe(m, f[i - 1], Noisy(i, Embed(m, token)), pos))
    IN  f[n]

(* Noisy passes 1..n added to the logits of the clean one. *)
AddNoise(m, token, before, n, pos) ==
    LET Add(sum, pass) == Made(sum, pass, <<"sum", sum.logits, Logits(m, pass.hidden)>>)
        f[i \in 0 .. n] ==
            IF i = 0 THEN before
            ELSE Add(f[i - 1], Probe(m, f[i - 1], Noisy(i, Embed(m, token)), pos))
    IN  f[n]

Mean(r, n) == [r EXCEPT !.logits = <<"mean", n, @>>]

-----------------------------------------------------------------------------
ForwardStandard(m, token, pos, cache) == CleanPass(m, token, pos, cache)

ForwardCfg(m, token, pos, cache) ==
    [Guide(m, CleanPass(m, token, pos, cache), pos) EXCEPT !.reported = 2]

ForwardEnsemble(m, token, pos, cache, n) ==
    [Mean(AddNoise(m, token, CleanPass(m, token, pos, cache), n - 1, pos), n)
        EXCEPT !.reported = n]

(* One clean pass, n - 2 noisy ones (none when that is negative), and the    *)
(* null token's.                                                             *)
ForwardCfgEnsemble(m, token, pos, cache, n) ==
    LET count == IF n >= 2 THEN n - 2 ELSE 0
        noisy == AddNoise(m, token, CleanPass(m, token, pos, cache), count, pos)
    IN  [Guide(m, Mean(noisy, 1 + count), pos) EXCEPT !.reported = n]

(* Adaptive: guidance for a token the model is unsure of, and one noisy pass *)
(* more when that did not settle it.                                         *)
ForwardAdaptive(m, token, pos, cache, n) ==
    LET Blend(guided, pass) ==
            [Made(guided, pass, <<"blend", guided.logits, Logits(m, pass.hidden)>>)
                EXCEPT !.reported = 3]
        Settle(guided) ==
            IF 10 * Entropy(guided.logits) > 8 * Threshold /\ n > 2
            THEN Blend(guided, Probe(m, guided, Noisy(1, Embed(m, token)), pos))
            ELSE [guided EXCEPT !.reported = 2]
        Adapt(clean) ==
            IF Entropy(clean.logits) < Threshold
            THEN clean
            ELSE Settle(Guide(m, clean, pos))
    IN  Adapt(CleanPass(m, token, pos, cache))

(* pondered_forward: an ensemble of fewer than two passes is refused.        *)
Refused(strategy, n) == strategy \in {"ensemble", "cfg+ensemble"} /\ n < 2

PonderedForward(m, token, pos, cache, strategy, n) ==
    CASE strategy = "none"         -> ForwardStandard(m, token, pos, cache)
      [] strategy = "cfg"          -> ForwardCfg(m, token, pos, cache)
      [] strategy = "ensemble"     -> ForwardEnsemble(m, token, pos, cache, n)
      [] strategy = "cfg+ensemble" -> ForwardCfgEnsemble(m, token, pos, cache, n)
      [] strategy = "adaptive"     -> ForwardAdaptive(m, token, pos, cache, n)
=============================================================================
