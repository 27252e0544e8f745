----------------------------- MODULE Acceptance -----------------------------
(***************************************************************************)
(* The acceptance rule all three speculative decoders of rai-infer share:  *)
(* a draft token is kept with probability min(1, p_target / p_draft), and  *)
(* the first one that is not is replaced by a sample from the normalised   *)
(* residual max(0, p_target - p_draft).                                    *)
(*                                                                         *)
(* Weights are integers on a common scale: only their order and sign       *)
(* matter to which token can be accepted or sampled.                       *)
(***************************************************************************)
EXTENDS Integers

CONSTANTS
    Token,           \* token ids
    ZeroDraw         \* may rng.gen::<f64>() return exactly 0.0?

Weights(prob) == prob \in [Token -> Nat] /\ \E t \in Token : prob[t] > 0

(* What sample_token can return for these weights (temperature > 0, no      *)
(* filter): `r < cumsum` never stops at a weight of zero.                   *)
Sampled(prob) == {t \in Token : prob[t] > 0}

(* min(1, p_target / p_draft) compared with u in [0, 1). *)
CanAccept(p, q, t) == p[t] > 0

CanReject(p, q, t) == p[t] < q[t] \/ (p[t] = 0 /\ q[t] = 0)

(* sample_correction: the normalised residual max(0, p_target - p_draft),    *)
(* the target itself when the residual is empty.  `cumsum >= u` stops at     *)
(* token 0 whatever its residual when u is exactly 0.                        *)
CorrectionFromDraft(p, q) == Sampled(q)      \* mutant: samples the wrong model

Correction(p, q) ==
    LET residual == {t \in Token : p[t] > q[t]}
    IN  IF residual = {}
        THEN Sampled(p)
        ELSE residual \cup (IF ZeroDraw THEN {0} ELSE {})
=============================================================================
