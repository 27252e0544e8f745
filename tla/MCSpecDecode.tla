---------------------------- MODULE MCSpecDecode ----------------------------
(* A small instance of SpecDecode: three tokens, one of them the end token,  *)
(* and two models that disagree on what comes next.                          *)
EXTENDS SpecDecode, FiniteSets

MCPrompts == {<<0>>, <<1, 0>>, <<0, 1, 1>>}

Last(ctx) == ctx[Cardinality(DOMAIN ctx) - 1]

(* Weights on a common scale of four.  The target rules tokens out, and how  *)
(* it does depends on the oldest token as well as on the newest.             *)
MCTargetProb(ctx) ==
    LET kind == (Last(ctx) + ctx[0] + Cardinality(DOMAIN ctx)) % 3
    IN  [t \in Token |->
           CASE kind = 0 -> IF t = 2 THEN 0 ELSE 2
             [] kind = 1 -> IF t = 0 THEN 0 ELSE 2
             [] kind = 2 -> IF t = 1 THEN 4 ELSE 0]

(* The draft proposes anything; which token it prefers depends on the newest.*)
MCDraftProb(ctx) == [t \in Token |-> IF t = Last(ctx) THEN 2 ELSE 1]
=============================================================================
