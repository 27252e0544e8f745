-------------------------- MODULE MCOneCacheDecode --------------------------
(* A small instance of OneCacheDecode: prompts with and without repetitions, *)
(* one of which contains the end token, so that a copied draft proposes it.  *)
EXTENDS OneCacheDecode, FiniteSets

MCPrompts == {<<0>>, <<1, 0>>, <<0, 1, 0>>, <<2, 0, 1, 2>>}

Last(ctx) == ctx[Cardinality(DOMAIN ctx) - 1]

(* Weights on a common scale of four; some contexts rule out a token.        *)
MCTargetProb(ctx) ==
    LET kind == (Last(ctx) + ctx[0] + Cardinality(DOMAIN ctx)) % 3
    IN  [t \in Token |->
           CASE kind = 0 -> IF t = 2 THEN 0 ELSE 2
             [] kind = 1 -> IF t = 0 THEN 0 ELSE 2
             [] kind = 2 -> IF t = 1 THEN 4 ELSE 0]

(* The draft layers propose anything, and prefer to repeat a token.          *)
MCDraftProb(ctx) == [t \in Token |-> IF t = Last(ctx) THEN 2 ELSE 1]
=============================================================================
