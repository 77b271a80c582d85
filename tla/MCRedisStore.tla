---------------------------- MODULE MCRedisStore ----------------------------
(***************************************************************************)
(* RedisStore on a small instance: two answers of a reviewer (a decision   *)
(* and its correction), one of the pipeline, one of the judge.             *)
(***************************************************************************)
EXTENDS RedisStore, TLC

CONSTANTS w1, w2, w3, human1, human2, crf1, llm1

MCWriters == {w1, w2, w3}
MCAnswers == {human1, human2, crf1, llm1}

MCAuthor ==
  (human1 :> HumanVerified) @@ (human2 :> HumanVerified) @@
  (crf1 :> CRFPipeline) @@ (llm1 :> LLMAssisted)

Symmetry == Permutations(MCWriters)
=============================================================================
