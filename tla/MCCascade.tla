----------------------------- MODULE MCCascade -----------------------------
(***************************************************************************)
(* Cascade on a small instance.  Two spellings of one address (k1), a      *)
(* second address that just passes both gates (k2), a third that is close  *)
(* in meaning only (k3), a text without a letter or digit, and a blank     *)
(* one.                                                                    *)
(***************************************************************************)
EXTENDS Cascade, TLC

CONSTANTS
  k1, k2, k3,
  t1, t1b, t2, t3, dots, white,
  crf1, crf1b, crf2, crf3, human1, llm2

MCKeys == {k1, k2, k3}
MCInputs == {t1, t1b, t2, t3, dots, white}
MCAnswers == {crf1, crf1b, crf2, crf3, human1, llm2}

MCNormalized ==
  (t1 :> k1) @@ (t1b :> k1) @@ (t2 :> k2) @@ (t3 :> k3) @@ (dots :> NoKey) @@ (white :> NoKey)

MCStage2 ==
  (t1 :> crf1) @@ (t1b :> crf1b) @@ (t2 :> crf2) @@ (t3 :> crf3) @@
  (dots :> crf1) @@ (white :> crf1)

MCSubject ==
  (crf1 :> k1) @@ (crf1b :> k1) @@ (human1 :> k1) @@
  (crf2 :> k2) @@ (llm2 :> k2) @@ (crf3 :> k3)

MCAuthor ==
  (crf1 :> CRFPipeline) @@ (crf1b :> CRFPipeline) @@ (crf2 :> CRFPipeline) @@
  (crf3 :> CRFPipeline) @@ (human1 :> HumanVerified) @@ (llm2 :> LLMAssisted)

MCSemantic ==
  [k \in MCKeys |-> [j \in MCKeys |->
     IF k = j THEN 100 ELSE IF {j, k} = {k2, k3} THEN 50 ELSE 90]]

MCLexical ==
  [k \in MCKeys |-> [j \in MCKeys |->
     IF k = j THEN 100 ELSE IF k3 \in {j, k} THEN 40 ELSE 85]]

Setup(cache, embedder, seed, llm) ==
  [cache |-> cache, embedder |-> embedder, trustSonnetSeed |-> seed, trustLLMAssisted |-> llm]

MCSetups ==
  {Setup(FALSE, FALSE, FALSE, FALSE), Setup(TRUE, FALSE, FALSE, FALSE),
   Setup(TRUE, TRUE, FALSE, FALSE), Setup(TRUE, TRUE, TRUE, TRUE)}

\* iso-api opens its cache and its embedder together.
MCLiveSetups == {Setup(TRUE, TRUE, FALSE, FALSE), Setup(FALSE, FALSE, FALSE, FALSE)}

MCBatches == {<<t1>>, <<t1b, t2>>, <<t2, t3>>, <<t3, dots>>, <<t1, white>>}
MCLiveBatches == {<<t1, t2>>, <<t3, dots>>}

Outside(k, text, source, answer) ==
  <<k, [source |-> source, input |-> text, structured |-> answer]>>

MCOutsideWrites ==
  {Outside(k1, t1, HumanVerified, human1), Outside(k2, t2, LLMAssisted, llm2)}

MCLiveOutsideWrites == {Outside(k1, t1, HumanVerified, human1)}

Symmetry == Permutations(Requests)
=============================================================================
