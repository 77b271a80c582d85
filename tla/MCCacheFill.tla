---------------------------- MODULE MCCacheFill ----------------------------
(***************************************************************************)
(* CacheFill on three texts of two addresses.  "sure" is confident;        *)
(* "torn" has its best town in another country than its best country, and  *)
(* the same town name in both; "vague" is the same address as "sure" in    *)
(* another spelling, without a country match worth the name; "bad" is      *)
(* refused by the pipeline.                                                *)
(***************************************************************************)
EXTENDS CacheFill

CONSTANTS k1, k2, sure, torn, vague, bad, CL, AR, santiago

MCKeys == {k1, k2}
MCInputs == {sure, torn, vague, bad}
MCAnswers == Address
MCAuthor == [a \in Address |-> a.author]
MCNormalized == [t \in MCInputs |-> IF t \in {sure, vague} THEN k1 ELSE k2]

C(code, score) == [code |-> code, score |-> score]
T(name, code, score) == [name |-> name, code |-> code, score |-> score]

MCResults ==
  [t \in MCInputs |->
     CASE t = sure  -> [countries |-> <<C(CL, 2)>>, towns |-> <<T(santiago, CL, 2)>>]
       [] t = torn  -> [countries |-> <<C(CL, 2), C(AR, 1)>>,
                        towns |-> <<T(santiago, AR, 1), T(santiago, CL, 0)>>]
       [] t = vague -> [countries |-> <<C(NoPlace, 2), C(AR, 0), C(CL, 0)>>,
                        towns |-> <<T(NoPlace, AR, 2), T(santiago, AR, 1)>>]
       [] OTHER     -> [countries |-> <<>>, towns |-> <<>>]]

MCSampleLists == {<<sure, torn, vague>>, <<torn, bad>>, <<vague, vague, sure, torn, vague>>, <<>>}

Opts(dryRun, judge, floor) ==
  [dryRun |-> dryRun, judge |-> judge, reviewPath |-> TRUE, floor |-> floor]

MCOptionSets ==
  {Opts(FALSE, TRUE, 0), Opts(FALSE, FALSE, 0), Opts(FALSE, TRUE, 1), Opts(TRUE, TRUE, 0)}

\* No --review-path and no judge.
MCNoReviewPath == {[Opts(FALSE, FALSE, 0) EXCEPT !.reviewPath = FALSE]}

Row1(source, country, town, score) ==
  [source |-> source, input |-> sure,
   structured |-> [author |-> source, country |-> country, town |-> town,
                   countryScore |-> score, townScore |-> score]]

\* A review, and a cascade's write-back of an answer nobody is confident of.
MCOutsideWrites ==
  {<<k1, Row1(HumanVerified, AR, santiago, 0)>>, <<k2, Row1(CRFPipeline, NoPlace, santiago, 1)>>}
=============================================================================
