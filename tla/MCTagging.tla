----------------------------- MODULE MCTagging -----------------------------
(***************************************************************************)
(* Tagging on a small instance: two entities and OTHER, texts of up to     *)
(* three characters within the model's length and one beyond it, three     *)
(* sets of CRF weights, strict and not.                                    *)
(***************************************************************************)
EXTENDS Tagging

CONSTANTS Length, Raws, Growth, Town, Country

MCLabels ==
  << [bio |-> Outside, tag |-> Other],
     [bio |-> Before, tag |-> Town], [bio |-> Inside, tag |-> Town],
     [bio |-> Before, tag |-> Country], [bio |-> Inside, tag |-> Country] >>

\* No weights at all; inside labels discouraged after another tag, with a second
\* matrix and short vectors; and transitions that forbid most paths.
MCPlain == [start |-> <<>>, end |-> <<>>, transitions |-> <<>>, transitionsOrder2 |-> <<>>]

MCTrained ==
  [start |-> <<3, 2, 1>>, end |-> <<1, 1, 2, 1, 3>>,
   transitions |-> << <<2, 2, 0, 2, 1>>, <<1, 1, 3, 1, 1>>, <<2, 1, 2, 1, 1>>,
                      <<1, 1, 1, 1, 3>>, <<2, 1, 0, 1, 2>> >>,
   transitionsOrder2 |-> << <<1, 2>>, <<1, 1, 2>>, <<3>> >>]

MCForbidding ==
  [start |-> <<1, 1, 0, 1, 0>>, end |-> <<1, 0, 1, 0, 1>>,
   transitions |-> << <<1, 1, 0, 1, 0>>, <<0, 0, 1, 0, 0>>, <<1, 1, 1, 1, 0>>,
                      <<0, 0, 0, 0, 1>>, <<1, 1, 0, 1, 1>> >>,
   transitionsOrder2 |-> <<>>]

MCModels ==
  {[start |-> crf.start, end |-> crf.end,
    transitions |-> crf.transitions, transitionsOrder2 |-> crf.transitionsOrder2,
    labels |-> MCLabels, maxLength |-> Length, strict |-> strict] :
   crf \in {MCPlain, MCTrained, MCForbidding}, strict \in BOOLEAN}

MCTexts == {[raw |-> n, cleaned |-> n + g] : n \in Raws, g \in Growth}

MCRows ==
  {<<4, 1, 1, 1, 1>>, <<1, 3, 2, 0, 1>>, <<1, 1, 4, 1, 3>>, <<0, 2, 1, 4, 2>>, <<1, 1, 2, 0, 4>>}

\* Also an output that is too long.
MCOutputs == [1..Length -> MCRows] \cup {[p \in 1..(Length + 1) |-> <<1, 1, 1, 1, 1>>]}
=============================================================================
