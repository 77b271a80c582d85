--------------------------- MODULE MCSampleSource ---------------------------
(***************************************************************************)
(* SampleSource on every pair of files of at most two lines each, and on   *)
(* lists of up to five samples.  Buckets are 0..2 of a modulus of 3; 2 is  *)
(* the evaluation's.                                                       *)
(***************************************************************************)
EXTENDS SampleSource

Buckets == 0..2

Lines(alphabet, n) == UNION {[1..m -> alphabet] : m \in 0..n}

MCInputs ==
  {<<f, g>> : f \in Lines(Buckets \cup {Blank, Malformed}, 2), g \in Lines({0, 2}, 2)}
  \cup {<<f>> : f \in Lines(Buckets, 5)}

MCFilters == {[mod |-> 0, min |-> 0, max |-> 0], [mod |-> 3, min |-> 0, max |-> 2],
              [mod |-> 3, min |-> 2, max |-> 0]}

\* The documented split, on a modulus of 3 instead of 10.
MCFillFilter == {[mod |-> 3, min |-> 0, max |-> 2]}
=============================================================================
