------------------------- MODULE CacheEntriesProofs -------------------------
(***************************************************************************)
(* What one merge does to one row, for any row and any entry: the facts    *)
(* the proofs about both stores rest on.                                   *)
(***************************************************************************)
EXTENDS CacheEntries, TLAPS

\* The merge returns a row whatever row, or none, it finds.
LEMMA MergeWriteType ==
  ASSUME NEW existing \in Row \cup {NoRow}, NEW e \in Entry
  PROVE  MergeWrite(existing, e) \in Row
BY CacheEntriesAssumption DEF MergeWrite, Entry, Row, Sources, HumanVerified

\* A merge keeps or replaces source and structured together.
LEMMA MergeWriteLabel ==
  ASSUME NEW existing \in Row \cup {NoRow}, NEW e \in Entry,
         existing # NoRow => existing.source = Author[existing.structured]
  PROVE  MergeWrite(existing, e).source = Author[MergeWrite(existing, e).structured]
BY CacheEntriesAssumption DEF MergeWrite, Entry, Row

\* A human row keeps its label and its answer through any other write.
LEMMA MergeWriteProtects ==
  ASSUME NEW existing \in Row, NEW e \in Entry,
         existing.source = HumanVerified, e.source # HumanVerified
  PROVE  /\ MergeWrite(existing, e).source = HumanVerified
         /\ MergeWrite(existing, e).structured = existing.structured
BY CacheEntriesAssumption DEF MergeWrite, Entry, Row

\* A human write replaces whatever it finds.
LEMMA MergeWriteReview ==
  ASSUME NEW existing, NEW e \in Entry, e.source = HumanVerified
  PROVE  MergeWrite(existing, e) = e
BY DEF MergeWrite

\* Merging on top of a merge of two writes that are not reviews gives the
\* same as merging the second alone.
LEMMA MergeWriteTwice ==
  ASSUME NEW existing \in Row \cup {NoRow}, NEW e \in Entry, NEW f \in Entry,
         e.source # HumanVerified, f.source # HumanVerified
  PROVE  MergeWrite(MergeWrite(existing, f), e) = MergeWrite(existing, e)
BY CacheEntriesAssumption DEF MergeWrite, Entry, Row
=============================================================================
