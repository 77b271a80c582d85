\* Three writers whose upserts overlap freely, reviews kept apart from the
\* other writers of the same address.
SPECIFICATION Spec
CONSTANTS
  w1 = w1
  w2 = w2
  w3 = w3
  human1 = human1
  human2 = human2
  crf1 = crf1
  llm1 = llm1
  Keys = {k1, k2}
  Inputs = {i1, i2}
  Answers <- MCAnswers
  Author <- MCAuthor
  Writers <- MCWriters
  NoRow = NoRow
  Unverified = Unverified
  Idle = Idle
  QuietReview = TRUE
SYMMETRY Symmetry
INVARIANTS
  HumanDecisionStands
  LabelMatchesAnswer
PROPERTY
  AtomicUpserts
