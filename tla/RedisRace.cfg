\* The same writers with a review that may overlap a pipeline write.
SPECIFICATION Spec
CONSTANTS
  w1 = w1
  w2 = w2
  w3 = w3
  human1 = human1
  human2 = human2
  crf1 = crf1
  llm1 = llm1
  Keys = {k1}
  Inputs = {i1}
  Answers <- MCAnswers
  Author <- MCAuthor
  Writers <- MCWriters
  NoRow = NoRow
  Unverified = Unverified
  Idle = Idle
  QuietReview = FALSE
SYMMETRY Symmetry
INVARIANTS
  HumanDecisionStands
