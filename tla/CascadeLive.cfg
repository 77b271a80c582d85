\* Two requests in the configurations iso-api can be started with; no symmetry,
\* because a liveness property is checked.
SPECIFICATION Spec
CHECK_DEADLOCK FALSE
CONSTANTS
  k1 = k1
  k2 = k2
  k3 = k3
  t1 = t1
  t1b = t1b
  t2 = t2
  t3 = t3
  dots = dots
  white = white
  crf1 = crf1
  crf1b = crf1b
  crf2 = crf2
  crf3 = crf3
  human1 = human1
  llm2 = llm2
  Keys <- MCKeys
  Inputs <- MCInputs
  Answers <- MCAnswers
  Author <- MCAuthor
  Normalized <- MCNormalized
  Stage2 <- MCStage2
  Subject <- MCSubject
  Semantic <- MCSemantic
  Lexical <- MCLexical
  SemanticThreshold = 90
  LexicalThreshold = 85
  Blank = {white}
  NoKey = NoKey
  NoRow = NoRow
  Unverified = Unverified
  NoItem = NoItem
  Requests = {r1, r2}
  SearchLimit = 1
  Setups <- MCLiveSetups
  Batches <- MCLiveBatches
  OutsideWrites <- MCLiveOutsideWrites
PROPERTY
  EveryRequestReturns
