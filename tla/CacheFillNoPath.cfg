\* A fill that was given no review path, and no call of which fails.
SPECIFICATION Spec
CHECK_DEADLOCK FALSE
CONSTANTS
  k1 = k1
  k2 = k2
  sure = sure
  torn = torn
  vague = vague
  bad = bad
  CL = CL
  AR = AR
  santiago = santiago
  Keys <- MCKeys
  Inputs <- MCInputs
  Answers <- MCAnswers
  Author <- MCAuthor
  Normalized <- MCNormalized
  NoRow = NoRow
  Unverified = Unverified
  NoPlace = NoPlace
  CountryCodes = {CL, AR}
  TownNames = {santiago}
  MaxScore = 2
  High = 2
  Results <- MCResults
  Refused = {bad}
  SampleLists <- MCSampleLists
  CandidateLimit = 2
  BatchSize = 2
  OptionSets <- MCNoReviewPath
  OutsideWrites = {}
  MaxFailures = 0
  MaxRuns = 1
INVARIANT
  AbortsOnlyOnFailure
