\* Every text of up to four characters, tagged by every model.
SPECIFICATION Spec
CONSTANTS
  Other = Other
  Town = Town
  Country = Country
  Tags = {Other, Town, Country}
  Length = 3
  Raws = {0, 1, 2, 3, 4}
  Growth = {0, 1}
  CheckedLength = 3
  Models <- MCModels
  Texts <- MCTexts
  Outputs <- MCOutputs
INVARIANTS
  TypeOK
  DecodedPathIsBest
  MarginalsAreExact
  SpansTile
  StrictSpansAreEntities
  NonStrictSpansAreRuns
  ConfidenceIsBacked
