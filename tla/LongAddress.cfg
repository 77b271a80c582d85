\* A model whose maximum is below the pipeline's.
SPECIFICATION Spec
CONSTANTS
  Other = Other
  Town = Town
  Country = Country
  Tags = {Other, Town, Country}
  Length = 3
  Raws = {0, 1, 2, 3, 4}
  Growth = {0, 1}
  CheckedLength = 4
  Models <- MCModels
  Texts <- MCTexts
  Outputs <- MCOutputs
INVARIANT LongAddressRefused
