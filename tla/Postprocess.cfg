\* Every text, tagging, country head and suggestion of the instance.
SPECIFICATION Spec
CHECK_DEADLOCK FALSE
CONSTANTS
  Texts <- MCTexts
  Samples <- MCSamples
  CountryNames <- MCCountryNames
  Alpha2 <- MCAlpha2
  TownNames <- MCTownNames
  Taggings <- MCTaggings
  Heads <- MCHeads
  Probability = 90
  Elsewhere = 2
  CutoffCountry = 60
  ToleranceCountry = 1
  CutoffTown = 60
  ToleranceTown = 1
  High = 950
  Medium = 800
  TownWeights <- MCTownWeights
  CountryWeights <- MCCountryWeights
  LogOdds <- MCLogOdds
  Logistic <- MCLogistic
  LogisticRange = 700
  MinimalCountry = 150
  MinimalTown = 150
  SuggestedScore = 95
  NoTownFoundMul = 7
  NoCountryFoundMul = 1
  CountryTownSameName <- MCSameName
  NoCountry <- MCNoCountry
  NoTown <- MCNoTown
  Specs <- MCSpecs
  Postcodes <- MCPostcodes
  Locations <- MCLocations
  MaxMatches = 1
  Towns <- MCTowns
  Provinces <- MCProvinces
  CommonProvinces <- MCAlpha2
  Ibans <- MCIbans
  Metropolis = 1000000
  SmallTown = 12000
  StreetPercent = 50
  CloseDistance = 3
INVARIANTS
  TypeOK
  DistanceIsEditDistance
  NothingNearMissed
  ForcedCountryStands
  PenultimateLineOffered
  ForeignTownIsLastResort
  AnswerFromOneCombination
