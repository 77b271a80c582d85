--------------------------- MODULE MCPostprocess ---------------------------
(***************************************************************************)
(* Postprocess on a small gazetteer: France (FR, "FRA"), Libya (LY, "LIB"),*)
(* LYO in both, LIB a town of France, B-B and LIB-B towns of Libya, the    *)
(* postcode 690, and AB, a country's code that is also a province alias.   *)
(* The weights are the defaults of internal/config.                        *)
(***************************************************************************)
EXTENDS Postprocess, TLC

A == 65  B == 66  C == 67  D == 68  E == 69  F == 70  I == 73  L == 76  N == 78
O == 79  R == 82  T == 84  U == 85  W == 87  Y == 89  SP == 32  NL == 10

FR == <<F, R>>
LY == <<L, Y>>
LYO == <<L, Y, O>>
LIB == <<L, I, B>>
FRA == <<F, R, A>>
BB == <<B, Dash, B>>
LIBB == LIB \o <<Dash, B>>
AB == <<A, B>>
Code690 == <<54, 57, 48>>

MCAlpha2 == {AB}

MCNoCountry == <<N, O, SP, C, O, U, N, T, R, Y>>
MCNoTown == <<N, O, SP, T, O, W, N>>

MCCountryNames == {[name |-> FRA, origins |-> {FR}], [name |-> LIB, origins |-> {LY}],
                   [name |-> MCNoCountry, origins |-> {<<>>}]}
MCTownNames == FR :> {LYO, LIB} @@ LY :> {LYO, BB, LIBB}
MCTowns == LYO :> [population |-> 2000000, largest |-> FR] @@ LIB :> [population |-> 9000, largest |-> FR]
MCSpecs == FR :> [phones |-> {<<51, 51>>}, domains |-> {}, postal |-> {Code690}]
           @@ LY :> [phones |-> {}, domains |-> {LYO}, postal |-> {}]
MCPostcodes == FR :> {[key |-> Code690, town |-> LYO, origin |-> FR]}
Location(country, town, kind, dataRows, postalRows) ==
  [country |-> country, town |-> town, hasTown |-> kind = "both_town", postcode |-> Code690,
   source |-> kind, dataRows |-> dataRows, postalRows |-> postalRows]
MCLocations == {Location(FR, LYO, "both_town", 2, 1), Location(LY, LYO, "both_town", 2, 1),
                Location(FR, <<>>, "both_town", 2, 1), Location(LY, <<>>, "postal_codes", 0, 4)}

\* The texts, with the ways the network may tag each.
Town(s, e) == [tag |-> "TOWN", start |-> s, end |-> e]
Country(s, e) == [tag |-> "COUNTRY", start |-> s, end |-> e]
Street(s, e) == [tag |-> "STREET", start |-> s, end |-> e]
Postal(s, e) == [tag |-> "POSTAL_CODE", start |-> s, end |-> e]

MCTaggings ==
     <<L, Y, O, NL, F, R>> :> {<<>>, <<Town(0, 3), Country(4, 6)>>, <<Country(0, 2), Town(4, 6)>>}
  @@ Code690 \o <<SP, L, Y, NL, O, NL, F, R>> :> {<<Postal(0, 3), Town(4, 8)>>, <<Country(9, 11)>>}
  @@ <<L, Y, O, NL, A, B, NL, L, Y>> :> {<<>>, <<Town(0, 3), Country(4, 9)>>, <<Street(0, 3), Town(4, 6), Country(7, 9)>>}
  @@ <<B, SP, B, NL, SP, L, Y, NL>> :> {<<Town(0, 3), Country(5, 7)>>, <<Country(0, 3)>>}
  @@ LIB :> {<<>>, <<Town(0, 3)>>, <<Country(0, 3)>>}
  @@ LIBB :> {<<Town(0, 3)>>, <<Town(3, 5)>>}
  @@ <<L, Y, O, Y, O, SP, L, Y>> :> {<<>>, <<Town(0, 5), Country(6, 8)>>}
  @@ <<F, R, SP, L, Y, SP, L, I, B>> :> {<<Country(0, 5)>>, <<Country(6, 9)>>, <<Town(6, 9)>>}
  @@ <<L, Dash, O, SP, F, R, A, SP, 51, 51>> :> {<<Town(0, 3), Country(4, 7)>>, <<Street(0, 7)>>}
  @@ MCNoCountry :> {<<>>, <<Country(3, 10)>>}
  @@ <<>> :> {<<>>}

MCTexts == DOMAIN MCTaggings

MCIbans == [t \in MCTexts |-> IF Len(t) > 10 THEN {FR} ELSE {}]

MCSamples == {[suggested |-> <<>>, force |-> FALSE], [suggested |-> <<>>, force |-> TRUE]}
             \cup [suggested : {FR, LY, MCNoCountry, <<D, E>>}, force : BOOLEAN]

MCHeads == {[code |-> <<>>, confidence |-> 0], [code |-> LY, confidence |-> 99],
            [code |-> FR, confidence |-> 99], [code |-> FR, confidence |-> 92],
            [code |-> LY, confidence |-> 50]}

(***************************************************************************)
(* The default weights, in hundredths; both tables by linear interpolation.*)
(***************************************************************************)
Shared == [
  IsInLastThird |-> 1, CouldBeReasonableMistake |-> 25, ContainsTypo |-> -85,
  IsInsideAnotherWord |-> -65, IsInFirstThird |-> -1, IsShort |-> -25,
  IsInsideAnotherLowerRankedMatch |-> -30, IsInsideStreet |-> -20,
  IsCommonStateProvinceAlias |-> -10, IsUncommonStateProvinceAlias |-> -15,
  IsShortAndNonzeroDistScore |-> -200, IsShortAndIsInsideAnotherWord |-> -200,
  IsInsideAnotherHigherRankedMatch |-> -200]

MCTownWeights == Shared @@ [
  CountryIsPresent |-> 15, SuggestedCountryIsPresent |-> 65, MLPCountryIsPresent |-> 5,
  IsVeryCloseToCountry |-> 30, IsOnSameLineAsCountry |-> 15, PostcodeForTownFound |-> 40,
  IsMetropolis |-> 10, IsAloneOnLine |-> 20, IsSmallTown |-> -20,
  IsSmallTownAndCountryNotPresent |-> -30, CountryIsPresentMalus |-> 10,
  IsFromExtendedData |-> -15, IsNotLargestTownWithName |-> -10]

MCCountryWeights == [
  TownIsPresent |-> 20, IsVeryCloseToTown |-> 20, IsOnSameLineAsTown |-> 10,
  PostalCodeIsPresent |-> 10, IBANIsPresent |-> 10, PhonePrefixIsPresent |-> 10,
  DomainIsPresent |-> 10, MLPStronglyAgrees |-> 20, MLPAgrees |-> 15, MLPDoesntDisagree |-> 5,
  CouldBeReasonableMistake |-> 10, ContainsTypo |-> -50, IsInsideAnotherWord |-> -60,
  IsShort |-> -5] @@ Shared

\* Points <<x, y>> of an increasing table.
Between2(points, x) ==
  LET k == CHOOSE i \in 1..(Len(points) - 1) : points[i][1] <= x /\ x <= points[i + 1][1]
      p == points[k]
      q == points[k + 1]
  IN p[2] + ((q[2] - p[2]) * (x - p[1])) \div (q[1] - p[1])

MCLogOdds == [p \in 10..90 |->
  Between2(<<<<10, -220>>, <<20, -139>>, <<30, -85>>, <<40, -41>>, <<60, 41>>, <<70, 85>>,
             <<80, 139>>, <<90, 220>>>>, p)]
MCLogistic == [x \in -700..700 |->
  Between2(<<<<-700, 1>>, <<-400, 18>>, <<-300, 47>>, <<-200, 119>>, <<-100, 269>>, <<100, 731>>,
             <<200, 881>>, <<300, 953>>, <<400, 982>>, <<700, 999>>>>, x)]

MCProvinces == LY :> {LY} @@ AB :> {AB}
MCSameName == LIB :> LY

\* The instance is one the theorems are about.
ASSUME NoTownIsNoCode /\ NoCountryHasNoCode /\ SuggestionCounts /\ TownNamesTrimmed
=============================================================================
