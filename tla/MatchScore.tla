----------------------------- MODULE MatchScore -----------------------------
(***************************************************************************)
(* internal/postprocess/score.go, combinations.go and line_structure.go:   *)
(* the score of a candidate, the combinations of a country and a town, and *)
(* the order they are answered in.                                         *)
(*                                                                         *)
(* Numbers are integers: CRF scores are percentages, weights and log-odds  *)
(* hundredths, final scores thousandths.  The score of a combination is    *)
(* twice the code's, a sum instead of a mean.  The logarithm and the       *)
(* exponential are tables.                                                 *)
(***************************************************************************)
EXTENDS MatchFlags

CONSTANTS
  TownWeights, CountryWeights,        \* by flag or by name of the weight
  LogOdds,                            \* of a percentage from 10 to 90
  Logistic,                           \* of -LogisticRange .. LogisticRange
  LogisticRange,
  MinimalCountry, MinimalTown,        \* cfg.MinimalFinalScoreCountry and ...Town
  SuggestedScore,                     \* cfg.BaseScoreSuggestedCountry, a percentage
  NoTownFoundMul, NoCountryFoundMul,  \* in tenths
  CountryTownSameName,                \* by town name, a country
  NoCountry, NoTown                   \* "NO COUNTRY" and "NO TOWN"

(***************************************************************************)
(* ScoreComputer.                                                          *)
(***************************************************************************)
TownOnly == {"CountryIsPresent", "SuggestedCountryIsPresent", "MLPCountryIsPresent",
             "IsVeryCloseToCountry", "IsOnSameLineAsCountry", "PostcodeForTownFound",
             "IsMetropolis", "IsAloneOnLine", "IsSmallTown", "IsFromExtendedData",
             "IsNotLargestTownWithName"}
CountryOnly == {"TownIsPresent", "IsVeryCloseToTown", "IsOnSameLineAsTown",
                "PostalCodeIsPresent", "IBANIsPresent", "PhonePrefixIsPresent",
                "DomainIsPresent", "MLPStronglyAgrees", "MLPAgrees", "MLPDoesntDisagree"}
Unweighted == {"IsSeparatorTypo", "IsSuggestedCountry", "GeneratedBySuggestedCountry"}

\* Weights that towns and countries both have: of flags and of other terms.
SharedFlags == {"IsInLastThird", "CouldBeReasonableMistake", "IsInsideAnotherWord",
                "IsInFirstThird", "IsShort", "IsInsideAnotherLowerRankedMatch",
                "IsInsideAnotherHigherRankedMatch", "IsInsideStreet",
                "IsCommonStateProvinceAlias", "IsUncommonStateProvinceAlias"}
SharedTerms == {"ContainsTypo", "IsShortAndNonzeroDistScore", "IsShortAndIsInsideAnotherWord"}

ASSUME MatchScoreAssumption ==
  /\ TownWeights \in [TownOnly \cup SharedFlags \cup SharedTerms
                       \cup {"IsSmallTownAndCountryNotPresent", "CountryIsPresentMalus"} -> Int]
  /\ CountryWeights \in [CountryOnly \cup SharedFlags \cup SharedTerms -> Int]
  /\ LogisticRange \in Nat
  /\ LogOdds \in [10..90 -> Int]
  /\ Logistic \in [(-LogisticRange)..LogisticRange -> 0..1000]
  /\ MinimalCountry \in 0..1000 /\ MinimalTown \in 0..1000
  /\ SuggestedScore \in 0..100
  /\ NoTownFoundMul \in Int /\ NoCountryFoundMul \in Int
  /\ NoCountry \in Seq(Nat) /\ NoTown \in Seq(Nat)
  /\ NoCountry # NoTown /\ <<>> \notin {NoCountry, NoTown}

\* Terms that both kinds have beside their flags'.
ShortTerms(m) ==
  When("IsShort" \in m.flags /\ m.dist > 0, "IsShortAndNonzeroDistScore")
  \cup When({"IsShort", "IsInsideAnotherWord"} \subseteq m.flags, "IsShortAndIsInsideAnotherWord")

TypoTerm(weights, m) ==
  IF m.dist > 0 /\ "IsSeparatorTypo" \notin m.flags THEN m.dist * weights["ContainsTypo"] ELSE 0

TownTerms(t) ==
  (t.flags \ (CountryOnly \cup Unweighted)) \cup ShortTerms(t)
  \cup When("IsSmallTown" \in t.flags /\ "CountryIsPresent" \notin t.flags,
            "IsSmallTownAndCountryNotPresent")

CountryTerms(c) == (c.flags \ (TownOnly \cup Unweighted)) \cup ShortTerms(c)

\* Positive weights add to the bonuses, negative ones to the maluses.
Total(weights, terms) == FoldSet(LAMBDA n, total : total + weights[n], 0, terms)

Bonuses(weights, terms, typo) ==
  Total(weights, {n \in terms : weights[n] >= 0}) + (IF typo >= 0 THEN typo ELSE 0)
Maluses(weights, terms, typo) ==
  Total(weights, {n \in terms : weights[n] < 0}) + (IF typo < 0 THEN typo ELSE 0)

\* The surer the network, the less the bonuses weigh and the more the maluses.
ComputeScore(crf, bonuses, maluses) ==
  LET amortized == IF crf < 10 THEN 10 ELSE IF crf > 90 THEN 90 ELSE crf
      swing == (3 * crf) \div 2
      odds == LogOdds[amortized]
                + ((400 - swing) * bonuses + (250 + swing) * maluses) \div 100
  IN Logistic[IF odds < -LogisticRange THEN -LogisticRange
              ELSE IF odds > LogisticRange THEN LogisticRange ELSE odds]

TownScore(t) ==
  LET terms == TownTerms(t)
      typo == TypoTerm(TownWeights, t)
      alone == IF "CountryIsPresent" \in t.flags THEN 0 ELSE TownWeights["CountryIsPresentMalus"]
  IN [t EXCEPT !.final = ComputeScore(t.crf, Bonuses(TownWeights, terms, typo),
                                      Maluses(TownWeights, terms, typo) + alone)]

\* A country generated from the suggestion keeps its score and no other flag.
CountryScore(c) ==
  LET terms == CountryTerms(c)
      typo == TypoTerm(CountryWeights, c)
  IN IF Generated(c)
     THEN [c EXCEPT !.flags = {"GeneratedBySuggestedCountry"}, !.final = 10 * c.crf]
     ELSE [c EXCEPT !.final = ComputeScore(c.crf, Bonuses(CountryWeights, terms, typo),
                                           Maluses(CountryWeights, terms, typo))]

(***************************************************************************)
(* CombinationGenerator.  A sample is [suggested, force]: the suggested    *)
(* country, or none.                                                       *)
(***************************************************************************)
Combination(c, t, score) == [country |-> c, town |-> t, score |-> score]

Placeholder(name, score) ==
  [start |-> 0, end |-> 0, possibility |-> name, origin |-> name, dist |-> 0,
   flags |-> {}, crf |-> 0, final |-> score]

Forced(sample) == sample.force /\ sample.suggested # <<>>

CountryAllowed(sample, c) == Forced(sample) => c.origin = sample.suggested

Trusted(c) ==
  {"MLPStronglyAgrees", "IsSuggestedCountry", "GeneratedBySuggestedCountry"} \cap c.flags # {}

SameNameOf(name) ==
  IF name \in DOMAIN CountryTownSameName THEN CountryTownSameName[name] ELSE <<>>

\* One of the two lies inside the other, or both are the same characters and
\* the town is not known to be named after its country.
SkipPair(c, t) ==
  IF c.start = t.start /\ c.end = t.end THEN SameNameOf(t.possibility) # c.origin
  ELSE Larger(c, t) \/ Larger(t, c)

Malus(weights, m, terms) == Total(weights, terms \cap m.flags)

SoloCountry(c) ==
  c.final + MinimalTown
    - NoTownFoundMul * Malus(CountryWeights, c, {"TownIsPresent", "IsVeryCloseToTown",
                                                 "IsOnSameLineAsTown"})

SoloTown(t) ==
  MinimalCountry + t.final
    - NoCountryFoundMul * Malus(TownWeights, t, {"CountryIsPresent", "SuggestedCountryIsPresent",
                                                 "IsVeryCloseToCountry", "IsOnSameLineAsCountry"})

\* dedupeCombinations: the first of each country and town name.
TownKey(t) == Exchanged(t.possibility, Dash, 32)

Dedupe(combinations) ==
  LET key(k) == <<combinations[k].country.origin, TownKey(combinations[k].town)>>
      firsts == {k \in DOMAIN combinations : \A j \in 1..(k - 1) : key(j) # key(k)}
  IN Subsequence(combinations, firsts)

\* Slip: a trusted country is offered with any town.
ForeignToAll(c, t, towns) == Trusted(c)

Foreign(c, t, towns) ==
  /\ Trusted(c)
  /\ \A s \in Range(towns) : s.origin # c.origin

\* All combinations before sorting, in the order they are generated.
Generate(sample, countries, towns) ==
  LET allowed == Select(countries, LAMBDA c : CountryAllowed(sample, c))
      pairs(c, Meet(_, _)) ==
        LET partners == Select(towns, LAMBDA t : Meet(c, t) /\ ~SkipPair(c, t))
        IN [k \in DOMAIN partners |-> Combination(c, partners[k], c.final + partners[k].final)]
      sameOrigin(c, t) == c.origin = t.origin
      foreign(c, t) == Foreign(c, t, towns)
      soloTowns == IF Forced(sample) /\ sample.suggested # NoCountry THEN <<>> ELSE towns
      noCountry == Placeholder(NoCountry, IF sample.suggested = NoCountry
                                          THEN 10 * SuggestedScore ELSE MinimalCountry)
      noTown == Placeholder(NoTown, MinimalTown)
      all == FlattenSeq([k \in DOMAIN allowed |-> pairs(allowed[k], sameOrigin)])
             \o FlattenSeq([k \in DOMAIN allowed |-> pairs(allowed[k], foreign)])
             \o [k \in DOMAIN allowed |-> Combination(allowed[k], noTown, SoloCountry(allowed[k]))]
             \o [k \in DOMAIN soloTowns |-> Combination(noCountry, soloTowns[k], SoloTown(soloTowns[k]))]
  IN IF all = <<>> THEN <<Combination(noCountry, noTown, MinimalCountry + MinimalTown)>> ELSE all

BestFirst(combinations) ==
  Dedupe(StableSort(combinations, LAMBDA k, l : k.score > l.score))

(***************************************************************************)
(* Line structure: an address is expected to end with the line of its town *)
(* and the line of its country.                                            *)
(***************************************************************************)
Adjustment(lines, k) ==
  LET last == Len(lines)
      countryLine == LineOf(lines, k.country)
      townLine == LineOf(lines, k.town)
  IN (IF countryLine = last /\ Occupies(lines[last], k.country) THEN 400
      ELSE IF countryLine > 0 /\ LooksLikeCode(lines[last]) THEN -400 ELSE 0)
     + (IF townLine = last - 1 /\ Occupies(lines[townLine], k.town) THEN 600
        ELSE IF countryLine = last /\ townLine > 0 /\ townLine < last - 1 THEN -500 ELSE 0)

Rerank(text, combinations) ==
  LET lines == NonEmptyLines(text)
      value(k) == k.score + Adjustment(lines, k)
  IN IF Len(lines) < 2 \/ Len(combinations) < 2 THEN combinations
     ELSE StableSort(combinations, LAMBDA k, l : value(k) > value(l))

\* finalLineCountryMatch, for a text whose last line looks like a country code:
\* the first candidate that fills that line, as a sequence of at most one.
FinalLineCountry(lines, countries) ==
  LET fills(c) == /\ c.origin \notin {<<>>, NoCountry}
                  /\ LineOf(lines, c) = Len(lines)
                  /\ Occupies(lines[Len(lines)], c)
      found == Select(countries, fills)
  IN SubSeq(found, 1, Min({1, Len(found)}))

\* Slip: any town of the country stands for the line.
KnownAnywhere(lines, name, towns, country) == \E t \in Range(towns) : t.origin = country

\* hasPenultimateLineTownCandidate
KnownOnLine(lines, name, towns, country) ==
  \E t \in Range(towns) : /\ t.origin = country
                          /\ LineOf(lines, t) = Len(lines) - 1
                          /\ Trim(t.possibility) = Trim(name)

\* addPenultimateLineTownFallback: the line before the country's is a town even
\* if the resource files do not know it.
WithFallback(text, countries, towns) ==
  LET lines == NonEmptyLines(text)
      line == lines[Len(lines) - 1]
      name == Slice(text, line.trimStart, line.trimEnd)
      fallback(country) ==
        [start |-> line.trimStart, end |-> line.trimEnd, possibility |-> name,
         origin |-> country, dist |-> 0, flags |-> {"IsAloneOnLine"}, crf |-> 90, final |-> 900]
      added(c) == IF KnownOnLine(lines, name, towns, c.origin) THEN <<>>
                  ELSE <<fallback(c.origin)>>
      found == FinalLineCountry(lines, countries)
  IN IF Len(lines) < 2 \/ ~LooksLikeCode(lines[Len(lines)]) THEN towns
     ELSE IF \A i \in DOMAIN name : ~IsLetter(name[i]) THEN towns
     ELSE towns \o FlattenSeq([k \in DOMAIN found |-> added(found[k])])
=============================================================================
