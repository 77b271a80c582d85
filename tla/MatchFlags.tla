----------------------------- MODULE MatchFlags -----------------------------
(***************************************************************************)
(* internal/postprocess/flags.go: what the text around a candidate, the    *)
(* network's spans and the resource files say about it.  A candidate is a  *)
(* core.FuzzyMatch; its matched text is the slice of the address it spans. *)
(* The network's answer crf is [spans, head, confidence, probability]:     *)
(* tagged spans in order, the country head and its confidence in percent,  *)
(* and the percentage a span's own tag has at each of its characters.      *)
(***************************************************************************)
EXTENDS PostcodeMatch

CONSTANTS
  Towns,            \* by name: [population, largest] of TownPopulations and LargestTownCountry
  Provinces,        \* by country, its province aliases
  CommonProvinces,  \* cfg.CountriesWithCommonProvinces
  Ibans,            \* by text, the country codes its IBANs start with
  Metropolis,       \* cfg.IsMetropolisThreshold
  SmallTown,        \* cfg.IsSmallTownThreshold
  StreetPercent,    \* cfg.PartOfStreetRatio, in percent
  CloseDistance     \* relationshipCloseDistance

When(condition, flag) == IF condition THEN {flag} ELSE {}

AddFlags(m, flags) == [m EXCEPT !.flags = @ \cup flags]

Matched(text, m) == Slice(text, m.start, m.end)

\* CRFResult.PredictionsPerTag, without the confidences.
Predictions(text, crf, tag) ==
  {Slice(text, s.start, s.end) : s \in {t \in Range(crf.spans) : t.tag = tag}}

(***************************************************************************)
(* Flags of one candidate.                                                 *)
(***************************************************************************)
WithoutSeparators(s) == Select(s, LAMBDA c : c \notin {Dash, 32})

SeparatorTypo(text, m) ==
  When(/\ m.dist > 0
       /\ WithoutSeparators(Matched(text, m)) = WithoutSeparators(m.possibility),
       "IsSeparatorTypo")

PopulationFlags(m) ==
  LET name == Trim(m.possibility)
  IN IF name \notin DOMAIN Towns THEN {}
     ELSE When(Towns[name].population >= Metropolis, "IsMetropolis")
          \cup When(Towns[name].population <= SmallTown, "IsSmallTown")
          \cup When(Towns[name].largest # m.origin, "IsNotLargestTownWithName")

\* As many of its characters lie in spans tagged as street as the ratio asks.
StreetFlag(m, crf) ==
  LET inside == {i \in m.start..(m.end - 1) :
                   \E s \in Range(crf.spans) : s.tag = "STREET" /\ i \in s.start..(s.end - 1)}
  IN When(/\ inside # {}
          /\ 100 * Cardinality(inside) >= StreetPercent * (m.end - m.start),
          "IsInsideStreet")

AloneOnLine(text, m) ==
  LET start == Clamp(m.start, Len(text))
      end == Max({start, Clamp(m.end, Len(text))})
      breaks == {0} \cup {i \in 1..start : text[i] = Newline}
      before == Slice(text, Max(breaks), start)
      after == Slice(text, end, LineEnd(text, end))
  IN When(Trim(before) = <<>> /\ Trim(after) = <<>>, "IsAloneOnLine")

TownFlags(text, crf, m) ==
  AddFlags(m, SeparatorTypo(text, m) \cup PopulationFlags(m) \cup StreetFlag(m, crf)
                \cup AloneOnLine(text, m))

ProvinceFlags(m) ==
  IF /\ Len(m.possibility) <= 2
     /\ m.origin \in DOMAIN Provinces
     /\ Trim(m.possibility) \in Provinces[m.origin]
  THEN IF m.origin \in CommonProvinces THEN {"IsCommonStateProvinceAlias"}
       ELSE {"IsUncommonStateProvinceAlias"}
  ELSE {}

AgreementFlags(m, crf) ==
  IF m.origin # crf.head \/ m.origin = <<>> THEN {}
  ELSE IF crf.confidence >= 99 THEN {"MLPStronglyAgrees"}
  ELSE IF crf.confidence >= 90 THEN {"MLPAgrees"}
  ELSE When(crf.confidence >= 50, "MLPDoesntDisagree")

FeatureFlags(text, crf, m) ==
  IF m.origin \notin DOMAIN Specs THEN {}
  ELSE LET spec == Specs[m.origin]
           appears(p) == p # <<>> /\ Includes(text, p)
       IN When(\E p \in spec.phones : appears(p), "PhonePrefixIsPresent")
          \cup When(\E d \in spec.domains : appears(d), "DomainIsPresent")
          \cup When(\E p \in Predictions(text, crf, "POSTAL_CODE"), w \in spec.postal :
                      Includes(p, w), "PostalCodeIsPresent")

CountryFlags(text, crf, m) ==
  AddFlags(m, SeparatorTypo(text, m) \cup When(m.origin \in Ibans[text], "IBANIsPresent")
                \cup StreetFlag(m, crf) \cup ProvinceFlags(m) \cup AgreementFlags(m, crf)
                \cup FeatureFlags(text, crf, m))

(***************************************************************************)
(* FlagMatchesIncludedInAnother: the candidate of this rank lies inside    *)
(* another one, which is an exact match of lower rank or one of higher.    *)
(***************************************************************************)
Larger(other, m) ==
  \/ other.start < m.start /\ other.end >= m.end
  \/ other.end > m.end /\ other.start <= m.start

InclusionFlags(matches, rank) ==
  When(\E k \in rank..Len(matches) : Larger(matches[k], matches[rank]) /\ matches[k].dist < 1,
       "IsInsideAnotherLowerRankedMatch")
  \cup When(\E k \in 1..(rank - 1) : Larger(matches[k], matches[rank]),
            "IsInsideAnotherHigherRankedMatch")

(***************************************************************************)
(* RelationshipFlagManager: a town and a country that belong together.     *)
(***************************************************************************)
ValidPair(t, c) ==
  /\ c.dist = 0 /\ t.dist = 0 /\ c.origin # <<>>
  /\ "IsInsideAnotherWord" \notin t.flags
  /\ ~({"IsShort", "IsInsideAnotherWord"} \subseteq c.flags)
  /\ c.origin = t.origin

Between(text, m, n) ==
  LET first == IF m.start <= n.start THEN m ELSE n
      second == IF m.start <= n.start THEN n ELSE m
  IN Slice(text, Clamp(first.end, Len(text)), Clamp(second.start, Len(text)))

Generated(c) == "GeneratedBySuggestedCountry" \in c.flags

\* A province alias says nothing about where the town is.
Placed(c) == ~({"IsCommonStateProvinceAlias", "IsUncommonStateProvinceAlias"} \cap c.flags # {})

Close(text, t, c) ==
  Placed(c) /\ ~Generated(c) /\ Len(Between(text, t, c)) <= CloseDistance
SameLine(text, t, c) ==
  Placed(c) /\ ~Generated(c) /\ ~Includes(Between(text, t, c), <<Newline>>)

RelateTown(text, countries, certain, t) ==
  LET partners == {c \in Range(countries) : ValidPair(t, c)}
      some(Test(_), flag) == When(\E c \in partners : Test(c), flag)
  IN AddFlags(t,
       some(LAMBDA c : TRUE, "CountryIsPresent")
       \cup some(LAMBDA c : "IsSuggestedCountry" \in c.flags \/ Generated(c),
                 "SuggestedCountryIsPresent")
       \cup some(LAMBDA c : Close(text, t, c), "IsVeryCloseToCountry")
       \cup some(LAMBDA c : SameLine(text, t, c), "IsOnSameLineAsCountry")
       \cup When(certain # <<>> /\ t.origin = certain, "MLPCountryIsPresent"))

RelateCountry(text, towns, c) ==
  LET partners == {t \in Range(towns) : ValidPair(t, c) /\ "IsFromExtendedData" \notin t.flags}
      some(Test(_), flag) == When(\E t \in partners : Test(t), flag)
  IN AddFlags(c,
       some(LAMBDA t : TRUE, "TownIsPresent")
       \cup some(LAMBDA t : Close(text, t, c), "IsVeryCloseToTown")
       \cup some(LAMBDA t : SameLine(text, t, c), "IsOnSameLineAsTown"))

\* CheckReasonableMistakes: the network saw it as the other kind.
MistakeFlag(text, crf, otherTag, m) ==
  AddFlags(m, When(\E p \in Predictions(text, crf, otherTag) : Includes(p, Matched(text, m)),
                   "CouldBeReasonableMistake"))

(***************************************************************************)
(* Postcodes (runner.go).  A town is known by its name with dashes or with *)
(* spaces; names with a saint in them, which have more aliases, are left   *)
(* out.                                                                    *)
(***************************************************************************)
Exchanged(name, from, to) == [i \in DOMAIN name |-> IF name[i] = from THEN to ELSE name[i]]

Aliases(name) == {name, Exchanged(name, Dash, 32), Exchanged(name, 32, Dash)}

PostcodeTownFlag(postcodes, t) ==
  AddFlags(t, When(\E p \in postcodes : /\ p.possibility # <<>>
                                        /\ p.origin = t.origin
                                        /\ t.possibility \in Aliases(p.possibility),
                   "PostcodeForTownFound"))

PostcodeCountryFlag(postcodes, c) ==
  AddFlags(c, When(\E p \in postcodes : <<>> \notin {p.matched, p.origin} /\ p.origin = c.origin,
                   "PostalCodeIsPresent"))
=============================================================================
