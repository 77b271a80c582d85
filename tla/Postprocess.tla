---------------------------- MODULE Postprocess ----------------------------
(***************************************************************************)
(* One cleaned address on its way through Pipeline.Run: the network's      *)
(* tags, the names found in the text, the postcodes, then                  *)
(* postprocess.Runner.runOne, whose stages are actions here, and last the  *)
(* structured address and its assessment.  Only the network and the        *)
(* postal database are free to answer as they like, and they or a pattern  *)
(* that does not compile may fail the run; every other step is determined. *)
(***************************************************************************)
EXTENDS MatchScore

CONSTANTS
  Texts,          \* cleaned address texts
  Samples,        \* [suggested, force]
  CountryNames,   \* CountryPossibilities: [name, origins]
  Alpha2,         \* the codes of CountryAlpha2
  TownNames,      \* TownPossibilities: by country, a set of names
  Taggings,       \* by text, the span sequences the network may cut
  Heads,          \* country heads: [code, confidence]
  Probability,    \* of a span's own tag at its characters, in percent
  Elsewhere,      \* and of that tag at the other characters of the text
  CutoffCountry, ToleranceCountry, CutoffTown, ToleranceTown,  \* cfg.Fuzzy
  High, Medium    \* quality.Thresholds, in thousandths

\* The names and codes of the resource files are cleaned texts; none of a town or
\* of its country is empty.
ASSUME PostprocessAssumption ==
  /\ Texts \subseteq Seq(Nat)
  /\ Samples \subseteq [suggested: Seq(Nat), force: BOOLEAN]
  /\ IsFiniteSet(CountryNames)
  /\ CountryNames \subseteq [name: Seq(Nat), origins: SUBSET Seq(Nat)]
  /\ \A w \in CountryNames : IsFiniteSet(w.origins)
  /\ IsFiniteSet(Alpha2) /\ Alpha2 \subseteq Seq(Nat)
  /\ IsFiniteSet(DOMAIN TownNames) /\ DOMAIN TownNames \subseteq Seq(Nat) \ {<<>>}
  /\ \A c \in DOMAIN TownNames :
       IsFiniteSet(TownNames[c]) /\ TownNames[c] \subseteq Seq(Nat) \ {<<>>}
  /\ Probability \in 0..100 /\ Elsewhere \in 0..100
  /\ ToleranceCountry \in Nat /\ ToleranceTown \in Nat

VARIABLES
  text, sample,
  source,        \* the postcode runner: the resource files or the SQLite database
  phase,
  crf,           \* the network's answer
  countries, codes, towns,  \* candidates: CountryMatches, CountryCodeMatches, TownMatches
  postcodes,     \* a set of postcode matches
  combinations,  \* what finalMatches answers, as pairs
  address        \* the structured address and its assessment

vars == <<text, sample, source, phase, crf, countries, codes, towns, postcodes, combinations, address>>
matches == <<countries, codes, towns>>

Phases == {"received", "tagged", "scanned", "located", "suggested", "flagged", "related",
           "scored", "combined", "answered", "failed"}

NoAnswer == [spans |-> <<>>, head |-> <<>>, confidence |-> 0]
NoAddress == [country |-> <<>>, town |-> <<>>, status |-> "none", band |-> "none", score |-> 0]

Init ==
  /\ text \in Texts
  /\ sample \in Samples
  /\ source \in {"resources", "database"}
  /\ phase = "received"
  /\ crf = NoAnswer
  /\ countries = <<>> /\ codes = <<>> /\ towns = <<>>
  /\ postcodes = {}
  /\ combinations = <<>>
  /\ address = NoAddress

Each(s, Op(_)) == [k \in DOMAIN s |-> Op(s[k])]

(***************************************************************************)
(* The stages before runOne.                                               *)
(***************************************************************************)
TagBatch ==
  /\ phase = "received"
  /\ \E spans \in Taggings[text], head \in Heads :
       crf' = [spans |-> spans, head |-> head.code, confidence |-> head.confidence]
  /\ phase' = "tagged"
  /\ UNCHANGED <<text, sample, source, matches, postcodes, combinations, address>>

\* A call of the run returns an error.
Fail ==
  /\ phase' = "failed"
  /\ UNCHANGED <<text, sample, source, crf, matches, postcodes, combinations, address>>

\* The network fails, or answers more or fewer texts than it was asked.
TagBatchFails ==
  /\ phase = "received"
  /\ Fail

\* Every country is also looked for by its code.
CountryCodeCandidates ==
  {[name |-> c, origins |-> {c}] : c \in Alpha2 \cup UNION {w.origins : w \in CountryNames}}

TownPossibilities ==
  {[name |-> n, origins |-> {c \in DOMAIN TownNames : n \in TownNames[c]}] :
     n \in UNION Range(TownNames)}

\* defaultFuzzyRunner.MatchBatch; it reads nothing but the text.
FuzzyResults ==
  [t \in Texts |-> [countries |-> Scan(t, CountryNames, CutoffCountry, ToleranceCountry),
                    codes |-> Scan(t, CountryCodeCandidates, CutoffCountry, ToleranceCountry),
                    towns |-> Scan(t, TownPossibilities, CutoffTown, ToleranceTown)]]

MatchNames ==
  /\ phase = "tagged"
  /\ countries' = FuzzyResults[text].countries
  /\ codes' = FuzzyResults[text].codes
  /\ towns' = FuzzyResults[text].towns
  /\ phase' = "scanned"
  /\ UNCHANGED <<text, sample, source, crf, postcodes, combinations, address>>

MatchPostcodes ==
  /\ phase = "scanned"
  /\ postcodes' \in (IF source = "resources" THEN {ResourceMatches(text)} ELSE DatabaseMatches(text))
  /\ phase' = "located"
  /\ UNCHANGED <<text, sample, source, crf, matches, combinations, address>>

\* A query of the database fails, or a country's pattern does not compile.
MatchPostcodesFails ==
  /\ phase = "scanned"
  /\ IF source = "database" THEN Codes(text) # {}
     ELSE \E c \in DOMAIN Postcodes \cap DOMAIN Specs : Specs[c].postal # {}
  /\ Fail

(***************************************************************************)
(* runOne.                                                                 *)
(***************************************************************************)
\* Slip: the sum over the characters instead of their mean.
SumSpan(tag, m) ==
  Probability * Cardinality({i \in m.start..(m.end - 1) : \E s \in Range(crf.spans) :
                                s.tag = tag /\ i \in s.start..(s.end - 1)})

\* tagSeries: a tag that has a span has its marginals at every character.
OutsideSpans(tag) == IF \E s \in Range(crf.spans) : s.tag = tag THEN Elsewhere ELSE 0

\* meanSpan of LogProbasPerTag, rounded up: it is positive where the code's is.  A
\* match past the end of the text is empty.
MeanSpan(tag, m) ==
  LET start == Clamp(m.start, Len(text))
      end == Clamp(m.end, Len(text))
      length == end - start
      tagged == Cardinality({i \in start..(end - 1) : \E s \in Range(crf.spans) :
                                s.tag = tag /\ i \in s.start..(s.end - 1)})
      sum == Probability * tagged + OutsideSpans(tag) * (length - tagged)
  IN IF end <= start THEN 0 ELSE (sum + length - 1) \div length

WithCRF(tag, m) == [m EXCEPT !.crf = MeanSpan(tag, m)]

\* processSuggestedCountry: the suggestion's own code is marked, and it becomes
\* a candidate that is nowhere in the text.
MarkSuggested(m) ==
  IF m.possibility = sample.suggested /\ m.origin = sample.suggested
  THEN [AddFlags(m, {"IsSuggestedCountry"}) EXCEPT !.crf = Max({@, SuggestedScore})]
  ELSE m

\* Slip: the suggestion becomes a candidate only if the text has it as a code.
GeneratedIfNamed ==
  LET named == Select(codes, LAMBDA m : m.origin = sample.suggested)
  IN [k \in 1..Min({1, Len(named)}) |-> AddFlags(named[k], {"GeneratedBySuggestedCountry"})]

GeneratedCountry ==
  IF sample.suggested \in {<<>>, NoCountry} THEN <<>>
  ELSE <<[start |-> Len(text) + 2, end |-> Len(text) + 2, possibility |-> sample.suggested,
          origin |-> sample.suggested, dist |-> 0, flags |-> {"GeneratedBySuggestedCountry"},
          crf |-> SuggestedScore, final |-> 0]>>

\* A code is dropped if the network sees no country there, unless it is its head.
ProcessSuggestedCountry ==
  /\ phase = "located"
  /\ LET marked == Each(codes, LAMBDA m : MarkSuggested(WithCRF("COUNTRY", m))) \o GeneratedCountry
         kept == Select(marked, LAMBDA m : m.crf > 0 \/ m.origin = crf.head)
     IN /\ codes' = kept
        /\ countries' = Each(countries, LAMBDA m : WithCRF("COUNTRY", m)) \o kept
  /\ phase' = "suggested"
  /\ UNCHANGED <<text, sample, source, crf, towns, postcodes, combinations, address>>

\* filterFuzzyResults: ranked by distance, then by the network.
Ranked(ms) ==
  LET sorted == StableSort(ms, LAMBDA m, n : \/ m.dist < n.dist
                                             \/ m.dist = n.dist /\ m.crf > n.crf)
      flags(k) == InclusionFlags(sorted, k)
                    \cup When(sorted[k].end - sorted[k].start <= 2, "IsShort")
                    \cup When(3 * sorted[k].start <= Len(text), "IsInFirstThird")
                    \cup When(3 * sorted[k].start >= 2 * Len(text), "IsInLastThird")
  IN [k \in DOMAIN sorted |-> AddFlags(sorted[k], flags(k))]

\* splitCountryListInCodeAndNotCode: the codes go first.
CodesFirst(ms) ==
  LET isCode(m) == Len(m.possibility) <= 2
  IN Select(ms, isCode) \o Select(ms, LAMBDA m : ~isCode(m))

\* findIBANs: the IBAN pattern does not compile.
FindIBANsFails ==
  /\ phase = "suggested"
  /\ Fail

FlagMatches ==
  /\ phase = "suggested"
  /\ towns' = Ranked(Each(towns, LAMBDA m : TownFlags(text, crf, WithCRF("TOWN", m))))
  /\ countries' = CodesFirst(Ranked(Each(countries, LAMBDA m : CountryFlags(text, crf, m))))
  /\ phase' = "flagged"
  /\ UNCHANGED <<text, sample, source, crf, codes, postcodes, combinations, address>>

CountryHead == IF crf.confidence >= 99 THEN crf.head ELSE <<>>

RelateMatches ==
  /\ phase = "flagged"
  /\ towns' = Each(towns, LAMBDA t :
       PostcodeTownFlag(postcodes,
         MistakeFlag(text, crf, "COUNTRY", RelateTown(text, countries, CountryHead, t))))
  /\ countries' = Each(countries, LAMBDA c :
       PostcodeCountryFlag(postcodes, MistakeFlag(text, crf, "TOWN", RelateCountry(text, towns, c))))
  /\ phase' = "related"
  /\ UNCHANGED <<text, sample, source, crf, codes, postcodes, combinations, address>>

ScoreMatches ==
  /\ phase = "related"
  /\ countries' = Each(countries, CountryScore)
  /\ towns' = Each(towns, TownScore)
  /\ phase' = "scored"
  /\ UNCHANGED <<text, sample, source, crf, codes, postcodes, combinations, address>>

AboveThreshold(ms, threshold) == Select(ms, LAMBDA m : m.final >= threshold)

FinalMatches ==
  /\ phase = "scored"
  /\ LET cs == AboveThreshold(countries, MinimalCountry)
         ts == WithFallback(text, cs, AboveThreshold(towns, MinimalTown))
     IN combinations' = Rerank(text, BestFirst(Generate(sample, cs, ts)))
  /\ phase' = "combined"
  /\ UNCHANGED <<text, sample, source, crf, matches, postcodes, address>>

(***************************************************************************)
(* structured.FromResult and quality.Assess.                               *)
(***************************************************************************)
RealCountry(c) == c.origin \notin {<<>>, NoCountry} /\ c.possibility # NoCountry
RealTown(t) == t.possibility \notin {<<>>, NoTown} /\ t.origin # NoTown

BestCountry == Select(combinations, LAMBDA k : RealCountry(k.country))

\* Slip: the best town is the one with the highest score of its own.
TownOfHighestScore ==
  StableSort(Select(combinations, LAMBDA k : RealTown(k.town)),
             LAMBDA k, l : k.town.final > l.town.final)

BestTown == Select(combinations, LAMBDA k : RealTown(k.town))

\* bestCountry and bestTown: each the first of its own list.
FromResult ==
  LET cs == BestCountry
      ts == BestTown
  IN [country |-> IF cs = <<>> THEN <<>> ELSE cs[1].country.origin,
      countryConfidence |-> IF cs = <<>> THEN 0 ELSE cs[1].country.final,
      town |-> IF ts = <<>> THEN <<>> ELSE ts[1].town.possibility,
      townConfidence |-> IF ts = <<>> THEN 0 ELSE ts[1].town.final]

\* normalizeThresholds
HighBand == IF High <= 0 THEN 950 ELSE High
MediumBand == Min({HighBand, IF Medium <= 0 THEN 800 ELSE Medium})

BandOf(score, whole) ==
  IF whole /\ score >= HighBand THEN "high" ELSE IF score >= MediumBand THEN "medium" ELSE "low"

Assess(a) ==
  LET whole == a.country # <<>> /\ a.town # <<>>
      score == IF whole THEN Min({a.countryConfidence, a.townConfidence})
               ELSE a.countryConfidence + a.townConfidence
      band == BandOf(score, whole)
  IN [country |-> a.country, town |-> a.town, score |-> score, band |-> band,
      status |-> IF whole THEN (IF band = "high" THEN "resolved" ELSE "needs_review")
                 ELSE IF a.country = <<>> /\ a.town = <<>> THEN "needs_review" ELSE "partial"]

Answer ==
  /\ phase = "combined"
  /\ address' = Assess(FromResult)
  /\ phase' = "answered"
  /\ UNCHANGED <<text, sample, source, crf, matches, postcodes, combinations>>

Next ==
  \/ TagBatch
  \/ TagBatchFails
  \/ MatchNames
  \/ MatchPostcodes
  \/ MatchPostcodesFails
  \/ ProcessSuggestedCountry
  \/ FlagMatches
  \/ FindIBANsFails
  \/ RelateMatches
  \/ ScoreMatches
  \/ FinalMatches
  \/ Answer

Spec == Init /\ [][Next]_vars

-----------------------------------------------------------------------------
(***************************************************************************)
(* What the resource files and the configuration may be expected to meet,  *)
(* beyond PostprocessAssumption: some properties hold only where they do.  *)
(***************************************************************************)
\* No country has the placeholder "NO TOWN" for its code.
NoTownIsNoCode ==
  NoTown \notin {s.suggested : s \in Samples} \cup Alpha2 \cup UNION {w.origins : w \in CountryNames}

\* "NO COUNTRY" names no country: its one origin is empty (resources.go line 116).
NoCountryHasNoCode == \A w \in CountryNames : w.name = NoCountry => w.origins \subseteq {<<>>}

\* The score of a suggested country reaches the threshold (config.go lines 141, 144).
SuggestionCounts == SuggestedScore > 0 /\ 10 * SuggestedScore >= MinimalCountry

\* No town's name has blanks around it (resources.go line 222).
TownNamesTrimmed == \A c \in DOMAIN TownNames : \A n \in TownNames[c] : Trim(n) = n

-----------------------------------------------------------------------------
(***************************************************************************)
(* Properties.                                                             *)
(***************************************************************************)
Candidate(m) ==
  /\ m.start \in 0..(Len(text) + 2) /\ m.end \in m.start..(Len(text) + 2)
  /\ m.dist \in Nat
  /\ m.crf \in 0..100 /\ m.final \in 0..1000

\* Spans lie in the text or, for a generated country, two places past it;
\* scores are percentages and thousandths.
TypeOK ==
  /\ text \in Texts /\ sample \in Samples
  /\ source \in {"resources", "database"}
  /\ phase \in Phases
  /\ \A m \in Range(countries) \cup Range(codes) \cup Range(towns) : Candidate(m)
  /\ \A k \in Range(combinations) : Candidate(k.country) /\ Candidate(k.town)
  /\ \A p \in postcodes : p.start \in 0..Len(text) /\ p.end \in p.start..Len(text)
  /\ address.score \in 0..1000

\* The names a text is searched for.
Names == {w.name : w \in CountryNames \cup CountryCodeCandidates \cup TownPossibilities}

AtFirst == phase = "received" /\ sample.suggested = <<>>

\* The table levenshteinDistance fills row by row ends with the least cost of
\* any way to line the name up with the stretch of text.
DistanceIsEditDistance ==
  AtFirst => \A name \in {n \in Names : Len(n) <= 3} :
    \A w \in Windows(text, name, 1) :
      LET stretch == Slice(text, w.start, w.end)
      IN Levenshtein(name, stretch) = EditDistance(name, stretch)

\* bestNonOverlappingMatches reports stretches that do not overlap, and misses
\* none: whatever it leaves out, an exact spelling included, overlaps a reported
\* stretch that is at least as close.
NothingNearMissed ==
  AtFirst => \A name \in Names :
    LET near == Range(NearMatches(text, name, ToleranceTown))
    IN /\ \A m, n \in near : m = n \/ ~Overlap(m, n)
       /\ \A m \in Candidates(text, name, ToleranceTown) :
            \E n \in near : Overlap(m, n) /\ n.dist <= m.dist

\* A forced suggestion is obeyed: whatever the text, the network and the resource
\* files say, no other country is offered or answered, and the suggested one
\* is, unless it is "NO COUNTRY".
ForcedCountryStands ==
  phase \in {"combined", "answered"} /\ Forced(sample) =>
    /\ \A k \in Range(combinations) : k.country.origin = sample.suggested
    /\ \/ phase = "combined"
       \/ address.country = IF sample.suggested = NoCountry THEN <<>> ELSE sample.suggested

\* Of a text that ends with a line filled by a country's code, the line before is
\* offered as a town of that country, whether the resource files know such a
\* town or not: neither its score, nor a namesake elsewhere, nor the removal of
\* duplicates takes it away.
PenultimateLineOffered ==
  LET lines == NonEmptyLines(text)
      ending == FinalLineCountry(lines, AboveThreshold(countries, MinimalCountry))
      line == lines[Len(lines) - 1]
      name == Slice(text, line.trimStart, line.trimEnd)
  IN ( /\ phase = "combined"
       /\ Len(lines) >= 2 /\ LooksLikeCode(lines[Len(lines)])
       /\ ending # <<>> /\ CountryAllowed(sample, ending[1])
       /\ \E i \in DOMAIN name : IsLetter(name[i]) )
     =>
       \E k \in Range(combinations) :
            /\ k.country.origin = ending[1].origin
            /\ TownKey(k.town) = TownKey([possibility |-> name])

\* A country is offered with a town of another country only if the network or the
\* suggestion vouches for it and no town of its own is offered at all.
ForeignTownIsLastResort ==
  phase = "combined" =>
    \A k \in Range(combinations) :
      \/ ~RealCountry(k.country) \/ ~RealTown(k.town) \/ k.country.origin = k.town.origin
      \/ /\ Trusted(k.country)
         /\ \A l \in Range(combinations) : l.town.origin # k.country.origin

\* The structured address takes its country and its town from two lists.  They
\* come from one combination whenever the leading one has both; only behind a
\* leader that lacks one is the other taken from further down.
AnswerFromOneCombination ==
  phase = "answered" =>
    LET top == combinations[1]
    IN /\ RealCountry(top.country) => address.country = top.country.origin
       /\ RealTown(top.town) => address.town = top.town.possibility
=============================================================================
