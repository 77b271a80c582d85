--------------------------- MODULE PostcodeMatch ---------------------------
(***************************************************************************)
(* Postcodes found in a text: by the postal pattern of each country and    *)
(* the resource files (internal/postcode and the pipeline's default        *)
(* runner), or in the SQLite database (internal/postaldb).  What is found  *)
(* only ever adds a flag to a candidate, so the order of the matches, which*)
(* the code takes from a map, is left out: they are a set.                 *)
(***************************************************************************)
EXTENDS FuzzyMatch

CONSTANTS
  Specs,       \* CountrySpecs: by country, phone prefixes, domains and the postcodes
               \* its PostalCodeRegex matches (none: no regex)
  Postcodes,   \* by country, the entries of the resource files: [key, town, origin]
  Locations,   \* rows of the SQLite table; hasTown: the town is not NULL, though it may be empty
  MaxMatches   \* Runner.maxMatchesPerPostcode

\* A postal pattern matches no empty text.
ASSUME PostcodeAssumption ==
  \A c \in DOMAIN Specs :
    IsFiniteSet(Specs[c].postal) /\ Specs[c].postal \subseteq Seq(Nat) \ {<<>>}

PostcodeMatch(start, end, matched, town, origin) ==
  [start |-> start, end |-> end, matched |-> matched, possibility |-> town, origin |-> origin]

(***************************************************************************)
(* postcode.FindTownMatches.                                               *)
(***************************************************************************)
Preprocess(text) == [i \in DOMAIN text |-> IF IsDigit(text[i]) \/ text[i] \in 65..90
                                           THEN text[i] ELSE 32]

\* Regexp.FindAllStringIndex: leftmost first, without overlap.
FindAll(pattern, text) ==
  BestNonOverlapping(UNION {{[start |-> i, end |-> i + Len(word), dist |-> 0] :
                               i \in Occurrences(text, word)} : word \in pattern})

FindTownMatches(entries, pattern, text) ==
  LET processed == Preprocess(text)
      at(w) == Slice(processed, w.start, w.end)
  IN UNION {{PostcodeMatch(w.start, w.end, at(w), e.town, e.origin) :
               e \in {f \in entries : f.key = at(w)}} :
              w \in Range(FindAll(pattern, processed))}

\* defaultPostcodeRunner.MatchBatch for one text.
ResourceMatches(text) ==
  UNION {FindTownMatches(Postcodes[c], Specs[c].postal, text) :
           c \in DOMAIN Postcodes \cap DOMAIN Specs}

(***************************************************************************)
(* postaldb.  Any run of 3 to 10 letters and digits may be a postcode; a   *)
(* code seen before is not looked up again.                                *)
(***************************************************************************)
Codes(text) ==
  LET inside(i) == IsLetter(text[i]) \/ IsDigit(text[i])
      runs == {w \in [start: 0..Len(text), end: 0..Len(text)] :
                 /\ w.end - w.start \in 3..10
                 /\ \A i \in (w.start + 1)..w.end : inside(i)
                 /\ w.start = 0 \/ ~inside(w.start)
                 /\ w.end = Len(text) \/ ~inside(w.end + 1)}
      code(w) == Slice(text, w.start, w.end)
  IN {w \in runs : \A v \in runs : code(v) = code(w) => w.start <= v.start}

\* ORDER BY ... LIMIT: rows that tie at the limit may be cut either way.
Tops(rows, Better(_, _)) ==
  {S \in SUBSET rows :
     /\ Cardinality(S) = Min({MaxMatches, Cardinality(rows)})
     /\ \A r \in S, q \in rows \ S : ~Better(q, r)}

CountryEvidence(code) ==
  LET rows == {l.country : l \in {r \in Locations : r.postcode = code /\ r.country # <<>>}}
  IN Tops(rows, Precedes)

SafeTownEvidence(code) ==
  LET rows == {r \in Locations : /\ r.postcode = code
                                 /\ r.source = "both_town"
                                 /\ r.hasTown}
      better(r, q) == \/ r.dataRows > q.dataRows
                      \/ r.dataRows = q.dataRows /\ r.postalRows > q.postalRows
  IN Tops(rows, better)

\* Runner.MatchBatch for one text: every answer the queries may give.
DatabaseMatches(text) ==
  LET code(w) == Slice(text, w.start, w.end)
      found(w) ==
        {{PostcodeMatch(w.start, w.end, code(w), <<>>, c) : c \in countries}
           \cup {PostcodeMatch(w.start, w.end, code(w), r.town, r.country) : r \in towns} :
           countries \in CountryEvidence(code(w)), towns \in SafeTownEvidence(code(w))}
  IN {UNION Range(f) : f \in {g \in [Codes(text) -> UNION {found(w) : w \in Codes(text)}] :
                                 \A w \in Codes(text) : g[w] \in found(w)}}
=============================================================================
