----------------------------- MODULE FuzzyMatch -----------------------------
(***************************************************************************)
(* internal/fuzzy: finding the names of a resource map in a text, up to a  *)
(* few typing errors.  A map is a set of entries [name, origins].          *)
(***************************************************************************)
EXTENDS AddressText

(***************************************************************************)
(* levenshteinDistance, one row of the table per character of a.           *)
(***************************************************************************)
NextRow(previous, i, a, b) ==
  LET row[j \in 0..Len(b)] ==
        IF j = 0 THEN <<i>>
        ELSE LET r == row[j - 1]
             IN Append(r, Min({previous[j + 1] + 1, r[j] + 1,
                               previous[j] + (IF a[i] = b[j] THEN 0 ELSE 1)}))
  IN row[Len(b)]

\* Slip: exchanging a character costs nothing.
FreeExchange(a, b) == IF Len(a) > Len(b) THEN Len(a) - Len(b) ELSE Len(b) - Len(a)

Levenshtein(a, b) ==
  LET row[i \in 0..Len(a)] ==
        IF i = 0 THEN [j \in 1..(Len(b) + 1) |-> j - 1] ELSE NextRow(row[i - 1], i, a, b)
  IN IF a = b THEN 0 ELSE Last(row[Len(a)])

(***************************************************************************)
(* The stretches of the text a name is compared with: as long as the name, *)
(* give or take the tolerance.                                             *)
(***************************************************************************)
Windows(query, name, tolerance) ==
  {w \in [start: 0..Len(query), end: 0..Len(query)] :
     w.end - w.start \in Max({1, Len(name) - tolerance})..(Len(name) + tolerance)}

RatioScore(name, match, dist) ==
  LET length == Max({Len(name), Len(match)})
      score == (100 * (length - dist)) \div length
  IN IF score < 0 THEN 0 ELSE score

PartialRatio(query, name, tolerance) ==
  IF query = <<>> THEN 0
  ELSE IF Includes(query, name) THEN 100
  ELSE Max({0} \cup {RatioScore(name, Slice(query, w.start, w.end),
                                Levenshtein(name, Slice(query, w.start, w.end))) :
                       w \in Windows(query, name, tolerance)})

(***************************************************************************)
(* findNearMatches and bestNonOverlappingMatches: the closest stretch      *)
(* first, the leftmost of these, and the shorter of two at one place; what *)
(* overlaps an earlier choice is dropped.                                  *)
(***************************************************************************)
Overlap(m, n) == m.start < n.end /\ n.start < m.end

Closer(m, n) ==
  \/ m.dist < n.dist
  \/ m.dist = n.dist /\ m.start < n.start
  \/ m.dist = n.dist /\ m.start = n.start /\ m.end < n.end

\* Slip: a stretch is dropped for overlapping a better one even where that one
\* was itself dropped.
DropChains(candidates) ==
  InOrder({m \in candidates : \A n \in candidates : Closer(n, m) => ~Overlap(m, n)},
               LAMBDA m, n : m.start < n.start)

BestNonOverlapping(candidates) ==
  LET keep(kept, m) == IF \E n \in kept : Overlap(m, n) THEN kept ELSE kept \cup {m}
  IN InOrder(FoldLeft(keep, {}, InOrder(candidates, Closer)),
                  LAMBDA m, n : m.start < n.start)

Candidates(query, name, tolerance) ==
  LET measured == {[start |-> w.start, end |-> w.end,
                    dist |-> Levenshtein(name, Slice(query, w.start, w.end))] :
                     w \in Windows(query, name, tolerance)}
  IN {m \in measured : m.dist <= tolerance}

NearMatches(query, name, tolerance) == BestNonOverlapping(Candidates(query, name, tolerance))

(***************************************************************************)
(* isStandaloneMatch: no letter, digit or underscore on either side.  A    *)
(* final dot counts as outside.                                            *)
(***************************************************************************)
Standalone(query, m) ==
  LET end == IF query[m.end] = Dot THEN m.end - 1 ELSE m.end
  IN /\ end > m.start
     /\ m.start = 0 \/ ~IsWordByte(query[m.start])
     /\ end = Len(query) \/ ~IsWordByte(query[end + 1])

\* adjustDistanceForMiddleNewlines: a line break inside the match is no error.
AdjustedDistance(matched, dist) ==
  LET breaks == Cardinality({i \in 2..(Len(matched) - 1) : matched[i] = Newline})
  IN IF Len(matched) <= 2 THEN dist ELSE Max({0, dist - breaks})

(***************************************************************************)
(* ScanAllBatched for one text.  Names of one or two characters must be    *)
(* spelled exactly and stand alone.                                        *)
(***************************************************************************)
SortedCandidates(words) ==
  LET names == {w.name : w \in words} \ {<<>>}
      merged(n) == [name |-> n, origins |-> UNION {w.origins : w \in {v \in words : v.name = n}}]
  IN InOrder({merged(n) : n \in names}, LAMBDA v, w : Precedes(v.name, w.name))

MatchesOf(query, candidate, cutoff, maxDistance) ==
  LET short == Len(candidate.name) <= 2
      tolerance == IF short THEN 0 ELSE maxDistance
      origins == InOrder(candidate.origins, Precedes)
      usable(m) == ~short \/ Standalone(query, m)
      match(m, origin) ==
        [start |-> m.start, end |-> m.end, possibility |-> candidate.name, origin |-> origin,
         dist |-> AdjustedDistance(Slice(query, m.start, m.end), m.dist),
         flags |-> IF Standalone(query, m) THEN {} ELSE {"IsInsideAnotherWord"},
         crf |-> 0, final |-> 0]
      per(m) == [k \in DOMAIN origins |-> match(m, origins[k])]
      near == Select(NearMatches(query, candidate.name, tolerance), usable)
  IN IF PartialRatio(query, candidate.name, tolerance) < cutoff THEN <<>>
     ELSE FlattenSeq([k \in DOMAIN near |-> per(near[k])])

Scan(query, words, cutoff, maxDistance) ==
  LET candidates == SortedCandidates(words)
  IN FlattenSeq([k \in DOMAIN candidates |-> MatchesOf(query, candidates[k], cutoff, maxDistance)])

(***************************************************************************)
(* What the distance means, without a table.  An alignment pairs some      *)
(* positions I of a with as many positions J of b, in order; it costs one  *)
(* for each unpaired character and one for each pair of different ones.    *)
(***************************************************************************)
Alignments(a, b) ==
  {p \in (SUBSET (DOMAIN a)) \X (SUBSET (DOMAIN b)) : Cardinality(p[1]) = Cardinality(p[2])}

AlignmentCost(a, b, p) ==
  LET before(S, x) == Cardinality({y \in S : y < x})
      unequal == {x \in p[1] : \A y \in p[2] : before(p[1], x) = before(p[2], y) => a[x] # b[y]}
  IN Len(a) + Len(b) - 2 * Cardinality(p[1]) + Cardinality(unequal)

EditDistance(a, b) == Min({AlignmentCost(a, b, p) : p \in Alignments(a, b)})
=============================================================================
