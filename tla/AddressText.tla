---------------------------- MODULE AddressText ----------------------------
(***************************************************************************)
(* An address text as the matchers see it: after the pipeline's clean-up   *)
(* it is plain upper-case ASCII, so a text is a sequence of character      *)
(* codes and a byte is a character.  Offsets are the code's: the first     *)
(* character is at 0, and a span start .. end holds the characters from    *)
(* start up to but not including end.                                      *)
(***************************************************************************)
EXTENDS Integers, Sequences, SequencesExt

Newline == 10
Dash == 45
Dot == 46
IsBlank(c) == c \in {9, 11, 12, 13, 32}
IsDigit(c) == c \in 48..57
IsLetter(c) == c \in (65..90 \cup 97..122)
IsWordByte(c) == IsLetter(c) \/ IsDigit(c) \/ c = 95

Clamp(i, n) == IF i < 0 THEN 0 ELSE IF i > n THEN n ELSE i

\* text[start:end]
Slice(text, start, end) == SubSeq(text, start + 1, end)

Occurrences(text, part) ==
  {i \in 0..(Len(text) - Len(part)) : Slice(text, i, i + Len(part)) = part}

Includes(text, part) == Occurrences(text, part) # {}

\* strings.TrimSpace
Trim(s) ==
  LET kept == {i \in DOMAIN s : ~(IsBlank(s[i]) \/ s[i] = Newline)}
  IN IF kept = {} THEN <<>> ELSE SubSeq(s, Min(kept), Max(kept))

\* The order of sort.Strings.
Precedes(s, t) ==
  \/ Len(s) < Len(t) /\ IsPrefix(s, t)
  \/ \E i \in DOMAIN s \cap DOMAIN t :
       SubSeq(s, 1, i - 1) = SubSeq(t, 1, i - 1) /\ s[i] < t[i]

\* A set in order, where R relates x to y if x comes first: a strict total order.
Listed(S, R) ==
  LET before == [x \in S |-> Cardinality({y \in S : <<y, x>> \in R})]
  IN [k \in 1..Cardinality(S) |-> CHOOSE x \in S : before[x] = k - 1]

InOrder(S, Before(_, _)) == Listed(S, {p \in S \X S : Before(p[1], p[2])})

\* A stable sort: Before is a strict weak order.
StableSort(s, Before(_, _)) ==
  LET order == InOrder(DOMAIN s, LAMBDA i, j : \/ Before(s[i], s[j])
                                               \/ ~Before(s[j], s[i]) /\ i < j)
  IN [k \in DOMAIN s |-> s[order[k]]]

Ascending(P) == InOrder(P, <)

\* The elements of s at the positions P, in their order in s.
Subsequence(s, P) == [k \in 1..Cardinality(P) |-> s[Ascending(P)[k]]]

Select(s, Test(_)) == Subsequence(s, {i \in DOMAIN s : Test(s[i])})

(***************************************************************************)
(* Lines (line_structure.go).                                              *)
(***************************************************************************)
LineEnd(text, start) ==
  CHOOSE e \in start..Len(text) :
    /\ e = Len(text) \/ text[e + 1] = Newline
    /\ \A i \in (start + 1)..e : text[i] # Newline

\* The lines that are not blank, in order, with and without the blanks around.
NonEmptyLines(text) ==
  LET starts == {0} \cup {i \in DOMAIN text : text[i] = Newline}
      inked(s) == {i \in s..(LineEnd(text, s) - 1) : ~IsBlank(text[i + 1])}
      span(s) == [start |-> s, end |-> LineEnd(text, s),
                  trimStart |-> Min(inked(s)), trimEnd |-> Max(inked(s)) + 1]
  IN InOrder({span(s) : s \in {t \in starts : inked(t) # {}}},
             LAMBDA k, l : k.start < l.start)

\* The index of the line that holds the span, 0 if none does.
LineOf(lines, m) ==
  LET holding == {i \in DOMAIN lines : m.start >= lines[i].start /\ m.end <= lines[i].end}
  IN IF holding = {} THEN 0 ELSE Min(holding)

Occupies(line, m) == m.start <= line.trimStart /\ m.end >= line.trimEnd

LooksLikeCode(line) == line.trimEnd - line.trimStart = 2
=============================================================================
