------------------------ MODULE PostprocessProofs ------------------------
(***************************************************************************)
(* Every invariant of Postprocess, for every gazetteer, text, suggestion,  *)
(* network and set of weights.  The first part is about what the stages    *)
(* are made of: lists, orders, folds and sums, whose recursion is unrolled *)
(* into tables of their values; then the edit distance and the choice of   *)
(* near matches.  The second part follows a candidate through the stages,  *)
(* which give it flags and scores but leave its stretch and its name; the  *)
(* third is about lines and combinations.  The inductive invariant IInv    *)
(* and the theorems come last.                                             *)
(***************************************************************************)
EXTENDS Postprocess, FiniteSetTheorems, WellFoundedInduction, TLAPS

\* A set of natural numbers that is not empty has a least member.
LEMMA LeastNatural ==
  ASSUME NEW T \in SUBSET Nat, T # {}
  PROVE  \E m \in T : \A y \in T : m <= y
<1>1. PICK m \in T : \A y \in T : ~ (<<y, m>> \in OpToRel(<, Nat))
  BY NatLessThanWellFounded, WFMin
<1>2. \A y \in T : ~ (y < m)
  BY <1>1 DEF OpToRel
<1> QED
  BY <1>2

\* Induction: a set of naturals with 0 and the successors of its members has all.
LEMMA Inductive ==
  ASSUME NEW T, 0 \in T, \A n \in Nat : n \in T => n + 1 \in T
  PROVE  Nat \subseteq T
<1> SUFFICES ASSUME Nat \ T # {} PROVE FALSE
  OBVIOUS
<1>1. PICK m \in Nat \ T : \A y \in Nat \ T : m <= y
  BY LeastNatural
<1>2. m # 0 /\ m - 1 \in Nat
  BY <1>1
<1>3. m - 1 \in T
  BY <1>1, <1>2
<1> QED
  BY <1>1, <1>2, <1>3

(***************************************************************************)
(* Orders.                                                                 *)
(***************************************************************************)
StrictOrder(S, R) ==
  /\ \A x \in S : <<x, x>> \notin R
  /\ \A x, y, z \in S : <<x, y>> \in R /\ <<y, z>> \in R => <<x, z>> \in R
  /\ \A x, y \in S : x = y \/ <<x, y>> \in R \/ <<y, x>> \in R

Earlier(S, R, x) == {y \in S : <<y, x>> \in R}

\* What comes first has fewer members before it.
LEMMA EarlierGrows ==
  ASSUME NEW S, IsFiniteSet(S), NEW R, StrictOrder(S, R)
  PROVE  /\ \A x \in S : Cardinality(Earlier(S, R, x)) \in 0..(Cardinality(S) - 1)
         /\ \A x, y \in S : <<x, y>> \in R =>
              Cardinality(Earlier(S, R, x)) < Cardinality(Earlier(S, R, y))
<1>1. ASSUME NEW x \in S
      PROVE  /\ IsFiniteSet(Earlier(S, R, x)) /\ Cardinality(Earlier(S, R, x)) \in Nat
             /\ Cardinality(Earlier(S, R, x) \cup {x}) = Cardinality(Earlier(S, R, x)) + 1
             /\ IsFiniteSet(Earlier(S, R, x) \cup {x})
  <2>1. Earlier(S, R, x) \in SUBSET S /\ x \notin Earlier(S, R, x)
    BY DEF Earlier, StrictOrder
  <2>2. IsFiniteSet(Earlier(S, R, x))
    BY <2>1, FS_Subset
  <2> QED
    BY <2>1, <2>2, FS_AddElement, FS_CardinalityType
<1>2. ASSUME NEW x \in S PROVE Cardinality(Earlier(S, R, x)) + 1 <= Cardinality(S)
  <2>1. Earlier(S, R, x) \cup {x} \in SUBSET S
    BY DEF Earlier
  <2> QED
    BY <1>1, <2>1, FS_Subset
<1>3. ASSUME NEW x \in S, NEW y \in S, <<x, y>> \in R
      PROVE  Cardinality(Earlier(S, R, x)) + 1 <= Cardinality(Earlier(S, R, y))
  <2>1. Earlier(S, R, x) \cup {x} \in SUBSET Earlier(S, R, y)
    BY <1>3 DEF Earlier, StrictOrder
  <2>2. Cardinality(Earlier(S, R, x) \cup {x}) <= Cardinality(Earlier(S, R, y))
    BY <1>1, <2>1, FS_Subset
  <2> QED
    BY <1>1, <2>2
<1>4. Cardinality(S) \in Nat
  BY FS_CardinalityType
<1>5. ASSUME NEW x \in S PROVE Cardinality(Earlier(S, R, x)) \in 0..(Cardinality(S) - 1)
  <2>1. Cardinality(Earlier(S, R, x)) \in Nat /\ Cardinality(Earlier(S, R, x)) + 1 <= Cardinality(S)
    BY <1>1, <1>2
  <2> QED
    BY <1>4, <2>1
<1>6. ASSUME NEW x \in S, NEW y \in S, <<x, y>> \in R
      PROVE  Cardinality(Earlier(S, R, x)) < Cardinality(Earlier(S, R, y))
  <2>1. Cardinality(Earlier(S, R, x)) \in Nat /\ Cardinality(Earlier(S, R, y)) \in Nat
    BY <1>1
  <2>2. Cardinality(Earlier(S, R, x)) + 1 <= Cardinality(Earlier(S, R, y))
    BY <1>3, <1>6
  <2> QED
    BY <2>1, <2>2
<1> QED
  BY <1>5, <1>6

\* Any number of members from none to all but one come before some member.
LEMMA EveryRankTaken ==
  ASSUME NEW S, IsFiniteSet(S), NEW R, StrictOrder(S, R)
  PROVE  \A k \in 1..Cardinality(S) : \E x \in S : Cardinality(Earlier(S, R, x)) = k - 1
<1> DEFINE n == Cardinality(S)
           f == [x \in S |-> Cardinality(Earlier(S, R, x))]
<1>0. n \in Nat
  BY FS_CardinalityType
<1>1. n \in Nat /\ IsFiniteSet(0..(n - 1)) /\ Cardinality(0..(n - 1)) = n
  <2> HIDE DEF n, f
  <2>1. n - 1 \in Int
    BY <1>0
  <2>2. /\ IsFiniteSet(0..(n - 1))
        /\ Cardinality(0..(n - 1)) = IF 0 > n - 1 THEN 0 ELSE n - 1 - 0 + 1
    BY <2>1, FS_Interval
  <2> QED
    BY <1>0, <2>2
<1>2. f \in [S -> 0..(n - 1)]
  BY EarlierGrows
<1>3. ASSUME NEW x \in S, NEW y \in S, x # y PROVE f[x] # f[y]
  <2>1. f[x] = Cardinality(Earlier(S, R, x)) /\ f[y] = Cardinality(Earlier(S, R, y))
    OBVIOUS
  <2>2. f[x] \in Int /\ f[y] \in Int
    BY <1>1, <1>2
  <2>3. <<x, y>> \in R \/ <<y, x>> \in R
    BY <1>3 DEF StrictOrder
  <2>4. f[x] < f[y] \/ f[y] < f[x]
    BY <2>1, <2>3, EarlierGrows
  <2> HIDE DEF f
  <2> QED
    BY <2>2, <2>4
<1>4. f \in Injection(S, 0..(n - 1))
  BY <1>2, <1>3 DEF Injection, IsInjective
<1>5. f \in Surjection(S, 0..(n - 1))
  <2> HIDE DEF f
  <2> QED
    BY <1>1, <1>4, FS_Injection
<1>6. ASSUME NEW k \in 1..n PROVE \E x \in S : f[x] = k - 1
  <2>1. k - 1 \in 0..(n - 1)
    BY <1>1, <1>6
  <2> HIDE DEF f
  <2> QED
    BY <1>5, <2>1 DEF Surjection
<1> QED
  BY <1>6

\* Listed lists a finite set in order, without repetition.
LEMMA ListedIs ==
  ASSUME NEW S, IsFiniteSet(S), NEW R, StrictOrder(S, R)
  PROVE  /\ Cardinality(S) \in Nat
         /\ Listed(S, R) \in [1..Cardinality(S) -> S]
         /\ \A x \in S : \E k \in 1..Cardinality(S) : Listed(S, R)[k] = x
         /\ \A i, j \in 1..Cardinality(S) :
              i < j => <<Listed(S, R)[i], Listed(S, R)[j]>> \in R
<1> DEFINE n == Cardinality(S)
           l == Listed(S, R)
<1>1. n \in Nat
  BY FS_CardinalityType
<1>2. ASSUME NEW k \in 1..n PROVE l[k] \in S /\ Cardinality(Earlier(S, R, l[k])) = k - 1
  <2>1. l[k] = CHOOSE x \in S : Cardinality(Earlier(S, R, x)) = k - 1
    BY DEF Listed, Earlier
  <2>2. \E x \in S : Cardinality(Earlier(S, R, x)) = k - 1
    BY EveryRankTaken
  <2> QED
    BY <2>1, <2>2
<1>3. l \in [1..n -> S]
  <2> DEFINE before == [x \in S |-> Cardinality({y \in S : <<y, x>> \in R})]
             f == [k \in 1..n |-> CHOOSE x \in S : before[x] = k - 1]
  <2>1. l = f
    BY DEF Listed
  <2>2. \A k \in 1..n : f[k] \in S
    BY <1>2, <2>1
  <2> QED
    BY <2>1, <2>2
<1>4. ASSUME NEW x \in S PROVE \E k \in 1..n : l[k] = x
  <2> DEFINE c == Cardinality(Earlier(S, R, x))
  <2>1. c \in 0..(n - 1)
    BY EarlierGrows
  <2>2. c + 1 \in 1..n /\ (c + 1) - 1 = c
    BY <1>1, <2>1
  <2>3. l[c + 1] \in S /\ Cardinality(Earlier(S, R, l[c + 1])) = c
    BY <1>2, <2>2
  <2> HIDE DEF l
  <2>4. l[c + 1] = x
    <3> DEFINE y == l[c + 1]
    <3> HIDE DEF y
    <3>1. y \in S /\ Cardinality(Earlier(S, R, y)) = Cardinality(Earlier(S, R, x))
      BY <2>3 DEF y
    <3>2. Cardinality(Earlier(S, R, x)) \in Nat
      BY <2>1, <1>1
    <3>3. <<x, y>> \notin R /\ <<y, x>> \notin R
      BY <3>1, <3>2, EarlierGrows
    <3>4. y = x
      BY <3>1, <3>3 DEF StrictOrder
    <3> QED
      BY <3>4 DEF y
  <2> QED
    BY <2>2, <2>4
<1>5. ASSUME NEW i \in 1..n, NEW j \in 1..n, i < j PROVE <<l[i], l[j]>> \in R
  <2> HIDE DEF l
  <2>1. /\ l[i] \in S /\ Cardinality(Earlier(S, R, l[i])) = i - 1
        /\ l[j] \in S /\ Cardinality(Earlier(S, R, l[j])) = j - 1
    BY <1>2
  <2>2. l[i] # l[j]
    BY <1>1, <1>5, <2>1
  <2>3. <<l[j], l[i]>> \notin R
    <3>1. ~ (j - 1 < i - 1)
      BY <1>1, <1>5
    <3> QED
      BY <2>1, <3>1, EarlierGrows
  <2> QED
    BY <2>1, <2>2, <2>3 DEF StrictOrder
<1> QED
  BY <1>1, <1>3, <1>4, <1>5

\* Positions in their order.
LEMMA PositionsIs ==
  ASSUME NEW n \in Nat, NEW P \in SUBSET (1..n)
  PROVE  /\ Cardinality(P) \in Nat
         /\ Ascending(P) \in [1..Cardinality(P) -> P]
         /\ \A i \in P : \E k \in 1..Cardinality(P) : Ascending(P)[k] = i
         /\ \A i, j \in 1..Cardinality(P) : i < j => Ascending(P)[i] < Ascending(P)[j]
<1> DEFINE R == {p \in P \X P : p[1] < p[2]}
<1>1. Ascending(P) = Listed(P, R)
  BY DEF InOrder, Ascending
<1>2. IsFiniteSet(P)
  <2>1. IsFiniteSet(1..n)
    BY FS_Interval
  <2> QED
    BY <2>1, FS_Subset
<1>3. \A x, y \in P : <<x, y>> \in R <=> x < y
  OBVIOUS
<1> HIDE DEF R
<1>4. StrictOrder(P, R)
  BY <1>3 DEF StrictOrder
<1>5. /\ Cardinality(P) \in Nat
      /\ Listed(P, R) \in [1..Cardinality(P) -> P]
      /\ \A x \in P : \E k \in 1..Cardinality(P) : Listed(P, R)[k] = x
      /\ \A i, j \in 1..Cardinality(P) :
              i < j => <<Listed(P, R)[i], Listed(P, R)[j]>> \in R
  BY <1>2, <1>4, ListedIs
<1>6. \A i, j \in 1..Cardinality(P) : i < j => Listed(P, R)[i] < Listed(P, R)[j]
  BY <1>3, <1>5
<1> QED
  BY <1>1, <1>5, <1>6

\* What occurs in a sequence.
Has(s, x) == \E k \in DOMAIN s : s[k] = x

\* A subsequence holds what the sequence holds at its positions, the leftmost first.
LEMMA SubsequenceIs ==
  ASSUME NEW T, NEW s \in Seq(T), NEW P \in SUBSET DOMAIN s
  PROVE  /\ Subsequence(s, P) \in Seq(T)
         /\ \A x : Has(Subsequence(s, P), x) <=> \E i \in P : s[i] = x
         /\ P # {} => /\ Subsequence(s, P) # <<>>
                      /\ \E i \in P : /\ Subsequence(s, P)[1] = s[i]
                                      /\ \A j \in P : i <= j
<1> DEFINE n == Cardinality(P)
           o == Ascending(P)
           q == Subsequence(s, P)
<1>0. Len(s) \in Nat /\ DOMAIN s = 1..Len(s)
  OBVIOUS
<1>1. /\ n \in Nat
      /\ o \in [1..n -> P]
      /\ \A i \in P : \E k \in 1..n : o[k] = i
      /\ \A i, j \in 1..n : i < j => o[i] < o[j]
  BY <1>0, PositionsIs
<1>2. q = [k \in 1..n |-> s[o[k]]]
  BY DEF Subsequence
<1> HIDE DEF n, o, q
<1>3. \A k \in 1..n : o[k] \in P /\ s[o[k]] \in T
  BY <1>0, <1>1
<1>4. q \in Seq(T) /\ Len(q) = n /\ DOMAIN q = 1..n
  BY <1>1, <1>2, <1>3
<1>5. ASSUME NEW x PROVE Has(q, x) <=> \E i \in P : s[i] = x
  <2>1. ASSUME NEW k \in DOMAIN q, q[k] = x PROVE \E i \in P : s[i] = x
    BY <1>2, <1>3, <1>4, <2>1
  <2>2. ASSUME NEW i \in P, s[i] = x PROVE Has(q, x)
    BY <1>1, <1>2, <1>4, <2>2 DEF Has
  <2> QED
    BY <2>1, <2>2 DEF Has
<1>6. ASSUME P # {}
      PROVE  q # <<>> /\ \E i \in P : q[1] = s[i] /\ \A j \in P : i <= j
  <2>1. 1 \in 1..n
    BY <1>1, <1>6
  <2>2. q[1] = s[o[1]] /\ o[1] \in P
    BY <1>1, <1>2, <2>1
  <2>3. ASSUME NEW j \in P PROVE o[1] <= j
    <3>1. PICK k \in 1..n : o[k] = j
      BY <1>1
    <3>2. k = 1 \/ o[1] < o[k]
      BY <1>1, <2>1
    <3>3. o[1] \in Int /\ j \in Int
      BY <1>0, <2>2
    <3> QED
      BY <3>1, <3>2, <3>3
  <2>4. q # <<>>
    BY <1>1, <1>4, <2>1
  <2> QED
    BY <2>2, <2>3, <2>4
<1> QED
  BY <1>4, <1>5, <1>6 DEF q

\* Taken in the order R of its positions a sequence keeps its elements.
LEMMA Permuted ==
  ASSUME NEW T, NEW s \in Seq(T), NEW R, StrictOrder(DOMAIN s, R),
         NEW q, q = [k \in DOMAIN s |-> s[Listed(DOMAIN s, R)[k]]]
  PROVE  q \in Seq(T) /\ Len(q) = Len(s) /\ \A x : Has(q, x) <=> Has(s, x)
<1>0. Len(s) \in Nat /\ DOMAIN s = 1..Len(s) /\ \A i \in DOMAIN s : s[i] \in T
  OBVIOUS
<1>1. IsFiniteSet(DOMAIN s) /\ Cardinality(DOMAIN s) = Len(s)
  <2> DEFINE n == Len(s)
  <2> HIDE DEF n
  <2>1. 1 \in Int /\ n \in Int
    BY <1>0 DEF n
  <2>2. IsFiniteSet(1..n) /\ Cardinality(1..n) = IF 1 > n THEN 0 ELSE n - 1 + 1
    BY <2>1, FS_Interval
  <2>3. n \in Nat
    BY <1>0 DEF n
  <2>4. Cardinality(1..n) = n
    BY <2>2, <2>3
  <2> QED
    BY <1>0, <2>2, <2>4 DEF n
<1> DEFINE o == Listed(DOMAIN s, R)
<1>2. /\ o \in [1..Len(s) -> DOMAIN s]
      /\ \A x \in DOMAIN s : \E k \in 1..Len(s) : o[k] = x
  BY <1>1, ListedIs
<1> HIDE DEF o
<1>3. q = [k \in DOMAIN s |-> s[o[k]]]
  BY DEF o
<1>4. DOMAIN q = 1..Len(s) /\ \A k \in 1..Len(s) : q[k] = s[o[k]] /\ q[k] \in T
  BY <1>0, <1>2, <1>3
<1>5. q \in Seq(T) /\ Len(q) = Len(s)
  BY <1>0, <1>3, <1>4
<1>6. ASSUME NEW x PROVE Has(q, x) <=> Has(s, x)
  <2>1. ASSUME NEW k \in DOMAIN q, q[k] = x PROVE Has(s, x)
    <3>1. o[k] \in DOMAIN s /\ s[o[k]] = x
      BY <1>2, <1>4, <2>1
    <3> QED
      BY <3>1 DEF Has
  <2>2. ASSUME NEW i \in DOMAIN s, s[i] = x PROVE Has(q, x)
    <3>1. PICK k \in 1..Len(s) : o[k] = i
      BY <1>2
    <3>2. k \in DOMAIN q /\ q[k] = x
      BY <1>4, <2>2, <3>1
    <3> QED
      BY <3>2 DEF Has
  <2> QED
    BY <2>1, <2>2 DEF Has
<1> QED
  BY <1>5, <1>6

(***************************************************************************)
(* FlattenSeq.                                                             *)
(***************************************************************************)
\* f is the table FlattenSeq chooses.
FlatTable(f, ss, n) ==
  f = [i \in 1..n |-> IF i = 1 THEN ss[i] ELSE f[i - 1] \o ss[i]]

\* The flattening of a prefix can be extended to the whole.
LEMMA FlatTableExists ==
  ASSUME NEW ss, NEW m \in Nat
  PROVE  \E f : FlatTable(f, ss, m)
<1> DEFINE T == {n \in Nat : \E f : FlatTable(f, ss, n)}
<1>1. 0 \in T
  <2> DEFINE f == [i \in 1..0 |-> ss[i]]
  <2>1. f = [i \in 1..0 |-> IF i = 1 THEN ss[i] ELSE f[i - 1] \o ss[i]]
    OBVIOUS
  <2> HIDE DEF f
  <2>2. FlatTable(f, ss, 0)
    BY <2>1 DEF FlatTable
  <2> QED
    BY <2>2
<1>2. ASSUME NEW n \in Nat, n \in T PROVE n + 1 \in T
  <2>1. PICK f : FlatTable(f, ss, n)
    BY <1>2
  <2> DEFINE last == IF n + 1 = 1 THEN ss[n + 1] ELSE f[n] \o ss[n + 1]
             g == [i \in 1..(n + 1) |-> IF i = n + 1 THEN last ELSE f[i]]
             h == [i \in 1..(n + 1) |-> IF i = 1 THEN ss[i] ELSE g[i - 1] \o ss[i]]
  <2>2. \A i \in 1..n : f[i] = IF i = 1 THEN ss[i] ELSE f[i - 1] \o ss[i]
    BY <2>1 DEF FlatTable
  <2>3. ASSUME NEW i \in 1..(n + 1) PROVE g[i] = h[i]
    <3>1. CASE i = n + 1
      <4>1. n # 0 => g[n] = f[n]
        OBVIOUS
      <4>2. g[i] = last /\ i - 1 = n
        BY <3>1
      <4> QED
        BY <3>1, <4>1, <4>2
    <3>2. CASE i # n + 1
      <4>1. i \in 1..n /\ g[i] = f[i]
        BY <3>2
      <4>2. i # 1 => i - 1 \in 1..(n + 1) /\ i - 1 # n + 1
        BY <4>1
      <4>3. i # 1 => g[i - 1] = f[i - 1]
        BY <4>2
      <4> QED
        BY <2>2, <4>1, <4>3
    <3> QED
      BY <3>1, <3>2
  <2>4. g = h
    BY <2>3
  <2>5. FlatTable(g, ss, n + 1)
    BY <2>4 DEF FlatTable
  <2> HIDE DEF g
  <2> QED
    BY <2>5
<1>3. Nat \subseteq T
  <2> HIDE DEF T
  <2> QED
    BY <1>1, <1>2, Inductive
<1> QED
  BY <1>3

\* A flattened sequence of sequences has their elements.
LEMMA FlattenIs ==
  ASSUME NEW T, NEW ss \in Seq(Seq(T))
  PROVE  /\ FlattenSeq(ss) \in Seq(T)
         /\ \A x : Has(FlattenSeq(ss), x) <=> \E k \in DOMAIN ss : Has(ss[k], x)
<1> DEFINE n == Len(ss)
<1>0. n \in Nat /\ DOMAIN ss = 1..n /\ \A k \in 1..n : ss[k] \in Seq(T)
  OBVIOUS
<1>1. CASE n = 0
  <2>1. FlattenSeq(ss) = <<>> /\ ss = <<>>
    BY <1>1 DEF FlattenSeq
  <2> QED
    BY <2>1 DEF Has
<1>2. CASE n # 0
  <2> DEFINE f == CHOOSE f : f = [i \in 1..n |-> IF i = 1 THEN ss[i] ELSE f[i - 1] \o ss[i]]
  <2>1. FlattenSeq(ss) = f[n]
    BY <1>2 DEF FlattenSeq
  <2>2. FlatTable(f, ss, n)
    <3>1. \E g : g = [i \in 1..n |-> IF i = 1 THEN ss[i] ELSE g[i - 1] \o ss[i]]
      BY <1>0, FlatTableExists DEF FlatTable
    <3> QED
      BY <3>1 DEF FlatTable
  <2> HIDE DEF f, n
  <2>3. \A i \in 1..n : f[i] = IF i = 1 THEN ss[i] ELSE f[i - 1] \o ss[i]
    BY <2>2 DEF FlatTable
  <2> DEFINE Good(i) == f[i] \in Seq(T) /\ \A x : Has(f[i], x) <=> \E k \in 1..i : Has(ss[k], x)
             G == {i \in Nat : i \in 1..n => Good(i)}
  <2>4. 0 \in G
    BY <1>0
  <2>5. ASSUME NEW i \in Nat, i \in G PROVE i + 1 \in G
    <3> SUFFICES ASSUME i + 1 \in 1..n PROVE Good(i + 1)
      OBVIOUS
    <3>1. ss[i + 1] \in Seq(T)
      BY <1>0
    <3>2. CASE i = 0
      <4>1. f[i + 1] = ss[1]
        BY <2>3, <3>2
      <4>2. 1..(i + 1) = {1}
        BY <3>2
      <4> QED
        BY <3>1, <3>2, <4>1, <4>2
    <3>3. CASE i # 0
      <4>1. i \in 1..n
        BY <1>0, <3>3
      <4>2. Good(i)
        BY <2>5, <4>1
      <4>3. f[i + 1] = f[i] \o ss[i + 1]
        <5>1. i + 1 # 1 /\ (i + 1) - 1 = i
          BY <3>3
        <5> QED
          BY <2>3, <5>1
      <4> DEFINE a == f[i]
                 b == ss[i + 1]
      <4>4. a \in Seq(T) /\ b \in Seq(T)
        BY <3>1, <4>2
      <4> HIDE DEF a, b
      <4>5. a \o b \in Seq(T)
        BY <4>4
      <4>6. \A x : Has(a \o b, x) <=> Has(a, x) \/ Has(b, x)
        <5>1. /\ DOMAIN a = 1..Len(a) /\ DOMAIN b = 1..Len(b) /\ DOMAIN (a \o b) = 1..(Len(a) + Len(b))
              /\ Len(a) \in Nat /\ Len(b) \in Nat
              /\ \A k \in 1..Len(a) : (a \o b)[k] = a[k]
              /\ \A k \in 1..Len(b) : (a \o b)[Len(a) + k] = b[k]
          BY <4>4
        <5>2. ASSUME NEW x, Has(a \o b, x) PROVE Has(a, x) \/ Has(b, x)
          <6>1. PICK k \in 1..(Len(a) + Len(b)) : (a \o b)[k] = x
            BY <5>1, <5>2 DEF Has
          <6>2. k \in 1..Len(a) \/ (k - Len(a) \in 1..Len(b) /\ Len(a) + (k - Len(a)) = k)
            BY <5>1
          <6> QED
            BY <5>1, <6>1, <6>2 DEF Has
        <5>3. ASSUME NEW x, Has(a, x) PROVE Has(a \o b, x)
          BY <5>1, <5>3 DEF Has
        <5>4. ASSUME NEW x, Has(b, x) PROVE Has(a \o b, x)
          <6>1. PICK k \in 1..Len(b) : b[k] = x
            BY <5>1, <5>4 DEF Has
          <6>2. Len(a) + k \in 1..(Len(a) + Len(b))
            BY <5>1
          <6> QED
            BY <5>1, <6>1, <6>2 DEF Has
        <5> QED
          BY <5>2, <5>3, <5>4
      <4>7. \A k : k \in 1..(i + 1) <=> k \in 1..i \/ k = i + 1
        OBVIOUS
      <4>8. \A x : Has(a, x) <=> \E k \in 1..i : Has(ss[k], x)
        BY <4>2 DEF a
      <4>9. f[i + 1] = a \o b /\ b = ss[i + 1]
        BY <4>3 DEF a, b
      <4>10. \A x : Has(f[i + 1], x) <=> \E k \in 1..(i + 1) : Has(ss[k], x)
        BY <4>6, <4>7, <4>8, <4>9
      <4> QED
        BY <4>5, <4>9, <4>10
    <3> QED
      BY <3>2, <3>3
  <2>6. Nat \subseteq G
    <3> HIDE DEF G
    <3> QED
      BY <2>4, <2>5, Inductive
  <2>7. n \in Nat /\ n \in 1..n
    BY <1>0, <1>2
  <2>8. Good(n)
    BY <2>6, <2>7
  <2> QED
    BY <1>0, <2>1, <2>8
<1> QED
  BY <1>1, <1>2

(***************************************************************************)
(* FoldLeft.                                                               *)
(***************************************************************************)
\* A set of integers that is bounded above has its maximum as a member.
LEMMA MaxIs ==
  ASSUME NEW b \in Int, NEW S \in SUBSET Int, S # {}, \A x \in S : x <= b
  PROVE  Max(S) \in S /\ \A x \in S : x <= Max(S)
<1> DEFINE T == {b - x : x \in S}
<1>1. T \in SUBSET Nat /\ T # {}
  <2>1. \A x \in S : b - x \in Nat
    OBVIOUS
  <2>2. T \in SUBSET Nat
    BY <2>1
  <2>3. T # {}
    OBVIOUS
  <2> QED
    BY <2>2, <2>3
<1>2. PICK m \in T : \A y \in T : m <= y
  <2> HIDE DEF T
  <2> QED
    BY <1>1, LeastNatural
<1>3. PICK x \in S : m = b - x
  OBVIOUS
<1>4. ASSUME NEW y \in S PROVE y <= x
  <2>1. m <= b - y
    BY <1>2
  <2> QED
    BY <1>3, <2>1
<1>5. \E z \in S : \A y \in S : z >= y
  BY <1>4
<1> HIDE DEF T
<1>6. Max(S) \in S /\ \A y \in S : Max(S) >= y
  BY <1>5 DEF Max
<1> QED
  BY <1>6

\* A set of integers that is bounded below has its minimum as a member.
LEMMA MinIs ==
  ASSUME NEW b \in Int, NEW S \in SUBSET Int, S # {}, \A x \in S : b <= x
  PROVE  Min(S) \in S /\ \A x \in S : Min(S) <= x
<1> DEFINE T == {x - b : x \in S}
<1>1. T \in SUBSET Nat /\ T # {}
  <2>1. \A x \in S : x - b \in Nat
    OBVIOUS
  <2>2. T \in SUBSET Nat
    BY <2>1
  <2>3. T # {}
    OBVIOUS
  <2> QED
    BY <2>2, <2>3
<1>2. PICK m \in T : \A y \in T : m <= y
  <2> HIDE DEF T
  <2> QED
    BY <1>1, LeastNatural
<1>3. PICK x \in S : m = x - b
  OBVIOUS
<1>4. ASSUME NEW y \in S PROVE x <= y
  <2>1. m <= y - b
    BY <1>2
  <2> QED
    BY <1>3, <2>1
<1>5. \E z \in S : \A y \in S : z <= y
  BY <1>4
<1> HIDE DEF T
<1> QED
  BY <1>5 DEF Min

\* The last of the first i positions is i.
LEMMA MaxPrefix ==
  ASSUME NEW i \in Nat \ {0}
  PROVE  Max(1..i) = i /\ (1..i) \ {i} = 1..(i - 1)
<1>1. Max(1..i) \in 1..i /\ \A x \in 1..i : x <= Max(1..i)
  <2>1. i \in Int /\ (1..i) \in SUBSET Int /\ 1..i # {} /\ \A x \in 1..i : x <= i
    OBVIOUS
  <2> DEFINE S == 1..i
  <2>2. S \in SUBSET Int /\ S # {} /\ \A x \in S : x <= i
    BY <2>1
  <2> HIDE DEF S
  <2>3. Max(S) \in S /\ \A x \in S : x <= Max(S)
    BY <2>1, <2>2, MaxIs
  <2> QED
    BY <2>3 DEF S
<1>2. Max(1..i) = i
  BY <1>1
<1> QED
  BY <1>2

\* A set of positions that has the last has it for its maximum.
LEMMA GreatestIsMax ==
  ASSUME NEW k \in Nat, NEW s \in SUBSET (1..(k + 1)), k + 1 \in s
  PROVE  Max(s) = k + 1
<1> DEFINE n == k + 1
<1>1. n \in Int /\ s \in SUBSET Int /\ s # {} /\ n \in s /\ \A x \in s : x <= n /\ x \in Int
  OBVIOUS
<1> HIDE DEF n
<1>2. Max(s) \in s /\ \A x \in s : x <= Max(s)
  BY <1>1, MaxIs
<1>3. Max(s) = n
  <2>1. Max(s) \in Int /\ Max(s) <= n /\ n <= Max(s)
    BY <1>1, <1>2
  <2> QED
    BY <1>1, <2>1
<1> QED
  BY <1>3 DEF n

\* A fold from left to right is a table over the sets of positions.
FoldLeftTable(F, n, T, base, op) ==
  /\ F \in [SUBSET (1..n) -> T]
  /\ \A s \in SUBSET (1..n) : F[s] = IF s = {} THEN base ELSE op[Max(s)][F[s \ {Max(s)}]]

\* The intermediate results of a fold make up a table.
LEMMA FoldExists ==
  ASSUME NEW n \in Nat, NEW T, NEW base \in T, NEW op \in [1..n -> [T -> T]]
  PROVE  \E F : FoldLeftTable(F, n, T, base, op)
<1> DEFINE Table(F, k) == FoldLeftTable(F, k, T, base, op)
           N == {k \in Nat : k <= n => \E F : Table(F, k)}
<1>1. 0 \in N
  <2> DEFINE F == [s \in SUBSET (1..0) |-> base]
  <2>1. SUBSET (1..0) = {{}}
    OBVIOUS
  <2>2. F \in [SUBSET (1..0) -> T]
    OBVIOUS
  <2>3. \A s \in SUBSET (1..0) : F[s] = base /\ s = {}
    BY <2>1
  <2> HIDE DEF F
  <2>4. Table(F, 0)
    BY <2>2, <2>3 DEF FoldLeftTable
  <2> HIDE DEF Table
  <2> QED
    BY <2>4
<1>2. ASSUME NEW k \in Nat, k \in N, k + 1 <= n PROVE \E F : Table(F, k + 1)
  <2>1. PICK F : Table(F, k)
    <3>1. k <= n
      BY <1>2
    <3> QED
      BY <1>2, <3>1
  <2> DEFINE G == [s \in SUBSET (1..(k + 1)) |->
                     IF k + 1 \in s THEN op[k + 1][F[s \ {k + 1}]] ELSE F[s]]
  <2>2. ASSUME NEW s \in SUBSET (1..(k + 1))
        PROVE  s \ {k + 1} \in SUBSET (1..k)
    OBVIOUS
  <2>3. k + 1 \in 1..n
    BY <1>2
  <2>4. op[k + 1] \in [T -> T]
    BY <2>3
  <2>5. ASSUME NEW s \in SUBSET (1..(k + 1)) PROVE G[s] \in T
    <3>1. F[s \ {k + 1}] \in T
      BY <2>1, <2>2 DEF FoldLeftTable
    <3>2. CASE k + 1 \in s
      <4>1. op[k + 1][F[s \ {k + 1}]] \in T
        BY <2>4, <3>1
      <4> QED
        BY <3>2, <4>1
    <3>3. CASE k + 1 \notin s
      <4>1. s \ {k + 1} = s
        BY <3>3
      <4> QED
        BY <3>1, <3>3, <4>1
    <3> QED
      BY <3>2, <3>3
  <2>6. G \in [SUBSET (1..(k + 1)) -> T]
    BY <2>5
  <2>7. \A s \in SUBSET (1..k) : G[s] = F[s] /\ s \in SUBSET (1..(k + 1))
    OBVIOUS
  <2>8. \A s \in SUBSET (1..(k + 1)) : k + 1 \in s => G[s] = op[k + 1][F[s \ {k + 1}]]
    OBVIOUS
  <2> HIDE DEF G
  <2>9. ASSUME NEW s \in SUBSET (1..(k + 1))
        PROVE  G[s] = IF s = {} THEN base ELSE op[Max(s)][G[s \ {Max(s)}]]
    <3>1. CASE k + 1 \in s
      <4>2. Max(s) = k + 1
        BY <3>1, GreatestIsMax
      <4>3. G[s \ {k + 1}] = F[s \ {k + 1}]
        BY <2>2, <2>7
      <4> QED
        BY <2>8, <3>1, <4>2, <4>3
    <3>2. CASE k + 1 \notin s
      <4>1. s \in SUBSET (1..k)
        BY <3>2
      <4>2. s \ {Max(s)} \in SUBSET (1..k)
        BY <4>1
      <4>3. F[s] = IF s = {} THEN base ELSE op[Max(s)][F[s \ {Max(s)}]]
        BY <2>1, <4>1 DEF FoldLeftTable
      <4>4. G[s] = F[s] /\ G[s \ {Max(s)}] = F[s \ {Max(s)}]
        BY <2>7, <4>1, <4>2
      <4> QED
        BY <4>3, <4>4
    <3> QED
      BY <3>1, <3>2
  <2>10. Table(G, k + 1)
    BY <2>6, <2>9 DEF FoldLeftTable
  <2> HIDE DEF Table
  <2> QED
    BY <2>10
<1>3. n \in N
  <2> HIDE DEF N
  <2>0. \A k \in Nat : k \in N => k + 1 \in N
    <3> HIDE DEF Table
    <3> QED
      BY <1>2 DEF N
  <2>1. Nat \subseteq N
    BY <1>1, <2>0, Inductive
  <2> QED
    BY <2>1
<1>4. n <= n
  OBVIOUS
<1> QED
  BY <1>3, <1>4

(***************************************************************************)
(* Texts in the order of sort.Strings.                                     *)
(***************************************************************************)
Agree(s, t, k) == \A j \in 1..k : s[j] = t[j]

\* Two prefixes are equal if they agree at each position.
LEMMA PrefixesAgree ==
  ASSUME NEW s \in Seq(Nat), NEW t \in Seq(Nat), NEW k \in Nat, k <= Len(s), k <= Len(t)
  PROVE  SubSeq(s, 1, k) = SubSeq(t, 1, k) <=> Agree(s, t, k)
<1>1. /\ SubSeq(s, 1, k) \in Seq(Nat) /\ Len(SubSeq(s, 1, k)) = k
      /\ SubSeq(t, 1, k) \in Seq(Nat) /\ Len(SubSeq(t, 1, k)) = k
      /\ \A j \in 1..k : SubSeq(s, 1, k)[j] = s[j] /\ SubSeq(t, 1, k)[j] = t[j]
  OBVIOUS
<1> DEFINE p == SubSeq(s, 1, k)
           q == SubSeq(t, 1, k)
<1>2. /\ p \in Seq(Nat) /\ Len(p) = k /\ q \in Seq(Nat) /\ Len(q) = k
      /\ \A j \in 1..k : p[j] = s[j] /\ q[j] = t[j]
  BY <1>1
<1> HIDE DEF p, q
<1>3. ASSUME Agree(s, t, k) PROVE p = q
  <2>1. \A j \in 1..k : p[j] = q[j]
    BY <1>2, <1>3 DEF Agree
  <2>2. p = [j \in 1..k |-> p[j]] /\ q = [j \in 1..k |-> q[j]]
    BY <1>2
  <2>3. [j \in 1..k |-> p[j]] = [j \in 1..k |-> q[j]]
    BY <2>1
  <2> QED
    BY <2>2, <2>3
<1>4. ASSUME p = q PROVE Agree(s, t, k)
  BY <1>2, <1>4 DEF Agree
<1> QED
  BY <1>3, <1>4 DEF p, q

\* Where s first differs from t, or ends before it.
PrecedesAt(s, t, i) ==
  /\ Agree(s, t, i - 1)
  /\ \/ i \in 1..Len(s) /\ i \in 1..Len(t) /\ s[i] < t[i]
     \/ i = Len(s) + 1 /\ i \in 1..Len(t)

\* The order of sort.Strings, by the first position where two texts differ.
LEMMA PrecedesIs ==
  ASSUME NEW s \in Seq(Nat), NEW t \in Seq(Nat)
  PROVE  Precedes(s, t) <=> \E i \in Nat \ {0} : PrecedesAt(s, t, i)
<1>0. Len(s) \in Nat /\ Len(t) \in Nat /\ DOMAIN s = 1..Len(s) /\ DOMAIN t = 1..Len(t)
  OBVIOUS
<1>1. ASSUME Len(s) < Len(t), IsPrefix(s, t) PROVE \E i \in Nat \ {0} : PrecedesAt(s, t, i)
  <2>1. SubSeq(s, 1, Len(s)) = SubSeq(t, 1, Len(s))
    BY <1>1 DEF IsPrefix
  <2>2. Len(s) <= Len(s) /\ Len(s) <= Len(t)
    BY <1>0, <1>1
  <2>3. Agree(s, t, Len(s))
    BY <1>0, <2>1, <2>2, PrefixesAgree
  <2>4. PrecedesAt(s, t, Len(s) + 1)
    <3>1. (Len(s) + 1) - 1 = Len(s) /\ Len(s) + 1 \in 1..Len(t)
      BY <1>0, <1>1
    <3> QED
      BY <2>3, <3>1 DEF PrecedesAt
  <2> QED
    BY <1>0, <2>4
<1>2. ASSUME NEW i \in 1..Len(s), i \in 1..Len(t)
      PROVE  SubSeq(s, 1, i - 1) = SubSeq(t, 1, i - 1) <=> Agree(s, t, i - 1)
  <2>1. i - 1 \in Nat /\ i - 1 <= Len(s) /\ i - 1 <= Len(t)
    BY <1>0, <1>2
  <2> QED
    BY <2>1, PrefixesAgree
<1>3. ASSUME NEW i \in DOMAIN s \cap DOMAIN t, SubSeq(s, 1, i - 1) = SubSeq(t, 1, i - 1), s[i] < t[i]
      PROVE  \E j \in Nat \ {0} : PrecedesAt(s, t, j)
  <2>1. i \in 1..Len(s) /\ i \in 1..Len(t) /\ i \in Nat \ {0}
    BY <1>0
  <2> QED
    BY <1>2, <1>3, <2>1 DEF PrecedesAt
<1>4. ASSUME NEW i \in Nat \ {0}, PrecedesAt(s, t, i) PROVE Precedes(s, t)
  <2>1. CASE i \in 1..Len(s) /\ i \in 1..Len(t) /\ s[i] < t[i]
    <3>1. SubSeq(s, 1, i - 1) = SubSeq(t, 1, i - 1)
      BY <1>2, <1>4, <2>1 DEF PrecedesAt
    <3> QED
      BY <1>0, <2>1, <3>1 DEF Precedes
  <2>2. CASE i = Len(s) + 1 /\ i \in 1..Len(t)
    <3>1. Len(s) <= Len(s) /\ Len(s) <= Len(t) /\ Len(s) < Len(t) /\ i - 1 = Len(s)
      BY <1>0, <2>2
    <3>2. SubSeq(s, 1, Len(s)) = SubSeq(t, 1, Len(s))
      BY <1>0, <1>4, <3>1, PrefixesAgree DEF PrecedesAt
    <3> QED
      BY <3>1, <3>2 DEF Precedes, IsPrefix
  <2> QED
    BY <1>4, <2>1, <2>2 DEF PrecedesAt
<1> QED
  BY <1>1, <1>3, <1>4 DEF Precedes

\* Precedes is a strict total order of the texts.
LEMMA PrecedesOrders ==
  ASSUME NEW S \in SUBSET Seq(Nat), NEW R,
         \A s, t \in S : <<s, t>> \in R <=> Precedes(s, t)
  PROVE  StrictOrder(S, R)
<1>1. ASSUME NEW s \in S PROVE <<s, s>> \notin R
  <2> SUFFICES ASSUME NEW i \in Nat \ {0}, PrecedesAt(s, s, i) PROVE FALSE
    BY PrecedesIs
  <2>1. s \in Seq(Nat) /\ Len(s) \in Nat /\ \A j \in 1..Len(s) : s[j] \in Nat
    OBVIOUS
  <2>2. ~ (i = Len(s) + 1 /\ i \in 1..Len(s))
    BY <2>1
  <2>3. i \in 1..Len(s) /\ s[i] < s[i]
    BY <2>2 DEF PrecedesAt
  <2> QED
    BY <2>1, <2>3
<1>2. ASSUME NEW s \in S, NEW t \in S, NEW u \in S, <<s, t>> \in R, <<t, u>> \in R
      PROVE  <<s, u>> \in R
  <2>0. /\ s \in Seq(Nat) /\ Len(s) \in Nat /\ \A j \in 1..Len(s) : s[j] \in Nat
        /\ t \in Seq(Nat) /\ Len(t) \in Nat /\ \A j \in 1..Len(t) : t[j] \in Nat
        /\ u \in Seq(Nat) /\ Len(u) \in Nat /\ \A j \in 1..Len(u) : u[j] \in Nat
    OBVIOUS
  <2>1. PICK i \in Nat \ {0} : PrecedesAt(s, t, i)
    BY <1>2, PrecedesIs
  <2>2. PICK k \in Nat \ {0} : PrecedesAt(t, u, k)
    BY <1>2, PrecedesIs
  <2>3. CASE i < k
    <3>1. Agree(s, u, i - 1)
      BY <2>1, <2>2, <2>3 DEF PrecedesAt, Agree
    <3>2. t[i] = u[i]
      <4>1. i \in 1..(k - 1)
        BY <2>3
      <4> QED
        BY <2>2, <4>1 DEF PrecedesAt, Agree
    <3>3. i \in 1..Len(u)
      BY <2>0, <2>2, <2>3 DEF PrecedesAt
    <3>4. PrecedesAt(s, u, i)
      BY <2>1, <3>1, <3>2, <3>3 DEF PrecedesAt
    <3> QED
      BY <1>2, <3>4, PrecedesIs
  <2>4. CASE i = k
    <3>1. Agree(s, u, i - 1)
      BY <2>1, <2>2, <2>4 DEF PrecedesAt, Agree
    <3>2. i \in 1..Len(t)
      BY <2>1 DEF PrecedesAt
    <3>3. i \in 1..Len(u) /\ t[i] < u[i]
      BY <2>0, <2>2, <2>4, <3>2 DEF PrecedesAt
    <3>4. i \in 1..Len(s) => s[i] < u[i]
      <4>1. i \in 1..Len(s) => s[i] < t[i]
        BY <2>0, <2>1 DEF PrecedesAt
      <4>2. i \in 1..Len(s) => s[i] \in Nat /\ t[i] \in Nat /\ u[i] \in Nat
        BY <2>0, <3>2, <3>3
      <4> QED
        BY <3>3, <4>1, <4>2
    <3>5. PrecedesAt(s, u, i)
      BY <2>1, <3>1, <3>3, <3>4 DEF PrecedesAt
    <3> QED
      BY <1>2, <3>5, PrecedesIs
  <2>5. CASE k < i
    <3>1. Agree(s, u, k - 1)
      BY <2>1, <2>2, <2>5 DEF PrecedesAt, Agree
    <3>2. k \in 1..(i - 1) /\ s[k] = t[k]
      BY <2>1, <2>5 DEF PrecedesAt, Agree
    <3>3. k \in 1..Len(s) /\ k \in 1..Len(t)
      BY <2>0, <2>1, <2>5 DEF PrecedesAt
    <3>4. k \in 1..Len(u) /\ t[k] < u[k]
      BY <2>0, <2>2, <3>3 DEF PrecedesAt
    <3>5. PrecedesAt(s, u, k)
      BY <3>1, <3>2, <3>3, <3>4 DEF PrecedesAt
    <3> QED
      BY <1>2, <3>5, PrecedesIs
  <2> QED
    BY <2>3, <2>4, <2>5
<1>3. ASSUME NEW s \in S, NEW t \in S, s # t PROVE <<s, t>> \in R \/ <<t, s>> \in R
  <2>0. /\ s \in Seq(Nat) /\ Len(s) \in Nat /\ \A j \in 1..Len(s) : s[j] \in Nat
        /\ t \in Seq(Nat) /\ Len(t) \in Nat /\ \A j \in 1..Len(t) : t[j] \in Nat
    OBVIOUS
  <2> DEFINE D == {i \in Nat \ {0} : \/ i \in 1..Len(s) /\ i \in 1..Len(t) /\ s[i] # t[i]
                                     \/ i = Len(s) + 1 /\ i \in 1..Len(t)
                                     \/ i = Len(t) + 1 /\ i \in 1..Len(s)}
  <2>1. D # {}
    <3>1. CASE Len(s) < Len(t)
      <4>1. Len(s) + 1 \in D
        BY <2>0, <3>1
      <4> QED
        BY <4>1
    <3>2. CASE Len(t) < Len(s)
      <4>1. Len(t) + 1 \in D
        BY <2>0, <3>2
      <4> QED
        BY <4>1
    <3>3. CASE Len(t) = Len(s)
      <4>1. \E j \in 1..Len(s) : s[j] # t[j]
        BY <1>3, <2>0, <3>3
      <4> QED
        BY <3>3, <4>1
    <3> QED
      BY <2>0, <3>1, <3>2, <3>3
  <2>2. PICK i \in D : \A j \in D : i <= j
    <3>1. D \in SUBSET Nat
      OBVIOUS
    <3> HIDE DEF D
    <3> QED
      BY <2>1, <3>1, LeastNatural
  <2>3. Agree(s, t, i - 1) /\ Agree(t, s, i - 1)
    <3> SUFFICES ASSUME NEW j \in 1..(i - 1) PROVE s[j] = t[j]
      BY DEF Agree
    <3>1. j \in Nat \ {0} /\ j < i
      OBVIOUS
    <3>2. j \notin D
      <4> HIDE DEF D
      <4>1. i \in Nat
        BY DEF D
      <4> QED
        BY <2>2, <3>1, <4>1
    <3>3. j \in 1..Len(s) /\ j \in 1..Len(t)
      BY <2>0, <3>1
    <3> QED
      BY <3>1, <3>2, <3>3
  <2>4. PrecedesAt(s, t, i) \/ PrecedesAt(t, s, i)
    <3>1. CASE i \in 1..Len(s) /\ i \in 1..Len(t) /\ s[i] # t[i]
      <4>1. s[i] < t[i] \/ t[i] < s[i]
        BY <2>0, <3>1
      <4> QED
        BY <2>3, <3>1, <4>1 DEF PrecedesAt
    <3>2. CASE i = Len(s) + 1 /\ i \in 1..Len(t)
      BY <2>3, <3>2 DEF PrecedesAt
    <3>3. CASE i = Len(t) + 1 /\ i \in 1..Len(s)
      BY <2>3, <3>3 DEF PrecedesAt
    <3> QED
      BY <3>1, <3>2, <3>3
  <2>5. i \in Nat \ {0}
    OBVIOUS
  <2> HIDE DEF D
  <2> QED
    BY <2>4, <2>5, PrecedesIs
<1> QED
  BY <1>1, <1>2, <1>3 DEF StrictOrder

(***************************************************************************)
(* Functions defined by recursion on the naturals.                         *)
(***************************************************************************)
\* F is built from base by the steps op[1], op[2], ..., and F[k] is in T[k].
BuiltUp(F, n, T, base, op) ==
  /\ F = [k \in 0..n |-> IF k = 0 THEN base ELSE op[k][F[k - 1]]]
  /\ \A k \in 0..n : F[k] \in T[k]

\* What is defined by recursion on the naturals has a table of its values.
LEMMA BuiltUpExists ==
  ASSUME NEW m \in Nat, NEW T, NEW base, base \in T[0],
         NEW op, \A k \in 1..m : op[k] \in [T[k - 1] -> T[k]]
  PROVE  \E F : BuiltUp(F, m, T, base, op)
<1> DEFINE N == {n \in Nat : n <= m => \E F : BuiltUp(F, n, T, base, op)}
<1>1. 0 \in N
  <2> DEFINE F == [k \in 0..0 |-> base]
             G == [k \in 0..0 |-> IF k = 0 THEN base ELSE op[k][F[k - 1]]]
  <2>1. F = G /\ \A k \in 0..0 : F[k] = base /\ k = 0
    OBVIOUS
  <2>2. BuiltUp(F, 0, T, base, op)
    BY <2>1 DEF BuiltUp
  <2> HIDE DEF F
  <2> QED
    BY <2>2
<1>2. ASSUME NEW n \in Nat, n \in N, n + 1 <= m PROVE \E F : BuiltUp(F, n + 1, T, base, op)
  <2>1. PICK F : BuiltUp(F, n, T, base, op)
    <3>1. n <= m
      BY <1>2
    <3> QED
      BY <1>2, <3>1
  <2> DEFINE G == [k \in 0..(n + 1) |-> IF k = n + 1 THEN op[n + 1][F[n]] ELSE F[k]]
             H == [k \in 0..(n + 1) |-> IF k = 0 THEN base ELSE op[k][G[k - 1]]]
  <2>2. \A k \in 0..n : F[k] \in T[k] /\ F[k] = IF k = 0 THEN base ELSE op[k][F[k - 1]]
    BY <2>1 DEF BuiltUp
  <2>3. op[n + 1] \in [T[n] -> T[n + 1]]
    <3>1. n + 1 \in 1..m /\ (n + 1) - 1 = n
      BY <1>2
    <3> QED
      BY <3>1
  <2>4. op[n + 1][F[n]] \in T[n + 1]
    BY <2>2, <2>3
  <2>5. ASSUME NEW k \in 0..(n + 1) PROVE G[k] \in T[k] /\ G[k] = H[k]
    <3>1. CASE k = n + 1
      <4>1. k # 0 /\ k - 1 = n /\ n # n + 1 /\ n \in 0..(n + 1)
        BY <3>1
      <4>2. G[k - 1] = F[n]
        BY <4>1
      <4> QED
        BY <2>4, <3>1, <4>1, <4>2
    <3>2. CASE k # n + 1
      <4>1. k \in 0..n /\ (k # 0 => k - 1 \in 0..(n + 1) /\ k - 1 # n + 1)
        BY <3>2
      <4>2. G[k] = F[k] /\ (k # 0 => G[k - 1] = F[k - 1])
        BY <3>2, <4>1
      <4> QED
        BY <2>2, <4>1, <4>2
    <3> QED
      BY <3>1, <3>2
  <2>6. G = H
    BY <2>5
  <2>7. BuiltUp(G, n + 1, T, base, op)
    BY <2>5, <2>6 DEF BuiltUp
  <2> HIDE DEF G
  <2> QED
    BY <2>7
<1>3. \A n \in Nat : n \in N => n + 1 \in N
  BY <1>2
<1>4. m \in N
  <2> HIDE DEF N
  <2>1. Nat \subseteq N
    BY <1>1, <1>3, Inductive
  <2> QED
    BY <2>1
<1>5. m <= m
  OBVIOUS
<1> QED
  BY <1>4, <1>5

(***************************************************************************)
(* The distance.                                                           *)
(***************************************************************************)
Differs(a, b, i, j) == IF a[i] = b[j] THEN 0 ELSE 1

\* The smallest of three.
LEMMA MinOfThree ==
  ASSUME NEW x \in Nat, NEW y \in Nat, NEW z \in Nat
  PROVE  Min({x, y, z}) \in {x, y, z} /\ Min({x, y, z}) <= x /\ Min({x, y, z}) <= y /\ Min({x, y, z}) <= z
<1> DEFINE S == {x, y, z}
<1>1. 0 \in Int /\ S \in SUBSET Int /\ S # {} /\ \A s \in S : 0 <= s
  OBVIOUS
<1>2. x \in S /\ y \in S /\ z \in S
  OBVIOUS
<1> HIDE DEF S
<1>3. Min(S) \in S /\ \A s \in S : Min(S) <= s
  BY <1>1, MinIs
<1>4. Min(S) \in S /\ Min(S) <= x /\ Min(S) <= y /\ Min(S) <= z
  BY <1>2, <1>3
<1> QED
  BY <1>4 DEF S

RowsOf(b) == {r \in Seq(Nat) : Len(r) = Len(b) + 1}

Cell(previous, r, a, b, i, j) ==
  Min({previous[j + 1] + 1, r[j] + 1, previous[j] + (IF a[i] = b[j] THEN 0 ELSE 1)})

\* A cell of the distance table is a natural number.
LEMMA CellType ==
  ASSUME NEW a, NEW b, NEW previous \in RowsOf(b), NEW i, NEW j \in 1..Len(b), Len(b) \in Nat,
         NEW r \in Seq(Nat), j <= Len(r)
  PROVE  Cell(previous, r, a, b, i, j) \in Nat
<1>1. previous \in Seq(Nat) /\ Len(previous) = Len(b) + 1
  BY DEF RowsOf
<1>2. j \in 1..Len(previous) /\ j + 1 \in 1..Len(previous) /\ j \in 1..Len(r)
  BY <1>1
<1>3. previous[j] \in Nat /\ previous[j + 1] \in Nat /\ r[j] \in Nat
  BY <1>1, <1>2
<1> DEFINE x == previous[j + 1] + 1
           y == r[j] + 1
           z == previous[j] + (IF a[i] = b[j] THEN 0 ELSE 1)
<1>4. x \in Nat /\ y \in Nat /\ z \in Nat
  BY <1>3
<1> HIDE DEF x, y, z
<1>5. Min({x, y, z}) \in Nat
  <2>1. Min({x, y, z}) \in {x, y, z}
    BY <1>4, MinOfThree
  <2> QED
    BY <1>4, <2>1
<1> QED
  BY <1>5 DEF Cell, x, y, z

RowAfter(previous, r, i, a, b) ==
  /\ r \in RowsOf(b)
  /\ r[1] = i
  /\ \A j \in 1..Len(b) : r[j + 1] = Cell(previous, r, a, b, i, j)

\* A row of the table is computed from left to right, each cell from three others.
LEMMA NextRowIs ==
  ASSUME NEW a, NEW S, NEW b \in Seq(S), NEW previous \in RowsOf(b), NEW i \in Nat
  PROVE  RowAfter(previous, NextRow(previous, i, a, b), i, a, b)
<1> DEFINE n == Len(b)
           Step(r, j) == Append(r, Cell(previous, r, a, b, i, j))
           Equation(f) == f = [j \in 0..n |-> IF j = 0 THEN <<i>> ELSE Step(f[j - 1], j)]
           row == CHOOSE f : Equation(f)
<1>0. n \in Nat
  OBVIOUS
<1>1. NextRow(previous, i, a, b) = row[n]
  BY DEF NextRow, Cell
<1> DEFINE T == [k \in 0..n |-> {r \in Seq(Nat) : Len(r) = k + 1}]
           op == [k \in 1..n |-> [r \in T[k - 1] |-> Step(r, k)]]
<1>2. ASSUME NEW k \in 1..n, NEW r \in T[k - 1] PROVE Step(r, k) \in T[k]
  <2>1. k - 1 \in 0..n /\ k \in 0..n
    BY <1>0
  <2>2. r \in Seq(Nat) /\ Len(r) = k
    BY <2>1
  <2>3. Cell(previous, r, a, b, i, k) \in Nat
    BY <1>0, <2>2, CellType
  <2>4. Step(r, k) \in Seq(Nat) /\ Len(Step(r, k)) = k + 1
    BY <2>2, <2>3
  <2> QED
    BY <2>1, <2>4
<1>3. \A k \in 1..n : op[k] \in [T[k - 1] -> T[k]]
  BY <1>2
<1>4. <<i>> \in T[0]
  BY <1>0
<1>5. PICK F : BuiltUp(F, n, T, <<i>>, op)
  <2> HIDE DEF T, op, n
  <2> QED
    BY <1>0, <1>3, <1>4, BuiltUpExists
<1>6. Equation(F)
  <2>1. F = [k \in 0..n |-> IF k = 0 THEN <<i>> ELSE op[k][F[k - 1]]] /\ \A k \in 0..n : F[k] \in T[k]
    BY <1>5 DEF BuiltUp
  <2>2. ASSUME NEW k \in 1..n PROVE op[k][F[k - 1]] = Step(F[k - 1], k)
    <3>1. k - 1 \in 0..n
      BY <1>0
    <3>2. F[k - 1] \in T[k - 1]
      BY <2>1, <3>1
    <3> QED
      BY <3>2
  <2> HIDE DEF op, T, Step
  <2>3. ASSUME NEW k \in 0..n
        PROVE  (IF k = 0 THEN <<i>> ELSE op[k][F[k - 1]]) = IF k = 0 THEN <<i>> ELSE Step(F[k - 1], k)
    <3>1. k # 0 => k \in 1..n
      BY <1>0
    <3> QED
      BY <2>2, <3>1
  <2> QED
    BY <2>1, <2>3
<1>7. Equation(row)
  <2> HIDE DEF Equation
  <2> QED
    BY <1>6
<1> HIDE DEF row
<1>8. \A k \in 0..n : row[k] = IF k = 0 THEN <<i>> ELSE Step(row[k - 1], k)
  <2> HIDE DEF Step
  <2> QED
    BY <1>7
<1> DEFINE Good(k) == /\ row[k] \in Seq(Nat) /\ Len(row[k]) = k + 1 /\ row[k][1] = i
                      /\ \A j \in 1..k : row[k][j + 1] = Cell(previous, row[k], a, b, i, j)
           G == {k \in Nat : k <= n => Good(k)}
<1>9. 0 \in G
  <2>1. row[0] = <<i>>
    BY <1>0, <1>8
  <2>2. /\ <<i>> \in Seq(Nat) /\ Len(<<i>>) = 0 + 1 /\ <<i>>[1] = i /\ 1..0 = {}
    OBVIOUS
  <2>3. Good(0)
    BY <2>1, <2>2
  <2> QED
    BY <2>3
<1>10. ASSUME NEW k \in Nat, k \in G, k + 1 <= n PROVE Good(k + 1)
  <2> DEFINE r == row[k]
             c == Cell(previous, r, a, b, i, k + 1)
  <2>1. k <= n
    BY <1>0, <1>10
  <2>2. Good(k)
    BY <1>10, <2>1
  <2>3. /\ r \in Seq(Nat) /\ Len(r) = k + 1 /\ r[1] = i
        /\ \A j \in 1..k : r[j + 1] = Cell(previous, r, a, b, i, j)
    BY <2>2
  <2>4. row[k + 1] = Append(r, c)
    <3>1. k + 1 \in 0..n /\ k + 1 # 0 /\ (k + 1) - 1 = k
      BY <1>0, <1>10
    <3> QED
      BY <1>8, <3>1
  <2> HIDE DEF r
  <2>5. c \in Nat
    <3>1. k + 1 \in 1..Len(b) /\ k + 1 <= Len(r)
      BY <1>0, <1>10, <2>3
    <3> QED
      BY <1>0, <2>3, <3>1, CellType
  <2> HIDE DEF c
  <2>6. /\ Append(r, c) \in Seq(Nat) /\ Len(Append(r, c)) = (k + 1) + 1
        /\ \A j \in 1..(k + 1) : Append(r, c)[j] = r[j]
        /\ Append(r, c)[(k + 1) + 1] = c
    BY <2>3, <2>5
  <2> DEFINE q == Append(r, c)
  <2>7. q[1] = i
    BY <2>3, <2>6
  <2>8. ASSUME NEW j \in 1..(k + 1) PROVE q[j + 1] = Cell(previous, q, a, b, i, j)
    <3>1. q[j] = r[j]
      BY <2>6
    <3>2. Cell(previous, q, a, b, i, j) = Cell(previous, r, a, b, i, j)
      <4> HIDE DEF q
      <4> QED
        BY <3>1 DEF Cell
    <3>3. CASE j = k + 1
      BY <2>6, <3>2, <3>3 DEF c
    <3>4. CASE j # k + 1
      <4>1. j \in 1..k /\ j + 1 \in 1..(k + 1)
        BY <3>4
      <4> QED
        BY <2>3, <2>6, <3>2, <4>1
    <3> QED
      BY <3>3, <3>4
  <2> QED
    BY <2>4, <2>6, <2>7, <2>8
<1>11. n \in G
  <2>1. \A k \in Nat : k \in G => k + 1 \in G
    <3> HIDE DEF Good
    <3> QED
      BY <1>10
  <2> HIDE DEF G
  <2>2. Nat \subseteq G
    BY <1>9, <2>1, Inductive
  <2> QED
    BY <1>0, <2>2
<1>12. n <= n
  BY <1>0
<1>13. Good(n)
  BY <1>11, <1>12
<1> QED
  BY <1>1, <1>13 DEF RowsOf, RowAfter

\* The table of distances between the first i characters of a and the first j of b.
DistanceTable(D, a, b) ==
  /\ D \in [0..Len(a) -> [0..Len(b) -> Nat]]
  /\ \A j \in 0..Len(b) : D[0][j] = j
  /\ \A i \in 0..Len(a) : D[i][0] = i
  /\ \A i \in 1..Len(a), j \in 1..Len(b) :
       D[i][j] = Min({D[i - 1][j] + 1, D[i][j - 1] + 1,
                      D[i - 1][j - 1] + (IF a[i] = b[j] THEN 0 ELSE 1)})

\* The table levenshteinDistance fills, of which it answers the last cell.
LEMMA LevenshteinIs ==
  ASSUME NEW S, NEW a \in Seq(S), NEW b \in Seq(S)
  PROVE  \E D : /\ DistanceTable(D, a, b)
                /\ Levenshtein(a, b) = IF a = b THEN 0 ELSE D[Len(a)][Len(b)]
<1> DEFINE m == Len(a)
           n == Len(b)
           base == [j \in 1..(n + 1) |-> j - 1]
           Step(r, i) == NextRow(r, i, a, b)
           Equation(f) == f = [i \in 0..m |-> IF i = 0 THEN base ELSE Step(f[i - 1], i)]
           row == CHOOSE f : Equation(f)
<1>0. n \in Nat /\ m \in Nat
  OBVIOUS
<1>1. Levenshtein(a, b) = IF a = b THEN 0 ELSE Last(row[m])
  BY DEF Levenshtein
<1> DEFINE T == [k \in 0..m |-> RowsOf(b)]
           op == [k \in 1..m |-> [r \in RowsOf(b) |-> Step(r, k)]]
<1>2. base \in RowsOf(b)
  BY <1>0 DEF RowsOf
<1>3. \A k \in 1..m : op[k] \in [T[k - 1] -> T[k]]
  <2>1. ASSUME NEW k \in 1..m PROVE op[k] \in [RowsOf(b) -> RowsOf(b)] /\ T[k - 1] = RowsOf(b) /\ T[k] = RowsOf(b)
    <3>1. k \in Nat /\ k - 1 \in 0..m /\ k \in 0..m
      BY <1>0
    <3>2. \A r \in RowsOf(b) : Step(r, k) \in RowsOf(b)
      BY <3>1, NextRowIs DEF RowAfter
    <3> QED
      BY <3>1, <3>2
  <2> HIDE DEF op, T
  <2> QED
    BY <2>1
<1>4. base \in T[0]
  BY <1>0, <1>2
<1>5. PICK F : BuiltUp(F, m, T, base, op)
  <2> HIDE DEF T, op, m, base
  <2> QED
    BY <1>0, <1>3, <1>4, BuiltUpExists
<1>6. Equation(F)
  <2>1. F = [k \in 0..m |-> IF k = 0 THEN base ELSE op[k][F[k - 1]]] /\ \A k \in 0..m : F[k] \in T[k]
    BY <1>5 DEF BuiltUp
  <2>2. ASSUME NEW k \in 1..m PROVE op[k][F[k - 1]] = Step(F[k - 1], k)
    <3>1. k - 1 \in 0..m
      BY <1>0
    <3>2. F[k - 1] \in RowsOf(b)
      BY <2>1, <3>1
    <3> QED
      BY <3>2
  <2> HIDE DEF op, T, Step, base
  <2>3. ASSUME NEW k \in 0..m
        PROVE  (IF k = 0 THEN base ELSE op[k][F[k - 1]]) = IF k = 0 THEN base ELSE Step(F[k - 1], k)
    <3>1. k # 0 => k \in 1..m
      BY <1>0
    <3> QED
      BY <2>2, <3>1
  <2> QED
    BY <2>1, <2>3
<1>7. Equation(row)
  <2> HIDE DEF Equation
  <2> QED
    BY <1>6
<1> HIDE DEF row
<1>8. \A k \in 0..m : row[k] = IF k = 0 THEN base ELSE Step(row[k - 1], k)
  <2> HIDE DEF Step, base
  <2> QED
    BY <1>7
<1> DEFINE G == {k \in Nat : k <= m => row[k] \in RowsOf(b)}
<1>9. 0 \in G
  BY <1>0, <1>2, <1>8
<1>10. ASSUME NEW k \in Nat, k \in G, k + 1 <= m PROVE row[k + 1] \in RowsOf(b)
  <2>1. k <= m /\ k + 1 \in 0..m /\ k + 1 # 0 /\ (k + 1) - 1 = k
    BY <1>0, <1>10
  <2>2. row[k] \in RowsOf(b)
    BY <1>10, <2>1
  <2>3. row[k + 1] = NextRow(row[k], k + 1, a, b)
    BY <1>8, <2>1
  <2>4. k + 1 \in Nat
    OBVIOUS
  <2> QED
    BY <2>2, <2>3, <2>4, NextRowIs, ZenonT(60) DEF RowAfter
<1>11. \A k \in 0..m : row[k] \in RowsOf(b)
  <2>1. \A k \in Nat : k \in G => k + 1 \in G
    BY <1>10
  <2>2. Nat \subseteq G
    <3> HIDE DEF G
    <3> QED
      BY <1>9, <2>1, Inductive
  <2> QED
    BY <1>0, <2>2
<1> HIDE DEF G
<1>12. \A k \in 0..m : row[k] \in Seq(Nat) /\ Len(row[k]) = n + 1 /\ \A j \in 1..(n + 1) : row[k][j] \in Nat
  <2> SUFFICES ASSUME NEW k \in 0..m
               PROVE  row[k] \in Seq(Nat) /\ Len(row[k]) = n + 1 /\ \A j \in 1..(n + 1) : row[k][j] \in Nat
    OBVIOUS
  <2>1. row[k] \in Seq(Nat) /\ Len(row[k]) = n + 1
    BY <1>11 DEF RowsOf
  <2> QED
    BY <2>1
<1>13. ASSUME NEW i \in 1..m
       PROVE  /\ row[i][1] = i
              /\ \A j \in 1..n : row[i][j + 1] = Cell(row[i - 1], row[i], a, b, i, j)
  <2>1. i - 1 \in 0..m /\ i \in 0..m /\ i # 0 /\ i \in Nat
    BY <1>0
  <2>2. row[i - 1] \in RowsOf(b)
    BY <1>11, <2>1
  <2>3. row[i] = NextRow(row[i - 1], i, a, b)
    BY <1>8, <2>1
  <2>4. RowAfter(row[i - 1], NextRow(row[i - 1], i, a, b), i, a, b)
    BY <2>1, <2>2, NextRowIs
  <2> QED
    BY <2>3, <2>4 DEF RowAfter
<1>14. row[0] = base
  <2>1. 0 \in 0..m
    BY <1>0
  <2> HIDE DEF base, Step
  <2> QED
    BY <1>8, <2>1
<1> DEFINE D == [i \in 0..m |-> [j \in 0..n |-> row[i][j + 1]]]
<1>15. \A i \in 0..m, j \in 0..n : D[i][j] = row[i][j + 1]
  OBVIOUS
<1>16. \A i \in 0..m, j \in 0..n : row[i][j + 1] \in Nat
  <2> SUFFICES ASSUME NEW i \in 0..m, NEW j \in 0..n PROVE row[i][j + 1] \in Nat
    OBVIOUS
  <2>1. j + 1 \in 1..(n + 1)
    BY <1>0
  <2> QED
    BY <1>12, <2>1
<1>17. D \in [0..m -> [0..n -> Nat]]
  BY <1>16
<1> HIDE DEF D
<1>18. \A j \in 0..n : D[0][j] = j
  <2> SUFFICES ASSUME NEW j \in 0..n PROVE D[0][j] = j
    OBVIOUS
  <2>1. j + 1 \in 1..(n + 1) /\ (j + 1) - 1 = j /\ 0 \in 0..m
    BY <1>0
  <2>2. base[j + 1] = j
    BY <2>1
  <2> QED
    BY <1>14, <1>15, <2>1, <2>2
<1>19. \A i \in 0..m : D[i][0] = i
  <2> SUFFICES ASSUME NEW i \in 0..m PROVE D[i][0] = i
    OBVIOUS
  <2>1. 0 \in 0..n
    BY <1>0
  <2>2. CASE i = 0
    BY <1>18, <2>1, <2>2
  <2>3. CASE i # 0
    <3>1. i \in 1..m
      BY <1>0, <2>3
    <3>2. D[i][0] = row[i][1]
      BY <1>15, <2>1
    <3> QED
      BY <1>13, <3>1, <3>2
  <2> QED
    BY <2>2, <2>3
<1>20. ASSUME NEW i \in 1..m, NEW j \in 1..n
       PROVE  D[i][j] = Min({D[i - 1][j] + 1, D[i][j - 1] + 1,
                             D[i - 1][j - 1] + (IF a[i] = b[j] THEN 0 ELSE 1)})
  <2>1. /\ i - 1 \in 0..m /\ i \in 0..m
        /\ j - 1 \in 0..n /\ j \in 0..n /\ (j - 1) + 1 = j
    BY <1>0
  <2>2. /\ D[i][j] = row[i][j + 1]
        /\ D[i - 1][j] = row[i - 1][j + 1]
        /\ D[i][j - 1] = row[i][j]
        /\ D[i - 1][j - 1] = row[i - 1][j]
    <3>1. D[i][j - 1] = row[i][(j - 1) + 1] /\ D[i - 1][j - 1] = row[i - 1][(j - 1) + 1]
      BY <1>15, <2>1
    <3> QED
      BY <1>15, <2>1, <3>1
  <2>3. row[i][j + 1] = Cell(row[i - 1], row[i], a, b, i, j)
    BY <1>13
  <2> QED
    BY <2>2, <2>3 DEF Cell
<1>21. DistanceTable(D, a, b)
  BY <1>17, <1>18, <1>19, <1>20 DEF DistanceTable
<1>22. Last(row[m]) = D[m][n]
  <2>1. m \in 0..m /\ n \in 0..n
    BY <1>0
  <2>2. Len(row[m]) = n + 1
    BY <1>12, <2>1
  <2> QED
    BY <1>15, <2>1, <2>2 DEF Last
<1> QED
  BY <1>1, <1>21, <1>22

\* A distance is a natural number.
LEMMA LevenshteinType ==
  ASSUME NEW S, NEW a \in Seq(S), NEW b \in Seq(S)
  PROVE  Levenshtein(a, b) \in Nat
<1>1. PICK D : DistanceTable(D, a, b) /\ Levenshtein(a, b) = IF a = b THEN 0 ELSE D[Len(a)][Len(b)]
  BY LevenshteinIs
<1>2. Len(a) \in 0..Len(a) /\ Len(b) \in 0..Len(b)
  OBVIOUS
<1>3. D[Len(a)][Len(b)] \in Nat
  BY <1>1, <1>2 DEF DistanceTable
<1> QED
  BY <1>1, <1>3

(***************************************************************************)
(* The choice of stretches that do not overlap.                            *)
(***************************************************************************)
\* The image of a finite set is finite.
LEMMA FiniteImage ==
  ASSUME NEW S, IsFiniteSet(S), NEW f, NEW T, \A y \in T : \E x \in S : y = f[x]
  PROVE  IsFiniteSet(T)
<1> DEFINE g == [x \in S |-> f[x]]
           U == {f[x] : x \in S}
<1>1. g \in Surjection(S, U)
  BY DEF Surjection
<1>2. IsFiniteSet(U)
  <2> HIDE DEF g, U
  <2> QED
    BY <1>1, FS_Surjection
<1>3. T \in SUBSET U
  OBVIOUS
<1> HIDE DEF U
<1> QED
  BY <1>2, <1>3, FS_Subset

Stretch == [start: Nat, end: Nat, dist: Nat]

\* Closer is a strict total order of the stretches.
LEMMA CloserOrders ==
  ASSUME NEW c \in SUBSET Stretch
  PROVE  StrictOrder(c, {p \in c \X c : Closer(p[1], p[2])})
<1> DEFINE R == {p \in c \X c : Closer(p[1], p[2])}
<1>1. \A x, y \in c : <<x, y>> \in R <=> Closer(x, y)
  OBVIOUS
<1> HIDE DEF R
<1>2. \A x \in c : x.start \in Nat /\ x.end \in Nat /\ x.dist \in Nat
                   /\ x = [start |-> x.start, end |-> x.end, dist |-> x.dist]
  BY DEF Stretch
<1>3. \A x \in c : <<x, x>> \notin R
  BY <1>1, <1>2 DEF Closer
<1>4. ASSUME NEW x \in c, NEW y \in c, NEW z \in c, <<x, y>> \in R, <<y, z>> \in R
      PROVE  <<x, z>> \in R
  BY <1>1, <1>2, <1>4 DEF Closer
<1>5. ASSUME NEW x \in c, NEW y \in c, <<x, y>> \notin R, <<y, x>> \notin R PROVE x = y
  <2>1. ~Closer(x, y) /\ ~Closer(y, x)
    BY <1>1, <1>5
  <2>2. x.start = y.start /\ x.end = y.end /\ x.dist = y.dist
    BY <1>2, <2>1 DEF Closer
  <2>3. x = [start |-> x.start, end |-> x.end, dist |-> x.dist]
        /\ y = [start |-> y.start, end |-> y.end, dist |-> y.dist]
    BY <1>2
  <2> QED
    BY <2>2, <2>3
<1>6. StrictOrder(c, R)
  BY <1>3, <1>4, <1>5 DEF StrictOrder
<1> QED
  BY <1>6 DEF R

\* The stretches the fold of BestNonOverlapping keeps.
Kept(c) ==
  LET keep(kept, m) == IF \E n \in kept : Overlap(m, n) THEN kept ELSE kept \cup {m}
  IN FoldLeft(keep, {}, InOrder(c, Closer))

KeptOnly(c) ==
  /\ Kept(c) \in SUBSET c
  /\ \A m, n \in Kept(c) : m = n \/ ~Overlap(m, n) \/ ~Overlap(n, m)
  /\ \A m \in c : Overlap(m, m) => \E n \in Kept(c) : Overlap(m, n) /\ n.dist <= m.dist

\* The fold of bestNonOverlappingMatches keeps stretches that do not overlap, and
\* an overlapping one that is no farther for each that it drops.
LEMMA KeptIs ==
  ASSUME NEW c \in SUBSET Stretch, IsFiniteSet(c)
  PROVE  KeptOnly(c)
<1> DEFINE R == {p \in c \X c : Closer(p[1], p[2])}
           n == Cardinality(c)
           q == Listed(c, R)
           Keep(s, m) == IF \E k \in s : Overlap(m, k) THEN s ELSE s \cup {m}
           Equation(f) == f = [s \in SUBSET (1..n) |->
                                 IF s = {} THEN {} ELSE Keep(f[s \ {Max(s)}], q[Max(s)])]
           row == CHOOSE f : Equation(f)
<1>0. InOrder(c, Closer) = q
  BY DEF InOrder
<1>1. /\ n \in Nat /\ q \in [1..n -> c]
      /\ \A x \in c : \E k \in 1..n : q[k] = x
      /\ \A i, j \in 1..n : i < j => <<q[i], q[j]>> \in R
  <2> HIDE DEF n, q, R
  <2>1. StrictOrder(c, R)
    BY CloserOrders DEF R
  <2> QED
    BY <2>1, ListedIs DEF n, q
<1>2. \A i, j \in 1..n : i < j => Closer(q[i], q[j])
  <2>1. \A x, y \in c : <<x, y>> \in R => Closer(x, y)
    OBVIOUS
  <2> HIDE DEF R, q
  <2> QED
    BY <1>1, <2>1
<1> HIDE DEF R
<1>3. Kept(c) = row[1..n]
  <2> HIDE DEF q, n
  <2>1. DOMAIN q = 1..n
    BY <1>1
  <2>2. Kept(c) = LET keep(kept, m) == IF \E k \in kept : Overlap(m, k) THEN kept ELSE kept \cup {m}
                  IN FoldLeft(keep, {}, q)
    BY <1>0 DEF Kept
  <2> QED
    BY <2>1, <2>2 DEF FoldLeft, MapThenFoldSet
<1>n. n \in Nat
  BY <1>1
<1> HIDE DEF q, n
<1> DEFINE op == [k \in 1..n |-> [s \in SUBSET c |-> Keep(s, q[k])]]
<1>4. op \in [1..n -> [SUBSET c -> SUBSET c]]
  <2>1. ASSUME NEW k \in 1..n, NEW s \in SUBSET c PROVE Keep(s, q[k]) \in SUBSET c
    BY <1>1
  <2> HIDE DEF Keep
  <2> QED
    BY <2>1
<1>5. PICK F : FoldLeftTable(F, n, SUBSET c, {}, op)
  <2> HIDE DEF op
  <2>1. {} \in SUBSET c
    OBVIOUS
  <2> QED
    BY <1>1, <1>4, <2>1, FoldExists
<1>6. Equation(F)
  <2>1. F \in [SUBSET (1..n) -> SUBSET c]
        /\ \A s \in SUBSET (1..n) : F[s] = IF s = {} THEN {} ELSE op[Max(s)][F[s \ {Max(s)}]]
    BY <1>5 DEF FoldLeftTable
  <2>2. ASSUME NEW s \in SUBSET (1..n), s # {}
        PROVE  op[Max(s)][F[s \ {Max(s)}]] = Keep(F[s \ {Max(s)}], q[Max(s)])
    <3>1. Max(s) \in s
      <4>1. n \in Int /\ s \in SUBSET Int /\ \A x \in s : x <= n
        BY <1>1
      <4> QED
        BY <2>2, <4>1, MaxIs
    <3>2. F[s \ {Max(s)}] \in SUBSET c
      BY <2>1
    <3>3. Max(s) \in 1..n
      BY <3>1
    <3> HIDE DEF Keep
    <3> QED
      BY <3>2, <3>3
  <2> HIDE DEF op, Keep
  <2>3. ASSUME NEW s \in SUBSET (1..n)
        PROVE  F[s] = IF s = {} THEN {} ELSE Keep(F[s \ {Max(s)}], q[Max(s)])
    BY <2>1, <2>2
  <2>4. F = [s \in SUBSET (1..n) |-> F[s]]
    BY <2>1
  <2>5. [s \in SUBSET (1..n) |-> F[s]] = [s \in SUBSET (1..n) |-> IF s = {} THEN {} ELSE Keep(F[s \ {Max(s)}], q[Max(s)])]
    BY <2>3
  <2> QED
    BY <2>4, <2>5
<1>7. Equation(row)
  <2> HIDE DEF Equation
  <2> QED
    BY <1>6
<1> HIDE DEF row
<1>8. \A s \in SUBSET (1..n) : row[s] = IF s = {} THEN {} ELSE Keep(row[s \ {Max(s)}], q[Max(s)])
  <2> HIDE DEF Keep
  <2> QED
    BY <1>7
<1> DEFINE Good(i) == /\ row[1..i] \in SUBSET {q[j] : j \in 1..i}
                      /\ \A x, y \in row[1..i] : x = y \/ ~Overlap(x, y) \/ ~Overlap(y, x)
                      /\ \A j \in 1..i : Overlap(q[j], q[j]) =>
                           \E x \in row[1..i] : Overlap(q[j], x) /\ x.dist <= q[j].dist
           G == {i \in Nat : i <= n => Good(i)}
<1>9. 0 \in G
  <2>1. 1..0 = {} /\ {} \in SUBSET (1..n)
    OBVIOUS
  <2>2. row[{}] = {}
    <3> HIDE DEF Keep
    <3> QED
      BY <1>8, <2>1
  <2>3. row[1..0] = {}
    BY <2>1, <2>2
  <2> QED
    BY <2>1, <2>3
<1>10. ASSUME NEW i \in Nat, i \in G, i + 1 <= n PROVE Good(i + 1)
  <2>1. i <= n /\ i + 1 \in Nat \ {0} /\ i + 1 \in 1..n /\ (i + 1) - 1 = i
    BY <1>n, <1>10
  <2>2. Good(i)
    BY <1>10, <2>1
  <2> DEFINE a == row[1..i]
             m == q[i + 1]
             b == row[1..(i + 1)]
  <2>3. b = Keep(a, m)
    <3>0. \A u \in Nat \ {0} : u - 1 = i /\ u <= n =>
            Max(1..u) = u /\ (1..u) \ {u} = 1..i /\ 1..u \in SUBSET (1..n) /\ 1..u # {}
      BY <1>n, MaxPrefix
    <3>1. Max(1..(i + 1)) = i + 1 /\ (1..(i + 1)) \ {i + 1} = 1..i
      BY <1>10, <2>1, <3>0
    <3>2. 1..(i + 1) \in SUBSET (1..n) /\ 1..(i + 1) # {}
      BY <1>10, <2>1, <3>0
    <3> HIDE DEF Keep
    <3> QED
      BY <1>8, <3>1, <3>2, ZenonT(60)
  <2>4. /\ a \in SUBSET {q[j] : j \in 1..i}
        /\ \A x, y \in a : x = y \/ ~Overlap(x, y) \/ ~Overlap(y, x)
        /\ \A j \in 1..i : Overlap(q[j], q[j]) => \E x \in a : Overlap(q[j], x) /\ x.dist <= q[j].dist
    BY <2>2
  <2>5. 1..i \subseteq 1..(i + 1) /\ i + 1 \in 1..(i + 1) /\ \A j \in 1..(i + 1) : j = i + 1 \/ j \in 1..i
    OBVIOUS
  <2>6. ASSUME NEW x \in a PROVE x.dist <= m.dist
    <3>1. PICK j \in 1..i : x = q[j]
      BY <2>4
    <3>2. j \in 1..n /\ j < i + 1
      BY <1>n, <2>1
    <3>3. Closer(q[j], q[i + 1])
      BY <1>2, <2>1, <3>2
    <3>4. q[j] \in Stretch /\ q[i + 1] \in Stretch
      BY <1>1, <2>1, <3>2
    <3>5. q[j].dist <= q[i + 1].dist
      BY <3>3, <3>4 DEF Closer, Stretch
    <3> QED
      BY <3>1, <3>5
  <2>7. m.dist <= m.dist
    <3>1. m \in Stretch
      BY <1>1, <2>1
    <3> QED
      BY <3>1 DEF Stretch
  <2> HIDE DEF a, b, Keep
  <2>8. CASE \E k \in a : Overlap(m, k)
    <3>1. b = a
      BY <2>3, <2>8 DEF Keep
    <3>2. Overlap(q[i + 1], q[i + 1]) => \E x \in b : Overlap(q[i + 1], x) /\ x.dist <= q[i + 1].dist
      BY <2>6, <2>8, <3>1
    <3>3. b \in SUBSET {q[j] : j \in 1..(i + 1)}
      BY <2>4, <2>5, <3>1
    <3>4. \A j \in 1..(i + 1) : Overlap(q[j], q[j]) => \E x \in b : Overlap(q[j], x) /\ x.dist <= q[j].dist
      BY <2>4, <2>5, <3>1, <3>2
    <3> QED
      BY <2>4, <3>1, <3>3, <3>4 DEF b
  <2>9. CASE ~ \E k \in a : Overlap(m, k)
    <3>1. b = a \cup {m}
      BY <2>3, <2>9 DEF Keep
    <3>2. Overlap(q[i + 1], q[i + 1]) => \E x \in b : Overlap(q[i + 1], x) /\ x.dist <= q[i + 1].dist
      BY <2>7, <3>1
    <3>3. b \in SUBSET {q[j] : j \in 1..(i + 1)}
      BY <2>4, <2>5, <3>1
    <3>4. \A j \in 1..(i + 1) : Overlap(q[j], q[j]) => \E x \in b : Overlap(q[j], x) /\ x.dist <= q[j].dist
      BY <2>4, <2>5, <3>1, <3>2
    <3>5. \A x, y \in b : x = y \/ ~Overlap(x, y) \/ ~Overlap(y, x)
      BY <2>4, <2>9, <3>1
    <3> QED
      BY <3>3, <3>4, <3>5 DEF b
  <2> QED
    BY <2>8, <2>9
<1>11. \A i \in Nat : i \in G => i + 1 \in G
  <2> HIDE DEF Good
  <2> QED
    BY <1>10
<1>12. n \in G
  <2> HIDE DEF G
  <2>1. Nat \subseteq G
    BY <1>9, <1>11, Inductive
  <2> QED
    BY <1>1, <2>1
<1>13. n <= n
  BY <1>1
<1>14. Good(n)
  BY <1>12, <1>13
<1>15. row[1..n] \in SUBSET c
  <2>1. \A j \in 1..n : q[j] \in c
    BY <1>1
  <2> QED
    BY <1>14, <2>1
<1>16. ASSUME NEW m \in c, Overlap(m, m)
       PROVE  \E x \in row[1..n] : Overlap(m, x) /\ x.dist <= m.dist
  <2>1. PICK j \in 1..n : q[j] = m
    BY <1>1
  <2> QED
    BY <1>14, <1>16, <2>1
<1> QED
  BY <1>3, <1>14, <1>15, <1>16 DEF KeptOnly

\* BestNonOverlapping chooses among the candidates, never two that overlap, and
\* every candidate that is not empty overlaps a choice at least as close.
LEMMA BestIs ==
  ASSUME NEW c \in SUBSET Stretch, IsFiniteSet(c), \A m \in c : m.start < m.end
  PROVE  /\ BestNonOverlapping(c) \in Seq(c)
         /\ Range(BestNonOverlapping(c)) = Kept(c)
<1> DEFINE K == Kept(c)
           R == {p \in K \X K : p[1].start < p[2].start}
<1>1. BestNonOverlapping(c) = Listed(K, R)
  BY DEF BestNonOverlapping, InOrder, Kept
<1>2. KeptOnly(c)
  BY KeptIs
<1>3. K \in SUBSET c /\ IsFiniteSet(K)
  <2>1. K \in SUBSET c
    BY <1>2 DEF KeptOnly
  <2> HIDE DEF K
  <2> QED
    BY <2>1, FS_Subset
<1>4. \A x, y \in K : <<x, y>> \in R <=> x.start < y.start
  OBVIOUS
<1> HIDE DEF R
<1>5. \A x \in K : x.start \in Nat /\ x.end \in Nat /\ x.start < x.end
  BY <1>3 DEF Stretch
<1>6. \A x, y \in K : x = y \/ ~Overlap(x, y)
  BY <1>2 DEF KeptOnly, Overlap
<1> HIDE DEF K
<1>7. ASSUME NEW x \in K, NEW y \in K, x # y PROVE <<x, y>> \in R \/ <<y, x>> \in R
  <2>1. ~(x.start < y.end /\ y.start < x.end)
    BY <1>6, <1>7 DEF Overlap
  <2>2. x.start < y.start \/ y.start < x.start
    BY <1>5, <2>1
  <2> QED
    BY <1>4, <2>2
<1>8. ASSUME NEW x \in K, NEW y \in K, NEW z \in K, <<x, y>> \in R, <<y, z>> \in R PROVE <<x, z>> \in R
  BY <1>4, <1>5, <1>8
<1>9. ASSUME NEW x \in K PROVE <<x, x>> \notin R
  BY <1>4, <1>5
<1>10. StrictOrder(K, R)
  BY <1>7, <1>8, <1>9 DEF StrictOrder
<1> DEFINE n == Cardinality(K)
           l == Listed(K, R)
<1>11. n \in Nat /\ l \in [1..n -> K] /\ \A x \in K : \E k \in 1..n : l[k] = x
  BY <1>3, <1>10, ListedIs
<1> HIDE DEF n, l
<1>12. l \in Seq(c)
  BY <1>3, <1>11
<1>13. Range(l) = K
  BY <1>11 DEF Range
<1> QED
  BY <1>1, <1>12, <1>13 DEF l, K

\* A slice of a sequence is a sequence of the same elements.
LEMMA SliceType ==
  ASSUME NEW S, NEW t \in Seq(S), NEW a \in Nat, NEW b \in Nat, b <= Len(t)
  PROVE  Slice(t, a, b) \in Seq(S)
BY DEF Slice

\* The greater of two.
LEMMA MaxOfTwo ==
  ASSUME NEW x \in Int, NEW y \in Int
  PROVE  Max({x, y}) \in {x, y} /\ Max({x, y}) >= x /\ Max({x, y}) >= y
<1> DEFINE S == {x, y}
           b == IF x <= y THEN y ELSE x
<1>1. b \in Int /\ S \in SUBSET Int /\ S # {} /\ \A s \in S : s <= b
  OBVIOUS
<1>2. x \in S /\ y \in S
  OBVIOUS
<1> HIDE DEF S, b
<1>3. Max(S) \in S /\ \A s \in S : s <= Max(S)
  BY <1>1, MaxIs
<1>4. Max(S) \in S /\ x <= Max(S) /\ y <= Max(S) /\ Max(S) \in Int
  BY <1>1, <1>2, <1>3
<1> QED
  BY <1>4 DEF S

\* The stretches a name may be found at are in the text and not empty.
LEMMA CandidatesType ==
  ASSUME NEW query \in Seq(Nat), NEW name \in Seq(Nat), NEW tolerance \in Nat
  PROVE  /\ Candidates(query, name, tolerance) \in SUBSET Stretch
         /\ IsFiniteSet(Candidates(query, name, tolerance))
         /\ \A m \in Candidates(query, name, tolerance) : m.start < m.end /\ m.end <= Len(query)
<1> DEFINE W == Windows(query, name, tolerance)
           n == Len(query)
           f == [w \in W |-> [start |-> w.start, end |-> w.end,
                              dist |-> Levenshtein(name, Slice(query, w.start, w.end))]]
           C == Candidates(query, name, tolerance)
<1>0. n \in Nat /\ Len(name) \in Nat
  OBVIOUS
<1>1. ASSUME NEW w \in W PROVE w.start \in 0..n /\ w.end \in 0..n /\ w.start < w.end
  <2> DEFINE low == Max({1, Len(name) - tolerance})
  <2>1. low \in Int /\ 1 <= low
    <3> DEFINE d == Len(name) - tolerance
    <3>1. 1 \in Int /\ d \in Int
      BY <1>0
    <3> HIDE DEF d
    <3>2. Max({1, d}) \in {1, d} /\ Max({1, d}) >= 1
      BY <3>1, MaxOfTwo
    <3> QED
      BY <3>1, <3>2 DEF d
  <2> HIDE DEF low
  <2>2. w.start \in 0..n /\ w.end \in 0..n /\ w.end - w.start \in low..(Len(name) + tolerance)
    BY DEF Windows, low
  <2>3. w.end - w.start >= low
    BY <1>0, <2>1, <2>2
  <2> QED
    BY <1>0, <2>1, <2>2, <2>3
<1>2. IsFiniteSet(W)
  <2> DEFINE I == 0..n
             P == I \X I
             g == [p \in P |-> [start |-> p[1], end |-> p[2]]]
  <2>1. IsFiniteSet(P)
    <3>1. IsFiniteSet(I)
      BY <1>0, FS_Interval
    <3> HIDE DEF I
    <3> QED
      BY <3>1, FS_Product
  <2>2. \A w \in W : \E p \in P : w = g[p]
    <3> SUFFICES ASSUME NEW w \in W PROVE \E p \in P : w = g[p]
      OBVIOUS
    <3>1. <<w.start, w.end>> \in P
      BY <1>1
    <3>2. w = [start |-> w.start, end |-> w.end]
      BY DEF Windows
    <3>3. g[<<w.start, w.end>>] = w
      BY <3>1, <3>2
    <3> QED
      BY <3>1, <3>3
  <2> HIDE DEF P, g, W
  <2> QED
    BY <2>1, <2>2, FiniteImage
<1>3. ASSUME NEW m \in C PROVE \E w \in W : m = f[w]
  BY DEF Candidates
<1>4. ASSUME NEW w \in W
      PROVE  f[w] \in Stretch /\ f[w].start < f[w].end /\ f[w].end <= n
  <2>1. w.start \in Nat /\ w.end \in Nat /\ w.end <= Len(query) /\ w.start < w.end
    BY <1>0, <1>1
  <2>2. Slice(query, w.start, w.end) \in Seq(Nat)
    BY <2>1, SliceType
  <2>3. Levenshtein(name, Slice(query, w.start, w.end)) \in Nat
    BY <2>2, LevenshteinType
  <2> QED
    BY <2>1, <2>3 DEF Stretch
<1>5. IsFiniteSet(C)
  <2> HIDE DEF C, W, f
  <2> QED
    BY <1>2, <1>3, FiniteImage
<1> HIDE DEF f, W
<1> QED
  BY <1>3, <1>4, <1>5

\* findNearMatches and bestNonOverlappingMatches together.
LEMMA NearMatchesIs ==
  ASSUME NEW query \in Seq(Nat), NEW name \in Seq(Nat), NEW tolerance \in Nat
  PROVE  /\ NearMatches(query, name, tolerance) \in Seq(Candidates(query, name, tolerance))
         /\ \A m, n \in Range(NearMatches(query, name, tolerance)) : m = n \/ ~Overlap(m, n)
         /\ \A m \in Candidates(query, name, tolerance) :
              \E n \in Range(NearMatches(query, name, tolerance)) : Overlap(m, n) /\ n.dist <= m.dist
<1> DEFINE C == Candidates(query, name, tolerance)
<1>1. C \in SUBSET Stretch /\ IsFiniteSet(C) /\ \A m \in C : m.start < m.end
  BY CandidatesType
<1>2. NearMatches(query, name, tolerance) = BestNonOverlapping(C)
  BY DEF NearMatches
<1> HIDE DEF C
<1>3. BestNonOverlapping(C) \in Seq(C) /\ Range(BestNonOverlapping(C)) = Kept(C)
  BY <1>1, BestIs
<1>4. KeptOnly(C)
  BY <1>1, KeptIs
<1>5. \A m \in C : Overlap(m, m)
  BY <1>1 DEF Overlap
<1>6. \A m, n \in Kept(C) : m = n \/ ~Overlap(m, n)
  BY <1>4 DEF KeptOnly, Overlap
<1>7. \A m \in C : \E n \in Kept(C) : Overlap(m, n) /\ n.dist <= m.dist
  BY <1>4, <1>5 DEF KeptOnly
<1> QED
  BY <1>2, <1>3, <1>6, <1>7 DEF C

(***************************************************************************)
(* The table of distances and the alignments.  I and J are the positions   *)
(* an alignment of the first i characters with the first j pairs.          *)
(***************************************************************************)
Below(S, x) == Cardinality({y \in S : y < x})

Unequal(a, b, I, J) == {x \in I : \A y \in J : Below(I, x) = Below(J, y) => a[x] # b[y]}

Aligned(i, j, I, J) ==
  I \in SUBSET (1..i) /\ J \in SUBSET (1..j) /\ Cardinality(I) = Cardinality(J)

Cost(a, b, i, j, I, J) == i + j - 2 * Cardinality(I) + Cardinality(Unequal(a, b, I, J))

\* Sets of positions are finite.
LEMMA PositionsFinite ==
  ASSUME NEW n \in Nat, NEW I \in SUBSET (1..n)
  PROVE  IsFiniteSet(I) /\ Cardinality(I) \in Nat /\ Cardinality(I) <= n
<1>1. IsFiniteSet(1..n) /\ Cardinality(1..n) = n
  <2>1. 1 \in Int /\ n \in Int
    OBVIOUS
  <2>2. IsFiniteSet(1..n) /\ Cardinality(1..n) = IF 1 > n THEN 0 ELSE n - 1 + 1
    BY <2>1, FS_Interval
  <2> QED
    BY <2>2
<1> DEFINE N == 1..n
<1>2. IsFiniteSet(N) /\ Cardinality(N) = n /\ I \in SUBSET N
  BY <1>1
<1> HIDE DEF N
<1>3. IsFiniteSet(I) /\ Cardinality(I) <= Cardinality(N)
  BY <1>2, FS_Subset
<1>4. Cardinality(I) \in Nat
  BY <1>3, FS_CardinalityType
<1> QED
  BY <1>2, <1>3, <1>4

\* A position added behind all others: the ranks of the others stay, its own is
\* their number.
LEMMA RankOfLast ==
  ASSUME NEW n \in Nat, NEW I \in SUBSET (1..n), NEW k, k = n + 1
  PROVE  /\ Cardinality(I \cup {k}) = Cardinality(I) + 1
         /\ Below(I \cup {k}, k) = Cardinality(I)
         /\ \A x \in I : /\ Below(I \cup {k}, x) = Below(I, x)
                         /\ Below(I, x) # Cardinality(I)
<1>1. IsFiniteSet(I) /\ Cardinality(I) \in Nat
  BY PositionsFinite
<1>2. k \notin I /\ \A x \in I : x \in Nat /\ x < k /\ ~(k < x) /\ k \in Nat
  OBVIOUS
<1>3. Cardinality(I \cup {k}) = Cardinality(I) + 1
  BY <1>1, <1>2, FS_AddElement
<1>4. Below(I \cup {k}, k) = Cardinality(I)
  <2>1. {y \in I \cup {k} : y < k} = I
    <3>1. ~(k < k)
      OBVIOUS
    <3> QED
      BY <1>2, <3>1
  <2> QED
    BY <2>1 DEF Below
<1>5. ASSUME NEW x \in I
      PROVE Below(I \cup {k}, x) = Below(I, x) /\ Below(I, x) # Cardinality(I)
  <2>1. {y \in I \cup {k} : y < x} = {y \in I : y < x}
    BY <1>2
  <2> DEFINE B == {y \in I : y < x}
  <2>2. B \in SUBSET I /\ B # I
    BY <1>2
  <2> HIDE DEF B
  <2>4. Cardinality(B) # Cardinality(I)
    BY <1>1, <2>2, FS_Subset
  <2> QED
    BY <2>1, <2>4 DEF B, Below
<1> QED
  BY <1>3, <1>4, <1>5

\* What a last pair adds to the cost.
LEMMA LastPair ==
  ASSUME NEW a, NEW b, NEW i \in Nat, NEW j \in Nat, NEW I, NEW J, Aligned(i, j, I, J),
         NEW u, u = i + 1, NEW v, v = j + 1
  PROVE  /\ Aligned(u, v, I \cup {u}, J \cup {v})
         /\ Cost(a, b, u, v, I \cup {u}, J \cup {v})
              = Cost(a, b, i, j, I, J) + (IF a[u] = b[v] THEN 0 ELSE 1)
<1> DEFINE IU == I \cup {u}
           JV == J \cup {v}
           n == Cardinality(I)
           U == Unequal(a, b, I, J)
           extra == IF a[u] = b[v] THEN 0 ELSE 1
<1>1. I \in SUBSET (1..i) /\ J \in SUBSET (1..j) /\ Cardinality(J) = n
  BY DEF Aligned
<1>2. n \in Nat /\ IsFiniteSet(I)
  BY <1>1, PositionsFinite
<1>3. /\ Cardinality(IU) = n + 1 /\ Below(IU, u) = n
      /\ \A x \in I : Below(IU, x) = Below(I, x) /\ Below(I, x) # n
  BY <1>1, RankOfLast
<1>4. /\ Cardinality(JV) = n + 1 /\ Below(JV, v) = n
      /\ \A y \in J : Below(JV, y) = Below(J, y) /\ Below(J, y) # n
  BY <1>1, RankOfLast
<1>5. IU \in SUBSET (1..u) /\ JV \in SUBSET (1..v)
  BY <1>1
<1>6. u \notin I
  BY <1>1
<1> HIDE DEF IU, JV, n
<1>7. ASSUME NEW x \in I PROVE x \in Unequal(a, b, IU, JV) <=> x \in U
  <2>1. x \in IU
    BY DEF IU
  <2>2. Below(IU, x) = Below(I, x) /\ Below(IU, x) # Below(JV, v)
    BY <1>3, <1>4
  <2>3. \A y \in J : Below(JV, y) = Below(J, y)
    BY <1>4
  <2> QED
    BY <2>1, <2>2, <2>3 DEF Unequal, JV
<1>8. u \in Unequal(a, b, IU, JV) <=> a[u] # b[v]
  <2>1. u \in IU /\ v \in JV
    BY DEF IU, JV
  <2>2. \A y \in JV : Below(IU, u) = Below(JV, y) <=> y = v
    BY <1>3, <1>4 DEF JV
  <2> QED
    BY <2>1, <2>2 DEF Unequal
<1>9. Unequal(a, b, IU, JV) = IF a[u] = b[v] THEN U ELSE U \cup {u}
  <2>1. Unequal(a, b, IU, JV) \in SUBSET (I \cup {u}) /\ U \in SUBSET I
    BY DEF Unequal, IU
  <2> DEFINE V == Unequal(a, b, IU, JV)
  <2>2. /\ V \in SUBSET (I \cup {u}) /\ U \in SUBSET I
        /\ \A x \in I : x \in V <=> x \in U
        /\ u \in V <=> a[u] # b[v]
    BY <1>7, <1>8, <2>1
  <2> HIDE DEF U, V
  <2>3. \A x \in V : x \in I \/ x = u
    BY <2>2
  <2>4. CASE a[u] = b[v]
    <3>1. V = U
      BY <1>6, <2>2, <2>3, <2>4
    <3> QED
      BY <2>4, <3>1 DEF V
  <2>5. CASE a[u] # b[v]
    <3>1. V = U \cup {u}
      BY <1>6, <2>2, <2>3, <2>5
    <3> QED
      BY <2>5, <3>1 DEF V
  <2> QED
    BY <2>4, <2>5
<1>10. U \in SUBSET I /\ u \notin U
  BY <1>6 DEF Unequal
<1>11. IsFiniteSet(U) /\ Cardinality(U) \in Nat
  <2> HIDE DEF U
  <2> QED
    BY <1>2, <1>10, FS_Subset, FS_CardinalityType
<1>12. Cardinality(U \cup {u}) = Cardinality(U) + 1
  <2> HIDE DEF U
  <2> QED
    BY <1>10, <1>11, FS_AddElement
<1>13. Cardinality(Unequal(a, b, IU, JV)) = Cardinality(U) + extra
  <2> HIDE DEF U
  <2> QED
    BY <1>9, <1>11, <1>12
<1>14. Aligned(u, v, IU, JV)
  BY <1>3, <1>4, <1>5 DEF Aligned
<1>15. Cost(a, b, u, v, IU, JV) = u + v - 2 * (n + 1) + (Cardinality(U) + extra)
  BY <1>3, <1>13 DEF Cost
<1>16. Cost(a, b, i, j, I, J) = i + j - 2 * n + Cardinality(U)
  BY DEF Cost, n
<1>17. Cost(a, b, u, v, IU, JV) = Cost(a, b, i, j, I, J) + extra
  <2> DEFINE c == Cardinality(U)
  <2>1. c \in Nat /\ extra \in Nat
    BY <1>11
  <2> HIDE DEF U, c, extra
  <2>2. /\ Cost(a, b, u, v, IU, JV) = u + v - 2 * (n + 1) + (c + extra)
        /\ Cost(a, b, i, j, I, J) = i + j - 2 * n + c
    BY <1>15, <1>16 DEF c
  <2> QED
    BY <1>2, <2>1, <2>2
<1> QED
  BY <1>14, <1>17 DEF IU, JV

\* A last character left alone costs one.
LEMMA LastAlone ==
  ASSUME NEW a, NEW b, NEW i \in Nat, NEW j \in Nat, NEW I, NEW J, Aligned(i, j, I, J),
         NEW u, u = i + 1, NEW v, v = j + 1
  PROVE  /\ Aligned(u, j, I, J) /\ Cost(a, b, u, j, I, J) = Cost(a, b, i, j, I, J) + 1
         /\ Aligned(i, v, I, J) /\ Cost(a, b, i, v, I, J) = Cost(a, b, i, j, I, J) + 1
<1>1. I \in SUBSET (1..u) /\ J \in SUBSET (1..v) /\ I \in SUBSET (1..i)
  BY DEF Aligned
<1>2. Aligned(u, j, I, J) /\ Aligned(i, v, I, J)
  BY <1>1 DEF Aligned
<1> DEFINE n == Cardinality(I)
           U == Unequal(a, b, I, J)
           c == Cardinality(U)
<1>3. n \in Nat /\ IsFiniteSet(I)
  BY <1>1, PositionsFinite
<1>4. U \in SUBSET I
  BY DEF Unequal
<1>5. c \in Nat
  <2> HIDE DEF U
  <2> QED
    BY <1>3, <1>4, FS_Subset, FS_CardinalityType
<1>6. /\ Cost(a, b, i, j, I, J) = i + j - 2 * n + c
      /\ Cost(a, b, u, j, I, J) = u + j - 2 * n + c
      /\ Cost(a, b, i, v, I, J) = i + v - 2 * n + c
  BY DEF Cost
<1> HIDE DEF n, c
<1> QED
  BY <1>2, <1>3, <1>5, <1>6

\* The cost of an alignment is an integer.
LEMMA CostType ==
  ASSUME NEW a, NEW b, NEW i \in Nat, NEW j \in Nat, NEW I, NEW J, Aligned(i, j, I, J)
  PROVE  Cost(a, b, i, j, I, J) \in Int
<1>1. I \in SUBSET (1..i)
  BY DEF Aligned
<1> DEFINE n == Cardinality(I)
           U == Unequal(a, b, I, J)
           c == Cardinality(U)
<1>2. n \in Nat /\ IsFiniteSet(I)
  BY <1>1, PositionsFinite
<1>3. U \in SUBSET I
  BY DEF Unequal
<1>4. c \in Nat
  <2> HIDE DEF U
  <2> QED
    BY <1>2, <1>3, FS_Subset, FS_CardinalityType
<1>5. Cost(a, b, i, j, I, J) = i + j - 2 * n + c
  BY DEF Cost
<1> HIDE DEF n, c
<1> QED
  BY <1>2, <1>4, <1>5

\* With nothing to pair every character stands alone.
LEMMA NothingPaired ==
  ASSUME NEW a, NEW b, NEW i \in Nat, NEW j \in Nat, NEW I, NEW J, Aligned(i, j, I, J),
         i = 0 \/ j = 0
  PROVE  Cost(a, b, i, j, I, J) = i + j
<1>1. I = {} /\ J = {}
  <2>1. I \in SUBSET (1..i) /\ J \in SUBSET (1..j) /\ Cardinality(I) = Cardinality(J)
    BY DEF Aligned
  <2>2. IsFiniteSet(I) /\ IsFiniteSet(J)
    BY <2>1, PositionsFinite
  <2>3. I = {} \/ J = {}
    BY <2>1
  <2> QED
    BY <2>1, <2>2, <2>3, FS_EmptySet
<1>2. Cardinality(I) = 0
  BY <1>1, FS_EmptySet
<1>3. Unequal(a, b, I, J) = {}
  BY <1>1 DEF Unequal
<1>4. Cardinality(Unequal(a, b, I, J)) = 0
  BY <1>3, FS_EmptySet
<1> QED
  BY <1>2, <1>4 DEF Cost

\* Two prefixes are aligned by pairing nothing.
LEMMA EmptyAligned ==
  ASSUME NEW i \in Nat, NEW j \in Nat
  PROVE  Aligned(i, j, {}, {})
BY DEF Aligned

\* A cell of the table is no more than the three it is computed from allow.
LEMMA CellIs ==
  ASSUME NEW D, NEW a, NEW b, DistanceTable(D, a, b), Len(a) \in Nat, Len(b) \in Nat,
         NEW u \in 1..Len(a), NEW v \in 1..Len(b), NEW i, i = u - 1, NEW j, j = v - 1
  PROVE  LET x == D[i][v] + 1
             y == D[u][j] + 1
             z == D[i][j] + (IF a[u] = b[v] THEN 0 ELSE 1)
         IN /\ D[u][v] \in {x, y, z} /\ D[u][v] <= x /\ D[u][v] <= y /\ D[u][v] <= z
            /\ D[u][v] \in Nat /\ D[i][v] \in Nat /\ D[u][j] \in Nat /\ D[i][j] \in Nat
<1> DEFINE x == D[i][v] + 1
           y == D[u][j] + 1
           z == D[i][j] + (IF a[u] = b[v] THEN 0 ELSE 1)
<1>1. i \in 0..Len(a) /\ u \in 0..Len(a) /\ j \in 0..Len(b) /\ v \in 0..Len(b)
  OBVIOUS
<1>2. D[u][v] \in Nat /\ D[i][v] \in Nat /\ D[u][j] \in Nat /\ D[i][j] \in Nat
  <2>1. D \in [0..Len(a) -> [0..Len(b) -> Nat]]
    BY DEF DistanceTable
  <2> QED
    BY <1>1, <2>1
<1>3. D[u][v] = Min({x, y, z})
  BY DEF DistanceTable
<1>4. x \in Nat /\ y \in Nat /\ z \in Nat
  <2>1. \A p \in Nat : p + 0 \in Nat /\ p + 1 \in Nat
    OBVIOUS
  <2>2. x \in Nat
    BY <1>2, <2>1
  <2>3. y \in Nat
    BY <1>2, <2>1
  <2>4. z = D[i][j] + 0 \/ z = D[i][j] + 1
    OBVIOUS
  <2>5. z \in Nat
    <3> HIDE DEF z
    <3> QED
      BY <1>2, <2>1, <2>4
  <2> QED
    BY <2>2, <2>3, <2>5
<1> HIDE DEF x, y, z
<1>5. Min({x, y, z}) \in {x, y, z} /\ Min({x, y, z}) <= x /\ Min({x, y, z}) <= y /\ Min({x, y, z}) <= z
  BY <1>4, MinOfThree
<1>6. D[u][v] \in {x, y, z} /\ D[u][v] <= x /\ D[u][v] <= y /\ D[u][v] <= z
  BY <1>3, <1>5
<1> QED
  BY <1>2, <1>6 DEF x, y, z

\* The cost of a cell is that of some alignment, and of none less.
Least(D, a, b, i, j) ==
  /\ \E I, J : Aligned(i, j, I, J) /\ D[i][j] = Cost(a, b, i, j, I, J)
  /\ \A I, J : Aligned(i, j, I, J) => D[i][j] <= Cost(a, b, i, j, I, J)

\* A cell at the border of the table is the least cost.
LEMMA LeastAtBorder ==
  ASSUME NEW D, NEW a, NEW b, DistanceTable(D, a, b), Len(a) \in Nat, Len(b) \in Nat,
         NEW i \in 0..Len(a), NEW j \in 0..Len(b), i = 0 \/ j = 0
  PROVE  Least(D, a, b, i, j)
<1>1. D[i][j] = i + j /\ i + j \in Nat /\ i \in Nat /\ j \in Nat
  BY DEF DistanceTable
<1>2. ASSUME NEW I, NEW J, Aligned(i, j, I, J) PROVE Cost(a, b, i, j, I, J) = i + j
  BY <1>1, <1>2, NothingPaired
<1>3. Aligned(i, j, {}, {})
  BY <1>1, EmptyAligned
<1>4. \A I, J : Aligned(i, j, I, J) => D[i][j] <= Cost(a, b, i, j, I, J)
  BY <1>1, <1>2
<1>5. D[i][j] = Cost(a, b, i, j, {}, {})
  BY <1>1, <1>2, <1>3
<1> QED
  BY <1>3, <1>4, <1>5 DEF Least

\* A cell is the least cost if the three it is computed from are.
LEMMA LeastInside ==
  ASSUME NEW D, NEW a, NEW b, DistanceTable(D, a, b), Len(a) \in Nat, Len(b) \in Nat,
         NEW u \in 1..Len(a), NEW v \in 1..Len(b), NEW i, i = u - 1, NEW j, j = v - 1,
         Least(D, a, b, i, v), Least(D, a, b, u, j), Least(D, a, b, i, j)
  PROVE  Least(D, a, b, u, v)
<1>1. i \in Nat /\ j \in Nat /\ u \in Nat /\ v \in Nat /\ u = i + 1 /\ v = j + 1
  OBVIOUS
<1> DEFINE extra == IF a[u] = b[v] THEN 0 ELSE 1
           d == D[u][v]
           x == D[i][v]
           y == D[u][j]
           z == D[i][j]
<1>2. /\ d \in {x + 1, y + 1, z + extra} /\ d <= x + 1 /\ d <= y + 1 /\ d <= z + extra
      /\ d \in Nat /\ x \in Nat /\ y \in Nat /\ z \in Nat /\ extra \in Nat
  BY CellIs
<1>3. /\ \E I, J : Aligned(i, v, I, J) /\ x = Cost(a, b, i, v, I, J)
      /\ \A I, J : Aligned(i, v, I, J) => x <= Cost(a, b, i, v, I, J)
  BY DEF Least
<1>4. /\ \E I, J : Aligned(u, j, I, J) /\ y = Cost(a, b, u, j, I, J)
      /\ \A I, J : Aligned(u, j, I, J) => y <= Cost(a, b, u, j, I, J)
  BY DEF Least
<1>5. /\ \E I, J : Aligned(i, j, I, J) /\ z = Cost(a, b, i, j, I, J)
      /\ \A I, J : Aligned(i, j, I, J) => z <= Cost(a, b, i, j, I, J)
  BY DEF Least
<1>6. ASSUME NEW I, NEW J, Aligned(i, v, I, J)
      PROVE Aligned(u, v, I, J) /\ Cost(a, b, u, v, I, J) = Cost(a, b, i, v, I, J) + 1
  <2> DEFINE w == v + 1
  <2>1. w = v + 1
    OBVIOUS
  <2> HIDE DEF w
  <2> QED
    BY <1>1, <1>6, <2>1, LastAlone
<1>7. ASSUME NEW I, NEW J, Aligned(u, j, I, J)
      PROVE Aligned(u, v, I, J) /\ Cost(a, b, u, v, I, J) = Cost(a, b, u, j, I, J) + 1
  <2> DEFINE w == u + 1
  <2>1. w = u + 1
    OBVIOUS
  <2> HIDE DEF w
  <2> QED
    BY <1>1, <1>7, <2>1, LastAlone
<1>8. ASSUME NEW I, NEW J, Aligned(i, j, I, J)
      PROVE /\ Aligned(u, v, I \cup {u}, J \cup {v})
            /\ Cost(a, b, u, v, I \cup {u}, J \cup {v}) = Cost(a, b, i, j, I, J) + extra
  BY <1>1, <1>8, LastPair
<1> HIDE DEF d, x, y, z, extra
<1>9. \E I, J : Aligned(u, v, I, J) /\ d = Cost(a, b, u, v, I, J)
  <2>1. CASE d = x + 1
    BY <1>3, <1>6, <2>1
  <2>2. CASE d = y + 1
    BY <1>4, <1>7, <2>2
  <2>3. CASE d = z + extra
    <3>1. PICK I, J : Aligned(i, j, I, J) /\ z = Cost(a, b, i, j, I, J)
      BY <1>5
    <3> DEFINE K == I \cup {u}
               L == J \cup {v}
    <3>2. Aligned(u, v, K, L) /\ Cost(a, b, u, v, K, L) = z + extra
      BY <1>8, <3>1
    <3> HIDE DEF K, L
    <3> QED
      BY <2>3, <3>2
  <2> QED
    BY <1>2, <2>1, <2>2, <2>3
<1>10. ASSUME NEW I, NEW J, Aligned(u, v, I, J) PROVE d <= Cost(a, b, u, v, I, J)
  <2>0. I \in SUBSET (1..u) /\ J \in SUBSET (1..v) /\ Cardinality(I) = Cardinality(J)
    BY <1>10 DEF Aligned
  <2>1. CASE u \notin I
    <3>1. I \in SUBSET (1..i)
      BY <1>1, <2>0, <2>1
    <3>2. Aligned(i, v, I, J)
      BY <2>0, <3>1 DEF Aligned
    <3> DEFINE c == Cost(a, b, i, v, I, J)
    <3>3. c \in Int /\ x <= c /\ Cost(a, b, u, v, I, J) = c + 1
      <4>1. c \in Int
        BY <1>1, <3>2, CostType
      <4> QED
        BY <1>3, <1>6, <3>2, <4>1
    <3> HIDE DEF c
    <3> QED
      BY <1>2, <3>3
  <2>2. CASE v \notin J
    <3>1. J \in SUBSET (1..j)
      BY <1>1, <2>0, <2>2
    <3>2. Aligned(u, j, I, J)
      BY <2>0, <3>1 DEF Aligned
    <3> DEFINE c == Cost(a, b, u, j, I, J)
    <3>3. c \in Int /\ y <= c /\ Cost(a, b, u, v, I, J) = c + 1
      <4>1. c \in Int
        BY <1>1, <3>2, CostType
      <4> QED
        BY <1>4, <1>7, <3>2, <4>1
    <3> HIDE DEF c
    <3> QED
      BY <1>2, <3>3
  <2>3. CASE u \in I /\ v \in J
    <3> DEFINE K == I \ {u}
               L == J \ {v}
    <3>1. K \in SUBSET (1..i) /\ L \in SUBSET (1..j)
      BY <1>1, <2>0
    <3>2. K \cup {u} = I /\ L \cup {v} = J
      BY <2>3
    <3> HIDE DEF K, L
    <3>3. Cardinality(K) = Cardinality(L)
      <4>1. Cardinality(K) \in Nat
        BY <1>1, <3>1, PositionsFinite
      <4>2. Cardinality(L) \in Nat
        BY <1>1, <3>1, PositionsFinite
      <4>3. Cardinality(K \cup {u}) = Cardinality(K) + 1
        <5>1. u \notin K /\ IsFiniteSet(K)
          BY <1>1, <3>1, PositionsFinite DEF K
        <5> QED
          BY <5>1, FS_AddElement
      <4>4. Cardinality(L \cup {v}) = Cardinality(L) + 1
        <5>1. v \notin L /\ IsFiniteSet(L)
          BY <1>1, <3>1, PositionsFinite DEF L
        <5> QED
          BY <5>1, FS_AddElement
      <4>5. Cardinality(K) + 1 = Cardinality(L) + 1
        BY <2>0, <3>2, <4>3, <4>4
      <4> QED
        BY <4>1, <4>2, <4>5
    <3>4. Aligned(i, j, K, L)
      BY <3>1, <3>3 DEF Aligned
    <3> DEFINE c == Cost(a, b, i, j, K, L)
    <3>5. c \in Int /\ z <= c /\ Cost(a, b, u, v, I, J) = c + extra
      <4>1. c \in Int
        BY <1>1, <3>4, CostType
      <4> QED
        BY <1>5, <1>8, <3>2, <3>4, <4>1
    <3> HIDE DEF c
    <3> QED
      BY <1>2, <3>5
  <2> QED
    BY <2>1, <2>2, <2>3
<1> QED
  BY <1>9, <1>10 DEF Least, d

\* Every cell of the table.
LEMMA TableIsLeast ==
  ASSUME NEW D, NEW a, NEW b, DistanceTable(D, a, b), Len(a) \in Nat, Len(b) \in Nat
  PROVE  \A i \in 0..Len(a), j \in 0..Len(b) : Least(D, a, b, i, j)
<1> DEFINE m == Len(a)
           n == Len(b)
           Good(s) == \A i \in 0..m, j \in 0..n : i + j <= s => Least(D, a, b, i, j)
           N == {s \in Nat : Good(s)}
<1>1. 0 \in N
  <2>1. ASSUME NEW i \in 0..m, NEW j \in 0..n, i + j <= 0 PROVE Least(D, a, b, i, j)
    <3>1. i = 0
      BY <2>1
    <3> QED
      BY <3>1, LeastAtBorder
  <2> QED
    BY <2>1
<1>2. ASSUME NEW s \in Nat, s \in N PROVE s + 1 \in N
  <2>1. ASSUME NEW u \in 0..m, NEW v \in 0..n, u + v <= s + 1 PROVE Least(D, a, b, u, v)
    <3>1. CASE u = 0 \/ v = 0
      BY <3>1, LeastAtBorder
    <3>2. CASE u # 0 /\ v # 0
      <4> DEFINE i == u - 1
                 j == v - 1
      <4>1. u \in 1..m /\ v \in 1..n /\ i = u - 1 /\ j = v - 1
        BY <3>2
      <4>2. i \in 0..m /\ j \in 0..n /\ i + v <= s /\ u + j <= s /\ i + j <= s
        BY <2>1, <4>1
      <4> HIDE DEF i, j
      <4>3. Least(D, a, b, i, v) /\ Least(D, a, b, u, j) /\ Least(D, a, b, i, j)
        BY <1>2, <4>2
      <4> QED
        BY <4>1, <4>3, LeastInside
    <3> QED
      BY <3>1, <3>2
  <2> QED
    BY <2>1
<1>3. Nat \subseteq N
  <2> HIDE DEF N
  <2> QED
    BY <1>1, <1>2, Inductive
<1>4. ASSUME NEW i \in 0..m, NEW j \in 0..n PROVE Least(D, a, b, i, j)
  <2>1. i + j \in Nat
    OBVIOUS
  <2>2. Good(i + j)
    BY <1>3, <2>1
  <2> QED
    BY <2>1, <2>2
<1> QED
  BY <1>4

\* The whole name is aligned with itself at no cost.
LEMMA SelfAligned ==
  ASSUME NEW a, NEW n \in Nat
  PROVE  Aligned(n, n, 1..n, 1..n) /\ Cost(a, a, n, n, 1..n, 1..n) = 0
<1>1. Cardinality(1..n) = n
  <2>1. 1 \in Int /\ n \in Int
    OBVIOUS
  <2>2. Cardinality(1..n) = IF 1 > n THEN 0 ELSE n - 1 + 1
    BY <2>1, FS_Interval
  <2> QED
    BY <2>2
<1>2. Unequal(a, a, 1..n, 1..n) = {}
  BY DEF Unequal
<1>3. Cardinality(Unequal(a, a, 1..n, 1..n)) = 0
  BY <1>2, FS_EmptySet
<1> QED
  BY <1>1, <1>3 DEF Aligned, Cost

\* The alignments of the definition are those of the whole texts.
LEMMA AlignmentsAre ==
  ASSUME NEW S, NEW a \in Seq(S), NEW b \in Seq(S)
  PROVE  /\ \A p \in Alignments(a, b) :
              Aligned(Len(a), Len(b), p[1], p[2])
              /\ AlignmentCost(a, b, p) = Cost(a, b, Len(a), Len(b), p[1], p[2])
         /\ \A I, J : Aligned(Len(a), Len(b), I, J) => <<I, J>> \in Alignments(a, b)
<1>0. DOMAIN a = 1..Len(a) /\ DOMAIN b = 1..Len(b)
  OBVIOUS
<1>1. ASSUME NEW p \in Alignments(a, b)
      PROVE /\ Aligned(Len(a), Len(b), p[1], p[2])
            /\ AlignmentCost(a, b, p) = Cost(a, b, Len(a), Len(b), p[1], p[2])
  <2>1. Aligned(Len(a), Len(b), p[1], p[2])
    BY <1>0 DEF Alignments, Aligned
  <2>2. AlignmentCost(a, b, p) = Cost(a, b, Len(a), Len(b), p[1], p[2])
    BY DEF AlignmentCost, Cost, Unequal, Below
  <2> QED
    BY <2>1, <2>2
<1>2. ASSUME NEW I, NEW J, Aligned(Len(a), Len(b), I, J) PROVE <<I, J>> \in Alignments(a, b)
  BY <1>0, <1>2 DEF Alignments, Aligned
<1> QED
  BY <1>1, <1>2

\* levenshteinDistance is the least cost of lining up two texts, whatever they are
\* made of and however long they are.
THEOREM DistanceIs ==
  ASSUME NEW S, NEW a \in Seq(S), NEW b \in Seq(S)
  PROVE  Levenshtein(a, b) = EditDistance(a, b)
<1> DEFINE m == Len(a)
           n == Len(b)
           C == {AlignmentCost(a, b, p) : p \in Alignments(a, b)}
<1>0. m \in Nat /\ n \in Nat
  OBVIOUS
<1>1. PICK D : DistanceTable(D, a, b) /\ Levenshtein(a, b) = IF a = b THEN 0 ELSE D[m][n]
  BY LevenshteinIs
<1> DEFINE d == D[m][n]
<1>2. d \in Nat
  <2>1. m \in 0..m /\ n \in 0..n
    BY <1>0
  <2> QED
    BY <1>1, <2>1 DEF DistanceTable
<1>3. Least(D, a, b, m, n)
  <2>1. m \in 0..m /\ n \in 0..n
    BY <1>0
  <2> QED
    BY <1>0, <1>1, <2>1, TableIsLeast
<1> HIDE DEF m, n
<1>4. /\ \A p \in Alignments(a, b) : /\ Aligned(m, n, p[1], p[2])
                                     /\ AlignmentCost(a, b, p) = Cost(a, b, m, n, p[1], p[2])
      /\ \A I, J : Aligned(m, n, I, J) => <<I, J>> \in Alignments(a, b)
  BY AlignmentsAre DEF m, n
<1>5. C \in SUBSET Int /\ \A c \in C : d <= c
  <2>1. ASSUME NEW p \in Alignments(a, b)
        PROVE  AlignmentCost(a, b, p) \in Int /\ d <= AlignmentCost(a, b, p)
    <3> DEFINE I == p[1]
               J == p[2]
    <3>1. Aligned(m, n, I, J) /\ AlignmentCost(a, b, p) = Cost(a, b, m, n, I, J)
      BY <1>4
    <3> HIDE DEF I, J
    <3>2. Cost(a, b, m, n, I, J) \in Int
      BY <1>0, <3>1, CostType
    <3> QED
      BY <1>3, <3>1, <3>2 DEF Least
  <2> QED
    BY <2>1
<1>6. d \in C
  <2>1. PICK I, J : Aligned(m, n, I, J) /\ d = Cost(a, b, m, n, I, J)
    BY <1>3 DEF Least
  <2> DEFINE p == <<I, J>>
  <2>2. p \in Alignments(a, b) /\ p[1] = I /\ p[2] = J
    BY <1>4, <2>1
  <2>3. AlignmentCost(a, b, p) = d
    BY <1>4, <2>1, <2>2
  <2> QED
    BY <2>2, <2>3
<1>7. EditDistance(a, b) = d
  <2>1. EditDistance(a, b) = Min(C)
    BY DEF EditDistance
  <2> HIDE DEF C, d
  <2>2. d \in Int /\ C \in SUBSET Int /\ C # {} /\ \A c \in C : d <= c
    BY <1>2, <1>5, <1>6
  <2>3. Min(C) \in C /\ \A x \in C : Min(C) <= x
    BY <2>2, MinIs
  <2>4. Min(C) \in Int /\ Min(C) <= d /\ d <= Min(C)
    BY <1>5, <1>6, <2>2, <2>3
  <2> QED
    BY <1>2, <2>1, <2>4
<1>8. ASSUME a = b PROVE d = 0
  <2>1. m = n
    BY <1>8 DEF m, n
  <2>2. Aligned(m, n, 1..n, 1..n) /\ Cost(a, b, m, n, 1..n, 1..n) = 0
    BY <1>0, <1>8, <2>1, SelfAligned
  <2>3. d <= 0
    BY <1>3, <2>2 DEF Least
  <2> QED
    BY <1>2, <2>3
<1> QED
  BY <1>1, <1>7, <1>8

Flags == TownOnly \cup CountryOnly \cup Unweighted \cup SharedFlags

MatchRecord == [start: Nat, end: Nat, possibility: Seq(Nat), origin: Seq(Nat), dist: Nat,
                flags: SUBSET Flags, crf: 0..100, final: 0..1000]

\* The candidates of a text, whose spans end at n at the latest.
Match(n) == {m \in MatchRecord : m.start <= m.end /\ m.end <= n}

\* An entry of a resource map.
Entry == {w \in [name: Seq(Nat), origins: SUBSET Seq(Nat)] : IsFiniteSet(w.origins)}

\* adjustDistanceForMiddleNewlines answers a natural number.
LEMMA DistanceType ==
  ASSUME NEW s \in Seq(Nat), NEW d \in Nat
  PROVE  AdjustedDistance(s, d) \in Nat
<1> DEFINE B == {i \in 2..(Len(s) - 1) : s[i] = Newline}
           breaks == Cardinality(B)
<1>1. breaks \in Nat
  <2>1. IsFiniteSet(2..(Len(s) - 1))
    <3> DEFINE h == Len(s) - 1
    <3>1. h \in Int /\ 2 \in Int
      OBVIOUS
    <3> HIDE DEF h
    <3>2. IsFiniteSet(2..h)
      BY <3>1, FS_Interval
    <3> QED
      BY <3>2 DEF h
  <2>2. B \in SUBSET (2..(Len(s) - 1))
    OBVIOUS
  <2>3. IsFiniteSet(B)
    <3> HIDE DEF B
    <3> QED
      BY <2>1, <2>2, FS_Subset
  <2> QED
    BY <2>3, FS_CardinalityType
<1>2. AdjustedDistance(s, d) = IF Len(s) <= 2 THEN d ELSE Max({0, d - breaks})
  BY DEF AdjustedDistance
<1> DEFINE e == d - breaks
<1>3. e \in Int /\ 0 \in Int
  BY <1>1
<1> HIDE DEF e
<1>4. Max({0, e}) \in {0, e} /\ Max({0, e}) >= 0
  BY <1>3, MaxOfTwo
<1>5. Max({0, e}) \in Nat
  BY <1>3, <1>4
<1> QED
  BY <1>2, <1>5 DEF e

\* A sequence that is given element by element.
LEMMA EachIs ==
  ASSUME NEW s, NEW A, s \in Seq(A), NEW B, NEW f, f \in [DOMAIN s -> B]
  PROVE  f \in Seq(B) /\ Len(f) = Len(s) /\ DOMAIN f = DOMAIN s
<1>1. Len(s) \in Nat /\ DOMAIN s = 1..Len(s)
  OBVIOUS
<1> QED
  BY <1>1

\* What is found for one name.
FoundFor(n, w) ==
  {m \in Match(n) : m.possibility = w.name /\ m.origin \in w.origins /\ m.crf = 0 /\ m.final = 0}

\* The origins of an entry in order are its origins.
LEMMA OriginsIs ==
  ASSUME NEW O \in SUBSET Seq(Nat), IsFiniteSet(O)
  PROVE  InOrder(O, Precedes) \in Seq(O)
<1> DEFINE R == {p \in O \X O : Precedes(p[1], p[2])}
<1>1. InOrder(O, Precedes) = Listed(O, R)
  BY DEF InOrder
<1>2. \A s, t \in O : <<s, t>> \in R <=> Precedes(s, t)
  OBVIOUS
<1> HIDE DEF R
<1>3. StrictOrder(O, R)
  BY <1>2, PrecedesOrders
<1> DEFINE n == Cardinality(O)
<1>4. n \in Nat /\ Listed(O, R) \in [1..n -> O]
  BY <1>3, ListedIs
<1> HIDE DEF n
<1>5. Listed(O, R) \in Seq(O)
  BY <1>4
<1> QED
  BY <1>1, <1>5

\* What is found for a name is well-formed, and called by that name.
LEMMA MatchesOfIs ==
  ASSUME NEW query \in Seq(Nat), NEW w \in Entry, NEW cutoff, NEW maxDistance \in Nat
  PROVE  MatchesOf(query, w, cutoff, maxDistance) \in Seq(FoundFor(Len(query), w))
<1> DEFINE short == Len(w.name) <= 2
           tolerance == IF short THEN 0 ELSE maxDistance
           origins == InOrder(w.origins, Precedes)
           match(m, origin) ==
             [start |-> m.start, end |-> m.end, possibility |-> w.name, origin |-> origin,
              dist |-> AdjustedDistance(Slice(query, m.start, m.end), m.dist),
              flags |-> IF Standalone(query, m) THEN {} ELSE {"IsInsideAnotherWord"},
              crf |-> 0, final |-> 0]
           per(m) == [k \in DOMAIN origins |-> match(m, origins[k])]
           all == NearMatches(query, w.name, tolerance)
           P == {i \in DOMAIN all : ~short \/ Standalone(query, all[i])}
           near == Subsequence(all, P)
           F == FoundFor(Len(query), w)
           each == [k \in DOMAIN near |-> per(near[k])]
<1>0. w.name \in Seq(Nat) /\ w.origins \in SUBSET Seq(Nat) /\ IsFiniteSet(w.origins)
  BY DEF Entry
<1>1. tolerance \in Nat
  OBVIOUS
<1> DEFINE C == Candidates(query, w.name, tolerance)
<1>2. C \in SUBSET Stretch /\ \A m \in C : m.start < m.end /\ m.end <= Len(query)
  <2> HIDE DEF tolerance
  <2> QED
    BY <1>0, <1>1, CandidatesType
<1>3. all \in Seq(C)
  <2> HIDE DEF tolerance
  <2> QED
    BY <1>0, <1>1, NearMatchesIs
<1>4. near \in Seq(C)
  <2>1. P \in SUBSET DOMAIN all
    OBVIOUS
  <2> HIDE DEF all, P, C
  <2> QED
    BY <1>3, <2>1, SubsequenceIs
<1>5. origins \in Seq(w.origins)
  <2> DEFINE O == w.origins
  <2>1. O \in SUBSET Seq(Nat) /\ IsFiniteSet(O)
    BY <1>0
  <2> HIDE DEF O
  <2>2. InOrder(O, Precedes) \in Seq(O)
    BY <2>1, OriginsIs
  <2> QED
    BY <2>2 DEF O
<1> HIDE DEF origins, all, P, C, near, tolerance
<1>6. ASSUME NEW m \in C, NEW origin \in w.origins PROVE match(m, origin) \in F
  <2>1. m.start \in Nat /\ m.end \in Nat /\ m.dist \in Nat /\ m.start < m.end /\ m.end <= Len(query)
    BY <1>2 DEF Stretch
  <2>2. Slice(query, m.start, m.end) \in Seq(Nat)
    BY <2>1, SliceType
  <2> DEFINE d == AdjustedDistance(Slice(query, m.start, m.end), m.dist)
             fl == IF Standalone(query, m) THEN {} ELSE {"IsInsideAnotherWord"}
  <2>3. d \in Nat
    BY <2>1, <2>2, DistanceType
  <2>4. fl \in SUBSET Flags
    BY DEF Flags, SharedFlags
  <2>5. origin \in Seq(Nat)
    BY <1>0
  <2> HIDE DEF d, fl
  <2> DEFINE r == [start |-> m.start, end |-> m.end, possibility |-> w.name, origin |-> origin,
                   dist |-> d, flags |-> fl, crf |-> 0, final |-> 0]
  <2>6. r \in MatchRecord
    BY <1>0, <2>1, <2>3, <2>4, <2>5 DEF MatchRecord
  <2>7. /\ r.start = m.start /\ r.end = m.end /\ r.possibility = w.name /\ r.origin = origin
        /\ r.crf = 0 /\ r.final = 0
    OBVIOUS
  <2> HIDE DEF r
  <2>8. r.start <= r.end /\ r.end <= Len(query)
    BY <2>1, <2>7
  <2>9. r \in F
    BY <2>6, <2>7, <2>8 DEF FoundFor, Match
  <2> QED
    BY <2>9 DEF r, d, fl
<1> HIDE DEF match, F
<1>7. ASSUME NEW m \in C PROVE per(m) \in Seq(F)
  <2>1. \A k \in DOMAIN origins : origins[k] \in w.origins
    BY <1>5
  <2>2. per(m) \in [DOMAIN origins -> F]
    BY <1>6, <2>1
  <2> HIDE DEF per
  <2> QED
    BY <1>5, <2>2, EachIs
<1> HIDE DEF per
<1>8. each \in Seq(Seq(F))
  <2>1. \A k \in DOMAIN near : near[k] \in C
    BY <1>4
  <2>2. each \in [DOMAIN near -> Seq(F)]
    BY <1>7, <2>1
  <2> HIDE DEF each
  <2> QED
    BY <1>4, <2>2, EachIs
<1> HIDE DEF each
<1>9. FlattenSeq(each) \in Seq(F)
  BY <1>8, FlattenIs
<1>10. MatchesOf(query, w, cutoff, maxDistance)
         = IF PartialRatio(query, w.name, tolerance) < cutoff THEN <<>> ELSE FlattenSeq(each)
  BY DEF MatchesOf, Select, each, per, match, near, P, all, origins, tolerance
<1> QED
  BY <1>9, <1>10 DEF F

\* sortedCandidates: the entries of one name become one.
LEMMA SortedCandidatesIs ==
  ASSUME NEW words \in SUBSET Entry, IsFiniteSet(words)
  PROVE  /\ SortedCandidates(words) \in Seq(Entry)
         /\ \A x : Has(SortedCandidates(words), x) =>
              /\ x.name # <<>> /\ \E w \in words : w.name = x.name
              /\ \A o \in x.origins : \E w \in words : w.name = x.name /\ o \in w.origins
<1> DEFINE names == {w.name : w \in words} \ {<<>>}
           of(n) == {v \in words : v.name = n}
           merged(n) == [name |-> n, origins |-> UNION {w.origins : w \in of(n)}]
           E == {merged(n) : n \in names}
           R == {p \in E \X E : Precedes(p[1].name, p[2].name)}
<1>1. SortedCandidates(words) = Listed(E, R)
  BY DEF SortedCandidates, InOrder
<1>2. ASSUME NEW w \in words PROVE w.name \in Seq(Nat) /\ w.origins \in SUBSET Seq(Nat) /\ IsFiniteSet(w.origins)
  BY DEF Entry
<1>3. IsFiniteSet(names)
  <2> DEFINE f == [w \in words |-> w.name]
  <2>1. \A n \in names : \E w \in words : n = f[w]
    OBVIOUS
  <2> HIDE DEF names, f
  <2> QED
    BY <2>1, FiniteImage
<1>4. ASSUME NEW n \in names
      PROVE  /\ merged(n) \in Entry
             /\ n # <<>> /\ \E w \in words : w.name = n
             /\ \A o \in merged(n).origins : \E w \in words : w.name = n /\ o \in w.origins
  <2> DEFINE V == of(n)
             O == {w.origins : w \in V}
             U == UNION O
  <2>1. V \in SUBSET words
    OBVIOUS
  <2>2. IsFiniteSet(V)
    <3> HIDE DEF V
    <3> QED
      BY <2>1, FS_Subset
  <2>3. IsFiniteSet(O)
    <3> DEFINE f == [w \in V |-> w.origins]
    <3>1. \A o \in O : \E w \in V : o = f[w]
      OBVIOUS
    <3> HIDE DEF V, O, f
    <3> QED
      BY <2>2, <3>1, FiniteImage
  <2>4. \A o \in O : IsFiniteSet(o) /\ o \in SUBSET Seq(Nat)
    BY <1>2
  <2>5. IsFiniteSet(U) /\ U \in SUBSET Seq(Nat)
    <3>1. IsFiniteSet(U)
      <4> HIDE DEF O
      <4> QED
        BY <2>3, <2>4, FS_UNION
    <3> HIDE DEF O
    <3> QED
      BY <2>4, <3>1
  <2>6. n \in Seq(Nat) /\ n # <<>> /\ \E w \in words : w.name = n
    BY <1>2
  <2>7. \A o \in U : \E w \in words : w.name = n /\ o \in w.origins
    OBVIOUS
  <2> HIDE DEF U
  <2>8. merged(n) = [name |-> n, origins |-> U]
    BY DEF U
  <2>9. merged(n) \in Entry /\ merged(n).origins = U
    BY <2>5, <2>6, <2>8 DEF Entry
  <2> QED
    BY <2>6, <2>7, <2>9
<1>5. \A n \in names : merged(n).name = n
  OBVIOUS
<1>6. IsFiniteSet(E)
  <2> DEFINE f == [n \in names |-> merged(n)]
  <2>1. \A e \in E : \E n \in names : e = f[n]
    OBVIOUS
  <2> HIDE DEF names, merged, E, f
  <2> QED
    BY <1>3, <2>1, FiniteImage
<1>7. \A e \in E : e.name \in names /\ e = merged(e.name)
  BY <1>5
<1>8. \A x, y \in E : <<x, y>> \in R <=> Precedes(x.name, y.name)
  OBVIOUS
<1>9. names \in SUBSET Seq(Nat)
  BY <1>2
<1>10. StrictOrder(E, R)
  <2> DEFINE Q == {p \in names \X names : Precedes(p[1], p[2])}
  <2>1. \A s, t \in names : <<s, t>> \in Q <=> Precedes(s, t)
    OBVIOUS
  <2> HIDE DEF names, merged, E, R, Q
  <2>2. StrictOrder(names, Q)
    BY <1>9, <2>1, PrecedesOrders
  <2>3. \A x, y \in E : <<x, y>> \in R <=> <<x.name, y.name>> \in Q
    BY <1>7, <1>8, <2>1
  <2>4. \A x \in E : <<x, x>> \notin R
    BY <1>7, <2>2, <2>3 DEF StrictOrder
  <2>5. ASSUME NEW x \in E, NEW y \in E, NEW z \in E, <<x, y>> \in R, <<y, z>> \in R
        PROVE  <<x, z>> \in R
    <3>1. x.name \in names /\ y.name \in names /\ z.name \in names
      BY <1>7
    <3>2. <<x.name, y.name>> \in Q /\ <<y.name, z.name>> \in Q
      BY <2>3, <2>5
    <3>3. <<x.name, z.name>> \in Q
      BY <2>2, <3>1, <3>2 DEF StrictOrder
    <3> QED
      BY <2>3, <3>3
  <2>6. ASSUME NEW x \in E, NEW y \in E, x # y PROVE <<x, y>> \in R \/ <<y, x>> \in R
    <3>1. x.name \in names /\ y.name \in names /\ x.name # y.name
      BY <1>7, <2>6
    <3>2. <<x.name, y.name>> \in Q \/ <<y.name, x.name>> \in Q
      BY <2>2, <3>1 DEF StrictOrder
    <3> QED
      BY <2>3, <3>2
  <2> QED
    BY <2>4, <2>5, <2>6 DEF StrictOrder
<1> DEFINE k == Cardinality(E)
           l == Listed(E, R)
<1>11. k \in Nat /\ l \in [1..k -> E]
  <2> HIDE DEF E, R
  <2> QED
    BY <1>6, <1>10, ListedIs
<1>12. \A e \in E : /\ e \in Entry
                    /\ e.name # <<>> /\ \E w \in words : w.name = e.name
                    /\ \A o \in e.origins : \E w \in words : w.name = e.name /\ o \in w.origins
  <2> HIDE DEF names, merged, E
  <2> QED
    BY <1>4, <1>7
<1> HIDE DEF E, k, l
<1>13. l \in Seq(Entry) /\ DOMAIN l = 1..k /\ \A i \in 1..k : l[i] \in E
  BY <1>11, <1>12
<1>14. \A x : Has(l, x) => x \in E
  BY <1>13 DEF Has
<1> QED
  BY <1>1, <1>12, <1>13, <1>14 DEF l

\* ScanAllBatched: every candidate has a name of the map and one of its origins.
Found(n, words) ==
  {m \in Match(n) : /\ m.crf = 0 /\ m.final = 0 /\ m.possibility # <<>>
                    /\ \E w \in words : m.possibility = w.name /\ m.origin \in w.origins}

\* ScanAllBatched finds the names it is given.
LEMMA ScanIs ==
  ASSUME NEW query \in Seq(Nat), NEW words \in SUBSET Entry, IsFiniteSet(words),
         NEW cutoff, NEW maxDistance \in Nat
  PROVE  Scan(query, words, cutoff, maxDistance) \in Seq(Found(Len(query), words))
<1> DEFINE candidates == SortedCandidates(words)
           F == Found(Len(query), words)
           each == [k \in DOMAIN candidates |-> MatchesOf(query, candidates[k], cutoff, maxDistance)]
<1>1. /\ candidates \in Seq(Entry)
      /\ \A x : Has(candidates, x) =>
           /\ x.name # <<>>
           /\ \A o \in x.origins : \E w \in words : w.name = x.name /\ o \in w.origins
  BY SortedCandidatesIs
<1> HIDE DEF candidates
<1>2. ASSUME NEW k \in DOMAIN candidates
      PROVE  MatchesOf(query, candidates[k], cutoff, maxDistance) \in Seq(F)
  <2> DEFINE e == candidates[k]
             G == FoundFor(Len(query), e)
             s == MatchesOf(query, e, cutoff, maxDistance)
  <2>1. e \in Entry /\ Has(candidates, e)
    BY <1>1 DEF Has
  <2> HIDE DEF e
  <2>2. s \in Seq(G)
    BY <2>1, MatchesOfIs
  <2>3. G \subseteq F
    <3> SUFFICES ASSUME NEW m \in G PROVE m \in F
      OBVIOUS
    <3>1. m \in Match(Len(query)) /\ m.possibility = e.name /\ m.origin \in e.origins
          /\ m.crf = 0 /\ m.final = 0
      BY DEF FoundFor
    <3>2. e.name # <<>> /\ \E w \in words : w.name = e.name /\ m.origin \in w.origins
      BY <1>1, <2>1, <3>1
    <3> QED
      BY <3>1, <3>2 DEF Found
  <2> HIDE DEF F, G, s
  <2>4. s \in Seq(F)
    BY <2>2, <2>3
  <2> QED
    BY <2>4 DEF s, e
<1>3. each \in Seq(Seq(F))
  <2>1. each \in [DOMAIN candidates -> Seq(F)]
    BY <1>2
  <2> HIDE DEF each, F
  <2> QED
    BY <1>1, <2>1, EachIs
<1>4. Scan(query, words, cutoff, maxDistance) = FlattenSeq(each)
  BY DEF Scan, candidates
<1> HIDE DEF each, F
<1>5. FlattenSeq(each) \in Seq(F)
  BY <1>3, FlattenIs
<1> QED
  BY <1>4, <1>5 DEF F

(***************************************************************************)
(* Stable sorts: B holds the pairs of positions whose elements are out of  *)
(* question, the others stay as they are.                                  *)
(***************************************************************************)
WeakOrder(D, B) ==
  /\ \A i, j \in D : <<i, j>> \in B => <<j, i>> \notin B
  /\ \A i, j, k \in D : <<i, j>> \in B => <<i, k>> \in B \/ <<k, j>> \in B

Stable(D, B) == {p \in D \X D : p \in B \/ (<<p[2], p[1]>> \notin B /\ p[1] < p[2])}

\* Out of a weak order and the positions, a strict total order.
LEMMA StableOrders ==
  ASSUME NEW D \in SUBSET Nat, NEW B, WeakOrder(D, B)
  PROVE  StrictOrder(D, Stable(D, B))
<1> DEFINE R == Stable(D, B)
<1>1. \A i, j \in D : <<i, j>> \in R <=> <<i, j>> \in B \/ (<<j, i>> \notin B /\ i < j)
  BY DEF Stable
<1> HIDE DEF R
<1>2. \A i \in D : <<i, i>> \notin R
  BY <1>1 DEF WeakOrder
<1>3. ASSUME NEW i \in D, NEW j \in D, NEW k \in D, <<i, j>> \in R, <<j, k>> \in R
      PROVE  <<i, k>> \in R
  <2>1. i \in Nat /\ j \in Nat /\ k \in Nat
    OBVIOUS
  <2>2. CASE <<i, k>> \in B
    BY <1>1, <2>2
  <2>3. CASE <<k, i>> \in B
    <3>1. <<k, j>> \in B \/ <<j, i>> \in B
      BY <2>3 DEF WeakOrder
    <3>2. <<j, k>> \notin B \/ <<k, j>> \notin B
      BY DEF WeakOrder
    <3>3. <<i, j>> \notin B \/ <<j, i>> \notin B
      BY DEF WeakOrder
    <3>4. <<i, j>> \in B \/ <<j, i>> \notin B
      BY <1>1, <1>3
    <3>5. <<j, k>> \in B \/ <<k, j>> \notin B
      BY <1>1, <1>3
    <3> QED
      BY <3>1, <3>2, <3>3, <3>4, <3>5
  <2>4. CASE <<i, k>> \notin B /\ <<k, i>> \notin B
    <3>1. <<i, j>> \in B => <<k, j>> \in B
      BY <2>4 DEF WeakOrder
    <3>2. <<j, k>> \in B => <<j, i>> \in B
      BY <2>4 DEF WeakOrder
    <3>3. <<i, j>> \in B \/ (<<j, i>> \notin B /\ i < j)
      BY <1>1, <1>3
    <3>4. <<j, k>> \in B \/ (<<k, j>> \notin B /\ j < k)
      BY <1>1, <1>3
    <3>5. <<j, k>> \notin B \/ <<k, j>> \notin B
      BY DEF WeakOrder
    <3>6. <<i, j>> \notin B \/ <<j, i>> \notin B
      BY DEF WeakOrder
    <3>7. i < j /\ j < k
      BY <3>1, <3>2, <3>3, <3>4, <3>5, <3>6
    <3>8. i < k
      BY <2>1, <3>7
    <3> QED
      BY <1>1, <2>4, <3>8
  <2> QED
    BY <2>2, <2>3, <2>4
<1>4. ASSUME NEW i \in D, NEW j \in D, i # j PROVE <<i, j>> \in R \/ <<j, i>> \in R
  <2>1. i < j \/ j < i
    BY <1>4
  <2> QED
    BY <1>1, <2>1
<1> QED
  BY <1>2, <1>3, <1>4 DEF StrictOrder, R

\* A stable sort keeps the elements.
LEMMA SortKeeps ==
  ASSUME NEW T, NEW s \in Seq(T), NEW B, WeakOrder(DOMAIN s, B),
         NEW q, q = [k \in DOMAIN s |-> s[Listed(DOMAIN s, Stable(DOMAIN s, B))[k]]]
  PROVE  q \in Seq(T) /\ Len(q) = Len(s) /\ \A x : Has(q, x) <=> Has(s, x)
<1>1. DOMAIN s \in SUBSET Nat
  OBVIOUS
<1> DEFINE R == Stable(DOMAIN s, B)
<1>2. StrictOrder(DOMAIN s, R)
  BY <1>1, StableOrders
<1>3. q = [k \in DOMAIN s |-> s[Listed(DOMAIN s, R)[k]]]
  OBVIOUS
<1> HIDE DEF R
<1> QED
  BY <1>2, <1>3, Permuted

(***************************************************************************)
(* What the stages make of a candidate.                                    *)
(***************************************************************************)
\* It stays the same stretch and the same name.
Moved(y, x) ==
  /\ x \in MatchRecord
  /\ x.start = y.start /\ x.end = y.end
  /\ x.possibility = y.possibility /\ x.origin = y.origin /\ x.dist = y.dist

\* It gets flags.
Adorned(y, x) == Moved(y, x) /\ x.crf = y.crf /\ y.flags \subseteq x.flags

MovedAll(s, t) ==
  t \in Seq(MatchRecord) /\ \A x : Has(t, x) => \E y : Has(s, y) /\ Moved(y, x)

AdornedAll(s, t) ==
  MovedAll(s, t) /\ \A y : Has(s, y) => \E x : Has(t, x) /\ Adorned(y, x)

\* One move after the other is a move.
LEMMA MovedOn ==
  ASSUME NEW z, NEW y, NEW x, Moved(z, y), Moved(y, x)
  PROVE  Moved(z, x)
BY DEF Moved

\* Flags after flags are flags.
LEMMA AdornedOn ==
  ASSUME NEW z, NEW y, NEW x, Adorned(z, y), Adorned(y, x)
  PROVE  Adorned(z, x)
BY DEF Adorned, Moved

\* One move of a whole sequence after the other is a move.
LEMMA MovedAllOn ==
  ASSUME NEW r, NEW s, NEW t, MovedAll(r, s), MovedAll(s, t)
  PROVE  MovedAll(r, t)
<1>1. ASSUME NEW x, Has(t, x) PROVE \E z : Has(r, z) /\ Moved(z, x)
  <2>1. PICK y : Has(s, y) /\ Moved(y, x)
    BY <1>1 DEF MovedAll
  <2>2. PICK z : Has(r, z) /\ Moved(z, y)
    BY <2>1 DEF MovedAll
  <2>3. Moved(z, x)
    BY <2>1, <2>2, MovedOn
  <2> QED
    BY <2>2, <2>3
<1> QED
  BY <1>1 DEF MovedAll

\* Flags for a whole sequence after flags are flags.
LEMMA AdornedAllOn ==
  ASSUME NEW r, NEW s, NEW t, AdornedAll(r, s), AdornedAll(s, t)
  PROVE  AdornedAll(r, t)
<1>1. MovedAll(r, t)
  BY MovedAllOn DEF AdornedAll
<1>2. ASSUME NEW z, Has(r, z) PROVE \E x : Has(t, x) /\ Adorned(z, x)
  <2>1. PICK y : Has(s, y) /\ Adorned(z, y)
    BY <1>2 DEF AdornedAll
  <2>2. PICK x : Has(t, x) /\ Adorned(y, x)
    BY <2>1 DEF AdornedAll
  <2>3. Adorned(z, x)
    BY <2>1, <2>2, AdornedOn
  <2> QED
    BY <2>2, <2>3
<1> QED
  BY <1>1, <1>2 DEF AdornedAll

\* One by one.
LEMMA MovedEach ==
  ASSUME NEW A, NEW s \in Seq(A), NEW t, DOMAIN t = DOMAIN s, t = [k \in DOMAIN s |-> t[k]],
         \A k \in DOMAIN s : Moved(s[k], t[k])
  PROVE  MovedAll(s, t)
<1>1. \A k \in DOMAIN s : t[k] \in MatchRecord
  BY DEF Moved
<1>2. t \in [DOMAIN s -> MatchRecord]
  BY <1>1
<1>3. t \in Seq(MatchRecord)
  BY <1>2, EachIs
<1> QED
  BY <1>3 DEF MovedAll, Has

\* A sequence is adorned if each of its candidates is.
LEMMA AdornedEach ==
  ASSUME NEW A, NEW s \in Seq(A), NEW t, DOMAIN t = DOMAIN s, t = [k \in DOMAIN s |-> t[k]],
         \A k \in DOMAIN s : Adorned(s[k], t[k])
  PROVE  AdornedAll(s, t)
<1>1. \A k \in DOMAIN s : Moved(s[k], t[k])
  BY DEF Adorned
<1>2. MovedAll(s, t)
  BY <1>1, MovedEach
<1> QED
  BY <1>2 DEF AdornedAll, Has

\* A candidate, field by field.
LEMMA RecordIs ==
  ASSUME NEW m \in MatchRecord
  PROVE  /\ m = [start |-> m.start, end |-> m.end, possibility |-> m.possibility,
                 origin |-> m.origin, dist |-> m.dist, flags |-> m.flags, crf |-> m.crf,
                 final |-> m.final]
         /\ m.start \in Nat /\ m.end \in Nat /\ m.possibility \in Seq(Nat)
         /\ m.origin \in Seq(Nat) /\ m.dist \in Nat /\ m.flags \in SUBSET Flags
         /\ m.crf \in 0..100 /\ m.final \in 0..1000
BY DEF MatchRecord

\* The types of the fields, with numbers as bounds.
LEMMA FieldsAre ==
  ASSUME NEW m \in MatchRecord
  PROVE  /\ m.start \in Nat /\ m.end \in Nat /\ m.possibility \in Seq(Nat)
         /\ m.origin \in Seq(Nat) /\ m.dist \in Nat /\ m.flags \in SUBSET Flags
         /\ m.crf \in Nat /\ m.crf <= 100 /\ m.final \in Nat /\ m.final <= 1000
<1>1. m.crf \in 0..100 /\ m.final \in 0..1000
  BY RecordIs
<1>2. m.crf \in Nat /\ m.crf <= 100 /\ m.final \in Nat /\ m.final <= 1000
  BY <1>1
<1> QED
  BY <1>2, RecordIs

\* AddFlags adorns a candidate.
LEMMA AddFlagsIs ==
  ASSUME NEW m \in MatchRecord, NEW F \in SUBSET Flags
  PROVE  Adorned(m, AddFlags(m, F)) /\ AddFlags(m, F).flags = m.flags \cup F
                                    /\ AddFlags(m, F).final = m.final
<1> DEFINE x == [start |-> m.start, end |-> m.end, possibility |-> m.possibility,
                 origin |-> m.origin, dist |-> m.dist, flags |-> m.flags \cup F, crf |-> m.crf,
                 final |-> m.final]
<1>1. AddFlags(m, F) = x
  <2>1. m = [start |-> m.start, end |-> m.end, possibility |-> m.possibility,
             origin |-> m.origin, dist |-> m.dist, flags |-> m.flags, crf |-> m.crf,
             final |-> m.final]
    BY RecordIs
  <2>2. [m EXCEPT !.flags = m.flags \cup F] = x
    BY <2>1
  <2> QED
    BY <2>2 DEF AddFlags
<1>2. m.flags \cup F \in SUBSET Flags
  BY RecordIs
<1>3. x \in MatchRecord
  BY <1>2, RecordIs DEF MatchRecord
<1>4. Adorned(m, x)
  BY <1>3 DEF Adorned, Moved
<1> QED
  BY <1>1, <1>4

\* The separator check gives a flag.
LEMMA SeparatorTypoIs ==
  ASSUME NEW t, NEW m
  PROVE  SeparatorTypo(t, m) \in SUBSET Flags
<1> DEFINE c == /\ m.dist > 0
                /\ WithoutSeparators(Matched(t, m)) = WithoutSeparators(m.possibility)
<1>1. SeparatorTypo(t, m) = When(c, "IsSeparatorTypo")
  BY DEF SeparatorTypo
<1>2. "IsSeparatorTypo" \in Flags
  BY DEF Flags, Unweighted
<1> HIDE DEF c
<1> QED
  BY <1>1, <1>2 DEF When

\* The population gives flags.
LEMMA PopulationFlagsIs ==
  ASSUME NEW m
  PROVE  PopulationFlags(m) \in SUBSET Flags
<1>1. {"IsMetropolis", "IsSmallTown", "IsNotLargestTownWithName"} \subseteq Flags
  BY DEF Flags, TownOnly
<1> QED
  BY <1>1 DEF PopulationFlags, When

\* The street check gives a flag.
LEMMA StreetFlagIs ==
  ASSUME NEW m, NEW answer
  PROVE  StreetFlag(m, answer) \in SUBSET Flags
<1>1. "IsInsideStreet" \in Flags
  BY DEF Flags, SharedFlags
<1> DEFINE inside == {i \in m.start..(m.end - 1) :
                   \E s \in Range(answer.spans) : s.tag = "STREET" /\ i \in s.start..(s.end - 1)}
           c == /\ inside # {}
                /\ 100 * Cardinality(inside) >= StreetPercent * (m.end - m.start)
<1>2. StreetFlag(m, answer) = When(c, "IsInsideStreet")
  BY DEF StreetFlag
<1> HIDE DEF c
<1> QED
  BY <1>1, <1>2 DEF When

\* The check for a line of its own gives a flag.
LEMMA AloneOnLineIs ==
  ASSUME NEW t, NEW m
  PROVE  AloneOnLine(t, m) \in SUBSET Flags
<1>1. "IsAloneOnLine" \in Flags
  BY DEF Flags, TownOnly
<1> QED
  BY <1>1 DEF AloneOnLine, When

\* The flags of one town adorn it.
LEMMA TownFlagsIs ==
  ASSUME NEW t, NEW answer, NEW m \in MatchRecord
  PROVE  Adorned(m, TownFlags(t, answer, m))
<1> DEFINE F == SeparatorTypo(t, m) \cup PopulationFlags(m) \cup StreetFlag(m, answer)
                \cup AloneOnLine(t, m)
<1>1. F \in SUBSET Flags
  BY SeparatorTypoIs, PopulationFlagsIs, StreetFlagIs, AloneOnLineIs
<1>2. TownFlags(t, answer, m) = AddFlags(m, F)
  BY DEF TownFlags
<1> HIDE DEF F
<1> QED
  BY <1>1, <1>2, AddFlagsIs

\* The province aliases give a flag.
LEMMA ProvinceFlagsIs ==
  ASSUME NEW m
  PROVE  ProvinceFlags(m) \in SUBSET Flags
<1>1. {"IsCommonStateProvinceAlias", "IsUncommonStateProvinceAlias"} \subseteq Flags
  BY DEF Flags, SharedFlags
<1> QED
  BY <1>1 DEF ProvinceFlags

\* The network's country head gives a flag.
LEMMA AgreementFlagsIs ==
  ASSUME NEW m, NEW answer
  PROVE  AgreementFlags(m, answer) \in SUBSET Flags
<1>1. {"MLPStronglyAgrees", "MLPAgrees", "MLPDoesntDisagree"} \subseteq Flags
  BY DEF Flags, CountryOnly
<1> QED
  BY <1>1 DEF AgreementFlags, When

\* The features of a country give flags.
LEMMA FeatureFlagsIs ==
  ASSUME NEW t, NEW m, NEW answer
  PROVE  FeatureFlags(t, answer, m) \in SUBSET Flags
<1>1. {"PhonePrefixIsPresent", "DomainIsPresent", "PostalCodeIsPresent"} \subseteq Flags
  BY DEF Flags, CountryOnly
<1> QED
  BY <1>1 DEF FeatureFlags, When

\* The flags of one country adorn it.
LEMMA CountryFlagsIs ==
  ASSUME NEW t, NEW answer, NEW m \in MatchRecord
  PROVE  Adorned(m, CountryFlags(t, answer, m))
<1> DEFINE F == SeparatorTypo(t, m) \cup When(m.origin \in Ibans[t], "IBANIsPresent")
                \cup StreetFlag(m, answer) \cup ProvinceFlags(m) \cup AgreementFlags(m, answer)
                \cup FeatureFlags(t, answer, m)
<1>1. When(m.origin \in Ibans[t], "IBANIsPresent") \in SUBSET Flags
  BY DEF When, Flags, CountryOnly
<1>2. F \in SUBSET Flags
  BY <1>1, SeparatorTypoIs, StreetFlagIs, ProvinceFlagsIs, AgreementFlagsIs, FeatureFlagsIs
<1>3. CountryFlags(t, answer, m) = AddFlags(m, F)
  BY DEF CountryFlags
<1> HIDE DEF F
<1> QED
  BY <1>2, <1>3, AddFlagsIs

\* FlagMatchesIncludedInAnother gives flags.
LEMMA InclusionFlagsIs ==
  ASSUME NEW s, NEW k
  PROVE  InclusionFlags(s, k) \in SUBSET Flags
<1>1. {"IsInsideAnotherLowerRankedMatch", "IsInsideAnotherHigherRankedMatch"} \subseteq Flags
  BY DEF Flags, SharedFlags
<1> QED
  BY <1>1 DEF InclusionFlags, When

\* Its countries adorn a town.
LEMMA RelateTownIs ==
  ASSUME NEW a, NEW s, NEW certain, NEW m \in MatchRecord
  PROVE  Adorned(m, RelateTown(a, s, certain, m))
<1> DEFINE partners == {c \in Range(s) : ValidPair(m, c)}
           F == When(\E c \in partners : TRUE, "CountryIsPresent")
             \cup When(\E c \in partners : "IsSuggestedCountry" \in c.flags \/ Generated(c),
                       "SuggestedCountryIsPresent")
             \cup When(\E c \in partners : Close(a, m, c), "IsVeryCloseToCountry")
             \cup When(\E c \in partners : SameLine(a, m, c), "IsOnSameLineAsCountry")
             \cup When(certain # <<>> /\ m.origin = certain, "MLPCountryIsPresent")
<1>1. {"CountryIsPresent", "SuggestedCountryIsPresent", "IsVeryCloseToCountry",
       "IsOnSameLineAsCountry", "MLPCountryIsPresent"} \subseteq Flags
  BY DEF Flags, TownOnly
<1>2. F \in SUBSET Flags
  <2> HIDE DEF partners
  <2> QED
    BY <1>1 DEF When
<1>3. RelateTown(a, s, certain, m) = AddFlags(m, F)
  BY DEF RelateTown
<1> HIDE DEF F
<1> QED
  BY <1>2, <1>3, AddFlagsIs

\* Its towns adorn a country.
LEMMA RelateCountryIs ==
  ASSUME NEW a, NEW s, NEW m \in MatchRecord
  PROVE  Adorned(m, RelateCountry(a, s, m))
<1> DEFINE partners == {t \in Range(s) : ValidPair(t, m) /\ "IsFromExtendedData" \notin t.flags}
           F == When(\E t \in partners : TRUE, "TownIsPresent")
             \cup When(\E t \in partners : Close(a, t, m), "IsVeryCloseToTown")
             \cup When(\E t \in partners : SameLine(a, t, m), "IsOnSameLineAsTown")
<1>1. {"TownIsPresent", "IsVeryCloseToTown", "IsOnSameLineAsTown"} \subseteq Flags
  BY DEF Flags, CountryOnly
<1>2. F \in SUBSET Flags
  <2> HIDE DEF partners
  <2> QED
    BY <1>1 DEF When
<1>3. RelateCountry(a, s, m) = AddFlags(m, F)
  BY DEF RelateCountry
<1> HIDE DEF F
<1> QED
  BY <1>2, <1>3, AddFlagsIs

\* CheckReasonableMistakes adorns a candidate.
LEMMA MistakeFlagIs ==
  ASSUME NEW a, NEW answer, NEW tag, NEW m \in MatchRecord
  PROVE  Adorned(m, MistakeFlag(a, answer, tag, m))
<1> DEFINE F == When(\E p \in Predictions(a, answer, tag) : Includes(p, Matched(a, m)),
                     "CouldBeReasonableMistake")
<1>1. F \in SUBSET Flags
  BY DEF When, Flags, SharedFlags
<1>2. MistakeFlag(a, answer, tag, m) = AddFlags(m, F)
  BY DEF MistakeFlag
<1> HIDE DEF F
<1> QED
  BY <1>1, <1>2, AddFlagsIs

\* A postcode adorns its towns.
LEMMA PostcodeTownFlagIs ==
  ASSUME NEW P, NEW m \in MatchRecord
  PROVE  Adorned(m, PostcodeTownFlag(P, m))
<1> DEFINE F == When(\E p \in P : /\ p.possibility # <<>>
                                  /\ p.origin = m.origin
                                  /\ m.possibility \in Aliases(p.possibility),
                     "PostcodeForTownFound")
<1>1. F \in SUBSET Flags
  BY DEF When, Flags, TownOnly
<1>2. PostcodeTownFlag(P, m) = AddFlags(m, F)
  BY DEF PostcodeTownFlag
<1> HIDE DEF F
<1> QED
  BY <1>1, <1>2, AddFlagsIs

\* A postcode adorns its country.
LEMMA PostcodeCountryFlagIs ==
  ASSUME NEW P, NEW m \in MatchRecord
  PROVE  Adorned(m, PostcodeCountryFlag(P, m))
<1> DEFINE F == When(\E p \in P : <<>> \notin {p.matched, p.origin} /\ p.origin = m.origin,
                     "PostalCodeIsPresent")
<1>1. F \in SUBSET Flags
  BY DEF When, Flags, CountryOnly
<1>2. PostcodeCountryFlag(P, m) = AddFlags(m, F)
  BY DEF PostcodeCountryFlag
<1> HIDE DEF F
<1> QED
  BY <1>1, <1>2, AddFlagsIs

\* The mean of percentages, rounded up, is a percentage.
LEMMA MeanOfPercentages ==
  ASSUME NEW p \in 0..100, NEW o \in 0..100, NEW c \in Nat, NEW d \in Nat \ {0}, c <= d
  PROVE  (p * c + o * (d - c) + d - 1) \div d \in 0..100
<1> DEFINE r == d - c
           x == p * c
           y == o * r
           z == x + y + d - 1
<1>1. r \in Nat /\ c + r = d
  OBVIOUS
<1> HIDE DEF r
<1>2. x \in Nat /\ y \in Nat
  BY <1>1
<1>3. x <= 100 * c /\ y <= 100 * r
  BY <1>1
<1> HIDE DEF x, y
<1>4. z \in Nat /\ z <= 100 * d + d - 1
  BY <1>1, <1>2, <1>3
<1> HIDE DEF z
<1>5. z \div d \in Int /\ 0 <= z \div d /\ z \div d <= 100
  BY <1>4, Z3
<1> QED
  BY <1>5 DEF x, y, z, r

\* A clamped offset lies in the text.
LEMMA ClampIs ==
  ASSUME NEW i \in Int, NEW n \in Nat
  PROVE  Clamp(i, n) \in 0..n
BY DEF Clamp

\* The mean of a span is a percentage.
LEMMA MeanSpanIs ==
  ASSUME text \in Seq(Nat), NEW tag, NEW m \in MatchRecord
  PROVE  MeanSpan(tag, m) \in 0..100
<1> DEFINE s == Clamp(m.start, Len(text))
           e == Clamp(m.end, Len(text))
           T == {i \in s..(e - 1) : \E x \in Range(crf.spans) : x.tag = tag /\ i \in x.start..(x.end - 1)}
           c == Cardinality(T)
           d == e - s
           o == OutsideSpans(tag)
<1>1. s \in Nat /\ e \in Nat
  <2>1. Len(text) \in Nat /\ m.start \in Int /\ m.end \in Int
    BY RecordIs
  <2>2. s \in 0..Len(text) /\ e \in 0..Len(text)
    BY <2>1, ClampIs
  <2> QED
    BY <2>1, <2>2
<1>2. MeanSpan(tag, m) = IF e <= s THEN 0 ELSE (Probability * c + o * (d - c) + d - 1) \div d
  BY DEF MeanSpan
<1>3. ASSUME ~(e <= s) PROVE c \in Nat /\ c <= d /\ d \in Nat \ {0}
  <2> DEFINE N == s..(e - 1)
  <2>1. T \in SUBSET N
    OBVIOUS
  <2> HIDE DEF T, s, e
  <2>2. e - 1 \in Int /\ s \in Int
    BY <1>1
  <2>3. IsFiniteSet(N) /\ Cardinality(N) = IF s > e - 1 THEN 0 ELSE e - 1 - s + 1
    BY <2>2, FS_Interval
  <2>4. Cardinality(N) = d /\ d \in Nat \ {0}
    BY <1>1, <1>3, <2>3
  <2> HIDE DEF N, d
  <2>5. IsFiniteSet(T) /\ Cardinality(T) <= Cardinality(N)
    BY <2>1, <2>3, FS_Subset
  <2>6. Cardinality(T) \in Nat
    BY <2>5, FS_CardinalityType
  <2> QED
    BY <2>4, <2>5, <2>6
<1>4. Probability \in 0..100 /\ o \in 0..100
  BY PostprocessAssumption DEF OutsideSpans
<1> HIDE DEF c, d, s, e, o
<1>5. ASSUME ~(e <= s) PROVE (Probability * c + o * (d - c) + d - 1) \div d \in 0..100
  BY <1>3, <1>4, <1>5, MeanOfPercentages
<1> QED
  BY <1>2, <1>5

\* The network's score does not change what a candidate is called.
LEMMA WithCRFIs ==
  ASSUME text \in Seq(Nat), NEW tag, NEW m \in MatchRecord
  PROVE  Moved(m, WithCRF(tag, m)) /\ WithCRF(tag, m).flags = m.flags
<1> DEFINE v == MeanSpan(tag, m)
           x == [start |-> m.start, end |-> m.end, possibility |-> m.possibility,
                 origin |-> m.origin, dist |-> m.dist, flags |-> m.flags, crf |-> v,
                 final |-> m.final]
<1>1. v \in 0..100
  BY MeanSpanIs
<1>2. WithCRF(tag, m) = x
  <2>1. m = [start |-> m.start, end |-> m.end, possibility |-> m.possibility,
             origin |-> m.origin, dist |-> m.dist, flags |-> m.flags, crf |-> m.crf,
             final |-> m.final]
    BY RecordIs
  <2> HIDE DEF v
  <2>2. [m EXCEPT !.crf = v] = x
    BY <2>1
  <2> QED
    BY <2>2 DEF WithCRF, v
<1> HIDE DEF v
<1>3. x \in MatchRecord
  BY <1>1, RecordIs DEF MatchRecord
<1>4. Moved(m, x) /\ x.flags = m.flags
  BY <1>3 DEF Moved
<1> QED
  BY <1>2, <1>4

\* Ranking keeps the candidates and adorns them.
LEMMA RankedIs ==
  ASSUME NEW ms \in Seq(MatchRecord)
  PROVE  AdornedAll(ms, Ranked(ms))
<1> DEFINE D == DOMAIN ms
           B == {p \in D \X D : \/ ms[p[1]].dist < ms[p[2]].dist
                                \/ ms[p[1]].dist = ms[p[2]].dist /\ ms[p[1]].crf > ms[p[2]].crf}
           R == Stable(D, B)
           R1 == {p \in D \X D : \/ \/ ms[p[1]].dist < ms[p[2]].dist
                                    \/ ms[p[1]].dist = ms[p[2]].dist /\ ms[p[1]].crf > ms[p[2]].crf
                                 \/ /\ ~ \/ ms[p[2]].dist < ms[p[1]].dist
                                         \/ ms[p[2]].dist = ms[p[1]].dist /\ ms[p[2]].crf > ms[p[1]].crf
                                    /\ p[1] < p[2]}
           q == [k \in D |-> ms[Listed(D, R)[k]]]
           sorted == StableSort(ms, LAMBDA m, n : \/ m.dist < n.dist
                                                  \/ m.dist = n.dist /\ m.crf > n.crf)
           flags(k) == InclusionFlags(sorted, k)
                    \cup When(sorted[k].end - sorted[k].start <= 2, "IsShort")
                    \cup When(3 * sorted[k].start <= Len(text), "IsInFirstThird")
                    \cup When(3 * sorted[k].start >= 2 * Len(text), "IsInLastThird")
           r == [k \in DOMAIN sorted |-> AddFlags(sorted[k], flags(k))]
<1>1. ASSUME NEW k \in D
      PROVE  ms[k] \in MatchRecord /\ ms[k].dist \in Nat /\ ms[k].crf \in Nat
  <2> DEFINE m == ms[k]
  <2>1. m \in MatchRecord
    OBVIOUS
  <2> HIDE DEF m
  <2>2. m.dist \in Nat /\ m.crf \in Nat
    BY <2>1, FieldsAre
  <2> QED
    BY <2>1, <2>2 DEF m
<1>2. \A i, j \in D : <<i, j>> \in B <=> \/ ms[i].dist < ms[j].dist
                                         \/ ms[i].dist = ms[j].dist /\ ms[i].crf > ms[j].crf
  OBVIOUS
<1>3. R1 = R
  BY <1>2 DEF Stable
<1>4. sorted = q
  <2>1. sorted = [k \in D |-> ms[Listed(D, R1)[k]]]
    BY DEF StableSort, InOrder
  <2> HIDE DEF R1, R
  <2> QED
    BY <1>3, <2>1
<1>5. WeakOrder(D, B)
  <2> HIDE DEF B
  <2>1. ASSUME NEW i \in D, NEW j \in D, <<i, j>> \in B PROVE <<j, i>> \notin B
    BY <1>1, <1>2, <2>1
  <2>2. ASSUME NEW i \in D, NEW j \in D, NEW k \in D, <<i, j>> \in B
        PROVE  <<i, k>> \in B \/ <<k, j>> \in B
    <3> DEFINE di == ms[i].dist
               dj == ms[j].dist
               dk == ms[k].dist
               ci == ms[i].crf
               cj == ms[j].crf
               ck == ms[k].crf
    <3>1. di \in Nat /\ dj \in Nat /\ dk \in Nat /\ ci \in Nat /\ cj \in Nat /\ ck \in Nat
      BY <1>1
    <3>2. di < dj \/ (di = dj /\ ci > cj)
      BY <1>2, <2>2
    <3>3. /\ <<i, k>> \in B <=> di < dk \/ (di = dk /\ ci > ck)
          /\ <<k, j>> \in B <=> dk < dj \/ (dk = dj /\ ck > cj)
      BY <1>2
    <3> HIDE DEF di, dj, dk, ci, cj, ck
    <3> QED
      BY <3>1, <3>2, <3>3
  <2> QED
    BY <2>1, <2>2 DEF WeakOrder
<1>6. q \in Seq(MatchRecord) /\ Len(q) = Len(ms) /\ \A x : Has(q, x) <=> Has(ms, x)
  <2> HIDE DEF B
  <2> QED
    BY <1>5, SortKeeps
<1> HIDE DEF sorted, q
<1>7. sorted \in Seq(MatchRecord) /\ \A x : Has(sorted, x) <=> Has(ms, x)
  BY <1>4, <1>6
<1>8. ASSUME NEW k \in DOMAIN sorted PROVE flags(k) \in SUBSET Flags
  <2>1. {"IsShort", "IsInFirstThird", "IsInLastThird"} \subseteq Flags
    BY DEF Flags, SharedFlags
  <2>2. InclusionFlags(sorted, k) \in SUBSET Flags
    BY InclusionFlagsIs
  <2> QED
    BY <2>1, <2>2 DEF When
<1> HIDE DEF flags
<1>9. ASSUME NEW k \in DOMAIN sorted PROVE Adorned(sorted[k], r[k])
  <2>1. sorted[k] \in MatchRecord /\ r[k] = AddFlags(sorted[k], flags(k))
    BY <1>7
  <2> QED
    BY <1>8, <2>1, AddFlagsIs
<1>10. DOMAIN r = DOMAIN sorted /\ r = [k \in DOMAIN sorted |-> r[k]]
  OBVIOUS
<1> HIDE DEF r
<1>11. AdornedAll(sorted, r)
  BY <1>7, <1>9, <1>10, AdornedEach
<1>12. AdornedAll(ms, r)
  BY <1>7, <1>11 DEF AdornedAll, MovedAll
<1>13. Ranked(ms) = r
  BY DEF Ranked, r, flags, sorted
<1> QED
  BY <1>12, <1>13

(***************************************************************************)
(* Sums of weights.                                                        *)
(***************************************************************************)
\* F sums the subsets of S that have at most n elements.
SumTable(F, S, w, n) ==
  \A s \in {r \in SUBSET S : Cardinality(r) <= n} :
    /\ F[s] \in Int
    /\ F[s] = IF s = {} THEN 0
              ELSE F[s \ {CHOOSE x \in s : TRUE}] + w[CHOOSE x \in s : TRUE]

\* A finite set without one of its elements.
LEMMA ChosenOut ==
  ASSUME NEW S, IsFiniteSet(S), NEW s \in SUBSET S, s # {}
  PROVE  /\ (CHOOSE x \in s : TRUE) \in s
         /\ s \ {CHOOSE x \in s : TRUE} \in SUBSET S
         /\ Cardinality(s) \in Nat
         /\ Cardinality(s \ {CHOOSE x \in s : TRUE}) = Cardinality(s) - 1
<1> DEFINE c == CHOOSE x \in s : TRUE
<1>1. c \in s
  OBVIOUS
<1> HIDE DEF c
<1>2. IsFiniteSet(s)
  BY FS_Subset
<1>3. Cardinality(s) \in Nat
  BY <1>2, FS_CardinalityType
<1>4. Cardinality(s \ {c}) = Cardinality(s) - 1
  BY <1>1, <1>2, FS_RemoveElement
<1> QED
  BY <1>1, <1>3, <1>4 DEF c

\* The sums of the small subsets make up a table.
LEMMA SumTableExists ==
  ASSUME NEW S, IsFiniteSet(S), NEW w \in [S -> Int], NEW n \in Nat
  PROVE  \E F : SumTable(F, S, w, n)
<1> DEFINE N == {k \in Nat : \E F : SumTable(F, S, w, k)}
<1>1. 0 \in N
  <2> DEFINE F == [s \in SUBSET S |-> 0]
  <2>1. ASSUME NEW s \in {r \in SUBSET S : Cardinality(r) <= 0} PROVE s = {}
    <3>1. CASE s # {}
      <4> DEFINE r == s \ {CHOOSE x \in s : TRUE}
      <4>1. Cardinality(s) \in Nat /\ Cardinality(r) = Cardinality(s) - 1 /\ r \in SUBSET S
        BY <3>1, ChosenOut
      <4>2. Cardinality(r) \in Nat
        <5>1. IsFiniteSet(r)
          <6> HIDE DEF r
          <6> QED
            BY <4>1, FS_Subset
        <5> QED
          BY <5>1, FS_CardinalityType
      <4> HIDE DEF r
      <4> QED
        BY <2>1, <4>1, <4>2
    <3> QED
      BY <3>1
  <2>2. SumTable(F, S, w, 0)
    BY <2>1 DEF SumTable
  <2> HIDE DEF F
  <2> QED
    BY <2>2
<1>2. ASSUME NEW k \in Nat, k \in N PROVE k + 1 \in N
  <2>1. PICK F : SumTable(F, S, w, k)
    BY <1>2
  <2> DEFINE G == [s \in SUBSET S |->
                     IF Cardinality(s) <= k THEN F[s]
                     ELSE F[s \ {CHOOSE x \in s : TRUE}] + w[CHOOSE x \in s : TRUE]]
  <2>2. ASSUME NEW s \in SUBSET S, Cardinality(s) <= k PROVE G[s] = F[s]
    BY <2>2
  <2>3. ASSUME NEW s \in SUBSET S, ~(Cardinality(s) <= k)
        PROVE  G[s] = F[s \ {CHOOSE x \in s : TRUE}] + w[CHOOSE x \in s : TRUE]
    BY <2>3
  <2> HIDE DEF G
  <2>4. ASSUME NEW s \in SUBSET S, Cardinality(s) <= k + 1
        PROVE  /\ G[s] \in Int
               /\ G[s] = IF s = {} THEN 0
                         ELSE G[s \ {CHOOSE x \in s : TRUE}] + w[CHOOSE x \in s : TRUE]
    <3> DEFINE c == CHOOSE x \in s : TRUE
    <3>1. CASE s = {}
      <4>1. Cardinality(s) <= k
        BY <3>1, FS_EmptySet
      <4>2. F[s] = 0
        BY <2>1, <3>1, <4>1 DEF SumTable
      <4> QED
        BY <2>2, <3>1, <4>1, <4>2
    <3>2. CASE s # {}
      <4>1. c \in s /\ s \ {c} \in SUBSET S /\ Cardinality(s) \in Nat
            /\ Cardinality(s \ {c}) = Cardinality(s) - 1
        BY <3>2, ChosenOut
      <4> HIDE DEF c
      <4>2. Cardinality(s \ {c}) <= k
        BY <2>4, <4>1
      <4>3. G[s \ {c}] = F[s \ {c}] /\ F[s \ {c}] \in Int
        BY <2>1, <2>2, <4>1, <4>2 DEF SumTable
      <4>4. w[c] \in Int
        BY <4>1
      <4>5. CASE Cardinality(s) <= k
        <5>1. F[s] = F[s \ {c}] + w[c]
          BY <2>1, <3>2, <4>5 DEF SumTable, c
        <5> QED
          BY <2>2, <3>2, <4>3, <4>4, <4>5, <5>1 DEF c
      <4>6. CASE ~(Cardinality(s) <= k)
        BY <2>3, <3>2, <4>3, <4>4, <4>6 DEF c
      <4> QED
        BY <4>5, <4>6
    <3> QED
      BY <3>1, <3>2
  <2>5. SumTable(G, S, w, k + 1)
    BY <2>4 DEF SumTable
  <2> QED
    BY <2>5
<1>3. Nat \subseteq N
  <2> HIDE DEF N
  <2> QED
    BY <1>1, <1>2, Inductive
<1> QED
  BY <1>3

\* A total of weights is an integer.
LEMMA TotalIs ==
  ASSUME NEW S, IsFiniteSet(S), NEW w, \A x \in S : w[x] \in Int
  PROVE  Total(w, S) \in Int
<1> DEFINE v == [x \in S |-> w[x]]
           Equation(f) == f = [s \in SUBSET S |->
                                 IF s = {} THEN 0
                                 ELSE f[s \ {CHOOSE x \in s : TRUE}] + w[CHOOSE x \in s : TRUE]]
           sum == CHOOSE f : Equation(f)
           n == Cardinality(S)
<1>1. Total(w, S) = sum[S]
  BY DEF Total, FoldSet, MapThenFoldSet
<1>2. n \in Nat
  BY FS_CardinalityType
<1>3. v \in [S -> Int]
  OBVIOUS
<1>4. PICK F : SumTable(F, S, v, n)
  <2> HIDE DEF v, n
  <2> QED
    BY <1>2, <1>3, SumTableExists
<1>5. ASSUME NEW s \in SUBSET S
      PROVE  /\ F[s] = IF s = {} THEN 0
                       ELSE F[s \ {CHOOSE x \in s : TRUE}] + w[CHOOSE x \in s : TRUE]
  <2>1. Cardinality(s) <= n
    BY FS_Subset
  <2>2. F[s] = IF s = {} THEN 0
               ELSE F[s \ {CHOOSE x \in s : TRUE}] + v[CHOOSE x \in s : TRUE]
    <3> HIDE DEF v, n
    <3> QED
      BY <1>4, <2>1 DEF SumTable
  <2>3. s # {} => (CHOOSE x \in s : TRUE) \in S
    OBVIOUS
  <2> QED
    BY <2>2, <2>3
<1>6. \E f : Equation(f)
  <2> DEFINE f == [s \in SUBSET S |-> F[s]]
  <2>1. \A s \in SUBSET S : f[s] = F[s] /\ s \ {CHOOSE x \in s : TRUE} \in SUBSET S
    OBVIOUS
  <2>2. f = [s \in SUBSET S |-> f[s]]
    OBVIOUS
  <2> HIDE DEF f
  <2>3. ASSUME NEW s \in SUBSET S
        PROVE  f[s] = IF s = {} THEN 0
                      ELSE f[s \ {CHOOSE x \in s : TRUE}] + w[CHOOSE x \in s : TRUE]
    BY <1>5, <2>1
  <2>4. Equation(f)
    BY <2>2, <2>3
  <2> HIDE DEF Equation
  <2> QED
    BY <2>4
<1>7. Equation(sum)
  <2> HIDE DEF Equation
  <2> QED
    BY <1>6
<1> HIDE DEF sum
<1>8. \A s \in SUBSET S : sum[s] = IF s = {} THEN 0
                ELSE sum[s \ {CHOOSE x \in s : TRUE}] + w[CHOOSE x \in s : TRUE]
  BY <1>7
<1> HIDE DEF Equation
<1> DEFINE N == {k \in Nat : \A s \in SUBSET S : Cardinality(s) = k => sum[s] \in Int}
<1>9. \A s \in SUBSET S : Cardinality(s) = 0 => sum[s] \in Int
  <2>1. ASSUME NEW s \in SUBSET S, Cardinality(s) = 0 PROVE s = {}
    <3>1. IsFiniteSet(s)
      BY FS_Subset
    <3> QED
      BY <2>1, <3>1, FS_EmptySet
  <2>2. sum[{}] = 0
    <3>1. {} \in SUBSET S
      OBVIOUS
    <3> QED
      BY <1>8, <3>1
  <2>3. ASSUME NEW s \in SUBSET S, Cardinality(s) = 0 PROVE sum[s] \in Int
    <3>1. s = {}
      BY <2>1, <2>3
    <3> QED
      BY <2>2, <3>1
  <2> QED
    BY <2>3
<1>10. ASSUME NEW k \in Nat, k \in N PROVE k + 1 \in N
  <2>1. ASSUME NEW s \in SUBSET S, Cardinality(s) = k + 1 PROVE sum[s] \in Int
    <3> DEFINE c == CHOOSE x \in s : TRUE
    <3>1. s # {}
      BY <1>10, <2>1, FS_EmptySet
    <3>2. c \in s /\ s \ {c} \in SUBSET S /\ Cardinality(s) \in Nat
          /\ Cardinality(s \ {c}) = Cardinality(s) - 1
      BY <3>1, ChosenOut
    <3>3. sum[s] = sum[s \ {c}] + w[c]
      BY <1>8, <3>1
    <3> HIDE DEF c
    <3>4. Cardinality(s \ {c}) = k
      BY <1>10, <2>1, <3>2
    <3>5. sum[s \ {c}] \in Int
      BY <1>10, <3>2, <3>4
    <3>6. w[c] \in Int
      BY <3>2
    <3> QED
      BY <3>3, <3>5, <3>6
  <2> QED
    BY <2>1
<1>11. Nat \subseteq N
  <2>1. 0 \in N
    BY <1>9
  <2> HIDE DEF N
  <2> QED
    BY <1>10, <2>1, Inductive
<1>12. sum[S] \in Int
  BY <1>2, <1>11
<1> QED
  BY <1>1, <1>12

(***************************************************************************)
(* Scores.                                                                 *)
(***************************************************************************)
TownFlagSet == TownOnly \cup SharedFlags
CountryFlagSet == CountryOnly \cup SharedFlags
TownTermSet == TownFlagSet \cup SharedTerms \cup {"IsSmallTownAndCountryNotPresent"}
CountryTermSet == CountryFlagSet \cup SharedTerms

\* The first n positions are finitely many.
LEMMA FirstFinite ==
  ASSUME NEW n \in Nat
  PROVE  IsFiniteSet(1..n)
<1>1. 1 \in Int /\ n \in Int
  OBVIOUS
<1> QED
  BY <1>1, FS_Interval

\* There are finitely many terms.
LEMMA TermsFinite ==
  /\ IsFiniteSet(TownTermSet) /\ IsFiniteSet(CountryTermSet)
<1>1. IsFiniteSet(TownOnly)
  <2> DEFINE f == <<"CountryIsPresent", "SuggestedCountryIsPresent", "MLPCountryIsPresent",
             "IsVeryCloseToCountry", "IsOnSameLineAsCountry", "PostcodeForTownFound",
             "IsMetropolis", "IsAloneOnLine", "IsSmallTown", "IsFromExtendedData",
             "IsNotLargestTownWithName">>
  <2>1. \A y \in TownOnly : \E k \in 1..11 : y = f[k]
    BY DEF TownOnly
  <2>2. IsFiniteSet(1..11)
    <3>1. 11 \in Nat
      OBVIOUS
    <3> QED
      BY <3>1, FirstFinite
  <2> HIDE DEF f
  <2> QED
    BY <2>1, <2>2, FiniteImage
<1>2. IsFiniteSet(CountryOnly)
  <2> DEFINE f == <<"TownIsPresent", "IsVeryCloseToTown", "IsOnSameLineAsTown",
                "PostalCodeIsPresent", "IBANIsPresent", "PhonePrefixIsPresent",
                "DomainIsPresent", "MLPStronglyAgrees", "MLPAgrees", "MLPDoesntDisagree">>
  <2>1. \A y \in CountryOnly : \E k \in 1..10 : y = f[k]
    BY DEF CountryOnly
  <2>2. IsFiniteSet(1..10)
    <3>1. 10 \in Nat
      OBVIOUS
    <3> QED
      BY <3>1, FirstFinite
  <2> HIDE DEF f
  <2> QED
    BY <2>1, <2>2, FiniteImage
<1>3. IsFiniteSet(SharedFlags)
  <2> DEFINE f == <<"IsInLastThird", "CouldBeReasonableMistake", "IsInsideAnotherWord",
                "IsInFirstThird", "IsShort", "IsInsideAnotherLowerRankedMatch",
                "IsInsideAnotherHigherRankedMatch", "IsInsideStreet",
                "IsCommonStateProvinceAlias", "IsUncommonStateProvinceAlias">>
  <2>1. \A y \in SharedFlags : \E k \in 1..10 : y = f[k]
    BY DEF SharedFlags
  <2>2. IsFiniteSet(1..10)
    <3>1. 10 \in Nat
      OBVIOUS
    <3> QED
      BY <3>1, FirstFinite
  <2> HIDE DEF f
  <2> QED
    BY <2>1, <2>2, FiniteImage
<1>4. IsFiniteSet(SharedTerms)
  <2> DEFINE f == <<"ContainsTypo", "IsShortAndNonzeroDistScore", "IsShortAndIsInsideAnotherWord">>
  <2>1. \A y \in SharedTerms : \E k \in 1..3 : y = f[k]
    BY DEF SharedTerms
  <2>2. IsFiniteSet(1..3)
    <3>1. 3 \in Nat
      OBVIOUS
    <3> QED
      BY <3>1, FirstFinite
  <2> HIDE DEF f
  <2> QED
    BY <2>1, <2>2, FiniteImage
<1>5. IsFiniteSet(TownFlagSet) /\ IsFiniteSet(CountryFlagSet)
  BY <1>1, <1>2, <1>3, FS_Union DEF TownFlagSet, CountryFlagSet
<1>6. IsFiniteSet(TownFlagSet \cup SharedTerms) /\ IsFiniteSet(CountryTermSet)
  BY <1>4, <1>5, FS_Union DEF CountryTermSet
<1>7. IsFiniteSet(TownTermSet)
  <2>1. IsFiniteSet({"IsSmallTownAndCountryNotPresent"})
    BY FS_Singleton
  <2> QED
    BY <1>6, <2>1, FS_Union DEF TownTermSet
<1> QED
  BY <1>6, <1>7

\* The weights of the terms are integers.
LEMMA WeightsAre ==
  /\ \A x \in TownTermSet : TownWeights[x] \in Int
  /\ \A x \in CountryTermSet : CountryWeights[x] \in Int
  /\ TownWeights["ContainsTypo"] \in Int /\ CountryWeights["ContainsTypo"] \in Int
  /\ TownWeights["CountryIsPresentMalus"] \in Int
<1> DEFINE TD == TownOnly \cup SharedFlags \cup SharedTerms
                   \cup {"IsSmallTownAndCountryNotPresent", "CountryIsPresentMalus"}
           CD == CountryOnly \cup SharedFlags \cup SharedTerms
<1>1. TownWeights \in [TD -> Int] /\ CountryWeights \in [CD -> Int]
  BY MatchScoreAssumption
<1>2. TownTermSet \subseteq TD /\ "CountryIsPresentMalus" \in TD
  BY DEF TownTermSet, TownFlagSet
<1>3. CountryTermSet \subseteq CD
  BY DEF CountryTermSet, CountryFlagSet
<1>4. "ContainsTypo" \in TD /\ "ContainsTypo" \in CD
  BY DEF SharedTerms
<1> HIDE DEF TD, CD
<1> QED
  BY <1>1, <1>2, <1>3, <1>4

\* A sum of weights is an integer.
LEMMA TotalOfSome ==
  ASSUME NEW S, IsFiniteSet(S), NEW w, \A x \in S : w[x] \in Int, NEW P \in SUBSET S
  PROVE  Total(w, P) \in Int
<1>1. IsFiniteSet(P)
  BY FS_Subset
<1>2. \A x \in P : w[x] \in Int
  OBVIOUS
<1> QED
  BY <1>1, <1>2, TotalIs

\* The sums of the positive and of the negative terms are integers.
LEMMA BonusesAndMaluses ==
  ASSUME NEW S, IsFiniteSet(S), NEW w, \A x \in S : w[x] \in Int, NEW P \in SUBSET S,
         NEW typo \in Int
  PROVE  Bonuses(w, P, typo) \in Int /\ Maluses(w, P, typo) \in Int
<1> DEFINE A == {n \in P : w[n] >= 0}
           B == {n \in P : w[n] < 0}
<1>1. A \in SUBSET S /\ B \in SUBSET S
  OBVIOUS
<1>2. Bonuses(w, P, typo) = Total(w, A) + (IF typo >= 0 THEN typo ELSE 0)
  BY DEF Bonuses
<1>3. Maluses(w, P, typo) = Total(w, B) + (IF typo < 0 THEN typo ELSE 0)
  BY DEF Maluses
<1> HIDE DEF A, B
<1>4. Total(w, A) \in Int /\ Total(w, B) \in Int
  BY <1>1, TotalOfSome
<1> QED
  BY <1>2, <1>3, <1>4

\* A computed score is in thousandths.
LEMMA ScoreIs ==
  ASSUME NEW p \in 0..100, NEW b \in Int, NEW m \in Int
  PROVE  ComputeScore(p, b, m) \in 0..1000
<1> DEFINE amortized == IF p < 10 THEN 10 ELSE IF p > 90 THEN 90 ELSE p
           swing == (3 * p) \div 2
           weighted == ((400 - swing) * b + (250 + swing) * m) \div 100
           odds == LogOdds[amortized] + weighted
           x == IF odds < -LogisticRange THEN -LogisticRange
                ELSE IF odds > LogisticRange THEN LogisticRange ELSE odds
<1>1. ComputeScore(p, b, m) = Logistic[x]
  BY DEF ComputeScore
<1>2. swing \in Int
  OBVIOUS
<1>3. weighted \in Int
  <2> DEFINE g == 400 - swing
             h == 250 + swing
             gb == g * b
             hm == h * m
             total == gb + hm
  <2>1. g \in Int /\ h \in Int
    BY <1>2
  <2> HIDE DEF g, h
  <2>2. gb \in Int /\ hm \in Int
    BY <2>1
  <2> HIDE DEF gb, hm
  <2>3. total \in Int
    BY <2>2
  <2> HIDE DEF total
  <2>4. total \div 100 \in Int
    BY <2>3
  <2> QED
    BY <2>4 DEF total, gb, hm, g, h
<1>4. amortized \in 10..90
  OBVIOUS
<1> HIDE DEF amortized, weighted
<1>5. LogOdds[amortized] \in Int
  BY <1>4, MatchScoreAssumption, ZenonT(60)
<1>6. odds \in Int
  BY <1>3, <1>5
<1>7. LogisticRange \in Nat
  BY MatchScoreAssumption
<1> HIDE DEF odds
<1>8. x \in (-LogisticRange)..LogisticRange
  BY <1>6, <1>7
<1> HIDE DEF x
<1>9. Logistic[x] \in 0..1000
  <2>1. Logistic \in [(-LogisticRange)..LogisticRange -> 0..1000]
    BY MatchScoreAssumption
  <2> DEFINE R == (-LogisticRange)..LogisticRange
  <2>2. Logistic \in [R -> 0..1000] /\ x \in R
    BY <1>8, <2>1
  <2> HIDE DEF R
  <2> QED
    BY <2>2
<1> QED
  BY <1>1, <1>9

\* The term of typing errors is an integer.
LEMMA TypoTermIs ==
  ASSUME NEW m \in MatchRecord, NEW w, w["ContainsTypo"] \in Int
  PROVE  TypoTerm(w, m) \in Int
<1>1. m.dist \in Nat
  BY FieldsAre
<1>2. m.dist * w["ContainsTypo"] \in Int
  BY <1>1
<1> QED
  BY <1>2 DEF TypoTerm

\* The terms of a candidate have weights.
LEMMA TermsAre ==
  ASSUME NEW m \in MatchRecord
  PROVE  TownTerms(m) \in SUBSET TownTermSet /\ CountryTerms(m) \in SUBSET CountryTermSet
<1>1. m.flags \in SUBSET Flags
  BY FieldsAre
<1>2. m.flags \ (CountryOnly \cup Unweighted) \in SUBSET TownFlagSet
  BY <1>1 DEF Flags, TownFlagSet
<1>3. m.flags \ (TownOnly \cup Unweighted) \in SUBSET CountryFlagSet
  BY <1>1 DEF Flags, CountryFlagSet
<1>4. ShortTerms(m) \in SUBSET SharedTerms
  BY DEF ShortTerms, When, SharedTerms
<1>5. When("IsSmallTown" \in m.flags /\ "CountryIsPresent" \notin m.flags,
            "IsSmallTownAndCountryNotPresent") \in SUBSET {"IsSmallTownAndCountryNotPresent"}
  BY DEF When
<1>6. TownTerms(m) \in SUBSET TownTermSet
  BY <1>2, <1>4, <1>5 DEF TownTerms, TownTermSet
<1>7. CountryTerms(m) \in SUBSET CountryTermSet
  BY <1>3, <1>4 DEF CountryTerms, CountryTermSet
<1> QED
  BY <1>6, <1>7

\* Scoring moves a town.
LEMMA TownScoreIs ==
  ASSUME NEW m \in MatchRecord
  PROVE  Moved(m, TownScore(m))
<1> DEFINE terms == TownTerms(m)
           typo == TypoTerm(TownWeights, m)
           alone == IF "CountryIsPresent" \in m.flags THEN 0 ELSE TownWeights["CountryIsPresentMalus"]
           b == Bonuses(TownWeights, terms, typo)
           a == Maluses(TownWeights, terms, typo)
           v == ComputeScore(m.crf, b, a + alone)
           x == [start |-> m.start, end |-> m.end, possibility |-> m.possibility,
                 origin |-> m.origin, dist |-> m.dist, flags |-> m.flags, crf |-> m.crf,
                 final |-> v]
<1>1. typo \in Int
  BY WeightsAre, TypoTermIs
<1>2. terms \in SUBSET TownTermSet
  BY TermsAre
<1>3. alone \in Int
  BY WeightsAre
<1> HIDE DEF typo, terms, alone
<1>4. b \in Int /\ a \in Int
  BY <1>1, <1>2, TermsFinite, WeightsAre, BonusesAndMaluses
<1> HIDE DEF a, b
<1>5. a + alone \in Int
  BY <1>3, <1>4
<1>6. v \in 0..1000
  <2>1. m.crf \in 0..100
    BY RecordIs
  <2> QED
    BY <1>4, <1>5, <2>1, ScoreIs, ZenonT(60)
<1>7. TownScore(m) = x
  <2>1. m = [start |-> m.start, end |-> m.end, possibility |-> m.possibility,
             origin |-> m.origin, dist |-> m.dist, flags |-> m.flags, crf |-> m.crf,
             final |-> m.final]
    BY RecordIs
  <2>2. TownScore(m) = [m EXCEPT !.final = v]
    BY DEF TownScore, v, a, b, alone, typo, terms
  <2> HIDE DEF v
  <2>3. [m EXCEPT !.final = v] = x
    BY <2>1
  <2> QED
    BY <2>2, <2>3
<1> HIDE DEF v
<1>8. x \in MatchRecord
  BY <1>6, RecordIs DEF MatchRecord
<1>9. Moved(m, x)
  BY <1>8 DEF Moved
<1> QED
  BY <1>7, <1>9

\* A generated country keeps the score of the suggestion.
LEMMA CountryScoreIs ==
  ASSUME NEW m \in MatchRecord
  PROVE  /\ Moved(m, CountryScore(m))
         /\ Generated(m) => /\ CountryScore(m).final = 10 * m.crf
                            /\ "GeneratedBySuggestedCountry" \in CountryScore(m).flags
<1>1. CASE Generated(m)
  <2> DEFINE F == {"GeneratedBySuggestedCountry"}
             v == 10 * m.crf
             x == [start |-> m.start, end |-> m.end, possibility |-> m.possibility,
                   origin |-> m.origin, dist |-> m.dist, flags |-> F, crf |-> m.crf,
                   final |-> v]
  <2>1. v \in 0..1000
    <3>1. m.crf \in Nat /\ m.crf <= 100
      BY FieldsAre
    <3> QED
      BY <3>1
  <2>2. F \in SUBSET Flags
    BY DEF Flags, Unweighted
  <2>3. CountryScore(m) = x
    <3>1. m = [start |-> m.start, end |-> m.end, possibility |-> m.possibility,
               origin |-> m.origin, dist |-> m.dist, flags |-> m.flags, crf |-> m.crf,
               final |-> m.final]
      BY RecordIs
    <3>2. CountryScore(m) = [m EXCEPT !.flags = F, !.final = v]
      BY <1>1 DEF CountryScore
    <3> HIDE DEF v, F
    <3>3. [m EXCEPT !.flags = F, !.final = v] = [[m EXCEPT !.flags = F] EXCEPT !.final = v]
      OBVIOUS
    <3>4. [m EXCEPT !.flags = F] = [start |-> m.start, end |-> m.end,
               possibility |-> m.possibility, origin |-> m.origin, dist |-> m.dist,
               flags |-> F, crf |-> m.crf, final |-> m.final]
      BY <3>1
    <3>5. [[start |-> m.start, end |-> m.end,
               possibility |-> m.possibility, origin |-> m.origin, dist |-> m.dist,
               flags |-> F, crf |-> m.crf, final |-> m.final] EXCEPT !.final = v] = x
      OBVIOUS
    <3> QED
      BY <3>2, <3>3, <3>4, <3>5
  <2> HIDE DEF v
  <2>4. x \in MatchRecord
    BY <2>1, <2>2, RecordIs DEF MatchRecord
  <2>5. Moved(m, x)
    BY <2>4 DEF Moved
  <2> QED
    BY <2>3, <2>5 DEF v
<1>2. CASE ~Generated(m)
  <2> DEFINE terms == CountryTerms(m)
             typo == TypoTerm(CountryWeights, m)
             b == Bonuses(CountryWeights, terms, typo)
             a == Maluses(CountryWeights, terms, typo)
             v == ComputeScore(m.crf, b, a)
             x == [start |-> m.start, end |-> m.end, possibility |-> m.possibility,
                   origin |-> m.origin, dist |-> m.dist, flags |-> m.flags, crf |-> m.crf,
                   final |-> v]
  <2>1. typo \in Int
    BY WeightsAre, TypoTermIs
  <2>2. terms \in SUBSET CountryTermSet
    BY TermsAre
  <2> HIDE DEF typo, terms
  <2>4. b \in Int /\ a \in Int
    BY <2>1, <2>2, TermsFinite, WeightsAre, BonusesAndMaluses
  <2> HIDE DEF a, b
  <2>6. v \in 0..1000
    <3>1. m.crf \in 0..100
      BY RecordIs
    <3> QED
      BY <2>4, <3>1, ScoreIs, ZenonT(60)
  <2>7. CountryScore(m) = x
    <3>1. m = [start |-> m.start, end |-> m.end, possibility |-> m.possibility,
               origin |-> m.origin, dist |-> m.dist, flags |-> m.flags, crf |-> m.crf,
               final |-> m.final]
      BY RecordIs
    <3>2. CountryScore(m) = [m EXCEPT !.final = v]
      BY <1>2 DEF CountryScore, v, a, b, typo, terms
    <3> HIDE DEF v
    <3>3. [m EXCEPT !.final = v] = x
      BY <3>1
    <3> QED
      BY <3>2, <3>3
  <2> HIDE DEF v
  <2>8. x \in MatchRecord
    BY <2>6, RecordIs DEF MatchRecord
  <2>9. Moved(m, x)
    BY <2>8 DEF Moved
  <2> QED
    BY <1>2, <2>7, <2>9
<1> QED
  BY <1>1, <1>2

\* What a country or a town scores without a partner.
LEMMA SoloScores ==
  ASSUME NEW m \in MatchRecord
  PROVE  SoloCountry(m) \in Int /\ SoloTown(m) \in Int
<1> DEFINE P == {"TownIsPresent", "IsVeryCloseToTown", "IsOnSameLineAsTown"} \cap m.flags
           Q == {"CountryIsPresent", "SuggestedCountryIsPresent",
                 "IsVeryCloseToCountry", "IsOnSameLineAsCountry"} \cap m.flags
           p == Total(CountryWeights, P)
           q == Total(TownWeights, Q)
<1>1. P \in SUBSET CountryTermSet /\ Q \in SUBSET TownTermSet
  BY DEF CountryTermSet, CountryFlagSet, CountryOnly, TownTermSet, TownFlagSet, TownOnly
<1>2. SoloCountry(m) = m.final + MinimalTown - NoTownFoundMul * p
  BY DEF SoloCountry, Malus
<1>3. SoloTown(m) = MinimalCountry + m.final - NoCountryFoundMul * q
  BY DEF SoloTown, Malus
<1> HIDE DEF P, Q
<1>4. p \in Int /\ q \in Int
  BY <1>1, TermsFinite, WeightsAre, TotalOfSome
<1>5. /\ m.final \in Int /\ MinimalTown \in Int /\ MinimalCountry \in Int
      /\ NoTownFoundMul \in Int /\ NoCountryFoundMul \in Int
  <2>1. m.final \in Nat
    BY FieldsAre
  <2>2. MinimalTown \in 0..1000 /\ MinimalCountry \in 0..1000
        /\ NoTownFoundMul \in Int /\ NoCountryFoundMul \in Int
    BY MatchScoreAssumption
  <2> QED
    BY <2>1, <2>2
<1> HIDE DEF p, q
<1>6. NoTownFoundMul * p \in Int /\ NoCountryFoundMul * q \in Int
  BY <1>4, <1>5
<1> QED
  BY <1>2, <1>3, <1>5, <1>6

(***************************************************************************)
(* The candidates of the text, by what they are called.                    *)
(***************************************************************************)
KnownCodes == Alpha2 \cup UNION {w.origins : w \in CountryNames}

CountryLabel(m) ==
  \/ \E w \in CountryNames : m.possibility = w.name /\ m.origin \in w.origins
  \/ /\ m.possibility = m.origin
     /\ m.origin \in KnownCodes \cup {sample.suggested}

CountryMatch == {m \in Match(Len(text) + 2) : CountryLabel(m)}

TownMatch ==
  {m \in Match(Len(text) + 2) : /\ m.possibility # <<>>
                                /\ \E c \in DOMAIN TownNames : m.possibility \in TownNames[c]}

\* Candidates of the text are candidates.
LEMMA MatchesAre ==
  CountryMatch \subseteq MatchRecord /\ TownMatch \subseteq MatchRecord
BY DEF CountryMatch, TownMatch, Match

\* A sequence over a set is one over a greater set.
LEMMA WiderSeq ==
  ASSUME NEW A, NEW B, A \subseteq B, NEW s \in Seq(A)
  PROVE  s \in Seq(B)
<1>1. Len(s) \in Nat /\ DOMAIN s = 1..Len(s) /\ s \in [1..Len(s) -> A]
  OBVIOUS
<1>2. s \in [1..Len(s) -> B]
  BY <1>1
<1> QED
  BY <1>1, <1>2

\* A sequence is one over any set that has what it holds.
LEMMA AllWithin ==
  ASSUME NEW A, NEW B, NEW s \in Seq(A), \A x : Has(s, x) => x \in B
  PROVE  s \in Seq(B)
<1>1. Len(s) \in Nat /\ DOMAIN s = 1..Len(s) /\ s = [k \in 1..Len(s) |-> s[k]]
  OBVIOUS
<1>2. \A k \in 1..Len(s) : s[k] \in B
  BY <1>1 DEF Has
<1>3. s \in [1..Len(s) -> B]
  BY <1>1, <1>2
<1> QED
  BY <1>1, <1>3

\* What a sequence holds is in its set.
LEMMA HasIn ==
  ASSUME NEW A, NEW s \in Seq(A), NEW x, Has(s, x)
  PROVE  x \in A
BY DEF Has

\* The concatenation of two sequences holds what they hold.
LEMMA Joined ==
  ASSUME NEW A, NEW s \in Seq(A), NEW t \in Seq(A)
  PROVE  s \o t \in Seq(A) /\ \A x : Has(s \o t, x) <=> Has(s, x) \/ Has(t, x)
<1>1. s \o t \in Seq(A) /\ Len(s \o t) = Len(s) + Len(t) /\ Len(s) \in Nat /\ Len(t) \in Nat
  OBVIOUS
<1>2. \A k \in 1..Len(s) : k \in DOMAIN (s \o t) /\ (s \o t)[k] = s[k]
  BY <1>1
<1>3. \A k \in 1..Len(t) : Len(s) + k \in DOMAIN (s \o t) /\ (s \o t)[Len(s) + k] = t[k]
  BY <1>1
<1>4. DOMAIN s = 1..Len(s) /\ DOMAIN t = 1..Len(t) /\ DOMAIN (s \o t) = 1..(Len(s) + Len(t))
  BY <1>1
<1>5. ASSUME NEW x, Has(s, x) \/ Has(t, x) PROVE Has(s \o t, x)
  <2>1. CASE Has(s, x)
    BY <1>2, <1>4, <2>1 DEF Has
  <2>2. CASE Has(t, x)
    <3>1. PICK k \in 1..Len(t) : t[k] = x
      BY <1>4, <2>2 DEF Has
    <3>2. Len(s) + k \in DOMAIN (s \o t) /\ (s \o t)[Len(s) + k] = x
      BY <1>3, <3>1
    <3> QED
      BY <3>2 DEF Has
  <2> QED
    BY <1>5, <2>1, <2>2
<1>6. ASSUME NEW x, Has(s \o t, x) PROVE Has(s, x) \/ Has(t, x)
  <2>1. PICK k \in 1..(Len(s) + Len(t)) : (s \o t)[k] = x
    BY <1>4, <1>6 DEF Has
  <2>2. CASE k <= Len(s)
    <3>1. k \in 1..Len(s)
      BY <1>1, <2>2
    <3> QED
      BY <1>2, <1>4, <2>1, <3>1 DEF Has
  <2>3. CASE ~(k <= Len(s))
    <3> DEFINE j == k - Len(s)
    <3>1. j \in 1..Len(t) /\ k = Len(s) + j
      BY <1>1, <2>3
    <3> HIDE DEF j
    <3>2. (s \o t)[k] = t[j]
      BY <1>3, <3>1
    <3> QED
      BY <1>4, <2>1, <3>1, <3>2 DEF Has
  <2> QED
    BY <2>2, <2>3
<1> QED
  BY <1>1, <1>5, <1>6

\* Candidates that have moved are still the candidates of the text.
LEMMA CountriesMoved ==
  ASSUME NEW s \in Seq(CountryMatch), NEW t, MovedAll(s, t)
  PROVE  t \in Seq(CountryMatch)
<1>1. ASSUME NEW x, Has(t, x) PROVE x \in CountryMatch
  <2>1. PICK y : Has(s, y) /\ Moved(y, x)
    BY <1>1 DEF MovedAll
  <2>2. y \in CountryMatch
    BY <2>1, HasIn
  <2> QED
    BY <2>1, <2>2 DEF Moved, CountryMatch, Match, CountryLabel
<1> QED
  BY <1>1, AllWithin DEF MovedAll

\* Towns that are moved are still towns.
LEMMA TownsMoved ==
  ASSUME NEW s \in Seq(TownMatch), NEW t, MovedAll(s, t)
  PROVE  t \in Seq(TownMatch)
<1>1. ASSUME NEW x, Has(t, x) PROVE x \in TownMatch
  <2>1. PICK y : Has(s, y) /\ Moved(y, x)
    BY <1>1 DEF MovedAll
  <2>2. y \in TownMatch
    BY <2>1, HasIn
  <2> QED
    BY <2>1, <2>2 DEF Moved, TownMatch, Match
<1> QED
  BY <1>1, AllWithin DEF MovedAll

\* The suggestion is among the countries, as nothing but itself.
Suggests(s) ==
  \E x : /\ Has(s, x)
         /\ x.origin = sample.suggested
         /\ Generated(x)
         /\ x.crf = SuggestedScore

\* Flags do not take the suggestion away.
LEMMA SuggestsOn ==
  ASSUME NEW s, NEW t, AdornedAll(s, t), Suggests(s)
  PROVE  Suggests(t)
<1>1. PICK y : Has(s, y) /\ y.origin = sample.suggested /\ Generated(y) /\ y.crf = SuggestedScore
  BY DEF Suggests
<1>2. PICK x : Has(t, x) /\ Adorned(y, x)
  BY <1>1 DEF AdornedAll
<1>3. x.origin = sample.suggested /\ Generated(x) /\ x.crf = SuggestedScore
  BY <1>1, <1>2 DEF Adorned, Moved, Generated
<1> QED
  BY <1>2, <1>3 DEF Suggests

(***************************************************************************)
(* ProcessSuggestedCountry.                                                *)
(***************************************************************************)
\* A sample is a suggestion and a switch.
LEMMA SampleIs ==
  ASSUME sample \in Samples
  PROVE  sample.suggested \in Seq(Nat) /\ sample.force \in BOOLEAN
<1>1. sample \in [suggested: Seq(Nat), force: BOOLEAN]
  BY PostprocessAssumption
<1> QED
  BY <1>1

\* The score of a suggestion is a percentage.
LEMMA SuggestedScoreIs ==
  SuggestedScore \in Nat /\ SuggestedScore <= 100
<1>1. SuggestedScore \in 0..100
  BY MatchScoreAssumption
<1> QED
  BY <1>1

\* Marking the suggested code moves it.
LEMMA MarkIs ==
  ASSUME NEW m \in MatchRecord
  PROVE  Moved(m, MarkSuggested(m))
<1>1. CASE ~(m.possibility = sample.suggested /\ m.origin = sample.suggested)
  BY <1>1 DEF MarkSuggested, Moved
<1>2. CASE m.possibility = sample.suggested /\ m.origin = sample.suggested
  <2> DEFINE y == AddFlags(m, {"IsSuggestedCountry"})
             v == Max({y.crf, SuggestedScore})
             x == [start |-> y.start, end |-> y.end, possibility |-> y.possibility,
                   origin |-> y.origin, dist |-> y.dist, flags |-> y.flags, crf |-> v,
                   final |-> y.final]
  <2>1. Adorned(m, y)
    <3>1. {"IsSuggestedCountry"} \in SUBSET Flags
      BY DEF Flags, Unweighted
    <3> QED
      BY <3>1, AddFlagsIs
  <2>2. y \in MatchRecord /\ Moved(m, y)
    BY <2>1 DEF Adorned, Moved
  <2>3. MarkSuggested(m) = [y EXCEPT !.crf = Max({@, SuggestedScore})]
    BY <1>2 DEF MarkSuggested
  <2> HIDE DEF y
  <2>4. v \in 0..100
    <3>1. y.crf \in Nat /\ y.crf <= 100
      BY <2>2, FieldsAre
    <3>2. SuggestedScore \in Nat /\ SuggestedScore <= 100
      BY SuggestedScoreIs
    <3>3. v \in {y.crf, SuggestedScore}
      <4>1. y.crf \in Int /\ SuggestedScore \in Int
        BY <3>1, <3>2
      <4> QED
        BY <4>1, MaxOfTwo
    <3> HIDE DEF v
    <3> QED
      BY <3>1, <3>2, <3>3
  <2>5. MarkSuggested(m) = x
    <3>1. y = [start |-> y.start, end |-> y.end, possibility |-> y.possibility,
               origin |-> y.origin, dist |-> y.dist, flags |-> y.flags, crf |-> y.crf,
               final |-> y.final]
      BY <2>2, RecordIs
    <3>2. MarkSuggested(m) = [y EXCEPT !.crf = v]
      BY <2>3
    <3> HIDE DEF v
    <3>3. [y EXCEPT !.crf = v] = x
      BY <3>1
    <3> QED
      BY <3>2, <3>3
  <2> HIDE DEF v
  <2>6. x \in MatchRecord
    BY <2>2, <2>4, RecordIs DEF MatchRecord
  <2>7. Moved(y, x)
    BY <2>6 DEF Moved
  <2>8. Moved(m, x)
    BY <2>2, <2>7, MovedOn
  <2> QED
    BY <2>5, <2>8
<1> QED
  BY <1>1, <1>2

GeneratedRecord ==
  [start |-> Len(text) + 2, end |-> Len(text) + 2, possibility |-> sample.suggested,
   origin |-> sample.suggested, dist |-> 0, flags |-> {"GeneratedBySuggestedCountry"},
   crf |-> SuggestedScore, final |-> 0]

\* The candidate made of the suggestion.
LEMMA GeneratedIs ==
  ASSUME text \in Seq(Nat), sample \in Samples
  PROVE  /\ GeneratedRecord \in CountryMatch
         /\ GeneratedCountry \in Seq(CountryMatch)
         /\ sample.suggested \notin {<<>>, NoCountry} => Has(GeneratedCountry, GeneratedRecord)
<1> DEFINE n == Len(text) + 2
           r == GeneratedRecord
<1>1. n \in Nat
  OBVIOUS
<1>2. sample.suggested \in Seq(Nat)
  BY SampleIs
<1>3. SuggestedScore \in 0..100
  BY MatchScoreAssumption
<1>4. {"GeneratedBySuggestedCountry"} \in SUBSET Flags
  BY DEF Flags, Unweighted
<1>5. r \in MatchRecord
  <2> HIDE DEF n
  <2>1. r = [start |-> n, end |-> n, possibility |-> sample.suggested,
             origin |-> sample.suggested, dist |-> 0, flags |-> {"GeneratedBySuggestedCountry"},
             crf |-> SuggestedScore, final |-> 0]
    BY DEF n, GeneratedRecord
  <2>2. 0 \in Nat /\ 0 \in 0..1000
    OBVIOUS
  <2> QED
    BY <1>1, <1>2, <1>3, <1>4, <2>1, <2>2 DEF MatchRecord
<1>6. r.start = n /\ r.end = n /\ r.possibility = sample.suggested /\ r.origin = sample.suggested
  BY DEF GeneratedRecord
<1>7. r \in Match(n)
  BY <1>1, <1>5, <1>6 DEF Match
<1>8. CountryLabel(r)
  <2>1. r.possibility = r.origin /\ r.origin \in {sample.suggested}
    BY <1>6
  <2> HIDE DEF r
  <2> QED
    BY <2>1 DEF CountryLabel
<1>9. r \in CountryMatch
  BY <1>7, <1>8 DEF CountryMatch
<1>10. GeneratedCountry = IF sample.suggested \in {<<>>, NoCountry} THEN <<>> ELSE <<r>>
  BY DEF GeneratedCountry, GeneratedRecord
<1> HIDE DEF r
<1>11. <<r>> \in Seq(CountryMatch) /\ DOMAIN <<r>> = 1..1 /\ <<r>>[1] = r
  BY <1>9
<1>12. Has(<<r>>, r)
  BY <1>11 DEF Has
<1> QED
  BY <1>9, <1>10, <1>11, <1>12 DEF r

\* The codes that are kept.
KeptCodes ==
  Select(Each(codes, LAMBDA m : MarkSuggested(WithCRF("COUNTRY", m))) \o GeneratedCountry,
         LAMBDA m : m.crf > 0 \/ m.origin = crf.head)

\* The codes that are kept are codes of the text, the suggestion among them.
LEMMA KeptCodesAre ==
  ASSUME text \in Seq(Nat), sample \in Samples, codes \in Seq(CountryMatch)
  PROVE  /\ KeptCodes \in Seq(CountryMatch)
         /\ sample.suggested \notin {<<>>, NoCountry} /\ SuggestedScore > 0 => Suggests(KeptCodes)
<1> DEFINE e == [k \in DOMAIN codes |-> MarkSuggested(WithCRF("COUNTRY", codes[k]))]
           g == e \o GeneratedCountry
           P == {i \in DOMAIN g : g[i].crf > 0 \/ g[i].origin = crf.head}
<1>1. KeptCodes = Subsequence(g, P)
  BY DEF KeptCodes, Select, Each
<1>2. MovedAll(codes, e)
  <2>1. ASSUME NEW k \in DOMAIN codes PROVE Moved(codes[k], e[k])
    <3> DEFINE m == codes[k]
               y == WithCRF("COUNTRY", m)
    <3>1. m \in MatchRecord
      BY MatchesAre
    <3>2. e[k] = MarkSuggested(y)
      OBVIOUS
    <3> HIDE DEF m, e
    <3>3. Moved(m, y)
      BY <3>1, WithCRFIs
    <3>4. y \in MatchRecord
      BY <3>3 DEF Moved
    <3> HIDE DEF y
    <3>5. Moved(y, MarkSuggested(y))
      BY <3>4, MarkIs
    <3>6. Moved(m, e[k])
      BY <3>2, <3>3, <3>5, MovedOn
    <3> QED
      BY <3>6 DEF m
  <2>2. DOMAIN e = DOMAIN codes /\ e = [k \in DOMAIN codes |-> e[k]]
    OBVIOUS
  <2> HIDE DEF e
  <2> QED
    BY <2>1, <2>2, MovedEach
<1> HIDE DEF e
<1>3. e \in Seq(CountryMatch)
  BY <1>2, CountriesMoved
<1>4. g \in Seq(CountryMatch) /\ \A x : Has(g, x) <=> Has(e, x) \/ Has(GeneratedCountry, x)
  BY <1>3, GeneratedIs, Joined
<1>5. P \in SUBSET DOMAIN g
  OBVIOUS
<1>6. \A i \in P : g[i].crf > 0 \/ g[i].origin = crf.head
  OBVIOUS
<1>7. \A i \in DOMAIN g : g[i].crf > 0 => i \in P
  OBVIOUS
<1> HIDE DEF P, g
<1>8. /\ Subsequence(g, P) \in Seq(CountryMatch)
      /\ \A x : Has(Subsequence(g, P), x) <=> \E i \in P : g[i] = x
  BY <1>4, <1>5, SubsequenceIs
<1>9. ASSUME sample.suggested \notin {<<>>, NoCountry}, SuggestedScore > 0
      PROVE  Suggests(KeptCodes)
  <2> DEFINE r == GeneratedRecord
  <2>1. Has(g, r)
    BY <1>4, <1>9, GeneratedIs
  <2>2. r.crf = SuggestedScore /\ r.origin = sample.suggested /\ Generated(r)
    BY DEF GeneratedRecord, Generated
  <2> HIDE DEF r
  <2>3. PICK i \in DOMAIN g : g[i] = r
    BY <2>1 DEF Has
  <2>4. i \in P
    BY <1>7, <1>9, <2>2, <2>3
  <2>5. Has(Subsequence(g, P), r)
    BY <1>8, <2>3, <2>4
  <2> QED
    BY <1>1, <2>2, <2>5 DEF Suggests
<1> QED
  BY <1>1, <1>8, <1>9

\* ProcessSuggestedCountry.
LEMMA AfterSuggestion ==
  ASSUME text \in Seq(Nat), sample \in Samples, codes \in Seq(CountryMatch),
         countries \in Seq(CountryMatch), ProcessSuggestedCountry
  PROVE  /\ codes' \in Seq(CountryMatch)
         /\ countries' \in Seq(CountryMatch)
         /\ sample.suggested \notin {<<>>, NoCountry} /\ SuggestedScore > 0 => Suggests(countries')
<1> DEFINE e == [k \in DOMAIN countries |-> WithCRF("COUNTRY", countries[k])]
<1>1. codes' = KeptCodes /\ countries' = e \o KeptCodes
  BY DEF ProcessSuggestedCountry, KeptCodes, Each
<1>2. MovedAll(countries, e)
  <2>1. ASSUME NEW k \in DOMAIN countries PROVE Moved(countries[k], e[k])
    <3> DEFINE m == countries[k]
    <3>1. m \in MatchRecord /\ e[k] = WithCRF("COUNTRY", m)
      BY MatchesAre
    <3> HIDE DEF m, e
    <3>2. Moved(m, e[k])
      BY <3>1, WithCRFIs
    <3> QED
      BY <3>2 DEF m
  <2>2. DOMAIN e = DOMAIN countries /\ e = [k \in DOMAIN countries |-> e[k]]
    OBVIOUS
  <2> HIDE DEF e
  <2> QED
    BY <2>1, <2>2, MovedEach
<1> HIDE DEF e
<1>3. e \in Seq(CountryMatch)
  BY <1>2, CountriesMoved
<1>4. KeptCodes \in Seq(CountryMatch)
  BY KeptCodesAre
<1>5. e \o KeptCodes \in Seq(CountryMatch)
      /\ \A x : Has(e \o KeptCodes, x) <=> Has(e, x) \/ Has(KeptCodes, x)
  BY <1>3, <1>4, Joined
<1>6. ASSUME sample.suggested \notin {<<>>, NoCountry}, SuggestedScore > 0
      PROVE  Suggests(countries')
  <2>1. Suggests(KeptCodes)
    BY <1>6, KeptCodesAre
  <2> QED
    BY <1>1, <1>5, <2>1 DEF Suggests
<1> QED
  BY <1>1, <1>4, <1>5, <1>6

(***************************************************************************)
(* FlagMatches, RelateMatches and ScoreMatches.                            *)
(***************************************************************************)
\* Sorting the codes first keeps the candidates.
LEMMA CodesFirstIs ==
  ASSUME NEW ms \in Seq(MatchRecord)
  PROVE  AdornedAll(ms, CodesFirst(ms))
<1> DEFINE P == {i \in DOMAIN ms : Len(ms[i].possibility) <= 2}
           Q == {i \in DOMAIN ms : ~(Len(ms[i].possibility) <= 2)}
           a == Subsequence(ms, P)
           b == Subsequence(ms, Q)
<1>1. CodesFirst(ms) = a \o b
  BY DEF CodesFirst, Select
<1>2. P \in SUBSET DOMAIN ms /\ Q \in SUBSET DOMAIN ms /\ \A i \in DOMAIN ms : i \in P \/ i \in Q
  OBVIOUS
<1> HIDE DEF P, Q
<1>3. /\ a \in Seq(MatchRecord) /\ \A x : Has(a, x) <=> \E i \in P : ms[i] = x
      /\ b \in Seq(MatchRecord) /\ \A x : Has(b, x) <=> \E i \in Q : ms[i] = x
  BY <1>2, SubsequenceIs
<1> HIDE DEF a, b
<1>4. /\ a \o b \in Seq(MatchRecord)
      /\ \A x : Has(a \o b, x) <=> Has(a, x) \/ Has(b, x)
  BY <1>3, Joined
<1>5. \A x : Has(a \o b, x) <=> Has(ms, x)
  BY <1>2, <1>3, <1>4 DEF Has
<1>6. \A x \in MatchRecord : Adorned(x, x) /\ Moved(x, x)
  BY DEF Adorned, Moved
<1>7. \A x : Has(ms, x) => x \in MatchRecord
  BY HasIn
<1> QED
  BY <1>1, <1>4, <1>5, <1>6, <1>7 DEF AdornedAll, MovedAll

\* FlagMatches.
LEMMA AfterFlags ==
  ASSUME text \in Seq(Nat), countries \in Seq(CountryMatch), towns \in Seq(TownMatch),
         FlagMatches
  PROVE  AdornedAll(countries, countries') /\ MovedAll(towns, towns')
<1> DEFINE e == [k \in DOMAIN towns |-> TownFlags(text, crf, WithCRF("TOWN", towns[k]))]
           f == [k \in DOMAIN countries |-> CountryFlags(text, crf, countries[k])]
<1>1. towns' = Ranked(e) /\ countries' = CodesFirst(Ranked(f))
  BY DEF FlagMatches, Each
<1>2. MovedAll(towns, e)
  <2>1. ASSUME NEW k \in DOMAIN towns PROVE Moved(towns[k], e[k])
    <3> DEFINE m == towns[k]
               y == WithCRF("TOWN", m)
    <3>1. m \in MatchRecord /\ e[k] = TownFlags(text, crf, y)
      BY MatchesAre
    <3> HIDE DEF m, e
    <3>2. Moved(m, y)
      BY <3>1, WithCRFIs
    <3>3. y \in MatchRecord
      BY <3>2 DEF Moved
    <3> HIDE DEF y
    <3>4. Adorned(y, TownFlags(text, crf, y))
      BY <3>3, TownFlagsIs
    <3>5. Moved(m, e[k])
      BY <3>1, <3>2, <3>4, MovedOn DEF Adorned
    <3> QED
      BY <3>5 DEF m
  <2>2. DOMAIN e = DOMAIN towns /\ e = [k \in DOMAIN towns |-> e[k]]
    OBVIOUS
  <2> HIDE DEF e
  <2> QED
    BY <2>1, <2>2, MovedEach
<1>3. AdornedAll(countries, f)
  <2>1. ASSUME NEW k \in DOMAIN countries PROVE Adorned(countries[k], f[k])
    <3> DEFINE m == countries[k]
    <3>1. m \in MatchRecord /\ f[k] = CountryFlags(text, crf, m)
      BY MatchesAre
    <3> HIDE DEF m, f
    <3>2. Adorned(m, f[k])
      BY <3>1, CountryFlagsIs
    <3> QED
      BY <3>2 DEF m
  <2>2. DOMAIN f = DOMAIN countries /\ f = [k \in DOMAIN countries |-> f[k]]
    OBVIOUS
  <2> HIDE DEF f
  <2> QED
    BY <2>1, <2>2, AdornedEach
<1> HIDE DEF e, f
<1>4. e \in Seq(MatchRecord) /\ f \in Seq(MatchRecord)
  BY <1>2, <1>3 DEF AdornedAll, MovedAll
<1>5. AdornedAll(e, Ranked(e)) /\ AdornedAll(f, Ranked(f))
  BY <1>4, RankedIs
<1>6. Ranked(f) \in Seq(MatchRecord)
  BY <1>5 DEF AdornedAll, MovedAll
<1>7. AdornedAll(Ranked(f), CodesFirst(Ranked(f)))
  BY <1>6, CodesFirstIs
<1>8. AdornedAll(countries, CodesFirst(Ranked(f)))
  BY <1>3, <1>5, <1>7, AdornedAllOn
<1>9. MovedAll(towns, Ranked(e))
  BY <1>2, <1>5, MovedAllOn DEF AdornedAll
<1> QED
  BY <1>1, <1>8, <1>9

\* RelateMatches.
LEMMA AfterRelations ==
  ASSUME countries \in Seq(CountryMatch), towns \in Seq(TownMatch), RelateMatches
  PROVE  AdornedAll(countries, countries') /\ MovedAll(towns, towns')
<1> DEFINE e == [k \in DOMAIN towns |->
                   PostcodeTownFlag(postcodes,
                     MistakeFlag(text, crf, "COUNTRY",
                                 RelateTown(text, countries, CountryHead, towns[k])))]
           f == [k \in DOMAIN countries |->
                   PostcodeCountryFlag(postcodes,
                     MistakeFlag(text, crf, "TOWN", RelateCountry(text, towns, countries[k])))]
<1>1. towns' = e /\ countries' = f
  BY DEF RelateMatches, Each
<1>2. AdornedAll(towns, e)
  <2>1. ASSUME NEW k \in DOMAIN towns PROVE Adorned(towns[k], e[k])
    <3> DEFINE m == towns[k]
               x == RelateTown(text, countries, CountryHead, m)
               y == MistakeFlag(text, crf, "COUNTRY", x)
    <3>1. m \in MatchRecord /\ e[k] = PostcodeTownFlag(postcodes, y)
      BY MatchesAre
    <3> HIDE DEF m, e
    <3>2. Adorned(m, x) /\ x \in MatchRecord
      BY <3>1, RelateTownIs DEF Adorned, Moved
    <3> HIDE DEF x
    <3>3. Adorned(x, y) /\ y \in MatchRecord
      BY <3>2, MistakeFlagIs DEF Adorned, Moved
    <3> HIDE DEF y
    <3>4. Adorned(y, e[k])
      BY <3>1, <3>3, PostcodeTownFlagIs
    <3>5. Adorned(m, e[k])
      BY <3>2, <3>3, <3>4, AdornedOn
    <3> QED
      BY <3>5 DEF m
  <2>2. DOMAIN e = DOMAIN towns /\ e = [k \in DOMAIN towns |-> e[k]]
    OBVIOUS
  <2> HIDE DEF e
  <2> QED
    BY <2>1, <2>2, AdornedEach
<1>3. AdornedAll(countries, f)
  <2>1. ASSUME NEW k \in DOMAIN countries PROVE Adorned(countries[k], f[k])
    <3> DEFINE m == countries[k]
               x == RelateCountry(text, towns, m)
               y == MistakeFlag(text, crf, "TOWN", x)
    <3>1. m \in MatchRecord /\ f[k] = PostcodeCountryFlag(postcodes, y)
      BY MatchesAre
    <3> HIDE DEF m, f
    <3>2. Adorned(m, x) /\ x \in MatchRecord
      BY <3>1, RelateCountryIs DEF Adorned, Moved
    <3> HIDE DEF x
    <3>3. Adorned(x, y) /\ y \in MatchRecord
      BY <3>2, MistakeFlagIs DEF Adorned, Moved
    <3> HIDE DEF y
    <3>4. Adorned(y, f[k])
      BY <3>1, <3>3, PostcodeCountryFlagIs
    <3>5. Adorned(m, f[k])
      BY <3>2, <3>3, <3>4, AdornedOn
    <3> QED
      BY <3>5 DEF m
  <2>2. DOMAIN f = DOMAIN countries /\ f = [k \in DOMAIN countries |-> f[k]]
    OBVIOUS
  <2> HIDE DEF f
  <2> QED
    BY <2>1, <2>2, AdornedEach
<1> QED
  BY <1>1, <1>2, <1>3 DEF AdornedAll

\* The suggestion is among the countries, with the score it was given.
SuggestsScored(s) ==
  \E x : /\ Has(s, x)
         /\ x.origin = sample.suggested
         /\ x.final = 10 * SuggestedScore

\* ScoreMatches.
LEMMA AfterScores ==
  ASSUME countries \in Seq(CountryMatch), towns \in Seq(TownMatch), ScoreMatches
  PROVE  /\ MovedAll(countries, countries') /\ MovedAll(towns, towns')
         /\ Suggests(countries) => SuggestsScored(countries')
<1> DEFINE e == [k \in DOMAIN towns |-> TownScore(towns[k])]
           f == [k \in DOMAIN countries |-> CountryScore(countries[k])]
<1>1. towns' = e /\ countries' = f
  BY DEF ScoreMatches, Each
<1>2. MovedAll(towns, e)
  <2>1. ASSUME NEW k \in DOMAIN towns PROVE Moved(towns[k], e[k])
    <3>1. towns[k] \in MatchRecord
      BY MatchesAre
    <3> QED
      BY <3>1, TownScoreIs
  <2>2. DOMAIN e = DOMAIN towns /\ e = [k \in DOMAIN towns |-> e[k]]
    OBVIOUS
  <2> HIDE DEF e
  <2> QED
    BY <2>1, <2>2, MovedEach
<1>3. MovedAll(countries, f)
  <2>1. ASSUME NEW k \in DOMAIN countries PROVE Moved(countries[k], f[k])
    <3>1. countries[k] \in MatchRecord
      BY MatchesAre
    <3> QED
      BY <3>1, CountryScoreIs
  <2>2. DOMAIN f = DOMAIN countries /\ f = [k \in DOMAIN countries |-> f[k]]
    OBVIOUS
  <2> HIDE DEF f
  <2> QED
    BY <2>1, <2>2, MovedEach
<1>4. ASSUME Suggests(countries) PROVE SuggestsScored(f)
  <2>1. PICK y : /\ Has(countries, y) /\ y.origin = sample.suggested /\ Generated(y)
                 /\ y.crf = SuggestedScore
    BY <1>4 DEF Suggests
  <2>2. PICK k \in DOMAIN countries : countries[k] = y
    BY <2>1 DEF Has
  <2>3. y \in MatchRecord
    BY <2>2, MatchesAre
  <2>4. Moved(y, CountryScore(y)) /\ CountryScore(y).final = 10 * y.crf
    BY <2>1, <2>3, CountryScoreIs
  <2>5. f[k] = CountryScore(y) /\ k \in DOMAIN f
    BY <2>2
  <2> HIDE DEF f
  <2>6. Has(f, CountryScore(y))
    BY <2>5 DEF Has
  <2>7. CountryScore(y).origin = sample.suggested /\ CountryScore(y).final = 10 * SuggestedScore
    BY <2>1, <2>4 DEF Moved
  <2> QED
    BY <2>6, <2>7 DEF SuggestsScored
<1> QED
  BY <1>1, <1>2, <1>3, <1>4

(***************************************************************************)
(* MatchNames: the three maps a text is searched for.                      *)
(***************************************************************************)
\* The known codes are finitely many texts.
LEMMA KnownCodesFinite ==
  IsFiniteSet(KnownCodes) /\ KnownCodes \subseteq Seq(Nat)
<1> DEFINE U == {w.origins : w \in CountryNames}
           f == [w \in CountryNames |-> w.origins]
<1>1. IsFiniteSet(CountryNames)
  BY PostprocessAssumption
<1>2. \A y \in U : \E w \in CountryNames : y = f[w]
  OBVIOUS
<1>3. \A y \in U : IsFiniteSet(y) /\ y \subseteq Seq(Nat)
  BY PostprocessAssumption
<1>4. IsFiniteSet(Alpha2) /\ Alpha2 \subseteq Seq(Nat)
  BY PostprocessAssumption
<1>5. KnownCodes = Alpha2 \cup UNION U
  BY DEF KnownCodes
<1> HIDE DEF U, f
<1>6. IsFiniteSet(U)
  BY <1>1, <1>2, FiniteImage
<1>7. IsFiniteSet(UNION U)
  BY <1>3, <1>6, FS_UNION
<1>8. IsFiniteSet(Alpha2 \cup UNION U)
  BY <1>4, <1>7, FS_Union
<1>9. UNION U \subseteq Seq(Nat)
  BY <1>3
<1> QED
  BY <1>4, <1>5, <1>8, <1>9

\* The codes looked for are entries.
LEMMA CodeEntries ==
  /\ IsFiniteSet(CountryCodeCandidates) /\ CountryCodeCandidates \in SUBSET Entry
  /\ \A w \in CountryCodeCandidates : w.name \in KnownCodes /\ w.origins = {w.name}
<1> DEFINE f == [c \in KnownCodes |-> [name |-> c, origins |-> {c}]]
<1>1. CountryCodeCandidates = {[name |-> c, origins |-> {c}] : c \in KnownCodes}
  BY DEF CountryCodeCandidates, KnownCodes
<1>2. \A y \in CountryCodeCandidates : \E c \in KnownCodes : y = f[c]
  BY <1>1
<1>3. ASSUME NEW w \in CountryCodeCandidates
      PROVE  w \in Entry /\ w.name \in KnownCodes /\ w.origins = {w.name}
  <2>1. PICK c \in KnownCodes : w = [name |-> c, origins |-> {c}]
    BY <1>1
  <2>2. c \in Seq(Nat)
    BY KnownCodesFinite
  <2>3. IsFiniteSet({c}) /\ {c} \in SUBSET Seq(Nat)
    BY <2>2, FS_Singleton
  <2>4. w.origins = {c} /\ w.name = c
    BY <2>1
  <2>5. w \in [name: Seq(Nat), origins: SUBSET Seq(Nat)]
    BY <2>1, <2>2, <2>3
  <2> QED
    BY <2>3, <2>4, <2>5 DEF Entry
<1> HIDE DEF f
<1>4. IsFiniteSet(CountryCodeCandidates)
  BY <1>2, KnownCodesFinite, FiniteImage
<1> QED
  BY <1>3, <1>4

\* The countries looked for are entries.
LEMMA CountryEntries ==
  IsFiniteSet(CountryNames) /\ CountryNames \in SUBSET Entry
<1>1. /\ IsFiniteSet(CountryNames)
      /\ CountryNames \subseteq [name: Seq(Nat), origins: SUBSET Seq(Nat)]
      /\ \A w \in CountryNames : IsFiniteSet(w.origins)
  BY PostprocessAssumption
<1> QED
  BY <1>1 DEF Entry

TownNameSet == UNION Range(TownNames)

\* The names of the towns are finitely many texts.
LEMMA TownNameSetIs ==
  /\ IsFiniteSet(TownNameSet) /\ TownNameSet \subseteq Seq(Nat) \ {<<>>}
  /\ \A n : n \in TownNameSet <=> \E c \in DOMAIN TownNames : n \in TownNames[c]
<1> DEFINE U == Range(TownNames)
<1>1. \A y : y \in U <=> \E c \in DOMAIN TownNames : y = TownNames[c]
  BY DEF Range
<1>2. IsFiniteSet(DOMAIN TownNames)
  BY PostprocessAssumption
<1>3. \A y \in U : IsFiniteSet(y) /\ y \subseteq Seq(Nat) \ {<<>>}
  BY <1>1, PostprocessAssumption
<1>4. TownNameSet = UNION U
  BY DEF TownNameSet
<1> HIDE DEF U
<1>5. IsFiniteSet(U)
  BY <1>1, <1>2, FiniteImage
<1>6. IsFiniteSet(UNION U)
  BY <1>3, <1>5, FS_UNION
<1>7. \A n : n \in UNION U <=> \E c \in DOMAIN TownNames : n \in TownNames[c]
  BY <1>1
<1>8. UNION U \subseteq Seq(Nat) \ {<<>>}
  BY <1>3
<1> QED
  BY <1>4, <1>6, <1>7, <1>8

\* The towns looked for are entries.
LEMMA TownEntries ==
  /\ IsFiniteSet(TownPossibilities) /\ TownPossibilities \in SUBSET Entry
  /\ \A w \in TownPossibilities : w.name \in TownNameSet
<1> DEFINE C(n) == {c \in DOMAIN TownNames : n \in TownNames[c]}
           f == [n \in TownNameSet |-> [name |-> n, origins |-> C(n)]]
<1>1. TownPossibilities = {[name |-> n, origins |-> C(n)] : n \in TownNameSet}
  BY DEF TownPossibilities, TownNameSet
<1>2. IsFiniteSet(DOMAIN TownNames) /\ DOMAIN TownNames \subseteq Seq(Nat)
  BY PostprocessAssumption
<1>3. \A y \in TownPossibilities : \E n \in TownNameSet : y = f[n]
  BY <1>1
<1>4. ASSUME NEW w \in TownPossibilities PROVE w \in Entry /\ w.name \in TownNameSet
  <2>1. PICK n \in TownNameSet : w = [name |-> n, origins |-> C(n)]
    BY <1>1
  <2>2. C(n) \subseteq DOMAIN TownNames
    OBVIOUS
  <2> HIDE DEF C
  <2>3. IsFiniteSet(C(n)) /\ C(n) \in SUBSET Seq(Nat)
    BY <1>2, <2>2, FS_Subset
  <2>4. n \in Seq(Nat)
    BY TownNameSetIs
  <2>5. w.name = n /\ w.origins = C(n)
    BY <2>1
  <2>6. w \in [name: Seq(Nat), origins: SUBSET Seq(Nat)]
    BY <2>1, <2>3, <2>4
  <2> QED
    BY <2>3, <2>5, <2>6 DEF Entry
<1> HIDE DEF f
<1>5. IsFiniteSet(TownPossibilities)
  BY <1>3, TownNameSetIs, FiniteImage
<1> QED
  BY <1>4, <1>5

\* MatchNames.
LEMMA AfterNames ==
  ASSUME text \in Texts, MatchNames
  PROVE  /\ countries' \in Seq(CountryMatch) /\ codes' \in Seq(CountryMatch)
         /\ towns' \in Seq(TownMatch)
<1>1. text \in Seq(Nat) /\ ToleranceCountry \in Nat /\ ToleranceTown \in Nat
  BY PostprocessAssumption
<1>2. /\ countries' = Scan(text, CountryNames, CutoffCountry, ToleranceCountry)
      /\ codes' = Scan(text, CountryCodeCandidates, CutoffCountry, ToleranceCountry)
      /\ towns' = Scan(text, TownPossibilities, CutoffTown, ToleranceTown)
  BY DEF MatchNames, FuzzyResults
<1>3. countries' \in Seq(Found(Len(text), CountryNames))
  BY <1>1, <1>2, CountryEntries, ScanIs
<1>4. codes' \in Seq(Found(Len(text), CountryCodeCandidates))
  BY <1>1, <1>2, CodeEntries, ScanIs
<1>5. towns' \in Seq(Found(Len(text), TownPossibilities))
  BY <1>1, <1>2, TownEntries, ScanIs
<1>6. \A m \in Match(Len(text)) : m \in Match(Len(text) + 2)
  <2>1. ASSUME NEW m \in Match(Len(text)) PROVE m \in Match(Len(text) + 2)
    <3>1. m \in MatchRecord /\ m.start <= m.end /\ m.end <= Len(text)
      BY DEF Match
    <3>2. m.end \in Nat /\ Len(text) \in Nat
      BY <1>1, <3>1, FieldsAre
    <3>3. m.end <= Len(text) + 2
      BY <3>1, <3>2
    <3> QED
      BY <3>1, <3>3 DEF Match
  <2> QED
    BY <2>1
<1>7. Found(Len(text), CountryNames) \subseteq CountryMatch
  BY <1>6 DEF Found, CountryMatch, CountryLabel
<1>8. Found(Len(text), CountryCodeCandidates) \subseteq CountryMatch
  <2>1. ASSUME NEW m \in Found(Len(text), CountryCodeCandidates) PROVE m \in CountryMatch
    <3>1. m \in Match(Len(text))
      BY DEF Found
    <3>2. PICK w \in CountryCodeCandidates : m.possibility = w.name /\ m.origin \in w.origins
      BY DEF Found
    <3>3. m.possibility = m.origin /\ m.origin \in KnownCodes
      BY <3>2, CodeEntries
    <3> QED
      BY <1>6, <3>1, <3>3 DEF CountryMatch, CountryLabel
  <2> QED
    BY <2>1
<1>9. Found(Len(text), TownPossibilities) \subseteq TownMatch
  <2>1. ASSUME NEW m \in Found(Len(text), TownPossibilities) PROVE m \in TownMatch
    <3>1. m \in Match(Len(text)) /\ m.possibility # <<>>
      BY DEF Found
    <3>2. PICK w \in TownPossibilities : m.possibility = w.name
      BY DEF Found
    <3>3. \E c \in DOMAIN TownNames : m.possibility \in TownNames[c]
      BY <3>2, TownEntries, TownNameSetIs
    <3> QED
      BY <1>6, <3>1, <3>3 DEF TownMatch
  <2> QED
    BY <2>1
<1> QED
  BY <1>3, <1>4, <1>5, <1>7, <1>8, <1>9, WiderSeq

(***************************************************************************)
(* Postcodes lie in the text.                                              *)
(***************************************************************************)
\* What a pattern finds lies in the text.
LEMMA FoundAll ==
  ASSUME NEW t \in Seq(Nat), NEW pattern, IsFiniteSet(pattern), pattern \subseteq Seq(Nat) \ {<<>>}
  PROVE  \A w \in Range(FindAll(pattern, t)) :
           w.start \in Nat /\ w.end \in Nat /\ w.start <= w.end /\ w.end <= Len(t)
<1> DEFINE per(word) == {[start |-> i, end |-> i + Len(word), dist |-> 0] : i \in Occurrences(t, word)}
           U == {per(word) : word \in pattern}
           c == UNION U
           f == [word \in pattern |-> per(word)]
<1>1. FindAll(pattern, t) = BestNonOverlapping(c)
  BY DEF FindAll
<1>2. ASSUME NEW word \in pattern
      PROVE  /\ IsFiniteSet(per(word))
             /\ \A m \in per(word) : m \in Stretch /\ m.start < m.end /\ m.end <= Len(t)
  <2> DEFINE n == Len(t) - Len(word)
             O == Occurrences(t, word)
             g == [i \in O |-> [start |-> i, end |-> i + Len(word), dist |-> 0]]
  <2>1. Len(word) \in Nat /\ Len(word) > 0 /\ Len(t) \in Nat
    <3>1. word \in Seq(Nat) /\ word # <<>>
      OBVIOUS
    <3> QED
      BY <3>1
  <2>2. O \subseteq 0..n
    BY DEF Occurrences
  <2>3. n \in Int
    BY <2>1
  <2> HIDE DEF n
  <2>4. IsFiniteSet(0..n)
    <3>1. 0 \in Int
      OBVIOUS
    <3> QED
      BY <2>3, <3>1, FS_Interval
  <2>5. \A y \in per(word) : \E i \in O : y = g[i]
    OBVIOUS
  <2>6. ASSUME NEW m \in per(word)
        PROVE  m \in Stretch /\ m.start < m.end /\ m.end <= Len(t)
    <3>1. PICK i \in O : m = [start |-> i, end |-> i + Len(word), dist |-> 0]
      OBVIOUS
    <3>2. i \in Nat /\ i <= n
      BY <2>2, <2>3
    <3>3. i + Len(word) \in Nat /\ i < i + Len(word) /\ i + Len(word) <= Len(t)
      BY <2>1, <3>2 DEF n
    <3> QED
      BY <3>1, <3>2, <3>3 DEF Stretch
  <2> HIDE DEF O, g
  <2>7. IsFiniteSet(O)
    BY <2>2, <2>4, FS_Subset
  <2> DEFINE T == per(word)
  <2>8. \A y \in T : \E i \in O : y = g[i]
    BY <2>5
  <2> HIDE DEF T, per
  <2>9. IsFiniteSet(T)
    BY <2>7, <2>8, FiniteImage
  <2> QED
    BY <2>6, <2>9 DEF T
<1>3. \A y \in U : \E word \in pattern : y = f[word]
  OBVIOUS
<1>4. \A y \in U : \E word \in pattern : y = per(word)
  OBVIOUS
<1> HIDE DEF per
<1>5. \A y \in U : IsFiniteSet(y)
  BY <1>2, <1>4
<1>6. \A m \in c : m \in Stretch /\ m.start < m.end /\ m.end <= Len(t)
  BY <1>2, <1>4
<1> HIDE DEF U, f
<1>7. IsFiniteSet(U)
  BY <1>3, FiniteImage
<1>8. IsFiniteSet(c)
  BY <1>5, <1>7, FS_UNION
<1>9. c \in SUBSET Stretch /\ \A m \in c : m.start < m.end
  BY <1>6
<1> HIDE DEF c
<1>10. BestNonOverlapping(c) \in Seq(c)
  BY <1>8, <1>9, BestIs
<1> DEFINE b == BestNonOverlapping(c)
<1>11. \A w \in Range(b) : w \in c
  <2>1. b \in Seq(c)
    BY <1>10
  <2> HIDE DEF b
  <2> QED
    BY <2>1 DEF Range
<1> HIDE DEF b
<1>12. ASSUME NEW w \in Range(b)
       PROVE  w.start \in Nat /\ w.end \in Nat /\ w.start <= w.end /\ w.end <= Len(t)
  <2>1. w \in Stretch /\ w.start < w.end /\ w.end <= Len(t)
    BY <1>6, <1>11
  <2>2. w.start \in Nat /\ w.end \in Nat
    BY <2>1 DEF Stretch
  <2> QED
    BY <2>1, <2>2
<1> QED
  BY <1>1, <1>12 DEF b

Fits(P, n) == \A p \in P : p.start \in 0..n /\ p.end \in p.start..n

\* A postcode match fits if its stretch does.
LEMMA MatchFits ==
  ASSUME NEW n \in Nat, NEW a \in Nat, NEW b \in Nat, a <= b, b <= n, NEW matched, NEW town,
         NEW origin
  PROVE  LET p == PostcodeMatch(a, b, matched, town, origin)
         IN p.start \in 0..n /\ p.end \in p.start..n
BY DEF PostcodeMatch

\* The matches of the resource files fit.
LEMMA ResourcesFit ==
  ASSUME NEW t \in Seq(Nat)
  PROVE  Fits(ResourceMatches(t), Len(t))
<1> SUFFICES ASSUME NEW p \in ResourceMatches(t)
             PROVE  p.start \in 0..Len(t) /\ p.end \in p.start..Len(t)
  BY DEF Fits
<1>1. PICK c \in DOMAIN Postcodes \cap DOMAIN Specs :
        p \in FindTownMatches(Postcodes[c], Specs[c].postal, t)
  BY DEF ResourceMatches
<1> DEFINE q == Preprocess(t)
           pattern == Specs[c].postal
<1>2. q \in Seq(Nat) /\ Len(q) = Len(t)
  <2>1. \A i \in DOMAIN t : q[i] \in Nat
    BY DEF Preprocess
  <2>2. DOMAIN q = DOMAIN t /\ q = [i \in DOMAIN t |-> q[i]]
    BY DEF Preprocess
  <2> HIDE DEF q
  <2>3. q \in [DOMAIN t -> Nat]
    BY <2>1, <2>2
  <2> QED
    BY <2>3, EachIs
<1>3. IsFiniteSet(pattern) /\ pattern \subseteq Seq(Nat) \ {<<>>}
  BY PostcodeAssumption
<1>4. PICK w \in Range(FindAll(pattern, q)) :
        p \in {PostcodeMatch(w.start, w.end, Slice(q, w.start, w.end), e.town, e.origin) :
                 e \in {f \in Postcodes[c] : f.key = Slice(q, w.start, w.end)}}
  BY <1>1 DEF FindTownMatches
<1>5. PICK e : p = PostcodeMatch(w.start, w.end, Slice(q, w.start, w.end), e.town, e.origin)
  BY <1>4
<1> HIDE DEF q, pattern
<1>6. w.start \in Nat /\ w.end \in Nat /\ w.start <= w.end /\ w.end <= Len(q)
  BY <1>2, <1>3, FoundAll
<1>7. Len(t) \in Nat
  OBVIOUS
<1> QED
  BY <1>2, <1>5, <1>6, <1>7, MatchFits

\* What the database answers lies in the text.
LEMMA DatabaseFits ==
  ASSUME NEW t \in Seq(Nat), NEW P \in DatabaseMatches(t)
  PROVE  Fits(P, Len(t))
<1> SUFFICES ASSUME NEW p \in P
             PROVE  p.start \in 0..Len(t) /\ p.end \in p.start..Len(t)
  BY DEF Fits
<1> DEFINE code(w) == Slice(t, w.start, w.end)
           found(w) ==
             {{PostcodeMatch(w.start, w.end, code(w), <<>>, c) : c \in cs}
               \cup {PostcodeMatch(w.start, w.end, code(w), r.town, r.country) : r \in ts} :
               cs \in CountryEvidence(code(w)), ts \in SafeTownEvidence(code(w))}
           G == [Codes(t) -> UNION {found(w) : w \in Codes(t)}]
<1>0. DatabaseMatches(t) = {UNION Range(f) : f \in {g \in G : \A w \in Codes(t) : g[w] \in found(w)}}
  BY DEF DatabaseMatches
<1>g. \A g \in G : DOMAIN g = Codes(t)
  OBVIOUS
<1> HIDE DEF found, G
<1>1. PICK g \in G :
        /\ \A w \in Codes(t) : g[w] \in found(w)
        /\ P = UNION Range(g)
  BY <1>0
<1>2. PICK w \in Codes(t) : p \in g[w]
  <2>1. DOMAIN g = Codes(t)
    BY <1>g
  <2> QED
    BY <1>1, <2>1 DEF Range
<1>3. g[w] \in found(w)
  BY <1>1
<1>4. PICK cs \in CountryEvidence(code(w)), ts \in SafeTownEvidence(code(w)) :
        g[w] = {PostcodeMatch(w.start, w.end, code(w), <<>>, c) : c \in cs}
                \cup {PostcodeMatch(w.start, w.end, code(w), r.town, r.country) : r \in ts}
  BY <1>3 DEF found
<1>5. w.start \in Nat /\ w.end \in Nat /\ w.start <= w.end /\ w.end <= Len(t) /\ Len(t) \in Nat
  <2>1. w \in [start: 0..Len(t), end: 0..Len(t)] /\ w.end - w.start \in 3..10
    BY DEF Codes
  <2>2. w.start \in 0..Len(t) /\ w.end \in 0..Len(t)
    BY <2>1
  <2> QED
    BY <2>1, <2>2
<1>6. CASE \E c \in cs : p = PostcodeMatch(w.start, w.end, code(w), <<>>, c)
  BY <1>5, <1>6, MatchFits
<1>7. CASE \E r \in ts : p = PostcodeMatch(w.start, w.end, code(w), r.town, r.country)
  BY <1>5, <1>7, MatchFits
<1> QED
  BY <1>2, <1>4, <1>6, <1>7

\* MatchPostcodes.
LEMMA AfterPostcodes ==
  ASSUME text \in Texts, MatchPostcodes
  PROVE  Fits(postcodes', Len(text))
<1>1. text \in Seq(Nat)
  BY PostprocessAssumption
<1>2. CASE source = "resources"
  <2>1. postcodes' = ResourceMatches(text)
    BY <1>2 DEF MatchPostcodes
  <2> QED
    BY <1>1, <2>1, ResourcesFit
<1>3. CASE source # "resources"
  <2>1. postcodes' \in DatabaseMatches(text)
    BY <1>3 DEF MatchPostcodes
  <2> QED
    BY <1>1, <2>1, DatabaseFits
<1> QED
  BY <1>2, <1>3

(***************************************************************************)
(* Lines.                                                                  *)
(***************************************************************************)
Starts(t) == {0} \cup {i \in DOMAIN t : t[i] = Newline}

Inked(t, s) == {i \in s..(LineEnd(t, s) - 1) : ~IsBlank(t[i + 1])}

LineAt(t, s) ==
  [start |-> s, end |-> LineEnd(t, s),
   trimStart |-> Min(Inked(t, s)), trimEnd |-> Max(Inked(t, s)) + 1]

InkedStarts(t) == {s \in Starts(t) : Inked(t, s) # {}}

\* A line ends at a line break or at the end of the text, and has none inside.
LEMMA LineEndIs ==
  ASSUME NEW t \in Seq(Nat), NEW s \in Starts(t)
  PROVE  /\ s \in 0..Len(t) /\ Len(t) \in Nat
         /\ LineEnd(t, s) \in s..Len(t)
         /\ \A i \in (s + 1)..LineEnd(t, s) : t[i] # Newline
<1>1. s \in 0..Len(t) /\ Len(t) \in Nat
  BY DEF Starts
<1> DEFINE n == Len(t)
           E == {e \in s..n : e = n \/ t[e + 1] = Newline}
<1>2. E \in SUBSET Nat /\ n \in E
  BY <1>1
<1>3. PICK e \in E : \A y \in E : e <= y
  <2> HIDE DEF E
  <2> QED
    BY <1>2, LeastNatural
<1>4. ASSUME NEW i \in (s + 1)..e PROVE t[i] # Newline
  <2> DEFINE j == i - 1
  <2>1. j \in s..n /\ j < e /\ i = j + 1
    BY <1>1
  <2>2. j \notin E
    <3> HIDE DEF E, j
    <3>1. e \in Nat /\ j \in Nat
      BY <1>1, <1>2, <2>1
    <3> QED
      BY <1>3, <2>1, <3>1
  <2> QED
    BY <2>1, <2>2
<1>5. e \in s..Len(t) /\ (e = Len(t) \/ t[e + 1] = Newline)
  OBVIOUS
<1>6. \E f \in s..Len(t) : /\ f = Len(t) \/ t[f + 1] = Newline
                           /\ \A i \in (s + 1)..f : t[i] # Newline
  BY <1>4, <1>5
<1>7. LineEnd(t, s) \in s..Len(t) /\ \A i \in (s + 1)..LineEnd(t, s) : t[i] # Newline
  BY <1>6 DEF LineEnd
<1> QED
  BY <1>1, <1>7

\* A line of the text.
IsLine(t, l) ==
  /\ l.start \in Nat /\ l.end \in Nat /\ l.trimStart \in Nat /\ l.trimEnd \in Nat
  /\ l.start <= l.trimStart /\ l.trimStart < l.trimEnd
  /\ l.trimEnd <= l.end /\ l.end <= Len(t)
  /\ \A i \in (l.start + 1)..l.end : t[i] # Newline
  /\ ~IsBlank(t[l.trimStart + 1]) /\ ~IsBlank(t[l.trimEnd])

\* The line at a start is a line.
LEMMA LineAtIs ==
  ASSUME NEW t \in Seq(Nat), NEW s \in InkedStarts(t)
  PROVE  IsLine(t, LineAt(t, s)) /\ LineAt(t, s).start = s /\ LineAt(t, s).end = LineEnd(t, s)
<1>1. s \in Starts(t) /\ Inked(t, s) # {}
  BY DEF InkedStarts
<1>2. /\ s \in 0..Len(t) /\ Len(t) \in Nat
      /\ LineEnd(t, s) \in s..Len(t)
      /\ \A i \in (s + 1)..LineEnd(t, s) : t[i] # Newline
  BY <1>1, LineEndIs
<1> DEFINE e == LineEnd(t, s)
           I == Inked(t, s)
           a == Min(I)
           z == Max(I)
<1>3. s \in Nat /\ e \in Nat /\ e <= Len(t)
  BY <1>2
<1>4. I \subseteq s..(e - 1) /\ \A i \in I : ~IsBlank(t[i + 1])
  BY DEF Inked
<1> HIDE DEF e, I
<1>5. I \in SUBSET Int /\ \A i \in I : s <= i /\ i <= e - 1
  BY <1>3, <1>4
<1>6. a \in I /\ \A i \in I : a <= i
  <2>1. s \in Int
    BY <1>3
  <2> QED
    BY <1>1, <1>5, <2>1, MinIs DEF I
<1>7. z \in I /\ \A i \in I : i <= z
  <2> DEFINE b == e - 1
  <2>1. b \in Int /\ \A i \in I : i <= b
    BY <1>3, <1>5
  <2> HIDE DEF b
  <2> QED
    BY <1>1, <1>5, <2>1, MaxIs DEF I
<1> HIDE DEF a, z
<1>8. /\ a \in Nat /\ z \in Nat /\ s <= a /\ a <= z /\ z + 1 <= e /\ z + 1 \in Nat /\ a < z + 1
      /\ ~IsBlank(t[a + 1]) /\ ~IsBlank(t[z + 1])
  BY <1>3, <1>4, <1>5, <1>6, <1>7
<1>9. LineAt(t, s) = [start |-> s, end |-> e, trimStart |-> a, trimEnd |-> z + 1]
  BY DEF LineAt, a, z, e, I
<1>10. /\ LineAt(t, s).start = s /\ LineAt(t, s).end = e
       /\ LineAt(t, s).trimStart = a /\ LineAt(t, s).trimEnd = z + 1
  BY <1>9
<1>11. \A i \in (s + 1)..e : t[i] # Newline
  BY <1>2 DEF e
<1>12. IsLine(t, LineAt(t, s))
  BY <1>3, <1>8, <1>10, <1>11 DEF IsLine
<1> QED
  BY <1>10, <1>12 DEF e

\* The next line starts after the end of this one.
LEMMA LineAfterLine ==
  ASSUME NEW t \in Seq(Nat), NEW r \in Starts(t), NEW s \in Starts(t), r < s
  PROVE  LineEnd(t, r) < s
<1>1. /\ r \in 0..Len(t) /\ Len(t) \in Nat /\ s \in 0..Len(t)
      /\ LineEnd(t, r) \in r..Len(t)
      /\ \A i \in (r + 1)..LineEnd(t, r) : t[i] # Newline
  BY LineEndIs
<1>2. t[s] = Newline
  BY <1>1 DEF Starts
<1>3. s \notin (r + 1)..LineEnd(t, r)
  BY <1>1, <1>2
<1> QED
  BY <1>1, <1>3

\* NonEmptyLines lists lines, in the order of their starts.
LEMMA LinesAre ==
  ASSUME NEW t \in Seq(Nat)
  PROVE  LET lines == NonEmptyLines(t)
         IN /\ lines \in Seq({LineAt(t, s) : s \in InkedStarts(t)})
            /\ \A i, j \in DOMAIN lines : i < j => lines[i].end < lines[j].start
<1> DEFINE S == {LineAt(t, s) : s \in InkedStarts(t)}
           R == {p \in S \X S : p[1].start < p[2].start}
           n == Cardinality(S)
           l == Listed(S, R)
           f == [s \in InkedStarts(t) |-> LineAt(t, s)]
<1>1. NonEmptyLines(t) = l
  BY DEF NonEmptyLines, InOrder, LineAt, InkedStarts, Inked, Starts
<1>2. Starts(t) \subseteq 0..Len(t) /\ Len(t) \in Nat
  BY DEF Starts
<1>3. InkedStarts(t) \subseteq Nat
  BY <1>2 DEF InkedStarts
<1>4. IsFiniteSet(S)
  <2>1. IsFiniteSet(0..Len(t))
    <3> DEFINE m == Len(t)
    <3>1. 0 \in Int /\ m \in Int
      BY <1>2
    <3> HIDE DEF m
    <3>2. IsFiniteSet(0..m)
      BY <3>1, FS_Interval
    <3> QED
      BY <3>2 DEF m
  <2>2. InkedStarts(t) \subseteq 0..Len(t)
    BY <1>2 DEF InkedStarts
  <2>3. IsFiniteSet(InkedStarts(t))
    BY <2>1, <2>2, FS_Subset
  <2>4. \A y \in S : \E s \in InkedStarts(t) : y = f[s]
    OBVIOUS
  <2> HIDE DEF S, f
  <2> QED
    BY <2>3, <2>4, FiniteImage
<1>5. ASSUME NEW x \in S
      PROVE  x.start \in InkedStarts(t) /\ x = LineAt(t, x.start) /\ x.start \in Nat
  <2>1. PICK s \in InkedStarts(t) : x = LineAt(t, s)
    OBVIOUS
  <2> HIDE DEF S
  <2>2. x.start = s
    BY <2>1, LineAtIs
  <2> QED
    BY <1>3, <2>1, <2>2
<1>6. \A x, y \in S : <<x, y>> \in R <=> x.start < y.start
  OBVIOUS
<1> HIDE DEF S, R, f
<1>7. StrictOrder(S, R)
  <2>1. \A x \in S : <<x, x>> \notin R
    BY <1>5, <1>6
  <2>2. ASSUME NEW x \in S, NEW y \in S, NEW z \in S, <<x, y>> \in R, <<y, z>> \in R
        PROVE  <<x, z>> \in R
    <3>1. x.start < y.start /\ y.start < z.start
      BY <1>6, <2>2
    <3>2. x.start \in Nat /\ y.start \in Nat /\ z.start \in Nat
      BY <1>5
    <3>3. x.start < z.start
      BY <3>1, <3>2
    <3> QED
      BY <1>6, <3>3
  <2>3. ASSUME NEW x \in S, NEW y \in S, x # y PROVE <<x, y>> \in R \/ <<y, x>> \in R
    <3>1. x.start # y.start
      BY <1>5, <2>3
    <3>2. x.start \in Nat /\ y.start \in Nat
      BY <1>5
    <3>3. x.start < y.start \/ y.start < x.start
      BY <3>1, <3>2
    <3> QED
      BY <1>6, <3>3
  <2> QED
    BY <2>1, <2>2, <2>3 DEF StrictOrder
<1>8. n \in Nat /\ l \in [1..n -> S] /\ \A i, j \in 1..n : i < j => <<l[i], l[j]>> \in R
  BY <1>4, <1>7, ListedIs
<1> HIDE DEF n, l
<1>9. l \in Seq(S) /\ DOMAIN l = 1..n
  BY <1>8
<1>10. ASSUME NEW i \in DOMAIN l, NEW j \in DOMAIN l, i < j
       PROVE  l[i].end < l[j].start
  <2> DEFINE x == l[i]
             y == l[j]
  <2>1. x \in S /\ y \in S /\ <<x, y>> \in R
    BY <1>8, <1>9, <1>10
  <2> HIDE DEF x, y
  <2>2. x.start < y.start /\ x.start \in InkedStarts(t) /\ y.start \in InkedStarts(t)
    BY <1>5, <1>6, <2>1
  <2>3. x.end = LineEnd(t, x.start)
    BY <1>5, <2>1, <2>2, LineAtIs
  <2>4. x.start \in Starts(t) /\ y.start \in Starts(t)
    BY <2>2 DEF InkedStarts
  <2>5. LineEnd(t, x.start) < y.start
    BY <2>2, <2>4, LineAfterLine
  <2> QED
    BY <2>3, <2>5 DEF x, y
<1> QED
  BY <1>1, <1>9, <1>10 DEF S

\* The lines of a text, first to last.
LEMMA EveryLine ==
  ASSUME NEW t \in Seq(Nat), NEW lines, lines = NonEmptyLines(t)
  PROVE  /\ Len(lines) \in Nat /\ DOMAIN lines = 1..Len(lines)
         /\ \A i \in DOMAIN lines : IsLine(t, lines[i])
         /\ \A i, j \in DOMAIN lines : i < j => lines[i].end < lines[j].start
<1> DEFINE S == {LineAt(t, s) : s \in InkedStarts(t)}
<1>1. lines \in Seq(S) /\ \A i, j \in DOMAIN lines : i < j => lines[i].end < lines[j].start
  BY LinesAre
<1>2. \A x \in S : IsLine(t, x)
  BY LineAtIs
<1> HIDE DEF S
<1>3. \A i \in DOMAIN lines : lines[i] \in S
  BY <1>1
<1>4. Len(lines) \in Nat /\ DOMAIN lines = 1..Len(lines)
  BY <1>1
<1> QED
  BY <1>1, <1>2, <1>3, <1>4

\* What is left of a line without the blanks around it has none to lose.
LEMMA InkIsTrimmed ==
  ASSUME NEW t \in Seq(Nat), NEW l, IsLine(t, l)
  PROVE  LET name == Slice(t, l.trimStart, l.trimEnd)
         IN name \in Seq(Nat) /\ name # <<>> /\ Trim(name) = name
<1> DEFINE a == l.trimStart
           z == l.trimEnd
           name == Slice(t, a, z)
           m == z - a
           K == {i \in DOMAIN name : ~(IsBlank(name[i]) \/ name[i] = Newline)}
<1>1. a \in Nat /\ z \in Nat /\ a < z /\ z <= Len(t) /\ Len(t) \in Nat /\ ~IsBlank(t[a + 1]) /\ ~IsBlank(t[z])
  BY DEF IsLine
<1>2. t[a + 1] # Newline /\ t[z] # Newline
  <2>1. l.start \in Nat /\ l.end \in Nat /\ l.start <= a /\ z <= l.end
    BY DEF IsLine
  <2>2. a + 1 \in (l.start + 1)..l.end /\ z \in (l.start + 1)..l.end
    BY <1>1, <2>1
  <2> QED
    BY <2>2 DEF IsLine
<1> HIDE DEF a, z
<1>3. m \in Nat /\ 1 <= m
  BY <1>1
<1>4. name \in Seq(Nat) /\ Len(name) = m /\ \A i \in 1..m : name[i] = t[a + i]
  <2> DEFINE b == a + 1
  <2>1. name = SubSeq(t, b, z)
    BY DEF Slice
  <2>2. b \in Nat /\ b >= 1 /\ z \in Nat /\ z <= Len(t) /\ z + 1 - b = m /\ b <= z
    BY <1>1
  <2> HIDE DEF b, name, m
  <2>3. Len(SubSeq(t, b, z)) = z + 1 - b /\ SubSeq(t, b, z) \in Seq(Nat)
    BY <2>2
  <2>4. \A i \in 1..(z + 1 - b) : SubSeq(t, b, z)[i] = t[b + i - 1]
    BY <2>2
  <2>5. \A i \in 1..m : b + i - 1 = a + i
    BY <1>1 DEF b
  <2> QED
    BY <2>1, <2>2, <2>3, <2>4, <2>5
<1>5. DOMAIN name = 1..m
  BY <1>3, <1>4
<1>6. name[1] = t[a + 1] /\ name[m] = t[z]
  <2>1. 1 \in 1..m /\ m \in 1..m /\ a + m = z
    BY <1>1, <1>3
  <2> HIDE DEF name, m
  <2> QED
    BY <1>4, <2>1
<1> HIDE DEF name, m
<1>7. 1 \in K /\ m \in K /\ K \subseteq 1..m
  BY <1>1, <1>2, <1>3, <1>5, <1>6
<1> HIDE DEF K
<1>8. Min(K) = 1
  <2>1. K \in SUBSET Int /\ \A x \in K : 1 <= x
    BY <1>7
  <2>2. 1 \in Int
    OBVIOUS
  <2>3. Min(K) \in K /\ \A x \in K : Min(K) <= x
    BY <1>7, <2>1, <2>2, MinIs
  <2>4. Min(K) \in Int /\ Min(K) <= 1 /\ 1 <= Min(K)
    BY <1>7, <2>1, <2>3
  <2> QED
    BY <2>4
<1>9. Max(K) = m
  <2>1. K \in SUBSET Int /\ \A x \in K : x <= m
    BY <1>3, <1>7
  <2>2. m \in Int
    BY <1>3
  <2>3. Max(K) \in K /\ \A x \in K : x <= Max(K)
    BY <1>7, <2>1, <2>2, MaxIs
  <2>4. Max(K) \in Int /\ Max(K) <= m /\ m <= Max(K)
    BY <1>7, <2>1, <2>3
  <2> QED
    BY <2>2, <2>4
<1>10. Trim(name) = SubSeq(name, 1, m)
  <2>1. Trim(name) = IF K = {} THEN <<>> ELSE SubSeq(name, Min(K), Max(K))
    BY DEF Trim, K
  <2> QED
    BY <1>7, <1>8, <1>9, <2>1
<1>11. SubSeq(name, 1, m) = name
  BY <1>3, <1>4
<1>12. name # <<>>
  BY <1>3, <1>4
<1> QED
  BY <1>4, <1>10, <1>11, <1>12 DEF name, a, z

(***************************************************************************)
(* CombinationGenerator.                                                   *)
(***************************************************************************)
Combo(n) == [country: Match(n), town: Match(n), score: Int]

NoCountryAt(s) ==
  Placeholder(NoCountry, IF s.suggested = NoCountry THEN 10 * SuggestedScore ELSE MinimalCountry)

NoTownAt == Placeholder(NoTown, MinimalTown)

Allowed(s, cs, c) == Has(cs, c) /\ CountryAllowed(s, c)

Paired(s, cs, ts, k) ==
  \E c, t : /\ Allowed(s, cs, c) /\ Has(ts, t) /\ ~SkipPair(c, t)
            /\ c.origin = t.origin \/ Foreign(c, t, ts)
            /\ k = Combination(c, t, c.final + t.final)

AloneCountry(s, cs, k) ==
  \E c : Allowed(s, cs, c) /\ k = Combination(c, NoTownAt, SoloCountry(c))

AloneTown(s, ts, k) ==
  /\ ~(Forced(s) /\ s.suggested # NoCountry)
  /\ \E t : Has(ts, t) /\ k = Combination(NoCountryAt(s), t, SoloTown(t))

Nothing(s) == Combination(NoCountryAt(s), NoTownAt, MinimalCountry + MinimalTown)

\* The placeholders are candidates.
LEMMA PlaceholdersAre ==
  ASSUME NEW n \in Nat, NEW s
  PROVE  NoCountryAt(s) \in Match(n) /\ NoTownAt \in Match(n)
<1>1. ASSUME NEW name \in Seq(Nat), NEW v \in 0..1000
      PROVE  Placeholder(name, v) \in Match(n)
  <2> DEFINE r == Placeholder(name, v)
  <2>1. {} \in SUBSET Flags /\ 0 \in Nat /\ 0 \in 0..100
    OBVIOUS
  <2>2. r \in MatchRecord
    BY <1>1, <2>1 DEF Placeholder, MatchRecord
  <2>3. r.start = 0 /\ r.end = 0
    BY DEF Placeholder
  <2> HIDE DEF r
  <2>4. r.start <= r.end /\ r.end <= n
    BY <2>3
  <2> QED
    BY <2>2, <2>4 DEF Match, r
<1>2. /\ NoCountry \in Seq(Nat) /\ NoTown \in Seq(Nat)
      /\ MinimalCountry \in 0..1000 /\ MinimalTown \in 0..1000
  BY MatchScoreAssumption
<1>3. 10 * SuggestedScore \in 0..1000
  BY SuggestedScoreIs
<1> DEFINE v == IF s.suggested = NoCountry THEN 10 * SuggestedScore ELSE MinimalCountry
<1>4. v \in 0..1000
  BY <1>2, <1>3
<1>5. NoCountryAt(s) = Placeholder(NoCountry, v)
  BY DEF NoCountryAt
<1> HIDE DEF v
<1> QED
  BY <1>1, <1>2, <1>4, <1>5, ZenonT(60) DEF NoTownAt

\* A combination of candidates.
LEMMA ComboIs ==
  ASSUME NEW n, NEW c \in Match(n), NEW t \in Match(n), NEW v \in Int
  PROVE  Combination(c, t, v) \in Combo(n)
BY DEF Combination, Combo

\* A final score is an integer.
LEMMA FinalIs ==
  ASSUME NEW n, NEW m \in Match(n)
  PROVE  m \in MatchRecord /\ m.final \in Int
<1>1. m \in MatchRecord
  BY DEF Match
<1> QED
  BY <1>1, FieldsAre

\* A country with the towns at some positions.
Pairs(c, ts, P) ==
  [k \in DOMAIN Subsequence(ts, P) |->
     Combination(c, Subsequence(ts, P)[k], c.final + Subsequence(ts, P)[k].final)]

\* The pairs of a country and the towns at some positions.
LEMMA PairsAre ==
  ASSUME NEW n \in Nat, NEW c \in Match(n), NEW ts \in Seq(Match(n)), NEW P \in SUBSET DOMAIN ts
  PROVE  /\ Pairs(c, ts, P) \in Seq(Combo(n))
         /\ \A k : Has(Pairs(c, ts, P), k) <=>
                     \E i \in P : k = Combination(c, ts[i], c.final + ts[i].final)
<1> DEFINE partners == Subsequence(ts, P)
           r == Pairs(c, ts, P)
<1>0. r = [k \in DOMAIN partners |-> Combination(c, partners[k], c.final + partners[k].final)]
  BY DEF Pairs
<1> HIDE DEF partners, r
<1>1. /\ partners \in Seq(Match(n))
      /\ \A x : Has(partners, x) <=> \E i \in P : ts[i] = x
  BY SubsequenceIs DEF partners
<1>2. ASSUME NEW k \in DOMAIN partners
      PROVE  Combination(c, partners[k], c.final + partners[k].final) \in Combo(n)
  <2> DEFINE t == partners[k]
  <2>1. t \in Match(n)
    BY <1>1
  <2> HIDE DEF t
  <2>2. c.final \in Int /\ t.final \in Int
    BY <2>1, FinalIs
  <2>3. c.final + t.final \in Int
    BY <2>2
  <2> QED
    BY <2>1, <2>3, ComboIs DEF t
<1>3. r \in [DOMAIN partners -> Combo(n)]
  BY <1>0, <1>2
<1>4. r \in Seq(Combo(n)) /\ DOMAIN r = DOMAIN partners
  BY <1>1, <1>3, EachIs
<1>5. ASSUME NEW k, Has(r, k)
      PROVE  \E i \in P : k = Combination(c, ts[i], c.final + ts[i].final)
  <2>1. PICK j \in DOMAIN partners : r[j] = k
    BY <1>4, <1>5 DEF Has
  <2>2. PICK i \in P : ts[i] = partners[j]
    BY <1>1, <2>1 DEF Has
  <2>3. k = Combination(c, partners[j], c.final + partners[j].final)
    BY <1>0, <2>1
  <2> QED
    BY <2>2, <2>3
<1>6. ASSUME NEW i \in P
      PROVE  Has(r, Combination(c, ts[i], c.final + ts[i].final))
  <2>1. PICK j \in DOMAIN partners : partners[j] = ts[i]
    BY <1>1 DEF Has
  <2>2. r[j] = Combination(c, ts[i], c.final + ts[i].final)
    BY <1>0, <2>1
  <2> QED
    BY <1>4, <2>1, <2>2 DEF Has
<1> QED
  BY <1>4, <1>5, <1>6 DEF r

\* The combinations of each country of a list, one after the other.
LEMMA ChainedAre ==
  ASSUME NEW n, NEW A, NEW allowed \in Seq(A), NEW f, NEW each, each = [k \in DOMAIN allowed |-> f[allowed[k]]],
         \A c \in A : f[c] \in Seq(Combo(n))
  PROVE  /\ FlattenSeq(each) \in Seq(Combo(n))
         /\ \A x : Has(FlattenSeq(each), x) <=> \E c : Has(allowed, c) /\ Has(f[c], x)
<1>1. each \in [DOMAIN allowed -> Seq(Combo(n))]
  <2>1. \A k \in DOMAIN allowed : allowed[k] \in A
    OBVIOUS
  <2> QED
    BY <2>1
<1>2. each \in Seq(Seq(Combo(n))) /\ DOMAIN each = DOMAIN allowed
  BY <1>1, EachIs
<1>3. /\ FlattenSeq(each) \in Seq(Combo(n))
      /\ \A x : Has(FlattenSeq(each), x) <=> \E k \in DOMAIN each : Has(each[k], x)
  BY <1>2, FlattenIs
<1>4. \A k \in DOMAIN allowed : each[k] = f[allowed[k]]
  OBVIOUS
<1>5. \A x : (\E k \in DOMAIN each : Has(each[k], x)) <=> \E c : Has(allowed, c) /\ Has(f[c], x)
  <2>1. ASSUME NEW x, NEW k \in DOMAIN each, Has(each[k], x)
        PROVE  \E c : Has(allowed, c) /\ Has(f[c], x)
    <3>1. Has(allowed, allowed[k]) /\ Has(f[allowed[k]], x)
      BY <1>2, <1>4, <2>1 DEF Has
    <3> QED
      BY <3>1
  <2>2. ASSUME NEW x, NEW c, Has(allowed, c), Has(f[c], x)
        PROVE  \E k \in DOMAIN each : Has(each[k], x)
    <3>1. PICK k \in DOMAIN allowed : allowed[k] = c
      BY <2>2 DEF Has
    <3> QED
      BY <1>2, <1>4, <2>2, <3>1
  <2> QED
    BY <2>1, <2>2
<1> QED
  BY <1>3, <1>5

\* CombinationGenerator: the pairs, the countries alone and the towns alone, and
\* neither of both only if there is nothing else.
LEMMA GenerateIs ==
  ASSUME NEW n \in Nat, NEW s, NEW cs \in Seq(Match(n)), NEW ts \in Seq(Match(n)),
         NEW G, G = Generate(s, cs, ts)
  PROVE  /\ G \in Seq(Combo(n)) /\ \E k : Has(G, k)
         /\ \A k : Paired(s, cs, ts, k) \/ AloneCountry(s, cs, k) \/ AloneTown(s, ts, k) => Has(G, k)
         /\ \A k : Has(G, k) =>
              \/ Paired(s, cs, ts, k) \/ AloneCountry(s, cs, k) \/ AloneTown(s, ts, k)
              \/ /\ k = Nothing(s)
                 /\ \A j : ~(Paired(s, cs, ts, j) \/ AloneCountry(s, cs, j) \/ AloneTown(s, ts, j))
<1> DEFINE M == Match(n)
           PA == {i \in DOMAIN cs : CountryAllowed(s, cs[i])}
           allowed == Subsequence(cs, PA)
           ownP(c) == {i \in DOMAIN ts : c.origin = ts[i].origin /\ ~SkipPair(c, ts[i])}
           foreignP(c) == {i \in DOMAIN ts : Foreign(c, ts[i], ts) /\ ~SkipPair(c, ts[i])}
           ownT(c) == Subsequence(ts, ownP(c))
           foreignT(c) == Subsequence(ts, foreignP(c))
           own == [c \in M |-> Pairs(c, ts, ownP(c))]
           foreign == [c \in M |-> Pairs(c, ts, foreignP(c))]
           e1 == [k \in DOMAIN allowed |-> own[allowed[k]]]
           e2 == [k \in DOMAIN allowed |-> foreign[allowed[k]]]
           f1 == [k \in DOMAIN allowed |->
                    [j \in DOMAIN ownT(allowed[k]) |->
                       Combination(allowed[k], ownT(allowed[k])[j],
                                   allowed[k].final + ownT(allowed[k])[j].final)]]
           f2 == [k \in DOMAIN allowed |->
                    [j \in DOMAIN foreignT(allowed[k]) |->
                       Combination(allowed[k], foreignT(allowed[k])[j],
                                   allowed[k].final + foreignT(allowed[k])[j].final)]]
           e3 == [k \in DOMAIN allowed |-> Combination(allowed[k], NoTownAt, SoloCountry(allowed[k]))]
           soloTowns == IF Forced(s) /\ s.suggested # NoCountry THEN <<>> ELSE ts
           e4 == [k \in DOMAIN soloTowns |-> Combination(NoCountryAt(s), soloTowns[k], SoloTown(soloTowns[k]))]
           all == FlattenSeq(e1) \o FlattenSeq(e2) \o e3 \o e4
           all0 == FlattenSeq(f1) \o FlattenSeq(f2) \o e3 \o e4
           C == Combo(n)
<1>1. G = IF all0 = <<>> THEN <<Nothing(s)>> ELSE all0
  BY DEF Generate, Select, NoCountryAt, NoTownAt, Nothing
<1>2. allowed \in Seq(M) /\ \A x : Has(allowed, x) <=> Allowed(s, cs, x)
  <2>1. PA \in SUBSET DOMAIN cs /\ \A x : (\E i \in PA : cs[i] = x) <=> Allowed(s, cs, x)
    BY DEF Allowed, Has
  <2> HIDE DEF PA, M
  <2>2. cs \in Seq(M)
    BY DEF M
  <2> QED
    BY <2>1, <2>2, SubsequenceIs
<1>3. f1 = e1 /\ f2 = e2
  <2>1. \A k \in DOMAIN allowed : allowed[k] \in M
    <3> HIDE DEF allowed, M
    <3> QED
      BY <1>2
  <2> HIDE DEF allowed, ownT, foreignT, M
  <2>2. \A k \in DOMAIN allowed : f1[k] = own[allowed[k]] /\ f2[k] = foreign[allowed[k]]
    BY <2>1 DEF Pairs, ownT, foreignT
  <2> HIDE DEF own, foreign
  <2> QED
    BY <2>2
<1>4. ASSUME NEW c \in M
      PROVE  /\ own[c] \in Seq(C)
             /\ \A k : Has(own[c], k) <=>
                  \E t : /\ Has(ts, t) /\ c.origin = t.origin /\ ~SkipPair(c, t)
                         /\ k = Combination(c, t, c.final + t.final)
  <2> DEFINE P == ownP(c)
  <2>1. own[c] = Pairs(c, ts, P)
    OBVIOUS
  <2>2. P \in SUBSET DOMAIN ts /\ \A i \in DOMAIN ts : i \in P <=> c.origin = ts[i].origin /\ ~SkipPair(c, ts[i])
    OBVIOUS
  <2>3. c \in Match(n)
    OBVIOUS
  <2> HIDE DEF P, own, M
  <2>4. /\ Pairs(c, ts, P) \in Seq(Combo(n))
        /\ \A k : Has(Pairs(c, ts, P), k) <=> \E i \in P : k = Combination(c, ts[i], c.final + ts[i].final)
    BY <2>2, <2>3, PairsAre
  <2>5. ASSUME NEW k
        PROVE  (\E i \in P : k = Combination(c, ts[i], c.final + ts[i].final)) <=>
                  \E t : /\ Has(ts, t) /\ c.origin = t.origin /\ ~SkipPair(c, t)
                         /\ k = Combination(c, t, c.final + t.final)
    BY <2>2 DEF Has
  <2> QED
    BY <2>1, <2>4, <2>5
<1>5. ASSUME NEW c \in M
      PROVE  /\ foreign[c] \in Seq(C)
             /\ \A k : Has(foreign[c], k) <=>
                  \E t : /\ Has(ts, t) /\ Foreign(c, t, ts) /\ ~SkipPair(c, t)
                         /\ k = Combination(c, t, c.final + t.final)
  <2> DEFINE P == foreignP(c)
  <2>1. foreign[c] = Pairs(c, ts, P)
    OBVIOUS
  <2>2. P \in SUBSET DOMAIN ts /\ \A i \in DOMAIN ts : i \in P <=> Foreign(c, ts[i], ts) /\ ~SkipPair(c, ts[i])
    OBVIOUS
  <2>3. c \in Match(n)
    OBVIOUS
  <2> HIDE DEF P, foreign, M
  <2>4. /\ Pairs(c, ts, P) \in Seq(Combo(n))
        /\ \A k : Has(Pairs(c, ts, P), k) <=> \E i \in P : k = Combination(c, ts[i], c.final + ts[i].final)
    BY <2>2, <2>3, PairsAre
  <2>5. ASSUME NEW k
        PROVE  (\E i \in P : k = Combination(c, ts[i], c.final + ts[i].final)) <=>
                  \E t : /\ Has(ts, t) /\ Foreign(c, t, ts) /\ ~SkipPair(c, t)
                         /\ k = Combination(c, t, c.final + t.final)
    BY <2>2 DEF Has
  <2> QED
    BY <2>1, <2>4, <2>5
<1> HIDE DEF f1, f2, allowed, own, foreign, ownT, foreignT, ownP, foreignP
<1>6. /\ FlattenSeq(e1) \in Seq(C)
      /\ \A x : Has(FlattenSeq(e1), x) <=> \E c : Has(allowed, c) /\ Has(own[c], x)
  <2> HIDE DEF M
  <2>1. e1 = [k \in DOMAIN allowed |-> own[allowed[k]]]
    OBVIOUS
  <2> HIDE DEF e1
  <2> QED
    BY <1>2, <1>4, <2>1, ChainedAre
<1>7. /\ FlattenSeq(e2) \in Seq(C)
      /\ \A x : Has(FlattenSeq(e2), x) <=> \E c : Has(allowed, c) /\ Has(foreign[c], x)
  <2> HIDE DEF M
  <2>1. e2 = [k \in DOMAIN allowed |-> foreign[allowed[k]]]
    OBVIOUS
  <2> HIDE DEF e2
  <2> QED
    BY <1>2, <1>5, <2>1, ChainedAre
<1>8. NoCountryAt(s) \in M /\ NoTownAt \in M
  BY PlaceholdersAre
<1>9. e3 \in Seq(C) /\ \A x : Has(e3, x) <=> AloneCountry(s, cs, x)
  <2>1. ASSUME NEW c \in M PROVE Combination(c, NoTownAt, SoloCountry(c)) \in C
    <3>1. c \in MatchRecord
      BY DEF Match
    <3>2. SoloCountry(c) \in Int
      BY <3>1, SoloScores
    <3> QED
      BY <1>8, <3>2, ComboIs
  <2>2. \A k \in DOMAIN allowed : allowed[k] \in M
    <3> HIDE DEF M
    <3> QED
      BY <1>2
  <2> HIDE DEF C, M
  <2>3. e3 \in [DOMAIN allowed -> C]
    BY <2>1, <2>2
  <2>4. \A k \in DOMAIN allowed : e3[k] = Combination(allowed[k], NoTownAt, SoloCountry(allowed[k]))
    OBVIOUS
  <2> HIDE DEF e3
  <2>5. e3 \in Seq(C) /\ DOMAIN e3 = DOMAIN allowed
    BY <1>2, <2>3, EachIs
  <2> QED
    BY <1>2, <2>4, <2>5 DEF Has, AloneCountry
<1>10. e4 \in Seq(C) /\ \A x : Has(e4, x) <=> AloneTown(s, ts, x)
  <2>1. ASSUME NEW t \in M PROVE Combination(NoCountryAt(s), t, SoloTown(t)) \in C
    <3>1. t \in MatchRecord
      BY DEF Match
    <3>2. SoloTown(t) \in Int
      BY <3>1, SoloScores
    <3> QED
      BY <1>8, <3>2, ComboIs
  <2> HIDE DEF C, M
  <2>2. soloTowns \in Seq(M)
    BY DEF M
  <2>3. \A x : Has(soloTowns, x) <=> ~(Forced(s) /\ s.suggested # NoCountry) /\ Has(ts, x)
    BY DEF Has
  <2> HIDE DEF soloTowns
  <2>4. e4 \in [DOMAIN soloTowns -> C]
    BY <2>1, <2>2
  <2>5. \A k \in DOMAIN soloTowns : e4[k] = Combination(NoCountryAt(s), soloTowns[k], SoloTown(soloTowns[k]))
    OBVIOUS
  <2> HIDE DEF e4
  <2>6. e4 \in Seq(C) /\ DOMAIN e4 = DOMAIN soloTowns
    BY <2>2, <2>4, EachIs
  <2>7. \A x : Has(e4, x) <=> \E t : Has(soloTowns, t) /\ x = Combination(NoCountryAt(s), t, SoloTown(t))
    BY <2>5, <2>6 DEF Has
  <2> QED
    BY <2>3, <2>6, <2>7 DEF AloneTown
<1>11. \A x : Has(FlattenSeq(e1), x) \/ Has(FlattenSeq(e2), x) <=> Paired(s, cs, ts, x)
  <2>1. \A c : Has(allowed, c) => c \in M
    <3> HIDE DEF M
    <3> QED
      BY <1>2, HasIn
  <2>2. ASSUME NEW x, Has(FlattenSeq(e1), x) PROVE Paired(s, cs, ts, x)
    <3>1. PICK c : Has(allowed, c) /\ Has(own[c], x)
      BY <1>6, <2>2
    <3>2. c \in M /\ Allowed(s, cs, c)
      BY <1>2, <2>1, <3>1
    <3>3. PICK t : /\ Has(ts, t) /\ c.origin = t.origin /\ ~SkipPair(c, t)
                   /\ x = Combination(c, t, c.final + t.final)
      BY <1>4, <3>1, <3>2
    <3> QED
      BY <3>2, <3>3 DEF Paired
  <2>3. ASSUME NEW x, Has(FlattenSeq(e2), x) PROVE Paired(s, cs, ts, x)
    <3>1. PICK c : Has(allowed, c) /\ Has(foreign[c], x)
      BY <1>7, <2>3
    <3>2. c \in M /\ Allowed(s, cs, c)
      BY <1>2, <2>1, <3>1
    <3>3. PICK t : /\ Has(ts, t) /\ Foreign(c, t, ts) /\ ~SkipPair(c, t)
                   /\ x = Combination(c, t, c.final + t.final)
      BY <1>5, <3>1, <3>2
    <3> QED
      BY <3>2, <3>3 DEF Paired
  <2>4. ASSUME NEW x, Paired(s, cs, ts, x) PROVE Has(FlattenSeq(e1), x) \/ Has(FlattenSeq(e2), x)
    <3>1. PICK c, t : /\ Allowed(s, cs, c) /\ Has(ts, t) /\ ~SkipPair(c, t)
                      /\ c.origin = t.origin \/ Foreign(c, t, ts)
                      /\ x = Combination(c, t, c.final + t.final)
      BY <2>4 DEF Paired
    <3>2. Has(allowed, c) /\ c \in M
      BY <1>2, <2>1, <3>1
    <3>3. CASE c.origin = t.origin
      <4>1. Has(own[c], x)
        BY <1>4, <3>1, <3>2, <3>3
      <4> QED
        BY <1>6, <3>2, <4>1
    <3>4. CASE Foreign(c, t, ts)
      <4>1. Has(foreign[c], x)
        BY <1>5, <3>1, <3>2, <3>4
      <4> QED
        BY <1>7, <3>2, <4>1
    <3> QED
      BY <3>1, <3>3, <3>4
  <2> QED
    BY <2>2, <2>3, <2>4
<1> HIDE DEF e1, e2, e3, e4, C, M
<1>12. /\ all \in Seq(C)
       /\ \A x : Has(all, x) <=> Paired(s, cs, ts, x) \/ AloneCountry(s, cs, x) \/ AloneTown(s, ts, x)
  <2> DEFINE a == FlattenSeq(e1)
             b == FlattenSeq(e2)
             ab == a \o b
             abc == ab \o e3
  <2>1. a \in Seq(C) /\ b \in Seq(C)
    BY <1>6, <1>7
  <2>2. all = abc \o e4
    OBVIOUS
  <2> HIDE DEF a, b, all
  <2>3. ab \in Seq(C) /\ \A x : Has(ab, x) <=> Has(a, x) \/ Has(b, x)
    BY <2>1, Joined
  <2> HIDE DEF ab
  <2>4. abc \in Seq(C) /\ \A x : Has(abc, x) <=> Has(ab, x) \/ Has(e3, x)
    BY <1>9, <2>3, Joined
  <2> HIDE DEF abc
  <2>5. all \in Seq(C) /\ \A x : Has(all, x) <=> Has(abc, x) \/ Has(e4, x)
    BY <1>10, <2>2, <2>4, Joined
  <2>6. \A x : Has(a, x) \/ Has(b, x) <=> Paired(s, cs, ts, x)
    BY <1>11 DEF a, b
  <2> QED
    BY <1>9, <1>10, <2>3, <2>4, <2>5, <2>6
<1>13. G = IF all = <<>> THEN <<Nothing(s)>> ELSE all
  BY <1>1, <1>3
<1> HIDE DEF all, all0
<1>14. CASE all = <<>>
  <2>1. Nothing(s) \in C
    <3>1. MinimalCountry + MinimalTown \in Int
      <4>1. MinimalCountry \in 0..1000 /\ MinimalTown \in 0..1000
        BY MatchScoreAssumption
      <4> QED
        BY <4>1
    <3> QED
      BY <1>8, <3>1, ComboIs DEF Nothing, M, C
  <2>2. G = <<Nothing(s)>>
    BY <1>13, <1>14
  <2>3. <<Nothing(s)>> \in Seq(C) /\ \A x : Has(<<Nothing(s)>>, x) <=> x = Nothing(s)
    BY <2>1 DEF Has
  <2>4. \A x : ~Has(all, x)
    BY <1>14 DEF Has
  <2> QED
    BY <1>12, <2>2, <2>3, <2>4 DEF C
<1>15. CASE all # <<>>
  <2>1. G = all
    BY <1>13, <1>15
  <2>2. \E k : Has(all, k)
    <3>1. 1 \in DOMAIN all
      BY <1>12, <1>15
    <3> QED
      BY <3>1 DEF Has
  <2> QED
    BY <1>12, <2>1, <2>2 DEF C
<1> QED
  BY <1>14, <1>15

\* A stable sort by descending value.
Descent(D, v) ==
  {p \in D \X D : v[p[1]] > v[p[2]] \/ (~(v[p[2]] > v[p[1]]) /\ p[1] < p[2])}

\* The stable sort by score is a permutation.
LEMMA Descending ==
  ASSUME NEW T, NEW s \in Seq(T), NEW v, \A i \in DOMAIN s : v[i] \in Int,
         NEW q, q = [k \in DOMAIN s |-> s[Listed(DOMAIN s, Descent(DOMAIN s, v))[k]]]
  PROVE  q \in Seq(T) /\ Len(q) = Len(s) /\ \A x : Has(q, x) <=> Has(s, x)
<1> DEFINE D == DOMAIN s
           B == {p \in D \X D : v[p[1]] > v[p[2]]}
<1>1. \A i, j \in D : <<i, j>> \in B <=> v[i] > v[j]
  OBVIOUS
<1>2. Descent(DOMAIN s, v) = Stable(D, B)
  <2>1. ASSUME NEW p \in D \X D
        PROVE  (p \in B <=> v[p[1]] > v[p[2]]) /\ (<<p[2], p[1]>> \in B <=> v[p[2]] > v[p[1]])
    <3>1. p[1] \in D /\ p[2] \in D /\ p = <<p[1], p[2]>>
      OBVIOUS
    <3> HIDE DEF B, D
    <3> QED
      BY <1>1, <3>1
  <2>2. Stable(D, B) = {p \in D \X D : p \in B \/ (<<p[2], p[1]>> \notin B /\ p[1] < p[2])}
    BY DEF Stable
  <2>3. Descent(DOMAIN s, v) = {p \in D \X D : v[p[1]] > v[p[2]] \/ (~(v[p[2]] > v[p[1]]) /\ p[1] < p[2])}
    BY DEF Descent
  <2> HIDE DEF B, D
  <2> QED
    BY <2>1, <2>2, <2>3
<1>3. WeakOrder(D, B)
  <2> HIDE DEF B, D
  <2>1. ASSUME NEW i \in D, NEW j \in D, <<i, j>> \in B PROVE <<j, i>> \notin B
    <3>1. v[i] \in Int /\ v[j] \in Int
      BY DEF D
    <3> QED
      BY <1>1, <2>1, <3>1
  <2>2. ASSUME NEW i \in D, NEW j \in D, NEW k \in D, <<i, j>> \in B
        PROVE  <<i, k>> \in B \/ <<k, j>> \in B
    <3>1. v[i] \in Int /\ v[j] \in Int /\ v[k] \in Int
      BY DEF D
    <3>2. v[i] > v[j]
      BY <1>1, <2>2
    <3>3. v[i] > v[k] \/ v[k] > v[j]
      BY <3>1, <3>2
    <3> QED
      BY <1>1, <3>3
  <2> QED
    BY <2>1, <2>2 DEF WeakOrder
<1>4. q = [k \in DOMAIN s |-> s[Listed(DOMAIN s, Stable(DOMAIN s, B))[k]]]
  BY <1>2
<1> HIDE DEF B
<1> QED
  BY <1>3, <1>4, SortKeeps DEF D

SameKey(k, l) ==
  /\ k.country.origin = l.country.origin
  /\ TownKey(k.town) = TownKey(l.town)

\* dedupeCombinations keeps one of each key.
LEMMA DedupeIs ==
  ASSUME NEW T, NEW q \in Seq(T)
  PROVE  /\ Dedupe(q) \in Seq(T)
         /\ \A k : Has(Dedupe(q), k) => Has(q, k)
         /\ \A k : Has(q, k) => \E l : Has(Dedupe(q), l) /\ SameKey(k, l)
<1> DEFINE key(k) == <<q[k].country.origin, TownKey(q[k].town)>>
           F == {k \in DOMAIN q : \A j \in 1..(k - 1) : key(j) # key(k)}
<1>1. Dedupe(q) = Subsequence(q, F)
  BY DEF Dedupe
<1>2. Len(q) \in Nat /\ DOMAIN q = 1..Len(q)
  OBVIOUS
<1>3. F \in SUBSET DOMAIN q
  OBVIOUS
<1>4. ASSUME NEW i \in DOMAIN q
      PROVE  \E j \in F : key(j) = key(i)
  <2> DEFINE E == {j \in DOMAIN q : key(j) = key(i)}
  <2>1. E \in SUBSET Nat /\ i \in E
    BY <1>2
  <2>2. PICK j \in E : \A y \in E : j <= y
    <3> HIDE DEF E
    <3> QED
      BY <2>1, LeastNatural
  <2>3. ASSUME NEW m \in 1..(j - 1) PROVE key(m) # key(j)
    <3>1. j \in 1..Len(q) /\ key(j) = key(i)
      BY <1>2
    <3>2. m \in DOMAIN q /\ m < j /\ ~(j <= m)
      BY <1>2, <3>1
    <3>3. m \notin E
      BY <2>2, <3>2
    <3> HIDE DEF key
    <3> QED
      BY <3>1, <3>2, <3>3
  <2> QED
    BY <2>3
<1>5. \A i, j \in DOMAIN q : key(i) = key(j) => SameKey(q[i], q[j])
  BY DEF SameKey
<1> HIDE DEF F, key
<1>6. /\ Subsequence(q, F) \in Seq(T)
      /\ \A x : Has(Subsequence(q, F), x) <=> \E i \in F : q[i] = x
  BY <1>3, SubsequenceIs
<1>7. ASSUME NEW k, Has(q, k) PROVE \E l : Has(Dedupe(q), l) /\ SameKey(k, l)
  <2>1. PICK i \in DOMAIN q : q[i] = k
    BY <1>7 DEF Has
  <2>2. PICK j \in F : key(j) = key(i)
    BY <1>4
  <2>3. SameKey(k, q[j])
    BY <1>3, <1>5, <2>1, <2>2
  <2> QED
    BY <1>1, <1>6, <2>3
<1>8. \A k : Has(Dedupe(q), k) => Has(q, k)
  BY <1>1, <1>3, <1>6 DEF Has
<1> QED
  BY <1>1, <1>6, <1>7, <1>8

\* Sorted and deduplicated, the combinations are still those generated, one of
\* each key.
LEMMA BestFirstIs ==
  ASSUME NEW n, NEW G \in Seq(Combo(n))
  PROVE  /\ BestFirst(G) \in Seq(Combo(n))
         /\ \A k : Has(BestFirst(G), k) => Has(G, k)
         /\ \A k : Has(G, k) => \E l : Has(BestFirst(G), l) /\ SameKey(k, l)
<1> DEFINE D == DOMAIN G
           v == [i \in D |-> G[i].score]
           R == Descent(D, v)
           R1 == {p \in D \X D : \/ G[p[1]].score > G[p[2]].score
                                 \/ ~(G[p[2]].score > G[p[1]].score) /\ p[1] < p[2]}
           q == [k \in D |-> G[Listed(D, R1)[k]]]
<1>1. BestFirst(G) = Dedupe(q)
  BY DEF BestFirst, StableSort, InOrder
<1>2. R1 = R
  <2>1. \A i \in D : v[i] = G[i].score
    OBVIOUS
  <2> HIDE DEF v, D
  <2> QED
    BY <2>1 DEF Descent
<1>3. \A i \in D : v[i] \in Int
  <2>1. \A i \in D : G[i] \in Combo(n)
    OBVIOUS
  <2>2. \A k \in Combo(n) : k.score \in Int
    BY DEF Combo
  <2> QED
    BY <2>1, <2>2
<1> HIDE DEF v, R1
<1>4. q \in Seq(Combo(n)) /\ \A x : Has(q, x) <=> Has(G, x)
  <2>2. q = [k \in DOMAIN G |-> G[Listed(DOMAIN G, Descent(DOMAIN G, v))[k]]]
    BY <1>2
  <2> HIDE DEF q
  <2> QED
    BY <1>3, <2>2, Descending
<1> HIDE DEF q
<1>5. /\ Dedupe(q) \in Seq(Combo(n))
      /\ \A k : Has(Dedupe(q), k) => Has(q, k)
      /\ \A k : Has(q, k) => \E l : Has(Dedupe(q), l) /\ SameKey(k, l)
  BY <1>4, DedupeIs
<1> QED
  BY <1>1, <1>4, <1>5

\* The line structure adjusts a score by an integer.
LEMMA AdjustmentIs ==
  ASSUME NEW lines, NEW k
  PROVE  Adjustment(lines, k) \in Int
<1> DEFINE a == IF LineOf(lines, k.country) = Len(lines) /\ Occupies(lines[Len(lines)], k.country) THEN 400
                ELSE IF LineOf(lines, k.country) > 0 /\ LooksLikeCode(lines[Len(lines)]) THEN -400 ELSE 0
           b == IF LineOf(lines, k.town) = Len(lines) - 1 /\ Occupies(lines[LineOf(lines, k.town)], k.town) THEN 600
                ELSE IF LineOf(lines, k.country) = Len(lines) /\ LineOf(lines, k.town) > 0
                          /\ LineOf(lines, k.town) < Len(lines) - 1 THEN -500 ELSE 0
<1>1. Adjustment(lines, k) = a + b
  BY DEF Adjustment
<1>2. a \in Int /\ b \in Int
  OBVIOUS
<1> HIDE DEF a, b
<1> QED
  BY <1>1, <1>2

\* Reranking is a permutation.
LEMMA RerankIs ==
  ASSUME NEW n, NEW t, NEW s \in Seq(Combo(n))
  PROVE  Rerank(t, s) \in Seq(Combo(n)) /\ \A x : Has(Rerank(t, s), x) <=> Has(s, x)
<1> DEFINE lines == NonEmptyLines(t)
           D == DOMAIN s
           v == [i \in D |-> s[i].score + Adjustment(lines, s[i])]
           R == Descent(D, v)
           R1 == {p \in D \X D : \/ s[p[1]].score + Adjustment(lines, s[p[1]])
                                      > s[p[2]].score + Adjustment(lines, s[p[2]])
                                 \/ ~(s[p[2]].score + Adjustment(lines, s[p[2]])
                                        > s[p[1]].score + Adjustment(lines, s[p[1]])) /\ p[1] < p[2]}
           q == [k \in D |-> s[Listed(D, R1)[k]]]
<1>1. Rerank(t, s) = IF Len(lines) < 2 \/ Len(s) < 2 THEN s ELSE q
  BY DEF Rerank, StableSort, InOrder
<1>2. R1 = R
  <2>1. \A i \in D : v[i] = s[i].score + Adjustment(lines, s[i])
    OBVIOUS
  <2> HIDE DEF v, D
  <2> QED
    BY <2>1 DEF Descent
<1>3. \A i \in D : v[i] \in Int
  <2>1. \A i \in D : s[i] \in Combo(n)
    OBVIOUS
  <2>2. \A k \in Combo(n) : k.score \in Int
    BY DEF Combo
  <2>3. \A i \in D : s[i].score \in Int /\ Adjustment(lines, s[i]) \in Int
    BY <2>1, <2>2, AdjustmentIs
  <2> QED
    BY <2>3
<1> HIDE DEF v, R1
<1>4. q \in Seq(Combo(n)) /\ \A x : Has(q, x) <=> Has(s, x)
  <2>2. q = [k \in DOMAIN s |-> s[Listed(DOMAIN s, Descent(DOMAIN s, v))[k]]]
    BY <1>2
  <2> HIDE DEF q
  <2> QED
    BY <1>3, <2>2, Descending
<1> HIDE DEF q
<1> QED
  BY <1>1, <1>4

(***************************************************************************)
(* The line before the country's.                                          *)
(***************************************************************************)
\* The smaller of two.
LEMMA MinOfTwo ==
  ASSUME NEW a \in Int, NEW b \in Int
  PROVE  Min({a, b}) \in {a, b} /\ Min({a, b}) <= a /\ Min({a, b}) <= b
<1> DEFINE S == {a, b}
           c == IF a <= b THEN a ELSE b
<1>1. S \in SUBSET Int /\ S # {} /\ c \in Int /\ \A x \in S : c <= x
  OBVIOUS
<1> HIDE DEF S, c
<1>2. Min(S) \in S /\ \A x \in S : Min(S) <= x
  BY <1>1, MinIs
<1> QED
  BY <1>2 DEF S

\* The line a span is said to be on holds it.
LEMMA LineOfIs ==
  ASSUME NEW t \in Seq(Nat), NEW lines, lines = NonEmptyLines(t), NEW m, NEW i, i > 0,
         LineOf(lines, m) = i
  PROVE  i \in DOMAIN lines /\ m.start >= lines[i].start /\ m.end <= lines[i].end
<1> DEFINE H == {j \in DOMAIN lines : m.start >= lines[j].start /\ m.end <= lines[j].end}
<1>1. LineOf(lines, m) = IF H = {} THEN 0 ELSE Min(H)
  BY DEF LineOf
<1>2. Len(lines) \in Nat /\ DOMAIN lines = 1..Len(lines)
  BY EveryLine
<1>3. H \in SUBSET Int /\ \A x \in H : 1 <= x
  BY <1>2
<1>4. \A x \in H : x \in DOMAIN lines /\ m.start >= lines[x].start /\ m.end <= lines[x].end
  OBVIOUS
<1> HIDE DEF H
<1>5. H # {}
  BY <1>1
<1>6. Min(H) \in H
  <2>1. 1 \in Int
    OBVIOUS
  <2> QED
    BY <1>3, <1>5, <2>1, MinIs
<1> QED
  BY <1>1, <1>4, <1>5, <1>6

\* finalLineCountryMatch answers a candidate that lies on the last line.
LEMMA EndingIs ==
  ASSUME NEW n, NEW lines, NEW cs \in Seq(Match(n)), NEW f, f = FinalLineCountry(lines, cs), f # <<>>
  PROVE  /\ DOMAIN f = {1} /\ Has(cs, f[1])
         /\ f[1].origin \notin {<<>>, NoCountry}
         /\ LineOf(lines, f[1]) = Len(lines)
<1> DEFINE P == {i \in DOMAIN cs : /\ cs[i].origin \notin {<<>>, NoCountry}
                                   /\ LineOf(lines, cs[i]) = Len(lines)
                                   /\ Occupies(lines[Len(lines)], cs[i])}
           g == Subsequence(cs, P)
           m == Min({1, Len(g)})
<1>1. f = SubSeq(g, 1, m)
  BY DEF FinalLineCountry, Select
<1>2. P \in SUBSET DOMAIN cs
      /\ \A i \in P : cs[i].origin \notin {<<>>, NoCountry} /\ LineOf(lines, cs[i]) = Len(lines)
  OBVIOUS
<1> HIDE DEF P
<1>3. /\ g \in Seq(Match(n))
      /\ \A x : Has(g, x) <=> \E i \in P : cs[i] = x
  BY <1>2, SubsequenceIs
<1> HIDE DEF g
<1>4. Len(g) \in Nat /\ DOMAIN g = 1..Len(g)
  BY <1>3
<1>5. m \in {1, Len(g)} /\ m <= 1 /\ m <= Len(g)
  <2>1. 1 \in Int /\ Len(g) \in Int
    BY <1>4
  <2> QED
    BY <2>1, MinOfTwo
<1> HIDE DEF m
<1>6. m = 0 \/ m = 1
  <2>1. Len(g) \in Nat
    BY <1>4
  <2>2. m \in Nat
    BY <1>5, <2>1
  <2>3. m <= 1
    BY <1>5
  <2> QED
    BY <2>2, <2>3
<1>7. m # 0
  <2>1. m = 0 => SubSeq(g, 1, m) = <<>>
    BY <1>3
  <2> QED
    BY <1>1, <2>1
<1>8. m = 1 /\ 1 <= Len(g)
  BY <1>5, <1>6, <1>7
<1>9. DOMAIN f = {1} /\ f[1] = g[1]
  <2>1. f = SubSeq(g, 1, 1)
    BY <1>1, <1>8
  <2>2. Len(SubSeq(g, 1, 1)) = 1 /\ SubSeq(g, 1, 1)[1] = g[1] /\ SubSeq(g, 1, 1) \in Seq(Match(n))
    BY <1>3, <1>8
  <2>3. DOMAIN f = 1..1
    BY <2>1, <2>2
  <2>4. 1..1 = {1}
    OBVIOUS
  <2> QED
    BY <2>1, <2>2, <2>3, <2>4
<1>10. Has(g, g[1])
  BY <1>4, <1>8 DEF Has
<1>11. PICK i \in P : cs[i] = g[1]
  BY <1>3, <1>10
<1> QED
  BY <1>2, <1>9, <1>11 DEF Has

\* The town a line stands for.
Fallback(line, name, country) ==
  [start |-> line.trimStart, end |-> line.trimEnd, possibility |-> name,
   origin |-> country, dist |-> 0, flags |-> {"IsAloneOnLine"}, crf |-> 90, final |-> 900]

\* The town a line stands for is a candidate.
LEMMA FallbackIs ==
  ASSUME NEW t \in Seq(Nat), NEW line, IsLine(t, line), NEW country \in Seq(Nat)
  PROVE  Fallback(line, Slice(t, line.trimStart, line.trimEnd), country) \in Match(Len(t) + 2)
<1> DEFINE name == Slice(t, line.trimStart, line.trimEnd)
           r == Fallback(line, name, country)
<1>1. /\ line.trimStart \in Nat /\ line.trimEnd \in Nat /\ line.trimStart <= line.trimEnd
      /\ line.trimEnd <= Len(t) + 2
  BY DEF IsLine
<1>2. name \in Seq(Nat)
  BY InkIsTrimmed
<1> HIDE DEF name
<1>3. {"IsAloneOnLine"} \in SUBSET Flags
  BY DEF Flags, TownOnly
<1>4. 0 \in Nat /\ 90 \in 0..100 /\ 900 \in 0..1000
  OBVIOUS
<1>5. r \in MatchRecord
  BY <1>1, <1>2, <1>3, <1>4 DEF Fallback, MatchRecord
<1>6. r.start = line.trimStart /\ r.end = line.trimEnd
  BY DEF Fallback
<1> HIDE DEF r
<1>7. r \in Match(Len(t) + 2)
  BY <1>1, <1>5, <1>6 DEF Match
<1> QED
  BY <1>7 DEF r, name

\* The line before a code's has letters.
LetteredBeforeCode(lines, name) ==
  /\ Len(lines) >= 2 /\ LooksLikeCode(lines[Len(lines)])
  /\ \E i \in DOMAIN name : IsLetter(name[i])

\* addPenultimateLineTownFallback keeps the towns, and adds the line unless it is
\* known.
LEMMA WithFallbackIs ==
  ASSUME NEW t \in Seq(Nat), NEW n, n = Len(t) + 2, NEW cs \in Seq(Match(n)), NEW ts \in Seq(Match(n)),
         NEW lines, lines = NonEmptyLines(t), NEW line, line = lines[Len(lines) - 1],
         NEW name, name = Slice(t, line.trimStart, line.trimEnd),
         NEW f, f = FinalLineCountry(lines, cs),
         NEW W, W = WithFallback(t, cs, ts)
  PROVE  /\ W \in Seq(Match(n))
         /\ \A x : Has(ts, x) => Has(W, x)
         /\ LetteredBeforeCode(lines, name) /\ f # <<>>
            => \/ KnownOnLine(lines, name, ts, f[1].origin)
               \/ Has(W, Fallback(line, name, f[1].origin))
<1> DEFINE skip == Len(lines) < 2 \/ ~LooksLikeCode(lines[Len(lines)])
           bare == \A i \in DOMAIN name : ~IsLetter(name[i])
           added(c) == IF KnownOnLine(lines, name, ts, c.origin) THEN <<>>
                       ELSE <<Fallback(line, name, c.origin)>>
           e == [k \in DOMAIN f |-> added(f[k])]
           v == ts \o FlattenSeq(e)
<1>1. W = IF skip THEN ts ELSE IF bare THEN ts ELSE v
  BY DEF WithFallback, Fallback
<1>2. Len(lines) \in Nat /\ DOMAIN lines = 1..Len(lines) /\ \A i \in DOMAIN lines : IsLine(t, lines[i])
  BY EveryLine
<1>3. CASE skip \/ bare
  <2>1. W = ts
    BY <1>1, <1>3
  <2>2. ~LetteredBeforeCode(lines, name)
    BY <1>2, <1>3 DEF LetteredBeforeCode
  <2> QED
    BY <1>3, <2>1, <2>2
<1>4. CASE ~skip /\ ~bare /\ f = <<>>
  <2>1. W = ts \o FlattenSeq(e)
    BY <1>1, <1>4
  <2>2. e = <<>>
    BY <1>4
  <2>3. e \in Seq(Seq(Match(n))) /\ DOMAIN e = {}
    BY <2>2
  <2> HIDE DEF e
  <2>4. FlattenSeq(e) \in Seq(Match(n))
    BY <2>3, FlattenIs
  <2>5. W \in Seq(Match(n)) /\ \A x : Has(W, x) <=> Has(ts, x) \/ Has(FlattenSeq(e), x)
    <3> DEFINE b == FlattenSeq(e)
    <3>1. b \in Seq(Match(n)) /\ W = ts \o b
      BY <2>1, <2>4
    <3> HIDE DEF b
    <3>2. ts \o b \in Seq(Match(n)) /\ \A x : Has(ts \o b, x) <=> Has(ts, x) \/ Has(b, x)
      BY <3>1, Joined
    <3> QED
      BY <3>1, <3>2 DEF b
  <2> QED
    BY <1>4, <2>5
<1>5. CASE ~skip /\ ~bare /\ f # <<>>
  <2> DEFINE c == f[1]
  <2>1. DOMAIN f = {1} /\ Has(cs, c)
    BY <1>5, EndingIs
  <2>2. c \in Match(n)
    BY <2>1, HasIn
  <2>3. c.origin \in Seq(Nat)
    BY <2>2, FieldsAre DEF Match
  <2>4. IsLine(t, line)
    <3>1. Len(lines) - 1 \in DOMAIN lines
      BY <1>2, <1>5
    <3> QED
      BY <1>2, <3>1
  <2>5. Fallback(line, name, c.origin) \in Match(n)
    BY <2>3, <2>4, FallbackIs
  <2>6. added(c) \in Seq(Match(n))
    <3> DEFINE r == Fallback(line, name, c.origin)
    <3>1. added(c) = <<>> \/ added(c) = <<r>>
      OBVIOUS
    <3> HIDE DEF r, added
    <3>2. <<r>> \in Seq(Match(n))
      <4>1. r \in Match(n)
        BY <2>5 DEF r
      <4> QED
        BY <4>1
    <3>3. <<>> \in Seq(Match(n))
      OBVIOUS
    <3> QED
      BY <3>1, <3>2, <3>3
  <2>7. e = [k \in {1} |-> added(c)]
    BY <2>1
  <2>8. added(c) = IF KnownOnLine(lines, name, ts, c.origin) THEN <<>> ELSE <<Fallback(line, name, c.origin)>>
    OBVIOUS
  <2> DEFINE a == added(c)
  <2> HIDE DEF c, added
  <2>9. e = <<a>>
    BY <2>7
  <2> HIDE DEF a, e
  <2>10. e \in Seq(Seq(Match(n))) /\ DOMAIN e = 1..1 /\ e[1] = a
    BY <2>6, <2>9 DEF a
  <2>11. /\ FlattenSeq(e) \in Seq(Match(n))
         /\ \A x : Has(FlattenSeq(e), x) <=> \E k \in DOMAIN e : Has(e[k], x)
    BY <2>10, FlattenIs
  <2>12. /\ W \in Seq(Match(n))
         /\ \A x : Has(W, x) <=> Has(ts, x) \/ Has(FlattenSeq(e), x)
    <3> DEFINE b == FlattenSeq(e)
    <3>1. b \in Seq(Match(n)) /\ W = ts \o b
      BY <1>1, <1>5, <2>11
    <3> HIDE DEF b
    <3>2. ts \o b \in Seq(Match(n)) /\ \A x : Has(ts \o b, x) <=> Has(ts, x) \/ Has(b, x)
      BY <3>1, Joined
    <3> QED
      BY <3>1, <3>2 DEF b
  <2>13. ASSUME ~KnownOnLine(lines, name, ts, c.origin)
         PROVE  Has(W, Fallback(line, name, c.origin))
    <3> DEFINE r == Fallback(line, name, c.origin)
    <3>1. a = <<r>>
      BY <2>8, <2>13 DEF a
    <3> HIDE DEF r
    <3>2. DOMAIN a = 1..1 /\ a[1] = r
      BY <3>1
    <3>3. Has(a, r)
      BY <3>2 DEF Has
    <3>4. Has(FlattenSeq(e), r)
      BY <2>10, <2>11, <3>3
    <3> QED
      BY <2>12, <3>4 DEF r
  <2> QED
    BY <2>12, <2>13 DEF c
<1> QED
  BY <1>3, <1>4, <1>5

(***************************************************************************)
(* The inductive invariant.                                                *)
(***************************************************************************)
Typed ==
  /\ text \in Texts /\ sample \in Samples
  /\ source \in {"resources", "database"}
  /\ phase \in Phases
  /\ countries \in Seq(CountryMatch) /\ codes \in Seq(CountryMatch)
  /\ towns \in Seq(TownMatch)
  /\ Fits(postcodes, Len(text))

\* A suggestion that the network's score does not make worthless stays among the
\* countries, and ends with ten times that score.
SuggestionStays ==
  sample.suggested \notin {<<>>, NoCountry} /\ SuggestedScore > 0 =>
    /\ phase \in {"suggested", "flagged", "related"} => Suggests(countries)
    /\ phase \in {"scored", "combined", "answered"} => SuggestsScored(countries)

\* What finalMatches pairs, and what it answers.
StrongCountries == AboveThreshold(countries, MinimalCountry)
StrongTowns == WithFallback(text, StrongCountries, AboveThreshold(towns, MinimalTown))
Offered == Rerank(text, BestFirst(Generate(sample, StrongCountries, StrongTowns)))

Results ==
  /\ combinations = IF phase \in {"combined", "answered"} THEN Offered ELSE <<>>
  /\ address = IF phase = "answered" THEN Assess(FromResult) ELSE NoAddress

IInv == Typed /\ SuggestionStays /\ Results

\* The text is a text.
LEMMA TextIs ==
  ASSUME Typed
  PROVE  text \in Seq(Nat) /\ text \in Texts /\ sample \in Samples
BY PostprocessAssumption DEF Typed

\* The candidates of the text depend on nothing but the text and the sample.
LEMMA SameLabels ==
  ASSUME text' = text, sample' = sample
  PROVE  CountryMatch' = CountryMatch /\ TownMatch' = TownMatch
BY DEF CountryMatch, TownMatch, CountryLabel

\* Whether the suggestion is there depends on the countries and the sample.
LEMMA SameSuggestion ==
  ASSUME sample' = sample, countries' = countries
  PROVE  Suggests(countries)' = Suggests(countries) /\ SuggestsScored(countries)' = SuggestsScored(countries)
BY DEF Suggests, SuggestsScored

\* What is offered depends on the text, the sample, the countries and the towns.
LEMMA SameOffer ==
  ASSUME text' = text, sample' = sample, countries' = countries, towns' = towns
  PROVE  Offered' = Offered
BY DEF Offered, StrongCountries, StrongTowns

\* The suggestion in the next state, which has the same sample.
LEMMA SuggestsNow ==
  ASSUME sample' = sample
  PROVE  (Suggests(countries') => Suggests(countries)')
         /\ (SuggestsScored(countries') => SuggestsScored(countries)')
BY DEF Suggests, SuggestsScored

\* The invariant holds at first.
LEMMA InvInit == Init => IInv
<1> SUFFICES ASSUME Init PROVE IInv
  OBVIOUS
<1>1. <<>> \in Seq(CountryMatch) /\ <<>> \in Seq(TownMatch) /\ Fits({}, Len(text))
  BY DEF Fits
<1>2. Typed
  BY <1>1 DEF Init, Typed, Phases
<1>3. SuggestionStays
  BY DEF Init, SuggestionStays
<1>4. Results
  BY DEF Init, Results
<1> QED
  BY <1>2, <1>3, <1>4 DEF IInv

\* Every stage keeps it.
LEMMA InvStep == IInv /\ [Next]_vars => IInv'
<1> SUFFICES ASSUME IInv, [Next]_vars PROVE IInv'
  OBVIOUS
<1> USE DEF Phases
<1>0. Typed /\ SuggestionStays /\ Results
  BY DEF IInv
<1>1. text' = text /\ sample' = sample /\ source' = source
  BY DEF Next, vars, TagBatch, MatchNames, MatchPostcodes, Fail,
         TagBatchFails, MatchPostcodesFails, FindIBANsFails, ProcessSuggestedCountry, FlagMatches, RelateMatches, ScoreMatches, FinalMatches, Answer
<1>2. CountryMatch' = CountryMatch /\ TownMatch' = TownMatch
  BY <1>1, SameLabels
<1>3. text \in Seq(Nat) /\ text \in Texts /\ sample \in Samples
  BY <1>0, TextIs
<1>4. countries \in Seq(CountryMatch) /\ codes \in Seq(CountryMatch) /\ towns \in Seq(TownMatch)
  BY <1>0 DEF Typed
<1>5. ASSUME countries' \in Seq(CountryMatch), codes' \in Seq(CountryMatch),
             towns' \in Seq(TownMatch), Fits(postcodes', Len(text)), phase' \in Phases
      PROVE  Typed'
  BY <1>0, <1>1, <1>2, <1>5 DEF Typed, Fits
<1>6. ASSUME countries' = countries, codes' = codes, towns' = towns, postcodes' = postcodes,
             phase' \in Phases
      PROVE  Typed'
  BY <1>0, <1>1, <1>2, <1>6 DEF Typed, Fits
<1>7. ASSUME phase' \notin {"combined", "answered"}, phase \notin {"combined", "answered"},
             combinations' = combinations, address' = address
      PROVE  Results'
  BY <1>0, <1>7 DEF Results
<1>8. Fits(postcodes, Len(text))
  BY <1>0 DEF Typed
<1>9. CASE TagBatch
  <2>1. /\ countries' = countries /\ codes' = codes /\ towns' = towns /\ postcodes' = postcodes
        /\ combinations' = combinations /\ address' = address
        /\ phase = "received" /\ phase' = "tagged"
    BY <1>9 DEF TagBatch, matches
  <2>2. SuggestionStays'
    BY <1>1, <2>1 DEF SuggestionStays
  <2> QED
    BY <1>6, <1>7, <2>1, <2>2 DEF IInv
<1>10. CASE MatchNames
  <2>1. /\ postcodes' = postcodes /\ combinations' = combinations /\ address' = address
        /\ phase = "tagged" /\ phase' = "scanned"
    BY <1>10 DEF MatchNames
  <2>2. /\ countries' \in Seq(CountryMatch) /\ codes' \in Seq(CountryMatch)
        /\ towns' \in Seq(TownMatch)
    BY <1>3, <1>10, AfterNames
  <2>3. SuggestionStays'
    BY <1>1, <2>1 DEF SuggestionStays
  <2> QED
    BY <1>5, <1>7, <1>8, <2>1, <2>2, <2>3 DEF IInv
<1>11. CASE MatchPostcodes
  <2>1. /\ countries' = countries /\ codes' = codes /\ towns' = towns
        /\ combinations' = combinations /\ address' = address
        /\ phase = "scanned" /\ phase' = "located"
    BY <1>11 DEF MatchPostcodes, matches
  <2>2. Fits(postcodes', Len(text))
    BY <1>3, <1>11, AfterPostcodes
  <2>3. SuggestionStays'
    BY <1>1, <2>1 DEF SuggestionStays
  <2> QED
    BY <1>4, <1>5, <1>7, <2>1, <2>2, <2>3 DEF IInv
<1>12. CASE TagBatchFails \/ MatchPostcodesFails \/ FindIBANsFails
  <2>1. /\ countries' = countries /\ codes' = codes /\ towns' = towns /\ postcodes' = postcodes
        /\ combinations' = combinations /\ address' = address
        /\ phase \in {"received", "scanned", "suggested"} /\ phase' = "failed"
    BY <1>12 DEF TagBatchFails, MatchPostcodesFails, FindIBANsFails, Fail, matches
  <2>2. SuggestionStays'
    BY <1>1, <2>1 DEF SuggestionStays
  <2> QED
    BY <1>6, <1>7, <2>1, <2>2 DEF IInv
<1>13. CASE ProcessSuggestedCountry
  <2>1. /\ towns' = towns /\ postcodes' = postcodes
        /\ combinations' = combinations /\ address' = address
        /\ phase = "located" /\ phase' = "suggested"
    BY <1>13 DEF ProcessSuggestedCountry
  <2>2. /\ codes' \in Seq(CountryMatch) /\ countries' \in Seq(CountryMatch)
        /\ sample.suggested \notin {<<>>, NoCountry} /\ SuggestedScore > 0 => Suggests(countries')
    BY <1>3, <1>4, <1>13, AfterSuggestion
  <2>3. SuggestionStays'
    BY <1>1, <2>1, <2>2, SuggestsNow DEF SuggestionStays
  <2> QED
    BY <1>4, <1>5, <1>7, <1>8, <2>1, <2>2, <2>3 DEF IInv
<1>14. CASE FlagMatches
  <2>1. /\ codes' = codes /\ postcodes' = postcodes
        /\ combinations' = combinations /\ address' = address
        /\ phase = "suggested" /\ phase' = "flagged"
    BY <1>14 DEF FlagMatches
  <2>2. AdornedAll(countries, countries') /\ MovedAll(towns, towns')
    BY <1>3, <1>4, <1>14, AfterFlags
  <2>3. countries' \in Seq(CountryMatch) /\ towns' \in Seq(TownMatch)
    BY <1>4, <2>2, CountriesMoved, TownsMoved DEF AdornedAll
  <2>4. Suggests(countries) => Suggests(countries')
    BY <2>2, SuggestsOn
  <2>5. SuggestionStays'
    BY <1>0, <1>1, <2>1, <2>4, SuggestsNow DEF SuggestionStays
  <2> QED
    BY <1>4, <1>5, <1>7, <1>8, <2>1, <2>3, <2>5 DEF IInv
<1>15. CASE RelateMatches
  <2>1. /\ codes' = codes /\ postcodes' = postcodes
        /\ combinations' = combinations /\ address' = address
        /\ phase = "flagged" /\ phase' = "related"
    BY <1>15 DEF RelateMatches
  <2>2. AdornedAll(countries, countries') /\ MovedAll(towns, towns')
    BY <1>4, <1>15, AfterRelations
  <2>3. countries' \in Seq(CountryMatch) /\ towns' \in Seq(TownMatch)
    BY <1>4, <2>2, CountriesMoved, TownsMoved DEF AdornedAll
  <2>4. Suggests(countries) => Suggests(countries')
    BY <2>2, SuggestsOn
  <2>5. SuggestionStays'
    BY <1>0, <1>1, <2>1, <2>4, SuggestsNow DEF SuggestionStays
  <2> QED
    BY <1>4, <1>5, <1>7, <1>8, <2>1, <2>3, <2>5 DEF IInv
<1>16. CASE ScoreMatches
  <2>1. /\ codes' = codes /\ postcodes' = postcodes
        /\ combinations' = combinations /\ address' = address
        /\ phase = "related" /\ phase' = "scored"
    BY <1>16 DEF ScoreMatches
  <2>2. /\ MovedAll(countries, countries') /\ MovedAll(towns, towns')
        /\ Suggests(countries) => SuggestsScored(countries')
    BY <1>4, <1>16, AfterScores
  <2>3. countries' \in Seq(CountryMatch) /\ towns' \in Seq(TownMatch)
    BY <1>4, <2>2, CountriesMoved, TownsMoved
  <2>4. SuggestionStays'
    BY <1>0, <1>1, <2>1, <2>2, SuggestsNow DEF SuggestionStays
  <2> QED
    BY <1>4, <1>5, <1>7, <1>8, <2>1, <2>3, <2>4 DEF IInv
<1>17. CASE FinalMatches
  <2>1. /\ countries' = countries /\ codes' = codes /\ towns' = towns /\ postcodes' = postcodes
        /\ address' = address
        /\ phase = "scored" /\ phase' = "combined"
    BY <1>17 DEF FinalMatches, matches
  <2>2. combinations' = Offered
    BY <1>17 DEF FinalMatches, Offered, StrongTowns, StrongCountries
  <2>3. Offered' = Offered
    BY <1>1, <2>1, SameOffer
  <2>4. SuggestionStays'
    BY <1>0, <1>1, <2>1, SameSuggestion DEF SuggestionStays
  <2>5. Results'
    BY <1>0, <2>1, <2>2, <2>3 DEF Results
  <2> QED
    BY <1>6, <2>1, <2>4, <2>5 DEF IInv
<1>18. CASE Answer
  <2>1. /\ countries' = countries /\ codes' = codes /\ towns' = towns /\ postcodes' = postcodes
        /\ combinations' = combinations
        /\ phase = "combined" /\ phase' = "answered"
        /\ address' = Assess(FromResult)
    BY <1>18 DEF Answer, matches
  <2>2. Offered' = Offered
    BY <1>1, <2>1, SameOffer
  <2>3. Assess(FromResult)' = Assess(FromResult)
    BY <2>1, ZenonT(60) DEF Assess, FromResult, BestCountry, BestTown, Select
  <2>4. SuggestionStays'
    BY <1>0, <1>1, <2>1, SameSuggestion DEF SuggestionStays
  <2>5. Results'
    BY <1>0, <2>1, <2>2, <2>3 DEF Results
  <2> QED
    BY <1>6, <2>1, <2>4, <2>5 DEF IInv
<1>19. CASE UNCHANGED vars
  <2>1. /\ countries' = countries /\ codes' = codes /\ towns' = towns /\ postcodes' = postcodes
        /\ combinations' = combinations /\ phase' = phase /\ address' = address
    BY <1>19 DEF vars
  <2>2. Offered' = Offered
    BY <1>1, <2>1, SameOffer
  <2>3. Assess(FromResult)' = Assess(FromResult)
    BY <2>1, ZenonT(60) DEF Assess, FromResult, BestCountry, BestTown, Select
  <2>4. SuggestionStays'
    BY <1>0, <1>1, <2>1, SameSuggestion DEF SuggestionStays
  <2>5. Results'
    BY <1>0, <2>1, <2>2, <2>3 DEF Results
  <2>6. Typed'
    BY <1>0, <1>6, <2>1 DEF Typed
  <2> QED
    BY <2>4, <2>5, <2>6 DEF IInv
<1> QED
  BY <1>9, <1>10, <1>11, <1>12, <1>13, <1>14, <1>15, <1>16, <1>17, <1>18, <1>19 DEF Next

\* It holds always.
LEMMA InvAlways == Spec => []IInv
<1> QED
  BY InvInit, InvStep, PTL DEF Spec

(***************************************************************************)
(* What is offered.                                                        *)
(***************************************************************************)
\* AboveThreshold keeps the candidates whose score reaches the threshold.
LEMMA AboveIs ==
  ASSUME NEW A, NEW ms \in Seq(A), NEW v
  PROVE  /\ AboveThreshold(ms, v) \in Seq(A)
         /\ \A x : Has(AboveThreshold(ms, v), x) <=> Has(ms, x) /\ x.final >= v
<1> DEFINE P == {i \in DOMAIN ms : ms[i].final >= v}
<1>1. AboveThreshold(ms, v) = Subsequence(ms, P)
  BY DEF AboveThreshold, Select
<1>2. P \in SUBSET DOMAIN ms /\ \A i \in DOMAIN ms : i \in P <=> ms[i].final >= v
  OBVIOUS
<1> HIDE DEF P
<1>3. /\ Subsequence(ms, P) \in Seq(A)
      /\ \A x : Has(Subsequence(ms, P), x) <=> \E i \in P : ms[i] = x
  BY <1>2, SubsequenceIs
<1> QED
  BY <1>1, <1>2, <1>3 DEF Has

\* The countries and towns above their thresholds.
LEMMA StrongAre ==
  ASSUME Typed
  PROVE  /\ StrongCountries \in Seq(CountryMatch)
         /\ \A x : Has(StrongCountries, x) <=> Has(countries, x) /\ x.final >= MinimalCountry
         /\ AboveThreshold(towns, MinimalTown) \in Seq(TownMatch)
         /\ StrongCountries \in Seq(Match(Len(text) + 2))
         /\ AboveThreshold(towns, MinimalTown) \in Seq(Match(Len(text) + 2))
<1>1. countries \in Seq(CountryMatch) /\ towns \in Seq(TownMatch)
  BY DEF Typed
<1>2. CountryMatch \subseteq Match(Len(text) + 2) /\ TownMatch \subseteq Match(Len(text) + 2)
  BY DEF CountryMatch, TownMatch
<1>3. /\ StrongCountries \in Seq(CountryMatch)
      /\ \A x : Has(StrongCountries, x) <=> Has(countries, x) /\ x.final >= MinimalCountry
      /\ AboveThreshold(towns, MinimalTown) \in Seq(TownMatch)
  BY <1>1, AboveIs DEF StrongCountries
<1> QED
  BY <1>2, <1>3, WiderSeq

\* With the line before the country's they are still candidates.
LEMMA StrongTownsAre ==
  ASSUME Typed
  PROVE  StrongTowns \in Seq(Match(Len(text) + 2))
<1> DEFINE n == Len(text) + 2
           cs == StrongCountries
           ts == AboveThreshold(towns, MinimalTown)
           lines == NonEmptyLines(text)
           line == lines[Len(lines) - 1]
           name == Slice(text, line.trimStart, line.trimEnd)
           f == FinalLineCountry(lines, cs)
           W == WithFallback(text, cs, ts)
<1>1. text \in Seq(Nat) /\ cs \in Seq(Match(n)) /\ ts \in Seq(Match(n))
  BY TextIs, StrongAre
<1>2. /\ n = Len(text) + 2 /\ lines = NonEmptyLines(text) /\ line = lines[Len(lines) - 1]
      /\ name = Slice(text, line.trimStart, line.trimEnd) /\ f = FinalLineCountry(lines, cs)
      /\ W = WithFallback(text, cs, ts)
  OBVIOUS
<1>3. StrongTowns = W
  BY DEF StrongTowns
<1> HIDE DEF n, cs, ts, lines, line, name, f, W
<1>4. W \in Seq(Match(n))
  BY <1>1, <1>2, WithFallbackIs
<1> QED
  BY <1>2, <1>3, <1>4

\* What is offered, by where it comes from; of each pair one with its key is.
LEMMA OfferedIs ==
  ASSUME Typed, NEW cs, cs = StrongCountries, NEW ts, ts = StrongTowns
  PROVE  /\ Offered \in Seq(Combo(Len(text) + 2))
         /\ \E k : Has(Offered, k)
         /\ \A k : Has(Offered, k) =>
              \/ Paired(sample, cs, ts, k) \/ AloneCountry(sample, cs, k) \/ AloneTown(sample, ts, k)
              \/ /\ k = Nothing(sample)
                 /\ \A j : ~(\/ Paired(sample, cs, ts, j) \/ AloneCountry(sample, cs, j)
                             \/ AloneTown(sample, ts, j))
         /\ \A k : Paired(sample, cs, ts, k) => \E l : Has(Offered, l) /\ SameKey(k, l)
<1> DEFINE n == Len(text) + 2
           G == Generate(sample, cs, ts)
           B == BestFirst(G)
           O == Rerank(text, B)
<1>1. n \in Nat
  BY TextIs
<1>2. cs \in Seq(Match(n)) /\ ts \in Seq(Match(n))
  BY StrongAre, StrongTownsAre
<1>3. Offered = O
  BY DEF Offered
<1> HIDE DEF n
<1>4. /\ G \in Seq(Combo(n)) /\ \E k : Has(G, k)
      /\ \A k : Paired(sample, cs, ts, k) => Has(G, k)
      /\ \A k : Has(G, k) =>
           \/ Paired(sample, cs, ts, k) \/ AloneCountry(sample, cs, k) \/ AloneTown(sample, ts, k)
           \/ /\ k = Nothing(sample)
              /\ \A j : ~(\/ Paired(sample, cs, ts, j) \/ AloneCountry(sample, cs, j)
                          \/ AloneTown(sample, ts, j))
  <2> DEFINE s == sample
  <2>1. G = Generate(s, cs, ts)
    OBVIOUS
  <2> HIDE DEF s, G
  <2>2. /\ G \in Seq(Combo(n)) /\ \E k : Has(G, k)
        /\ \A k : Paired(s, cs, ts, k) \/ AloneCountry(s, cs, k) \/ AloneTown(s, ts, k) => Has(G, k)
        /\ \A k : Has(G, k) =>
             \/ Paired(s, cs, ts, k) \/ AloneCountry(s, cs, k) \/ AloneTown(s, ts, k)
             \/ /\ k = Nothing(s)
                /\ \A j : ~(Paired(s, cs, ts, j) \/ AloneCountry(s, cs, j) \/ AloneTown(s, ts, j))
    BY <1>1, <1>2, <2>1, GenerateIs
  <2> QED
    BY <2>2 DEF s
<1> HIDE DEF G
<1>5. /\ B \in Seq(Combo(n))
      /\ \A k : Has(B, k) => Has(G, k)
      /\ \A k : Has(G, k) => \E l : Has(B, l) /\ SameKey(k, l)
  BY <1>4, BestFirstIs
<1> HIDE DEF B
<1>6. O \in Seq(Combo(n)) /\ \A x : Has(O, x) <=> Has(B, x)
  BY <1>5, RerankIs
<1> HIDE DEF O
<1>7. \E k : Has(O, k)
  BY <1>4, <1>5, <1>6
<1>8. \A k : Paired(sample, cs, ts, k) => \E l : Has(O, l) /\ SameKey(k, l)
  BY <1>4, <1>5, <1>6
<1>9. \A k : Has(O, k) => Has(G, k)
  BY <1>5, <1>6
<1> QED
  BY <1>3, <1>4, <1>6, <1>7, <1>8, <1>9 DEF n

\* The combinations, once there are any.
LEMMA CombinationsAre ==
  ASSUME IInv, phase \in {"combined", "answered"}
  PROVE  /\ combinations = Offered
         /\ combinations \in Seq(Combo(Len(text) + 2))
         /\ combinations # <<>> /\ Len(combinations) \in Nat
         /\ DOMAIN combinations = 1..Len(combinations)
         /\ 1 \in DOMAIN combinations
         /\ \A k : k \in Range(combinations) <=> Has(Offered, k)
<1>1. combinations = Offered
  BY DEF IInv, Results
<1>2. combinations \in Seq(Combo(Len(text) + 2)) /\ \E k : Has(combinations, k)
  <2>1. /\ Offered \in Seq(Combo(Len(text) + 2)) /\ \E k : Has(Offered, k)
    BY OfferedIs DEF IInv
  <2> QED
    BY <1>1, <2>1
<1>3. Len(combinations) \in Nat /\ DOMAIN combinations = 1..Len(combinations)
  BY <1>2
<1>4. PICK i \in DOMAIN combinations : TRUE
  BY <1>2 DEF Has
<1>5. 1 \in DOMAIN combinations
  BY <1>3, <1>4
<1>6. combinations # <<>>
  BY <1>5
<1>7. \A k : k \in Range(combinations) <=> Has(Offered, k)
  BY <1>1 DEF Range, Has
<1> QED
  BY <1>1, <1>2, <1>3, <1>5, <1>6, <1>7

\* Of the combinations that pass, the first.
LEMMA BestAre ==
  ASSUME NEW T, NEW s \in Seq(T), NEW P \in SUBSET DOMAIN s, NEW r, r = Subsequence(s, P)
  PROVE  /\ r \in Seq(T)
         /\ r = <<>> <=> P = {}
         /\ r # <<>> => \E i \in P : r[1] = s[i]
         /\ 1 \in P => r[1] = s[1]
<1>1. /\ r \in Seq(T)
      /\ \A x : Has(r, x) <=> \E i \in P : s[i] = x
      /\ P # {} => /\ r # <<>>
                   /\ \E i \in P : r[1] = s[i] /\ \A j \in P : i <= j
  BY SubsequenceIs
<1>2. P = {} => r = <<>>
  <2>1. P = {} => \A k \in DOMAIN r : FALSE
    BY <1>1 DEF Has
  <2>2. r # <<>> => 1 \in DOMAIN r
    BY <1>1
  <2> QED
    BY <2>1, <2>2
<1>3. ASSUME 1 \in P PROVE r[1] = s[1]
  <2>1. PICK i \in P : r[1] = s[i] /\ \A j \in P : i <= j
    BY <1>1, <1>3
  <2>2. i \in Nat /\ i >= 1
    <3>1. i \in DOMAIN s
      OBVIOUS
    <3> QED
      BY <3>1
  <2>3. i <= 1
    BY <1>3, <2>1
  <2>4. i = 1
    BY <2>2, <2>3
  <2> QED
    BY <2>1, <2>4
<1> QED
  BY <1>1, <1>2, <1>3

(***************************************************************************)
(* The properties.                                                         *)
(***************************************************************************)
\* A candidate of the text is what TypeOK asks for.
LEMMA MatchIsCandidate ==
  ASSUME NEW m \in Match(Len(text) + 2), text \in Seq(Nat)
  PROVE  Candidate(m)
<1>1. m \in MatchRecord /\ m.start <= m.end /\ m.end <= Len(text) + 2
  BY DEF Match
<1>2. m.crf \in 0..100 /\ m.final \in 0..1000
  BY <1>1, RecordIs
<1>3. m.start \in Nat /\ m.end \in Nat /\ m.dist \in Nat
  BY <1>1, FieldsAre
<1>4. Len(text) + 2 \in Nat
  OBVIOUS
<1>5. m.start \in 0..(Len(text) + 2) /\ m.end \in m.start..(Len(text) + 2)
  BY <1>1, <1>3, <1>4
<1> QED
  BY <1>2, <1>3, <1>5 DEF Candidate

\* The country of an answer: that of the first combination that has one.
LEMMA CountryAnswered ==
  ASSUME NEW n, combinations \in Seq(Combo(n))
  PROVE  /\ FromResult.country \in Seq(Nat)
         /\ FromResult.countryConfidence \in 0..1000
         /\ FromResult.country = <<>> => FromResult.countryConfidence = 0
         /\ FromResult.country # <<>> =>
              \E k \in Range(combinations) : RealCountry(k.country) /\ FromResult.country = k.country.origin
         /\ (\E k \in Range(combinations) : RealCountry(k.country)) => FromResult.country # <<>>
         /\ 1 \in DOMAIN combinations /\ RealCountry(combinations[1].country)
              => FromResult.country = combinations[1].country.origin
<1> DEFINE P == {i \in DOMAIN combinations : RealCountry(combinations[i].country)}
           cs == Subsequence(combinations, P)
           o == IF cs = <<>> THEN <<>> ELSE cs[1].country.origin
           v == IF cs = <<>> THEN 0 ELSE cs[1].country.final
<1>1. FromResult.country = o /\ FromResult.countryConfidence = v
  BY DEF FromResult, BestCountry, Select
<1>2. P \in SUBSET DOMAIN combinations
      /\ \A i \in DOMAIN combinations : i \in P <=> RealCountry(combinations[i].country)
  OBVIOUS
<1> HIDE DEF P
<1>3. /\ cs = <<>> <=> P = {}
      /\ cs # <<>> => \E i \in P : cs[1] = combinations[i]
      /\ 1 \in P => cs[1] = combinations[1]
  BY <1>2, BestAre
<1> HIDE DEF cs
<1>4. CASE cs = <<>>
  <2>1. P = {} /\ o = <<>> /\ v = 0
    BY <1>3, <1>4
  <2> HIDE DEF o, v
  <2>2. o \in Seq(Nat) /\ v \in 0..1000
    <3>1. <<>> \in Seq(Nat) /\ 0 \in 0..1000
      OBVIOUS
    <3> QED
      BY <2>1, <3>1
  <2> QED
    BY <1>1, <1>2, <2>1, <2>2 DEF Range
<1>5. CASE cs # <<>>
  <2>1. PICK i \in P : cs[1] = combinations[i]
    BY <1>3, <1>5
  <2> DEFINE k == combinations[i]
             c == k.country
  <2>2. k \in Combo(n) /\ k \in Range(combinations)
    BY <1>2 DEF Range
  <2>3. c \in Match(n)
    BY <2>2 DEF Combo
  <2>4. RealCountry(c)
    BY <1>2
  <2>5. o = c.origin /\ v = c.final
    BY <1>5, <2>1
  <2>6. 1 \in DOMAIN combinations /\ RealCountry(combinations[1].country) => o = combinations[1].country.origin
    BY <1>2, <1>3, <1>5
  <2> HIDE DEF o, v, c
  <2>7. c.origin \in Seq(Nat) /\ c.final \in 0..1000
    BY <2>3, RecordIs DEF Match
  <2>8. c.origin # <<>>
    BY <2>4 DEF RealCountry
  <2>9. o # <<>> /\ o \in Seq(Nat) /\ v \in 0..1000
    BY <2>5, <2>7, <2>8
  <2>10. \E q \in Range(combinations) : RealCountry(q.country) /\ o = q.country.origin
    BY <2>2, <2>4, <2>5 DEF c
  <2> QED
    BY <1>1, <2>6, <2>9, <2>10
<1> QED
  BY <1>4, <1>5

\* The town of an answer: that of the leading combination, if it has one.
LEMMA TownAnswered ==
  ASSUME NEW n, combinations \in Seq(Combo(n))
  PROVE  /\ FromResult.townConfidence \in 0..1000
         /\ FromResult.town = <<>> => FromResult.townConfidence = 0
         /\ 1 \in DOMAIN combinations /\ RealTown(combinations[1].town)
              => FromResult.town = combinations[1].town.possibility
<1> DEFINE P == {i \in DOMAIN combinations : RealTown(combinations[i].town)}
           ts == Subsequence(combinations, P)
           o == IF ts = <<>> THEN <<>> ELSE ts[1].town.possibility
           v == IF ts = <<>> THEN 0 ELSE ts[1].town.final
<1>1. FromResult.town = o /\ FromResult.townConfidence = v
  BY DEF FromResult, BestTown, Select
<1>2. P \in SUBSET DOMAIN combinations
      /\ \A i \in DOMAIN combinations : i \in P <=> RealTown(combinations[i].town)
  OBVIOUS
<1> HIDE DEF P
<1>3. /\ ts = <<>> <=> P = {}
      /\ ts # <<>> => \E i \in P : ts[1] = combinations[i]
      /\ 1 \in P => ts[1] = combinations[1]
  BY <1>2, BestAre
<1> HIDE DEF ts
<1>4. CASE ts = <<>>
  <2>1. P = {} /\ o = <<>> /\ v = 0
    BY <1>3, <1>4
  <2>2. v \in 0..1000
    BY <2>1
  <2> HIDE DEF o, v
  <2> QED
    BY <1>1, <1>2, <2>1, <2>2
<1>5. CASE ts # <<>>
  <2>1. PICK i \in P : ts[1] = combinations[i]
    BY <1>3, <1>5
  <2> DEFINE k == combinations[i]
             c == k.town
  <2>2. k \in Combo(n)
    BY <1>2
  <2>3. c \in Match(n)
    BY <2>2 DEF Combo
  <2>4. RealTown(c)
    BY <1>2
  <2>5. o = c.possibility /\ v = c.final
    BY <1>5, <2>1
  <2>6. 1 \in DOMAIN combinations /\ RealTown(combinations[1].town) => o = combinations[1].town.possibility
    BY <1>2, <1>3, <1>5
  <2> HIDE DEF o, v, c
  <2>7. c.final \in 0..1000
    BY <2>3, RecordIs DEF Match
  <2>8. c.possibility # <<>>
    BY <2>4 DEF RealTown
  <2> QED
    BY <1>1, <2>5, <2>6, <2>7, <2>8
<1> QED
  BY <1>4, <1>5

\* The assessment keeps both names; its score is in thousandths.
LEMMA ScoreAnswered ==
  ASSUME NEW n, combinations \in Seq(Combo(n))
  PROVE  /\ Assess(FromResult).score \in 0..1000
         /\ Assess(FromResult).country = FromResult.country
         /\ Assess(FromResult).town = FromResult.town
<1> DEFINE a == FromResult
           whole == a.country # <<>> /\ a.town # <<>>
           x == a.countryConfidence
           y == a.townConfidence
           score == IF whole THEN Min({x, y}) ELSE x + y
<1>1. /\ x \in 0..1000 /\ y \in 0..1000
      /\ ~whole => x = 0 \/ y = 0
  BY CountryAnswered, TownAnswered
<1>2. Assess(a).score = score /\ Assess(a).country = a.country /\ Assess(a).town = a.town
  BY DEF Assess
<1> HIDE DEF a, x, y, whole
<1>3. whole => score \in 0..1000
  <2>1. x \in Int /\ y \in Int
    BY <1>1
  <2>2. Min({x, y}) \in {x, y}
    BY <2>1, MinOfTwo
  <2> QED
    BY <1>1, <2>2, ZenonT(60)
<1>4. ~whole => score \in 0..1000
  BY <1>1
<1> QED
  BY <1>2, <1>3, <1>4 DEF a

\* The invariant implies the types.
LEMMA InvTyped == IInv => TypeOK
<1> SUFFICES ASSUME IInv PROVE TypeOK
  OBVIOUS
<1> DEFINE n == Len(text) + 2
<1>1. Typed /\ Results
  BY DEF IInv
<1>2. text \in Seq(Nat)
  BY <1>1, TextIs
<1>3. ASSUME NEW m \in Range(countries) \cup Range(codes) \cup Range(towns) PROVE Candidate(m)
  <2>1. m \in CountryMatch \/ m \in TownMatch
    BY <1>1 DEF Typed, Range
  <2>2. m \in Match(n)
    BY <2>1 DEF CountryMatch, TownMatch
  <2> QED
    BY <1>2, <2>2, MatchIsCandidate
<1>4. combinations \in Seq(Combo(n))
  <2>1. CASE phase \in {"combined", "answered"}
    BY <2>1, CombinationsAre
  <2>2. CASE phase \notin {"combined", "answered"}
    <3>1. combinations = <<>>
      BY <1>1, <2>2 DEF Results
    <3> HIDE DEF n
    <3> QED
      BY <3>1
  <2> QED
    BY <2>1, <2>2
<1>5. ASSUME NEW k \in Range(combinations) PROVE Candidate(k.country) /\ Candidate(k.town)
  <2>1. k \in Combo(n)
    <3> HIDE DEF n
    <3> QED
      BY <1>4 DEF Range
  <2>2. k.country \in Match(n) /\ k.town \in Match(n)
    BY <2>1 DEF Combo
  <2> QED
    BY <1>2, <2>2, MatchIsCandidate
<1>6. address.score \in 0..1000
  <2>1. CASE phase = "answered"
    <3>1. address = Assess(FromResult)
      BY <1>1, <2>1 DEF Results
    <3> HIDE DEF n
    <3> QED
      BY <1>4, <3>1, ScoreAnswered
  <2>2. CASE phase # "answered"
    <3>1. address = NoAddress
      BY <1>1, <2>2 DEF Results
    <3> QED
      BY <3>1 DEF NoAddress
  <2> QED
    BY <2>1, <2>2
<1> QED
  BY <1>1, <1>3, <1>5, <1>6 DEF TypeOK, Typed, Fits

\* Spans lie in the text or two places past it, network scores are percentages and
\* final scores thousandths, the address's too.
THEOREM TypeCorrect == Spec => []TypeOK
BY InvAlways, InvTyped, PTL

\* The invariant implies AnswerFromOneCombination.
LEMMA InvOne == IInv => AnswerFromOneCombination
<1> SUFFICES ASSUME IInv, phase = "answered"
             PROVE  LET top == combinations[1]
                    IN /\ RealCountry(top.country) => address.country = top.country.origin
                       /\ RealTown(top.town) => address.town = top.town.possibility
  BY DEF AnswerFromOneCombination
<1> DEFINE n == Len(text) + 2
<1>1. combinations \in Seq(Combo(n)) /\ 1 \in DOMAIN combinations
  BY CombinationsAre
<1>2. address = Assess(FromResult)
  BY DEF IInv, Results
<1> HIDE DEF n
<1> QED
  BY <1>1, <1>2, CountryAnswered, TownAnswered, ScoreAnswered

\* structured.FromResult answers the country and the town of the leading
\* combination wherever that has them.
THEOREM OneCombinationAnswered == Spec => []AnswerFromOneCombination
BY InvAlways, InvOne, PTL

\* A placeholder has its own name for its origin.
LEMMA PlaceholderOrigins ==
  ASSUME NEW s
  PROVE  NoCountryAt(s).origin = NoCountry /\ NoTownAt.origin = NoTown
BY DEF NoCountryAt, NoTownAt, Placeholder

\* A combination is of its country and its town.
LEMMA PairIs ==
  ASSUME NEW c, NEW t, NEW v
  PROVE  Combination(c, t, v).country = c /\ Combination(c, t, v).town = t
BY DEF Combination

\* Where a combination has its country from.
LEMMA CountryOf ==
  ASSUME NEW s, NEW cs, NEW ts, NEW k,
         \/ Paired(s, cs, ts, k) \/ AloneCountry(s, cs, k) \/ AloneTown(s, ts, k)
         \/ k = Nothing(s)
  PROVE  \/ Paired(s, cs, ts, k) /\ Allowed(s, cs, k.country) /\ Has(ts, k.town)
         \/ AloneCountry(s, cs, k) /\ Allowed(s, cs, k.country) /\ k.town = NoTownAt
         \/ AloneTown(s, ts, k) /\ k.country = NoCountryAt(s) /\ Has(ts, k.town)
         \/ k = Nothing(s) /\ k.country = NoCountryAt(s) /\ k.town = NoTownAt
<1>1. CASE Paired(s, cs, ts, k)
  BY <1>1, PairIs DEF Paired
<1>2. CASE AloneCountry(s, cs, k)
  BY <1>2, PairIs DEF AloneCountry
<1>3. CASE AloneTown(s, ts, k)
  BY <1>3, PairIs DEF AloneTown
<1>4. CASE k = Nothing(s)
  BY <1>4, PairIs DEF Nothing
<1> QED
  BY <1>1, <1>2, <1>3, <1>4

\* No country that is offered is called "NO TOWN".
LEMMA NoTownNoCountry ==
  ASSUME NoTownIsNoCode, Typed, NEW c, Has(StrongCountries, c)
  PROVE  c.origin # NoTown
<1>1. c \in CountryMatch
  BY StrongAre, HasIn
<1>2. CountryLabel(c)
  BY <1>1 DEF CountryMatch
<1>3. c.origin \in KnownCodes \cup {sample.suggested}
  BY <1>2 DEF CountryLabel, KnownCodes
<1>4. sample \in Samples
  BY DEF Typed
<1> DEFINE S == {s.suggested : s \in Samples}
<1>5. c.origin \in S \cup KnownCodes
  BY <1>3, <1>4
<1>6. NoTown \notin S \cup KnownCodes
  BY DEF NoTownIsNoCode, KnownCodes
<1> HIDE DEF S
<1> QED
  BY <1>5, <1>6

\* The invariant implies ForeignTownIsLastResort.
LEMMA InvForeign == ASSUME NoTownIsNoCode PROVE IInv => ForeignTownIsLastResort
<1> SUFFICES ASSUME IInv, phase = "combined", NEW k \in Range(combinations),
                    RealCountry(k.country), RealTown(k.town), k.country.origin # k.town.origin
             PROVE  /\ Trusted(k.country)
                    /\ \A l \in Range(combinations) : l.town.origin # k.country.origin
  BY DEF ForeignTownIsLastResort
<1> DEFINE s == sample
           cs == StrongCountries
           ts == StrongTowns
           c == k.country
           t == k.town
<1>1. Typed
  BY DEF IInv
<1>2. \A l \in Range(combinations) :
        \/ Paired(s, cs, ts, l) \/ AloneCountry(s, cs, l) \/ AloneTown(s, ts, l)
        \/ l = Nothing(s)
  BY <1>1, CombinationsAre, OfferedIs
<1> HIDE DEF cs, ts, s
<1>3. Paired(s, cs, ts, k)
  <2>1. k.town # NoTownAt
    BY PlaceholderOrigins DEF RealTown
  <2>2. k.country # NoCountryAt(s)
    BY PlaceholderOrigins DEF RealCountry
  <2> QED
    BY <1>2, <2>1, <2>2, CountryOf
<1>4. Allowed(s, cs, c) /\ Foreign(c, t, ts)
  <2>1. PICK d, u : /\ Allowed(s, cs, d) /\ Has(ts, u) /\ ~SkipPair(d, u)
                    /\ d.origin = u.origin \/ Foreign(d, u, ts)
                    /\ k = Combination(d, u, d.final + u.final)
    BY <1>3 DEF Paired
  <2>2. c = d /\ t = u
    BY <2>1, PairIs
  <2> QED
    BY <2>1, <2>2
<1>5. Trusted(c) /\ \A u \in Range(ts) : u.origin # c.origin
  BY <1>4 DEF Foreign
<1>6. c.origin # NoTown
  <2>1. Has(StrongCountries, c)
    BY <1>4 DEF Allowed, cs
  <2> QED
    BY <1>1, <2>1, NoTownNoCountry
<1>7. ASSUME NEW l \in Range(combinations) PROVE l.town.origin # c.origin
  <2>1. Has(ts, l.town) \/ l.town = NoTownAt
    BY <1>2, CountryOf
  <2>2. CASE Has(ts, l.town)
    <3>1. l.town \in Range(ts)
      BY <2>2 DEF Has, Range
    <3> QED
      BY <1>5, <3>1
  <2>3. CASE l.town = NoTownAt
    BY <1>6, <2>3, PlaceholderOrigins
  <2> QED
    BY <2>1, <2>2, <2>3
<1> QED
  BY <1>5, <1>7

\* CombinationGenerator pairs a country with a town of another country only if it
\* is trusted and no town of its own is left, after the scores, the fallback for
\* the penultimate line and the deduplication as before them.
THEOREM ForeignTownsLast ==
  ASSUME NoTownIsNoCode PROVE Spec => []ForeignTownIsLastResort
<1>1. IInv => ForeignTownIsLastResort
  BY InvForeign
<1> QED
  BY <1>1, InvAlways, PTL

\* No country of the text is "NO COUNTRY" in name only.
LEMMA RealSuggestion ==
  ASSUME NoCountryHasNoCode, Typed, NEW c, Has(StrongCountries, c), c.origin \notin {<<>>, NoCountry}
  PROVE  RealCountry(c)
<1>1. c \in CountryMatch
  BY StrongAre, HasIn
<1>2. CountryLabel(c)
  BY <1>1 DEF CountryMatch
<1>3. c.possibility # NoCountry
  BY <1>2 DEF CountryLabel, NoCountryHasNoCode
<1> QED
  BY <1>3 DEF RealCountry

\* The invariant implies ForcedCountryStands.
LEMMA InvForced ==
  ASSUME SuggestionCounts, NoCountryHasNoCode PROVE IInv => ForcedCountryStands
<1> SUFFICES ASSUME IInv, phase \in {"combined", "answered"}, Forced(sample)
             PROVE  /\ \A k \in Range(combinations) : k.country.origin = sample.suggested
                    /\ \/ phase = "combined"
                       \/ address.country = IF sample.suggested = NoCountry THEN <<>>
                                            ELSE sample.suggested
  BY DEF ForcedCountryStands
<1> DEFINE s == sample
           cs == StrongCountries
           ts == StrongTowns
           n == Len(text) + 2
<1>1. Typed /\ SuggestionStays /\ Results
  BY DEF IInv
<1>2. /\ combinations = Offered
      /\ \A k : k \in Range(combinations) <=> Has(Offered, k)
      /\ combinations \in Seq(Combo(n)) /\ 1 \in DOMAIN combinations
  BY CombinationsAre
<1>3. \A k \in Range(combinations) :
        \/ Paired(s, cs, ts, k) \/ AloneCountry(s, cs, k) \/ AloneTown(s, ts, k)
        \/ /\ k = Nothing(s)
           /\ \A j : ~(\/ Paired(s, cs, ts, j) \/ AloneCountry(s, cs, j)
                       \/ AloneTown(s, ts, j))
  BY <1>1, <1>2, OfferedIs
<1>4. s.force /\ s.suggested # <<>>
  BY DEF Forced
<1>5. s.suggested # NoCountry => \E j : AloneCountry(s, cs, j)
  <2> SUFFICES ASSUME s.suggested # NoCountry PROVE \E j : AloneCountry(s, cs, j)
    OBVIOUS
  <2>1. SuggestsScored(countries)
    BY <1>1, <1>4 DEF SuggestionStays, SuggestionCounts
  <2>2. PICK x : Has(countries, x) /\ x.origin = s.suggested /\ x.final = 10 * SuggestedScore
    BY <2>1 DEF SuggestsScored
  <2>3. x.final >= MinimalCountry
    BY <2>2 DEF SuggestionCounts
  <2>4. Has(cs, x)
    BY <1>1, <2>2, <2>3, StrongAre
  <2>5. Allowed(s, cs, x)
    BY <2>2, <2>4 DEF Allowed, CountryAllowed
  <2> QED
    BY <2>5 DEF AloneCountry
<1> HIDE DEF cs, ts, n, s
<1>6. ASSUME NEW k \in Range(combinations)
      PROVE  /\ k.country.origin = s.suggested
             /\ s.suggested # NoCountry => Has(cs, k.country)
  <2>0. Forced(s)
    BY DEF s
  <2>1. CASE Allowed(s, cs, k.country)
    BY <2>0, <2>1 DEF Allowed, CountryAllowed
  <2>2. CASE ~Allowed(s, cs, k.country)
    <3>0. /\ \/ Paired(s, cs, ts, k) \/ AloneCountry(s, cs, k) \/ AloneTown(s, ts, k)
             \/ k = Nothing(s)
          /\ Paired(s, cs, ts, k) \/ AloneCountry(s, cs, k) \/ AloneTown(s, ts, k)
             \/ \A j : ~AloneCountry(s, cs, j)
      BY <1>3
    <3>1. /\ k.country = NoCountryAt(s)
          /\ AloneTown(s, ts, k) \/ (k = Nothing(s) /\ \A j : ~AloneCountry(s, cs, j))
      <4>1. \/ AloneTown(s, ts, k) /\ k.country = NoCountryAt(s)
            \/ k = Nothing(s) /\ k.country = NoCountryAt(s)
        BY <2>2, <3>0, CountryOf
      <4>2. ~Paired(s, cs, ts, k) /\ ~AloneCountry(s, cs, k)
        <5>1. Paired(s, cs, ts, k) => Allowed(s, cs, k.country)
          BY PairIs DEF Paired
        <5>2. AloneCountry(s, cs, k) => Allowed(s, cs, k.country)
          BY PairIs DEF AloneCountry
        <5> QED
          BY <2>2, <5>1, <5>2
      <4> QED
        BY <3>0, <4>1, <4>2
    <3>2. s.suggested = NoCountry
      BY <1>5, <2>0, <3>1 DEF AloneTown
    <3> QED
      BY <3>1, <3>2, PlaceholderOrigins
  <2> QED
    BY <2>1, <2>2
<1>7. ASSUME phase = "answered"
      PROVE  address.country = IF s.suggested = NoCountry THEN <<>> ELSE s.suggested
  <2>1. address.country = FromResult.country
    <3>1. address = Assess(FromResult)
      BY <1>1, <1>7 DEF Results
    <3> QED
      BY <1>2, <3>1, ScoreAnswered
  <2>2. /\ FromResult.country # <<>> =>
             \E k \in Range(combinations) : RealCountry(k.country) /\ FromResult.country = k.country.origin
        /\ (\E k \in Range(combinations) : RealCountry(k.country)) => FromResult.country # <<>>
    BY <1>2, CountryAnswered
  <2>3. CASE s.suggested = NoCountry
    <3>1. \A k \in Range(combinations) : ~RealCountry(k.country)
      BY <1>6, <2>3 DEF RealCountry
    <3> QED
      BY <2>1, <2>2, <2>3, <3>1
  <2>4. CASE s.suggested # NoCountry
    <3> DEFINE k == combinations[1]
    <3>1. k \in Range(combinations)
      BY <1>2 DEF Range
    <3>2. Has(cs, k.country) /\ k.country.origin \notin {<<>>, NoCountry}
      BY <1>4, <1>6, <2>4, <3>1
    <3>3. RealCountry(k.country)
      BY <1>1, <3>2, RealSuggestion DEF cs
    <3>4. FromResult.country # <<>>
      BY <2>2, <3>1, <3>3
    <3>5. FromResult.country = s.suggested
      BY <1>6, <2>2, <3>4
    <3> QED
      BY <2>1, <2>4, <3>5
  <2> QED
    BY <2>3, <2>4
<1> QED
  BY <1>6, <1>7 DEF s

\* A forced suggestion is the country of every combination and of the address: the
\* candidate made of it passes every stage with a score that is enough.
THEOREM ForcedCountryAnswered ==
  ASSUME SuggestionCounts, NoCountryHasNoCode PROVE Spec => []ForcedCountryStands
<1>1. IInv => ForcedCountryStands
  BY InvForced
<1> QED
  BY <1>1, InvAlways, PTL

\* Names are texts.
LEMMA NamesAre ==
  \A name \in Names : name \in Seq(Nat)
<1>1. \A w \in Entry : w.name \in Seq(Nat)
  BY DEF Entry
<1>2. CountryNames \cup CountryCodeCandidates \cup TownPossibilities \subseteq Entry
  BY CountryEntries, CodeEntries, TownEntries
<1> QED
  BY <1>1, <1>2 DEF Names

\* The invariant implies DistanceIsEditDistance.
LEMMA InvDistance == IInv => DistanceIsEditDistance
<1> SUFFICES ASSUME IInv, NEW name \in Names, NEW w \in Windows(text, name, 1)
             PROVE  Levenshtein(name, Slice(text, w.start, w.end))
                      = EditDistance(name, Slice(text, w.start, w.end))
  BY DEF DistanceIsEditDistance
<1> DEFINE stretch == Slice(text, w.start, w.end)
<1>1. text \in Seq(Nat) /\ name \in Seq(Nat)
  BY NamesAre, TextIs DEF IInv
<1>2. w.start \in Nat /\ w.end \in Nat /\ w.end <= Len(text)
  BY <1>1 DEF Windows
<1>3. stretch \in Seq(Nat)
  BY <1>1, <1>2, SliceType
<1> HIDE DEF stretch
<1>4. Levenshtein(name, stretch) = EditDistance(name, stretch)
  BY <1>1, <1>3, DistanceIs
<1> QED
  BY <1>4 DEF stretch

\* levenshteinDistance is the least cost of lining two texts up.
THEOREM DistancesAreEditDistances == Spec => []DistanceIsEditDistance
BY InvAlways, InvDistance, PTL

\* The invariant implies NothingNearMissed.
LEMMA InvNear == IInv => NothingNearMissed
<1> SUFFICES ASSUME IInv, NEW name \in Names
             PROVE  /\ \A m, n \in Range(NearMatches(text, name, ToleranceTown)) :
                         m = n \/ ~Overlap(m, n)
                    /\ \A m \in Candidates(text, name, ToleranceTown) :
                         \E n \in Range(NearMatches(text, name, ToleranceTown)) :
                           Overlap(m, n) /\ n.dist <= m.dist
  BY DEF NothingNearMissed
<1>1. text \in Seq(Nat) /\ name \in Seq(Nat) /\ ToleranceTown \in Nat
  BY NamesAre, TextIs, PostprocessAssumption DEF IInv
<1> QED
  BY <1>1, NearMatchesIs

\* bestNonOverlappingMatches reports stretches that do not overlap, and an
\* overlapping one at least as close for each that it leaves out.
THEOREM NothingMissed == Spec => []NothingNearMissed
BY InvAlways, InvNear, PTL

\* A town of the line before the country's does not exclude the country.
LEMMA LinesApart ==
  ASSUME NEW t \in Seq(Nat), NEW n \in Nat, NEW lines, lines = NonEmptyLines(t), Len(lines) >= 2,
         NEW line, line = lines[Len(lines) - 1],
         NEW c \in Match(n), LineOf(lines, c) = Len(lines),
         NEW u \in Match(n), u.end <= line.end
  PROVE  ~SkipPair(c, u)
<1>1. /\ Len(lines) \in Nat /\ DOMAIN lines = 1..Len(lines)
      /\ \A i \in DOMAIN lines : IsLine(t, lines[i])
      /\ \A i, j \in DOMAIN lines : i < j => lines[i].end < lines[j].start
  BY EveryLine
<1> DEFINE z == Len(lines)
           l == lines[z]
<1>2. z \in DOMAIN lines /\ z - 1 \in DOMAIN lines /\ z - 1 < z /\ z > 0
  BY <1>1
<1>3. line.end < l.start
  BY <1>1, <1>2
<1>4. c.start >= l.start
  BY <1>2, LineOfIs
<1>5. line.end \in Nat /\ l.start \in Nat
  BY <1>1, <1>2 DEF IsLine
<1>6. c \in MatchRecord /\ u \in MatchRecord /\ c.start <= c.end /\ u.start <= u.end
  BY DEF Match
<1>7. c.start \in Nat /\ c.end \in Nat /\ u.start \in Nat /\ u.end \in Nat
  BY <1>6, FieldsAre
<1> HIDE DEF l, z
<1>8. u.end < c.start
  BY <1>3, <1>4, <1>5, <1>7
<1>9. u.start # c.start /\ ~Larger(c, u) /\ ~Larger(u, c)
  BY <1>6, <1>7, <1>8 DEF Larger
<1> QED
  BY <1>9 DEF SkipPair

\* The invariant implies PenultimateLineOffered.
LEMMA InvPenultimate ==
  ASSUME TownNamesTrimmed PROVE IInv => PenultimateLineOffered
<1> DEFINE lines == NonEmptyLines(text)
           cs == StrongCountries
           ending == FinalLineCountry(lines, cs)
           line == lines[Len(lines) - 1]
           name == Slice(text, line.trimStart, line.trimEnd)
<1>0. PenultimateLineOffered <=>
        ( ( /\ phase = "combined"
            /\ Len(lines) >= 2 /\ LooksLikeCode(lines[Len(lines)])
            /\ ending # <<>> /\ CountryAllowed(sample, ending[1])
            /\ \E i \in DOMAIN name : IsLetter(name[i]) )
          =>
            \E k \in Range(combinations) :
               /\ k.country.origin = ending[1].origin
               /\ TownKey(k.town) = TownKey([possibility |-> name]) )
  BY DEF PenultimateLineOffered, StrongCountries
<1> SUFFICES ASSUME IInv, phase = "combined",
                    Len(lines) >= 2, LooksLikeCode(lines[Len(lines)]),
                    ending # <<>>, CountryAllowed(sample, ending[1]),
                    \E i \in DOMAIN name : IsLetter(name[i])
             PROVE  \E k \in Range(combinations) :
                      /\ k.country.origin = ending[1].origin
                      /\ TownKey(k.town) = TownKey([possibility |-> name])
  BY <1>0
<1> DEFINE t == text
           n == Len(t) + 2
           known == AboveThreshold(towns, MinimalTown)
           ts == StrongTowns
           c == ending[1]
<1>1. Typed /\ t \in Seq(Nat) /\ n \in Nat
  BY TextIs DEF IInv
<1>2. /\ cs \in Seq(Match(n)) /\ known \in Seq(Match(n)) /\ known \in Seq(TownMatch)
      /\ ts \in Seq(Match(n))
  BY <1>1, StrongAre, StrongTownsAre
<1>3. lines = NonEmptyLines(t) /\ ending = FinalLineCountry(lines, cs) /\ n = Len(t) + 2
      /\ line = lines[Len(lines) - 1] /\ name = Slice(t, line.trimStart, line.trimEnd)
      /\ ts = WithFallback(t, cs, known)
  BY DEF StrongTowns
<1>4. /\ Len(lines) >= 2 /\ LooksLikeCode(lines[Len(lines)])
      /\ \E i \in DOMAIN name : IsLetter(name[i])
      /\ ending # <<>>
  OBVIOUS
<1>c. CountryAllowed(sample, c)
  OBVIOUS
<1> HIDE DEF lines, cs, ending, line, name, t, known, ts, n
<1>5. /\ \A x : Has(known, x) => Has(ts, x)
      /\ \/ KnownOnLine(lines, name, known, ending[1].origin)
         \/ Has(ts, Fallback(line, name, ending[1].origin))
  <2>0. /\ t \in Seq(Nat) /\ n = Len(t) + 2 /\ cs \in Seq(Match(n)) /\ known \in Seq(Match(n))
        /\ lines = NonEmptyLines(t) /\ line = lines[Len(lines) - 1]
        /\ name = Slice(t, line.trimStart, line.trimEnd) /\ ending = FinalLineCountry(lines, cs)
        /\ ts = WithFallback(t, cs, known)
    BY <1>1, <1>2, <1>3
  <2>1. \A x : Has(known, x) => Has(ts, x)
    BY <2>0, WithFallbackIs
  <2>2. \/ KnownOnLine(lines, name, known, ending[1].origin)
        \/ Has(ts, Fallback(line, name, ending[1].origin))
    <3>1. LetteredBeforeCode(lines, name) /\ ending # <<>>
      BY <1>4 DEF LetteredBeforeCode
    <3> QED
      BY <2>0, <3>1, WithFallbackIs
  <2> QED
    BY <2>1, <2>2
<1>6. Has(cs, c) /\ LineOf(lines, c) = Len(lines) /\ c \in Match(n)
  <2>1. Has(cs, c) /\ LineOf(lines, c) = Len(lines)
    BY <1>2, <1>3, <1>4, EndingIs
  <2> QED
    BY <1>2, <2>1, HasIn
<1>7. Len(lines) \in Nat /\ Len(lines) - 1 \in DOMAIN lines /\ Len(lines) - 1 > 0 /\ IsLine(t, line)
  <2>1. /\ Len(lines) \in Nat /\ DOMAIN lines = 1..Len(lines)
        /\ \A i \in DOMAIN lines : IsLine(t, lines[i])
    BY <1>1, <1>3, EveryLine
  <2>2. Len(lines) - 1 \in DOMAIN lines /\ Len(lines) - 1 > 0
    BY <1>4, <2>1
  <2> QED
    BY <1>3, <2>1, <2>2
<1>8. name # <<>> /\ Trim(name) = name
  BY <1>1, <1>3, <1>7, InkIsTrimmed
<1>9. \E u : Has(ts, u) /\ u.origin = c.origin /\ u.possibility = name /\ u.end <= line.end
  <2>1. CASE KnownOnLine(lines, name, known, c.origin)
    <3>1. PICK u \in Range(known) : /\ u.origin = c.origin
                                    /\ LineOf(lines, u) = Len(lines) - 1
                                    /\ Trim(u.possibility) = Trim(name)
      BY <2>1 DEF KnownOnLine
    <3>2. Has(known, u)
      BY DEF Range, Has
    <3>3. u \in TownMatch
      BY <1>2, <3>2, HasIn
    <3>4. u.possibility = name
      <4>1. Trim(u.possibility) = u.possibility
        BY <3>3 DEF TownMatch, TownNamesTrimmed
      <4> QED
        BY <1>8, <3>1, <4>1
    <3>5. u.end <= line.end
      BY <1>1, <1>3, <1>7, <3>1, LineOfIs
    <3> QED
      BY <1>5, <3>1, <3>2, <3>4, <3>5
  <2>2. CASE Has(ts, Fallback(line, name, c.origin))
    <3> DEFINE u == Fallback(line, name, c.origin)
    <3>1. u.origin = c.origin /\ u.possibility = name /\ u.end = line.trimEnd
      BY DEF Fallback
    <3>2. line.trimEnd <= line.end
      BY <1>7 DEF IsLine
    <3> HIDE DEF u
    <3>3. Has(ts, u)
      BY <2>2 DEF u
    <3> QED
      BY <3>1, <3>2, <3>3
  <2> QED
    BY <1>5, <2>1, <2>2 DEF c
<1>10. PICK u : Has(ts, u) /\ u.origin = c.origin /\ u.possibility = name /\ u.end <= line.end
  BY <1>9
<1>11. u \in Match(n)
  BY <1>2, <1>10, HasIn
<1> DEFINE s == sample
<1>12. ~SkipPair(c, u)
  BY <1>1, <1>3, <1>4, <1>6, <1>10, <1>11, LinesApart
<1> DEFINE k == Combination(c, u, c.final + u.final)
<1>13. Paired(s, cs, ts, k)
  BY <1>c, <1>6, <1>10, <1>12 DEF Paired, Allowed
<1>14. k.country = c /\ k.town = u
  BY PairIs
<1> HIDE DEF k, s
<1>15. \E l : Has(Offered, l) /\ SameKey(k, l)
  BY <1>1, <1>13, OfferedIs DEF cs, ts, s
<1>16. PICK l : Has(Offered, l) /\ SameKey(k, l)
  BY <1>15
<1>17. l \in Range(combinations)
  BY <1>16, CombinationsAre
<1>18. l.country.origin = c.origin /\ TownKey(l.town) = TownKey(u)
  BY <1>14, <1>16 DEF SameKey
<1>19. TownKey(u) = TownKey([possibility |-> name])
  BY <1>10 DEF TownKey
<1> QED
  BY <1>17, <1>18, <1>19 DEF c

\* The line before a final line of a country's code is offered as a town of that
\* country: its own entry or the fallback gets past the pairs that are skipped,
\* the sort, the removal of duplicates and the reranking.
THEOREM PenultimateLineStands ==
  ASSUME TownNamesTrimmed PROVE Spec => []PenultimateLineOffered
<1>1. IInv => PenultimateLineOffered
  BY InvPenultimate
<1> QED
  BY <1>1, InvAlways, PTL
=============================================================================
