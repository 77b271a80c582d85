--------------------------- MODULE TaggingProofs ---------------------------
(*****************************************************************************)
(* What Tagging promises, for any labels, weights, network output and text:  *)
(* Decode's path weighs as much as the best of all paths, the marginals are  *)
(* the sums over all paths they stand for, the spans are those of the path,  *)
(* and their confidence lies between the path's share and 1.  Two inductive  *)
(* invariants: IInv, of the path and the spans cut from it, and CrfInv, of   *)
(* what each table of the two passes holds at each turn of their loops.      *)
(*                                                                           *)
(* The file goes from the general to the particular: sums and products of a  *)
(* function on a finite set; chains of labels, and the sums over them that a *)
(* forward and a backward pass compute; the spans; the passes of the model.  *)
(*****************************************************************************)
EXTENDS Tagging, FiniteSetTheorems, WellFoundedInduction, TLAPS

-----------------------------------------------------------------------------
(*****************************************************************************)
(* Induction over the naturals and over the subsets of a finite set.         *)
(*****************************************************************************)
\* A set of natural numbers that is not empty has a least member.
LEMMA LeastNatural ==
  ASSUME NEW T \in SUBSET Nat, T # {}
  PROVE  \E m \in T : \A y \in T : m <= y
<1>1. PICK m \in T : \A y \in T : ~ (<<y, m>> \in OpToRel(<, Nat))
  BY NatLessThanWellFounded, WFMin
<1>2. \A y \in T : ~ (y < m)
  BY <1>1 DEF OpToRel
<1> QED
  BY <1>2

\* Induction: a set of naturals with 0 and the successors of its members has all.
LEMMA Inductive ==
  ASSUME NEW T, 0 \in T, \A n \in Nat : n \in T => n + 1 \in T
  PROVE  Nat \subseteq T
<1> SUFFICES ASSUME Nat \ T # {} PROVE FALSE
  OBVIOUS
<1>1. PICK m \in Nat \ T : \A y \in Nat \ T : m <= y
  BY LeastNatural
<1>2. m # 0 /\ m - 1 \in Nat
  BY <1>1
<1>3. m - 1 \in T
  BY <1>1, <1>2
<1> QED
  BY <1>1, <1>2, <1>3

\* Induction over the subsets of a finite set.
LEMMA SubsetInduction ==
  ASSUME NEW S, IsFiniteSet(S), NEW T,
         \A s \in SUBSET S : (\A r \in SUBSET S : r \subseteq s /\ r # s => r \in T) => s \in T
  PROVE  SUBSET S \subseteq T
<1> DEFINE Out == (SUBSET S) \ T
<1> SUFFICES ASSUME Out # {} PROVE FALSE
  OBVIOUS
<1>1. Out \subseteq FiniteSubsetsOf(S)
  BY FS_Subset DEF FiniteSubsetsOf
<1>2. PICK s \in Out : \A r \in Out : ~ (<<r, s>> \in StrictSubsetOrdering(S))
  <2> HIDE DEF Out
  <2>1. IsWellFoundedOn(StrictSubsetOrdering(S), FiniteSubsetsOf(S))
    BY FS_StrictSubsetOrderingWellFounded
  <2> QED
    BY <1>1, <2>1, WFMin
<1>3. ASSUME NEW r \in SUBSET S, r \subseteq s, r # s PROVE r \in T
  <2>1. <<r, s>> \in StrictSubsetOrdering(S)
    BY <1>3 DEF StrictSubsetOrdering
  <2> QED
    BY <1>2, <2>1
<1> QED
  BY <1>2, <1>3

-----------------------------------------------------------------------------
(*****************************************************************************)
(* Folds: SumFunctionOnSet and its like choose a function on the subsets of  *)
(* S that satisfies an equation; FoldTable is that function.                 *)
(*****************************************************************************)
Picked(s) == CHOOSE x \in s : TRUE

Addition == [a \in Nat |-> [b \in Nat |-> a + b]]
Multiplication == [a \in Nat |-> [b \in Nat |-> a * b]]

\* What a fold over the naturals asks of its operator.
FoldsWith(op) ==
  /\ op \in [Nat -> [Nat -> Nat]]
  /\ \A a, b, c \in Nat : op[a][op[b][c]] = op[b][op[a][c]]

\* F is the table of the folds of f over the subsets of S.
FoldTable(F, op, base, f, S) ==
  /\ F \in [SUBSET S -> Nat]
  /\ \A s \in SUBSET S :
       F[s] = IF s = {} THEN base ELSE op[f[Picked(s)]][F[s \ {Picked(s)}]]

LEMMA AdditionFolds == FoldsWith(Addition)
BY DEF FoldsWith, Addition

LEMMA MultiplicationFolds == FoldsWith(Multiplication)
<1>1. Multiplication \in [Nat -> [Nat -> Nat]]
  BY DEF Multiplication
<1>2. ASSUME NEW a \in Nat, NEW b \in Nat, NEW c \in Nat
      PROVE  Multiplication[a][Multiplication[b][c]] = Multiplication[b][Multiplication[a][c]]
  <2>1. a * c \in Nat /\ b * c \in Nat /\ a * (b * c) = b * (a * c)
    OBVIOUS
  <2> QED
    BY <2>1 DEF Multiplication
<1> QED
  BY <1>1, <1>2 DEF FoldsWith

LEMMA FoldStepType ==
  ASSUME NEW op, FoldsWith(op), NEW a \in Nat, NEW b \in Nat PROVE op[a][b] \in Nat
<1>1. op[a] \in [Nat -> Nat]
  BY DEF FoldsWith
<1> QED
  BY <1>1

LEMMA PickedIn == ASSUME NEW s, s # {} PROVE Picked(s) \in s
BY DEF Picked

LEMMA FoldTableExists ==
  ASSUME NEW S, IsFiniteSet(S), NEW op, FoldsWith(op), NEW base \in Nat,
         NEW f, \A x \in S : f[x] \in Nat
  PROVE  \E F : FoldTable(F, op, base, f, S)
<1> DEFINE Small(n) == {s \in SUBSET S : Cardinality(s) <= n}
           Value(F, s) == IF s = {} THEN base ELSE op[f[Picked(s)]][F[s \ {Picked(s)}]]
           Table(F, n) == F \in [Small(n) -> Nat] /\ \A s \in Small(n) : F[s] = Value(F, s)
           T == {n \in Nat : \E F : Table(F, n)}
<1>1. ASSUME NEW s \in SUBSET S
      PROVE  /\ IsFiniteSet(s) /\ Cardinality(s) \in Nat
             /\ s # {} => /\ Picked(s) \in s /\ s \ {Picked(s)} \in SUBSET S
                          /\ Cardinality(s \ {Picked(s)}) = Cardinality(s) - 1
             /\ Cardinality(s) = 0 => s = {}
  <2>1. IsFiniteSet(s) /\ Cardinality(s) \in Nat
    BY FS_Subset, FS_CardinalityType
  <2> QED
    BY <2>1, PickedIn, FS_RemoveElement, FS_EmptySet
<1>2. 0 \in T
  <2> DEFINE F == [s \in Small(0) |-> base]
  <2>1. ASSUME NEW s \in Small(0) PROVE s = {}
    <3>1. Cardinality(s) \in Nat /\ Cardinality(s) <= 0
      BY <1>1
    <3>2. Cardinality(s) = 0
      BY <3>1
    <3> QED
      BY <1>1, <3>2
  <2>2. Table(F, 0)
    BY <2>1
  <2> QED
    BY <2>2
<1>3. ASSUME NEW n \in Nat, n \in T PROVE n + 1 \in T
  <2>1. PICK F : Table(F, n)
    BY <1>3
  <2> DEFINE G == [s \in Small(n + 1) |-> Value(F, s)]
  <2>2. ASSUME NEW s \in Small(n + 1), s # {}
        PROVE  Picked(s) \in S /\ s \ {Picked(s)} \in Small(n)
    BY <1>1, <2>2
  <2>3. ASSUME NEW s \in Small(n + 1) PROVE Value(F, s) \in Nat
    <3>1. CASE s # {}
      <4>1. F[s \ {Picked(s)}] \in Nat /\ f[Picked(s)] \in Nat
        BY <2>1, <2>2, <3>1
      <4> QED
        BY <3>1, <4>1, FoldStepType
    <3> QED
      BY <3>1
  <2>4. ASSUME NEW s \in Small(n) PROVE s \in Small(n + 1) /\ G[s] = F[s]
    <3>1. s \in Small(n + 1)
      <4>1. Cardinality(s) \in Nat /\ Cardinality(s) <= n
        BY <1>1
      <4>2. Cardinality(s) <= n + 1
        BY <4>1
      <4> QED
        BY <4>2
    <3>2. F[s] = Value(F, s)
      BY <2>1
    <3> QED
      BY <3>1, <3>2
  <2>5. ASSUME NEW s \in Small(n + 1) PROVE G[s] = Value(G, s)
    <3>1. s # {} => G[s \ {Picked(s)}] = F[s \ {Picked(s)}]
      BY <2>2, <2>4
    <3>2. G[s] = Value(F, s)
      OBVIOUS
    <3> HIDE DEF G
    <3> QED
      BY <3>1, <3>2
  <2>6. Table(G, n + 1)
    BY <2>3, <2>5
  <2> HIDE DEF G, Table
  <2> QED
    BY <2>6
<1>4. Cardinality(S) \in T /\ Small(Cardinality(S)) = SUBSET S
  <2>1. Cardinality(S) \in Nat
    BY FS_CardinalityType
  <2>2. Nat \subseteq T
    <3> HIDE DEF T
    <3> QED
      BY <1>2, <1>3, Inductive
  <2>3. \A s \in SUBSET S : Cardinality(s) <= Cardinality(S)
    BY FS_Subset
  <2> QED
    BY <2>1, <2>2, <2>3
<1> QED
  BY <1>4 DEF FoldTable

\* In any order: each member may come first.
LEMMA FoldTableAny ==
  ASSUME NEW S, IsFiniteSet(S), NEW op, FoldsWith(op), NEW base \in Nat,
         NEW f, \A x \in S : f[x] \in Nat, NEW F, FoldTable(F, op, base, f, S)
  PROVE  \A s \in SUBSET S : \A x \in s : F[s] = op[f[x]][F[s \ {x}]]
<1> DEFINE T == {s \in SUBSET S : \A x \in s : F[s] = op[f[x]][F[s \ {x}]]}
<1>1. ASSUME NEW s \in SUBSET S, \A r \in SUBSET S : r \subseteq s /\ r # s => r \in T
      PROVE  s \in T
  <2> SUFFICES ASSUME NEW x \in s PROVE F[s] = op[f[x]][F[s \ {x}]]
    OBVIOUS
  <2> DEFINE y == Picked(s)
             rest == (s \ {x}) \ {y}
  <2>1. y \in s /\ F[s] = op[f[y]][F[s \ {y}]]
    BY PickedIn DEF FoldTable
  <2> HIDE DEF y
  <2>2. CASE x # y
    <3>1. s \ {y} \in T /\ x \in s \ {y} /\ (s \ {y}) \ {x} = rest
      BY <1>1, <2>1, <2>2
    <3>2. s \ {x} \in T /\ y \in s \ {x}
      BY <1>1, <2>1, <2>2
    <3>3. F[s \ {y}] = op[f[x]][F[rest]] /\ F[s \ {x}] = op[f[y]][F[rest]]
      BY <3>1, <3>2
    <3>4. f[x] \in Nat /\ f[y] \in Nat /\ F[rest] \in Nat
      BY <2>1 DEF FoldTable
    <3> HIDE DEF rest, T
    <3>5. op[f[y]][op[f[x]][F[rest]]] = op[f[x]][op[f[y]][F[rest]]]
      BY <3>4 DEF FoldsWith
    <3> QED
      BY <2>1, <3>3, <3>5
  <2> QED
    BY <2>1, <2>2
<1> HIDE DEF T
<1>2. SUBSET S \subseteq T
  BY <1>1, SubsetInduction
<1> QED
  BY <1>2 DEF T

\* Only the members' own values matter.
LEMMA FoldTablesAgree ==
  ASSUME NEW S, IsFiniteSet(S), NEW op, NEW base, NEW f, NEW g, NEW F, NEW G,
         NEW R, S \subseteq R, \A x \in S : f[x] = g[x],
         FoldTable(F, op, base, f, S), FoldTable(G, op, base, g, R)
  PROVE  \A s \in SUBSET S : F[s] = G[s]
<1> DEFINE T == {s \in SUBSET S : F[s] = G[s]}
<1>1. ASSUME NEW s \in SUBSET S, \A r \in SUBSET S : r \subseteq s /\ r # s => r \in T
      PROVE  s \in T
  <2>1. CASE s = {}
    BY <2>1 DEF FoldTable
  <2>2. CASE s # {}
    <3>1. Picked(s) \in s /\ s \ {Picked(s)} \in T
      BY <1>1, <2>2, PickedIn
    <3>2. F[s] = op[f[Picked(s)]][F[s \ {Picked(s)}]] /\ G[s] = op[g[Picked(s)]][G[s \ {Picked(s)}]]
      BY <2>2 DEF FoldTable
    <3> QED
      BY <3>1, <3>2
  <2> QED
    BY <2>1, <2>2
<1> HIDE DEF T
<1>2. SUBSET S \subseteq T
  BY <1>1, SubsetInduction
<1> QED
  BY <1>2 DEF T

\* The product of f over S.
Product(f, S) == FoldFunctionOnSet(LAMBDA x, y : x * y, 1, f, S)

\* f has a natural number for each member of the finite set S.
Counted(f, S) == IsFiniteSet(S) /\ \A x \in S : f[x] \in Nat

\* A sum is read off the table of its partial sums.
LEMMA SumTable ==
  ASSUME NEW S, NEW f, Counted(f, S)
  PROVE  \E F : FoldTable(F, Addition, 0, f, S) /\ SumFunctionOnSet(f, S) = F[S]
<1> DEFINE Equation(G) ==
             G = [s \in SUBSET S |-> IF s = {} THEN 0 ELSE f[Picked(s)] + G[s \ {Picked(s)}]]
           Chosen == CHOOSE G : Equation(G)
<1>1. SumFunctionOnSet(f, S) = Chosen[S]
  BY DEF SumFunctionOnSet, FoldFunctionOnSet, MapThenFoldSet, Picked
<1>2. PICK F : FoldTable(F, Addition, 0, f, S)
  BY FoldTableExists, AdditionFolds DEF Counted
<1>3. ASSUME NEW s \in SUBSET S, s # {}
      PROVE  F[s] = f[Picked(s)] + F[s \ {Picked(s)}]
  <2>1. F[s] = Addition[f[Picked(s)]][F[s \ {Picked(s)}]]
    BY <1>2, <1>3 DEF FoldTable
  <2>2. f[Picked(s)] \in Nat /\ F[s \ {Picked(s)}] \in Nat
    BY <1>2, <1>3, PickedIn DEF FoldTable, Counted
  <2> QED
    BY <2>1, <2>2 DEF Addition
<1>4. Equation(F)
  BY <1>2, <1>3 DEF FoldTable
<1>5. Equation(Chosen)
  BY <1>4
<1> HIDE DEF Chosen
<1>6. ASSUME NEW s \in SUBSET S
      PROVE  Chosen[s] = IF s = {} THEN 0 ELSE f[Picked(s)] + Chosen[s \ {Picked(s)}]
  BY <1>5
<1> DEFINE T == {s \in SUBSET S : Chosen[s] = F[s]}
<1>7. ASSUME NEW s \in SUBSET S, \A r \in SUBSET S : r \subseteq s /\ r # s => r \in T
      PROVE  s \in T
  <2>1. CASE s # {}
    <3>1. s \ {Picked(s)} \in T
      BY <1>7, <2>1, PickedIn
    <3> QED
      BY <1>3, <1>6, <2>1, <3>1
  <2>2. CASE s = {}
    BY <1>2, <1>6, <2>2 DEF FoldTable
  <2> QED
    BY <2>1, <2>2
<1>8. SUBSET S \subseteq T
  <2> HIDE DEF T
  <2> QED
    BY <1>7, SubsetInduction DEF Counted
<1> QED
  BY <1>1, <1>2, <1>8

\* So is a product.
LEMMA ProductTable ==
  ASSUME NEW S, NEW f, Counted(f, S)
  PROVE  \E F : FoldTable(F, Multiplication, 1, f, S) /\ Product(f, S) = F[S]
<1> DEFINE Equation(G) ==
             G = [s \in SUBSET S |-> IF s = {} THEN 1 ELSE f[Picked(s)] * G[s \ {Picked(s)}]]
           Chosen == CHOOSE G : Equation(G)
<1>1. Product(f, S) = Chosen[S]
  BY DEF Product, FoldFunctionOnSet, MapThenFoldSet, Picked
<1>2. PICK F : FoldTable(F, Multiplication, 1, f, S)
  BY FoldTableExists, MultiplicationFolds DEF Counted
<1>3. ASSUME NEW s \in SUBSET S, s # {}
      PROVE  F[s] = f[Picked(s)] * F[s \ {Picked(s)}]
  <2>1. F[s] = Multiplication[f[Picked(s)]][F[s \ {Picked(s)}]]
    BY <1>2, <1>3 DEF FoldTable
  <2>2. f[Picked(s)] \in Nat /\ F[s \ {Picked(s)}] \in Nat
    BY <1>2, <1>3, PickedIn DEF FoldTable, Counted
  <2> QED
    BY <2>1, <2>2 DEF Multiplication
<1>4. Equation(F)
  BY <1>2, <1>3 DEF FoldTable
<1>5. Equation(Chosen)
  BY <1>4
<1> HIDE DEF Chosen
<1>6. ASSUME NEW s \in SUBSET S
      PROVE  Chosen[s] = IF s = {} THEN 1 ELSE f[Picked(s)] * Chosen[s \ {Picked(s)}]
  BY <1>5
<1> DEFINE T == {s \in SUBSET S : Chosen[s] = F[s]}
<1>7. ASSUME NEW s \in SUBSET S, \A r \in SUBSET S : r \subseteq s /\ r # s => r \in T
      PROVE  s \in T
  <2>1. CASE s # {}
    <3>1. s \ {Picked(s)} \in T
      BY <1>7, <2>1, PickedIn
    <3> QED
      BY <1>3, <1>6, <2>1, <3>1
  <2>2. CASE s = {}
    BY <1>2, <1>6, <2>2 DEF FoldTable
  <2> QED
    BY <2>1, <2>2
<1>8. SUBSET S \subseteq T
  <2> HIDE DEF T
  <2> QED
    BY <1>7, SubsetInduction DEF Counted
<1> QED
  BY <1>1, <1>2, <1>8

LEMMA SumEmpty == ASSUME NEW f PROVE SumFunctionOnSet(f, {}) = 0
<1>1. Counted(f, {})
  BY FS_EmptySet DEF Counted
<1>2. PICK F : FoldTable(F, Addition, 0, f, {}) /\ SumFunctionOnSet(f, {}) = F[{}]
  BY <1>1, SumTable
<1> QED
  BY <1>2 DEF FoldTable

LEMMA SumSame ==
  ASSUME NEW S, NEW f, NEW g, Counted(f, S), \A x \in S : f[x] = g[x]
  PROVE  SumFunctionOnSet(f, S) = SumFunctionOnSet(g, S)
<1>1. Counted(g, S)
  BY DEF Counted
<1>2. PICK F : FoldTable(F, Addition, 0, f, S) /\ SumFunctionOnSet(f, S) = F[S]
  BY SumTable
<1>3. PICK G : FoldTable(G, Addition, 0, g, S) /\ SumFunctionOnSet(g, S) = G[S]
  BY <1>1, SumTable
<1> QED
  BY <1>2, <1>3, FoldTablesAgree DEF Counted

\* Any member may be split off.
LEMMA SumSplit ==
  ASSUME NEW S, NEW f, Counted(f, S), NEW x \in S
  PROVE  /\ SumFunctionOnSet(f, S) = f[x] + SumFunctionOnSet(f, S \ {x})
         /\ Counted(f, S \ {x})
         /\ f[x] \in Nat /\ SumFunctionOnSet(f, S) \in Nat /\ SumFunctionOnSet(f, S \ {x}) \in Nat
<1> DEFINE R == S \ {x}
<1>1. Counted(f, R)
  BY FS_RemoveElement DEF Counted
<1>2. PICK F : FoldTable(F, Addition, 0, f, S) /\ SumFunctionOnSet(f, S) = F[S]
  BY SumTable
<1>3. PICK G : FoldTable(G, Addition, 0, f, R) /\ SumFunctionOnSet(f, R) = G[R]
  BY <1>1, SumTable
<1>4. G[R] = F[R]
  BY <1>1, <1>2, <1>3, FoldTablesAgree DEF Counted
<1>5. F[S] = Addition[f[x]][F[R]]
  BY <1>2, AdditionFolds, FoldTableAny DEF Counted
<1>6. f[x] \in Nat /\ F[R] \in Nat /\ F[S] \in Nat
  BY <1>2 DEF Counted, FoldTable
<1>7. F[S] = f[x] + F[R]
  BY <1>5, <1>6 DEF Addition
<1> QED
  BY <1>1, <1>2, <1>3, <1>4, <1>6, <1>7

LEMMA SumType == ASSUME NEW S, NEW f, Counted(f, S) PROVE SumFunctionOnSet(f, S) \in Nat
<1>1. PICK F : FoldTable(F, Addition, 0, f, S) /\ SumFunctionOnSet(f, S) = F[S]
  BY SumTable
<1> QED
  BY <1>1 DEF FoldTable

LEMMA ProductEmpty == ASSUME NEW f PROVE Product(f, {}) = 1
<1>1. Counted(f, {})
  BY FS_EmptySet DEF Counted
<1>2. PICK F : FoldTable(F, Multiplication, 1, f, {}) /\ Product(f, {}) = F[{}]
  BY <1>1, ProductTable
<1> QED
  BY <1>2 DEF FoldTable

LEMMA ProductSame ==
  ASSUME NEW S, NEW f, NEW g, Counted(f, S), \A x \in S : f[x] = g[x]
  PROVE  Product(f, S) = Product(g, S)
<1>1. Counted(g, S)
  BY DEF Counted
<1>2. PICK F : FoldTable(F, Multiplication, 1, f, S) /\ Product(f, S) = F[S]
  BY ProductTable
<1>3. PICK G : FoldTable(G, Multiplication, 1, g, S) /\ Product(g, S) = G[S]
  BY <1>1, ProductTable
<1> QED
  BY <1>2, <1>3, FoldTablesAgree DEF Counted

\* Any member may be split off.
LEMMA ProductSplit ==
  ASSUME NEW S, NEW f, Counted(f, S), NEW x \in S
  PROVE  /\ Product(f, S) = f[x] * Product(f, S \ {x})
         /\ Counted(f, S \ {x})
         /\ f[x] \in Nat /\ Product(f, S) \in Nat /\ Product(f, S \ {x}) \in Nat
<1> DEFINE R == S \ {x}
<1>1. Counted(f, R)
  BY FS_RemoveElement DEF Counted
<1>2. PICK F : FoldTable(F, Multiplication, 1, f, S) /\ Product(f, S) = F[S]
  BY ProductTable
<1>3. PICK G : FoldTable(G, Multiplication, 1, f, R) /\ Product(f, R) = G[R]
  BY <1>1, ProductTable
<1>4. G[R] = F[R]
  BY <1>1, <1>2, <1>3, FoldTablesAgree DEF Counted
<1>5. F[S] = Multiplication[f[x]][F[R]]
  BY <1>2, MultiplicationFolds, FoldTableAny DEF Counted
<1>6. f[x] \in Nat /\ F[R] \in Nat /\ F[S] \in Nat
  BY <1>2 DEF Counted, FoldTable
<1>7. F[S] = f[x] * F[R]
  BY <1>5, <1>6 DEF Multiplication
<1> QED
  BY <1>1, <1>2, <1>3, <1>4, <1>6, <1>7

LEMMA ProductType == ASSUME NEW S, NEW f, Counted(f, S) PROVE Product(f, S) \in Nat
<1>1. PICK F : FoldTable(F, Multiplication, 1, f, S) /\ Product(f, S) = F[S]
  BY ProductTable
<1> QED
  BY <1>1 DEF FoldTable

LEMMA CountedSubset ==
  ASSUME NEW S, NEW f, Counted(f, S), NEW R \in SUBSET S PROVE Counted(f, R)
BY FS_Subset DEF Counted

\* A constant factor may be taken out of a sum.
LEMMA SumScale ==
  ASSUME NEW S, NEW f, NEW g, Counted(f, S), NEW c \in Nat, \A x \in S : g[x] = c * f[x]
  PROVE  SumFunctionOnSet(g, S) = c * SumFunctionOnSet(f, S)
<1> DEFINE T == {s \in SUBSET S : SumFunctionOnSet(g, s) = c * SumFunctionOnSet(f, s)}
<1>1. ASSUME NEW s \in SUBSET S PROVE Counted(f, s) /\ Counted(g, s)
  BY CountedSubset DEF Counted
<1>2. ASSUME NEW s \in SUBSET S, \A r \in SUBSET S : r \subseteq s /\ r # s => r \in T
      PROVE  s \in T
  <2>1. CASE s = {}
    BY <2>1, SumEmpty
  <2>2. ASSUME NEW x \in s PROVE s \in T
    <3> DEFINE a == SumFunctionOnSet(f, s \ {x})
               b == SumFunctionOnSet(g, s \ {x})
    <3>1. SumFunctionOnSet(f, s) = f[x] + a /\ f[x] \in Nat /\ a \in Nat
      BY <1>1, SumSplit
    <3>2. SumFunctionOnSet(g, s) = g[x] + b /\ b \in Nat
      BY <1>1, SumSplit
    <3>3. b = c * a
      BY <1>2
    <3> HIDE DEF a, b
    <3>4. c * f[x] + c * a = c * (f[x] + a)
      BY <3>1
    <3> QED
      BY <3>1, <3>2, <3>3, <3>4
  <2> QED
    BY <2>1, <2>2
<1> HIDE DEF T
<1>3. SUBSET S \subseteq T
  BY <1>2, SubsetInduction DEF Counted
<1> QED
  BY <1>3 DEF T

LEMMA SumMono ==
  ASSUME NEW S, NEW f, NEW g, Counted(f, S), Counted(g, S), \A x \in S : f[x] <= g[x]
  PROVE  SumFunctionOnSet(f, S) <= SumFunctionOnSet(g, S)
<1> DEFINE T == {s \in SUBSET S : SumFunctionOnSet(f, s) <= SumFunctionOnSet(g, s)}
<1>1. ASSUME NEW s \in SUBSET S PROVE Counted(f, s) /\ Counted(g, s)
  BY CountedSubset
<1>2. ASSUME NEW s \in SUBSET S, \A r \in SUBSET S : r \subseteq s /\ r # s => r \in T
      PROVE  s \in T
  <2>1. CASE s = {}
    BY <2>1, SumEmpty
  <2>2. ASSUME NEW x \in s PROVE s \in T
    <3> DEFINE a == SumFunctionOnSet(f, s \ {x})
               b == SumFunctionOnSet(g, s \ {x})
    <3>1. SumFunctionOnSet(f, s) = f[x] + a /\ f[x] \in Nat /\ a \in Nat
      BY <1>1, SumSplit
    <3>2. SumFunctionOnSet(g, s) = g[x] + b /\ g[x] \in Nat /\ b \in Nat
      BY <1>1, SumSplit
    <3>3. a <= b /\ f[x] <= g[x]
      BY <1>2
    <3> HIDE DEF a, b
    <3> QED
      BY <3>1, <3>2, <3>3
  <2> QED
    BY <2>1, <2>2
<1> HIDE DEF T
<1>3. SUBSET S \subseteq T
  BY <1>2, SubsetInduction DEF Counted
<1> QED
  BY <1>3 DEF T

LEMMA SumUnion ==
  ASSUME NEW A, NEW B, NEW f, Counted(f, A), Counted(f, B), A \cap B = {}
  PROVE  SumFunctionOnSet(f, A \cup B) = SumFunctionOnSet(f, A) + SumFunctionOnSet(f, B)
<1> DEFINE T == {s \in SUBSET A :
                   SumFunctionOnSet(f, s \cup B) = SumFunctionOnSet(f, s) + SumFunctionOnSet(f, B)}
<1>1. ASSUME NEW s \in SUBSET A PROVE Counted(f, s) /\ Counted(f, s \cup B)
  BY CountedSubset, FS_Union DEF Counted
<1>2. ASSUME NEW s \in SUBSET A, \A r \in SUBSET A : r \subseteq s /\ r # s => r \in T
      PROVE  s \in T
  <2>0. SumFunctionOnSet(f, B) \in Nat
    BY SumType
  <2>1. CASE s = {}
    BY <2>0, <2>1, SumEmpty
  <2>2. ASSUME NEW x \in s PROVE s \in T
    <3> DEFINE a == SumFunctionOnSet(f, s \ {x})
               b == SumFunctionOnSet(f, (s \ {x}) \cup B)
               c == SumFunctionOnSet(f, B)
    <3>1. SumFunctionOnSet(f, s) = f[x] + a /\ f[x] \in Nat /\ a \in Nat
      BY <1>1, SumSplit
    <3>2. SumFunctionOnSet(f, s \cup B) = f[x] + b /\ b \in Nat
      <4> DEFINE all == s \cup B
      <4>1. all \ {x} = (s \ {x}) \cup B /\ x \in all
        OBVIOUS
      <4>2. Counted(f, all)
        BY <1>1
      <4> HIDE DEF all
      <4>3. SumFunctionOnSet(f, all) = f[x] + SumFunctionOnSet(f, all \ {x})
            /\ SumFunctionOnSet(f, all \ {x}) \in Nat
        BY <4>1, <4>2, SumSplit
      <4> QED
        BY <4>1, <4>3 DEF all
    <3>3. b = a + c /\ c \in Nat
      BY <1>2, <2>0
    <3> HIDE DEF a, b, c
    <3>4. SumFunctionOnSet(f, s \cup B) = SumFunctionOnSet(f, s) + c
      BY <3>1, <3>2, <3>3
    <3> QED
      BY <3>4 DEF c
  <2> QED
    BY <2>1, <2>2
<1> HIDE DEF T
<1>3. SUBSET A \subseteq T
  BY <1>2, SubsetInduction DEF Counted
<1> QED
  BY <1>3 DEF T

LEMMA SumSubset ==
  ASSUME NEW S, NEW f, Counted(f, S), NEW R \in SUBSET S
  PROVE  SumFunctionOnSet(f, R) <= SumFunctionOnSet(f, S)
<1>1. Counted(f, R) /\ Counted(f, S \ R)
  BY CountedSubset
<1>2. R \cup (S \ R) = S /\ R \cap (S \ R) = {}
  OBVIOUS
<1>3. SumFunctionOnSet(f, S) = SumFunctionOnSet(f, R) + SumFunctionOnSet(f, S \ R)
  BY <1>1, <1>2, SumUnion
<1>4. SumFunctionOnSet(f, R) \in Nat /\ SumFunctionOnSet(f, S \ R) \in Nat
  BY <1>1, SumType
<1> QED
  BY <1>3, <1>4

\* A member counts no more than the whole.
LEMMA SumMember ==
  ASSUME NEW S, NEW f, Counted(f, S), NEW x \in S
  PROVE  f[x] <= SumFunctionOnSet(f, S)
<1>1. SumFunctionOnSet(f, S) = f[x] + SumFunctionOnSet(f, S \ {x})
      /\ f[x] \in Nat /\ SumFunctionOnSet(f, S \ {x}) \in Nat
  BY SumSplit
<1> QED
  BY <1>1

\* A sum may be taken fibre by fibre: over the members that h sends to each i.
LEMMA SumFibres ==
  ASSUME NEW S, NEW f, Counted(f, S), NEW I, IsFiniteSet(I), NEW h, \A x \in S : h[x] \in I,
         NEW g, \A i \in I : \E R \in SUBSET S : /\ \A x \in S : x \in R <=> h[x] = i
                                                 /\ g[i] = SumFunctionOnSet(f, R)
  PROVE  SumFunctionOnSet(f, S) = SumFunctionOnSet(g, I) /\ Counted(g, I)
<1> DEFINE Fibre(J) == {x \in S : h[x] \in J}
           T == {J \in SUBSET I : SumFunctionOnSet(f, Fibre(J)) = SumFunctionOnSet(g, J)}
<1>1. ASSUME NEW J \in SUBSET I PROVE Counted(f, Fibre(J))
  BY CountedSubset
<1>2. ASSUME NEW i \in I PROVE g[i] = SumFunctionOnSet(f, Fibre({i})) /\ g[i] \in Nat
  <2>1. PICK R \in SUBSET S : (\A x \in S : x \in R <=> h[x] = i) /\ g[i] = SumFunctionOnSet(f, R)
    OBVIOUS
  <2>2. Fibre({i}) = R
    BY <2>1
  <2>3. SumFunctionOnSet(f, R) \in Nat
    <3>1. Counted(f, R)
      BY CountedSubset
    <3> QED
      BY <3>1, SumType
  <2> QED
    BY <2>1, <2>2, <2>3
<1>3. Counted(g, I)
  BY <1>2 DEF Counted
<1>4. ASSUME NEW J \in SUBSET I, \A r \in SUBSET I : r \subseteq J /\ r # J => r \in T
      PROVE  J \in T
  <2>1. CASE J = {}
    <3>1. Fibre(J) = {}
      BY <2>1
    <3> QED
      BY <2>1, <3>1, SumEmpty
  <2>2. ASSUME NEW i \in J PROVE J \in T
    <3>1. Fibre(J) = Fibre({i}) \cup Fibre(J \ {i}) /\ Fibre({i}) \cap Fibre(J \ {i}) = {}
      OBVIOUS
    <3>2. Counted(f, Fibre({i})) /\ Counted(f, Fibre(J \ {i})) /\ g[i] = SumFunctionOnSet(f, Fibre({i}))
      BY <1>1, <1>2
    <3>3. SumFunctionOnSet(f, Fibre(J \ {i})) = SumFunctionOnSet(g, J \ {i})
      BY <1>4
    <3>4. Counted(g, J)
      BY <1>3, CountedSubset
    <3> DEFINE A == Fibre({i})
               B == Fibre(J \ {i})
    <3>5. SumFunctionOnSet(f, Fibre(J)) = g[i] + SumFunctionOnSet(g, J \ {i})
      <4> HIDE DEF Fibre
      <4>1. Fibre(J) = A \cup B /\ A \cap B = {} /\ Counted(f, A) /\ Counted(f, B)
            /\ SumFunctionOnSet(f, A) = g[i] /\ SumFunctionOnSet(f, B) = SumFunctionOnSet(g, J \ {i})
        BY <3>1, <3>2, <3>3
      <4> HIDE DEF A, B
      <4>2. SumFunctionOnSet(f, A \cup B) = SumFunctionOnSet(f, A) + SumFunctionOnSet(f, B)
        BY <4>1, SumUnion
      <4> QED
        BY <4>1, <4>2
    <3>6. SumFunctionOnSet(g, J) = g[i] + SumFunctionOnSet(g, J \ {i})
      BY <3>4, SumSplit
    <3> QED
      BY <3>5, <3>6
  <2> QED
    BY <2>1, <2>2
<1>5. I \in T
  <2> HIDE DEF T
  <2>1. SUBSET I \subseteq T
    BY <1>4, SubsetInduction
  <2> QED
    BY <2>1
<1>6. Fibre(I) = S
  OBVIOUS
<1> QED
  BY <1>3, <1>5, <1>6

\* A sum of b - a values, each between l and u.
LEMMA SumInterval ==
  ASSUME NEW a \in Nat, NEW b \in Nat, a <= b, NEW f, NEW l \in Nat, NEW u \in Nat,
         \A x \in (a + 1)..b : f[x] \in Nat
  PROVE  /\ (\A x \in (a + 1)..b : f[x] <= u) => SumFunctionOnSet(f, (a + 1)..b) <= (b - a) * u
         /\ (\A x \in (a + 1)..b : f[x] >= l) => SumFunctionOnSet(f, (a + 1)..b) >= (b - a) * l
<1> DEFINE Bounded(n) ==
             /\ (\A x \in (a + 1)..b : f[x] <= u) => SumFunctionOnSet(f, (a + 1)..(a + n)) <= n * u
             /\ (\A x \in (a + 1)..b : f[x] >= l) => SumFunctionOnSet(f, (a + 1)..(a + n)) >= n * l
           T == {n \in Nat : a + n <= b => Bounded(n)}
<1>1. 0 \in T
  <2>1. (a + 1)..(a + 0) = {}
    OBVIOUS
  <2> QED
    BY <2>1, SumEmpty
<1>2. ASSUME NEW n \in Nat, n \in T PROVE n + 1 \in T
  <2> SUFFICES ASSUME a + (n + 1) <= b PROVE Bounded(n + 1)
    OBVIOUS
  <2> DEFINE x == a + (n + 1)
             s == SumFunctionOnSet(f, (a + 1)..(a + n))
  <2>1. x \in (a + 1)..b /\ x \in (a + 1)..x /\ ((a + 1)..x) \ {x} = (a + 1)..(a + n)
    OBVIOUS
  <2>2. Counted(f, (a + 1)..x)
    <3>1. IsFiniteSet((a + 1)..x)
      BY FS_Interval
    <3>2. \A y \in (a + 1)..x : y \in (a + 1)..b
      OBVIOUS
    <3> QED
      BY <3>1, <3>2 DEF Counted
  <2>3. SumFunctionOnSet(f, (a + 1)..x) = f[x] + s /\ f[x] \in Nat /\ s \in Nat
    BY <2>1, <2>2, SumSplit
  <2>4. Bounded(n)
    BY <1>2
  <2>5. (n + 1) * u = u + n * u /\ (n + 1) * l = l + n * l /\ n * u \in Nat /\ n * l \in Nat
    OBVIOUS
  <2>6. ASSUME \A y \in (a + 1)..b : f[y] <= u
        PROVE  SumFunctionOnSet(f, (a + 1)..x) <= (n + 1) * u
    <3>1. f[x] <= u /\ s <= n * u
      BY <2>1, <2>4, <2>6
    <3> HIDE DEF x, s
    <3> QED
      BY <2>3, <2>5, <3>1
  <2>7. ASSUME \A y \in (a + 1)..b : f[y] >= l
        PROVE  SumFunctionOnSet(f, (a + 1)..x) >= (n + 1) * l
    <3>1. f[x] >= l /\ s >= n * l
      BY <2>1, <2>4, <2>7
    <3> HIDE DEF x, s
    <3> QED
      BY <2>3, <2>5, <3>1
  <2> QED
    BY <2>6, <2>7
<1>3. b - a \in T
  <2> HIDE DEF T
  <2>1. Nat \subseteq T
    BY <1>1, <1>2, Inductive
  <2> QED
    BY <2>1
<1>4. a + (b - a) = b
  OBVIOUS
<1> QED
  BY <1>3, <1>4

-----------------------------------------------------------------------------
(*****************************************************************************)
(* Chains of labels: every label of a path weighs something, given the one   *)
(* before it.                                                                *)
(*****************************************************************************)
\* A chain of n labels out of L: the weight of the first label, of each move to
\* the label at a position from the one before it, and of the last label.
Chain(n, L, first, move, last) ==
  /\ n \in Nat \ {0} /\ IsFiniteSet(L)
  /\ first \in [L -> Nat] /\ last \in [L -> Nat]
  /\ move \in [2..n -> [L -> [L -> Nat]]]

StepWeight(first, move, p, s) == IF s = 1 THEN first[p[1]] ELSE move[s][p[s - 1]][p[s]]

\* The weight of the first t labels of p.
Steps(first, move, p, t) == [s \in 1..t |-> StepWeight(first, move, p, s)]
PrefixWeight(first, move, p, t) == Product(Steps(first, move, p, t), 1..t)

LEMMA SumSingleton ==
  ASSUME NEW f, NEW x, f[x] \in Nat PROVE SumFunctionOnSet(f, {x}) = f[x]
<1> DEFINE S == {x}
<1>1. Counted(f, S) /\ S \ {x} = {} /\ x \in S
  BY FS_Singleton DEF Counted
<1> HIDE DEF S
<1>2. SumFunctionOnSet(f, S) = f[x] + SumFunctionOnSet(f, S \ {x})
  BY <1>1, SumSplit
<1>3. SumFunctionOnSet(f, S \ {x}) = 0
  BY <1>1, SumEmpty
<1> QED
  BY <1>2, <1>3 DEF S

LEMMA FinitePaths ==
  ASSUME NEW L, IsFiniteSet(L), NEW t \in Nat PROVE IsFiniteSet([1..t -> L])
<1> DEFINE T == {n \in Nat : IsFiniteSet([1..n -> L])}
<1>1. 0 \in T
  <2> DEFINE e == [s \in 1..0 |-> s]
  <2>1. \A p, q \in [1..0 -> L] : p = q
    OBVIOUS
  <2>2. [1..0 -> L] \subseteq {e}
    OBVIOUS
  <2>3. IsFiniteSet({e})
    BY FS_Singleton
  <2> QED
    BY <2>2, <2>3, FS_Subset
<1>2. ASSUME NEW n \in Nat, n \in T PROVE n + 1 \in T
  <2> DEFINE A == [1..n -> L] \X L
             B == [1..(n + 1) -> L]
             h == [x \in A |-> [s \in 1..(n + 1) |-> IF s = n + 1 THEN x[2] ELSE x[1][s]]]
  <2>1. IsFiniteSet(A)
    BY <1>2, FS_Product
  <2>2. h \in [A -> B]
    <3> SUFFICES ASSUME NEW x \in A PROVE h[x] \in B
      OBVIOUS
    <3>1. x[1] \in [1..n -> L] /\ x[2] \in L
      OBVIOUS
    <3>2. \A s \in 1..(n + 1) : s # n + 1 => s \in 1..n
      OBVIOUS
    <3> QED
      BY <3>1, <3>2
  <2>3. ASSUME NEW q \in B PROVE \E x \in A : h[x] = q
    <3> DEFINE x == <<[s \in 1..n |-> q[s]], q[n + 1]>>
    <3>1. x \in A
      <4>1. n + 1 \in 1..(n + 1) /\ \A s \in 1..n : s \in 1..(n + 1)
        OBVIOUS
      <4> QED
        BY <4>1
    <3>2. /\ x[2] = q[n + 1]
          /\ \A s \in 1..(n + 1) : s # n + 1 => x[1][s] = q[s]
      OBVIOUS
    <3> HIDE DEF x
    <3>3. h[x] = [s \in 1..(n + 1) |-> q[s]]
      BY <3>1, <3>2
    <3>4. q = [s \in 1..(n + 1) |-> q[s]]
      OBVIOUS
    <3> QED
      BY <3>1, <3>3, <3>4
  <2>4. h \in Surjection(A, B)
    <3> HIDE DEF h, A, B
    <3> QED
      BY <2>2, <2>3 DEF Surjection
  <2> HIDE DEF h, A
  <2> QED
    BY <2>1, <2>4, FS_Surjection
<1>3. Nat \subseteq T
  <2> HIDE DEF T
  <2> QED
    BY <1>1, <1>2, Inductive
<1> QED
  BY <1>3

-----------------------------------------------------------------------------
LEMMA StepType ==
  ASSUME NEW n, NEW L, NEW first, NEW move, NEW last, Chain(n, L, first, move, last),
         NEW t \in 1..n, NEW p, \A s \in 1..t : p[s] \in L, NEW s \in 1..t
  PROVE  StepWeight(first, move, p, s) \in Nat
<1>1. CASE s = 1
  BY <1>1 DEF Chain, StepWeight
<1>2. CASE s # 1
  <2>1. s \in 2..n /\ s - 1 \in 1..t
    BY <1>2 DEF Chain
  <2>2. move[s] \in [L -> [L -> Nat]] /\ p[s - 1] \in L /\ p[s] \in L
    BY <2>1 DEF Chain
  <2>3. move[s][p[s - 1]][p[s]] \in Nat
    BY <2>2
  <2> QED
    BY <1>2, <2>3 DEF StepWeight
<1> QED
  BY <1>1, <1>2

LEMMA StepsCounted ==
  ASSUME NEW n, NEW L, NEW first, NEW move, NEW last, Chain(n, L, first, move, last),
         NEW t \in 1..n, NEW p, \A s \in 1..t : p[s] \in L
  PROVE  Counted(Steps(first, move, p, t), 1..t)
<1>1. IsFiniteSet(1..t)
  BY FS_Interval DEF Chain
<1> QED
  BY <1>1, StepType DEF Counted, Steps

LEMMA PrefixType ==
  ASSUME NEW n, NEW L, NEW first, NEW move, NEW last, Chain(n, L, first, move, last),
         NEW t \in 1..n, NEW p, \A s \in 1..t : p[s] \in L
  PROVE  PrefixWeight(first, move, p, t) \in Nat
BY StepsCounted, ProductType DEF PrefixWeight

LEMMA PrefixSame ==
  ASSUME NEW n, NEW L, NEW first, NEW move, NEW last, Chain(n, L, first, move, last),
         NEW t \in 1..n, NEW p, NEW q, \A s \in 1..t : p[s] \in L /\ q[s] = p[s]
  PROVE  PrefixWeight(first, move, p, t) = PrefixWeight(first, move, q, t)
<1>1. ASSUME NEW s \in 1..t
      PROVE  StepWeight(first, move, p, s) = StepWeight(first, move, q, s)
  <2>1. s # 1 => s - 1 \in 1..t
    BY DEF Chain
  <2>2. 1 \in 1..t
    BY DEF Chain
  <2> QED
    BY <2>1, <2>2 DEF StepWeight
<1>2. \A s \in 1..t : Steps(first, move, p, t)[s] = Steps(first, move, q, t)[s]
  BY <1>1 DEF Steps
<1>3. Counted(Steps(first, move, p, t), 1..t)
  BY StepsCounted
<1> QED
  BY <1>2, <1>3, ProductSame DEF PrefixWeight

LEMMA PrefixOne ==
  ASSUME NEW n, NEW L, NEW first, NEW move, NEW last, Chain(n, L, first, move, last),
         NEW p, p[1] \in L
  PROVE  PrefixWeight(first, move, p, 1) = first[p[1]]
<1> DEFINE f == Steps(first, move, p, 1)
           S == 1..1
<1>1. 1 \in 1..n /\ 1 \in S /\ S \ {1} = {} /\ \A s \in S : p[s] \in L
  BY DEF Chain
<1>2. Counted(f, S)
  BY <1>1, StepsCounted
<1>3. f[1] = first[p[1]] /\ PrefixWeight(first, move, p, 1) = Product(f, S)
  BY DEF Steps, StepWeight, PrefixWeight
<1> HIDE DEF f, S
<1>4. Product(f, S) = f[1] * Product(f, S \ {1}) /\ f[1] \in Nat
  BY <1>1, <1>2, ProductSplit
<1>5. Product(f, S \ {1}) = 1
  BY <1>1, ProductEmpty
<1> QED
  BY <1>3, <1>4, <1>5

LEMMA PrefixNext ==
  ASSUME NEW n, NEW L, NEW first, NEW move, NEW last, Chain(n, L, first, move, last),
         NEW t \in 1..n, NEW u \in 1..n, u = t + 1, NEW p, \A s \in 1..u : p[s] \in L
  PROVE  /\ PrefixWeight(first, move, p, u) = PrefixWeight(first, move, p, t) * move[u][p[t]][p[u]]
         /\ move[u][p[t]][p[u]] \in Nat
<1> DEFINE f == Steps(first, move, p, u)
           g == Steps(first, move, p, t)
           m == move[u][p[t]][p[u]]
           S == 1..u
           R == 1..t
<1>1. n \in Nat /\ t \in Nat /\ u \in S /\ S \ {u} = R /\ u # 1 /\ u - 1 = t /\ \A s \in R : p[s] \in L
  BY DEF Chain
<1>2. Counted(f, S) /\ Counted(g, R)
  BY <1>1, StepsCounted
<1>3. f[u] = m
  BY <1>1 DEF Steps, StepWeight
<1>4. \A s \in R : g[s] = f[s]
  BY <1>1 DEF Steps
<1>5. /\ PrefixWeight(first, move, p, u) = Product(f, S)
      /\ PrefixWeight(first, move, p, t) = Product(g, R)
  BY DEF PrefixWeight
<1> HIDE DEF f, g, m, S, R
<1>6. Product(f, S) = f[u] * Product(f, S \ {u}) /\ f[u] \in Nat /\ Product(f, S \ {u}) \in Nat
  BY <1>1, <1>2, ProductSplit
<1>7. Product(g, R) = Product(f, R)
  BY <1>2, <1>4, ProductSame
<1>8. Product(f, S) = Product(g, R) * m /\ m \in Nat
  BY <1>1, <1>3, <1>6, <1>7
<1> QED
  BY <1>5, <1>8 DEF m

-----------------------------------------------------------------------------
\* The first t labels of a path, those that end with label k, and their weights.
Prefixes(L, t) == [1..t -> L]
PrefixesTo(L, t, k) == {q \in Prefixes(L, t) : q[t] = k}
PrefixTable(L, first, move, t) == [q \in Prefixes(L, t) |-> PrefixWeight(first, move, q, t)]

\* What the forward sum at position t stands for: the weight of all that can
\* lead up to label k there.
LeadingTo(L, first, move, t, k) ==
  SumFunctionOnSet(PrefixTable(L, first, move, t), PrefixesTo(L, t, k))

\* All the weights along a path of n labels.
PathWeight(n, first, move, last, p) == PrefixWeight(first, move, p, n) * last[p[n]]
WeightTable(n, L, first, move, last) ==
  [p \in Prefixes(L, n) |-> PathWeight(n, first, move, last, p)]

\* The paths that begin with the first t labels of q.
Extensions(n, L, q, t) == {p \in Prefixes(L, n) : \A s \in 1..t : p[s] = q[s]}

\* What the backward sums at position t stand for: whatever precedes it, the
\* paths that go on from there weigh what precedes it times the sum of its label.
Completes(b, n, L, first, move, last, t) ==
  /\ b \in [L -> Nat]
  /\ \A q \in Prefixes(L, t) :
       SumFunctionOnSet(WeightTable(n, L, first, move, last), Extensions(n, L, q, t))
         = PrefixWeight(first, move, q, t) * b[q[t]]

LEMMA PrefixesCounted ==
  ASSUME NEW n, NEW L, NEW first, NEW move, NEW last, Chain(n, L, first, move, last),
         NEW t \in 1..n
  PROVE  Counted(PrefixTable(L, first, move, t), Prefixes(L, t))
<1>1. IsFiniteSet(Prefixes(L, t))
  <2>1. t \in Nat
    BY DEF Chain
  <2> QED
    BY <2>1, FinitePaths DEF Chain, Prefixes
<1>2. ASSUME NEW q \in Prefixes(L, t) PROVE PrefixWeight(first, move, q, t) \in Nat
  <2>1. \A s \in 1..t : q[s] \in L
    BY DEF Prefixes
  <2> QED
    BY <2>1, PrefixType
<1> QED
  BY <1>1, <1>2 DEF Counted, PrefixTable

LEMMA WeightsCounted ==
  ASSUME NEW n, NEW L, NEW first, NEW move, NEW last, Chain(n, L, first, move, last)
  PROVE  Counted(WeightTable(n, L, first, move, last), Prefixes(L, n))
<1>1. IsFiniteSet(Prefixes(L, n))
  BY FinitePaths DEF Chain, Prefixes
<1>2. ASSUME NEW p \in Prefixes(L, n) PROVE PathWeight(n, first, move, last, p) \in Nat
  <2>1. n \in 1..n /\ \A s \in 1..n : p[s] \in L
    BY DEF Chain, Prefixes
  <2>2. PrefixWeight(first, move, p, n) \in Nat
    BY <2>1, PrefixType
  <2>3. last[p[n]] \in Nat
    BY <2>1 DEF Chain
  <2> QED
    BY <2>2, <2>3 DEF PathWeight
<1> QED
  BY <1>1, <1>2 DEF Counted, WeightTable

LEMMA ForwardFirst ==
  ASSUME NEW n, NEW L, NEW first, NEW move, NEW last, Chain(n, L, first, move, last), NEW k \in L
  PROVE  LeadingTo(L, first, move, 1, k) = first[k]
<1> DEFINE x == [s \in 1..1 |-> k]
           f == PrefixTable(L, first, move, 1)
<1>1. x \in Prefixes(L, 1) /\ x[1] = k
  BY DEF Prefixes
<1>2. PrefixesTo(L, 1, k) = {x}
  <2>1. \A q \in PrefixesTo(L, 1, k) : q = x
    BY DEF PrefixesTo, Prefixes
  <2>2. x \in PrefixesTo(L, 1, k)
    BY <1>1 DEF PrefixesTo
  <2> HIDE DEF x
  <2> QED
    BY <2>1, <2>2
<1>3. f[x] = first[k] /\ first[k] \in Nat
  <2>1. f[x] = PrefixWeight(first, move, x, 1)
    BY <1>1 DEF PrefixTable
  <2>2. PrefixWeight(first, move, x, 1) = first[k]
    <3> HIDE DEF x
    <3> QED
      BY <1>1, PrefixOne
  <2> QED
    BY <2>1, <2>2 DEF Chain
<1> HIDE DEF f, x
<1> QED
  BY <1>2, <1>3, SumSingleton DEF LeadingTo, f

\* Prefixes of u = t + 1 labels extend those of t by one.
LEMMA Extend ==
  ASSUME NEW L, NEW t \in Nat, NEW u \in Nat, u = t + 1, NEW r \in Prefixes(L, t), NEW k \in L
  PROVE  \E e \in Prefixes(L, u) :
           /\ e[u] = k /\ \A s \in 1..t : e[s] = r[s]
           /\ \A q \in Prefixes(L, u) : q[u] = k /\ (\A s \in 1..t : q[s] = r[s]) => q = e
<1> DEFINE e == [s \in 1..u |-> IF s = u THEN k ELSE r[s]]
<1>1. \A s \in 1..u : s # u => s \in 1..t
  OBVIOUS
<1>2. e \in Prefixes(L, u) /\ e[u] = k
  BY <1>1 DEF Prefixes
<1>3. \A s \in 1..t : e[s] = r[s]
  OBVIOUS
<1>4. ASSUME NEW q \in Prefixes(L, u), q[u] = k, \A s \in 1..t : q[s] = r[s]
      PROVE  q = e
  <2>1. \A s \in 1..u : q[s] = e[s]
    BY <1>1, <1>4
  <2> HIDE DEF e
  <2> QED
    BY <1>2, <2>1 DEF Prefixes
<1> HIDE DEF e
<1> QED
  BY <1>2, <1>3, <1>4

LEMMA ForwardNext ==
  ASSUME NEW n, NEW L, NEW first, NEW move, NEW last, Chain(n, L, first, move, last),
         NEW t \in 1..n, NEW u \in 1..n, u = t + 1, NEW next \in L,
         NEW g, \A prev \in L : g[prev] = LeadingTo(L, first, move, t, prev) * move[u][prev][next]
  PROVE  LeadingTo(L, first, move, u, next) = SumFunctionOnSet(g, L) /\ Counted(g, L)
<1> DEFINE f == PrefixTable(L, first, move, u)
           S == PrefixesTo(L, u, next)
           h == [q \in Prefixes(L, u) |-> q[t]]
           f0 == PrefixTable(L, first, move, t)
<1>1. t \in Nat /\ n \in Nat /\ u \in Nat /\ t \in 1..u /\ t \in 1..t
      /\ IsFiniteSet(L) /\ u \in 1..u /\ 1..t \subseteq 1..u /\ u \in 2..n
  BY DEF Chain
<1>2. Counted(f, S) /\ Counted(f0, Prefixes(L, t)) /\ S \in SUBSET Prefixes(L, u)
  <2>1. Counted(f, Prefixes(L, u))
    BY PrefixesCounted
  <2>2. Counted(f0, Prefixes(L, t))
    BY PrefixesCounted
  <2>3. S \in SUBSET Prefixes(L, u)
    BY DEF PrefixesTo
  <2> HIDE DEF f, S, f0
  <2> QED
    BY <2>1, <2>2, <2>3, CountedSubset
<1>3. \A q \in S : h[q] \in L
  BY <1>1 DEF PrefixesTo, Prefixes
<1>4. ASSUME NEW prev \in L
      PROVE  \E R \in SUBSET S : (\A q \in S : q \in R <=> h[q] = prev) /\ g[prev] = SumFunctionOnSet(f, R)
  <2> DEFINE A == {q \in S : h[q] = prev}
             I == PrefixesTo(L, t, prev)
             cut == [q \in Prefixes(L, u) |-> [s \in 1..t |-> q[s]]]
             c == move[u][prev][next]
             w == [r \in Prefixes(L, t) |-> c * f0[r]]
  <2>1. Counted(f, A) /\ Counted(f0, I) /\ IsFiniteSet(I) /\ c \in Nat
    <3>1. A \in SUBSET S /\ I \in SUBSET Prefixes(L, t)
      BY DEF PrefixesTo
    <3>2. Counted(f, A) /\ Counted(f0, I)
      <4> HIDE DEF A, I, f, S, f0
      <4> QED
        BY <1>2, <3>1, CountedSubset
    <3>3. c \in Nat
      <4>1. move[u] \in [L -> [L -> Nat]]
        BY <1>1 DEF Chain
      <4> QED
        BY <4>1
    <3> QED
      BY <3>2, <3>3 DEF Counted
  <2>2. \A q \in A : cut[q] \in I
    BY <1>1 DEF PrefixesTo, Prefixes
  <2>3. ASSUME NEW r \in I
        PROVE  \E R \in SUBSET A : (\A q \in A : q \in R <=> cut[q] = r) /\ w[r] = SumFunctionOnSet(f, R)
    <3>0. r \in Prefixes(L, t) /\ r[t] = prev
      BY DEF PrefixesTo
    <3>1. PICK e \in Prefixes(L, u) :
            /\ e[u] = next /\ \A s \in 1..t : e[s] = r[s]
            /\ \A q \in Prefixes(L, u) : q[u] = next /\ (\A s \in 1..t : q[s] = r[s]) => q = e
      <4> HIDE DEF f, S, h, f0, A, I, cut, c, w
      <4> QED
        BY <1>1, <3>0, Extend
    <3>2. cut[e] = r
      <4>1. r = [s \in 1..t |-> r[s]]
        BY <3>0 DEF Prefixes
      <4> QED
        BY <3>1, <4>1
    <3>3. e \in A
      BY <1>1, <3>0, <3>1 DEF PrefixesTo
    <3>4. ASSUME NEW q \in A, cut[q] = r PROVE q = e
      <4>1. q \in Prefixes(L, u) /\ q[u] = next
        BY DEF PrefixesTo
      <4>2. \A s \in 1..t : q[s] = r[s]
        BY <3>4, <4>1
      <4> QED
        BY <3>1, <4>1, <4>2
    <3>5. f[e] = w[r] /\ f[e] \in Nat
      <4>1. (\A s \in 1..u : e[s] \in L) /\ \A s \in 1..t : r[s] \in L
        BY <3>0 DEF Prefixes
      <4>2. PrefixWeight(first, move, e, u) = PrefixWeight(first, move, e, t) * move[u][e[t]][e[u]]
        <5>1. \A s \in 1..u : e[s] \in L
          BY <4>1
        <5> HIDE DEF f, S, h, f0, A, I, cut, c, w
        <5> QED
          BY <5>1, PrefixNext
      <4>3. PrefixWeight(first, move, r, t) = PrefixWeight(first, move, e, t)
        BY <3>1, <4>1, PrefixSame
      <4>4. e[t] = prev /\ e[u] = next
        BY <1>1, <3>0, <3>1
      <4>5. PrefixWeight(first, move, r, t) \in Nat
        BY <4>1, PrefixType
      <4>6. f[e] = f0[r] * c /\ f0[r] \in Nat
        BY <3>0, <4>2, <4>3, <4>4, <4>5 DEF PrefixTable
      <4>7. w[r] = c * f0[r]
        BY <3>0
      <4> HIDE DEF f, f0, w, c
      <4> QED
        BY <2>1, <4>6, <4>7
    <3>6. SumFunctionOnSet(f, {e}) = w[r]
      <4> HIDE DEF f, w
      <4> QED
        BY <3>5, SumSingleton
    <3>7. {e} \in SUBSET A /\ \A q \in A : q \in {e} <=> cut[q] = r
      <4> HIDE DEF A, cut
      <4> QED
        BY <3>2, <3>3, <3>4
    <3> HIDE DEF f, w, A, cut
    <3> QED
      BY <3>6, <3>7
  <2>4. g[prev] = SumFunctionOnSet(f0, I) * c
    BY DEF LeadingTo
  <2>5. SumFunctionOnSet(w, I) = c * SumFunctionOnSet(f0, I) /\ SumFunctionOnSet(f0, I) \in Nat
    <3>1. \A r \in I : w[r] = c * f0[r]
      BY DEF PrefixesTo
    <3> HIDE DEF w, f0, I, c
    <3> QED
      BY <2>1, <3>1, SumScale, SumType
  <2>6. SumFunctionOnSet(f, A) = SumFunctionOnSet(w, I)
    <3> HIDE DEF f, S, h, f0, A, I, cut, c, w
    <3> QED
      BY <2>1, <2>2, <2>3, SumFibres
  <2>7. A \in SUBSET S /\ \A q \in S : q \in A <=> h[q] = prev
    OBVIOUS
  <2> HIDE DEF f, f0, I, w, c, A, S, h
  <2>8. g[prev] = SumFunctionOnSet(f, A)
    BY <2>1, <2>4, <2>5, <2>6
  <2> QED
    BY <2>7, <2>8
<1>5. LeadingTo(L, first, move, u, next) = SumFunctionOnSet(f, S)
  BY DEF LeadingTo
<1> HIDE DEF f, S, h
<1> QED
  BY <1>1, <1>2, <1>3, <1>4, <1>5, SumFibres

\* The paths that have label k at position t.
Through(n, L, t, k) == {p \in Prefixes(L, n) : p[t] = k}

LEMMA BackwardLast ==
  ASSUME NEW n, NEW L, NEW first, NEW move, NEW last, Chain(n, L, first, move, last)
  PROVE  Completes(last, n, L, first, move, last, n)
<1> DEFINE f == WeightTable(n, L, first, move, last)
<1>1. last \in [L -> Nat]
  BY DEF Chain
<1>2. ASSUME NEW q \in Prefixes(L, n)
      PROVE  SumFunctionOnSet(f, Extensions(n, L, q, n)) = PrefixWeight(first, move, q, n) * last[q[n]]
  <2>1. Extensions(n, L, q, n) = {q}
    <3>1. q \in Extensions(n, L, q, n)
      BY DEF Extensions
    <3>2. ASSUME NEW p \in Extensions(n, L, q, n) PROVE p = q
      <4>1. p \in [1..n -> L] /\ q \in [1..n -> L] /\ \A s \in 1..n : p[s] = q[s]
        BY DEF Extensions, Prefixes
      <4>2. p = [s \in 1..n |-> p[s]] /\ q = [s \in 1..n |-> q[s]]
        BY <4>1
      <4>3. [s \in 1..n |-> p[s]] = [s \in 1..n |-> q[s]]
        BY <4>1
      <4> QED
        BY <4>2, <4>3
    <3> QED
      BY <3>1, <3>2
  <2>2. f[q] = PrefixWeight(first, move, q, n) * last[q[n]]
    BY DEF WeightTable, PathWeight
  <2>3. f[q] \in Nat
    BY WeightsCounted DEF Counted
  <2> HIDE DEF f
  <2> QED
    BY <2>1, <2>2, <2>3, SumSingleton
<1> QED
  BY <1>1, <1>2 DEF Completes

LEMMA Associative == ASSUME NEW a \in Nat, NEW b \in Nat, NEW c \in Nat PROVE (a * b) * c = a * (b * c)
OBVIOUS

LEMMA BackwardNext ==
  ASSUME NEW n, NEW L, NEW first, NEW move, NEW last, Chain(n, L, first, move, last),
         NEW t \in 1..n, NEW u \in 1..n, u = t + 1,
         NEW b, Completes(b, n, L, first, move, last, u),
         NEW b2 \in [L -> Nat],
         \A prev \in L : \E g : /\ \A next \in L : g[next] = move[u][prev][next] * b[next]
                                /\ b2[prev] = SumFunctionOnSet(g, L)
  PROVE  Completes(b2, n, L, first, move, last, t)
<1> DEFINE f == WeightTable(n, L, first, move, last)
<1>1. t \in Nat /\ n \in Nat /\ u \in Nat /\ t \in 1..u /\ t \in 1..t
      /\ IsFiniteSet(L) /\ u \in 1..u /\ 1..t \subseteq 1..u /\ u \in 2..n
      /\ \A s \in 1..u : s = u \/ s \in 1..t
  BY DEF Chain
<1>2. ASSUME NEW q \in Prefixes(L, t)
      PROVE  SumFunctionOnSet(f, Extensions(n, L, q, t)) = PrefixWeight(first, move, q, t) * b2[q[t]]
  <2> DEFINE S == Extensions(n, L, q, t)
             h == [p \in Prefixes(L, n) |-> p[u]]
             w == PrefixWeight(first, move, q, t)
  <2>1. q[t] \in L /\ \A s \in 1..t : q[s] \in L
    BY <1>1 DEF Prefixes
  <2>2. w \in Nat
    BY <2>1, PrefixType
  <2>3. PICK g : /\ \A next \in L : g[next] = move[u][q[t]][next] * b[next]
                 /\ b2[q[t]] = SumFunctionOnSet(g, L)
    BY <2>1
  <2> DEFINE G == [next \in L |-> w * g[next]]
  <2>4. Counted(f, S)
    <3>1. S \in SUBSET Prefixes(L, n)
      BY DEF Extensions
    <3> HIDE DEF S
    <3> QED
      BY <3>1, WeightsCounted, CountedSubset
  <2>5. \A p \in S : h[p] \in L
    BY <1>1 DEF Extensions, Prefixes
  <2>6. ASSUME NEW next \in L
        PROVE  \E R \in SUBSET S : (\A p \in S : p \in R <=> h[p] = next) /\ G[next] = SumFunctionOnSet(f, R)
    <3>1. PICK e \in Prefixes(L, u) :
            /\ e[u] = next /\ \A s \in 1..t : e[s] = q[s]
            /\ \A p \in Prefixes(L, u) : p[u] = next /\ (\A s \in 1..t : p[s] = q[s]) => p = e
      <4> HIDE DEF f, S, h, w, G
      <4> QED
        BY <1>1, Extend
    <3> DEFINE R == Extensions(n, L, e, u)
               c == move[u][q[t]][next]
    <3>2. R \in SUBSET S
      BY <1>1, <3>1 DEF Extensions
    <3>3. ASSUME NEW p \in S PROVE p \in R <=> h[p] = next
      <4>1. h[p] = p[u] /\ p \in Prefixes(L, n) /\ \A s \in 1..t : p[s] = q[s]
        BY DEF Extensions
      <4>2. p \in R <=> \A s \in 1..u : p[s] = e[s]
        BY <4>1 DEF Extensions
      <4> HIDE DEF R, S, h
      <4> QED
        BY <1>1, <3>1, <4>1, <4>2
    <3>4. SumFunctionOnSet(f, R) = PrefixWeight(first, move, e, u) * b[next]
      BY <3>1 DEF Completes
    <3>5. PrefixWeight(first, move, e, u) = w * c /\ c \in Nat
      <4>1. \A s \in 1..u : e[s] \in L
        BY DEF Prefixes
      <4>2. /\ PrefixWeight(first, move, e, u) = PrefixWeight(first, move, e, t) * move[u][e[t]][e[u]]
            /\ move[u][e[t]][e[u]] \in Nat
        <5> HIDE DEF f, S, h, w, G, R, c
        <5> QED
          BY <4>1, PrefixNext
      <4>3. PrefixWeight(first, move, q, t) = PrefixWeight(first, move, e, t)
        BY <2>1, <3>1, PrefixSame
      <4>4. e[t] = q[t] /\ e[u] = next
        BY <1>1, <3>1
      <4> QED
        BY <4>2, <4>3, <4>4
    <3>6. b[next] \in Nat
      BY DEF Completes
    <3>7. (w * c) * b[next] = w * (c * b[next])
      <4> HIDE DEF w, c
      <4> QED
        BY <2>2, <3>5, <3>6, Associative
    <3>8. G[next] = w * (c * b[next])
      BY <2>3
    <3> HIDE DEF f, S, h, w, G, R, c
    <3>9. G[next] = SumFunctionOnSet(f, R)
      BY <3>4, <3>5, <3>7, <3>8
    <3> QED
      BY <3>2, <3>3, <3>9
  <2>7. Counted(g, L)
    <3>1. ASSUME NEW next \in L PROVE g[next] \in Nat
      <4>1. move[u] \in [L -> [L -> Nat]]
        BY <1>1 DEF Chain
      <4>2. move[u][q[t]][next] \in Nat
        BY <2>1, <4>1
      <4>3. b[next] \in Nat
        BY DEF Completes
      <4> QED
        BY <2>3, <4>2, <4>3
    <3> QED
      BY <1>1, <3>1 DEF Counted
  <2>8. \A next \in L : G[next] = w * g[next]
    OBVIOUS
  <2> HIDE DEF f, S, h, w, G
  <2>9. SumFunctionOnSet(f, S) = SumFunctionOnSet(G, L)
    BY <1>1, <2>4, <2>5, <2>6, SumFibres
  <2>10. SumFunctionOnSet(G, L) = w * SumFunctionOnSet(g, L)
    BY <2>2, <2>7, <2>8, SumScale
  <2>11. SumFunctionOnSet(f, S) = w * b2[q[t]]
    BY <2>3, <2>9, <2>10
  <2> QED
    BY <2>11 DEF S, w
<1> QED
  BY <1>2 DEF Completes

\* What the forward sum leads up to and the backward sum goes on with, multiplied.
LEMMA Marginal ==
  ASSUME NEW n, NEW L, NEW first, NEW move, NEW last, Chain(n, L, first, move, last),
         NEW t \in 1..n, NEW b, Completes(b, n, L, first, move, last, t), NEW k \in L
  PROVE  SumFunctionOnSet(WeightTable(n, L, first, move, last), Through(n, L, t, k))
           = LeadingTo(L, first, move, t, k) * b[k]
<1> DEFINE f == WeightTable(n, L, first, move, last)
           S == Through(n, L, t, k)
           f0 == PrefixTable(L, first, move, t)
           I == PrefixesTo(L, t, k)
           cut == [p \in Prefixes(L, n) |-> [s \in 1..t |-> p[s]]]
           c == b[k]
           w == [q \in I |-> c * f0[q]]
<1>1. t \in Nat /\ n \in Nat /\ t \in 1..t /\ 1..t \subseteq 1..n /\ c \in Nat
  BY DEF Chain, Completes
<1>2. Counted(f, S)
  <2>1. S \in SUBSET Prefixes(L, n)
    BY DEF Through
  <2> HIDE DEF S
  <2> QED
    BY <2>1, WeightsCounted, CountedSubset
<1>3. Counted(f0, I)
  <2>1. I \in SUBSET Prefixes(L, t)
    BY DEF PrefixesTo
  <2>2. Counted(f0, Prefixes(L, t))
    BY PrefixesCounted
  <2> HIDE DEF I, f0
  <2> QED
    BY <2>1, <2>2, CountedSubset
<1>4. \A p \in S : cut[p] \in I
  BY <1>1 DEF Through, Prefixes, PrefixesTo
<1>5. ASSUME NEW q \in I
      PROVE  \E R \in SUBSET S : (\A p \in S : p \in R <=> cut[p] = q) /\ w[q] = SumFunctionOnSet(f, R)
  <2> DEFINE R == Extensions(n, L, q, t)
  <2>1. q \in Prefixes(L, t) /\ q[t] = k
    BY DEF PrefixesTo
  <2>2. R \in SUBSET S
    BY <1>1, <2>1 DEF Extensions, Through
  <2>3. ASSUME NEW p \in S PROVE p \in R <=> cut[p] = q
    <3>1. p \in Prefixes(L, n)
      BY DEF Through
    <3>2. q = [s \in 1..t |-> q[s]]
      BY <2>1 DEF Prefixes
    <3> QED
      BY <3>1, <3>2 DEF Extensions
  <2>4. SumFunctionOnSet(f, R) = PrefixWeight(first, move, q, t) * c
    BY <2>1 DEF Completes
  <2>5. f0[q] = PrefixWeight(first, move, q, t) /\ f0[q] \in Nat
    BY <1>3, <2>1 DEF PrefixTable, Counted
  <2>6. w[q] = c * f0[q]
    OBVIOUS
  <2> HIDE DEF f, S, f0, I, cut, c, w, R
  <2>7. w[q] = SumFunctionOnSet(f, R)
    BY <1>1, <2>4, <2>5, <2>6
  <2> QED
    BY <2>2, <2>3, <2>7
<1>6. LeadingTo(L, first, move, t, k) = SumFunctionOnSet(f0, I)
  BY DEF LeadingTo
<1>7. IsFiniteSet(I) /\ \A q \in I : w[q] = c * f0[q]
  BY <1>3 DEF Counted
<1> HIDE DEF f, S, f0, I, cut, c, w
<1>8. SumFunctionOnSet(f, S) = SumFunctionOnSet(w, I)
  BY <1>2, <1>4, <1>5, <1>7, SumFibres
<1>9. SumFunctionOnSet(w, I) = c * SumFunctionOnSet(f0, I) /\ SumFunctionOnSet(f0, I) \in Nat
  BY <1>1, <1>3, <1>7, SumScale, SumType
<1>10. SumFunctionOnSet(f, S) = LeadingTo(L, first, move, t, k) * c
  BY <1>1, <1>6, <1>8, <1>9
<1> QED
  BY <1>10 DEF f, S, c

\* Every path has one label at position t.
LEMMA TotalThrough ==
  ASSUME NEW n, NEW L, NEW first, NEW move, NEW last, Chain(n, L, first, move, last),
         NEW t \in 1..n, NEW g,
         \A k \in L : g[k] = SumFunctionOnSet(WeightTable(n, L, first, move, last), Through(n, L, t, k))
  PROVE  /\ SumFunctionOnSet(WeightTable(n, L, first, move, last), Prefixes(L, n)) = SumFunctionOnSet(g, L)
         /\ Counted(g, L)
<1> DEFINE f == WeightTable(n, L, first, move, last)
           S == Prefixes(L, n)
           h == [p \in S |-> p[t]]
<1>1. Counted(f, S) /\ IsFiniteSet(L)
  BY WeightsCounted DEF Chain
<1>2. \A p \in S : h[p] \in L
  BY DEF Prefixes
<1>3. ASSUME NEW k \in L
      PROVE  \E R \in SUBSET S : (\A p \in S : p \in R <=> h[p] = k) /\ g[k] = SumFunctionOnSet(f, R)
  <2> DEFINE R == Through(n, L, t, k)
  <2>1. R \in SUBSET S /\ \A p \in S : p \in R <=> h[p] = k
    BY DEF Through
  <2>2. g[k] = SumFunctionOnSet(f, R)
    OBVIOUS
  <2> HIDE DEF f, S, h, R
  <2> QED
    BY <2>1, <2>2
<1>4. SumFunctionOnSet(f, S) = SumFunctionOnSet(g, L) /\ Counted(g, L)
  <2> HIDE DEF f, S, h
  <2> QED
    BY <1>1, <1>2, <1>3, SumFibres
<1> QED
  BY <1>4

-----------------------------------------------------------------------------
\* q follows the backpointers.
Traced(from, q, t) == \A s \in 1..t : s < t => q[s] = from[s][q[s + 1]]

\* What Decode's scores and backpointers stand for at position t: no t labels
\* weigh more than the score of the last of them, and for every label the
\* backpointers lead to labels that weigh as much as its score.
Scored(best, from, L, first, move, t) ==
  /\ best \in [L -> Nat]
  /\ \A q \in Prefixes(L, t) : PrefixWeight(first, move, q, t) <= best[q[t]]
  /\ \A k \in L : \E q \in Prefixes(L, t) :
       q[t] = k /\ Traced(from, q, t) /\ PrefixWeight(first, move, q, t) = best[k]

LEMMA Monotonic ==
  ASSUME NEW a \in Nat, NEW b \in Nat, NEW c \in Nat, a <= b PROVE a * c <= b * c
<1>1. PICK d \in Nat : b = a + d
  <2>1. b - a \in Nat /\ b = a + (b - a)
    OBVIOUS
  <2> QED
    BY <2>1
<1>2. b * c = a * c + d * c
  BY <1>1
<1>3. d * c \in Nat /\ a * c \in Nat
  OBVIOUS
<1> QED
  BY <1>2, <1>3

LEMMA ScoredFirst ==
  ASSUME NEW n, NEW L, NEW first, NEW move, NEW last, Chain(n, L, first, move, last), NEW from
  PROVE  Scored(first, from, L, first, move, 1)
<1>1. first \in [L -> Nat]
  BY DEF Chain
<1>2. ASSUME NEW q \in Prefixes(L, 1) PROVE q[1] \in L /\ PrefixWeight(first, move, q, 1) = first[q[1]]
  <2>1. q[1] \in L
    BY DEF Prefixes
  <2> QED
    BY <2>1, PrefixOne
<1>3. ASSUME NEW k \in L
      PROVE  \E q \in Prefixes(L, 1) :
               q[1] = k /\ Traced(from, q, 1) /\ PrefixWeight(first, move, q, 1) = first[k]
  <2> DEFINE q == [s \in 1..1 |-> k]
  <2>1. q \in Prefixes(L, 1) /\ q[1] = k
    BY DEF Prefixes
  <2> HIDE DEF q
  <2>2. Traced(from, q, 1)
    BY DEF Traced
  <2> QED
    BY <1>2, <2>1, <2>2
<1>4. \A q \in Prefixes(L, 1) : PrefixWeight(first, move, q, 1) <= first[q[1]]
  <2> SUFFICES ASSUME NEW q \in Prefixes(L, 1)
               PROVE  PrefixWeight(first, move, q, 1) <= first[q[1]]
    OBVIOUS
  <2>1. first[q[1]] \in Nat
    BY <1>1, <1>2
  <2> QED
    BY <1>2, <2>1
<1> QED
  BY <1>1, <1>3, <1>4 DEF Scored

LEMMA ScoredNext ==
  ASSUME NEW n, NEW L, NEW first, NEW move, NEW last, Chain(n, L, first, move, last),
         NEW t \in 1..n, NEW u \in 1..n, u = t + 1,
         NEW best, NEW from, Scored(best, from, L, first, move, t),
         NEW from2, \A s \in 1..t : s < t => from2[s] = from[s],
         from2[t] \in [L -> L],
         NEW best2 \in [L -> Nat],
         \A next \in L : best2[next] = best[from2[t][next]] * move[u][from2[t][next]][next],
         \A next, prev \in L : best[prev] * move[u][prev][next] <= best2[next]
  PROVE  Scored(best2, from2, L, first, move, u)
<1>1. /\ t \in Nat /\ u \in Nat /\ t \in 1..u /\ t \in 1..t /\ u \in 1..u /\ 1..t \subseteq 1..u
      /\ \A s \in 1..u : s < u => s \in 1..t
      /\ \A s \in 1..t : s < t => s + 1 \in 1..t
  BY DEF Chain
<1>2. ASSUME NEW q \in Prefixes(L, u) PROVE PrefixWeight(first, move, q, u) <= best2[q[u]]
  <2> DEFINE r == [s \in 1..t |-> q[s]]
             a == PrefixWeight(first, move, r, t)
             b == best[q[t]]
             c == move[u][q[t]][q[u]]
  <2>1. \A s \in 1..u : q[s] \in L
    BY DEF Prefixes
  <2>2. r \in Prefixes(L, t) /\ r[t] = q[t] /\ (\A s \in 1..t : r[s] \in L /\ q[s] = r[s])
    BY <1>1, <2>1 DEF Prefixes
  <2>3. PrefixWeight(first, move, q, u) = PrefixWeight(first, move, q, t) * c /\ c \in Nat
    <3> HIDE DEF r, a, b
    <3> QED
      BY <2>1, PrefixNext
  <2>4. PrefixWeight(first, move, r, t) = PrefixWeight(first, move, q, t) /\ a \in Nat
    <3> HIDE DEF r, c, b
    <3>1. PrefixWeight(first, move, r, t) = PrefixWeight(first, move, q, t)
      BY <2>2, PrefixSame
    <3>2. PrefixWeight(first, move, r, t) \in Nat
      BY <2>2, PrefixType
    <3> QED
      BY <3>1, <3>2
  <2>5. a <= b /\ b \in Nat
    <3> HIDE DEF r, c
    <3> QED
      BY <1>1, <2>1, <2>2 DEF Scored
  <2>6. b * c <= best2[q[u]]
    BY <1>1, <2>1
  <2>7. best2[q[u]] \in Nat
    BY <1>1, <2>1
  <2> HIDE DEF r, a, b, c
  <2>8. a * c <= b * c /\ a * c \in Nat /\ b * c \in Nat
    BY <2>3, <2>4, <2>5, Monotonic
  <2>9. a * c <= best2[q[u]]
    BY <2>6, <2>7, <2>8
  <2> QED
    BY <2>3, <2>4, <2>9 DEF a
<1>3. ASSUME NEW k \in L
      PROVE  \E q \in Prefixes(L, u) :
               q[u] = k /\ Traced(from2, q, u) /\ PrefixWeight(first, move, q, u) = best2[k]
  <2> DEFINE prev == from2[t][k]
  <2>1. prev \in L
    OBVIOUS
  <2>2. PICK r \in Prefixes(L, t) :
          r[t] = prev /\ Traced(from, r, t) /\ PrefixWeight(first, move, r, t) = best[prev]
    BY <2>1 DEF Scored
  <2>3. PICK e \in Prefixes(L, u) : e[u] = k /\ \A s \in 1..t : e[s] = r[s]
    <3> HIDE DEF prev
    <3> QED
      BY <1>1, Extend
  <2>4. Traced(from2, e, u)
    <3> SUFFICES ASSUME NEW s \in 1..u, s < u PROVE e[s] = from2[s][e[s + 1]]
      BY DEF Traced
    <3>1. CASE s = t
      <4>1. e[t] = prev /\ e[s + 1] = k
        BY <1>1, <2>2, <2>3, <3>1
      <4> QED
        BY <3>1, <4>1
    <3>2. CASE s # t
      <4>1. s \in 1..t /\ s < t /\ s + 1 \in 1..t
        BY <1>1, <3>2
      <4>2. r[s] = from[s][r[s + 1]]
        BY <2>2, <4>1 DEF Traced
      <4> QED
        BY <2>3, <4>1, <4>2
    <3> QED
      BY <3>1, <3>2
  <2>5. PrefixWeight(first, move, e, u) = best2[k]
    <3>1. \A s \in 1..u : e[s] \in L
      BY DEF Prefixes
    <3>2. PrefixWeight(first, move, e, u) = PrefixWeight(first, move, e, t) * move[u][e[t]][e[u]]
      <4> HIDE DEF prev
      <4> QED
        BY <3>1, PrefixNext
    <3>3. PrefixWeight(first, move, e, t) = PrefixWeight(first, move, r, t)
      <4>1. \A s \in 1..t : e[s] \in L /\ r[s] = e[s]
        BY <1>1, <2>3, <3>1
      <4> HIDE DEF prev
      <4> QED
        BY <4>1, PrefixSame
    <3>4. e[t] = prev /\ e[u] = k
      BY <1>1, <2>2, <2>3
    <3>5. best2[k] = best[prev] * move[u][prev][k]
      OBVIOUS
    <3> QED
      BY <2>2, <3>2, <3>3, <3>4, <3>5
  <2> QED
    BY <2>3, <2>4, <2>5
<1> QED
  BY <1>2, <1>3 DEF Scored

\* The backpointers leave no choice but the last label.
LEMMA TracedOnce ==
  ASSUME NEW n \in Nat \ {0}, NEW L, NEW from, NEW p \in Prefixes(L, n), NEW q \in Prefixes(L, n),
         p[n] = q[n], Traced(from, p, n), Traced(from, q, n)
  PROVE  p = q
<1> DEFINE T == {m \in Nat : m < n => p[n - m] = q[n - m]}
<1>1. 0 \in T
  OBVIOUS
<1>2. ASSUME NEW m \in Nat, m \in T PROVE m + 1 \in T
  <2> SUFFICES ASSUME m + 1 < n PROVE p[n - (m + 1)] = q[n - (m + 1)]
    OBVIOUS
  <2> DEFINE s == n - (m + 1)
  <2>1. s \in 1..n /\ s < n /\ s + 1 = n - m /\ m < n
    OBVIOUS
  <2>2. p[s] = from[s][p[s + 1]] /\ q[s] = from[s][q[s + 1]]
    <3> HIDE DEF s
    <3> QED
      BY <2>1 DEF Traced
  <2>3. p[s + 1] = q[s + 1]
    BY <1>2, <2>1
  <2> QED
    BY <2>2, <2>3
<1>3. Nat \subseteq T
  <2> HIDE DEF T
  <2> QED
    BY <1>1, <1>2, Inductive
<1>4. ASSUME NEW s \in 1..n PROVE p[s] = q[s]
  <2>1. n - s \in T /\ n - s < n /\ n - (n - s) = s
    BY <1>3
  <2> QED
    BY <2>1
<1>5. p = [s \in 1..n |-> p[s]] /\ q = [s \in 1..n |-> q[s]]
  BY DEF Prefixes
<1>6. [s \in 1..n |-> p[s]] = [s \in 1..n |-> q[s]]
  BY <1>4
<1> QED
  BY <1>5, <1>6

LEMMA TracedIsBest ==
  ASSUME NEW n, NEW L, NEW first, NEW move, NEW last, Chain(n, L, first, move, last),
         NEW best, NEW from, Scored(best, from, L, first, move, n),
         NEW p \in Prefixes(L, n), Traced(from, p, n),
         \A k \in L : best[k] * last[k] <= best[p[n]] * last[p[n]],
         NEW q \in Prefixes(L, n)
  PROVE  PathWeight(n, first, move, last, q) <= PathWeight(n, first, move, last, p)
<1>1. n \in 1..n /\ n \in Nat \ {0}
  BY DEF Chain
<1>2. p[n] \in L /\ q[n] \in L
  BY <1>1 DEF Prefixes
<1>3. PICK r \in Prefixes(L, n) :
        r[n] = p[n] /\ Traced(from, r, n) /\ PrefixWeight(first, move, r, n) = best[p[n]]
  BY <1>2 DEF Scored
<1>4. r = p
  BY <1>1, <1>3, TracedOnce
<1>5. PathWeight(n, first, move, last, p) = best[p[n]] * last[p[n]]
  BY <1>3, <1>4 DEF PathWeight
<1> DEFINE a == PrefixWeight(first, move, q, n)
           b == best[q[n]]
           c == last[q[n]]
           d == best[p[n]] * last[p[n]]
<1>6. a <= b /\ b \in Nat /\ c \in Nat
  BY <1>2 DEF Scored, Chain
<1>7. a \in Nat
  <2>1. \A s \in 1..n : q[s] \in L
    BY DEF Prefixes
  <2> QED
    BY <1>1, <2>1, PrefixType
<1>8. d \in Nat
  <2>1. best[p[n]] \in Nat /\ last[p[n]] \in Nat
    BY <1>2 DEF Scored, Chain
  <2> QED
    BY <2>1
<1>9. b * c <= d
  BY <1>2
<1>10. PathWeight(n, first, move, last, q) = a * c
  BY DEF PathWeight
<1> HIDE DEF a, b, c, d
<1>11. a * c <= b * c /\ a * c \in Nat /\ b * c \in Nat
  BY <1>6, <1>7, Monotonic
<1>12. a * c <= d
  BY <1>8, <1>9, <1>11
<1> QED
  BY <1>5, <1>10, <1>12 DEF d

\* A list of weights has a first best.
LEMMA BestExists ==
  ASSUME NEW n \in Nat \ {0}, NEW w, \A k \in 1..n : w[k] \in Nat
  PROVE  \E k \in 1..n : (\A j \in 1..n : w[j] <= w[k]) /\ \A j \in 1..(k - 1) : w[j] # w[k]
<1> DEFINE T == {m \in Nat : m + 1 <= n => \E k \in 1..(m + 1) : \A j \in 1..(m + 1) : w[j] <= w[k]}
<1>1. 0 \in T
  OBVIOUS
<1>2. ASSUME NEW m \in Nat, m \in T PROVE m + 1 \in T
  <2> DEFINE l == (m + 1) + 1
  <2> SUFFICES ASSUME l <= n PROVE \E k \in 1..l : \A j \in 1..l : w[j] <= w[k]
    OBVIOUS
  <2>1. PICK k \in 1..(m + 1) : \A j \in 1..(m + 1) : w[j] <= w[k]
    BY <1>2
  <2>2. l \in 1..n /\ k \in 1..n /\ l \in 1..l /\ k \in 1..l /\ \A j \in 1..l : j \in 1..n /\ (j = l \/ j \in 1..(m + 1))
    OBVIOUS
  <2>3. w[l] \in Nat /\ w[k] \in Nat /\ \A j \in 1..l : w[j] \in Nat
    BY <2>2
  <2> HIDE DEF l
  <2>4. CASE w[l] <= w[k]
    BY <2>1, <2>2, <2>4
  <2>5. CASE ~ (w[l] <= w[k])
    <3>1. \A j \in 1..l : w[j] <= w[l]
      <4> SUFFICES ASSUME NEW j \in 1..l PROVE w[j] <= w[l]
        OBVIOUS
      <4>1. j = l \/ w[j] <= w[k]
        BY <2>1, <2>2
      <4>2. w[j] \in Nat
        BY <2>3
      <4> QED
        BY <2>3, <2>5, <4>1, <4>2
    <3> QED
      BY <2>2, <3>1
  <2> QED
    BY <2>4, <2>5
<1>3. Nat \subseteq T
  <2> HIDE DEF T
  <2> QED
    BY <1>1, <1>2, Inductive
<1>4. PICK k0 \in 1..n : \A j \in 1..n : w[j] <= w[k0]
  <2>1. n - 1 \in Nat /\ (n - 1) + 1 = n
    OBVIOUS
  <2> QED
    BY <1>3, <2>1
<1> DEFINE B == {k \in 1..n : \A j \in 1..n : w[j] <= w[k]}
<1>5. k0 \in B /\ B \in SUBSET Nat
  BY <1>4
<1>6. PICK k \in B : \A y \in B : k <= y
  <2> HIDE DEF B
  <2> QED
    BY <1>5, LeastNatural
<1>7. ASSUME NEW j \in 1..(k - 1) PROVE w[j] # w[k]
  <2>1. j \in 1..n /\ j < k
    BY <1>6
  <2>2. j \notin B
    BY <1>5, <1>6, <2>1
  <2>3. \A i \in 1..n : w[i] <= w[k]
    OBVIOUS
  <2> SUFFICES ASSUME w[j] = w[k] PROVE FALSE
    OBVIOUS
  <2>4. \A i \in 1..n : w[i] <= w[j]
    BY <2>3
  <2> QED
    BY <2>1, <2>2, <2>4
<1> QED
  BY <1>6, <1>7

-----------------------------------------------------------------------------
(*****************************************************************************)
(* The path and the spans cut from it.                                       *)
(*****************************************************************************)
\* How far each phase has come.
Progress ==
  /\ phase \in {"clean", "infer", "decode", "failed"} => path = <<>>
  /\ phase \notin {"cut", "report", "answered"} => spans = <<>>
  /\ phase \in {"clean", "infer"} => back = <<>>
  /\ phase = "decode" => Len(back) < Masked
  /\ phase = "trace" => Len(back) = Masked - 1 /\ Len(path) >= 1
  /\ phase \in {"forward", "backward", "cut", "report", "answered"} => Len(path) = Masked
  /\ phase \in {"report", "answered"} => Cut = Masked

\* In the default mode no span could have been longer.
RunsAreLongest ==
  ~model.strict =>
    \A s \in DOMAIN spans :
      spans[s].end < Len(path) => TagForSpan(TagAt(spans[s].end + 1)) # spans[s].tag

IInv ==
  /\ TypeOK /\ Progress
  /\ SpansTile /\ StrictSpansAreEntities /\ NonStrictSpansAreRuns /\ RunsAreLongest

-----------------------------------------------------------------------------
\* A run ends where the next position is not of its kind, or at the end.
LEMMA RunEnds ==
  ASSUME path \in Seq(LabelIds), NEW i \in 0..Len(path), NEW S \in SUBSET Positions
  PROVE  /\ RunEnd(i, S) \in i..Len(path)
         /\ (i + 1)..RunEnd(i, S) \subseteq S
         /\ RunEnd(i, S) + 1 \notin S
<1> DEFINE T == {e \in i..Len(path) : e + 1 \notin S}
<1>1. Len(path) \in Nat
  OBVIOUS
<1>2. Len(path) \in T
  BY <1>1 DEF Positions
<1>3. T \in SUBSET Nat
  BY <1>1
<1> HIDE DEF T
<1>4. PICK m \in T : \A y \in T : m <= y
  BY <1>2, <1>3, LeastNatural
<1>5. m \in i..Len(path) /\ m + 1 \notin S
  BY <1>4 DEF T
<1>6. ASSUME NEW p \in (i + 1)..m PROVE p \in S
  <2>1. p - 1 \in i..Len(path) /\ p - 1 < m /\ (p - 1) + 1 = p
    BY <1>1, <1>5
  <2>2. p - 1 \notin T
    BY <1>4, <2>1, <1>3, <1>5
  <2> QED
    BY <2>1, <2>2 DEF T
<1>7. \E e \in i..Len(path) : (i + 1)..e \subseteq S /\ e + 1 \notin S
  BY <1>5, <1>6
<1> QED
  BY <1>7 DEF RunEnd

\* What the types say of the masked length and the labels.
LEMMA Sizes ==
  ASSUME TypeOK
  PROVE  /\ Masked \in Nat
         /\ Len(model.labels) \in Nat /\ 1 \in LabelIds
         /\ model.strict \in BOOLEAN
         /\ \A k \in LabelIds : model.labels[k] \in Label
         /\ Len(path) \in Nat /\ Positions = DOMAIN path
         /\ \A p \in Positions : path[p] \in LabelIds /\ TagAt(p) \in Label
<1>1. model \in Models /\ text \in Texts /\ path \in Seq(LabelIds)
  BY DEF TypeOK
<1>2. /\ text.cleaned \in Nat /\ model.maxLength \in Nat
      /\ model.labels \in Seq(Label) /\ model.labels # <<>> /\ model.strict \in BOOLEAN
  BY <1>1, TaggingAssumption
<1>3. Len(model.labels) \in Nat /\ Len(model.labels) # 0
  BY <1>2
<1> QED
  BY <1>1, <1>2, <1>3 DEF Masked, LabelIds, Positions, TagAt

LEMMA FirstBestIsLabel ==
  ASSUME TypeOK, NEW weights PROVE FirstBest(weights) \in LabelIds
BY Sizes DEF FirstBest

LEMMA TagsOfLabels ==
  ASSUME NEW label \in Label
  PROVE  TagForSpan(label) \in Tags /\ label.tag \in Tags /\ label.bio \in {Before, Inside, Outside}
BY TaggingAssumption DEF Label, TagForSpan

-----------------------------------------------------------------------------
\* What the loops promise of the span they cut next.
StrictPart(span) ==
  /\ span.tag # Other =>
       LET insideOf == {p \in Positions : TagAt(p).bio = Inside /\ TagAt(p).tag = span.tag}
       IN /\ TagAt(span.start + 1).bio = Before /\ TagAt(span.start + 1).tag = span.tag
          /\ Held(span) \ {span.start + 1} \subseteq insideOf
          /\ span.end + 1 \notin insideOf
  /\ \A p \in Held(span) : TagAt(p).bio = Before /\ TagAt(p).tag # Other =>
       span.start = p - 1 /\ span.tag = TagAt(p).tag

RunPart(span) ==
  /\ \A p \in Held(span) : TagForSpan(TagAt(p)) = span.tag
  /\ span.end < Len(path) => TagForSpan(TagAt(span.end + 1)) # span.tag

IsNext(span, i) ==
  /\ span \in [start: Nat, end: 0..Len(path), tag: Tags]
  /\ span.start = i /\ i < span.end

LEMMA NonStrictSpanCut ==
  ASSUME TypeOK, NEW i \in 0..Len(path), i < Len(path)
  PROVE  IsNext(NonStrictSpan(i), i) /\ RunPart(NonStrictSpan(i))
<1> DEFINE tag == TagForSpan(TagAt(i + 1))
           S == {p \in Positions : TagForSpan(TagAt(p)) = tag}
           e == RunEnd(i, S)
<1>1. Len(path) \in Nat /\ i + 1 \in Positions
  BY Sizes DEF Positions
<1>2. e \in i..Len(path) /\ (i + 1)..e \subseteq S /\ e + 1 \notin S
  <2>1. S \in SUBSET Positions
    OBVIOUS
  <2> HIDE DEF S
  <2> QED
    BY RunEnds, <2>1 DEF TypeOK
<1>3. i + 1 \in S /\ tag \in Tags
  BY <1>1, Sizes, TagsOfLabels
<1>4. e # i
  BY <1>2, <1>3
<1>5. e < Len(path) => e + 1 \in Positions
  BY <1>1, <1>2 DEF Positions
<1>6. NonStrictSpan(i) = [start |-> i, end |-> e, tag |-> tag]
  BY DEF NonStrictSpan, Span
<1>7. e < Len(path) => TagForSpan(TagAt(e + 1)) # tag
  BY <1>2, <1>5
<1>8. \A p \in (i + 1)..e : TagForSpan(TagAt(p)) = tag
  BY <1>2
<1> HIDE DEF e, S, tag
<1> QED
  BY <1>1, <1>2, <1>3, <1>4, <1>6, <1>7, <1>8 DEF IsNext, RunPart, Held

LEMMA StrictSpanCut ==
  ASSUME TypeOK, NEW i \in 0..Len(path), i < Len(path)
  PROVE  IsNext(StrictSpan(i), i) /\ StrictPart(StrictSpan(i))
<1> DEFINE label == TagAt(i + 1)
           others == {p \in Positions : IsOther(TagAt(p))}
           orphans == {p \in Positions : TagAt(p).bio \notin {Before, Outside}}
           insides == {p \in Positions : TagAt(p).bio = Inside /\ TagAt(p).tag = label.tag}
<1>1. /\ Len(path) \in Nat /\ i \in Nat /\ i + 1 \in Positions /\ i + 1 \in 0..Len(path)
      /\ path \in Seq(LabelIds)
  BY Sizes DEF Positions, TypeOK
<1>2. label.tag \in Tags /\ Other \in Tags
  BY <1>1, Sizes, TagsOfLabels, TaggingAssumption
<1>3. CASE IsOther(label)
  <2> DEFINE e == RunEnd(i, others)
  <2>1. StrictSpan(i) = [start |-> i, end |-> e, tag |-> Other]
    BY <1>3 DEF StrictSpan, Span
  <2>2. e \in i..Len(path) /\ (i + 1)..e \subseteq others /\ e + 1 \notin others
    <3>1. others \in SUBSET Positions
      OBVIOUS
    <3> HIDE DEF others
    <3> QED
      BY RunEnds, <3>1, <1>1
  <2>3. e # i
    BY <1>1, <1>3, <2>2
  <2>4. \A p \in (i + 1)..e : ~ (TagAt(p).bio = Before /\ TagAt(p).tag # Other)
    BY <2>2 DEF IsOther, Before, Outside
  <2> HIDE DEF e, others
  <2> QED
    BY <1>1, <1>2, <2>1, <2>2, <2>3, <2>4 DEF IsNext, StrictPart, Held
<1>4. CASE ~ IsOther(label) /\ label.bio # Before
  <2> DEFINE e == RunEnd(i, orphans)
  <2>1. StrictSpan(i) = [start |-> i, end |-> e, tag |-> Other]
    BY <1>4 DEF StrictSpan, Span
  <2>2. e \in i..Len(path) /\ (i + 1)..e \subseteq orphans /\ e + 1 \notin orphans
    <3>1. orphans \in SUBSET Positions
      OBVIOUS
    <3> HIDE DEF orphans
    <3> QED
      BY RunEnds, <3>1, <1>1
  <2>3. e # i
    BY <1>1, <1>4, <2>2 DEF IsOther
  <2>4. \A p \in (i + 1)..e : TagAt(p).bio # Before
    BY <2>2
  <2> HIDE DEF e, orphans
  <2> QED
    BY <1>1, <1>2, <2>1, <2>2, <2>3, <2>4 DEF IsNext, StrictPart, Held
<1>5. CASE ~ IsOther(label) /\ label.bio = Before
  <2> DEFINE e == RunEnd(i + 1, insides)
  <2>1. StrictSpan(i) = [start |-> i, end |-> e, tag |-> label.tag]
    BY <1>5 DEF StrictSpan, Span, EntityEnd
  <2>2. e \in (i + 1)..Len(path) /\ ((i + 1) + 1)..e \subseteq insides /\ e + 1 \notin insides
    <3>1. insides \in SUBSET Positions
      OBVIOUS
    <3> HIDE DEF insides
    <3> QED
      BY RunEnds, <3>1, <1>1
  <2>3. \A p \in (i + 1)..e : p # i + 1 => p \in insides /\ TagAt(p).bio # Before
    BY <1>1, <2>2 DEF Inside, Before
  <2>4. IsNext(StrictSpan(i), i)
    <3> HIDE DEF e
    <3> QED
      BY <1>1, <1>2, <2>1, <2>2 DEF IsNext
  <2>5. StrictPart(StrictSpan(i))
    <3>1. Held(StrictSpan(i)) = (i + 1)..e /\ StrictSpan(i).start = i
      BY <2>1 DEF Held
    <3>2. StrictSpan(i).tag = label.tag /\ StrictSpan(i).end = e
      BY <2>1
    <3> HIDE DEF e
    <3> QED
      BY <1>1, <1>5, <2>2, <2>3, <3>1, <3>2 DEF StrictPart
  <2> QED
    BY <2>4, <2>5
<1> QED
  BY <1>3, <1>4, <1>5

-----------------------------------------------------------------------------
\* Until spans are cut there is nothing to say of them.
LEMMA NothingCut ==
  ASSUME spans = <<>>, phase # "answered"
  PROVE  SpansTile /\ StrictSpansAreEntities /\ NonStrictSpansAreRuns /\ RunsAreLongest
BY DEF SpansTile, StrictSpansAreEntities, NonStrictSpansAreRuns, RunsAreLongest, Cut

LEMMA InitInv == Init => IInv
<1> SUFFICES ASSUME Init PROVE IInv
  OBVIOUS
<1>1. TypeOK
  <2>1. Masked \in Nat /\ Len(path) = 0
    BY TaggingAssumption DEF Init, Masked
  <2> QED
    BY <2>1 DEF Init, TypeOK, Phases
<1>2. Progress
  BY DEF Init, Progress
<1> QED
  BY <1>1, <1>2, NothingCut DEF Init, IInv

\* A step that leaves the path and the spans as they are keeps what is said of them.
LEMMA SpansUntouched ==
  ASSUME IInv, UNCHANGED <<model, text, path, spans>>,
         phase' = "answered" => Cut = Masked
  PROVE  SpansTile' /\ StrictSpansAreEntities' /\ NonStrictSpansAreRuns' /\ RunsAreLongest'
<1>1. Positions' = Positions /\ Cut' = Cut /\ Masked' = Masked
  BY DEF Positions, Cut, Masked
<1>2. \A p : TagAt(p)' = TagAt(p)
  BY DEF TagAt
<1> QED
  BY <1>1, <1>2 DEF IInv, SpansTile, StrictSpansAreEntities, NonStrictSpansAreRuns, RunsAreLongest

\* The steps before decoding, and those that fail.
LEMMA EarlyStepKeeps ==
  ASSUME IInv, CleanSample \/ RejectLong \/ RunEngine \/ EngineError PROVE IInv'
<1>1. /\ UNCHANGED <<model, text, path, back, spans>> /\ Masked' = Masked
      /\ phase \in {"clean", "infer"} /\ phase' # "answered"
  BY DEF CleanSample, RejectLong, RunEngine, EngineError, Masked
<1>2. path = <<>> /\ spans = <<>> /\ back = <<>> /\ Len(path) = 0 /\ Len(back) = 0 /\ Cut = 0
  BY <1>1 DEF IInv, Progress, Cut
<1>3. Cut' = Cut
  BY <1>1 DEF Cut
<1>4. TypeOK'
  <2>1. phase' \in Phases
    BY DEF CleanSample, RejectLong, RunEngine, EngineError, Phases
  <2> QED
    BY <1>1, <2>1 DEF IInv, TypeOK, LabelIds
<1>5. Masked \in Nat
  BY Sizes DEF IInv
<1>6. Progress'
  BY <1>1, <1>2, <1>3, <1>5
  DEF Progress, CleanSample, RejectLong, RunEngine, EngineError
<1> QED
  BY <1>1, <1>4, <1>6, SpansUntouched DEF IInv

LEMMA PreviousIsLabels == ASSUME TypeOK PROVE Previous \in [LabelIds -> LabelIds]
BY FirstBestIsLabel DEF Previous

LEMMA CutInText == ASSUME TypeOK PROVE Cut \in 0..Len(path) /\ Len(path) \in Nat
<1> DEFINE Spans == [start: Nat, end: 0..Len(path), tag: Tags]
<1>1. spans \in Seq(Spans) /\ Len(path) \in Nat
  BY Sizes DEF TypeOK
<1>2. CASE spans = <<>>
  BY <1>1, <1>2 DEF Cut
<1>3. CASE spans # <<>>
  <2>1. spans[Len(spans)] \in Spans
    <3> HIDE DEF Spans
    <3> QED
      BY <1>1, <1>3
  <2> QED
    BY <1>1, <1>3, <2>1 DEF Cut
<1> QED
  BY <1>2, <1>3

\* Decoding forward: one list of backpointers for each position but the first.
LEMMA DecodeForwardKeeps ==
  ASSUME IInv, DecodeFirst \/ DecodeNext \/ DecodeLast PROVE IInv'
<1>1. /\ UNCHANGED <<model, text, spans>> /\ Masked' = Masked /\ LabelIds' = LabelIds
      /\ phase = "decode" /\ phase' \in {"decode", "trace"}
  BY DEF DecodeFirst, DecodeNext, DecodeLast, Masked, LabelIds
<1>2. /\ path = <<>> /\ spans = <<>> /\ Len(path) = 0 /\ Len(back) < Masked
      /\ Masked \in Nat /\ back \in Seq([LabelIds -> LabelIds]) /\ Len(back) \in Nat
  BY <1>1, Sizes DEF IInv, Progress, TypeOK
<1>3. CASE DecodeFirst \/ DecodeNext
  <2>1. UNCHANGED <<path, phase>>
    BY <1>3 DEF DecodeFirst, DecodeNext
  <2>2. back' \in Seq([LabelIds -> LabelIds]) /\ Len(back') < Masked
    BY <1>2, <1>3, PreviousIsLabels DEF DecodeFirst, DecodeNext, IInv
  <2>3. TypeOK'
    BY <1>1, <1>2, <2>1, <2>2 DEF IInv, TypeOK
  <2>4. Progress'
    BY <1>1, <1>2, <2>1, <2>2 DEF Progress
  <2> QED
    BY <1>1, <1>2, <2>1, <2>3, <2>4, SpansUntouched DEF IInv
<1>4. CASE DecodeLast
  <2>1. UNCHANGED back /\ phase' = "trace" /\ Len(back) = Masked - 1
    BY <1>2, <1>4 DEF DecodeLast
  <2>2. path' \in Seq(LabelIds) /\ Len(path') = 1
    <3>1. LastLabel \in LabelIds
      BY FirstBestIsLabel DEF IInv, LastLabel
    <3> QED
      BY <1>4, <3>1 DEF DecodeLast
  <2>3. TypeOK'
    BY <1>1, <1>2, <2>1, <2>2 DEF IInv, TypeOK, Phases
  <2>4. Progress'
    BY <1>1, <1>2, <2>1, <2>2 DEF Progress
  <2>5. (SpansTile /\ StrictSpansAreEntities /\ NonStrictSpansAreRuns /\ RunsAreLongest)'
    <3>1. spans' = <<>> /\ phase' # "answered"
      BY <1>1, <1>2, <2>1
    <3> QED
      BY <3>1 DEF SpansTile, StrictSpansAreEntities, NonStrictSpansAreRuns, RunsAreLongest, Cut
  <2> QED
    BY <2>3, <2>4, <2>5 DEF IInv
<1> QED
  BY <1>3, <1>4

\* Tracing back: each backpointer in hand leads to a label.
LEMMA TraceBackKeeps == ASSUME IInv, TraceBack PROVE IInv'
<1>1. /\ UNCHANGED <<model, text, phase, back, spans>> /\ Masked' = Masked /\ LabelIds' = LabelIds
      /\ phase = "trace"
  BY DEF TraceBack, Masked, LabelIds
<1>2. /\ path \in Seq(LabelIds) /\ Len(path) \in 1..(Masked - 1) /\ spans = <<>>
      /\ Masked \in Nat /\ back \in Seq([LabelIds -> LabelIds]) /\ Len(back) = Masked - 1
  BY <1>1, Sizes DEF IInv, Progress, TypeOK, TraceBack
<1>3. back[Masked - Len(path)][Head(path)] \in LabelIds
  <2>1. Masked - Len(path) \in 1..Len(back) /\ Head(path) \in LabelIds
    BY <1>2
  <2> QED
    BY <1>2, <2>1
<1>4. path' \in Seq(LabelIds) /\ Len(path') = Len(path) + 1
  BY <1>2, <1>3 DEF TraceBack
<1>5. TypeOK'
  BY <1>1, <1>2, <1>4 DEF IInv, TypeOK
<1>6. Progress'
  BY <1>1, <1>2, <1>4 DEF Progress
<1>7. (SpansTile /\ StrictSpansAreEntities /\ NonStrictSpansAreRuns /\ RunsAreLongest)'
  <2>1. spans' = <<>> /\ phase' # "answered"
    BY <1>1, <1>2
  <2> QED
    BY <2>1 DEF SpansTile, StrictSpansAreEntities, NonStrictSpansAreRuns, RunsAreLongest, Cut
<1> QED
  BY <1>5, <1>6, <1>7 DEF IInv

\* The passes for the marginals, and the steps that only go on to the next phase.
LEMMA PassKeeps ==
  ASSUME IInv, DecodeDone \/ MarginalProbabilities \/ CutDone \/ Report \/ Rest PROVE IInv'
<1>1. /\ UNCHANGED <<model, text, path, back, spans>> /\ Masked' = Masked /\ LabelIds' = LabelIds
      /\ Cut' = Cut
  BY DEF DecodeDone, MarginalProbabilities, Forward, Backward, Marginals, CutDone, Report, Rest,
         vars, Masked, LabelIds, Cut
<1>2. phase' \in Phases
  BY DEF DecodeDone, MarginalProbabilities, Forward, Backward, Marginals, CutDone, Report, Rest,
         vars, Phases, IInv, TypeOK
<1>3. TypeOK'
  BY <1>1, <1>2 DEF IInv, TypeOK
<1>4. CASE DecodeDone \/ MarginalProbabilities
  <2>1. /\ phase \in {"trace", "forward", "backward"}
        /\ phase' \in {"forward", "backward", "cut"} /\ Len(path) = Masked
    BY <1>4 DEF DecodeDone, MarginalProbabilities, Forward, Backward, Marginals, IInv, Progress
  <2>2. Progress'
    BY <1>1, <2>1 DEF IInv, Progress
  <2> QED
    BY <1>1, <1>3, <2>1, <2>2, SpansUntouched DEF IInv
<1>5. CASE CutDone
  <2>1. phase = "cut" /\ phase' = "report" /\ Len(path) = Masked /\ Cut >= Len(path)
    BY <1>5 DEF CutDone, IInv, Progress
  <2>2. Cut = Masked
    BY <2>1, CutInText DEF IInv
  <2>3. Progress'
    BY <1>1, <2>1, <2>2 DEF IInv, Progress
  <2> QED
    BY <1>1, <1>3, <2>1, <2>3, SpansUntouched DEF IInv
<1>6. CASE Report
  <2>1. phase = "report" /\ phase' = "answered" /\ Len(path) = Masked /\ Cut = Masked
    BY <1>6 DEF Report, IInv, Progress
  <2>2. Progress'
    BY <1>1, <2>1 DEF IInv, Progress
  <2> QED
    BY <1>1, <1>3, <2>1, <2>2, SpansUntouched DEF IInv
<1>7. CASE Rest
  <2>1. phase' = phase
    BY <1>7 DEF Rest, vars
  <2>2. Progress'
    BY <1>1, <2>1 DEF IInv, Progress
  <2>3. phase' = "answered" => Cut = Masked
    BY <2>1 DEF IInv, Progress
  <2> QED
    BY <1>1, <1>3, <2>2, <2>3, SpansUntouched DEF IInv
<1> QED
  BY <1>4, <1>5, <1>6, <1>7

\* Cutting a span: it joins the last one and keeps the promises of its mode.
LEMMA CutSpanKeeps == ASSUME IInv, CutSpan PROVE IInv'
<1> DEFINE span == NextSpan(Cut)
           Spans == [start: Nat, end: 0..Len(path), tag: Tags]
<1>1. /\ UNCHANGED <<model, text, phase, path, back>> /\ Masked' = Masked /\ LabelIds' = LabelIds
      /\ phase = "cut" /\ spans' = Append(spans, span) /\ Positions' = Positions
  BY DEF CutSpan, Masked, LabelIds, Positions
<1>2. \A p : TagAt(p)' = TagAt(p)
  BY <1>1 DEF TagAt
<1>3. spans \in Seq(Spans) /\ Len(path) \in Nat /\ Cut \in 0..Len(path) /\ Cut < Len(path)
  <2>1. spans \in Seq(Spans) /\ Len(path) \in Nat
    BY Sizes DEF IInv, TypeOK
  <2> QED
    BY <2>1, CutInText DEF IInv, CutSpan
<1>4. /\ IsNext(span, Cut)
      /\ model.strict => StrictPart(span)
      /\ ~ model.strict => RunPart(span)
  BY <1>3, StrictSpanCut, NonStrictSpanCut DEF IInv, NextSpan
<1> HIDE DEF span
<1>5. span \in Spans /\ span.start = Cut /\ Cut < span.end
  BY <1>4 DEF IsNext
<1> HIDE DEF Spans
<1>6. /\ spans' \in Seq(Spans) /\ Len(spans') = Len(spans) + 1 /\ Len(spans) \in Nat
      /\ spans'[Len(spans) + 1] = span
      /\ \A s \in 1..Len(spans) : spans'[s] = spans[s]
      /\ DOMAIN spans' = 1..(Len(spans) + 1) /\ DOMAIN spans = 1..Len(spans)
  BY <1>1, <1>3, <1>5
<1>7. Cut' = span.end /\ span.end \in 0..Len(path)
  <2>1. spans' # <<>>
    BY <1>6
  <2> QED
    BY <1>5, <1>6, <2>1 DEF Cut, Spans
<1>8. TypeOK'
  BY <1>1, <1>6 DEF IInv, TypeOK, Spans
<1>9. Progress'
  BY <1>1 DEF IInv, Progress
<1>10. SpansTile'
  <2>1. ASSUME NEW s \in DOMAIN spans'
        PROVE  /\ spans'[s].start = IF s = 1 THEN 0 ELSE spans'[s - 1].end
               /\ spans'[s].start < spans'[s].end
    <3>1. CASE s \in DOMAIN spans
      <4>1. spans'[s] = spans[s] /\ (s # 1 => spans'[s - 1] = spans[s - 1])
        BY <1>6, <3>1
      <4> QED
        BY <3>1, <4>1 DEF IInv, SpansTile
    <3>2. CASE s = Len(spans) + 1
      <4>1. s # 1 => spans'[s - 1] = spans[Len(spans)] /\ Cut = spans[Len(spans)].end
        BY <1>6, <3>2 DEF Cut
      <4>2. s = 1 => Cut = 0
        BY <1>3, <1>6, <3>2 DEF Cut
      <4> QED
        BY <1>5, <1>6, <3>2, <4>1, <4>2
    <3> QED
      BY <1>6, <3>1, <3>2
  <2> QED
    BY <1>1, <2>1 DEF SpansTile
<1>11. StrictSpansAreEntities'
  <2> SUFFICES ASSUME model.strict PROVE StrictSpansAreEntities'
    BY <1>1 DEF StrictSpansAreEntities
  <2> DEFINE Good(x) ==
        x.tag # Other =>
          LET insideOf == {p \in Positions : TagAt(p).bio = Inside /\ TagAt(p).tag = x.tag}
          IN /\ TagAt(x.start + 1).bio = Before /\ TagAt(x.start + 1).tag = x.tag
             /\ Held(x) \ {x.start + 1} \subseteq insideOf
             /\ x.end + 1 \notin insideOf
  <2>1. \A s \in DOMAIN spans : Good(spans[s])
    BY DEF IInv, StrictSpansAreEntities
  <2>2. Good(span)
    BY <1>4 DEF StrictPart
  <2> HIDE DEF Good
  <2>3. \A s \in DOMAIN spans' : Good(spans'[s])
    BY <1>6, <2>1, <2>2
  <2>4. ASSUME NEW p \in 1..Cut', TagAt(p).bio = Before, TagAt(p).tag # Other
        PROVE  \E s \in DOMAIN spans' : spans'[s].start = p - 1 /\ spans'[s].tag = TagAt(p).tag
    <3>1. CASE p \in 1..Cut
      <4>1. PICK s \in DOMAIN spans : spans[s].start = p - 1 /\ spans[s].tag = TagAt(p).tag
        BY <2>4, <3>1 DEF IInv, StrictSpansAreEntities
      <4> QED
        BY <1>6, <4>1
    <3>2. CASE p \notin 1..Cut
      <4>1. p \in Held(span)
        BY <1>3, <1>5, <1>7, <3>2 DEF Held
      <4>2. span.start = p - 1 /\ span.tag = TagAt(p).tag
        BY <1>4, <2>4, <4>1 DEF StrictPart
      <4> QED
        BY <1>6, <4>2
    <3> QED
      BY <3>1, <3>2
  <2> QED
    BY <1>1, <1>2, <2>3, <2>4 DEF StrictSpansAreEntities, Good
<1>12. (NonStrictSpansAreRuns /\ RunsAreLongest)'
  <2> SUFFICES ASSUME ~ model.strict PROVE (NonStrictSpansAreRuns /\ RunsAreLongest)'
    BY <1>1 DEF NonStrictSpansAreRuns, RunsAreLongest
  <2>1. \A s \in DOMAIN spans : RunPart(spans[s])
    BY DEF IInv, NonStrictSpansAreRuns, RunsAreLongest, RunPart
  <2>2. \A s \in DOMAIN spans' : RunPart(spans'[s])
    BY <1>4, <1>6, <2>1
  <2>3. ASSUME NEW s \in DOMAIN spans', s > 1 PROVE spans'[s - 1].tag # spans'[s].tag
    <3>1. CASE s \in DOMAIN spans
      <4>1. spans'[s] = spans[s] /\ spans'[s - 1] = spans[s - 1]
        BY <1>6, <2>3, <3>1
      <4> QED
        BY <2>3, <3>1, <4>1 DEF IInv, NonStrictSpansAreRuns
    <3>2. CASE s = Len(spans) + 1
      <4>1. spans'[s - 1] = spans[Len(spans)] /\ Len(spans) \in DOMAIN spans
            /\ Cut = spans[Len(spans)].end
        BY <1>6, <2>3, <3>2 DEF Cut
      <4>2. TagForSpan(TagAt(Cut + 1)) # spans[Len(spans)].tag
        BY <1>3, <2>1, <4>1 DEF RunPart
      <4>3. Cut + 1 \in Held(span)
        BY <1>3, <1>5, <1>7 DEF Held
      <4>4. TagForSpan(TagAt(Cut + 1)) = span.tag
        BY <1>4, <4>3 DEF RunPart
      <4> QED
        BY <1>6, <3>2, <4>1, <4>2, <4>4
    <3> QED
      BY <1>6, <3>1, <3>2
  <2> QED
    BY <1>1, <1>2, <2>2, <2>3 DEF NonStrictSpansAreRuns, RunsAreLongest, RunPart
<1> QED
  BY <1>8, <1>9, <1>10, <1>11, <1>12 DEF IInv

-----------------------------------------------------------------------------
LEMMA NextInv == IInv /\ [Next]_vars => IInv'
<1> SUFFICES ASSUME IInv, [Next]_vars PROVE IInv'
  OBVIOUS
<1>1. CASE CleanSample \/ RejectLong \/ RunEngine \/ EngineError
  BY <1>1, EarlyStepKeeps
<1>2. CASE DecodeFirst \/ DecodeNext \/ DecodeLast
  BY <1>2, DecodeForwardKeeps
<1>3. CASE TraceBack
  BY <1>3, TraceBackKeeps
<1>4. CASE CutSpan
  BY <1>4, CutSpanKeeps
<1>5. CASE DecodeDone \/ MarginalProbabilities \/ CutDone \/ Report \/ Rest
  BY <1>5, PassKeeps
<1>6. CASE UNCHANGED vars
  <2>1. UNCHANGED <<model, text, path, back, spans, phase>> /\ Masked' = Masked
        /\ LabelIds' = LabelIds /\ Cut' = Cut
    BY <1>6 DEF vars, Masked, LabelIds, Cut
  <2>2. TypeOK' /\ Progress'
    BY <2>1 DEF IInv, TypeOK, Progress
  <2>3. phase' = "answered" => Cut = Masked
    BY <2>1 DEF IInv, Progress
  <2> QED
    BY <2>1, <2>2, <2>3, SpansUntouched DEF IInv
<1> QED
  BY <1>1, <1>2, <1>3, <1>4, <1>5, <1>6 DEF Next, Decode

LEMMA Invariant == Spec => []IInv
BY InitInv, NextInv, PTL DEF Spec

\* Paths are made of labels the model has, and no path or span reaches beyond the
\* masked text.
THEOREM TaggingTypeCorrect == Spec => []TypeOK
<1>1. IInv => TypeOK
  BY DEF IInv
<1> QED
  BY <1>1, Invariant, PTL

\* The spans of a text follow one another from its start to its last masked
\* character, in both modes.
THEOREM SpansCoverText == Spec => []SpansTile
<1>1. IInv => SpansTile
  BY DEF IInv
<1> QED
  BY <1>1, Invariant, PTL

\* In strict mode the spans of entities are the entities of the path.
THEOREM StrictSpansCorrect == Spec => []StrictSpansAreEntities
<1>1. IInv => StrictSpansAreEntities
  BY DEF IInv
<1> QED
  BY <1>1, Invariant, PTL

\* In the default mode the spans are the longest runs of one tag.
THEOREM NonStrictSpansCorrect == Spec => []NonStrictSpansAreRuns
<1>1. IInv => NonStrictSpansAreRuns
  BY DEF IInv
<1> QED
  BY <1>1, Invariant, PTL

-----------------------------------------------------------------------------
(*****************************************************************************)
(* The passes of the CRF over the text at hand.                              *)
(*****************************************************************************)
\* The CRF's weights on the text at hand, as a chain of labels.
First == [k \in LabelIds |-> StartWeight(k)]
Move ==
  [t \in 2..Masked |-> [prev \in LabelIds |-> [next \in LabelIds |->
     Transition(prev, next) * emissions[t][next]]]]
Last == [k \in LabelIds |-> ValueAt(model.end, k)]

PathTable == WeightTable(Masked, LabelIds, First, Move, Last)

\* Once the network has answered there are weights for every masked position.
Sensed ==
  phase \notin {"clean", "infer", "failed"} =>
    /\ emissions \in Seq(Seq(Nat)) /\ WellShaped(emissions)
    /\ phase \in {"decode", "trace", "forward", "backward", "cut"} => Masked > 0

\* Decode's tables are those of the positions it has come to.
ScoresExact ==
  /\ phase \in {"clean", "infer"} => scores = <<>>
  /\ phase = "decode" /\ scores = <<>> => back = <<>>
  /\ phase = "decode" /\ scores # <<>> => Scored(scores, back, LabelIds, First, Move, Len(back) + 1)
  /\ phase = "trace" => Scored(scores, back, LabelIds, First, Move, Masked)

\* The part of the path traced so far ends with the best last label and follows
\* the backpointers.
PathFollows ==
  phase = "trace" =>
    /\ path[Len(path)] = LastLabel
    /\ \A i \in 1..(Len(path) - 1) : path[i] = back[(Masked - Len(path)) + i][path[i + 1]]

\* A forward sum is the weight of all that leads to its label, a backward sum
\* of all that goes on from it.
PassesExact ==
  /\ phase \in {"clean", "infer", "decode", "trace"} => alpha = <<>>
  /\ phase \in {"clean", "infer", "decode", "trace", "forward"} => beta = <<>>
  /\ phase = "forward" => Len(alpha) < Masked
  /\ phase = "backward" => Len(alpha) = Masked /\ Len(beta) <= Masked
  /\ phase \in {"cut", "report", "answered"} /\ Masked > 0 => Len(alpha) = Masked
  /\ phase \notin {"clean", "infer", "decode", "trace", "failed"} =>
       /\ alpha \in Seq([LabelIds -> Nat])
       /\ \A t \in 1..Len(alpha) : \A k \in LabelIds :
            alpha[t][k] = LeadingTo(LabelIds, First, Move, t, k)
  /\ phase = "backward" =>
       /\ beta \in Seq([LabelIds -> Nat])
       /\ \A i \in 1..Len(beta) :
            Completes(beta[i], Masked, LabelIds, First, Move, Last, (Masked - Len(beta)) + i)

\* The marginals handed on are the weights of the paths through each label.
ProbsExact ==
  phase \in {"cut", "report", "answered"} =>
    \A t \in 1..model.maxLength : \A k \in LabelIds :
      probs[t][k] = IF t > Masked THEN 0
                    ELSE SumFunctionOnSet(PathTable, Through(Masked, LabelIds, t, k))

CrfInv ==
  /\ Sensed /\ ScoresExact /\ PathFollows /\ PassesExact /\ ProbsExact
  /\ DecodedPathIsBest /\ ConfidenceIsBacked

-----------------------------------------------------------------------------
LEMMA WeightTypes ==
  ASSUME TypeOK
  PROVE  /\ \A id \in LabelIds : ValueAt(model.start, id) \in Nat /\ ValueAt(model.end, id) \in Nat
         /\ \A prev, next \in LabelIds : Transition(prev, next) \in Nat
<1>1. /\ model.start \in Seq(Nat) /\ model.end \in Seq(Nat)
      /\ model.transitions \in Seq(Seq(Nat)) /\ model.transitionsOrder2 \in Seq(Seq(Nat))
  BY TaggingAssumption DEF TypeOK
<1>2. ASSUME NEW values \in Seq(Nat), NEW id PROVE ValueAt(values, id) \in Nat
  BY DEF ValueAt
<1>3. ASSUME NEW values \in Seq(Seq(Nat)), NEW row, NEW column
      PROVE  MatrixValueAt(values, row, column) \in Nat
  <2>1. CASE row \in DOMAIN values
    <3>1. values[row] \in Seq(Nat)
      BY <2>1
    <3> QED
      BY <1>2, <2>1, <3>1 DEF MatrixValueAt
  <2>2. CASE row \notin DOMAIN values
    BY <2>2 DEF MatrixValueAt
  <2> QED
    BY <2>1, <2>2
<1>4. ASSUME NEW prev \in LabelIds, NEW next \in LabelIds PROVE Transition(prev, next) \in Nat
  <2>1. MatrixValueAt(model.transitions, prev, next) \in Nat
    BY <1>1, <1>3
  <2>2. MatrixValueAt(model.transitionsOrder2, prev, next) \in Nat
    BY <1>1, <1>3
  <2> QED
    BY <2>1, <2>2 DEF Transition
<1> QED
  BY <1>1, <1>2, <1>4

\* The network has answered with the right shape.
HasEmissions == emissions \in Seq(Seq(Nat)) /\ WellShaped(emissions)

LEMMA EmissionTypes ==
  ASSUME TypeOK, HasEmissions, NEW t \in 1..Masked, NEW id \in LabelIds
  PROVE  emissions[t][id] \in Nat
<1>1. model.maxLength \in Nat /\ text.cleaned \in Nat
  BY TaggingAssumption DEF TypeOK
<1>2. t \in 1..Len(emissions) /\ Len(emissions[t]) = Len(model.labels)
  BY <1>1 DEF HasEmissions, WellShaped, Masked
<1>3. emissions[t] \in Seq(Nat)
  BY <1>2 DEF HasEmissions
<1>4. id \in 1..Len(emissions[t])
  BY <1>2 DEF LabelIds
<1> QED
  BY <1>3, <1>4

LEMMA CrfIsChain ==
  ASSUME TypeOK, HasEmissions, Masked > 0
  PROVE  Chain(Masked, LabelIds, First, Move, Last)
<1>1. Masked \in Nat \ {0} /\ IsFiniteSet(LabelIds)
  <2>1. IsFiniteSet(LabelIds)
    BY Sizes, FS_Interval DEF LabelIds
  <2> QED
    BY <2>1, Sizes
<1>2. First \in [LabelIds -> Nat]
  <2> SUFFICES ASSUME NEW id \in LabelIds PROVE StartWeight(id) \in Nat
    BY DEF First
  <2>1. emissions[1][id] \in Nat
    BY <1>1, EmissionTypes
  <2>2. ValueAt(model.start, id) \in Nat
    BY WeightTypes
  <2> QED
    BY <2>1, <2>2 DEF StartWeight
<1>3. Last \in [LabelIds -> Nat]
  BY WeightTypes DEF Last
<1>4. Move \in [2..Masked -> [LabelIds -> [LabelIds -> Nat]]]
  <2> SUFFICES ASSUME NEW t \in 2..Masked, NEW prev \in LabelIds, NEW next \in LabelIds
               PROVE  Transition(prev, next) * emissions[t][next] \in Nat
    BY DEF Move
  <2>1. emissions[t][next] \in Nat
    BY <1>1, EmissionTypes
  <2>2. Transition(prev, next) \in Nat
    BY WeightTypes
  <2> QED
    BY <2>1, <2>2
<1> QED
  BY <1>1, <1>2, <1>3, <1>4 DEF Chain

LEMMA MoveIs ==
  ASSUME TypeOK, HasEmissions, NEW t \in 2..Masked, NEW prev \in LabelIds, NEW next \in LabelIds
  PROVE  /\ Move[t][prev][next] = Transition(prev, next) * emissions[t][next]
         /\ Transition(prev, next) \in Nat /\ emissions[t][next] \in Nat
<1>1. t \in 1..Masked
  BY Sizes
<1>2. emissions[t][next] \in Nat
  BY <1>1, EmissionTypes
<1>3. Transition(prev, next) \in Nat
  BY WeightTypes
<1> QED
  BY <1>2, <1>3 DEF Move

LEMMA SameChain ==
  ASSUME UNCHANGED <<model, text, emissions>>
  PROVE  /\ Masked' = Masked /\ LabelIds' = LabelIds
         /\ First' = First /\ Move' = Move /\ Last' = Last /\ PathTable' = PathTable
<1>1. Masked' = Masked /\ LabelIds' = LabelIds
  BY DEF Masked, LabelIds
<1>2. \A id : StartWeight(id)' = StartWeight(id)
  BY DEF StartWeight
<1>3. \A prev, next : Transition(prev, next)' = Transition(prev, next)
  BY DEF Transition
<1>4. First' = First
  BY <1>1, <1>2 DEF First
<1>5. Move' = Move
  BY <1>1, <1>3 DEF Move
<1>6. Last' = Last
  BY <1>1 DEF Last
<1> QED
  BY <1>1, <1>4, <1>5, <1>6 DEF PathTable

\* What CRF.Decode maximizes is the weight of the chain's path.
LEMMA WeightIsPathWeight ==
  ASSUME TypeOK, HasEmissions, Masked > 0, NEW p, \A t \in 1..Masked : p[t] \in LabelIds
  PROVE  Weight(p) = PathWeight(Masked, First, Move, Last, p) /\ Weight(p) \in Nat
<1> DEFINE step(t) == (IF t = 1 THEN StartWeight(p[1])
                       ELSE Transition(p[t - 1], p[t]) * emissions[t][p[t]])
                      * (IF t = Masked THEN ValueAt(model.end, p[t]) ELSE 1)
           f == [t \in 1..Masked |-> step(t)]
           g == Steps(First, Move, p, Masked)
           S == 1..Masked
           n == Masked
<1>1. Chain(Masked, LabelIds, First, Move, Last) /\ n \in Nat /\ n > 0 /\ n \in S /\ n \in 1..n
  BY CrfIsChain, Sizes
<1>2. Weight(p) = Product(f, S)
  BY DEF Weight, FoldFunction, Product
<1>3. Counted(g, S)
  BY <1>1, StepsCounted
<1>4. ASSUME NEW t \in S PROVE g[t] = StepWeight(First, Move, p, t) /\ g[t] \in Nat
  BY <1>3 DEF Steps, Counted
<1>5. ASSUME NEW t \in S
      PROVE  g[t] = IF t = 1 THEN StartWeight(p[1]) ELSE Transition(p[t - 1], p[t]) * emissions[t][p[t]]
  <2>1. CASE t = 1
    BY <1>4, <2>1 DEF StepWeight, First
  <2>2. CASE t # 1
    <3>1. t \in 2..Masked /\ t - 1 \in 1..Masked
      BY <1>1, <2>2
    <3>2. p[t - 1] \in LabelIds /\ p[t] \in LabelIds
      BY <3>1
    <3>3. Move[t][p[t - 1]][p[t]] = Transition(p[t - 1], p[t]) * emissions[t][p[t]]
      BY <3>1, <3>2 DEF Move
    <3> QED
      BY <1>4, <2>2, <3>3 DEF StepWeight
  <2> QED
    BY <2>1, <2>2
<1>6. ASSUME NEW t \in S, t # n PROVE f[t] = g[t]
  <2>1. f[t] = g[t] * 1
    BY <1>5, <1>6
  <2> HIDE DEF f, g
  <2> QED
    BY <1>4, <2>1
<1>7. f[n] = g[n] * Last[p[n]] /\ Last[p[n]] \in Nat
  <2>1. Last[p[n]] = ValueAt(model.end, p[n])
    BY <1>1 DEF Last
  <2>2. Last[p[n]] \in Nat
    BY <1>1 DEF Chain
  <2>3. f[n] = g[n] * ValueAt(model.end, p[n])
    BY <1>1, <1>5
  <2> QED
    BY <2>1, <2>2, <2>3
<1>8. PathWeight(Masked, First, Move, Last, p) = Product(g, S) * Last[p[n]]
  BY DEF PathWeight, PrefixWeight
<1> DEFINE l == Last[p[n]]
<1> HIDE DEF f, g, S, n, step, l
<1>9. Counted(f, S)
  <2>1. ASSUME NEW t \in S PROVE f[t] \in Nat
    <3>1. CASE t # n
      BY <1>4, <1>6, <3>1
    <3>2. CASE t = n
      <4>1. g[n] * l \in Nat
        BY <1>1, <1>4, <1>7 DEF l
      <4> QED
        BY <1>7, <3>2, <4>1 DEF l
    <3> QED
      BY <3>1, <3>2
  <2> QED
    BY <1>3, <2>1 DEF Counted
<1>10. Product(f, S) = f[n] * Product(f, S \ {n}) /\ Product(f, S \ {n}) \in Nat /\ Product(f, S) \in Nat
       /\ Counted(f, S \ {n})
  BY <1>1, <1>9, ProductSplit
<1>11. Product(g, S) = g[n] * Product(g, S \ {n}) /\ g[n] \in Nat
  BY <1>1, <1>3, ProductSplit
<1>12. Product(f, S \ {n}) = Product(g, S \ {n})
  <2> DEFINE R == S \ {n}
  <2>1. Counted(f, R) /\ \A t \in R : f[t] = g[t]
    BY <1>6, <1>10
  <2> HIDE DEF R
  <2>2. Product(f, R) = Product(g, R)
    BY <2>1, ProductSame
  <2> QED
    BY <2>2 DEF R
<1>13. ASSUME NEW a \in Nat, NEW b \in Nat, NEW c \in Nat PROVE (a * c) * b = (a * b) * c
  OBVIOUS
<1>14. Product(f, S) = Product(g, S) * l
  BY <1>7, <1>10, <1>11, <1>12, <1>13 DEF l
<1> QED
  BY <1>2, <1>8, <1>10, <1>14 DEF l

\* The scan of Decode ends with a best label.
LEMMA FirstBestIsBest ==
  ASSUME TypeOK, NEW weights, \A k \in LabelIds : weights[k] \in Nat
  PROVE  \A j \in LabelIds : weights[j] <= weights[FirstBest(weights)]
<1>1. Len(model.labels) \in Nat \ {0} /\ LabelIds = 1..Len(model.labels)
  BY Sizes DEF LabelIds
<1>2. \E k \in LabelIds : /\ \A j \in LabelIds : weights[j] <= weights[k]
                          /\ \A j \in 1..(k - 1) : weights[j] # weights[k]
  BY <1>1, BestExists
<1> QED
  BY <1>2 DEF FirstBest

LEMMA PreviousIsBest ==
  ASSUME TypeOK, HasEmissions, NEW t \in 1..Masked, t = Len(back) + 2, scores \in [LabelIds -> Nat],
         NEW next \in LabelIds
  PROVE  /\ Previous[next] \in LabelIds
         /\ \A prev \in LabelIds :
              scores[prev] * Transition(prev, next) * emissions[t][next]
                <= scores[Previous[next]] * Transition(Previous[next], next) * emissions[t][next]
<1> DEFINE w == [prev \in LabelIds |-> scores[prev] * Transition(prev, next) * emissions[Len(back) + 2][next]]
<1>1. Previous[next] = FirstBest(w)
  BY DEF Previous
<1>2. FirstBest(w) \in LabelIds
  BY FirstBestIsLabel
<1>3. ASSUME NEW prev \in LabelIds PROVE w[prev] \in Nat
  <2>1. emissions[t][next] \in Nat
    BY EmissionTypes
  <2>2. Transition(prev, next) \in Nat
    BY WeightTypes
  <2>3. scores[prev] \in Nat
    OBVIOUS
  <2>4. scores[prev] * Transition(prev, next) * emissions[t][next] \in Nat
    BY <2>1, <2>2, <2>3
  <2> QED
    BY <2>4
<1>4. \A prev \in LabelIds : w[prev] = scores[prev] * Transition(prev, next) * emissions[t][next]
  OBVIOUS
<1> HIDE DEF w
<1>5. \A j \in LabelIds : w[j] <= w[FirstBest(w)]
  BY <1>3, FirstBestIsBest
<1> QED
  BY <1>1, <1>2, <1>4, <1>5

-----------------------------------------------------------------------------
LEMMA CrfInit == Init => CrfInv
BY DEF Init, CrfInv, Sensed, ScoresExact, PathFollows, PassesExact, ProbsExact, DecodedPathIsBest,
       ConfidenceIsBacked

\* What the chain's part of the invariant needs from the other.
LEMMA InDecoding ==
  ASSUME IInv, CrfInv, phase \in {"decode", "trace", "forward", "backward", "cut"}
  PROVE  /\ TypeOK /\ HasEmissions /\ Masked \in Nat /\ Masked > 0
         /\ Chain(Masked, LabelIds, First, Move, Last)
<1>1. TypeOK /\ Masked \in Nat /\ HasEmissions
  BY Sizes DEF IInv, CrfInv, Sensed, HasEmissions
<1>2. Masked > 0
  BY DEF CrfInv, Sensed
<1> QED
  BY <1>1, <1>2, CrfIsChain

LEMMA BeforeDecodingKeepsCrf ==
  ASSUME IInv, CrfInv, CleanSample \/ RejectLong \/ EngineError PROVE CrfInv'
<1>1. /\ phase \in {"clean", "infer"} /\ phase' \in {"infer", "failed"}
      /\ UNCHANGED <<scores, alpha, beta>>
  BY DEF CleanSample, RejectLong, EngineError
<1>2. scores = <<>> /\ alpha = <<>> /\ beta = <<>>
  BY <1>1 DEF CrfInv, ScoresExact, PassesExact
<1> QED
  BY <1>1, <1>2
  DEF CrfInv, Sensed, ScoresExact, PathFollows, PassesExact, ProbsExact, DecodedPathIsBest, ConfidenceIsBacked

LEMMA RunEngineKeepsCrf == ASSUME IInv, CrfInv, RunEngine PROVE CrfInv'
<1>1. /\ phase = "infer" /\ phase' \in {"report", "decode"}
      /\ UNCHANGED <<model, text, scores, back, alpha, beta, spans>>
      /\ phase' = IF Masked = 0 THEN "report" ELSE "decode"
      /\ Masked' = Masked /\ LabelIds' = LabelIds
  BY DEF RunEngine, Masked, LabelIds
<1>2. scores = <<>> /\ alpha = <<>> /\ beta = <<>> /\ back = <<>> /\ Masked \in Nat
  BY <1>1, Sizes DEF IInv, Progress, CrfInv, ScoresExact, PassesExact
<1>3. Sensed'
  <2>1. PICK output \in Outputs : WellShaped(output) /\ emissions' = output
    BY DEF RunEngine
  <2>2. emissions' \in Seq(Seq(Nat)) /\ WellShaped(emissions)'
    BY <1>1, <2>1, TaggingAssumption DEF WellShaped
  <2> QED
    BY <1>1, <1>2, <2>2 DEF Sensed
<1>4. ScoresExact' /\ PathFollows' /\ DecodedPathIsBest' /\ ConfidenceIsBacked'
  BY <1>1, <1>2 DEF ScoresExact, PathFollows, DecodedPathIsBest, ConfidenceIsBacked
<1>5. PassesExact'
  BY <1>1, <1>2 DEF PassesExact
<1>6. ProbsExact'
  <2>1. CASE Masked = 0
    <3>1. probs' = [p \in 1..model.maxLength |-> [k \in LabelIds |-> 0]]
      BY <2>1 DEF RunEngine
    <3>2. model.maxLength \in Nat
      BY TaggingAssumption DEF IInv, TypeOK
    <3>3. ASSUME NEW t \in 1..model.maxLength, NEW k \in LabelIds PROVE probs'[t][k] = 0 /\ t > Masked
      BY <2>1, <3>1, <3>2
    <3> QED
      BY <1>1, <3>3 DEF ProbsExact
  <2>2. CASE Masked # 0
    BY <1>1, <2>2 DEF ProbsExact
  <2> QED
    BY <2>1, <2>2
<1> QED
  BY <1>3, <1>4, <1>5, <1>6 DEF CrfInv

-----------------------------------------------------------------------------
LEMMA DecodeFirstKeepsCrf == ASSUME IInv, CrfInv, DecodeFirst PROVE CrfInv'
<1>1. /\ phase = "decode" /\ scores = <<>> /\ scores' = First
      /\ UNCHANGED <<model, text, phase, emissions, back, alpha, beta>>
  BY DEF DecodeFirst, First
<1>2. back = <<>> /\ alpha = <<>> /\ beta = <<>>
  BY <1>1 DEF CrfInv, ScoresExact, PassesExact
<1>3. /\ Masked' = Masked /\ LabelIds' = LabelIds
      /\ First' = First /\ Move' = Move /\ Last' = Last
  BY <1>1, SameChain
<1>4. Chain(Masked, LabelIds, First, Move, Last)
  BY <1>1, InDecoding
<1>5. Scored(scores', back', LabelIds, First, Move, Len(back') + 1)
  <2>1. Scored(First, back', LabelIds, First, Move, 1)
    BY <1>4, ScoredFirst
  <2>2. Len(back') + 1 = 1
    BY <1>1, <1>2
  <2> QED
    BY <1>1, <2>1, <2>2
<1>6. Sensed'
  BY <1>1, <1>3 DEF CrfInv, Sensed, WellShaped
<1>7. ScoresExact'
  BY <1>1, <1>2, <1>3, <1>5 DEF ScoresExact
<1>8. PassesExact' /\ PathFollows' /\ ProbsExact' /\ DecodedPathIsBest' /\ ConfidenceIsBacked'
  BY <1>1, <1>2 DEF PassesExact, PathFollows, ProbsExact, DecodedPathIsBest, ConfidenceIsBacked
<1> QED
  BY <1>6, <1>7, <1>8 DEF CrfInv

LEMMA DecodeNextKeepsCrf == ASSUME IInv, CrfInv, DecodeNext PROVE CrfInv'
<1> DEFINE t == Len(back) + 1
           u == Len(back) + 2
<1>1. /\ phase = "decode" /\ scores # <<>> /\ t < Masked /\ back' = Append(back, Previous)
      /\ scores' = [next \in LabelIds |->
                      scores[Previous[next]] * Transition(Previous[next], next) * emissions[u][next]]
      /\ UNCHANGED <<model, text, phase, emissions, alpha, beta>>
  BY DEF DecodeNext
<1>2. /\ TypeOK /\ HasEmissions /\ Masked \in Nat /\ Masked > 0
      /\ Chain(Masked, LabelIds, First, Move, Last)
  BY <1>1, InDecoding
<1>3. /\ Masked' = Masked /\ LabelIds' = LabelIds
      /\ First' = First /\ Move' = Move /\ Last' = Last
  BY <1>1, SameChain
<1>4. back \in Seq([LabelIds -> LabelIds]) /\ Len(back) \in Nat
  BY <1>2 DEF TypeOK
<1>5. t \in 1..Masked /\ u \in 1..Masked /\ u \in 2..Masked /\ u = t + 1
  BY <1>1, <1>2, <1>4
<1>6. Scored(scores, back, LabelIds, First, Move, t)
  BY <1>1 DEF CrfInv, ScoresExact
<1>7. scores \in [LabelIds -> Nat]
  BY <1>6 DEF Scored
<1>8. Previous \in [LabelIds -> LabelIds]
  BY <1>2, PreviousIsLabels
<1>9. /\ back' \in Seq([LabelIds -> LabelIds]) /\ Len(back') = t /\ back'[t] = Previous
      /\ \A s \in 1..t : s < t => back'[s] = back[s]
  BY <1>1, <1>4, <1>8
<1>10. ASSUME NEW prev \in LabelIds, NEW next \in LabelIds
       PROVE  /\ scores[prev] * Transition(prev, next) * emissions[u][next]
                   = scores[prev] * Move[u][prev][next]
              /\ scores[prev] * Move[u][prev][next] \in Nat
  <2>1. /\ Move[u][prev][next] = Transition(prev, next) * emissions[u][next]
        /\ Transition(prev, next) \in Nat /\ emissions[u][next] \in Nat
    BY <1>2, <1>5, MoveIs
  <2>2. scores[prev] \in Nat
    BY <1>7
  <2> HIDE DEF u
  <2>3. (scores[prev] * Transition(prev, next)) * emissions[u][next]
          = scores[prev] * (Transition(prev, next) * emissions[u][next])
    BY <2>1, <2>2, Associative
  <2>4. scores[prev] * (Transition(prev, next) * emissions[u][next]) \in Nat
    BY <2>1, <2>2
  <2> QED
    BY <2>1, <2>3, <2>4
<1>11. \A next \in LabelIds : scores'[next] = scores[Previous[next]] * Move[u][Previous[next]][next]
  <2> HIDE DEF u, t
  <2> QED
    BY <1>1, <1>8, <1>10
<1>12. scores' \in [LabelIds -> Nat]
  <2> HIDE DEF u, t
  <2>1. \A next \in LabelIds : scores'[next] \in Nat
    BY <1>8, <1>10, <1>11
  <2> QED
    BY <1>1, <2>1
<1>13. \A next, prev \in LabelIds : scores[prev] * Move[u][prev][next] <= scores'[next]
  <2> SUFFICES ASSUME NEW next \in LabelIds, NEW prev \in LabelIds
               PROVE  scores[prev] * Move[u][prev][next] <= scores'[next]
    OBVIOUS
  <2>1. /\ Previous[next] \in LabelIds
        /\ scores[prev] * Transition(prev, next) * emissions[u][next]
             <= scores[Previous[next]] * Transition(Previous[next], next) * emissions[u][next]
    BY <1>2, <1>5, <1>7, PreviousIsBest
  <2> HIDE DEF u, t
  <2> QED
    BY <1>10, <1>11, <2>1
<1>14. Scored(scores', back', LabelIds, First, Move, u)
  <2>1. \A next \in LabelIds : scores'[next] = scores[back'[t][next]] * Move[u][back'[t][next]][next]
    BY <1>9, <1>11
  <2>2. back'[t] \in [LabelIds -> LabelIds]
    BY <1>8, <1>9
  <2> DEFINE L == LabelIds
             move == Move
             best2 == scores'
             from2 == back'
  <2>3. \A next \in L : best2[next] = scores[from2[t][next]] * move[u][from2[t][next]][next]
    BY <2>1
  <2>4. \A next, prev \in L : scores[prev] * move[u][prev][next] <= best2[next]
    BY <1>13
  <2>5. /\ t \in 1..Masked /\ u \in 1..Masked /\ u = t + 1
        /\ Chain(Masked, L, First, move, Last) /\ Scored(scores, back, L, First, move, t)
        /\ best2 \in [L -> Nat] /\ from2[t] \in [L -> L]
        /\ \A s \in 1..t : s < t => from2[s] = back[s]
    BY <1>2, <1>5, <1>6, <1>9, <1>12, <2>2
  <2> HIDE DEF u, t, L, move, best2, from2
  <2>6. Scored(best2, from2, L, First, move, u)
    BY <2>3, <2>4, <2>5, ScoredNext
  <2> QED
    BY <2>6 DEF best2, from2, L, move
<1>15. Sensed'
  BY <1>1, <1>3 DEF CrfInv, Sensed, WellShaped
<1>16. scores' # <<>>
  <2>1. 1 \in LabelIds
    BY <1>2, Sizes
  <2>2. DOMAIN scores' = LabelIds
    BY <1>1
  <2> QED
    BY <2>1, <2>2
<1>17. ScoresExact'
  <2>1. Len(back') + 1 = u
    BY <1>4, <1>9
  <2> HIDE DEF u, t
  <2> QED
    BY <1>1, <1>3, <1>14, <1>16, <2>1 DEF ScoresExact
<1>18. PassesExact' /\ PathFollows' /\ ProbsExact' /\ DecodedPathIsBest' /\ ConfidenceIsBacked'
  BY <1>1 DEF CrfInv, PassesExact, PathFollows, ProbsExact, DecodedPathIsBest, ConfidenceIsBacked
<1> QED
  BY <1>15, <1>17, <1>18 DEF CrfInv

\* The weights along p, the last label's among them.
WeightSteps(p) ==
  [t \in 1..Masked |->
     (IF t = 1 THEN StartWeight(p[1]) ELSE Transition(p[t - 1], p[t]) * emissions[t][p[t]])
     * (IF t = Masked THEN ValueAt(model.end, p[t]) ELSE 1)]

LEMMA WeightIsProduct == \A p : Weight(p) = Product(WeightSteps(p), 1..Masked)
BY DEF Weight, WeightSteps, FoldFunction, Product

LEMMA WeightIsProductNext == (\A p : Weight(p) = Product(WeightSteps(p), 1..Masked))'
BY WeightIsProduct, PTL

LEMMA SameWeight ==
  ASSUME UNCHANGED <<model, text, emissions>>, NEW p PROVE Weight(p)' = Weight(p)
<1>1. Masked' = Masked /\ UNCHANGED StartWeight(p[1])
      /\ \A t : UNCHANGED Transition(p[t - 1], p[t])
  BY DEF Masked, StartWeight, Transition
<1>2. WeightSteps(p)' = WeightSteps(p)
  BY <1>1 DEF WeightSteps
<1>3. Weight(p) = Product(WeightSteps(p), 1..Masked)
  BY WeightIsProduct
<1>4. Weight(p)' = Product(WeightSteps(p)', 1..Masked')
  BY WeightIsProductNext
<1> QED
  BY <1>1, <1>2, <1>3, <1>4

LEMMA SameLastLabel == ASSUME UNCHANGED <<model, scores>> PROVE LastLabel' = LastLabel
BY DEF LastLabel, FirstBest, LabelIds

LEMMA DecodeLastKeepsCrf == ASSUME IInv, CrfInv, DecodeLast PROVE CrfInv'
<1>1. /\ phase = "decode" /\ scores # <<>> /\ Len(back) + 1 = Masked
      /\ phase' = "trace" /\ path' = <<LastLabel>>
      /\ UNCHANGED <<model, text, emissions, scores, back, alpha, beta>>
  BY DEF DecodeLast
<1>2. /\ Masked' = Masked /\ LabelIds' = LabelIds /\ First' = First /\ Move' = Move
  BY <1>1, SameChain
<1>3. Scored(scores, back, LabelIds, First, Move, Masked)
  BY <1>1 DEF CrfInv, ScoresExact
<1>4. ScoresExact'
  BY <1>1, <1>2, <1>3 DEF ScoresExact
<1>5. PathFollows'
  <2>1. LastLabel' = LastLabel
    BY <1>1, SameLastLabel
  <2> QED
    BY <1>1, <2>1 DEF PathFollows
<1>6. Sensed' /\ PassesExact' /\ ProbsExact' /\ DecodedPathIsBest' /\ ConfidenceIsBacked'
  BY <1>1, <1>2
  DEF CrfInv, Sensed, WellShaped, PassesExact, ProbsExact, DecodedPathIsBest, ConfidenceIsBacked
<1> QED
  BY <1>4, <1>5, <1>6 DEF CrfInv

LEMMA TraceBackKeepsCrf == ASSUME IInv, CrfInv, TraceBack PROVE CrfInv'
<1> DEFINE x == back[Masked - Len(path)][Head(path)]
           l == Len(path)
<1>1. /\ phase = "trace" /\ phase' = "trace" /\ l < Masked /\ path' = <<x>> \o path
      /\ UNCHANGED <<model, text, emissions, scores, back, alpha, beta>>
  BY DEF TraceBack
<1>2. /\ Masked' = Masked /\ LabelIds' = LabelIds /\ First' = First /\ Move' = Move
  BY <1>1, SameChain
<1>3. path \in Seq(LabelIds) /\ l \in Nat /\ l >= 1 /\ Masked \in Nat
  BY <1>1, Sizes DEF IInv, TypeOK, Progress
<1>4. back \in Seq([LabelIds -> LabelIds]) /\ Len(back) = Masked - 1
  BY <1>1 DEF IInv, TypeOK, Progress
<1>5. /\ Len(path') = l + 1 /\ path'[1] = x /\ path'[l + 1] = path[l]
      /\ \A i \in 1..l : path'[i + 1] = path[i]
  <2>1. x \in LabelIds
    <3>1. Masked - l \in 1..Len(back) /\ Head(path) \in LabelIds
      BY <1>1, <1>3, <1>4
    <3> QED
      BY <1>4, <3>1
  <2> HIDE DEF x
  <2> QED
    BY <1>1, <1>3, <2>1
<1>6. PathFollows'
  <2>1. LastLabel' = LastLabel
    BY <1>1, SameLastLabel
  <2>2. path'[Len(path')] = LastLabel'
    BY <1>1, <1>5, <2>1 DEF CrfInv, PathFollows
  <2>3. ASSUME NEW i \in 1..(Len(path') - 1)
        PROVE  path'[i] = back'[(Masked' - Len(path')) + i][path'[i + 1]]
    <3>1. CASE i = 1
      <4>1. path'[2] = path[1] /\ Head(path) = path[1] /\ (Masked' - Len(path')) + 1 = Masked - l
        BY <1>2, <1>3, <1>5
      <4> QED
        BY <1>1, <1>5, <3>1, <4>1
    <3>2. CASE i # 1
      <4> DEFINE j == i - 1
      <4>1. j \in 1..(l - 1) /\ j \in 1..l /\ i \in 1..l /\ i = j + 1
            /\ (Masked' - Len(path')) + i = (Masked - l) + j
        BY <1>2, <1>3, <1>5, <3>2
      <4>2. path[j] = back[(Masked - l) + j][path[j + 1]]
        BY <1>1, <4>1 DEF CrfInv, PathFollows
      <4>3. path'[i] = path[j] /\ path'[i + 1] = path[i]
        <5> HIDE DEF j, l
        <5> QED
          BY <1>5, <4>1
      <4> QED
        BY <1>1, <4>1, <4>2, <4>3
    <3> QED
      BY <3>1, <3>2
  <2> QED
    BY <2>2, <2>3 DEF PathFollows
<1>7. ScoresExact'
  BY <1>1, <1>2 DEF CrfInv, ScoresExact
<1>8. Sensed' /\ PassesExact' /\ ProbsExact' /\ DecodedPathIsBest' /\ ConfidenceIsBacked'
  BY <1>1, <1>2
  DEF CrfInv, Sensed, WellShaped, PassesExact, ProbsExact, DecodedPathIsBest, ConfidenceIsBacked
<1> QED
  BY <1>6, <1>7, <1>8 DEF CrfInv

\* The traced path has a largest weight.
LEMMA TracedPath ==
  ASSUME IInv, CrfInv, phase = "trace", Len(path) = Masked
  PROVE  \A p \in Paths : Weight(p) <= Weight(path)
<1> DEFINE n == Masked
<1>1. /\ TypeOK /\ HasEmissions /\ n \in Nat /\ n > 0
      /\ Chain(Masked, LabelIds, First, Move, Last) /\ n \in 1..n
  BY InDecoding
<1>2. Scored(scores, back, LabelIds, First, Move, Masked)
  BY DEF CrfInv, ScoresExact
<1>3. path \in Prefixes(LabelIds, Masked) /\ \A t \in 1..Masked : path[t] \in LabelIds
  BY <1>1 DEF TypeOK, Prefixes
<1>4. Traced(back, path, Masked)
  <2> SUFFICES ASSUME NEW s \in 1..Masked, s < Masked PROVE path[s] = back[s][path[s + 1]]
    BY DEF Traced
  <2>1. s \in 1..(Len(path) - 1) /\ (Masked - Len(path)) + s = s
    BY <1>1
  <2> QED
    BY <2>1 DEF CrfInv, PathFollows
<1>5. \A k \in LabelIds : scores[k] * Last[k] <= scores[path[n]] * Last[path[n]]
  <2> DEFINE w == [id \in LabelIds |-> scores[id] * ValueAt(model.end, id)]
  <2>1. path[n] = FirstBest(w) /\ path[n] \in LabelIds
    BY <1>1, <1>3 DEF CrfInv, PathFollows, LastLabel
  <2>2. \A k \in LabelIds : w[k] = scores[k] * Last[k]
    BY DEF Last
  <2>3. \A k \in LabelIds : w[k] \in Nat
    <3> SUFFICES ASSUME NEW k \in LabelIds PROVE scores[k] * Last[k] \in Nat
      BY <2>2
    <3>1. scores[k] \in Nat /\ Last[k] \in Nat
      BY <1>1, <1>2 DEF Scored, Chain
    <3> QED
      BY <3>1
  <2> HIDE DEF w
  <2>4. \A k \in LabelIds : w[k] <= w[FirstBest(w)]
    BY <1>1, <2>3, FirstBestIsBest
  <2> QED
    BY <2>1, <2>2, <2>4
<1>6. ASSUME NEW p \in Paths PROVE Weight(p) <= Weight(path)
  <2>1. p \in Prefixes(LabelIds, Masked) /\ \A t \in 1..Masked : p[t] \in LabelIds
    BY DEF Paths, Prefixes
  <2>2. PathWeight(Masked, First, Move, Last, p) <= PathWeight(Masked, First, Move, Last, path)
    BY <1>1, <1>2, <1>3, <1>4, <1>5, <2>1, TracedIsBest
  <2>3. Weight(p) = PathWeight(Masked, First, Move, Last, p)
    BY <1>1, <2>1, WeightIsPathWeight
  <2>4. Weight(path) = PathWeight(Masked, First, Move, Last, path)
    BY <1>1, <1>3, WeightIsPathWeight
  <2> QED
    BY <2>2, <2>3, <2>4
<1> QED
  BY <1>6

LEMMA DecodeDoneKeepsCrf == ASSUME IInv, CrfInv, DecodeDone PROVE CrfInv'
<1>1. /\ phase = "trace" /\ phase' = "forward" /\ Len(path) = Masked
      /\ UNCHANGED <<model, text, emissions, scores, back, path, alpha, beta>>
  BY DEF DecodeDone
<1>2. /\ Masked' = Masked /\ LabelIds' = LabelIds /\ Masked \in Nat /\ Masked > 0
  BY <1>1, SameChain, InDecoding
<1>3. alpha = <<>> /\ beta = <<>>
  BY <1>1 DEF CrfInv, PassesExact
<1>4. DecodedPathIsBest'
  <2>1. \A p \in Paths : Weight(p) <= Weight(path)
    BY <1>1, TracedPath
  <2>2. Paths' = Paths
    BY <1>2 DEF Paths
  <2>3. \A p : Weight(p)' = Weight(p)
    BY <1>1, SameWeight
  <2>4. Weight(path)' = Weight(path)
    BY <1>1, SameWeight DEF Weight
  <2> QED
    BY <1>1, <1>2, <2>1, <2>2, <2>3, <2>4 DEF DecodedPathIsBest
<1>5. PassesExact'
  BY <1>1, <1>2, <1>3 DEF PassesExact
<1>6. Sensed' /\ ScoresExact' /\ PathFollows' /\ ProbsExact' /\ ConfidenceIsBacked'
  BY <1>1, <1>2
  DEF CrfInv, Sensed, WellShaped, ScoresExact, PathFollows, ProbsExact, ConfidenceIsBacked
<1> QED
  BY <1>4, <1>5, <1>6 DEF CrfInv

\* The next forward sum, from the one before it.
LEMMA AlphaExact ==
  ASSUME IInv, CrfInv, phase = "forward", NEW k \in LabelIds
  PROVE  AlphaAt(Len(alpha) + 1)[k] = LeadingTo(LabelIds, First, Move, Len(alpha) + 1, k)
<1> DEFINE t == Len(alpha)
           u == Len(alpha) + 1
<1>1. /\ TypeOK /\ HasEmissions /\ Masked \in Nat /\ Masked > 0
      /\ Chain(Masked, LabelIds, First, Move, Last)
  BY InDecoding
<1>2. /\ t \in Nat /\ t < Masked /\ alpha \in Seq([LabelIds -> Nat])
      /\ \A s \in 1..t : \A j \in LabelIds : alpha[s][j] = LeadingTo(LabelIds, First, Move, s, j)
  BY DEF CrfInv, PassesExact
<1>3. CASE t = 0
  <2>1. AlphaAt(u)[k] = First[k]
    BY <1>3 DEF AlphaAt, First
  <2>2. LeadingTo(LabelIds, First, Move, 1, k) = First[k]
    BY <1>1, ForwardFirst
  <2> QED
    BY <1>3, <2>1, <2>2
<1>4. CASE t # 0
  <2> DEFINE e == emissions[u][k]
             g0 == [prev \in LabelIds |-> alpha[t][prev] * Transition(prev, k)]
             g == [prev \in LabelIds |-> e * g0[prev]]
  <2>1. t \in 1..Masked /\ u \in 1..Masked /\ u \in 2..Masked /\ u = t + 1 /\ u # 1 /\ u - 1 = t
    BY <1>1, <1>2, <1>4
  <2>2. AlphaAt(u)[k] = e * SumFunctionOnSet(g0, LabelIds)
    <3>1. AlphaAt(u)[k] = e * SumFunction([prev \in LabelIds |-> alpha[u - 1][prev] * Transition(prev, k)])
      BY <2>1 DEF AlphaAt
    <3>2. [prev \in LabelIds |-> alpha[u - 1][prev] * Transition(prev, k)] = g0
      BY <2>1
    <3>3. SumFunction(g0) = SumFunctionOnSet(g0, LabelIds)
      BY DEF SumFunction
    <3> HIDE DEF e, g0
    <3> QED
      BY <3>1, <3>2, <3>3
  <2>3. ASSUME NEW prev \in LabelIds
        PROVE  /\ g0[prev] \in Nat /\ g[prev] = e * g0[prev] /\ e \in Nat
               /\ g[prev] = LeadingTo(LabelIds, First, Move, t, prev) * Move[u][prev][k]
    <3>1. alpha[t][prev] = LeadingTo(LabelIds, First, Move, t, prev)
      BY <1>2, <2>1
    <3>2. alpha[t][prev] \in Nat
      BY <1>2, <2>1
    <3>3. Move[u][prev][k] = Transition(prev, k) * e /\ Transition(prev, k) \in Nat /\ e \in Nat
      BY <1>1, <2>1, MoveIs
    <3>4. g0[prev] = alpha[t][prev] * Transition(prev, k) /\ g[prev] = e * g0[prev]
      OBVIOUS
    <3> HIDE DEF g, g0, e, t, u
    <3>5. g0[prev] \in Nat /\ e * g0[prev] = g0[prev] * e
      BY <3>2, <3>3, <3>4
    <3>6. (alpha[t][prev] * Transition(prev, k)) * e = alpha[t][prev] * (Transition(prev, k) * e)
      BY <3>2, <3>3, Associative
    <3> QED
      BY <3>1, <3>3, <3>4, <3>5, <3>6
  <2>4. e \in Nat
    <3> HIDE DEF e
    <3> QED
      BY <2>3
  <2>5. Counted(g0, LabelIds) /\ \A prev \in LabelIds : g[prev] = e * g0[prev]
    BY <1>1, <2>3 DEF Counted, Chain
  <2>6. LeadingTo(LabelIds, First, Move, u, k) = SumFunctionOnSet(g, LabelIds)
    <3>1. \A prev \in LabelIds : g[prev] = LeadingTo(LabelIds, First, Move, t, prev) * Move[u][prev][k]
      BY <2>3
    <3> DEFINE L == LabelIds
               move == Move
    <3>2. /\ \A prev \in L : g[prev] = LeadingTo(L, First, move, t, prev) * move[u][prev][k]
          /\ Chain(Masked, L, First, move, Last) /\ k \in L
          /\ t \in 1..Masked /\ u \in 1..Masked /\ u = t + 1
      BY <1>1, <2>1, <3>1
    <3> HIDE DEF L, move, g, g0, e, t, u
    <3>3. LeadingTo(L, First, move, u, k) = SumFunctionOnSet(g, L)
      BY <3>2, ForwardNext
    <3> QED
      BY <3>3 DEF L, move
  <2> HIDE DEF g, g0, e, t, u
  <2>7. SumFunctionOnSet(g, LabelIds) = e * SumFunctionOnSet(g0, LabelIds)
    BY <2>4, <2>5, SumScale
  <2> QED
    BY <2>2, <2>6, <2>7 DEF u
<1> QED
  BY <1>3, <1>4

LEMMA LeadingType ==
  ASSUME TypeOK, HasEmissions, Masked > 0, NEW t \in 1..Masked, NEW k \in LabelIds
  PROVE  LeadingTo(LabelIds, First, Move, t, k) \in Nat
<1>1. Counted(PrefixTable(LabelIds, First, Move, t), Prefixes(LabelIds, t))
  BY CrfIsChain, PrefixesCounted
<1>2. PrefixesTo(LabelIds, t, k) \in SUBSET Prefixes(LabelIds, t)
  BY DEF PrefixesTo
<1>3. Counted(PrefixTable(LabelIds, First, Move, t), PrefixesTo(LabelIds, t, k))
  BY <1>1, <1>2, CountedSubset
<1> QED
  BY <1>3, SumType DEF LeadingTo

LEMMA ForwardKeepsCrf == ASSUME IInv, CrfInv, Forward PROVE CrfInv'
<1> DEFINE u == Len(alpha) + 1
           row == AlphaAt(u)
<1>1. /\ phase = "forward" /\ alpha' = Append(alpha, row)
      /\ phase' = (IF u = Masked THEN "backward" ELSE phase)
      /\ UNCHANGED <<model, text, emissions, scores, back, path, beta>>
  BY DEF Forward
<1>2. /\ Masked' = Masked /\ LabelIds' = LabelIds
      /\ First' = First /\ Move' = Move /\ Last' = Last
  BY <1>1, SameChain
<1>3. TypeOK /\ HasEmissions /\ Masked \in Nat /\ Masked > 0
  BY <1>1, InDecoding
<1>4. /\ Len(alpha) \in Nat /\ Len(alpha) < Masked /\ alpha \in Seq([LabelIds -> Nat]) /\ beta = <<>>
      /\ \A t \in 1..Len(alpha) : \A k \in LabelIds :
           alpha[t][k] = LeadingTo(LabelIds, First, Move, t, k)
  BY <1>1 DEF CrfInv, PassesExact
<1>5. u \in 1..Masked
  BY <1>3, <1>4
<1>6. \A k \in LabelIds : row[k] = LeadingTo(LabelIds, First, Move, u, k)
  BY <1>1, AlphaExact
<1>7. row \in [LabelIds -> Nat]
  <2>1. \A k \in LabelIds : row[k] \in Nat
    <3> HIDE DEF u, row
    <3> QED
      BY <1>3, <1>5, <1>6, LeadingType
  <2>2. row = [k \in LabelIds |-> row[k]]
    BY DEF AlphaAt
  <2> HIDE DEF row
  <2> QED
    BY <2>1, <2>2
<1>8. /\ alpha' \in Seq([LabelIds -> Nat]) /\ Len(alpha') = u /\ alpha'[u] = row
      /\ \A t \in 1..Len(alpha) : alpha'[t] = alpha[t]
  <2> HIDE DEF row
  <2> QED
    BY <1>1, <1>4, <1>7
<1>9. ASSUME NEW t \in 1..u, NEW k \in LabelIds
      PROVE  alpha'[t][k] = LeadingTo(LabelIds, First, Move, t, k)
  <2>1. CASE t = u
    BY <1>6, <1>8, <2>1
  <2>2. CASE t # u
    <3>1. t \in 1..Len(alpha)
      BY <1>4, <2>2
    <3> QED
      BY <1>4, <1>8, <3>1
  <2> QED
    BY <2>1, <2>2
<1>10. PassesExact'
  <2>1. u # Masked => u < Masked
    BY <1>3, <1>5
  <2> HIDE DEF u, row
  <2> QED
    BY <1>1, <1>2, <1>3, <1>4, <1>8, <1>9, <2>1 DEF PassesExact
<1>11. DecodedPathIsBest'
  <2>1. alpha' # <<>>
    BY <1>4, <1>8
  <2> QED
    BY <2>1 DEF DecodedPathIsBest
<1>12. Sensed' /\ ScoresExact' /\ PathFollows' /\ ProbsExact' /\ ConfidenceIsBacked'
  BY <1>1, <1>2
  DEF CrfInv, Sensed, WellShaped, ScoresExact, PathFollows, ProbsExact, ConfidenceIsBacked
<1> QED
  BY <1>10, <1>11, <1>12 DEF CrfInv

\* The next backward sum, from the one after it.
LEMMA BetaCompletes ==
  ASSUME IInv, CrfInv, phase = "backward", Len(beta) < Masked
  PROVE  Completes(BetaAt(Masked - Len(beta)), Masked, LabelIds, First, Move, Last, Masked - Len(beta))
<1> DEFINE t == Masked - Len(beta)
           u == t + 1
           b2 == BetaAt(t)
<1>1. /\ TypeOK /\ HasEmissions /\ Masked \in Nat /\ Masked > 0
      /\ Chain(Masked, LabelIds, First, Move, Last)
  BY InDecoding
<1>2. /\ Len(beta) \in Nat /\ beta \in Seq([LabelIds -> Nat])
      /\ \A i \in 1..Len(beta) :
           Completes(beta[i], Masked, LabelIds, First, Move, Last, (Masked - Len(beta)) + i)
  BY DEF CrfInv, PassesExact
<1>3. CASE Len(beta) = 0
  <2>1. t = Masked
    BY <1>1, <1>3
  <2>2. b2 = Last
    BY <2>1 DEF BetaAt, Last
  <2>3. Completes(Last, Masked, LabelIds, First, Move, Last, Masked)
    BY <1>1, BackwardLast
  <2> HIDE DEF t, b2
  <2> QED
    BY <2>1, <2>2, <2>3 DEF b2, t
<1>4. CASE Len(beta) # 0
  <2> DEFINE b == Head(beta)
  <2>1. /\ t \in 1..Masked /\ u \in 1..Masked /\ u \in 2..Masked /\ t # Masked
        /\ b = beta[1] /\ 1 \in 1..Len(beta) /\ (Masked - Len(beta)) + 1 = u
    BY <1>1, <1>2, <1>4
  <2>2. Completes(b, Masked, LabelIds, First, Move, Last, u)
    BY <1>2, <2>1
  <2>3. b \in [LabelIds -> Nat]
    BY <2>2 DEF Completes
  <2>4. ASSUME NEW prev \in LabelIds
        PROVE  \E g : /\ \A next \in LabelIds : g[next] = Move[u][prev][next] * b[next]
                      /\ b2[prev] = SumFunctionOnSet(g, LabelIds) /\ b2[prev] \in Nat
    <3> DEFINE g == [next \in LabelIds |-> Transition(prev, next) * emissions[t + 1][next] * Head(beta)[next]]
    <3>1. b2[prev] = SumFunctionOnSet(g, LabelIds)
      BY <2>1 DEF BetaAt, SumFunction
    <3>2. ASSUME NEW next \in LabelIds
          PROVE  g[next] = Move[u][prev][next] * b[next] /\ g[next] \in Nat
      <4>1. /\ Move[u][prev][next] = Transition(prev, next) * emissions[u][next]
            /\ Transition(prev, next) \in Nat /\ emissions[u][next] \in Nat
        BY <1>1, <2>1, MoveIs
      <4>2. g[next] = (Transition(prev, next) * emissions[u][next]) * b[next]
        OBVIOUS
      <4>3. b[next] \in Nat
        BY <2>3
      <4> HIDE DEF g, u, t, b, b2
      <4>4. (Transition(prev, next) * emissions[u][next]) * b[next] \in Nat
        BY <4>1, <4>3
      <4> QED
        BY <4>1, <4>2, <4>4
    <3>3. Counted(g, LabelIds)
      BY <1>1, <3>2 DEF Counted, Chain
    <3> HIDE DEF g, u, t, b, b2
    <3>4. SumFunctionOnSet(g, LabelIds) \in Nat
      BY <3>3, SumType
    <3> QED
      BY <3>1, <3>2, <3>4
  <2>5. b2 \in [LabelIds -> Nat]
    <3>1. b2 = [prev \in LabelIds |-> b2[prev]]
      BY DEF BetaAt
    <3> HIDE DEF b2, u, b
    <3> QED
      BY <2>4, <3>1
  <2>6. Completes(b2, Masked, LabelIds, First, Move, Last, t)
    <3> DEFINE L == LabelIds
               move == Move
    <3>1. /\ \A prev \in L : \E g : /\ \A next \in L : g[next] = move[u][prev][next] * b[next]
                                    /\ b2[prev] = SumFunctionOnSet(g, L)
          /\ Chain(Masked, L, First, move, Last)
          /\ t \in 1..Masked /\ u \in 1..Masked /\ u = t + 1
          /\ b2 \in [L -> Nat] /\ Completes(b, Masked, L, First, move, Last, u)
      <4> HIDE DEF b, b2
      <4> QED
        BY <1>1, <2>1, <2>2, <2>4, <2>5
    <3> HIDE DEF L, move, b, b2, t, u
    <3>2. Completes(b2, Masked, L, First, move, Last, t)
      BY <3>1, BackwardNext
    <3> QED
      BY <3>2 DEF L, move
  <2> QED
    BY <2>6
<1> QED
  BY <1>3, <1>4

LEMMA BackwardKeepsCrf == ASSUME IInv, CrfInv, Backward PROVE CrfInv'
<1> DEFINE t == Masked - Len(beta)
           row == BetaAt(t)
<1>1. /\ phase = "backward" /\ Len(beta) < Masked /\ beta' = <<row>> \o beta
      /\ UNCHANGED <<model, text, phase, emissions, scores, back, path, alpha>>
  BY DEF Backward
<1>2. /\ Masked' = Masked /\ LabelIds' = LabelIds
      /\ First' = First /\ Move' = Move /\ Last' = Last
  BY <1>1, SameChain
<1>3. TypeOK /\ HasEmissions /\ Masked \in Nat /\ Masked > 0
  BY <1>1, InDecoding
<1>4. /\ Len(beta) \in Nat /\ beta \in Seq([LabelIds -> Nat])
      /\ \A i \in 1..Len(beta) :
           Completes(beta[i], Masked, LabelIds, First, Move, Last, (Masked - Len(beta)) + i)
  BY <1>1 DEF CrfInv, PassesExact
<1>5. Completes(row, Masked, LabelIds, First, Move, Last, t)
  BY <1>1, BetaCompletes
<1>6. row \in [LabelIds -> Nat]
  BY <1>5 DEF Completes
<1>7. /\ beta' \in Seq([LabelIds -> Nat]) /\ Len(beta') = Len(beta) + 1 /\ beta'[1] = row
      /\ \A i \in 1..Len(beta) : beta'[i + 1] = beta[i]
  <2> HIDE DEF row
  <2> QED
    BY <1>1, <1>4, <1>6
<1>8. ASSUME NEW i \in 1..Len(beta')
      PROVE  Completes(beta'[i], Masked, LabelIds, First, Move, Last, (Masked - Len(beta')) + i)
  <2>1. CASE i = 1
    <3>1. (Masked - Len(beta')) + i = t
      BY <1>3, <1>4, <1>7, <2>1
    <3> HIDE DEF t, row
    <3> QED
      BY <1>5, <1>7, <2>1, <3>1
  <2>2. CASE i # 1
    <3> DEFINE j == i - 1
    <3>1. j \in 1..Len(beta) /\ i = j + 1 /\ (Masked - Len(beta')) + i = (Masked - Len(beta)) + j
      BY <1>3, <1>4, <1>7, <2>2
    <3> HIDE DEF j, row
    <3>2. beta'[i] = beta[j]
      BY <1>7, <3>1
    <3> QED
      BY <1>4, <3>1, <3>2
  <2> QED
    BY <2>1, <2>2
<1>9. PassesExact'
  <2>1. Len(beta') <= Masked
    BY <1>1, <1>3, <1>4, <1>7
  <2> HIDE DEF row, t
  <2> QED
    BY <1>1, <1>2, <1>7, <1>8, <2>1 DEF CrfInv, PassesExact
<1>10. Sensed' /\ ScoresExact' /\ PathFollows' /\ ProbsExact' /\ DecodedPathIsBest' /\ ConfidenceIsBacked'
  BY <1>1, <1>2
  DEF CrfInv, Sensed, WellShaped, ScoresExact, PathFollows, ProbsExact, DecodedPathIsBest, ConfidenceIsBacked
<1> QED
  BY <1>9, <1>10 DEF CrfInv

LEMMA MarginalsKeepsCrf == ASSUME IInv, CrfInv, Marginals PROVE CrfInv'
<1>1. /\ phase = "backward" /\ Len(beta) = Masked /\ phase' = "cut"
      /\ probs' = [p \in 1..model.maxLength |-> [k \in LabelIds |->
                     IF p <= Masked THEN alpha[p][k] * beta[p][k] ELSE 0]]
      /\ UNCHANGED <<model, text, emissions, scores, back, path, alpha, beta>>
  BY DEF Marginals
<1>2. /\ Masked' = Masked /\ LabelIds' = LabelIds
      /\ First' = First /\ Move' = Move /\ Last' = Last /\ PathTable' = PathTable
  BY <1>1, SameChain
<1>3. /\ TypeOK /\ HasEmissions /\ Masked \in Nat /\ Masked > 0
      /\ Chain(Masked, LabelIds, First, Move, Last) /\ model.maxLength \in Nat
  BY <1>1, InDecoding, TaggingAssumption DEF TypeOK
<1>4. /\ Len(alpha) = Masked
      /\ \A t \in 1..Masked : \A k \in LabelIds : alpha[t][k] = LeadingTo(LabelIds, First, Move, t, k)
  BY <1>1 DEF CrfInv, PassesExact
<1>5. ASSUME NEW t \in 1..Masked PROVE Completes(beta[t], Masked, LabelIds, First, Move, Last, t)
  <2>1. (Masked - Len(beta)) + t = t
    BY <1>1, <1>3
  <2> QED
    BY <1>1, <2>1 DEF CrfInv, PassesExact
<1>6. ASSUME NEW t \in 1..model.maxLength, NEW k \in LabelIds
      PROVE  probs'[t][k] = IF t > Masked THEN 0
                            ELSE SumFunctionOnSet(PathTable, Through(Masked, LabelIds, t, k))
  <2>1. CASE t > Masked
    BY <1>1, <1>3, <2>1
  <2>2. CASE ~ (t > Masked)
    <3>1. t \in 1..Masked /\ t <= Masked
      BY <1>3, <2>2
    <3>2. probs'[t][k] = alpha[t][k] * beta[t][k]
      BY <1>1, <3>1
    <3>3. SumFunctionOnSet(PathTable, Through(Masked, LabelIds, t, k))
            = LeadingTo(LabelIds, First, Move, t, k) * beta[t][k]
      BY <1>3, <1>5, <3>1, Marginal DEF PathTable
    <3> QED
      BY <1>4, <2>2, <3>1, <3>2, <3>3
  <2> QED
    BY <2>1, <2>2
<1>7. ProbsExact'
  BY <1>1, <1>2, <1>6 DEF ProbsExact
<1>8. PassesExact'
  BY <1>1, <1>2 DEF CrfInv, PassesExact
<1>9. Sensed' /\ ScoresExact' /\ PathFollows' /\ DecodedPathIsBest' /\ ConfidenceIsBacked'
  BY <1>1, <1>2
  DEF CrfInv, Sensed, WellShaped, ScoresExact, PathFollows, DecodedPathIsBest, ConfidenceIsBacked
<1> QED
  BY <1>7, <1>8, <1>9 DEF CrfInv

\* Cutting spans touches neither the path nor the marginals.
LEMMA CutKeepsCrf == ASSUME IInv, CrfInv, CutSpan \/ CutDone PROVE CrfInv'
<1>1. /\ phase = "cut" /\ phase' \in {"cut", "report"}
      /\ UNCHANGED <<model, text, emissions, scores, back, path, alpha, beta, probs>>
  BY DEF CutSpan, CutDone
<1>2. /\ Masked' = Masked /\ LabelIds' = LabelIds
      /\ First' = First /\ Move' = Move /\ Last' = Last /\ PathTable' = PathTable
  BY <1>1, SameChain
<1>3. ProbsExact'
  BY <1>1, <1>2 DEF CrfInv, ProbsExact
<1>4. PassesExact'
  BY <1>1, <1>2 DEF CrfInv, PassesExact
<1>5. Sensed' /\ ScoresExact' /\ PathFollows' /\ DecodedPathIsBest' /\ ConfidenceIsBacked'
  BY <1>1, <1>2
  DEF CrfInv, Sensed, WellShaped, ScoresExact, PathFollows, DecodedPathIsBest, ConfidenceIsBacked
<1> QED
  BY <1>3, <1>4, <1>5 DEF CrfInv

\* What the marginals of a position are, as sums over paths.
LEMMA MarginalsOfPosition ==
  ASSUME IInv, CrfInv, phase \in {"cut", "report", "answered"}, Masked > 0, NEW t \in 1..Masked
  PROVE  /\ Counted(probs[t], LabelIds)
         /\ \A k \in LabelIds : probs[t][k] = SumFunctionOnSet(PathTable, Through(Masked, LabelIds, t, k))
         /\ SumFunctionOnSet(probs[t], LabelIds) = SumFunctionOnSet(PathTable, Prefixes(LabelIds, Masked))
<1>1. /\ TypeOK /\ HasEmissions /\ Masked \in Nat /\ model.maxLength \in Nat /\ Masked <= model.maxLength
  BY Sizes, TaggingAssumption DEF IInv, TypeOK, CrfInv, Sensed, HasEmissions, Masked
<1>2. Chain(Masked, LabelIds, First, Move, Last)
  BY <1>1, CrfIsChain
<1>3. t \in 1..model.maxLength /\ ~ (t > Masked)
  BY <1>1
<1>4. \A k \in LabelIds : probs[t][k] = SumFunctionOnSet(PathTable, Through(Masked, LabelIds, t, k))
  BY <1>3 DEF CrfInv, ProbsExact
<1> DEFINE g == probs[t]
<1>5. \A k \in LabelIds : g[k] = SumFunctionOnSet(PathTable, Through(Masked, LabelIds, t, k))
  BY <1>4
<1> HIDE DEF g
<1>6. /\ SumFunctionOnSet(PathTable, Prefixes(LabelIds, Masked)) = SumFunctionOnSet(g, LabelIds)
      /\ Counted(g, LabelIds)
  BY <1>2, <1>5, TotalThrough DEF PathTable
<1> QED
  BY <1>4, <1>6 DEF g

\* The partition sum is the weight of all paths.
LEMMA PartitionIsTotal ==
  ASSUME IInv, CrfInv, phase \in {"cut", "report", "answered"}, Masked > 0
  PROVE  /\ Partition = SumFunctionOnSet(PathTable, Prefixes(LabelIds, Masked))
         /\ Partition \in Nat
<1> DEFINE g == [id \in LabelIds |-> alpha[Masked][id] * ValueAt(model.end, id)]
<1>1. /\ TypeOK /\ HasEmissions /\ Masked \in Nat
  BY Sizes DEF IInv, CrfInv, Sensed, HasEmissions
<1>2. Chain(Masked, LabelIds, First, Move, Last) /\ Masked \in 1..Masked
  BY <1>1, CrfIsChain
<1>3. ASSUME NEW k \in LabelIds
      PROVE  g[k] = SumFunctionOnSet(PathTable, Through(Masked, LabelIds, Masked, k))
  <2>1. Completes(Last, Masked, LabelIds, First, Move, Last, Masked)
    BY <1>2, BackwardLast
  <2>2. SumFunctionOnSet(PathTable, Through(Masked, LabelIds, Masked, k))
          = LeadingTo(LabelIds, First, Move, Masked, k) * Last[k]
    BY <1>2, <2>1, Marginal DEF PathTable
  <2>3. alpha[Masked][k] = LeadingTo(LabelIds, First, Move, Masked, k)
    BY <1>2 DEF CrfInv, PassesExact
  <2> QED
    BY <2>2, <2>3 DEF Last
<1>4. Partition = SumFunctionOnSet(g, LabelIds)
  BY DEF Partition, SumFunction
<1> HIDE DEF g
<1>5. /\ SumFunctionOnSet(PathTable, Prefixes(LabelIds, Masked)) = SumFunctionOnSet(g, LabelIds)
      /\ Counted(g, LabelIds)
  BY <1>2, <1>3, TotalThrough DEF PathTable
<1>6. SumFunctionOnSet(g, LabelIds) \in Nat
  BY <1>5, SumType
<1> QED
  BY <1>4, <1>5, <1>6

\* A span of an entity sums the label the path has at each of its positions.
LEMMA PathLabelCounted ==
  ASSUME IInv, phase = "report", NEW s \in DOMAIN spans, spans[s].tag # Other, NEW p \in Held(spans[s])
  PROVE  path[p] \in BioTagIndices(spans[s].tag)
<1> DEFINE tag == spans[s].tag
           label == model.labels[path[p]]
<1>1. spans[s] \in [start: Nat, end: 0..Len(path), tag: Tags] /\ Len(path) \in Nat /\ TypeOK
  <2> DEFINE Spans == [start: Nat, end: 0..Len(path), tag: Tags]
  <2>1. spans \in Seq(Spans)
    BY DEF IInv, TypeOK
  <2> HIDE DEF Spans
  <2>2. spans[s] \in Spans
    BY <2>1
  <2> QED
    BY <2>2, Sizes DEF Spans, IInv
<1>2. p \in Positions /\ p \in (spans[s].start + 1)..spans[s].end
  BY <1>1 DEF Held, Positions
<1>3. path[p] \in LabelIds /\ TagAt(p) \in Label /\ TagAt(p) = label
  BY <1>1, <1>2, Sizes DEF TagAt
<1>4. label.tag = tag /\ label.bio \in {Before, Inside}
  <2>1. CASE model.strict
    <3>1. CASE p = spans[s].start + 1
      BY <1>3, <2>1, <3>1 DEF IInv, StrictSpansAreEntities
    <3>2. CASE p # spans[s].start + 1
      BY <1>3, <2>1, <3>2 DEF IInv, StrictSpansAreEntities
    <3> QED
      BY <3>1, <3>2
  <2>2. CASE ~ model.strict
    <3>1. TagForSpan(TagAt(p)) = tag
      BY <2>2 DEF IInv, NonStrictSpansAreRuns
    <3>2. TagAt(p).bio \in {Before, Inside, Outside}
      BY <1>3, TagsOfLabels
    <3> QED
      BY <1>3, <3>1, <3>2 DEF TagForSpan
  <2> QED
    BY <2>1, <2>2
<1> QED
  BY <1>3, <1>4 DEF BioTagIndices

\* What one position adds to the confidence of its span.
LEMMA SeriesBounds ==
  ASSUME IInv, CrfInv, phase = "report", NEW s \in DOMAIN spans, NEW p \in Held(spans[s])
  PROVE  /\ TagSeries(spans[s].tag, p) \in Nat
         /\ TagSeries(spans[s].tag, p) <= Partition /\ Partition \in Nat
         /\ spans[s].tag # Other => TagSeries(spans[s].tag, p) >= Weight(path)
         /\ Weight(path) \in Nat
<1> DEFINE tag == spans[s].tag
           K == BioTagIndices(tag)
           g == probs[p]
           k == path[p]
<1>1. spans[s] \in [start: Nat, end: 0..Len(path), tag: Tags] /\ Len(path) = Masked /\ TypeOK
      /\ Masked \in Nat
  <2> DEFINE Spans == [start: Nat, end: 0..Len(path), tag: Tags]
  <2>1. spans \in Seq(Spans)
    BY DEF IInv, TypeOK
  <2> HIDE DEF Spans
  <2>2. spans[s] \in Spans
    BY <2>1
  <2> QED
    BY <2>2, Sizes DEF Spans, IInv, Progress
<1>2. p \in 1..Masked /\ Masked > 0 /\ HasEmissions
  BY <1>1 DEF Held, CrfInv, Sensed, HasEmissions
<1>3. /\ Counted(g, LabelIds)
      /\ \A j \in LabelIds : g[j] = SumFunctionOnSet(PathTable, Through(Masked, LabelIds, p, j))
      /\ SumFunctionOnSet(g, LabelIds) = SumFunctionOnSet(PathTable, Prefixes(LabelIds, Masked))
  BY <1>2, MarginalsOfPosition
<1>4. Partition = SumFunctionOnSet(g, LabelIds) /\ Partition \in Nat
  BY <1>2, <1>3, PartitionIsTotal
<1>5. K \in SUBSET LabelIds /\ TagSeries(tag, p) = SumFunctionOnSet(g, K)
  BY DEF BioTagIndices, TagSeries
<1>6. path \in Prefixes(LabelIds, Masked) /\ \A t \in 1..Masked : path[t] \in LabelIds
  BY <1>1 DEF TypeOK, Prefixes
<1>7. Weight(path) = PathTable[path] /\ Weight(path) \in Nat
  <2>1. Weight(path) = PathWeight(Masked, First, Move, Last, path) /\ Weight(path) \in Nat
    BY <1>1, <1>2, <1>6, WeightIsPathWeight
  <2> QED
    BY <1>6, <2>1 DEF PathTable, WeightTable
<1>8. Weight(path) <= g[k] /\ k \in LabelIds /\ g[k] \in Nat
  <2> DEFINE R == Through(Masked, LabelIds, p, k)
  <2>1. k \in LabelIds
    BY <1>2, <1>6
  <2>2. R \in SUBSET Prefixes(LabelIds, Masked) /\ path \in R
    BY <1>6 DEF Through
  <2>3. Counted(PathTable, Prefixes(LabelIds, Masked))
    BY <1>1, <1>2, CrfIsChain, WeightsCounted DEF PathTable
  <2>4. g[k] = SumFunctionOnSet(PathTable, R) /\ g[k] \in Nat
    BY <1>3, <2>1 DEF Counted
  <2> HIDE DEF R, g, k
  <2>5. Counted(PathTable, R)
    BY <2>2, <2>3, CountedSubset
  <2>6. PathTable[path] <= SumFunctionOnSet(PathTable, R)
    BY <2>2, <2>5, SumMember
  <2> QED
    BY <1>7, <2>1, <2>4, <2>6
<1>9. tag # Other => k \in K
  BY PathLabelCounted
<1> HIDE DEF g, K, k, tag
<1>10. Counted(g, K)
  BY <1>3, <1>5, CountedSubset
<1>11. SumFunctionOnSet(g, K) \in Nat
  BY <1>10, SumType
<1>12. SumFunctionOnSet(g, K) <= SumFunctionOnSet(g, LabelIds)
  BY <1>3, <1>5, SumSubset
<1>13. k \in K => g[k] <= SumFunctionOnSet(g, K)
  BY <1>10, SumMember
<1>14. tag # Other => TagSeries(tag, p) >= Weight(path)
  BY <1>5, <1>7, <1>8, <1>9, <1>11, <1>13
<1> QED
  BY <1>4, <1>5, <1>7, <1>11, <1>12, <1>14 DEF tag

LEMMA SpanSumBounds ==
  ASSUME IInv, CrfInv, phase = "report", NEW s \in DOMAIN spans
  PROVE  /\ SpanSum(spans[s]) <= (spans[s].end - spans[s].start) * Partition
         /\ spans[s].tag # Other =>
              SpanSum(spans[s]) >= (spans[s].end - spans[s].start) * Weight(path)
<1> DEFINE a == spans[s].start
           b == spans[s].end
           S == (a + 1)..b
           f == [p \in S |-> TagSeries(spans[s].tag, p)]
<1>1. a \in Nat /\ b \in Nat /\ a < b
  <2> DEFINE Spans == [start: Nat, end: 0..Len(path), tag: Tags]
  <2>1. spans \in Seq(Spans)
    BY DEF IInv, TypeOK
  <2>2. spans[s] \in Spans
    <3> HIDE DEF Spans
    <3> QED
      BY <2>1
  <2> QED
    BY <2>2 DEF IInv, SpansTile
<1>2. S = Held(spans[s])
  BY DEF Held
<1>3. a + 1 \in S
  BY <1>1
<1>4. Partition \in Nat /\ Weight(path) \in Nat
  BY <1>2, <1>3, SeriesBounds
<1>5. ASSUME NEW p \in S
      PROVE  f[p] \in Nat /\ f[p] <= Partition /\ (spans[s].tag # Other => f[p] >= Weight(path))
  BY <1>2, SeriesBounds
<1>6. SpanSum(spans[s]) = SumFunctionOnSet(f, S)
  BY DEF SpanSum, SumFunction
<1> DEFINE u == Partition
           l == Weight(path)
<1>7. /\ a \in Nat /\ b \in Nat /\ a <= b /\ l \in Nat /\ u \in Nat
      /\ \A x \in (a + 1)..b : f[x] \in Nat
  BY <1>1, <1>4, <1>5
<1> HIDE DEF f, a, b, u, l
<1>8. /\ (\A x \in (a + 1)..b : f[x] <= u) => SumFunctionOnSet(f, (a + 1)..b) <= (b - a) * u
      /\ (\A x \in (a + 1)..b : f[x] >= l) => SumFunctionOnSet(f, (a + 1)..b) >= (b - a) * l
  BY <1>7, SumInterval
<1> QED
  BY <1>5, <1>6, <1>8 DEF a, b, u, l

LEMMA ReportKeepsCrf == ASSUME IInv, CrfInv, Report PROVE CrfInv'
<1>1. /\ phase = "report" /\ phase' = "answered"
      /\ confidence' = [s \in DOMAIN spans |-> SpanSum(spans[s])]
      /\ UNCHANGED <<model, text, emissions, scores, back, path, alpha, beta, probs, spans>>
  BY DEF Report
<1>2. /\ Masked' = Masked /\ LabelIds' = LabelIds
      /\ First' = First /\ Move' = Move /\ Last' = Last /\ PathTable' = PathTable
  BY <1>1, SameChain
<1>3. ConfidenceIsBacked'
  <2>1. Weight(path)' = Weight(path)
    BY <1>1, SameWeight DEF Weight
  <2>2. Partition' = Partition
    BY <1>1, <1>2 DEF Partition
  <2>3. ASSUME NEW s \in DOMAIN spans
        PROVE  /\ confidence'[s] <= (spans[s].end - spans[s].start) * Partition
               /\ spans[s].tag # Other =>
                    confidence'[s] >= (spans[s].end - spans[s].start) * Weight(path)
    BY <1>1, SpanSumBounds
  <2> QED
    BY <1>1, <2>1, <2>2, <2>3 DEF ConfidenceIsBacked
<1>4. ProbsExact'
  BY <1>1, <1>2 DEF CrfInv, ProbsExact
<1>5. PassesExact'
  BY <1>1, <1>2 DEF CrfInv, PassesExact
<1>6. Sensed' /\ ScoresExact' /\ PathFollows' /\ DecodedPathIsBest'
  BY <1>1, <1>2
  DEF CrfInv, Sensed, WellShaped, ScoresExact, PathFollows, DecodedPathIsBest
<1> QED
  BY <1>3, <1>4, <1>5, <1>6 DEF CrfInv

LEMMA RestKeepsCrf == ASSUME IInv, CrfInv, UNCHANGED vars PROVE CrfInv'
<1>1. UNCHANGED <<model, text, phase, emissions, scores, back, path, alpha, beta, probs, spans, confidence>>
  BY DEF vars
<1>2. /\ Masked' = Masked /\ LabelIds' = LabelIds
      /\ First' = First /\ Move' = Move /\ Last' = Last /\ PathTable' = PathTable
  BY <1>1, SameChain
<1>3. \A p : Weight(p)' = Weight(p)
  BY <1>1, SameWeight
<1>4. Weight(path)' = Weight(path)
  BY <1>1, SameWeight DEF Weight
<1>5. Partition' = Partition
  BY <1>1, <1>2 DEF Partition
<1>6. LastLabel' = LastLabel
  BY <1>1, SameLastLabel
<1>7. Sensed' /\ ScoresExact' /\ PathFollows'
  BY <1>1, <1>2, <1>6 DEF CrfInv, Sensed, WellShaped, ScoresExact, PathFollows
<1>8. PassesExact'
  BY <1>1, <1>2 DEF CrfInv, PassesExact
<1>9. ProbsExact'
  BY <1>1, <1>2 DEF CrfInv, ProbsExact
<1>10. DecodedPathIsBest'
  <2>1. Paths' = Paths
    BY <1>2 DEF Paths
  <2> QED
    BY <1>1, <1>2, <1>3, <1>4, <2>1 DEF CrfInv, DecodedPathIsBest
<1>11. ConfidenceIsBacked'
  BY <1>1, <1>4, <1>5 DEF CrfInv, ConfidenceIsBacked
<1> QED
  BY <1>7, <1>8, <1>9, <1>10, <1>11 DEF CrfInv

LEMMA CrfNext == IInv /\ CrfInv /\ [Next]_vars => CrfInv'
<1> SUFFICES ASSUME IInv, CrfInv, [Next]_vars PROVE CrfInv'
  OBVIOUS
<1>1. CASE CleanSample \/ RejectLong \/ EngineError
  BY <1>1, BeforeDecodingKeepsCrf
<1>2. CASE RunEngine
  BY <1>2, RunEngineKeepsCrf
<1>3. CASE DecodeFirst \/ DecodeNext \/ DecodeLast \/ TraceBack \/ DecodeDone
  BY <1>3, DecodeFirstKeepsCrf, DecodeNextKeepsCrf, DecodeLastKeepsCrf, TraceBackKeepsCrf, DecodeDoneKeepsCrf
<1>4. CASE Forward \/ Backward \/ Marginals
  BY <1>4, ForwardKeepsCrf, BackwardKeepsCrf, MarginalsKeepsCrf
<1>5. CASE CutSpan \/ CutDone
  BY <1>5, CutKeepsCrf
<1>6. CASE Report
  BY <1>6, ReportKeepsCrf
<1>7. CASE Rest \/ UNCHANGED vars
  BY <1>7, RestKeepsCrf DEF Rest
<1> QED
  BY <1>1, <1>2, <1>3, <1>4, <1>5, <1>6, <1>7 DEF Next, Decode, MarginalProbabilities

LEMMA CrfInvariant == Spec => []CrfInv
BY CrfInit, CrfNext, Invariant, PTL DEF Spec

\* CRF.Decode's path is a best one, for any weights and any output of the network.
THEOREM DecodingCorrect == Spec => []DecodedPathIsBest
<1>1. CrfInv => DecodedPathIsBest
  BY DEF CrfInv
<1> QED
  BY <1>1, CrfInvariant, PTL

\* MarginalProbabilities returns the marginals.
THEOREM MarginalsCorrect == Spec => []MarginalsAreExact
<1>1. IInv /\ CrfInv => MarginalsAreExact
  <2> SUFFICES ASSUME IInv, CrfInv, phase = "cut",
                      NEW t \in 1..model.maxLength, NEW k \in LabelIds
               PROVE  probs[t][k] = IF t > Masked THEN 0
                                    ELSE LET through == {p \in Paths : p[t] = k}
                                         IN SumFunction([p \in through |-> Weight(p)])
    BY DEF MarginalsAreExact
  <2> DEFINE through == {p \in Paths : p[t] = k}
             g == [p \in through |-> Weight(p)]
  <2>1. /\ TypeOK /\ HasEmissions /\ Masked \in Nat /\ Masked > 0 /\ model.maxLength \in Nat
        /\ Chain(Masked, LabelIds, First, Move, Last)
    BY InDecoding, TaggingAssumption DEF TypeOK
  <2>2. CASE t > Masked
    BY <2>2 DEF CrfInv, ProbsExact
  <2>3. CASE ~ (t > Masked)
    <3>1. probs[t][k] = SumFunctionOnSet(PathTable, Through(Masked, LabelIds, t, k))
      BY <2>3 DEF CrfInv, ProbsExact
    <3>2. Through(Masked, LabelIds, t, k) = through
      BY DEF Through, Paths, Prefixes
    <3>3. through \in SUBSET Prefixes(LabelIds, Masked)
      BY DEF Paths, Prefixes
    <3>4. ASSUME NEW p \in through PROVE PathTable[p] = g[p]
      <4>1. p \in Prefixes(LabelIds, Masked) /\ \A s \in 1..Masked : p[s] \in LabelIds
        BY DEF Paths, Prefixes
      <4>2. Weight(p) = PathWeight(Masked, First, Move, Last, p)
        BY <2>1, <4>1, WeightIsPathWeight
      <4> QED
        BY <4>1, <4>2 DEF PathTable, WeightTable
    <3>5. SumFunction(g) = SumFunctionOnSet(g, through)
      BY DEF SumFunction
    <3>6. Counted(PathTable, Prefixes(LabelIds, Masked))
      BY <2>1, WeightsCounted DEF PathTable
    <3> HIDE DEF through, g
    <3>7. Counted(PathTable, through)
      BY <3>3, <3>6, CountedSubset
    <3>8. SumFunctionOnSet(PathTable, through) = SumFunctionOnSet(g, through)
      BY <3>4, <3>7, SumSame
    <3>9. probs[t][k] = SumFunction(g)
      BY <3>1, <3>2, <3>5, <3>8
    <3> QED
      BY <2>3, <3>9 DEF g, through
  <2> QED
    BY <2>2, <2>3
<1> QED
  BY <1>1, Invariant, CrfInvariant, PTL

\* The confidence of a span lies between the path's share and 1.
THEOREM ConfidenceCorrect == Spec => []ConfidenceIsBacked
<1>1. CrfInv => ConfidenceIsBacked
  BY DEF CrfInv
<1> QED
  BY <1>1, CrfInvariant, PTL
=============================================================================
