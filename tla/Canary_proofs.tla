--------------------------- MODULE Canary_proofs ---------------------------
(***************************************************************************)
(* Proofs about Canary: that minimum_canary_cover returns what its name    *)
(* says, that the frozen budgets suffice, and that the gate takes the      *)
(* receipts, for any assets, prior evidence, rounds and archive.           *)
(***************************************************************************)
EXTENDS Canary, FiniteSetTheorems, SequenceTheorems, WellFoundedInduction, TLAPS

-----------------------------------------------------------------------------
(***************************************************************************)
(* Numbers and finite sets.  The library's induction theorems cannot be    *)
(* used here; a least counterexample serves instead.                       *)
(***************************************************************************)

\* A nonempty set of naturals has a least element.
LEMMA Least ==
  ASSUME NEW S \in SUBSET Nat, S # {}
  PROVE  \E x \in S : \A y \in S : x <= y
<1>1. PICK x \in S : \A y \in S : ~(<<y, x>> \in OpToRel(<, Nat))
  BY NatLessThanWellFounded, WFMin, Zenon
<1>2. \A y \in S : y \in Nat /\ x \in Nat => ~(y < x)
  BY <1>1, Zenon DEF OpToRel
<1> QED BY <1>2

LEMMA MinFacts ==
  ASSUME NEW S \in SUBSET Nat, S # {}
  PROVE  Min(S) \in S /\ \A y \in S : Min(S) <= y
<1>1. PICK x \in S : \A y \in S : x <= y
  BY Least
<1> QED BY <1>1, Zenon DEF Min

\* A set of finite sets has one none of whose parts but itself is in it.
LEMMA MinimalSet ==
  ASSUME NEW B, B # {}, \A T \in B : IsFiniteSet(T)
  PROVE  \E T \in B : \A U \in B : U \subseteq T => U = T
<1> DEFINE Sizes == {Cardinality(T) : T \in B}
<1>1. Sizes \in SUBSET Nat /\ Sizes # {}
  BY FS_CardinalityType
<1>2. PICK n \in Sizes : \A k \in Sizes : n <= k
  <2> HIDE DEF Sizes
  <2> QED BY <1>1, Least
<1>3. PICK T \in B : n = Cardinality(T)
  OBVIOUS
<1>4. ASSUME NEW U \in B, U \subseteq T PROVE U = T
  <2>1. IsFiniteSet(T) /\ Cardinality(U) <= Cardinality(T) /\ (Cardinality(T) = Cardinality(U) => T = U)
    BY <1>4, FS_Subset
  <2>2. Cardinality(T) <= Cardinality(U)
    BY <1>2, <1>3
  <2>3. Cardinality(T) \in Nat /\ Cardinality(U) \in Nat
    BY FS_CardinalityType
  <2> QED BY <2>1, <2>2, <2>3
<1> QED BY <1>4

\* A finite nonempty set of naturals has a greatest element.
LEMMA MaxFacts ==
  ASSUME NEW S \in SUBSET Nat, S # {}, IsFiniteSet(S)
  PROVE  Max(S) \in S /\ \A y \in S : y <= Max(S)
<1> DEFINE Has(T) == \E x \in T : \A y \in T : x >= y
           B == {T \in SUBSET S : T # {} /\ ~Has(T)}
<1>1. Has(S)
  <2> SUFFICES ASSUME ~Has(S) PROVE FALSE
    OBVIOUS
  <2>1. B # {} /\ \A T \in B : IsFiniteSet(T)
    BY FS_Subset
  <2>2. PICK T \in B : \A U \in B : U \subseteq T => U = T
    <3> HIDE DEF B
    <3> QED BY <2>1, MinimalSet
  <2>3. PICK t \in T : TRUE
    OBVIOUS
  <2>4. T \ {t} \notin B /\ T \ {t} \in SUBSET S
    BY <2>2
  <2>5. CASE T \ {t} = {}
    BY <2>5
  <2>6. CASE T \ {t} # {}
    <3>1. PICK x \in T \ {t} : \A y \in T \ {t} : x >= y
      BY <2>4, <2>6
    <3>2. CASE x >= t
      BY <3>1, <3>2
    <3>3. CASE ~(x >= t)
      <4>1. \A y \in T : t >= y
        BY <3>1, <3>3
      <4> QED BY <4>1
    <3> QED BY <3>2, <3>3
  <2> QED BY <2>5, <2>6
<1>2. PICK x \in S : \A y \in S : x >= y
  BY <1>1
<1>3. Max(S) \in S /\ \A y \in S : Max(S) >= y
  BY <1>2, Zenon DEF Max
<1> QED BY <1>3

-----------------------------------------------------------------------------
(***************************************************************************)
(* Selections of starts, from the latest to the earliest, and their order. *)
(***************************************************************************)
Desc(S) == {x \in Seq(S) : \A i, j \in DOMAIN x : i < j => x[i] > x[j]}

LEMMA BetterTransitive ==
  ASSUME NEW x \in Seq(Nat), NEW y \in Seq(Nat), NEW z \in Seq(Nat), Better(x, y), Better(y, z)
  PROVE  Better(x, z)
<1>0. /\ Len(x) \in Nat /\ Len(y) \in Nat /\ Len(z) \in Nat
      /\ \A i \in 1..Len(x) : x[i] \in Nat
      /\ \A i \in 1..Len(y) : y[i] \in Nat
      /\ \A i \in 1..Len(z) : z[i] \in Nat
  OBVIOUS
<1>1. CASE Len(x) < Len(y) \/ Len(y) < Len(z)
  BY <1>0, <1>1 DEF Better
<1>2. CASE Len(x) = Len(y) /\ Len(y) = Len(z)
  <2>1. PICK i \in 1..Len(x) : x[i] > y[i] /\ \A j \in 1..i - 1 : x[j] = y[j]
    BY <1>0, <1>2 DEF Better
  <2>2. PICK k \in 1..Len(x) : y[k] > z[k] /\ \A j \in 1..k - 1 : y[j] = z[j]
    BY <1>0, <1>2 DEF Better
  <2>3. CASE i <= k
    <3>1. y[i] >= z[i]
      <4>0. y[i] \in Nat /\ z[i] \in Nat
        BY <1>0, <1>2
      <4>1. CASE i = k
        BY <2>2, <4>0, <4>1
      <4>2. CASE i < k
        <5>1. i \in 1..k - 1
          BY <1>0, <4>2
        <5> QED BY <2>2, <4>0, <5>1
      <4> QED BY <2>3, <4>1, <4>2
    <3>2. x[i] > z[i]
      <4>1. x[i] \in Nat /\ y[i] \in Nat /\ z[i] \in Nat
        BY <1>0, <1>2
      <4>2. x[i] > y[i]
        BY <2>1
      <4>3. \A a, b, c \in Nat : a > b /\ b >= c => a > c
        OBVIOUS
      <4> QED BY <3>1, <4>1, <4>2, <4>3, Zenon
    <3>3. \A j \in 1..i - 1 : x[j] = z[j]
      BY <1>0, <1>2, <2>1, <2>2, <2>3
    <3> QED BY <1>2, <3>2, <3>3 DEF Better
  <2>4. CASE k < i
    <3>1. x[k] > z[k] /\ \A j \in 1..k - 1 : x[j] = z[j]
      BY <1>0, <1>2, <2>1, <2>2, <2>4
    <3> QED BY <1>2, <3>1 DEF Better
  <2> QED BY <2>3, <2>4
<1> QED BY <1>0, <1>1, <1>2 DEF Better

LEMMA BetterIrreflexive == ASSUME NEW x \in Seq(Nat) PROVE ~Better(x, x)
<1>1. Len(x) \in Nat /\ \A i \in 1..Len(x) : x[i] \in Nat
  OBVIOUS
<1> QED BY <1>1 DEF Better

LEMMA BetterTotal ==
  ASSUME NEW x \in Seq(Nat), NEW y \in Seq(Nat)
  PROVE  x = y \/ Better(x, y) \/ Better(y, x)
<1>0. /\ Len(x) \in Nat /\ Len(y) \in Nat
      /\ \A i \in 1..Len(x) : x[i] \in Nat
      /\ \A i \in 1..Len(y) : y[i] \in Nat
  OBVIOUS
<1>1. CASE Len(x) # Len(y)
  BY <1>0, <1>1 DEF Better
<1>2. CASE Len(x) = Len(y)
  <2> DEFINE D == {i \in 1..Len(x) : x[i] # y[i]}
  <2>1. CASE D = {}
    BY <1>2, <2>1, SeqEqual
  <2>2. CASE D # {}
    <3>1. D \in SUBSET Nat
      OBVIOUS
    <3>2. PICK i \in D : \A j \in D : i <= j
      <4> HIDE DEF D
      <4> QED BY <2>2, <3>1, Least
    <3>3. \A j \in 1..i - 1 : x[j] = y[j]
      BY <1>0, <3>2
    <3>4. x[i] > y[i] \/ y[i] > x[i]
      BY <1>0, <1>2, <3>2
    <3> QED BY <1>2, <3>2, <3>3, <3>4 DEF Better
  <2> QED BY <2>1, <2>2
<1> QED BY <1>1, <1>2

\* Of finitely many selections one is the best.
LEMMA BestExists ==
  ASSUME NEW F \in SUBSET Seq(Nat), F # {}, IsFiniteSet(F)
  PROVE  \E x \in F : \A y \in F : x = y \/ Better(x, y)
<1> DEFINE Has(T) == \E x \in T : \A y \in T : x = y \/ Better(x, y)
           B == {T \in SUBSET F : T # {} /\ ~Has(T)}
<1>0. SUFFICES ASSUME ~Has(F) PROVE FALSE
  OBVIOUS
<1>1. B # {} /\ \A T \in B : IsFiniteSet(T)
  BY <1>0, FS_Subset
<1>2. PICK T \in B : \A U \in B : U \subseteq T => U = T
  <2> HIDE DEF B
  <2> QED BY <1>1, MinimalSet
<1>3. PICK t \in T : TRUE
  OBVIOUS
<1>4. T \ {t} \notin B /\ T \ {t} \in SUBSET F
  BY <1>2
<1>5. CASE T \ {t} = {}
  BY <1>5
<1>6. CASE T \ {t} # {}
  <2>1. PICK x \in T \ {t} : \A y \in T \ {t} : x = y \/ Better(x, y)
    BY <1>4, <1>6
  <2>2. x \in Seq(Nat) /\ t \in Seq(Nat) /\ x # t
    OBVIOUS
  <2>3. CASE Better(x, t)
    BY <2>1, <2>3
  <2>4. CASE Better(t, x)
    <3>1. ASSUME NEW y \in T PROVE t = y \/ Better(t, y)
      <4>0. y \in Seq(Nat)
        OBVIOUS
      <4>1. CASE y = t
        BY <4>1
      <4>2. CASE y # t
        BY <2>1, <2>2, <2>4, <4>0, <4>2, BetterTransitive
      <4> QED BY <4>1, <4>2
    <3> QED BY <3>1
  <2> QED BY <2>2, <2>3, <2>4, BetterTotal
<1> QED BY <1>5, <1>6

LEMMA AppendFacts ==
  ASSUME NEW x \in Seq(Nat), NEW s \in Nat
  PROVE  /\ Append(x, s) \in Seq(Nat) /\ Len(Append(x, s)) = Len(x) + 1
         /\ DOMAIN Append(x, s) = 1..(Len(x) + 1) /\ Len(x) \in Nat
         /\ \A i \in 1..Len(x) : Append(x, s)[i] = x[i]
         /\ Append(x, s)[Len(x) + 1] = s
OBVIOUS

\* What comes first decides.
LEMMA AppendBetter ==
  ASSUME NEW x \in Seq(Nat), NEW y \in Seq(Nat), NEW s \in Nat, Better(x, y)
  PROVE  Better(Append(x, s), Append(y, s))
<1>0. Len(x) \in Nat /\ Len(y) \in Nat /\ Len(Append(x, s)) = Len(x) + 1 /\ Len(Append(y, s)) = Len(y) + 1
  BY AppendFacts
<1>1. CASE Len(x) < Len(y)
  BY <1>0, <1>1 DEF Better
<1>2. CASE Len(x) = Len(y)
  <2>1. PICK i \in 1..Len(x) : x[i] > y[i] /\ \A j \in 1..i - 1 : x[j] = y[j]
    BY <1>0, <1>2 DEF Better
  <2>2. \A j \in 1..i : Append(x, s)[j] = x[j] /\ Append(y, s)[j] = y[j]
    BY <1>0, <1>2, AppendFacts
  <2>3. i \in 1..(Len(x) + 1)
    BY <1>0
  <2>a. i \in 1..i /\ \A j \in 1..i - 1 : j \in 1..i
    OBVIOUS
  <2>4. Append(x, s)[i] > Append(y, s)[i]
    BY <2>1, <2>2, <2>a
  <2>5. \A j \in 1..i - 1 : Append(x, s)[j] = Append(y, s)[j]
    BY <2>1, <2>2, <2>a
  <2> QED BY <1>0, <1>2, <2>3, <2>4, <2>5 DEF Better
<1> QED BY <1>0, <1>1, <1>2 DEF Better

LEMMA AppendCovers ==
  ASSUME NEW x \in Seq(Nat), NEW s \in Nat, NEW pairs
  PROVE  CoveredBy(Append(x, s), pairs) =
           CoveredBy(x, pairs) \cup {a \in Assets : <<a, s>> \in pairs}
<1>1. /\ DOMAIN Append(x, s) = 1..(Len(x) + 1) /\ DOMAIN x = 1..Len(x) /\ Len(x) \in Nat
      /\ \A i \in 1..Len(x) : Append(x, s)[i] = x[i]
      /\ Append(x, s)[Len(x) + 1] = s
  BY AppendFacts
<1>2. ASSUME NEW a \in Assets
      PROVE  (\E i \in 1..(Len(x) + 1) : <<a, Append(x, s)[i]>> \in pairs)
               <=> (\E i \in 1..Len(x) : <<a, x[i]>> \in pairs) \/ <<a, s>> \in pairs
  <2>1. \A i \in 1..(Len(x) + 1) : i \in 1..Len(x) \/ i = Len(x) + 1
    BY <1>1
  <2>2. \A i \in 1..Len(x) : i \in 1..(Len(x) + 1)
    BY <1>1
  <2>3. Len(x) + 1 \in 1..(Len(x) + 1)
    BY <1>1
  <2> QED BY <1>1, <2>1, <2>2, <2>3, Zenon
<1> QED BY <1>1, <1>2, Zenon DEF CoveredBy

LEMMA ImageFinite ==
  ASSUME NEW S, NEW f, DOMAIN f = S, IsFiniteSet(S)
  PROVE  IsFiniteSet({f[x] : x \in S})
<1> DEFINE T == {f[x] : x \in S}
           g == [x \in S |-> f[x]]
<1>1. g \in Surjection(S, T)
  BY DEF Surjection
<1> QED BY <1>1, FS_Surjection

\* Extend keeps the best of what it finds for each set of assets.
LEMMA ExtendFacts ==
  ASSUME NEW B \in SUBSET Seq(Nat), IsFiniteSet(B), NEW s \in Nat, NEW pairs
  PROVE  /\ Extend(B, s, pairs) \subseteq B \cup {Append(x, s) : x \in B}
         /\ IsFiniteSet(Extend(B, s, pairs))
         /\ \A x, y \in Extend(B, s, pairs) : CoveredBy(x, pairs) = CoveredBy(y, pairs) => x = y
         /\ \A y \in B \cup {Append(x, s) : x \in B} :
              \E x \in Extend(B, s, pairs) :
                CoveredBy(x, pairs) = CoveredBy(y, pairs) /\ (x = y \/ Better(x, y))
<1> DEFINE more == {Append(x, s) : x \in B}
           found == B \cup more
<1>0. IsFiniteSet(more) /\ IsFiniteSet(found)
  <2> DEFINE f == [x \in B |-> Append(x, s)]
  <2>1. more = {f[x] : x \in B} /\ DOMAIN f = B
    OBVIOUS
  <2>2. IsFiniteSet({f[x] : x \in B})
    <3> HIDE DEF f
    <3> QED BY <2>1, ImageFinite
  <2> QED BY <2>1, <2>2, FS_Union
<1>1. found \in SUBSET Seq(Nat)
  BY AppendFacts
<1>2. Extend(B, s, pairs) = {x \in found : \A y \in found :
                               CoveredBy(y, pairs) = CoveredBy(x, pairs) => x = y \/ Better(x, y)}
  BY DEF Extend
<1> HIDE DEF found
<1>3. Extend(B, s, pairs) \subseteq found /\ IsFiniteSet(Extend(B, s, pairs))
  <2>1. Extend(B, s, pairs) \subseteq found
    BY <1>2
  <2> QED BY <1>0, <2>1, FS_Subset
<1>4. ASSUME NEW x \in Extend(B, s, pairs), NEW y \in Extend(B, s, pairs),
             CoveredBy(x, pairs) = CoveredBy(y, pairs), x # y
      PROVE  FALSE
  <2>1. Better(x, y) /\ Better(y, x) /\ x \in Seq(Nat) /\ y \in Seq(Nat)
    BY <1>1, <1>2, <1>4
  <2> QED BY <2>1, BetterTransitive, BetterIrreflexive
<1>5. ASSUME NEW y \in found
      PROVE  \E x \in Extend(B, s, pairs) :
               CoveredBy(x, pairs) = CoveredBy(y, pairs) /\ (x = y \/ Better(x, y))
  <2> DEFINE F == {z \in found : CoveredBy(z, pairs) = CoveredBy(y, pairs)}
  <2>1. F \in SUBSET Seq(Nat) /\ F # {} /\ IsFiniteSet(F)
    BY <1>0, <1>1, FS_Subset
  <2>2. PICK x \in F : \A z \in F : x = z \/ Better(x, z)
    <3> HIDE DEF F
    <3> QED BY <2>1, BestExists
  <2>3. x \in Extend(B, s, pairs)
    BY <1>2, <2>2
  <2> QED BY <2>2, <2>3
<1> QED BY <1>3, <1>4, <1>5 DEF found

-----------------------------------------------------------------------------
(***************************************************************************)
(* best_by_mask: for every set of assets that some selection covers it     *)
(* holds the best selection that covers it.                                *)
(***************************************************************************)
Optimal(B, S, pairs) ==
  /\ B \subseteq Desc(S) /\ IsFiniteSet(B)
  /\ \A x, y \in B : CoveredBy(x, pairs) = CoveredBy(y, pairs) => x = y
  /\ \A z \in Desc(S) : \E x \in B :
       CoveredBy(x, pairs) = CoveredBy(z, pairs) /\ (x = z \/ Better(x, z))

LEMMA DescSub ==
  ASSUME NEW S \in SUBSET Nat, NEW R \in SUBSET S
  PROVE  Desc(R) \subseteq Desc(S) /\ Desc(S) \subseteq Seq(Nat)
<1>1. Seq(R) \subseteq Seq(S) /\ Seq(S) \subseteq Seq(Nat)
  BY SeqMonotonic
<1> QED BY <1>1 DEF Desc

\* A selection with the earliest start of all ends in it.
LEMMA DescSplit ==
  ASSUME NEW S \in SUBSET Nat, S # {}, NEW z \in Desc(S)
  PROVE  z \in Desc(S \ {Min(S)}) \/ \E w \in Desc(S \ {Min(S)}) : z = Append(w, Min(S))
<1> DEFINE m == Min(S)
           R == S \ {m}
<1>1. m \in S /\ \A y \in S : m <= y
  BY MinFacts
<1>2. /\ z \in Seq(S) /\ Len(z) \in Nat /\ DOMAIN z = 1..Len(z) /\ z \in Seq(Nat)
      /\ \A i \in 1..Len(z) : z[i] \in S
      /\ \A i, j \in 1..Len(z) : i < j => z[i] > z[j]
  <2>1. z \in Seq(S) /\ \A i, j \in DOMAIN z : i < j => z[i] > z[j]
    BY DEF Desc
  <2>2. Len(z) \in Nat /\ DOMAIN z = 1..Len(z) /\ \A i \in 1..Len(z) : z[i] \in S
    BY <2>1, LenProperties
  <2> QED BY <2>1, <2>2, SeqMonotonic
<1> HIDE DEF m
<1>3. CASE \A i \in 1..Len(z) : z[i] # m
  <2>1. z = [i \in 1..Len(z) |-> z[i]] /\ \A i \in 1..Len(z) : z[i] \in R
    BY <1>2, <1>3
  <2>2. z \in Seq(R)
    <3>1. Len(z) \in Nat
      BY <1>2
    <3>2. z \in [1..Len(z) -> R]
      <4> HIDE DEF R
      <4> QED BY <2>1
    <3> HIDE DEF R
    <3> QED BY <3>1, <3>2
  <2> QED BY <1>2, <2>2 DEF Desc, m
<1>4. CASE \E i \in 1..Len(z) : z[i] = m
  <2>1. PICK i \in 1..Len(z) : z[i] = m
    BY <1>4
  <2>2. i = Len(z)
    <3>1. SUFFICES ASSUME i < Len(z) PROVE FALSE
      <4>0. Len(z) \in Nat
        BY <1>2
      <4>1. i \in Nat /\ i <= Len(z)
        BY <4>0
      <4> QED BY <4>0, <4>1
    <3>2. i + 1 \in 1..Len(z) /\ i < i + 1
      BY <1>2, <3>1
    <3>3. z[i] > z[i + 1] /\ z[i + 1] \in S
      BY <1>2, <3>2
    <3>4. m <= z[i + 1] /\ m \in Nat /\ z[i + 1] \in Nat
      BY <1>1, <3>3
    <3> QED BY <2>1, <3>3, <3>4
  <2> DEFINE w == [k \in 1..(Len(z) - 1) |-> z[k]]
  <2>3. Len(z) - 1 \in Nat
    BY <1>2, <2>1
  <2>4. ASSUME NEW k \in 1..(Len(z) - 1) PROVE z[k] \in R
    <3>1. k \in 1..Len(z) /\ k < Len(z) /\ Len(z) \in 1..Len(z)
      BY <1>2, <2>3
    <3>2. z[k] > m /\ z[k] \in S /\ z[k] \in Nat /\ m \in Nat
      BY <1>1, <1>2, <2>1, <2>2, <3>1
    <3> QED BY <3>2
  <2>5. w \in Seq(R) /\ DOMAIN w = 1..(Len(z) - 1) /\ Len(w) = Len(z) - 1
    BY <2>3, <2>4
  <2>6. w \in Desc(R)
    <3>1. ASSUME NEW j \in 1..(Len(z) - 1), NEW k \in 1..(Len(z) - 1), j < k PROVE w[j] > w[k]
      <4>1. j \in 1..Len(z) /\ k \in 1..Len(z)
        BY <1>2, <2>3
      <4> QED BY <1>2, <3>1, <4>1
    <3> QED BY <2>5, <3>1 DEF Desc
  <2>7. z = Append(w, m)
    <3>1. w \in Seq(Nat) /\ m \in Nat
      <4>1. R \in SUBSET Nat
        OBVIOUS
      <4> HIDE DEF w, R
      <4> QED BY <1>1, <2>5, <4>1, SeqMonotonic
    <3>2. /\ Append(w, m) \in Seq(Nat) /\ Len(Append(w, m)) = Len(z)
          /\ \A k \in 1..(Len(z) - 1) : Append(w, m)[k] = z[k]
          /\ Append(w, m)[Len(z)] = m
      <4>1. \A k \in 1..(Len(z) - 1) : w[k] = z[k]
        OBVIOUS
      <4> HIDE DEF w
      <4> QED BY <2>3, <2>5, <3>1, <4>1, AppendFacts
    <3>3. \A k \in 1..Len(z) : Append(w, m)[k] = z[k]
      <4>0. Len(z) \in Nat
        BY <1>2
      <4>1. \A k \in 1..Len(z) : k \in 1..(Len(z) - 1) \/ k = Len(z)
        BY <4>0
      <4> HIDE DEF w
      <4> QED BY <2>1, <2>2, <3>2, <4>1
    <3> HIDE DEF w
    <3> QED BY <1>2, <3>2, <3>3, SeqEqual
  <2> HIDE DEF w
  <2> QED BY <2>6, <2>7 DEF m
<1> QED BY <1>3, <1>4

LEMMA DescAppend ==
  ASSUME NEW S \in SUBSET Nat, S # {}, NEW w \in Desc(S \ {Min(S)})
  PROVE  Append(w, Min(S)) \in Desc(S)
<1> DEFINE m == Min(S)
           R == S \ {m}
<1>1. m \in S /\ \A y \in S : m <= y
  BY MinFacts
<1>2. /\ w \in Seq(R) /\ Len(w) \in Nat /\ DOMAIN w = 1..Len(w)
      /\ \A i, j \in 1..Len(w) : i < j => w[i] > w[j]
  <2>1. w \in Seq(R) /\ \A i, j \in DOMAIN w : i < j => w[i] > w[j]
    BY DEF Desc
  <2> QED BY <2>1
<1>3. \A i \in 1..Len(w) : w[i] \in R
  BY <1>2
<1> HIDE DEF m
<1>4. w \in Seq(Nat) /\ w \in Seq(S) /\ m \in Nat
  BY <1>1, <1>2, SeqMonotonic
<1> DEFINE x == Append(w, m)
<1>5. /\ DOMAIN x = 1..(Len(w) + 1) /\ \A i \in 1..Len(w) : x[i] = w[i]
      /\ x[Len(w) + 1] = m
  BY <1>4, AppendFacts
<1>6. x \in Seq(S)
  BY <1>1, <1>4
<1> HIDE DEF x
<1>7. ASSUME NEW i \in 1..(Len(w) + 1), NEW j \in 1..(Len(w) + 1), i < j PROVE x[i] > x[j]
  <2>1. i \in 1..Len(w)
    BY <1>2, <1>7
  <2>2. CASE j \in 1..Len(w)
    BY <1>2, <1>5, <1>7, <2>1, <2>2
  <2>3. CASE j = Len(w) + 1
    <3>1. w[i] \in R /\ w[i] \in Nat /\ m <= w[i] /\ w[i] # m
      BY <1>1, <1>3, <2>1
    <3> QED BY <1>4, <1>5, <2>1, <2>3, <3>1
  <2> QED BY <1>2, <2>2, <2>3
<1>8. x \in Desc(S)
  BY <1>5, <1>6, <1>7 DEF Desc
<1> QED BY <1>8 DEF x, m

LEMMA OptimalEmpty == ASSUME NEW pairs PROVE Optimal({<<>>}, {}, pairs)
<1>1. Desc({}) = {<<>>}
  <2>1. <<>> \in Desc({})
    BY DEF Desc
  <2>2. ASSUME NEW x \in Seq({}) PROVE x = <<>>
    <3>1. Len(x) \in Nat /\ \A i \in 1..Len(x) : x[i] \in {}
      OBVIOUS
    <3>2. Len(x) = 0
      <4>1. ~(1 \in 1..Len(x))
        BY <3>1
      <4> QED BY <3>1, <4>1
    <3> QED BY <3>2
  <2> QED BY <2>1, <2>2 DEF Desc
<1>2. IsFiniteSet({<<>>})
  BY FS_Singleton
<1> QED BY <1>1, <1>2 DEF Optimal

LEMMA OptimalExtend ==
  ASSUME NEW S \in SUBSET Nat, S # {}, NEW pairs, NEW B, Optimal(B, S \ {Min(S)}, pairs)
  PROVE  Optimal(Extend(B, Min(S), pairs), S, pairs)
<1> DEFINE m == Min(S)
           R == S \ {m}
           E == Extend(B, m, pairs)
           found == B \cup {Append(x, m) : x \in B}
<1>1. m \in Nat
  BY MinFacts
<1>2. Desc(R) \subseteq Desc(S) /\ Desc(S) \subseteq Seq(Nat)
  <2>1. R \in SUBSET S
    OBVIOUS
  <2> HIDE DEF R
  <2> QED BY <2>1, DescSub
<1>3. B \subseteq Desc(R) /\ IsFiniteSet(B) /\ B \in SUBSET Seq(Nat)
  BY <1>2 DEF Optimal
<1>4. /\ E \subseteq found /\ IsFiniteSet(E)
      /\ \A x, y \in E : CoveredBy(x, pairs) = CoveredBy(y, pairs) => x = y
      /\ \A y \in found : \E x \in E :
           CoveredBy(x, pairs) = CoveredBy(y, pairs) /\ (x = y \/ Better(x, y))
  <2> HIDE DEF m
  <2> QED BY <1>1, <1>3, ExtendFacts
<1>5. found \subseteq Desc(S)
  <2>1. \A x \in B : Append(x, m) \in Desc(S)
    BY <1>3, DescAppend
  <2> QED BY <1>2, <1>3, <2>1
<1>6. ASSUME NEW z \in Desc(S)
      PROVE  \E y \in found : CoveredBy(y, pairs) = CoveredBy(z, pairs) /\ (y = z \/ Better(y, z))
  <2>1. CASE z \in Desc(R)
    BY <2>1 DEF Optimal
  <2>2. CASE \E w \in Desc(R) : z = Append(w, m)
    <3>1. PICK w \in Desc(R) : z = Append(w, m)
      BY <2>2
    <3>2. PICK b \in B : CoveredBy(b, pairs) = CoveredBy(w, pairs) /\ (b = w \/ Better(b, w))
      BY DEF Optimal
    <3>3. b \in Seq(Nat) /\ w \in Seq(Nat)
      BY <1>2, <1>3
    <3>4. CoveredBy(Append(b, m), pairs) = CoveredBy(z, pairs)
      <4> HIDE DEF m
      <4>1. CoveredBy(Append(b, m), pairs) = CoveredBy(b, pairs) \cup {a \in Assets : <<a, m>> \in pairs}
        BY <1>1, <3>3, AppendCovers
      <4>2. CoveredBy(Append(w, m), pairs) = CoveredBy(w, pairs) \cup {a \in Assets : <<a, m>> \in pairs}
        BY <1>1, <3>3, AppendCovers
      <4> QED BY <3>1, <3>2, <4>1, <4>2
    <3>5. Append(b, m) = z \/ Better(Append(b, m), z)
      <4> HIDE DEF m
      <4> QED BY <1>1, <3>1, <3>2, <3>3, AppendBetter
    <3> QED BY <3>4, <3>5
  <2> QED BY <2>1, <2>2, DescSplit
<1>7. ASSUME NEW z \in Desc(S)
      PROVE  \E x \in E : CoveredBy(x, pairs) = CoveredBy(z, pairs) /\ (x = z \/ Better(x, z))
  <2>1. PICK y \in found : CoveredBy(y, pairs) = CoveredBy(z, pairs) /\ (y = z \/ Better(y, z))
    BY <1>6
  <2>2. PICK x \in E : CoveredBy(x, pairs) = CoveredBy(y, pairs) /\ (x = y \/ Better(x, y))
    BY <1>4
  <2>3. x \in Seq(Nat) /\ y \in Seq(Nat) /\ z \in Seq(Nat)
    <3> HIDE DEF E, found
    <3> QED BY <1>2, <1>4, <1>5
  <2> HIDE DEF E, found
  <2> QED BY <2>1, <2>2, <2>3, BetterTransitive
<1>8. E \subseteq Desc(S)
  BY <1>4, <1>5
<1> QED BY <1>4, <1>7, <1>8 DEF Optimal

\* The recursion of best_by_mask over the starts has a solution.
LEMMA BestFunction ==
  ASSUME NEW T \in SUBSET Nat, IsFiniteSet(T), NEW pairs
  PROVE  \E f : f = [S \in SUBSET T |->
                       IF S = {} THEN {<<>>} ELSE Extend(f[S \ {Min(S)}], Min(S), pairs)]
<1> DEFINE Body(g, S) == IF S = {} THEN {<<>>} ELSE Extend(g[S \ {Min(S)}], Min(S), pairs)
           Solves(g, n) == \A S \in SUBSET T : Cardinality(S) <= n => g[S] = Body(g, S)
           Bad == {n \in Nat : ~\E g : Solves(g, n)}
<1>1. ASSUME NEW S \in SUBSET T
      PROVE  /\ Cardinality(S) \in Nat /\ (Cardinality(S) = 0 <=> S = {})
             /\ S # {} => /\ S \ {Min(S)} \in SUBSET T
                          /\ Cardinality(S \ {Min(S)}) = Cardinality(S) - 1
  <2>1. IsFiniteSet(S) /\ S \in SUBSET Nat
    BY FS_Subset
  <2>2. Cardinality(S) \in Nat /\ (Cardinality(S) = 0 <=> S = {})
    BY <2>1, FS_CardinalityType, FS_EmptySet
  <2>3. ASSUME S # {} PROVE Cardinality(S \ {Min(S)}) = Cardinality(S) - 1
    <3>1. Min(S) \in S
      BY <2>1, <2>3, MinFacts
    <3> QED BY <2>1, <3>1, FS_RemoveElement
  <2> QED BY <2>2, <2>3
<1>2. Bad = {}
  <2> SUFFICES ASSUME Bad # {} PROVE FALSE
    OBVIOUS
  <2>1. Bad \in SUBSET Nat
    OBVIOUS
  <2>2. PICK n \in Bad : \A k \in Bad : n <= k
    <3> HIDE DEF Bad
    <3> QED BY <2>1, Least
  <2>3. n # 0
    <3> DEFINE g == [S \in SUBSET T |-> {<<>>}]
    <3>1. Solves(g, 0)
      <4>1. ASSUME NEW S \in SUBSET T, Cardinality(S) <= 0 PROVE g[S] = Body(g, S)
        <5>1. S = {}
          <6>1. Cardinality(S) \in Nat /\ (Cardinality(S) = 0 <=> S = {})
            BY <1>1
          <6> HIDE DEF g, Bad
          <6> QED BY <4>1, <6>1
        <5> QED BY <5>1
      <4> QED BY <4>1
    <3> QED BY <3>1
  <2>4. n - 1 \in Nat /\ n - 1 \notin Bad
    <3>1. n \in Nat /\ n - 1 \in Nat /\ ~(n <= n - 1)
      BY <2>1, <2>3
    <3> HIDE DEF Bad
    <3> QED BY <2>2, <3>1
  <2>5. PICK g : Solves(g, n - 1)
    BY <2>4
  <2> DEFINE h == [S \in SUBSET T |-> Body(g, S)]
  <2>6. ASSUME NEW S \in SUBSET T, Cardinality(S) <= n PROVE h[S] = Body(h, S)
    <3>1. CASE S = {}
      BY <3>1
    <3>2. CASE S # {}
      <4> DEFINE R == S \ {Min(S)}
      <4>1. R \in SUBSET T /\ Cardinality(R) <= n - 1
        <5>1. n \in Nat
          BY <2>1
        <5>2. /\ R \in SUBSET T /\ Cardinality(R) = Cardinality(S) - 1
              /\ Cardinality(S) \in Nat
          BY <1>1, <3>2
        <5> HIDE DEF R, h, Bad
        <5> QED BY <2>6, <5>1, <5>2
      <4>2. g[R] = Body(g, R)
        <5> HIDE DEF R
        <5> QED BY <2>5, <4>1
      <4>3. h[R] = Body(g, R)
        <5> HIDE DEF R
        <5> QED BY <4>1
      <4>4. h[R] = g[R]
        <5> HIDE DEF h, R, Body
        <5> QED BY <4>2, <4>3
      <4>5. h[S] = Extend(g[R], Min(S), pairs)
        <5>1. h[S] = Body(g, S)
          OBVIOUS
        <5> HIDE DEF h
        <5> QED BY <3>2, <5>1
      <4>6. Body(h, S) = Extend(h[R], Min(S), pairs)
        <5> HIDE DEF h
        <5> QED BY <3>2
      <4> HIDE DEF h, R, Body
      <4> QED BY <4>4, <4>5, <4>6
    <3> QED BY <3>1, <3>2
  <2>7. Solves(h, n)
    <3> HIDE DEF h, Body
    <3> QED BY <2>6
  <2> QED BY <2>7
<1>3. PICK g : Solves(g, Cardinality(T))
  <2>1. Cardinality(T) \in Nat
    BY <1>1
  <2> QED BY <1>2, <2>1
<1>4. \A S \in SUBSET T : g[S] = Body(g, S)
  <2>1. ASSUME NEW S \in SUBSET T PROVE Cardinality(S) <= Cardinality(T)
    BY FS_Subset
  <2> HIDE DEF Body
  <2> QED BY <1>3, <2>1
<1> DEFINE f == [S \in SUBSET T |-> Body(g, S)]
<1>5. ASSUME NEW S \in SUBSET T PROVE Body(g, S) = Body(f, S)
  <2>1. CASE S = {}
    BY <2>1
  <2>2. CASE S # {}
    <3>1. S \ {Min(S)} \in SUBSET T
      OBVIOUS
    <3>2. f[S \ {Min(S)}] = g[S \ {Min(S)}]
      <4> HIDE DEF Body
      <4> QED BY <1>4, <3>1
    <3> HIDE DEF f
    <3> QED BY <2>2, <3>2
  <2> QED BY <2>1, <2>2
<1>6. f = [S \in SUBSET T |-> Body(f, S)]
  <2> DEFINE k == f
  <2>1. \A S \in SUBSET T : Body(g, S) = Body(k, S)
    BY <1>5
  <2>2. k = [S \in SUBSET T |-> Body(g, S)]
    OBVIOUS
  <2> HIDE DEF k, Body
  <2>3. k = [S \in SUBSET T |-> Body(k, S)]
    BY <2>1, <2>2
  <2> QED BY <2>3 DEF k
<1> HIDE DEF f
<1> QED BY <1>6

LEMMA BestIsOptimal ==
  ASSUME NEW pairs, NEW T \in SUBSET Nat, T = {m[2] : m \in pairs}, IsFiniteSet(T)
  PROVE  Optimal(BestByMask(pairs), T, pairs)
<1> DEFINE f == CHOOSE f : f = [S \in SUBSET T |->
                  IF S = {} THEN {<<>>} ELSE Extend(f[S \ {Min(S)}], Min(S), pairs)]
<1>1. f = [S \in SUBSET T |->
             IF S = {} THEN {<<>>} ELSE Extend(f[S \ {Min(S)}], Min(S), pairs)]
  <2>1. \E g : g = [S \in SUBSET T |->
             IF S = {} THEN {<<>>} ELSE Extend(g[S \ {Min(S)}], Min(S), pairs)]
    BY BestFunction
  <2> QED BY <2>1, Zenon
<1>2. BestByMask(pairs) = f[T]
  BY Zenon DEF BestByMask
<1> HIDE DEF f
<1> DEFINE Bad == {S \in SUBSET T : ~Optimal(f[S], S, pairs)}
<1>3. Bad = {}
  <2> SUFFICES ASSUME Bad # {} PROVE FALSE
    OBVIOUS
  <2>1. \A S \in Bad : IsFiniteSet(S)
    BY FS_Subset
  <2>2. PICK S \in Bad : \A R \in Bad : R \subseteq S => R = S
    <3> HIDE DEF Bad
    <3> QED BY <2>1, MinimalSet
  <2>3. CASE S = {}
    <3>1. f[S] = {<<>>}
      BY <1>1, <2>3
    <3> QED BY <2>3, <3>1, OptimalEmpty
  <2>4. CASE S # {}
    <3> DEFINE R == S \ {Min(S)}
    <3>1. S \in SUBSET Nat
      OBVIOUS
    <3>2. Min(S) \in S
      <4> HIDE DEF Bad
      <4> QED BY <2>4, <3>1, MinFacts
    <3>3. R \in SUBSET T /\ R \notin Bad
      BY <2>2, <3>2
    <3>4. Optimal(f[R], S \ {Min(S)}, pairs)
      BY <3>3
    <3>5. Optimal(Extend(f[R], Min(S), pairs), S, pairs)
      <4> HIDE DEF R, Bad
      <4> QED BY <2>4, <3>1, <3>4, OptimalExtend
    <3>6. f[S] = Extend(f[R], Min(S), pairs)
      BY <1>1, <2>4
    <3> QED BY <3>5, <3>6
  <2> QED BY <2>3, <2>4
<1> QED BY <1>2, <1>3

-----------------------------------------------------------------------------
(***************************************************************************)
(* minimum_canary_cover.                                                   *)
(***************************************************************************)
LEMMA ToSetFacts ==
  ASSUME NEW S \in SUBSET Nat, NEW x \in Desc(S)
  PROVE  /\ ToSet(x) = {x[i] : i \in 1..Len(x)} /\ ToSet(x) \subseteq S
         /\ x \in Seq(Nat) /\ Len(x) \in Nat /\ DOMAIN x = 1..Len(x)
         /\ \A i \in 1..Len(x) : x[i] \in S
         /\ \A i, j \in 1..Len(x) : i < j => x[i] > x[j]
<1>1. x \in Seq(S) /\ \A i, j \in DOMAIN x : i < j => x[i] > x[j]
  BY DEF Desc
<1>2. Len(x) \in Nat /\ DOMAIN x = 1..Len(x) /\ \A i \in 1..Len(x) : x[i] \in S
  BY <1>1, LenProperties
<1>3. ToSet(x) = {x[i] : i \in 1..Len(x)}
  BY <1>2 DEF ToSet
<1> QED BY <1>1, <1>2, <1>3, SeqMonotonic

\* Every finite set of starts is that of a selection.
LEMMA Enumerated ==
  ASSUME NEW T \in SUBSET Nat, IsFiniteSet(T)
  PROVE  \E x \in Desc(T) : ToSet(x) = T
<1> DEFINE Bad == {S \in SUBSET T : ~\E x \in Desc(S) : ToSet(x) = S}
<1>1. SUFFICES ASSUME Bad # {} PROVE FALSE
  OBVIOUS
<1>2. \A S \in Bad : IsFiniteSet(S)
  BY FS_Subset
<1>3. PICK S \in Bad : \A R \in Bad : R \subseteq S => R = S
  <2> HIDE DEF Bad
  <2> QED BY <1>1, <1>2, MinimalSet
<1>4. S \in SUBSET Nat /\ S \in SUBSET T /\ ~\E x \in Desc(S) : ToSet(x) = S
  OBVIOUS
<1>5. CASE S = {}
  <2>1. <<>> \in Desc({}) /\ ToSet(<<>>) = {}
    BY DEF Desc, ToSet
  <2> QED BY <1>4, <1>5, <2>1
<1>6. CASE S # {}
  <2> DEFINE m == Min(S)
             R == S \ {m}
  <2>1. m \in S
    BY <1>4, <1>6, MinFacts
  <2>2. R \in SUBSET T /\ R \notin Bad
    BY <1>3, <1>4, <2>1
  <2>3. PICK x \in Desc(R) : ToSet(x) = R
    BY <2>2
  <2>4. Append(x, m) \in Desc(S)
    BY <1>4, <1>6, DescAppend
  <2> HIDE DEF m, Bad
  <2>5. x \in Seq(Nat) /\ m \in Nat /\ Len(x) \in Nat /\ ToSet(x) = {x[i] : i \in 1..Len(x)}
    <3>1. R \in SUBSET Nat
      BY <1>4
    <3> QED BY <1>4, <2>1, <3>1, ToSetFacts
  <2>6. /\ ToSet(Append(x, m)) = {Append(x, m)[i] : i \in 1..(Len(x) + 1)}
        /\ \A i \in 1..Len(x) : Append(x, m)[i] = x[i]
        /\ Append(x, m)[Len(x) + 1] = m
    BY <2>5, AppendFacts DEF ToSet
  <2>7. ToSet(Append(x, m)) = {x[i] : i \in 1..Len(x)} \cup {m}
    <3>1. 1..(Len(x) + 1) = 1..Len(x) \cup {Len(x) + 1}
      BY <2>5
    <3> QED BY <2>6, <3>1, Zenon
  <2> QED BY <1>4, <2>1, <2>3, <2>4, <2>5, <2>7
<1> QED BY <1>5, <1>6

\* A selection has every start once.
LEMMA DescSize ==
  ASSUME NEW S \in SUBSET Nat, NEW x \in Desc(S)
  PROVE  IsFiniteSet(ToSet(x)) /\ Cardinality(ToSet(x)) = Len(x)
<1>1. /\ ToSet(x) = {x[i] : i \in 1..Len(x)} /\ ToSet(x) \subseteq S
      /\ Len(x) \in Nat /\ DOMAIN x = 1..Len(x) /\ x \in Seq(Nat)
      /\ \A i \in 1..Len(x) : x[i] \in S
      /\ \A i, j \in 1..Len(x) : i < j => x[i] > x[j]
  BY ToSetFacts
<1>2. x \in [1..Len(x) -> ToSet(x)] /\ \A y \in ToSet(x) : \E i \in 1..Len(x) : x[i] = y
  BY <1>1
<1>3. ASSUME NEW i \in 1..Len(x), NEW j \in 1..Len(x), x[i] = x[j] PROVE i = j
  <2>1. i \in Nat /\ j \in Nat /\ x[i] \in Nat /\ x[j] \in Nat
    BY <1>1
  <2>2. ~(i < j) /\ ~(j < i)
    BY <1>1, <1>3, <2>1
  <2> QED BY <2>1, <2>2
<1>4. x \in Bijection(1..Len(x), ToSet(x))
  BY <1>2, <1>3 DEF Bijection, Injection, Surjection, IsInjective
<1>5. ExistsBijection(1..Len(x), ToSet(x))
  BY <1>4 DEF ExistsBijection
<1>6. IsFiniteSet(ToSet(x))
  <2>1. \E n \in Nat : ExistsBijection(1..n, ToSet(x))
    BY <1>1, <1>5
  <2> QED BY <2>1, FS_NatBijection
<1>7. Cardinality(ToSet(x)) = Len(x)
  <2> DEFINE n == Len(x)
             X == ToSet(x)
  <2>1. n \in Nat /\ ExistsBijection(1..n, X)
    BY <1>1, <1>5
  <2> HIDE DEF n, X
  <2>2. Cardinality(X) = n
    BY <2>1, FS_CountingElements
  <2> QED BY <2>2 DEF n, X
<1> QED BY <1>6, <1>7

LEMMA MaxIs ==
  ASSUME NEW S \in SUBSET Nat, NEW m \in S, \A y \in S : y <= m
  PROVE  Max(S) = m
<1>1. \E x \in S : \A y \in S : x >= y
  OBVIOUS
<1>2. Max(S) \in S /\ \A y \in S : Max(S) >= y
  BY <1>1, Zenon DEF Max
<1> DEFINE n == Max(S)
<1>3. n \in S /\ n >= m /\ n \in Nat /\ m \in Nat
  BY <1>2
<1> HIDE DEF n
<1>4. n = m
  BY <1>3
<1> QED BY <1>4 DEF n

\* Of two selections of one length the better one has the later starts.
LEMMA BetterIsLater ==
  ASSUME NEW S \in SUBSET Nat, NEW x \in Desc(S), NEW z \in Desc(S),
         Len(x) = Len(z), Better(x, z)
  PROVE  Later(ToSet(x), ToSet(z))
<1>1. /\ ToSet(x) = {x[i] : i \in 1..Len(x)} /\ Len(x) \in Nat
      /\ \A i \in 1..Len(x) : x[i] \in Nat
      /\ \A i, j \in 1..Len(x) : i < j => x[i] > x[j]
  BY ToSetFacts
<1>2. /\ ToSet(z) = {z[i] : i \in 1..Len(x)}
      /\ \A i \in 1..Len(x) : z[i] \in Nat
      /\ \A i, j \in 1..Len(x) : i < j => z[i] > z[j]
  BY ToSetFacts
<1>3. PICK i \in 1..Len(x) : x[i] > z[i] /\ \A j \in 1..i - 1 : x[j] = z[j]
  BY <1>1 DEF Better
<1>4. ASSUME NEW j \in 1..Len(x)
      PROVE  \/ j < i /\ x[j] = z[j] /\ x[j] > x[i]
             \/ x[j] <= x[i] /\ z[j] < x[i]
  <2>0. i \in Nat /\ j \in Nat /\ x[i] \in Nat /\ x[j] \in Nat /\ z[i] \in Nat /\ z[j] \in Nat
    BY <1>1, <1>2
  <2>1. CASE j < i
    <3>1. j \in 1..i - 1
      BY <1>1, <2>0, <2>1
    <3> QED BY <1>1, <1>3, <2>1, <3>1
  <2>2. CASE j = i
    BY <1>3, <2>0, <2>2
  <2>3. CASE i < j
    <3>1. x[i] > x[j] /\ z[i] > z[j]
      BY <1>1, <1>2, <2>3
    <3> QED BY <1>3, <2>0, <3>1
  <2> QED BY <2>0, <2>1, <2>2, <2>3
<1> DEFINE D == (ToSet(x) \ ToSet(z)) \cup (ToSet(z) \ ToSet(x))
<1>5. x[i] \in ToSet(x) /\ x[i] \notin ToSet(z)
  <2>1. ASSUME NEW j \in 1..Len(x) PROVE z[j] # x[i]
    <3>1. x[i] \in Nat /\ x[j] \in Nat /\ z[j] \in Nat
      BY <1>1, <1>2
    <3> QED BY <1>4, <3>1
  <2> QED BY <1>1, <1>2, <2>1
<1>6. D \in SUBSET Nat /\ x[i] \in D
  BY <1>1, <1>2, <1>5
<1>7. ASSUME NEW y \in D PROVE y <= x[i]
  <2>1. CASE y \in ToSet(x) \ ToSet(z)
    <3>1. PICK j \in 1..Len(x) : y = x[j]
      BY <1>1, <2>1
    <3>2. x[j] # z[j]
      BY <1>2, <2>1, <3>1
    <3> QED BY <1>4, <3>1, <3>2
  <2>2. CASE y \in ToSet(z) \ ToSet(x)
    <3>1. PICK j \in 1..Len(x) : y = z[j]
      BY <1>2, <2>2
    <3>2. x[j] # z[j]
      BY <1>1, <2>2, <3>1
    <3>3. z[j] \in Nat /\ x[i] \in Nat /\ z[j] < x[i]
      BY <1>1, <1>2, <1>4, <3>2
    <3> QED BY <3>1, <3>3
  <2> QED BY <2>1, <2>2
<1>8. Max(D) = x[i]
  <2> HIDE DEF D
  <2> QED BY <1>6, <1>7, MaxIs
<1> QED BY <1>5, <1>8 DEF Later

\* A selection covers all assets when its set of starts does.
LEMMA CoversIsCovered ==
  ASSUME NEW S \in SUBSET Nat, NEW x \in Desc(S), NEW pairs
  PROVE  CoveredBy(x, pairs) = Assets <=> Covers(ToSet(x), pairs)
<1>1. ToSet(x) = {x[i] : i \in 1..Len(x)} /\ DOMAIN x = 1..Len(x)
  BY ToSetFacts
<1>2. CoveredBy(x, pairs) = {a \in Assets : \E s \in ToSet(x) : <<a, s>> \in pairs}
  BY <1>1 DEF CoveredBy
<1> QED BY <1>2 DEF Covers

\* What command_canary selects: a smallest set of usable starts at which every
\* asset is usable, and of those the one with the latest starts.
LEMMA MinimumCoverFacts ==
  ASSUME CanaryAssumption, NEW pairs, NEW T \in SUBSET Nat,
         T = {m[2] : m \in pairs}, IsFiniteSet(T), Covers(T, pairs)
  PROVE  /\ MinimumCover(pairs) \in Desc(T)
         /\ Covers(ToSet(MinimumCover(pairs)), pairs)
         /\ Len(MinimumCover(pairs)) \in 1..Cardinality(Assets)
         /\ \A U \in SUBSET T :
              Covers(U, pairs) =>
                \/ Cardinality(ToSet(MinimumCover(pairs))) < Cardinality(U)
                \/ /\ Cardinality(ToSet(MinimumCover(pairs))) = Cardinality(U)
                   /\ Later(ToSet(MinimumCover(pairs)), U)
<1> DEFINE B == BestByMask(pairs)
           x == MinimumCover(pairs)
<1>1. Optimal(B, T, pairs)
  BY BestIsOptimal
<1>2. ASSUME NEW U \in SUBSET T, Covers(U, pairs)
      PROVE  \E z \in Desc(T) : ToSet(z) = U /\ CoveredBy(z, pairs) = Assets
  <2>1. U \in SUBSET Nat /\ IsFiniteSet(U)
    BY FS_Subset
  <2>2. PICK z \in Desc(U) : ToSet(z) = U
    BY <2>1, Enumerated
  <2>3. z \in Desc(T)
    BY DescSub
  <2> QED BY <1>2, <2>2, <2>3, CoversIsCovered
<1>3. x \in B /\ CoveredBy(x, pairs) = Assets
  <2>1. PICK z \in Desc(T) : CoveredBy(z, pairs) = Assets
    BY <1>2
  <2>2. \E y \in B : CoveredBy(y, pairs) = Assets
    BY <1>1, <2>1 DEF Optimal
  <2> HIDE DEF B
  <2>3. x = CHOOSE y \in B : CoveredBy(y, pairs) = Assets
    BY Zenon DEF MinimumCover, B
  <2> HIDE DEF x
  <2> QED BY <2>2, <2>3, Zenon
<1>4. x \in Desc(T)
  BY <1>1, <1>3 DEF Optimal
<1> HIDE DEF x, B
<1>5. Covers(ToSet(x), pairs)
  BY <1>3, <1>4, CoversIsCovered
<1>6. /\ IsFiniteSet(ToSet(x)) /\ Cardinality(ToSet(x)) = Len(x)
      /\ ToSet(x) \subseteq T /\ Len(x) \in Nat
  BY <1>4, DescSize, ToSetFacts
<1>7. ASSUME NEW U \in SUBSET T, Covers(U, pairs)
      PROVE  \/ Cardinality(ToSet(x)) < Cardinality(U)
             \/ Cardinality(ToSet(x)) = Cardinality(U) /\ Later(ToSet(x), U)
  <2>1. PICK z \in Desc(T) : ToSet(z) = U /\ CoveredBy(z, pairs) = Assets
    BY <1>2, <1>7
  <2>2. PICK y \in B : CoveredBy(y, pairs) = Assets /\ (y = z \/ Better(y, z))
    BY <1>1, <2>1 DEF Optimal
  <2>3. y = x
    BY <1>1, <1>3, <2>2 DEF Optimal
  <2>4. Cardinality(U) = Len(z) /\ Len(z) \in Nat
    BY <2>1, DescSize, ToSetFacts
  <2>5. CASE x = z
    BY <1>6, <2>1, <2>4, <2>5 DEF Later
  <2>6. CASE Better(x, z)
    <3>1. CASE Len(x) < Len(z)
      BY <1>6, <2>4, <3>1
    <3>2. CASE Len(x) = Len(z)
      BY <1>4, <1>6, <2>1, <2>4, <2>6, <3>2, BetterIsLater
    <3> QED BY <2>6, <3>1, <3>2 DEF Better
  <2> QED BY <2>2, <2>3, <2>5, <2>6
<1>8. Len(x) \in 1..Cardinality(Assets)
  <2>1. IsFiniteSet(Assets) /\ Assets # {} /\ Cardinality(Assets) \in Nat
    BY FS_CardinalityType DEF CanaryAssumption
  <2> DEFINE h(a) == CHOOSE s \in T : <<a, s>> \in pairs
  <2>2. ASSUME NEW a \in Assets PROVE h(a) \in T /\ <<a, h(a)>> \in pairs
    <3>1. \E s \in T : <<a, s>> \in pairs
      BY DEF Covers
    <3> QED BY <3>1, Zenon
  <2> HIDE DEF h
  <2> DEFINE g == [a \in Assets |-> h(a)]
             U == {g[a] : a \in Assets}
  <2>3. g \in [Assets -> U] /\ \A s \in U : \E a \in Assets : g[a] = s
    OBVIOUS
  <2>4. g \in Surjection(Assets, U)
    <3> HIDE DEF U, g
    <3> QED BY <2>3, Zenon DEF Surjection
  <2>5. U \in SUBSET T /\ Covers(U, pairs)
    <3>1. \A a \in Assets : g[a] \in U /\ g[a] \in T /\ <<a, g[a]>> \in pairs
      BY <2>2
    <3>2. U \in SUBSET T
      <4>1. \A a \in Assets : g[a] \in T
        BY <2>2
      <4> HIDE DEF g
      <4> QED BY <4>1
    <3> HIDE DEF U, g
    <3> QED BY <3>1, <3>2, Zenon DEF Covers
  <2>6. IsFiniteSet(U) /\ Cardinality(U) <= Cardinality(Assets) /\ Cardinality(U) \in Nat
    <3> HIDE DEF U, g
    <3> QED BY <2>1, <2>4, FS_Surjection, FS_CardinalityType
  <2>7. Len(x) <= Cardinality(U)
    <3> HIDE DEF U, g
    <3>1. \/ Cardinality(ToSet(x)) < Cardinality(U)
          \/ Cardinality(ToSet(x)) = Cardinality(U)
      BY <1>7, <2>5
    <3> QED BY <1>6, <2>6, <3>1
  <2>8. Len(x) # 0
    <3>1. PICK a \in Assets : TRUE
      BY <2>1
    <3>2. ToSet(x) # {}
      BY <1>5, <3>1 DEF Covers
    <3> QED BY <1>6, <3>2, FS_EmptySet
  <2> HIDE DEF U, g
  <2> QED BY <1>6, <2>1, <2>6, <2>7, <2>8
<1> QED BY <1>4, <1>5, <1>7, <1>8 DEF x

-----------------------------------------------------------------------------
(***************************************************************************)
(* Arithmetic of the budgets.                                              *)
(***************************************************************************)
LEMMA MulMono ==
  ASSUME NEW c \in Nat, NEW a \in Nat, NEW b \in Nat, a <= b
  PROVE  c * a <= c * b /\ a * c <= b * c /\ c * a \in Nat
<1>1. c * (b - a) >= 0 /\ c * (b - a) = c * b - c * a
  OBVIOUS
<1>2. a * c = c * a /\ b * c = c * b
  OBVIOUS
<1>3. c * a \in Nat /\ c * b \in Nat
  OBVIOUS
<1> QED BY <1>1, <1>2, <1>3

LEMMA MulSucc ==
  ASSUME NEW n \in Nat, NEW u \in Nat
  PROVE  (n + 1) * u = n * u + u /\ n * u \in Nat
OBVIOUS

\* One more round of at most c requests for each of n starts.
LEMMA MulNext ==
  ASSUME NEW n \in Nat, NEW c \in Nat, NEW d \in Nat
  PROVE  /\ n * (d + 1) = n * d + n
         /\ (n * (d + 1)) * c = (n * d) * c + n * c
OBVIOUS

LEMMA DivFacts ==
  ASSUME NEW w \in Nat \ {0}, NEW x \in Int
  PROVE  /\ x \div w \in Int /\ x % w \in 0..(w - 1)
         /\ x = (w * (x \div w)) + (x % w)
OBVIOUS

LEMMA DivMono ==
  ASSUME NEW w \in Nat \ {0}, NEW x \in Int, NEW y \in Int, x <= y
  PROVE  x \div w <= y \div w
<1> DEFINE p == x \div w
           q == y \div w
<1>1. /\ p \in Int /\ q \in Int /\ x % w \in 0..(w - 1) /\ y % w \in 0..(w - 1)
      /\ x = (w * p) + (x % w) /\ y = (w * q) + (y % w)
  BY DivFacts
<1> HIDE DEF p, q
<1>2. SUFFICES ASSUME q < p PROVE FALSE
  BY <1>1 DEF p, q
<1>3. w * (p - q) >= w /\ w * (p - q) = w * p - w * q
  <2>1. p - q - 1 \in Nat
    BY <1>1, <1>2
  <2>2. w * (p - q - 1) >= 0
    BY <2>1
  <2>3. w * (p - q - 1) = w * (p - q) - w /\ w * (p - q) = w * p - w * q
    BY <1>1
  <2>4. w * (p - q) \in Int
    BY <1>1
  <2> QED BY <2>2, <2>3, <2>4
<1>4. (w * p) + (x % w) <= (w * q) + (y % w) /\ w * p \in Int /\ w * q \in Int
  BY <1>1
<1> QED BY <1>1, <1>3, <1>4

\* The hours of an interval of starts, and those of an interval within it.
LEMMA ObjectsFacts ==
  ASSUME CanaryAssumption, NEW lo \in Nat, NEW hi \in Nat, lo <= hi
  PROVE  /\ Objects(lo, hi) \subseteq Int /\ IsFiniteSet(Objects(lo, hi))
         /\ Objects(lo, hi) # {}
         /\ \A l, h \in Nat : lo <= l /\ h <= hi => Objects(l, h) \subseteq Objects(lo, hi)
<1>1. Windows \in Nat \ {0}
  BY DEF CanaryAssumption
<1>2. ASSUME NEW l \in Nat, NEW h \in Nat
      PROVE  /\ l - Windows \in Int /\ (l - Windows) \div Windows \in Int
             /\ h \div Windows \in Int
  <2>1. l - Windows \in Int
    BY <1>1
  <2> QED BY <1>1, <2>1, DivFacts
<1>3. (lo - Windows) \div Windows <= hi \div Windows
  <2> DEFINE p == lo - Windows
  <2>1. p \in Int /\ p <= hi
    BY <1>1
  <2> HIDE DEF p
  <2>2. hi \in Int
    OBVIOUS
  <2>3. p \div Windows <= hi \div Windows
    BY <1>1, <2>1, <2>2, DivMono, Zenon
  <2> QED BY <2>3 DEF p
<1>4. ASSUME NEW l \in Nat, NEW h \in Nat, lo <= l, h <= hi
      PROVE  /\ (lo - Windows) \div Windows <= (l - Windows) \div Windows
             /\ h \div Windows <= hi \div Windows
  <2> DEFINE p == lo - Windows
             q == l - Windows
  <2>1. p \in Int /\ q \in Int /\ p <= q
    BY <1>1, <1>4
  <2> HIDE DEF p, q
  <2>2. h \in Int /\ hi \in Int
    OBVIOUS
  <2>3. p \div Windows <= q \div Windows /\ h \div Windows <= hi \div Windows
    BY <1>1, <1>4, <2>1, <2>2, DivMono, Zenon
  <2> QED BY <2>3 DEF p, q
<1>5. ASSUME NEW l \in Nat, NEW h \in Nat, lo <= l, h <= hi
      PROVE  Objects(l, h) \subseteq Objects(lo, hi)
  <2> DEFINE p == (lo - Windows) \div Windows
             q == hi \div Windows
             r == (l - Windows) \div Windows
             s == h \div Windows
  <2>1. p \in Int /\ q \in Int /\ r \in Int /\ s \in Int /\ p <= r /\ s <= q
    BY <1>2, <1>4, <1>5
  <2>2. Objects(l, h) = r..s /\ Objects(lo, hi) = p..q
    BY DEF Objects
  <2> HIDE DEF p, q, r, s
  <2> QED BY <2>1, <2>2
<1>6. Objects(lo, hi) \subseteq Int /\ IsFiniteSet(Objects(lo, hi)) /\ Objects(lo, hi) # {}
  <2> DEFINE p == (lo - Windows) \div Windows
             q == hi \div Windows
  <2>1. p \in Int /\ q \in Int /\ p <= q
    BY <1>2, <1>3
  <2>2. Objects(lo, hi) = p..q
    BY DEF Objects
  <2> HIDE DEF p, q
  <2>3. IsFiniteSet(p..q) /\ p \in p..q /\ p..q \subseteq Int
    BY <2>1, FS_Interval
  <2> QED BY <2>2, <2>3
<1> QED BY <1>5, <1>6

-----------------------------------------------------------------------------
(***************************************************************************)
(* The frozen plan: finitely many starts, all of them naturals.            *)
(***************************************************************************)
LEMMA UnionFinite ==
  ASSUME NEW f, IsFiniteSet(DOMAIN f), \A x \in DOMAIN f : IsFiniteSet(f[x])
  PROVE  IsFiniteSet(UNION {f[x] : x \in DOMAIN f})
<1> DEFINE F == {f[x] : x \in DOMAIN f}
<1>1. IsFiniteSet(F)
  BY ImageFinite
<1>2. \A T \in F : IsFiniteSet(T)
  OBVIOUS
<1> HIDE DEF F
<1>3. IsFiniteSet(UNION F)
  BY <1>1, <1>2, FS_UNION
<1> QED BY <1>3 DEF F

LEMMA RoundFacts ==
  ASSUME CanaryAssumption
  PROVE  /\ Len(Rounds) \in Nat /\ DOMAIN Rounds = 1..Len(Rounds)
         /\ \A i \in 1..Len(Rounds) :
              /\ Rounds[i] \subseteq Nat /\ Rounds[i] \subseteq Starts
              /\ Rounds[i] \subseteq RoundStarts
              /\ IsFiniteSet(Rounds[i]) /\ Cardinality(Rounds[i]) = MaxCandidates
              /\ \E lo, hi \in Rounds[i] :
                   Rounds[i] \subseteq lo..hi /\ Cardinality(Objects(lo, hi)) <= MaxObjects
         /\ MaxCandidates \in Nat \ {0} /\ MaxObjects \in Nat
<1>1. Rounds \in Seq(SUBSET Nat)
  BY DEF CanaryAssumption
<1>2. Len(Rounds) \in Nat /\ DOMAIN Rounds = 1..Len(Rounds) /\ \A i \in 1..Len(Rounds) : Rounds[i] \in SUBSET Nat
  <2>1. Len(Rounds) \in Nat /\ DOMAIN Rounds = 1..Len(Rounds)
    BY <1>1, LenProperties
  <2>2. \A i \in 1..Len(Rounds) : Rounds[i] \in SUBSET Nat
    BY <1>1, ElementOfSeq
  <2> QED BY <2>1, <2>2
<1>3. \A i \in 1..Len(Rounds) : Rounds[i] \subseteq RoundStarts /\ Rounds[i] \subseteq Starts
  BY DEF RoundStarts, Starts
<1> QED BY <1>2, <1>3 DEF CanaryAssumption

LEMMA PriorFacts ==
  ASSUME CanaryAssumption
  PROVE  /\ Configured \subseteq Assets /\ IsFiniteSet(Configured)
         /\ DOMAIN PriorStarts = Configured
         /\ \A a \in Configured :
              /\ PriorStarts[a] \subseteq Nat /\ IsFiniteSet(PriorStarts[a])
              /\ PriorStarts[a] \subseteq PriorMarkets /\ PriorStarts[a] \subseteq Starts
              /\ PriorAccepted[a] \subseteq PriorStarts[a] /\ PriorAccepted[a] # {}
<1>1. IsFiniteSet(Configured)
  BY FS_Subset DEF CanaryAssumption
<1>2. \A a \in Configured : PriorStarts[a] \subseteq PriorMarkets /\ PriorStarts[a] \subseteq Starts
  BY DEF PriorMarkets, Starts
<1> QED BY <1>1, <1>2 DEF CanaryAssumption

LEMMA StartsFacts ==
  ASSUME CanaryAssumption
  PROVE  Starts \subseteq Nat /\ IsFiniteSet(Starts) /\ IsFiniteSet(PriorMarkets)
<1>1. /\ Len(Rounds) \in Nat /\ DOMAIN Rounds = 1..Len(Rounds)
      /\ \A i \in 1..Len(Rounds) : Rounds[i] \subseteq Nat /\ IsFiniteSet(Rounds[i])
  BY RoundFacts
<1>2. /\ IsFiniteSet(Configured) /\ DOMAIN PriorStarts = Configured
      /\ \A a \in Configured : PriorStarts[a] \subseteq Nat /\ IsFiniteSet(PriorStarts[a])
  BY PriorFacts
<1>3. IsFiniteSet(1..Len(Rounds))
  BY <1>1, FS_Interval
<1>4. IsFiniteSet(RoundStarts)
  <2>1. RoundStarts = UNION {Rounds[x] : x \in DOMAIN Rounds}
    BY <1>1 DEF RoundStarts
  <2>2. IsFiniteSet(DOMAIN Rounds) /\ \A x \in DOMAIN Rounds : IsFiniteSet(Rounds[x])
    BY <1>1, <1>3
  <2>3. IsFiniteSet(UNION {Rounds[x] : x \in DOMAIN Rounds})
    BY <2>2, UnionFinite
  <2> QED BY <2>1, <2>3
<1>5. IsFiniteSet(PriorMarkets)
  <2>1. PriorMarkets = UNION {PriorStarts[x] : x \in DOMAIN PriorStarts}
    BY <1>2 DEF PriorMarkets
  <2>2. IsFiniteSet(UNION {PriorStarts[x] : x \in DOMAIN PriorStarts})
    BY <1>2, UnionFinite
  <2> QED BY <2>1, <2>2
<1>6. RoundStarts \subseteq Nat /\ PriorMarkets \subseteq Nat
  BY <1>1, <1>2 DEF RoundStarts, PriorMarkets
<1> QED BY <1>4, <1>5, <1>6, FS_Union DEF Starts

LEMMA AssetsFacts ==
  ASSUME CanaryAssumption
  PROVE  IsFiniteSet(Assets) /\ Assets # {} /\ Cardinality(Assets) \in Nat
BY FS_CardinalityType DEF CanaryAssumption

-----------------------------------------------------------------------------
(***************************************************************************)
(* The inductive invariant.                                                *)
(***************************************************************************)

\* The requests of the prior proofs, and those of them that are answered or
\* will not be made.
Requested == {m \in Configured \X PriorMarkets : m[2] \in PriorStarts[m[1]]}

Answered ==
  {m \in Requested :
     m[1] \notin unchecked /\ ~(pc = "ask" /\ m[1] = asset /\ m[2] \in left)}

PriorOf(A) == UNION {PriorStarts[a] : a \in A}

Receipts ==
  [prior : SUBSET Configured, invalidated : SUBSET Configured, rounds : Nat,
   qualified : SUBSET Starts, fresh : Nat, total : Nat, gamma : Nat, heads : Nat,
   objects : Nat, exclusions : Nat, usable : SUBSET (Assets \X Starts),
   proof : [Assets -> SUBSET Starts], selected : Seq(Starts),
   starts : [Assets -> Starts]]

StateOK ==
  /\ pc \in Working \cup Ended /\ reuse \in Reuses
  /\ unchecked \subseteq Configured /\ reused \subseteq Configured
  /\ invalidated \subseteq Configured /\ (pc = "ask" => asset \in Configured)
  /\ left \subseteq Starts /\ known \subseteq Starts /\ candidates \subseteq Starts
  /\ probed \subseteq Int /\ IsFiniteSet(probed)
  /\ gamma \in Nat /\ asked \in Nat /\ heads \in Nat /\ probes \in Nat /\ objects \in Nat
  /\ round \in 0..Len(Rounds)
  /\ seen \subseteq Assets \X Starts /\ usable \subseteq Assets \X Starts
  /\ qualified \subseteq Starts /\ fresh \subseteq Starts
  /\ proof \in [Assets -> SUBSET Starts]
  /\ pc # "passed" => receipt = None

CanaryTypeOK == StateOK /\ (receipt = None \/ receipt \in Receipts)

\* Every prior proof is unchecked, at hand, reused or invalidated, and every
\* market it names is requested once at most.
PriorPhase ==
  /\ reused \cap invalidated = {} /\ unchecked \cap (reused \cup invalidated) = {}
  /\ pc \in {"prior", "ask"} =>
       /\ round = 0 /\ fresh = {} /\ heads = 0 /\ objects = 0
       /\ gamma <= Cardinality(Answered)
       /\ invalidated = {} => gamma = Cardinality(Answered)
  /\ pc = "prior" => unchecked \cup reused \cup invalidated = Configured
  /\ pc = "ask" =>
       /\ unchecked \cup reused \cup invalidated = Configured \ {asset}
       /\ asset \notin unchecked \cup reused \cup invalidated
       /\ left \subseteq PriorStarts[asset] /\ known = PriorStarts[asset] \ left

Covered ==
  /\ \A a \in reused : proof[a] # {}
  /\ \A a \in Assets : proof[a] = {} \/ a \in reused \/ round > 0
  /\ \A a \in Assets : proof[a] \subseteq qualified
  /\ qualified = fresh \cup PriorOf(reused)
  /\ usable = {m \in Assets \X Starts : m[2] \in proof[m[1]]}
  /\ usable \subseteq seen

\* The markets of M have distinct identities.
Distinct(M) == reuse = {} \/ ~(reuse \subseteq M)

Identities ==
  /\ Distinct(seen)
  /\ pc = "ask" => Distinct(seen \cup Of(asset, known))
  /\ pc = "qualify" => Distinct(seen \cup (Uncovered \X known))
  /\ pc = "execute" => Uncovered \X candidates \subseteq seen

\* The rounds whose requests are counted.
Counted == IF pc = "execute" THEN round + 1 ELSE round

SearchPhase ==
  pc \in {"search", "qualify", "execute", "select", "passed"} =>
    /\ reused \cup invalidated = Configured
    /\ PriorOf(reused) \cap RoundStarts = {}
    /\ fresh \subseteq UNION {Rounds[i] : i \in 1..round}
    /\ round <= Cardinality(fresh) /\ Cardinality(fresh) <= MaxCandidates * round
    /\ gamma <= PriorRequests + MaxCandidates * Counted * Cardinality(Assets)
    /\ Counted = 0 /\ invalidated = {} => gamma = PriorRequests
    /\ heads <= MaxObjects * Counted /\ objects = heads
    /\ Counted > 0 <=> heads > 0

RoundPhase ==
  /\ pc \in {"qualify", "execute"} =>
       /\ round < Len(Rounds) /\ Uncovered # {}
       /\ candidates \subseteq Rounds[round + 1]
  /\ pc = "qualify" =>
       /\ left \subseteq Rounds[round + 1]
       /\ candidates \subseteq known /\ known \subseteq Rounds[round + 1] \ left
       /\ asked <= Cardinality(Rounds[round + 1] \ left) * Cardinality(Uncovered)
       /\ probes = Cardinality(probed)
       /\ \A lo, hi \in Rounds[round + 1] :
            Rounds[round + 1] \subseteq lo..hi => probed \subseteq Objects(lo, hi)
  /\ pc = "execute" => candidates # {}
  /\ pc \in {"select", "passed"} => Uncovered = {}

\* The receipt once it is written.
ReceiptOK ==
  /\ receipt = None \/ receipt \in Receipts
  /\ ReceiptOpensGate /\ CoverIsMinimum

\* What holds in every state.
CanaryInv ==
  /\ StateOK /\ ReceiptOK /\ pc # "exceeded"
  /\ pc # "failed" => PriorPhase /\ Covered /\ Identities /\ SearchPhase /\ RoundPhase

-----------------------------------------------------------------------------
(***************************************************************************)
(* Types.                                                                  *)
(***************************************************************************)
LEMMA SizeFacts ==
  ASSUME CanaryAssumption, StateOK
  PROVE  /\ Uncovered \subseteq Assets /\ IsFiniteSet(Uncovered)
         /\ Cardinality(Uncovered) \in Nat /\ Cardinality(Uncovered) <= Cardinality(Assets)
         /\ \A a \in Uncovered : Position(a) \in Nat /\ Position(a) <= Cardinality(Uncovered)
<1>1. Uncovered \subseteq Assets /\ IsFiniteSet(Assets)
  BY DEF Uncovered, CanaryAssumption
<1>2. IsFiniteSet(Uncovered) /\ Cardinality(Uncovered) <= Cardinality(Assets)
  BY <1>1, FS_Subset
<1>3. \A a \in Uncovered : Position(a) \in Nat /\ Position(a) <= Cardinality(Uncovered)
  <2>1. ASSUME NEW T \in SUBSET Uncovered
        PROVE  Cardinality(T) \in Nat /\ Cardinality(T) <= Cardinality(Uncovered)
    BY <1>2, FS_Subset, FS_CardinalityType
  <2> QED BY <2>1 DEF Position
<1> QED BY <1>1, <1>2, <1>3, FS_CardinalityType

LEMMA ProbeFacts ==
  ASSUME StateOK, NEW hours \in SUBSET Int, IsFiniteSet(hours), Probe(hours)
  PROVE  /\ probed' = probed \cup hours /\ probed' \subseteq Int /\ IsFiniteSet(probed')
         /\ probes' = probes + Cardinality(hours \ probed) /\ probes' \in Nat
         /\ probes = Cardinality(probed) => probes' = Cardinality(probed')
<1>1. IsFiniteSet(probed) /\ probed \subseteq Int /\ probes \in Nat
  BY DEF StateOK
<1>2. IsFiniteSet(hours \ probed) /\ Cardinality(hours \ probed) \in Nat
  BY FS_Difference, FS_CardinalityType
<1>3. probed' = probed \cup hours /\ probes' = probes + Cardinality(hours \ probed)
  BY DEF Probe
<1>4. IsFiniteSet(probed')
  BY <1>1, <1>3, FS_Union
<1>5. Cardinality(probed \cup (hours \ probed)) =
        Cardinality(probed) + Cardinality(hours \ probed) - Cardinality(probed \cap (hours \ probed))
  BY <1>1, <1>2, FS_Union
<1>6. probed \cap (hours \ probed) = {} /\ probed \cup (hours \ probed) = probed'
  BY <1>3
<1>7. Cardinality(probed') = Cardinality(probed) + Cardinality(hours \ probed)
  <2>1. Cardinality(probed \cap (hours \ probed)) = 0
    BY <1>6, FS_EmptySet
  <2>2. Cardinality(probed) \in Nat
    BY <1>1, FS_CardinalityType
  <2>3. Cardinality(probed') = Cardinality(probed \cup (hours \ probed))
    BY <1>6
  <2> QED BY <1>2, <1>5, <2>1, <2>2, <2>3
<1> QED BY <1>1, <1>2, <1>3, <1>4, <1>7

LEMMA InitOK == ASSUME CanaryAssumption, Init PROVE StateOK
<1>1. IsFiniteSet({}) /\ Len(Rounds) \in Nat
  BY FS_EmptySet, RoundFacts
<1> QED BY <1>1 DEF Init, StateOK, Working, Ended

LEMMA BundleFacts ==
  ASSUME CanaryAssumption, StateOK, candidates # {}
  PROVE  /\ Bundle \subseteq Int /\ IsFiniteSet(Bundle) /\ Bundle # {}
         /\ Min(candidates) \in candidates /\ Max(candidates) \in candidates
         /\ \A s \in candidates : Min(candidates) <= s /\ s <= Max(candidates)
<1>1. candidates \in SUBSET Nat /\ IsFiniteSet(candidates)
  BY StartsFacts, FS_Subset DEF StateOK
<1>2. /\ Min(candidates) \in candidates /\ Max(candidates) \in candidates
      /\ \A s \in candidates : Min(candidates) <= s /\ s <= Max(candidates)
  BY <1>1, MinFacts, MaxFacts
<1> DEFINE lo == Min(candidates)
           hi == Max(candidates)
<1>3. lo \in Nat /\ hi \in Nat /\ lo <= hi
  BY <1>1, <1>2
<1>4. Bundle = Objects(lo, hi)
  BY DEF Bundle
<1> HIDE DEF lo, hi
<1>5. Objects(lo, hi) \subseteq Int /\ IsFiniteSet(Objects(lo, hi)) /\ Objects(lo, hi) # {}
  BY <1>3, ObjectsFacts
<1> QED BY <1>2, <1>4, <1>5

LEMMA LatestFacts ==
  ASSUME CanaryAssumption, StateOK, left # {}
  PROVE  /\ Max(left) \in left /\ Max(left) \in Nat /\ Max(left) \in Starts
         /\ Min(left) \in left /\ Min(left) \in Starts
         /\ Objects(Max(left), Max(left)) \subseteq Int
         /\ IsFiniteSet(Objects(Max(left), Max(left)))
<1>1. left \in SUBSET Nat /\ IsFiniteSet(left) /\ left \subseteq Starts
  BY StartsFacts, FS_Subset DEF StateOK
<1>2. Max(left) \in left /\ Min(left) \in left
  BY <1>1, MinFacts, MaxFacts
<1> DEFINE s == Max(left)
<1>3. s \in Nat
  BY <1>1, <1>2
<1> HIDE DEF s
<1>a. s <= s
  BY <1>3
<1>4. Objects(s, s) \subseteq Int /\ IsFiniteSet(Objects(s, s))
  BY <1>3, <1>a, ObjectsFacts
<1> QED BY <1>1, <1>2, <1>3, <1>4 DEF s

LEMMA StepOK ==
  ASSUME CanaryAssumption, StateOK, pc = "execute" => round < Len(Rounds), [Next]_vars
  PROVE  StateOK'
<1>0. Working \cup Ended = {"prior", "ask", "search", "qualify", "execute", "select",
                            "passed", "failed", "exceeded"}
  BY DEF Working, Ended
<1>1. ASSUME NEW a \in Configured, BeginPrior(a) PROVE StateOK'
  <2>1. PriorStarts[a] \subseteq Starts
    BY PriorFacts
  <2> QED BY <1>0, <1>1, <2>1 DEF BeginPrior, StateOK, Goto, sumVars, bookVars
<1>2. CASE AskPrior
  <2>1. Min(left) \in Starts /\ gamma + 1 \in Nat
    <3>1. left # {}
      BY <1>2 DEF AskPrior
    <3>2. gamma \in Nat
      BY DEF StateOK
    <3> QED BY <3>1, <3>2, LatestFacts
  <2>2. /\ pc = "ask" /\ gamma' = gamma + 1
        /\ invalidated' \in {invalidated, invalidated \cup {asset}}
        /\ left' \in {left, left \ {Min(left)}}
        /\ known' \in {known, known \cup {Min(left)}}
        /\ pc' \in {"prior", "failed", "ask"}
        /\ UNCHANGED <<reuse, unchecked, asset, reused, candidates, probed, probes, asked,
                       heads, objects, round, seen, qualified, fresh, usable, proof, receipt>>
    BY <1>2, Zenon DEF AskPrior, Goto, bookVars
  <2> QED BY <1>0, <2>1, <2>2 DEF StateOK
<1>3. CASE EndPrior
  <2>1. asset \in Configured /\ asset \in Assets /\ PriorStarts[asset] \subseteq Starts
          /\ PriorAccepted[asset] \subseteq Starts
    BY <1>3, PriorFacts DEF EndPrior, StateOK
  <2>2. Of(asset, PriorStarts[asset]) \subseteq Assets \X Starts
          /\ Of(asset, PriorAccepted[asset]) \subseteq Assets \X Starts
    BY <2>1 DEF Of
  <2> QED BY <1>0, <1>3, <2>1, <2>2 DEF EndPrior, StateOK, Goto, askVars, sumVars, bookVars
<1>4. CASE BeginSearch
  <2>1. pc' \in {"exceeded", "failed", "search"} /\ pc = "prior"
    BY <1>4, Zenon DEF BeginSearch, Goto
  <2> QED BY <1>0, <1>4, <2>1 DEF BeginSearch, StateOK, priorVars, askVars, sumVars, bookVars
<1>5. CASE BeginRound
  <2>1. round + 1 \in 1..Len(Rounds) /\ Rounds[round + 1] \subseteq Starts
    <3>1. Len(Rounds) \in Nat /\ round \in 0..Len(Rounds) /\ round < Len(Rounds)
      BY <1>5, RoundFacts DEF BeginRound, StateOK
    <3>2. round + 1 \in 1..Len(Rounds)
      BY <3>1
    <3> QED BY <3>2, RoundFacts
  <2> QED BY <1>0, <1>5, <2>1, FS_EmptySet
      DEF BeginRound, StateOK, Goto, priorVars, sumVars, bookVars
<1>6. ASSUME NEW a \in Assets, Reject(a) PROVE StateOK'
  <2>1. Position(a) \in Nat
    BY <1>6, SizeFacts DEF Reject
  <2>2. pc' \in {"exceeded", "qualify"} /\ pc = "qualify"
    BY <1>6 DEF Reject, Within, Goto
  <2> QED BY <1>0, <1>6, <2>1, <2>2 DEF Reject, StateOK, priorVars, sumVars, bookVars
<1>7. CASE Accept
  <2>1. Max(left) \in Starts /\ Cardinality(Uncovered) \in Nat
    BY <1>7, SizeFacts, LatestFacts DEF Accept
  <2>2. pc' \in {"exceeded", "qualify", "failed"} /\ pc = "qualify"
    BY <1>7, Zenon DEF Accept, Within, Goto
  <2>3. probed' \subseteq Int /\ IsFiniteSet(probed') /\ probes' \in Nat
    <3>1. CASE Probe(Objects(Max(left), Max(left)))
      BY <1>7, <3>1, LatestFacts, ProbeFacts DEF Accept
    <3>2. CASE UNCHANGED <<probed, probes>>
      BY <3>2 DEF StateOK
    <3> QED BY <1>7, <3>1, <3>2 DEF Accept
  <2>4. candidates' \subseteq Starts
    BY <1>7, <2>1 DEF Accept, StateOK
  <2>5. asked' \in Nat
    <3>1. asked \in Nat /\ asked' = asked + Cardinality(Uncovered)
      BY <1>7 DEF Accept, StateOK
    <3> QED BY <2>1, <3>1
  <2>6. left' \subseteq Starts /\ known' \subseteq Starts
    BY <1>7, <2>1 DEF Accept, StateOK
  <2>7. UNCHANGED <<reuse, unchecked, asset, reused, invalidated, gamma, heads, objects, round,
                    seen, qualified, fresh, usable, proof, receipt>>
    BY <1>7, Zenon DEF Accept, priorVars, sumVars, bookVars
  <2> QED BY <1>0, <2>2, <2>3, <2>4, <2>5, <2>6, <2>7 DEF StateOK
<1>8. CASE CloseQualification
  <2>1. pc' \in {"exceeded", "execute", "failed"} /\ pc = "qualify"
    BY <1>8, Zenon DEF CloseQualification, Goto
  <2>a. UNCHANGED <<reuse, unchecked, asset, reused, invalidated, left, known, candidates,
                    asked, round, qualified, fresh, usable, proof, receipt>>
    BY <1>8 DEF CloseQualification, priorVars
  <2>2. CASE Unusable = TRUE /\ UNCHANGED <<probed, probes, gamma, heads, objects, seen>>
    BY <1>0, <2>1, <2>2, <2>a DEF StateOK
  <2>3. CASE /\ Unusable = FALSE /\ Probe(Bundle)
             /\ gamma' = gamma + asked /\ heads' = heads + probes'
             /\ objects' = objects + Cardinality(probed')
             /\ seen' = seen \cup (Uncovered \X candidates)
    <3>1. candidates # {}
      BY <2>3 DEF Unusable
    <3>2. probed' \subseteq Int /\ IsFiniteSet(probed') /\ probes' \in Nat
      BY <2>3, <3>1, BundleFacts, ProbeFacts
    <3>3. Cardinality(probed') \in Nat
      BY <3>2, FS_CardinalityType
    <3>4. seen' \subseteq Assets \X Starts
      BY <2>3, SizeFacts DEF StateOK
    <3>5. gamma' \in Nat /\ heads' \in Nat /\ objects' \in Nat
      <4>1. gamma \in Nat /\ asked \in Nat /\ heads \in Nat /\ objects \in Nat
        BY DEF StateOK
      <4>2. /\ gamma' = gamma + asked /\ heads' = heads + probes'
            /\ objects' = objects + Cardinality(probed')
        BY <2>3
      <4>3. probes' \in Nat
        BY <3>2
      <4>4. \A a, b \in Nat : a + b \in Nat
        OBVIOUS
      <4> QED BY <3>3, <4>1, <4>2, <4>3, <4>4, Zenon
    <3> QED BY <1>0, <2>1, <2>a, <3>2, <3>4, <3>5 DEF StateOK
  <2> QED BY <1>8, <2>2, <2>3, Zenon DEF CloseQualification
<1>9. ASSUME NEW acc \in [Uncovered -> SUBSET candidates], Execute(acc)
      PROVE  StateOK'
  <2>1. usable' \subseteq Assets \X Starts
    BY <1>9, SizeFacts DEF Execute, StateOK
  <2>2. proof' \in [Assets -> SUBSET Starts]
    <3>1. \A a \in Uncovered : acc[a] \subseteq Starts
      BY <1>9 DEF StateOK
    <3> QED BY <1>9, <3>1 DEF Execute, StateOK
  <2>3. round + 1 \in 0..Len(Rounds)
    BY <1>9, RoundFacts DEF Execute, StateOK
  <2> QED BY <1>0, <1>9, <2>1, <2>2, <2>3 DEF Execute, StateOK, Goto, priorVars, askVars
<1>10. CASE EndSearch
  <2>1. pc' \in {"select", "failed"} /\ pc = "search"
    BY <1>10 DEF EndSearch, Goto
  <2> QED BY <1>0, <1>10, <2>1 DEF EndSearch, StateOK, priorVars, askVars, sumVars, bookVars
<1>11. CASE WriteReceipt
  BY <1>0, <1>11 DEF WriteReceipt, StateOK, Goto, priorVars, askVars, sumVars, bookVars
<1>12. CASE Abort
  BY <1>0, <1>12 DEF Abort, StateOK, Goto, priorVars, askVars, sumVars, bookVars, Working
<1>13. CASE UNCHANGED vars
  BY <1>13 DEF StateOK, vars, priorVars, askVars, sumVars, bookVars
<1> QED BY <1>1, <1>2, <1>3, <1>4, <1>5, <1>6, <1>7, <1>8, <1>9, <1>10, <1>11, <1>12, <1>13
    DEF Next, Proceed

-----------------------------------------------------------------------------
(***************************************************************************)
(* The revalidation of the prior proofs.                                   *)
(***************************************************************************)
LEMMA RequestedFacts ==
  ASSUME CanaryAssumption
  PROVE  /\ IsFiniteSet(Requested) /\ PriorRequests = Cardinality(Requested)
         /\ PriorRequests \in Nat
         /\ \A T \in SUBSET Requested :
              IsFiniteSet(T) /\ Cardinality(T) \in Nat /\ Cardinality(T) <= PriorRequests
<1>1. IsFiniteSet(Configured \X PriorMarkets)
  BY StartsFacts, PriorFacts, FS_Product
<1>2. IsFiniteSet(Requested)
  BY <1>1, FS_Subset DEF Requested
<1>3. PriorRequests = Cardinality(Requested)
  BY DEF PriorRequests, Requested
<1>4. ASSUME NEW T \in SUBSET Requested
      PROVE  IsFiniteSet(T) /\ Cardinality(T) \in Nat /\ Cardinality(T) <= PriorRequests
  BY <1>2, <1>3, FS_Subset, FS_CardinalityType
<1> QED BY <1>2, <1>3, <1>4, FS_CardinalityType

\* One more market is answered.
LEMMA OneMore ==
  ASSUME CanaryAssumption, NEW S \in SUBSET Requested, NEW T \in SUBSET Requested,
         NEW m \in T, m \notin S, S \subseteq T
  PROVE  /\ Cardinality(S) + 1 <= Cardinality(T)
         /\ T = S \cup {m} => Cardinality(T) = Cardinality(S) + 1
<1>1. /\ IsFiniteSet(S) /\ IsFiniteSet(T)
      /\ Cardinality(S) \in Nat /\ Cardinality(T) \in Nat
  BY RequestedFacts
<1>2. IsFiniteSet(S \cup {m}) /\ Cardinality(S \cup {m}) = Cardinality(S) + 1
  BY <1>1, FS_AddElement
<1>3. S \cup {m} \in SUBSET T
  OBVIOUS
<1>4. Cardinality(S \cup {m}) <= Cardinality(T)
  BY <1>1, <1>3, FS_Subset
<1> QED BY <1>1, <1>2, <1>4

LEMMA PriorStep ==
  ASSUME CanaryAssumption, StateOK, PriorPhase, [Next]_vars, pc' # "failed"
  PROVE  PriorPhase'
<1>1. ASSUME NEW a \in Configured, BeginPrior(a) PROVE PriorPhase'
  <2>1. /\ pc = "prior" /\ a \in unchecked /\ pc' = "ask" /\ asset' = a
        /\ unchecked' = unchecked \ {a} /\ left' = PriorStarts[a] /\ known' = {}
        /\ UNCHANGED <<reused, invalidated, gamma, heads, objects, round, fresh>>
    BY <1>1 DEF BeginPrior, Goto, sumVars, bookVars
  <2>2. Answered' = Answered
    BY <2>1 DEF Answered, Requested
  <2> HIDE DEF Answered
  <2> QED BY <2>1, <2>2 DEF PriorPhase
<1>2. CASE AskPrior
  <2> DEFINE s == Min(left)
             m == <<asset, s>>
  <2>1. pc = "ask" /\ left # {} /\ asset \in Configured /\ s \in left
    <3>1. pc = "ask" /\ left # {}
      BY <1>2 DEF AskPrior
    <3> QED BY <3>1, LatestFacts DEF StateOK
  <2>2. m \in Requested /\ m \notin Answered
    BY <2>1, PriorFacts DEF Requested, Answered, PriorPhase
  <2>3. /\ gamma' = gamma + 1
        /\ UNCHANGED <<unchecked, asset, reused, heads, objects, round, fresh>>
    BY <1>2 DEF AskPrior, bookVars
  <2>4. Answered \in SUBSET Requested /\ gamma \in Nat /\ gamma' = gamma + 1
    BY <2>3 DEF Answered, StateOK
  <2>5. CASE /\ invalidated' = invalidated \cup {asset} /\ pc' = "prior"
             /\ UNCHANGED <<left, known>>
    <3>1. Answered \subseteq Answered' /\ m \in Answered' /\ Answered' \in SUBSET Requested
      BY <2>1, <2>2, <2>3, <2>5 DEF Answered, Requested, PriorPhase
    <3>2. gamma <= Cardinality(Answered) /\ Cardinality(Answered) \in Nat
            /\ Cardinality(Answered') \in Nat
      BY <2>1, <2>4, <3>1, RequestedFacts DEF PriorPhase
    <3>3. Cardinality(Answered) + 1 <= Cardinality(Answered')
      BY <2>2, <2>4, <3>1, OneMore
    <3>4. gamma' <= Cardinality(Answered)'
      BY <2>4, <3>2, <3>3
    <3> HIDE DEF s, m
    <3> QED BY <2>1, <2>3, <2>5, <3>4 DEF PriorPhase
  <2>6. CASE /\ left' = left \ {s} /\ known' = known \cup {s}
             /\ UNCHANGED <<pc, invalidated>>
    <3>1. Answered' = Answered \cup {m}
      <4>1. Answered' \subseteq Answered \cup {m}
        BY <2>1, <2>3, <2>6 DEF Answered, Requested
      <4>2. Answered \cup {m} \subseteq Answered'
        BY <2>1, <2>2, <2>3, <2>6 DEF Answered, Requested, PriorPhase
      <4> QED BY <4>1, <4>2
    <3>2. /\ (gamma <= Cardinality(Answered))
          /\ (invalidated = {} => gamma = Cardinality(Answered))
          /\ Cardinality(Answered) \in Nat /\ Answered' \in SUBSET Requested
      <4>1. m \in Requested /\ IsFiniteSet(Answered)
        BY <2>2, <2>4, RequestedFacts
      <4>2. Cardinality(Answered) \in Nat
        BY <4>1, FS_CardinalityType
      <4>3. Answered' \in SUBSET Requested
        <5> HIDE DEF Answered, m
        <5> QED BY <2>4, <3>1, <4>1
      <4> QED BY <2>1, <4>2, <4>3 DEF PriorPhase
    <3>3. Cardinality(Answered') = Cardinality(Answered) + 1
      BY <2>2, <2>4, <3>1, <3>2, OneMore
    <3>4. (gamma <= Cardinality(Answered))' /\ (invalidated = {} => gamma = Cardinality(Answered))'
      BY <2>4, <2>6, <3>2, <3>3
    <3>5. left' \subseteq PriorStarts[asset] /\ known' = PriorStarts[asset] \ left'
      BY <2>1, <2>6 DEF PriorPhase
    <3> HIDE DEF s, m
    <3> QED BY <2>1, <2>3, <2>6, <3>4, <3>5 DEF PriorPhase
  <2>7. pc' # "failed"
    OBVIOUS
  <2> QED BY <1>2, <2>5, <2>6, <2>7, Zenon DEF AskPrior, Goto
<1>3. CASE EndPrior
  <2>1. /\ pc = "ask" /\ left = {} /\ pc' = "prior" /\ asset \in Configured
        /\ \/ invalidated' = invalidated \cup {asset} /\ UNCHANGED reused
           \/ reused' = reused \cup {asset} /\ UNCHANGED invalidated
        /\ UNCHANGED <<unchecked, asset, left, known, gamma, heads, objects, round, fresh>>
    BY <1>3 DEF EndPrior, Goto, askVars, sumVars, bookVars, StateOK
  <2>2. Answered' = Answered
    BY <2>1 DEF Answered, Requested
  <2> HIDE DEF Answered
  <2>3. /\ (gamma <= Cardinality(Answered))'
        /\ (invalidated = {} => gamma = Cardinality(Answered))'
    BY <2>1, <2>2 DEF PriorPhase
  <2> QED BY <2>1, <2>3 DEF PriorPhase
<1>4. CASE pc' \notin {"prior", "ask"} /\ UNCHANGED <<unchecked, reused, invalidated>>
  BY <1>4 DEF PriorPhase
<1>5. CASE UNCHANGED vars
  <2>1. UNCHANGED <<pc, unchecked, reused, invalidated, asset, left, known, gamma, heads,
                    objects, round, fresh>>
    BY <1>5 DEF vars, priorVars, askVars, sumVars, bookVars
  <2>2. Answered' = Answered
    BY <2>1 DEF Answered, Requested
  <2> HIDE DEF Answered
  <2> QED BY <2>1, <2>2 DEF PriorPhase
<1>6. ASSUME \/ BeginSearch \/ BeginRound \/ (\E a \in Assets : Reject(a)) \/ Accept
             \/ CloseQualification
             \/ \E acc \in [Uncovered -> SUBSET candidates] : Execute(acc)
             \/ EndSearch \/ WriteReceipt \/ Abort
      PROVE  pc' \notin {"prior", "ask"} /\ UNCHANGED <<unchecked, reused, invalidated>>
  <2>1. CASE BeginSearch
    BY <2>1, Zenon DEF BeginSearch, Goto, priorVars
  <2>2. CASE Accept
    BY <2>2 DEF Accept, Within, Goto, priorVars
  <2>3. CASE CloseQualification
    BY <2>3 DEF CloseQualification, Goto, priorVars
  <2>4. CASE \E a \in Assets : Reject(a)
    BY <2>4 DEF Reject, Within, Goto, priorVars
  <2>5. CASE \/ BeginRound \/ (\E acc \in [Uncovered -> SUBSET candidates] : Execute(acc))
             \/ EndSearch \/ WriteReceipt \/ Abort
    BY <2>5 DEF BeginRound, Execute, EndSearch, WriteReceipt, Abort, Goto, priorVars
  <2> QED BY <1>6, <2>1, <2>2, <2>3, <2>4, <2>5
<1> QED BY <1>1, <1>2, <1>3, <1>4, <1>5, <1>6 DEF Next, Proceed

-----------------------------------------------------------------------------
(***************************************************************************)
(* The proofs of the assets, and the identities of the markets.            *)
(***************************************************************************)

\* The steps that leave the proofs and the identities alone.
Quiet == UNCHANGED <<reuse, reused, round, seen, qualified, fresh, usable, proof>>

LEMMA QuietSteps ==
  ASSUME \/ (\E a \in Configured : BeginPrior(a)) \/ AskPrior \/ BeginSearch \/ BeginRound
         \/ (\E a \in Assets : Reject(a)) \/ Accept \/ EndSearch \/ WriteReceipt \/ Abort
         \/ UNCHANGED vars
  PROVE  Quiet
<1>1. CASE \/ (\E a \in Configured : BeginPrior(a)) \/ BeginSearch \/ BeginRound
           \/ (\E a \in Assets : Reject(a)) \/ EndSearch \/ WriteReceipt \/ Abort
           \/ UNCHANGED vars
  BY <1>1 DEF Quiet, BeginPrior, BeginSearch, BeginRound, Reject, EndSearch, WriteReceipt,
              Abort, vars, priorVars, askVars, sumVars, bookVars
<1>2. CASE AskPrior
  BY <1>2 DEF Quiet, AskPrior, bookVars
<1>3. CASE Accept
  BY <1>3 DEF Quiet, Accept, priorVars, sumVars, bookVars
<1> QED BY <1>1, <1>2, <1>3

LEMMA CoveredStep ==
  ASSUME CanaryAssumption, StateOK, PriorPhase, Covered, Identities, RoundPhase, [Next]_vars
  PROVE  Covered'
<1>1. CASE Quiet
  BY <1>1 DEF Quiet, Covered, PriorOf
<1>2. CASE EndPrior
  <2>1. /\ pc = "ask" /\ asset \in Configured /\ asset \in Assets /\ asset \notin reused
        /\ round = 0 /\ proof[asset] = {} /\ reused \subseteq Configured
        /\ proof \in [Assets -> SUBSET Starts]
    <3>1. pc = "ask"
      BY <1>2 DEF EndPrior
    <3>2. /\ asset \in Configured /\ reused \subseteq Configured
          /\ proof \in [Assets -> SUBSET Starts]
      BY <3>1 DEF StateOK
    <3>3. asset \in Assets
      BY <3>2, PriorFacts
    <3>4. asset \notin reused /\ round = 0
      BY <3>1 DEF PriorPhase
    <3>5. proof[asset] = {}
      BY <3>3, <3>4 DEF Covered
    <3> QED BY <3>1, <3>2, <3>3, <3>4, <3>5
  <2>2. /\ PriorAccepted[asset] \subseteq PriorStarts[asset] /\ PriorAccepted[asset] # {}
        /\ PriorStarts[asset] \subseteq Starts
    BY <2>1, PriorFacts
  <2>3. CASE Quiet
    BY <1>1, <2>3
  <2>4. CASE /\ reused' = reused \cup {asset}
             /\ seen' = seen \cup Of(asset, PriorStarts[asset])
             /\ qualified' = qualified \cup PriorStarts[asset]
             /\ usable' = usable \cup Of(asset, PriorAccepted[asset])
             /\ proof' = [proof EXCEPT ![asset] = PriorAccepted[asset]]
             /\ UNCHANGED <<reuse, round, fresh>>
    <3>1. proof' = [a \in Assets |-> IF a = asset THEN PriorAccepted[asset] ELSE proof[a]]
      BY <2>1, <2>4
    <3>2. \A a \in Assets : proof'[a] = IF a = asset THEN PriorAccepted[asset] ELSE proof[a]
      BY <3>1
    <3>3. \A a \in reused' : a \in Assets /\ proof'[a] # {}
      BY <2>1, <2>2, <2>4, <3>2, PriorFacts DEF Covered
    <3>4. \A a \in Assets : proof'[a] = {} \/ a \in reused' \/ round' > 0
      BY <2>4, <3>2 DEF Covered
    <3>5. \A a \in Assets : proof'[a] \subseteq qualified'
      BY <2>2, <2>4, <3>2 DEF Covered
    <3>6. qualified' = fresh' \cup PriorOf(reused')
      <4>1. PriorOf(reused \cup {asset}) = PriorOf(reused) \cup PriorStarts[asset]
        BY DEF PriorOf
      <4> HIDE DEF PriorOf
      <4> QED BY <2>4, <4>1 DEF Covered
    <3>7. usable' = {m \in Assets \X Starts : m[2] \in proof'[m[1]]}
      <4>1. ASSUME NEW m \in usable' PROVE m \in Assets \X Starts /\ m[2] \in proof'[m[1]]
        BY <2>1, <2>2, <2>4, <3>2, <4>1 DEF Covered, Of
      <4>2. ASSUME NEW m \in Assets \X Starts, m[2] \in proof'[m[1]] PROVE m \in usable'
        BY <2>1, <2>2, <2>4, <3>2, <4>2 DEF Covered, Of
      <4> QED BY <4>1, <4>2
    <3>8. usable' \subseteq seen'
      BY <2>2, <2>4 DEF Covered, Of
    <3> QED BY <3>3, <3>4, <3>5, <3>6, <3>7, <3>8 DEF Covered, PriorOf
  <2>5. UNCHANGED <<reuse, round>>
    BY <1>2 DEF EndPrior, sumVars
  <2> QED BY <1>2, <2>3, <2>4, <2>5, Zenon DEF EndPrior, Quiet, bookVars
<1>3. CASE CloseQualification
  <2>1. /\ UNCHANGED <<reuse, reused, round, qualified, fresh, usable, proof>>
        /\ seen \subseteq seen'
    BY <1>3 DEF CloseQualification, priorVars
  <2> QED BY <2>1 DEF Covered, PriorOf
<1>4. ASSUME NEW acc \in [Uncovered -> SUBSET candidates], Execute(acc) PROVE Covered'
  <2>1. /\ round' = round + 1 /\ qualified' = qualified \cup candidates
        /\ fresh' = fresh \cup candidates
        /\ usable' = usable \cup {m \in Uncovered \X candidates : m[2] \in acc[m[1]]}
        /\ proof' = [a \in Assets |-> IF a \in Uncovered THEN acc[a] ELSE proof[a]]
        /\ UNCHANGED <<reused, seen>>
    BY <1>4 DEF Execute, priorVars
  <2>2. /\ Uncovered \X candidates \subseteq seen /\ candidates \subseteq Starts
        /\ round \in Nat /\ reused \subseteq Assets /\ round' > 0
    <3>1. round \in Nat
      BY RoundFacts DEF StateOK
    <3> QED BY <1>4, <2>1, <3>1, PriorFacts DEF Execute, Identities, StateOK
  <2>3. \A a \in Assets : IF a \in Uncovered THEN proof[a] = {} ELSE proof[a] # {}
    BY DEF Uncovered
  <2>4. \A a \in Assets : proof'[a] = IF a \in Uncovered THEN acc[a] ELSE proof[a]
    BY <2>1
  <2>5. \A a \in Uncovered : a \in Assets /\ acc[a] \subseteq candidates
    BY DEF Uncovered
  <2> HIDE DEF Uncovered
  <2>6. \A a \in reused' : proof'[a] # {}
    BY <2>1, <2>2, <2>3, <2>4 DEF Covered
  <2>7. \A a \in Assets : proof'[a] \subseteq qualified'
    BY <2>1, <2>4, <2>5 DEF Covered
  <2>8. qualified' = fresh' \cup PriorOf(reused')
    <3>1. PriorOf(reused') = PriorOf(reused)
      BY <2>1
    <3> QED BY <2>1, <3>1 DEF Covered
  <2>9. usable' = {m \in Assets \X Starts : m[2] \in proof'[m[1]]}
    <3>1. ASSUME NEW m \in usable' PROVE m \in Assets \X Starts /\ m[2] \in proof'[m[1]]
      <4>1. CASE m \in usable
        <5>1. m \in Assets \X Starts /\ m[2] \in proof[m[1]]
          BY <4>1 DEF Covered
        <5>2. m[1] \notin Uncovered
          BY <2>3, <5>1
        <5> QED BY <2>4, <5>1, <5>2
      <4>2. CASE m \in Uncovered \X candidates /\ m[2] \in acc[m[1]]
        BY <2>2, <2>4, <2>5, <4>2
      <4> QED BY <2>1, <3>1, <4>1, <4>2
    <3>2. ASSUME NEW m \in Assets \X Starts, m[2] \in proof'[m[1]] PROVE m \in usable'
      <4>1. CASE m[1] \in Uncovered
        BY <2>1, <2>4, <2>5, <3>2, <4>1
      <4>2. CASE m[1] \notin Uncovered
        BY <2>1, <2>4, <3>2, <4>2 DEF Covered
      <4> QED BY <4>1, <4>2
    <3> QED BY <3>1, <3>2
  <2>10. usable' \subseteq seen'
    BY <2>1, <2>2 DEF Covered
  <2> QED BY <2>2, <2>6, <2>7, <2>8, <2>9, <2>10 DEF Covered, PriorOf
<1> QED BY <1>1, <1>2, <1>3, <1>4, QuietSteps DEF Next, Proceed

LEMMA NotRepeated ==
  ASSUME NEW M, Distinct(seen), ~Repeats(M)
  PROVE  Distinct(seen \cup M)
BY DEF Distinct, Repeats

LEMMA DistinctSub ==
  ASSUME NEW M, NEW N, N \subseteq M, Distinct(M)
  PROVE  Distinct(N)
BY DEF Distinct

LEMMA IdentitiesStep ==
  ASSUME CanaryAssumption, StateOK, PriorPhase, Identities, RoundPhase, [Next]_vars,
         pc' # "failed", pc' # "exceeded"
  PROVE  Identities'
<1>0. Distinct(seen)
  BY DEF Identities
<1>1. ASSUME NEW a \in Configured, BeginPrior(a) PROVE Identities'
  <2>1. pc' = "ask" /\ known' = {} /\ UNCHANGED <<seen, reuse>>
    BY <1>1 DEF BeginPrior, Goto, bookVars
  <2> QED BY <1>0, <2>1 DEF Identities, Distinct, Of
<1>2. CASE AskPrior
  <2>1. UNCHANGED <<seen, reuse, asset>> /\ pc = "ask"
    BY <1>2 DEF AskPrior, bookVars
  <2>2. CASE pc' = "prior"
    BY <1>0, <2>1, <2>2 DEF Identities, Distinct
  <2>3. CASE /\ ~Repeats(Of(asset, known \cup {Min(left)})) /\ pc' = "ask"
             /\ known' = known \cup {Min(left)}
    <3>1. Distinct(seen \cup Of(asset, known'))
      BY <1>0, <2>3, NotRepeated
    <3> QED BY <1>0, <2>1, <2>3, <3>1 DEF Identities, Distinct, Of
  <2>4. pc' # "failed"
    OBVIOUS
  <2> QED BY <1>2, <2>1, <2>2, <2>3, <2>4, Zenon DEF AskPrior, Goto
<1>3. CASE EndPrior
  <2>1. pc = "ask" /\ left = {} /\ pc' = "prior" /\ reuse' = reuse
    BY <1>3 DEF EndPrior, Goto
  <2>2. known = PriorStarts[asset] /\ Distinct(seen \cup Of(asset, known))
    BY <2>1 DEF PriorPhase, Identities
  <2>3. seen' = seen \/ seen' = seen \cup Of(asset, PriorStarts[asset])
    BY <1>3 DEF EndPrior, bookVars
  <2> QED BY <1>0, <2>1, <2>2, <2>3 DEF Identities, Distinct
<1>4. CASE BeginSearch
  <2>1. pc' \in {"exceeded", "failed", "search"} /\ UNCHANGED <<seen, reuse>>
    BY <1>4, Zenon DEF BeginSearch, Goto, bookVars
  <2> QED BY <1>0, <2>1 DEF Identities, Distinct
<1>5. CASE BeginRound
  <2>1. pc' = "qualify" /\ known' = {} /\ UNCHANGED <<seen, reuse>>
    BY <1>5 DEF BeginRound, Goto, bookVars
  <2> QED BY <1>0, <2>1 DEF Identities, Distinct
<1>6. ASSUME NEW a \in Assets, Reject(a) PROVE Identities'
  <2>1. pc = "qualify" /\ pc' = "qualify" /\ UNCHANGED <<seen, reuse, known, proof>>
    BY <1>6 DEF Reject, Within, Goto, bookVars
  <2> QED BY <2>1 DEF Identities, Distinct, Uncovered
<1>7. CASE Accept
  <2>1. /\ pc = "qualify" /\ UNCHANGED <<seen, reuse, proof>>
        /\ known' = known \cup {Max(left)}
    BY <1>7 DEF Accept, bookVars
  <2>2. pc' = "qualify" /\ ~Repeats(Uncovered \X known')
    BY <1>7 DEF Accept, Within, Goto
  <2>3. Distinct(seen \cup (Uncovered \X known'))
    BY <1>0, <2>2, NotRepeated
  <2>4. Uncovered' = Uncovered
    BY <2>1 DEF Uncovered
  <2> QED BY <1>0, <2>1, <2>2, <2>3, <2>4 DEF Identities, Distinct
<1>8. CASE CloseQualification
  <2>1. /\ pc = "qualify" /\ pc' = "execute" /\ UNCHANGED <<reuse, proof, candidates>>
        /\ seen' = seen \cup (Uncovered \X candidates)
    BY <1>8 DEF CloseQualification, Goto
  <2>2. candidates \subseteq known /\ Distinct(seen \cup (Uncovered \X known))
    BY <2>1 DEF RoundPhase, Identities
  <2>3. seen' \subseteq seen \cup (Uncovered \X known)
    BY <2>1, <2>2
  <2>4. Distinct(seen')
    BY <2>2, <2>3, DistinctSub
  <2>5. Uncovered' = Uncovered
    BY <2>1 DEF Uncovered
  <2>6. (Uncovered \X candidates)' \subseteq seen'
    BY <2>1, <2>5
  <2>7. Distinct(seen)'
    BY <2>1, <2>4 DEF Distinct
  <2> QED BY <2>1, <2>6, <2>7 DEF Identities
<1>9. ASSUME NEW acc \in [Uncovered -> SUBSET candidates], Execute(acc) PROVE Identities'
  BY <1>0, <1>9 DEF Execute, Goto, Identities, Distinct
<1>10. CASE EndSearch \/ WriteReceipt \/ Abort
  <2>1. pc' \in {"failed", "select", "passed"} /\ UNCHANGED <<seen, reuse>>
    BY <1>10 DEF EndSearch, WriteReceipt, Abort, Goto, bookVars
  <2> QED BY <1>0, <2>1 DEF Identities, Distinct
<1>11. CASE UNCHANGED vars
  <2>1. UNCHANGED <<pc, reuse, seen, known, asset, candidates, proof>>
    BY <1>11 DEF vars, priorVars, askVars, bookVars
  <2>2. Uncovered' = Uncovered
    BY <2>1 DEF Uncovered
  <2>3. Of(asset, known)' = Of(asset, known)
    BY <2>1 DEF Of
  <2> QED BY <2>1, <2>2, <2>3 DEF Identities, Distinct
<1> QED BY <1>1, <1>2, <1>3, <1>4, <1>5, <1>6, <1>7, <1>8, <1>9, <1>10, <1>11 DEF Next, Proceed

-----------------------------------------------------------------------------
(***************************************************************************)
(* The rounds and their budgets.                                           *)
(***************************************************************************)

\* One start of a round is asked for: the requests so far are those of the
\* starts that are not left, and fit into the budgets of a round.
LEMMA AskedStart ==
  ASSUME CanaryAssumption, StateOK, RoundPhase, pc = "qualify", left # {},
         left' = left \ {Max(left)}, NEW k \in Nat, k <= Cardinality(Uncovered),
         asked' = asked + k,
         UNCHANGED <<probed, probes>> \/ Probe(Objects(Max(left), Max(left)))
  PROVE  /\ asked' <= Cardinality(Rounds[round + 1] \ left') * Cardinality(Uncovered)
         /\ asked' <= MaxCandidates * Cardinality(Uncovered)
         /\ probes' = Cardinality(probed') /\ probes' <= MaxObjects
         /\ \A lo, hi \in Rounds[round + 1] :
              Rounds[round + 1] \subseteq lo..hi => probed' \subseteq Objects(lo, hi)
<1> DEFINE R == Rounds[round + 1]
           s == Max(left)
           u == Cardinality(Uncovered)
           n == Cardinality(R \ left)
<1>1. round + 1 \in 1..Len(Rounds)
  <2>1. Len(Rounds) \in Nat /\ round \in 0..Len(Rounds) /\ round < Len(Rounds)
    BY RoundFacts DEF StateOK, RoundPhase
  <2> QED BY <2>1
<1>2. /\ R \subseteq Nat /\ IsFiniteSet(R) /\ Cardinality(R) = MaxCandidates
      /\ \E lo, hi \in R : R \subseteq lo..hi /\ Cardinality(Objects(lo, hi)) <= MaxObjects
      /\ MaxCandidates \in Nat /\ MaxObjects \in Nat
  BY <1>1, RoundFacts
<1>3. /\ left \subseteq R /\ probes = Cardinality(probed) /\ asked \in Nat
      /\ asked <= n * u
      /\ \A lo, hi \in R : R \subseteq lo..hi => probed \subseteq Objects(lo, hi)
  BY DEF RoundPhase, StateOK
<1>4. /\ s \in left /\ s \in R /\ s \in Nat /\ Objects(s, s) \subseteq Int
      /\ IsFiniteSet(Objects(s, s))
  BY <1>3, LatestFacts
<1>5. u \in Nat
  BY SizeFacts
<1> HIDE DEF R, u
<1>6. n \in Nat /\ Cardinality(R \ left') = n + 1 /\ n + 1 <= MaxCandidates
  <2>1. IsFiniteSet(R \ left) /\ n \in Nat
    BY <1>2, FS_Difference, FS_CardinalityType
  <2>2. R \ left' = (R \ left) \cup {s} /\ s \notin R \ left
    BY <1>4
  <2> HIDE DEF s
  <2>3. Cardinality(R \ left') = n + 1
    BY <2>1, <2>2, FS_AddElement
  <2>4. R \ left' \in SUBSET R
    OBVIOUS
  <2>5. Cardinality(R \ left') <= Cardinality(R)
    BY <1>2, <2>4, FS_Subset
  <2> QED BY <1>2, <2>1, <2>3, <2>5
<1> HIDE DEF s, n
<1>7. asked' <= (n + 1) * u /\ (n + 1) * u <= MaxCandidates * u
  <2>1. (n + 1) * u = n * u + u /\ n * u \in Nat
    BY <1>5, <1>6, MulSucc
  <2>2. (n + 1) * u <= MaxCandidates * u
    <3> DEFINE m == n + 1
    <3>1. m \in Nat /\ m <= MaxCandidates
      BY <1>6
    <3> HIDE DEF m
    <3>2. m * u <= MaxCandidates * u
      BY <1>2, <1>5, <3>1, MulMono
    <3> QED BY <3>2 DEF m
  <2>3. k <= u
    BY DEF u
  <2>4. asked' <= n * u + u
    BY <1>3, <1>5, <2>1, <2>3
  <2> QED BY <2>1, <2>2, <2>4
<1>8. asked' <= MaxCandidates * u
  <2>1. (n + 1) * u \in Nat /\ MaxCandidates * u \in Nat /\ asked' \in Nat
    BY <1>2, <1>3, <1>5, <1>6
  <2> QED BY <1>7, <2>1
<1>9. /\ probes' = Cardinality(probed')
      /\ probed' = probed \/ probed' = probed \cup Objects(s, s)
  <2>1. CASE UNCHANGED <<probed, probes>>
    BY <1>3, <2>1
  <2>2. CASE Probe(Objects(s, s))
    BY <1>3, <1>4, <2>2, ProbeFacts
  <2> QED BY <2>1, <2>2 DEF s
<1>10. ASSUME NEW lo \in R, NEW hi \in R, R \subseteq lo..hi
       PROVE  /\ probed' \subseteq Objects(lo, hi)
              /\ Cardinality(probed') <= Cardinality(Objects(lo, hi))
              /\ Cardinality(probed') \in Nat /\ Cardinality(Objects(lo, hi)) \in Nat
  <2>1. lo \in Nat /\ hi \in Nat
    BY <1>2
  <2>2. lo <= s /\ s <= hi /\ lo <= hi
    <3>1. s \in lo..hi
      BY <1>4, <1>10
    <3> QED BY <1>4, <2>1, <3>1
  <2>3. Objects(s, s) \subseteq Objects(lo, hi) /\ IsFiniteSet(Objects(lo, hi))
    BY <1>4, <2>1, <2>2, ObjectsFacts
  <2>4. probed' \subseteq Objects(lo, hi)
    BY <1>3, <1>9, <1>10, <2>3
  <2> QED BY <2>3, <2>4, FS_Subset, FS_CardinalityType
<1>11. probes' <= MaxObjects
  <2>1. PICK lo \in R, hi \in R : R \subseteq lo..hi /\ Cardinality(Objects(lo, hi)) <= MaxObjects
    BY <1>2
  <2>2. /\ Cardinality(probed') <= Cardinality(Objects(lo, hi))
        /\ Cardinality(probed') \in Nat /\ Cardinality(Objects(lo, hi)) \in Nat
    BY <1>10, <2>1
  <2> QED BY <1>2, <1>9, <2>1, <2>2
<1> QED BY <1>6, <1>7, <1>8, <1>9, <1>10, <1>11 DEF R, u

\* The requests of a whole round, and of all the rounds so far.
LEMMA ClosedRound ==
  ASSUME CanaryAssumption, StateOK, RoundPhase, SearchPhase, pc = "qualify", left = {},
         candidates # {}, Probe(Bundle),
         gamma' = gamma + asked, heads' = heads + probes', objects' = objects + Cardinality(probed')
  PROVE  /\ probes' = Cardinality(probed') /\ probes' <= MaxObjects /\ probes' \in Nat \ {0}
         /\ gamma' <= PriorRequests + MaxCandidates * (round + 1) * Cardinality(Assets)
         /\ heads' <= MaxObjects * (round + 1) /\ objects' = heads' /\ heads' > 0
         /\ gamma' <= MaxGammaRequests /\ heads' <= MaxObjectsTotal
<1> DEFINE R == Rounds[round + 1]
           u == Cardinality(Uncovered)
           A == Cardinality(Assets)
           L == Len(Rounds)
<1>1. L \in Nat /\ round \in Nat /\ round + 1 \in 1..L /\ round + 1 <= L
  <2>1. Len(Rounds) \in Nat /\ round \in 0..Len(Rounds) /\ round < Len(Rounds)
    BY RoundFacts DEF StateOK, RoundPhase
  <2> QED BY <2>1
<1>2. /\ R \subseteq Nat /\ IsFiniteSet(R) /\ Cardinality(R) = MaxCandidates
      /\ \E lo, hi \in R : R \subseteq lo..hi /\ Cardinality(Objects(lo, hi)) <= MaxObjects
      /\ MaxCandidates \in Nat /\ MaxObjects \in Nat
  BY <1>1, RoundFacts
<1>3. /\ probes = Cardinality(probed) /\ asked \in Nat /\ candidates \subseteq R
      /\ asked <= Cardinality(R \ left) * u
      /\ \A lo, hi \in R : R \subseteq lo..hi => probed \subseteq Objects(lo, hi)
  BY DEF RoundPhase, StateOK
<1>4. /\ gamma \in Nat /\ heads \in Nat /\ objects = heads
      /\ gamma <= PriorRequests + MaxCandidates * round * A /\ heads <= MaxObjects * round
  BY DEF SearchPhase, Counted, StateOK
<1>5. u \in Nat /\ A \in Nat /\ u <= A /\ PriorRequests \in Nat
  BY SizeFacts, AssetsFacts, RequestedFacts
<1>6. /\ Bundle \subseteq Int /\ IsFiniteSet(Bundle) /\ Bundle # {}
      /\ Min(candidates) \in candidates /\ Max(candidates) \in candidates
      /\ \A s \in candidates : Min(candidates) <= s /\ s <= Max(candidates)
  BY BundleFacts
<1>7. /\ probed' = probed \cup Bundle /\ IsFiniteSet(probed')
      /\ probes' = Cardinality(probed') /\ probes' \in Nat
  BY <1>3, <1>6, ProbeFacts
<1>8. probes' # 0
  <2>1. probed' # {}
    BY <1>6, <1>7
  <2>2. Cardinality(probed') # 0
    BY <1>7, <2>1, FS_EmptySet
  <2> QED BY <1>7, <2>2
<1> HIDE DEF R, u, A, L
<1>9. probes' <= MaxObjects
  <2>1. PICK lo \in R, hi \in R : R \subseteq lo..hi /\ Cardinality(Objects(lo, hi)) <= MaxObjects
    BY <1>2
  <2> DEFINE l == Min(candidates)
             h == Max(candidates)
  <2>2. l \in R /\ h \in R /\ l \in Nat /\ h \in Nat /\ lo \in Nat /\ hi \in Nat
    BY <1>2, <1>3, <1>6
  <2>3. Bundle = Objects(l, h)
    BY DEF Bundle
  <2> HIDE DEF l, h
  <2>4. lo <= l /\ h <= hi /\ lo <= hi
    <3>1. l \in lo..hi /\ h \in lo..hi
      BY <2>1, <2>2
    <3> QED BY <2>2, <3>1
  <2>5. Objects(l, h) \subseteq Objects(lo, hi) /\ IsFiniteSet(Objects(lo, hi))
    BY <2>2, <2>4, ObjectsFacts
  <2>6. probed' \in SUBSET Objects(lo, hi)
    BY <1>3, <1>7, <2>1, <2>3, <2>5
  <2>7. Cardinality(probed') <= Cardinality(Objects(lo, hi)) /\ Cardinality(Objects(lo, hi)) \in Nat
    BY <2>5, <2>6, FS_Subset, FS_CardinalityType
  <2> QED BY <1>2, <1>7, <2>1, <2>7
<1>10. asked <= MaxCandidates * A
  <2>1. R \ left = R
    OBVIOUS
  <2>2. asked <= MaxCandidates * u
    BY <1>2, <1>3, <2>1
  <2>3. MaxCandidates * u <= MaxCandidates * A /\ MaxCandidates * u \in Nat /\ MaxCandidates * A \in Nat
    BY <1>2, <1>5, MulMono
  <2> QED BY <1>3, <2>2, <2>3
<1>11. gamma' <= PriorRequests + MaxCandidates * (round + 1) * A
  <2> DEFINE p == MaxCandidates * round * A
             q == MaxCandidates * A
  <2>1. MaxCandidates * (round + 1) * A = p + q /\ p \in Nat /\ q \in Nat
    BY <1>1, <1>2, <1>5, MulNext
  <2>2. gamma <= PriorRequests + p /\ asked <= q
    BY <1>4, <1>10
  <2> HIDE DEF p, q
  <2>3. gamma' <= PriorRequests + (p + q)
    BY <1>3, <1>4, <1>5, <2>1, <2>2
  <2> QED BY <2>1, <2>3
<1>12. heads' <= MaxObjects * (round + 1)
  <2> DEFINE p == MaxObjects * round
  <2>1. MaxObjects * (round + 1) = p + MaxObjects /\ p \in Nat
    BY <1>1, <1>2, MulNext
  <2>2. heads <= p
    BY <1>4
  <2> HIDE DEF p
  <2>3. heads' <= p + MaxObjects
    BY <1>2, <1>4, <1>7, <1>9, <2>1, <2>2
  <2> QED BY <2>1, <2>3
<1>13. gamma' <= MaxGammaRequests
  <2> DEFINE p == MaxCandidates * (round + 1)
             q == MaxCandidates * L
  <2>1. p \in Nat /\ q \in Nat /\ p <= q
    BY <1>1, <1>2, MulMono
  <2>2. gamma' <= PriorRequests + p * A
    BY <1>11
  <2>3. MaxGammaRequests = q * A + PriorRequests
    BY DEF MaxGammaRequests, L, A
  <2> HIDE DEF p, q
  <2>4. p * A <= q * A /\ p * A \in Nat /\ q * A \in Nat
    BY <1>5, <2>1, MulMono
  <2>5. gamma' \in Nat
    BY <1>3, <1>4
  <2> QED BY <1>5, <2>2, <2>3, <2>4, <2>5
<1>14. heads' <= MaxObjectsTotal
  <2> DEFINE p == MaxObjects * (round + 1)
             q == MaxObjects * L
  <2>1. p \in Nat /\ q \in Nat /\ p <= q
    BY <1>1, <1>2, MulMono
  <2>2. heads' <= p
    BY <1>12
  <2>3. MaxObjectsTotal = q
    BY DEF MaxObjectsTotal, L
  <2> HIDE DEF p, q
  <2>4. heads' \in Nat
    BY <1>4, <1>7
  <2> QED BY <2>1, <2>2, <2>3, <2>4
<1>15. objects' = heads' /\ heads' > 0
  BY <1>4, <1>7, <1>8
<1> QED BY <1>7, <1>8, <1>9, <1>11, <1>12, <1>13, <1>14, <1>15 DEF A

LEMMA Unexceeded ==
  ASSUME CanaryAssumption, StateOK, PriorPhase, SearchPhase, RoundPhase, [Next]_vars,
         pc # "exceeded"
  PROVE  pc' # "exceeded"
<1>1. CASE BeginSearch
  <2>1. pc = "prior" /\ unchecked = {}
    BY <1>1 DEF BeginSearch
  <2>2. Answered \in SUBSET Requested
    BY DEF Answered
  <2>3. gamma <= Cardinality(Answered) /\ gamma \in Nat
    BY <2>1 DEF PriorPhase, StateOK
  <2>4. /\ Cardinality(Answered) \in Nat /\ Cardinality(Answered) <= PriorRequests
        /\ PriorRequests \in Nat
    BY <2>2, RequestedFacts
  <2>5. gamma <= PriorRequests /\ ~(gamma > PriorRequests)
    BY <2>3, <2>4
  <2> QED BY <1>1, <2>5, Zenon DEF BeginSearch, Goto
<1>2. ASSUME NEW a \in Assets, Reject(a) PROVE pc' # "exceeded"
  <2> DEFINE k == Position(a)
  <2>1. /\ pc = "qualify" /\ left # {} /\ left' = left \ {Max(left)} /\ asked' = asked + k
        /\ k \in Nat /\ k <= Cardinality(Uncovered) /\ UNCHANGED <<probed, probes>>
    BY <1>2, SizeFacts DEF Reject
  <2> HIDE DEF k
  <2>2. asked' <= MaxCandidates * Cardinality(Uncovered) /\ probes' <= MaxObjects
    BY <2>1, AskedStart
  <2>3. ~(asked' > MaxCandidates * Cardinality(Uncovered)) /\ ~(probes' > MaxObjects)
    <3>1. /\ MaxCandidates * Cardinality(Uncovered) \in Nat /\ MaxObjects \in Nat
          /\ asked' \in Nat /\ probes' \in Nat
      <4>1. MaxCandidates \in Nat /\ MaxObjects \in Nat /\ Cardinality(Uncovered) \in Nat
        BY RoundFacts, SizeFacts
      <4>2. MaxCandidates * Cardinality(Uncovered) \in Nat
        BY <4>1
      <4>3. asked \in Nat /\ probes \in Nat
        BY DEF StateOK
      <4> QED BY <2>1, <4>1, <4>2, <4>3
    <3> QED BY <2>2, <3>1
  <2> QED BY <1>2, <2>3 DEF Reject, Within, Goto
<1>3. CASE Accept
  <2> DEFINE k == Cardinality(Uncovered)
  <2>1. /\ pc = "qualify" /\ left # {} /\ left' = left \ {Max(left)} /\ asked' = asked + k
        /\ UNCHANGED <<probed, probes>> \/ Probe(Objects(Max(left), Max(left)))
    BY <1>3 DEF Accept
  <2>2. k \in Nat /\ k <= k
    <3>1. k \in Nat
      BY SizeFacts, Zenon
    <3> HIDE DEF k
    <3> QED BY <3>1
  <2>3. asked' <= MaxCandidates * k /\ probes' <= MaxObjects /\ probes' = Cardinality(probed')
    BY <2>1, <2>2, AskedStart
  <2>4. IsFiniteSet(probed')
    <3>1. CASE UNCHANGED <<probed, probes>>
      BY <3>1 DEF StateOK
    <3>2. CASE Probe(Objects(Max(left), Max(left)))
      BY <2>1, <3>2, LatestFacts, ProbeFacts
    <3> QED BY <2>1, <3>1, <3>2
  <2>5. ~(asked' > MaxCandidates * k) /\ ~(probes' > MaxObjects)
    <3>1. /\ MaxCandidates * k \in Nat /\ MaxObjects \in Nat
          /\ asked' \in Nat /\ probes' \in Nat
      <4>1. MaxCandidates \in Nat /\ MaxObjects \in Nat /\ asked \in Nat
        BY RoundFacts DEF StateOK
      <4>2. MaxCandidates * k \in Nat
        BY <2>2, <4>1
      <4>3. probes' \in Nat
        BY <2>3, <2>4, FS_CardinalityType
      <4> QED BY <2>1, <2>2, <4>1, <4>2, <4>3
    <3> QED BY <2>3, <3>1
  <2> QED BY <1>3, <2>5, Zenon DEF Accept, Within, Goto
<1>4. CASE CloseQualification
  <2>1. pc = "qualify" /\ left = {}
    BY <1>4 DEF CloseQualification
  <2>2. CASE pc' = "failed"
    BY <2>2
  <2>3. CASE /\ Unusable = FALSE /\ Probe(Bundle)
             /\ gamma' = gamma + asked /\ heads' = heads + probes'
             /\ objects' = objects + Cardinality(probed')
             /\ pc' = IF \/ probes' > MaxObjects
                         \/ gamma' > MaxGammaRequests
                         \/ heads' > MaxObjectsTotal
                         \/ objects' > MaxObjectsTotal
                      THEN "exceeded" ELSE "execute"
    <3>1. candidates # {}
      BY <2>3 DEF Unusable
    <3>2. /\ probes' <= MaxObjects /\ probes' \in Nat /\ objects' = heads'
          /\ gamma' <= MaxGammaRequests /\ heads' <= MaxObjectsTotal
      BY <2>1, <2>3, <3>1, ClosedRound
    <3>3. gamma' \in Nat /\ heads' \in Nat
      BY <2>3, <3>2 DEF StateOK
    <3>4. MaxObjects \in Nat /\ MaxGammaRequests \in Nat /\ MaxObjectsTotal \in Nat
      <4>1. /\ MaxCandidates \in Nat /\ MaxObjects \in Nat /\ Len(Rounds) \in Nat
            /\ Cardinality(Assets) \in Nat /\ PriorRequests \in Nat
        BY RoundFacts, AssetsFacts, RequestedFacts
      <4>2. MaxCandidates * Len(Rounds) \in Nat /\ MaxObjects * Len(Rounds) \in Nat
        BY <4>1
      <4>3. MaxCandidates * Len(Rounds) * Cardinality(Assets) \in Nat
        BY <4>1, <4>2
      <4> QED BY <4>1, <4>2, <4>3 DEF MaxGammaRequests, MaxObjectsTotal
    <3>5. /\ ~(probes' > MaxObjects) /\ ~(gamma' > MaxGammaRequests)
          /\ ~(heads' > MaxObjectsTotal) /\ ~(objects' > MaxObjectsTotal)
      BY <3>2, <3>3, <3>4
    <3> QED BY <2>3, <3>5
  <2> QED BY <1>4, <2>2, <2>3, Zenon DEF CloseQualification, Goto
<1>5. CASE AskPrior
  BY <1>5 DEF AskPrior, Goto
<1>6. CASE \/ (\E a \in Configured : BeginPrior(a)) \/ EndPrior \/ BeginRound
           \/ (\E acc \in [Uncovered -> SUBSET candidates] : Execute(acc))
           \/ EndSearch \/ WriteReceipt \/ Abort \/ UNCHANGED vars
  BY <1>6 DEF BeginPrior, EndPrior, BeginRound, Execute, EndSearch, WriteReceipt, Abort, Goto, vars
<1> QED BY <1>1, <1>2, <1>3, <1>4, <1>5, <1>6 DEF Next, Proceed

LEMMA RoundStep ==
  ASSUME CanaryAssumption, StateOK, RoundPhase, [Next]_vars, pc' # "failed", pc' # "exceeded"
  PROVE  RoundPhase'
<1>1. CASE pc' \in {"prior", "ask", "search"}
  BY <1>1 DEF RoundPhase
<1>2. CASE BeginRound
  <2>1. /\ pc' = "qualify" /\ Uncovered # {} /\ round < Len(Rounds)
        /\ left' = Rounds[round + 1] /\ known' = {} /\ candidates' = {} /\ probed' = {}
        /\ probes' = 0 /\ asked' = 0 /\ UNCHANGED <<round, proof>>
    BY <1>2 DEF BeginRound, Goto, sumVars, bookVars
  <2>2. Rounds[round + 1] \ left' = {} /\ Uncovered' = Uncovered
    BY <2>1 DEF Uncovered
  <2>3. 0 <= Cardinality({}) * Cardinality(Uncovered)
    <3>1. Cardinality({}) = 0 /\ Cardinality(Uncovered) \in Nat
      BY FS_EmptySet, SizeFacts
    <3> QED BY <3>1
  <2>4. asked' <= Cardinality(Rounds[round + 1] \ left') * Cardinality(Uncovered)
    BY <2>1, <2>2, <2>3
  <2>5. probes' = Cardinality(probed')
    BY <2>1, FS_EmptySet
  <2> QED BY <2>1, <2>2, <2>4, <2>5 DEF RoundPhase
<1>3. CASE (\E a \in Assets : Reject(a)) \/ Accept
  <2>1. /\ pc = "qualify" /\ pc' = "qualify" /\ left # {} /\ left' = left \ {Max(left)}
        /\ UNCHANGED <<round, proof>>
    BY <1>3 DEF Reject, Accept, Within, Goto, sumVars, bookVars
  <2>2. Uncovered' = Uncovered /\ Max(left) \in left
    BY <2>1, LatestFacts DEF Uncovered
  <2>3. \/ UNCHANGED <<known, candidates>>
        \/ /\ known' = known \cup {Max(left)}
           /\ candidates' \in {candidates, candidates \cup {Max(left)}}
    BY <1>3 DEF Reject, Accept
  <2>4. \E k \in Nat : k <= Cardinality(Uncovered) /\ asked' = asked + k
    <3>1. CASE Accept
      <4>0. Cardinality(Uncovered) \in Nat
        BY SizeFacts
      <4>1. Cardinality(Uncovered) <= Cardinality(Uncovered)
        BY <4>0
      <4> QED BY <3>1, <4>0, <4>1 DEF Accept
    <3>2. ASSUME NEW a \in Assets, Reject(a)
          PROVE  \E k \in Nat : k <= Cardinality(Uncovered) /\ asked' = asked + k
      <4>1. asked' = asked + Position(a) /\ a \in Uncovered
        BY <3>2 DEF Reject
      <4> QED BY <4>1, SizeFacts
    <3> QED BY <1>3, <3>1, <3>2
  <2>5. UNCHANGED <<probed, probes>> \/ Probe(Objects(Max(left), Max(left)))
    BY <1>3 DEF Reject, Accept
  <2>6. /\ asked' <= Cardinality(Rounds[round + 1] \ left') * Cardinality(Uncovered)
        /\ probes' = Cardinality(probed')
        /\ \A lo, hi \in Rounds[round + 1] :
             Rounds[round + 1] \subseteq lo..hi => probed' \subseteq Objects(lo, hi)
    BY <2>1, <2>4, <2>5, AskedStart
  <2>7. /\ left' \subseteq Rounds[round + 1] /\ candidates' \subseteq known'
        /\ known' \subseteq Rounds[round + 1] \ left' /\ candidates' \subseteq Rounds[round + 1]
        /\ round < Len(Rounds) /\ Uncovered # {}
    BY <2>1, <2>2, <2>3 DEF RoundPhase
  <2> QED BY <2>1, <2>2, <2>6, <2>7 DEF RoundPhase
<1>4. CASE CloseQualification
  <2>1. /\ pc = "qualify" /\ pc' = "execute" /\ Unusable = FALSE
        /\ UNCHANGED <<round, proof, candidates>>
    BY <1>4 DEF CloseQualification, Goto
  <2>2. candidates # {} /\ Uncovered' = Uncovered
    BY <2>1 DEF Unusable, Uncovered
  <2> QED BY <2>1, <2>2 DEF RoundPhase
<1>5. CASE EndSearch
  <2>1. Uncovered = {} /\ pc' = "select" /\ proof' = proof
    BY <1>5 DEF EndSearch, Goto, bookVars
  <2>2. Uncovered' = Uncovered
    BY <2>1 DEF Uncovered
  <2> QED BY <2>1, <2>2 DEF RoundPhase
<1>6. CASE WriteReceipt
  <2>1. pc = "select" /\ pc' = "passed" /\ proof' = proof
    BY <1>6 DEF WriteReceipt, Goto, bookVars
  <2>2. Uncovered' = Uncovered
    BY <2>1 DEF Uncovered
  <2> QED BY <2>1, <2>2 DEF RoundPhase
<1>7. CASE UNCHANGED vars
  <2>1. UNCHANGED <<pc, round, proof, left, known, candidates, probed, probes, asked>>
    BY <1>7 DEF vars, askVars, sumVars, bookVars
  <2>2. Uncovered' = Uncovered
    BY <2>1 DEF Uncovered
  <2> QED BY <2>1, <2>2 DEF RoundPhase
<1>8. ASSUME \/ (\E a \in Configured : BeginPrior(a)) \/ AskPrior \/ EndPrior \/ BeginSearch
             \/ (\E acc \in [Uncovered -> SUBSET candidates] : Execute(acc)) \/ Abort
      PROVE  pc' \in {"prior", "ask", "search"}
  <2>1. CASE BeginSearch
    <3>1. pc' \in {"search", "exceeded", "failed"}
      BY <2>1, Zenon DEF BeginSearch, Goto
    <3> QED BY <3>1
  <2>2. CASE AskPrior
    BY <2>2 DEF AskPrior, Goto
  <2> QED BY <1>8, <2>1, <2>2 DEF BeginPrior, EndPrior, Execute, Abort, Goto
<1> QED BY <1>1, <1>2, <1>3, <1>4, <1>5, <1>6, <1>7, <1>8 DEF Next, Proceed

LEMMA SearchStep ==
  ASSUME CanaryAssumption, StateOK, PriorPhase, Covered, SearchPhase, RoundPhase, [Next]_vars,
         pc' # "failed", pc' # "exceeded"
  PROVE  SearchPhase'
<1>0. /\ MaxCandidates \in Nat \ {0} /\ MaxObjects \in Nat /\ Cardinality(Assets) \in Nat
      /\ Len(Rounds) \in Nat /\ round \in Nat
  BY RoundFacts, AssetsFacts DEF StateOK
<1>1. CASE pc' \in {"prior", "ask"}
  BY <1>1 DEF SearchPhase
<1>2. CASE BeginSearch
  <2>1. pc = "prior" /\ unchecked = {}
    BY <1>2 DEF BeginSearch
  <2>2. /\ pc' = "search" /\ gamma <= PriorRequests
        /\ ~(gamma <= PriorRequests /\ qualified \cap RoundStarts # {})
    <3>1. /\ pc' = CASE gamma > PriorRequests -> "exceeded"
                     [] gamma <= PriorRequests /\ qualified \cap RoundStarts # {} -> "failed"
                     [] OTHER -> "search"
      BY <1>2 DEF BeginSearch, Goto
    <3>2. gamma \in Nat /\ PriorRequests \in Nat
      BY RequestedFacts DEF StateOK
    <3>3. gamma > PriorRequests \/ gamma <= PriorRequests
      BY <3>2
    <3>4. ~(gamma > PriorRequests) \/ ~(gamma <= PriorRequests)
      BY <3>2
    <3> QED BY <3>1, <3>3, <3>4
  <2>3. UNCHANGED <<reused, invalidated, round, fresh, gamma, heads, objects>>
    BY <1>2 DEF BeginSearch, priorVars, sumVars, bookVars
  <2>4. /\ round = 0 /\ fresh = {} /\ heads = 0 /\ objects = 0
        /\ invalidated = {} => gamma = Cardinality(Answered)
        /\ unchecked \cup reused \cup invalidated = Configured
    BY <2>1 DEF PriorPhase
  <2>5. Answered = Requested
    BY <2>1 DEF Answered
  <2>6. invalidated = {} => gamma = PriorRequests
    BY <2>4, <2>5, RequestedFacts
  <2>7. PriorOf(reused) \cap RoundStarts = {}
    BY <2>2 DEF Covered
  <2>8. Counted' = 0
    BY <2>2, <2>3, <2>4 DEF Counted
  <2>9. /\ MaxCandidates * 0 * Cardinality(Assets) = 0 /\ MaxObjects * 0 = 0
        /\ MaxCandidates * 0 = 0 /\ PriorRequests + 0 = PriorRequests
    <3>1. MaxCandidates * 0 = 0 /\ MaxObjects * 0 = 0 /\ 0 * Cardinality(Assets) = 0
      BY <1>0
    <3>2. PriorRequests + 0 = PriorRequests
      BY RequestedFacts
    <3> QED BY <3>1, <3>2
  <2>10. Cardinality({}) = 0
    BY FS_EmptySet
  <2>11. PriorOf(reused)' = PriorOf(reused)
    BY <2>3 DEF PriorOf
  <2>12. /\ (gamma <= PriorRequests + MaxCandidates * Counted * Cardinality(Assets))'
         /\ (heads <= MaxObjects * Counted)' /\ (Counted > 0 <=> heads > 0)'
         /\ (Counted = 0 /\ invalidated = {} => gamma = PriorRequests)'
    BY <2>2, <2>3, <2>4, <2>6, <2>8, <2>9
  <2>13. (round <= Cardinality(fresh))' /\ (Cardinality(fresh) <= MaxCandidates * round)'
    BY <2>3, <2>4, <2>9, <2>10
  <2> HIDE DEF Counted
  <2> QED BY <2>1, <2>3, <2>4, <2>7, <2>11, <2>12, <2>13 DEF SearchPhase
<1>3. CASE \/ BeginRound \/ (\E a \in Assets : Reject(a)) \/ Accept \/ EndSearch \/ WriteReceipt
  <2>1. /\ pc \in {"search", "qualify", "select"} /\ pc' \in {"qualify", "select", "passed"}
    <3>1. CASE Accept
      BY <3>1 DEF Accept, Within, Goto
    <3>2. CASE \E a \in Assets : Reject(a)
      BY <3>2 DEF Reject, Within, Goto
    <3> QED BY <1>3, <3>1, <3>2 DEF BeginRound, EndSearch, WriteReceipt, Goto
  <2>2. UNCHANGED <<reused, invalidated, round, fresh, gamma, heads, objects>>
    BY <1>3 DEF BeginRound, Reject, Accept, EndSearch, WriteReceipt, priorVars, sumVars, bookVars
  <2>3. Counted' = Counted /\ PriorOf(reused)' = PriorOf(reused)
    BY <2>1, <2>2 DEF Counted, PriorOf
  <2> QED BY <2>1, <2>2, <2>3 DEF SearchPhase
<1>4. CASE CloseQualification
  <2>1. /\ pc = "qualify" /\ left = {} /\ pc' = "execute" /\ Unusable = FALSE /\ Probe(Bundle)
        /\ gamma' = gamma + asked /\ heads' = heads + probes'
        /\ objects' = objects + Cardinality(probed')
        /\ UNCHANGED <<reused, invalidated, round, fresh>>
    BY <1>4 DEF CloseQualification, Goto, priorVars
  <2>2. candidates # {}
    BY <2>1 DEF Unusable
  <2>3. /\ gamma' <= PriorRequests + MaxCandidates * (round + 1) * Cardinality(Assets)
        /\ heads' <= MaxObjects * (round + 1) /\ objects' = heads' /\ heads' > 0
    BY <2>1, <2>2, ClosedRound
  <2>4. Counted' = round + 1 /\ Counted' > 0 /\ Counted' # 0
    BY <1>0, <2>1 DEF Counted
  <2>5. PriorOf(reused)' = PriorOf(reused)
    BY <2>1 DEF PriorOf
  <2> HIDE DEF Counted
  <2> QED BY <2>1, <2>3, <2>4, <2>5 DEF SearchPhase
<1>5. ASSUME NEW acc \in [Uncovered -> SUBSET candidates], Execute(acc) PROVE SearchPhase'
  <2>1. /\ pc = "execute" /\ pc' = "search" /\ round' = round + 1 /\ fresh' = fresh \cup candidates
        /\ UNCHANGED <<reused, invalidated, gamma, heads, objects>>
    BY <1>5 DEF Execute, Goto, priorVars
  <2>2. Counted' = Counted /\ PriorOf(reused)' = PriorOf(reused)
    BY <2>1 DEF Counted, PriorOf
  <2> DEFINE k == round + 1
  <2>3. k \in 1..Len(Rounds)
    <3>1. round < Len(Rounds)
      BY <2>1 DEF RoundPhase
    <3> QED BY <1>0, <3>1
  <2>4. /\ candidates \subseteq Rounds[k] /\ candidates # {}
        /\ fresh \subseteq UNION {Rounds[i] : i \in 1..round}
        /\ round <= Cardinality(fresh) /\ Cardinality(fresh) <= MaxCandidates * round
    BY <2>1 DEF RoundPhase, SearchPhase
  <2>5. /\ IsFiniteSet(Rounds[k]) /\ Cardinality(Rounds[k]) = MaxCandidates
        /\ \A i \in 1..Len(Rounds) : i # k => Rounds[i] \cap Rounds[k] = {}
    BY <2>3 DEF CanaryAssumption
  <2>6. /\ IsFiniteSet(candidates) /\ Cardinality(candidates) <= MaxCandidates
        /\ Cardinality(candidates) \in Nat /\ Cardinality(candidates) # 0
    BY <2>4, <2>5, FS_Subset, FS_CardinalityType, FS_EmptySet
  <2>7. fresh \cap candidates = {}
    <3>1. ASSUME NEW i \in 1..round PROVE Rounds[i] \cap Rounds[k] = {}
      <4>1. i \in 1..Len(Rounds) /\ i # k
        BY <1>0, <2>3
      <4> QED BY <2>5, <4>1
    <3> HIDE DEF k
    <3> QED BY <2>4, <3>1
  <2>8. IsFiniteSet(fresh) /\ Cardinality(fresh) \in Nat
    BY StartsFacts, FS_Subset, FS_CardinalityType DEF StateOK
  <2>9. Cardinality(fresh') = Cardinality(fresh) + Cardinality(candidates)
    <3>1. Cardinality(fresh \cup candidates) =
            Cardinality(fresh) + Cardinality(candidates) - Cardinality(fresh \cap candidates)
      BY <2>6, <2>8, FS_Union
    <3>2. Cardinality(fresh \cap candidates) = 0
      BY <2>7, FS_EmptySet
    <3> QED BY <2>1, <2>6, <2>8, <3>1, <3>2
  <2>10. round' <= Cardinality(fresh') /\ Cardinality(fresh') <= MaxCandidates * round'
    <3>1. MaxCandidates * (round + 1) = MaxCandidates * round + MaxCandidates
            /\ MaxCandidates * round \in Nat
      BY <1>0, MulNext
    <3> DEFINE p == MaxCandidates * round
    <3>2. Cardinality(fresh) <= p /\ p \in Nat /\ MaxCandidates * round' = p + MaxCandidates
      BY <2>1, <2>4, <3>1
    <3> HIDE DEF p
    <3> QED BY <1>0, <2>1, <2>4, <2>6, <2>8, <2>9, <3>2
  <2>11. fresh' \subseteq UNION {Rounds[i] : i \in 1..round'}
    <3>1. \A i \in 1..round : i \in 1..round'
      BY <1>0, <2>1
    <3>2. k \in 1..round'
      BY <1>0, <2>1
    <3> HIDE DEF k
    <3> QED BY <2>1, <2>4, <3>1, <3>2
  <2> HIDE DEF k
  <2> QED BY <2>1, <2>2, <2>10, <2>11 DEF SearchPhase
<1>6. CASE UNCHANGED vars
  <2>1. UNCHANGED <<pc, reused, invalidated, round, fresh, gamma, heads, objects>>
    BY <1>6 DEF vars, priorVars, sumVars, bookVars
  <2>2. Counted' = Counted /\ PriorOf(reused)' = PriorOf(reused)
    BY <2>1 DEF Counted, PriorOf
  <2> QED BY <2>1, <2>2 DEF SearchPhase
<1>7. ASSUME (\E a \in Configured : BeginPrior(a)) \/ AskPrior \/ EndPrior \/ Abort
      PROVE  pc' \in {"prior", "ask"}
  <2>1. CASE AskPrior
    BY <2>1 DEF AskPrior, Goto
  <2> QED BY <1>7, <2>1 DEF BeginPrior, EndPrior, Abort, Goto
<1> QED BY <1>1, <1>2, <1>3, <1>4, <1>5, <1>6, <1>7 DEF Next, Proceed

-----------------------------------------------------------------------------
(***************************************************************************)
(* The receipt.                                                            *)
(***************************************************************************)
TheReceipt ==
  [prior       |-> reused,
   invalidated |-> invalidated,
   rounds      |-> round,
   qualified   |-> qualified,
   fresh       |-> Cardinality(fresh),
   total       |-> Cardinality(qualified),
   gamma       |-> gamma,
   heads       |-> heads,
   objects     |-> objects,
   exclusions  |-> Cardinality(ExclusionChecked),
   usable      |-> usable,
   proof       |-> proof,
   selected    |-> MinimumCover(usable),
   starts      |-> [a \in Assets |->
                      Max({s \in ToSet(MinimumCover(usable)) : <<a, s>> \in usable})]]

\* What is selected is a minimum cover, and every asset has a start in it.
\* The start at which the receipt binds a.
Chosen(a) == Max({s \in ToSet(MinimumCover(usable)) : <<a, s>> \in usable})

LEMMA SelectedFacts ==
  ASSUME CanaryAssumption, StateOK, Covered, Uncovered = {}
  PROVE  /\ MinimumCover(usable) \in Seq(Starts)
         /\ Len(MinimumCover(usable)) \in 1..Cardinality(Assets)
         /\ ToSet(MinimumCover(usable)) \subseteq qualified
         /\ \A a \in Assets :
              /\ Chosen(a) \in proof[a] /\ Chosen(a) \in Starts
              /\ Chosen(a) \in ToSet(MinimumCover(usable))
         /\ Covers(ToSet(MinimumCover(usable)), usable)
         /\ \A T \in SUBSET {m[2] : m \in usable} :
              Covers(T, usable) =>
                \/ Cardinality(ToSet(MinimumCover(usable))) < Cardinality(T)
                \/ /\ Cardinality(ToSet(MinimumCover(usable))) = Cardinality(T)
                   /\ Later(ToSet(MinimumCover(usable)), T)
<1> DEFINE T == {m[2] : m \in usable}
           x == MinimumCover(usable)
<1>1. /\ usable \subseteq Assets \X Starts
      /\ \A a \in Assets : proof[a] \subseteq qualified /\ proof[a] # {} /\ proof[a] \subseteq Starts
      /\ usable = {m \in Assets \X Starts : m[2] \in proof[m[1]]}
  BY DEF StateOK, Covered, Uncovered
<1>2. T \subseteq Starts /\ T \subseteq qualified /\ T \in SUBSET Nat /\ IsFiniteSet(T)
  <2>1. T \subseteq Starts /\ T \subseteq qualified
    BY <1>1
  <2> HIDE DEF T
  <2> QED BY <2>1, StartsFacts, FS_Subset
<1>3. \A a \in Assets, s \in Starts : <<a, s>> \in usable <=> s \in proof[a]
  BY <1>1
<1>4. Covers(T, usable)
  <2>1. ASSUME NEW a \in Assets PROVE \E s \in T : <<a, s>> \in usable
    <3>1. proof[a] # {} /\ proof[a] \subseteq Starts
      BY <1>1
    <3>2. PICK s \in proof[a] : s \in Starts
      BY <3>1
    <3>3. <<a, s>> \in usable
      BY <1>3, <3>2
    <3>4. <<a, s>>[2] \in T
      BY <3>3
    <3> HIDE DEF T
    <3> QED BY <3>3, <3>4
  <2> HIDE DEF T
  <2> QED BY <2>1 DEF Covers
<1>5. /\ x \in Desc(T) /\ Covers(ToSet(x), usable) /\ Len(x) \in 1..Cardinality(Assets)
      /\ \A U \in SUBSET T :
           Covers(U, usable) =>
             \/ Cardinality(ToSet(x)) < Cardinality(U)
             \/ Cardinality(ToSet(x)) = Cardinality(U) /\ Later(ToSet(x), U)
  <2> DEFINE V == T
  <2>1. V \in SUBSET Nat /\ V = {m[2] : m \in usable} /\ IsFiniteSet(V) /\ Covers(V, usable)
    BY <1>2, <1>4
  <2>2. /\ x \in Desc(V) /\ Covers(ToSet(x), usable) /\ Len(x) \in 1..Cardinality(Assets)
        /\ \A U \in SUBSET V :
             Covers(U, usable) =>
               \/ Cardinality(ToSet(x)) < Cardinality(U)
               \/ Cardinality(ToSet(x)) = Cardinality(U) /\ Later(ToSet(x), U)
    <3> HIDE DEF V, T
    <3> QED BY <2>1, MinimumCoverFacts
  <2> QED BY <2>2
<1>6. x \in Seq(Starts) /\ ToSet(x) \subseteq T /\ IsFiniteSet(ToSet(x))
  <2> HIDE DEF T, x
  <2>1. x \in Seq(T)
    BY <1>5 DEF Desc
  <2>2. x \in Seq(Starts)
    BY <1>2, <2>1, SeqMonotonic
  <2>3. ToSet(x) \subseteq T
    BY <1>2, <1>5, ToSetFacts
  <2>4. IsFiniteSet(ToSet(x))
    BY <1>2, <1>5, DescSize
  <2> QED BY <2>2, <2>3, <2>4
<1>7. ASSUME NEW a \in Assets
      PROVE  Chosen(a) \in proof[a] /\ Chosen(a) \in Starts /\ Chosen(a) \in ToSet(x)
  <2> DEFINE S == {s \in ToSet(x) : <<a, s>> \in usable}
  <2> HIDE DEF T, x
  <2>1. S \in SUBSET Nat /\ S # {} /\ IsFiniteSet(S) /\ S \subseteq Starts
    <3>1. \E s \in ToSet(x) : <<a, s>> \in usable
      BY <1>5 DEF Covers
    <3>2. S \in SUBSET ToSet(x)
      OBVIOUS
    <3>3. IsFiniteSet(S)
      BY <1>6, <3>2, FS_Subset
    <3> QED BY <1>2, <1>6, <3>1, <3>3
  <2>2. Max(S) \in S
    <3> HIDE DEF S
    <3> QED BY <2>1, MaxFacts
  <2> DEFINE k == Max(S)
  <2>3. k \in ToSet(x) /\ <<a, k>> \in usable /\ k \in Starts
    BY <2>1, <2>2
  <2> HIDE DEF k
  <2>4. k \in proof[a]
    BY <1>3, <2>3
  <2>5. Chosen(a) = k
    BY Zenon DEF Chosen, k, x
  <2> QED BY <2>3, <2>4, <2>5, Zenon
<1>8. ToSet(x) \subseteq qualified
  BY <1>2, <1>6
<1> QED BY <1>5, <1>6, <1>7, <1>8

LEMMA ReceiptCounts ==
  ASSUME CanaryAssumption, StateOK, PriorPhase, Covered, SearchPhase, pc = "select",
         Uncovered = {}, reused \subseteq PriorExcluded
  PROVE  CountsAgree(TheReceipt)
<1> DEFINE prior == PriorOf(reused)
           L == Len(Rounds)
           A == Cardinality(Assets)
<1>1. /\ prior \cap RoundStarts = {} /\ qualified = fresh \cup prior
      /\ fresh \subseteq UNION {Rounds[i] : i \in 1..round}
      /\ round <= Cardinality(fresh) /\ Cardinality(fresh) <= MaxCandidates * round
      /\ gamma <= PriorRequests + MaxCandidates * round * A
      /\ round = 0 /\ invalidated = {} => gamma = PriorRequests
      /\ heads <= MaxObjects * round /\ objects = heads
      /\ round > 0 <=> heads > 0
  BY DEF Covered, SearchPhase, Counted
<1>2. /\ L \in Nat /\ round \in 0..L /\ round \in Nat /\ round <= L
      /\ MaxCandidates \in Nat /\ MaxObjects \in Nat
      /\ A \in Nat /\ PriorRequests \in Nat /\ gamma \in Nat /\ heads \in Nat
  <2>1. L \in Nat /\ MaxCandidates \in Nat /\ MaxObjects \in Nat
    BY RoundFacts
  <2>2. A \in Nat /\ PriorRequests \in Nat
    BY AssetsFacts, RequestedFacts
  <2>3. round \in 0..L /\ gamma \in Nat /\ heads \in Nat
    BY DEF StateOK
  <2> HIDE DEF L, A
  <2> QED BY <2>1, <2>2, <2>3
<1>3. fresh \subseteq RoundStarts
  <2>1. \A i \in 1..round : i \in 1..Len(Rounds)
    BY <1>2
  <2> QED BY <1>1, <2>1 DEF RoundStarts
<1>4. /\ IsFiniteSet(fresh) /\ IsFiniteSet(prior)
      /\ Cardinality(fresh) \in Nat /\ Cardinality(prior) \in Nat
  <2>1. fresh \subseteq Starts /\ prior \subseteq Starts
    BY <1>1 DEF StateOK
  <2> HIDE DEF prior
  <2> QED BY <2>1, StartsFacts, FS_Subset, FS_CardinalityType
<1> HIDE DEF prior, L, A
<1>5. Cardinality(qualified) = Cardinality(fresh) + Cardinality(prior)
  <2>1. fresh \cap prior = {}
    BY <1>1, <1>3
  <2>2. Cardinality(fresh \cup prior) = Cardinality(fresh) + Cardinality(prior) - Cardinality(fresh \cap prior)
    BY <1>4, FS_Union
  <2>3. Cardinality(fresh \cap prior) = 0
    BY <2>1, FS_EmptySet
  <2> QED BY <1>1, <1>4, <2>2, <2>3
<1>6. Cardinality(fresh) <= round * MaxCandidates
  <2>1. MaxCandidates * round = round * MaxCandidates
    BY <1>2
  <2> QED BY <1>1, <2>1
<1>7. gamma <= MaxGammaRequests
  <2> DEFINE p == MaxCandidates * round
             q == MaxCandidates * L
  <2>1. p \in Nat /\ q \in Nat /\ p <= q
    BY <1>2, MulMono
  <2>2. gamma <= PriorRequests + p * A
    BY <1>1
  <2>3. MaxGammaRequests = q * A + PriorRequests
    BY DEF MaxGammaRequests, L, A
  <2> HIDE DEF p, q
  <2>4. p * A <= q * A /\ p * A \in Nat /\ q * A \in Nat
    BY <1>2, <2>1, MulMono
  <2> QED BY <1>2, <2>2, <2>3, <2>4
<1>8. heads \in 0..MaxObjectsTotal
  <2> DEFINE p == MaxObjects * round
             q == MaxObjects * L
  <2>1. p \in Nat /\ q \in Nat /\ p <= q
    BY <1>2, MulMono
  <2>2. heads <= p
    BY <1>1
  <2>3. MaxObjectsTotal = q
    BY DEF MaxObjectsTotal, L
  <2> HIDE DEF p, q
  <2> QED BY <1>2, <2>1, <2>2, <2>3
<1>9. reused \subseteq Assets /\ reused \cap invalidated = {} /\ invalidated \subseteq Assets
  BY PriorFacts DEF StateOK, PriorPhase
<1>10. round = 0 => reused = Assets /\ invalidated = {} /\ heads = 0 /\ gamma = PriorRequests
  <2>1. SUFFICES ASSUME round = 0 PROVE reused = Assets /\ invalidated = {} /\ heads = 0
    BY <1>1
  <2>2. \A a \in Assets : a \in reused
    <3>1. \A a \in Assets : proof[a] # {}
      BY DEF Uncovered
    <3>2. ~(round > 0)
      BY <2>1
    <3> QED BY <3>1, <3>2 DEF Covered
  <2>3. heads = 0
    BY <1>1, <1>2, <2>1
  <2> QED BY <1>9, <2>2, <2>3
<1>11. round > 0 => heads >= 1
  BY <1>1, <1>2
<1>12. Cardinality(ExclusionChecked) = A
  <2>1. ExclusionChecked = Assets
    <3>1. CASE round = 0
      BY <1>9, <1>10, <3>1 DEF ExclusionChecked
    <3>2. CASE round # 0
      <4>1. round > 0
        BY <1>2, <3>2
      <4> QED BY <1>9, <4>1 DEF ExclusionChecked
    <3> QED BY <3>1, <3>2
  <2> QED BY <2>1 DEF A
<1>13. qualified \subseteq RoundStarts \cup prior
  BY <1>1, <1>3
<1> DEFINE r == TheReceipt
<1>14. /\ r.prior = reused /\ r.invalidated = invalidated /\ r.rounds = round
       /\ r.qualified = qualified /\ r.fresh = Cardinality(fresh)
       /\ r.total = Cardinality(qualified) /\ r.gamma = gamma /\ r.heads = heads
       /\ r.objects = objects /\ r.exclusions = Cardinality(ExclusionChecked)
  BY DEF TheReceipt
<1>15. UNION {PriorStarts[a] : a \in r.prior} = prior
  BY <1>14 DEF prior, PriorOf
<1> HIDE DEF r
<1>16. CountsAgree(r)
  <2> SUFFICES
        /\ r.rounds \in 0..L
        /\ r.rounds = 0 => r.prior = Assets /\ r.invalidated = {} /\ r.heads = 0
        /\ r.rounds <= r.fresh /\ r.fresh <= r.rounds * MaxCandidates
        /\ r.total = r.fresh + Cardinality(prior)
        /\ Cardinality(r.qualified) = r.total
        /\ r.qualified \subseteq RoundStarts \cup prior
        /\ RoundStarts \cap prior = {}
        /\ r.gamma <= MaxGammaRequests
        /\ r.rounds = 0 => r.gamma = PriorRequests
        /\ r.heads \in 0..MaxObjectsTotal
        /\ r.objects = r.heads
        /\ r.rounds > 0 => r.heads >= 1
        /\ r.exclusions = A
    BY <1>15, Zenon DEF CountsAgree, L, A
  <2> QED BY <1>1, <1>2, <1>5, <1>6, <1>7, <1>8, <1>10, <1>11, <1>12, <1>13, <1>14
<1> QED BY <1>16 DEF r

LEMMA ReceiptCoverage ==
  ASSUME CanaryAssumption, StateOK, Covered, Identities, Uncovered = {}
  PROVE  CoverageIsBound(TheReceipt)
<1> DEFINE r == TheReceipt
           x == MinimumCover(usable)
<1>1. /\ r.proof = proof /\ r.qualified = qualified /\ r.usable = usable /\ r.selected = x
      /\ \A a \in Assets : r.starts[a] = Chosen(a)
  BY DEF TheReceipt, Chosen
<1> HIDE DEF r, x
<1>2. /\ usable \subseteq Assets \X Starts
      /\ \A a \in Assets : proof[a] \subseteq qualified /\ proof[a] # {} /\ proof[a] \subseteq Starts
      /\ usable = {m \in Assets \X Starts : m[2] \in proof[m[1]]} /\ usable \subseteq seen
  BY DEF StateOK, Covered, Uncovered
<1>3. \A a \in Assets : proof[a] = {s \in Starts : <<a, s>> \in usable}
  BY <1>2
<1>4. reuse = {} \/ \E m \in reuse : m[2] \notin proof[m[1]]
  <2>1. SUFFICES ASSUME reuse # {} PROVE \E m \in reuse : m[2] \notin proof[m[1]]
    OBVIOUS
  <2>2. reuse \subseteq Assets \X Starts
    BY DEF StateOK, CanaryAssumption
  <2>3. PICK m \in reuse : m \notin seen
    BY <2>1 DEF Identities, Distinct
  <2>4. m \in Assets \X Starts /\ m \notin usable
    BY <1>2, <2>2, <2>3
  <2> QED BY <1>2, <2>4
<1>5. /\ Len(x) \in 1..Cardinality(Assets) /\ ToSet(x) \subseteq qualified
      /\ \A a \in Assets : Chosen(a) \in proof[a] /\ Chosen(a) \in ToSet(x)
  BY SelectedFacts, Zenon DEF x
<1>6. CoverageIsBound(r)
  <2>1. r.selected = MinimumCover(r.usable)
    BY <1>1 DEF x
  <2>2. \A a \in Assets :
          /\ r.proof[a] # {} /\ r.proof[a] \subseteq r.qualified
          /\ r.proof[a] = {s \in Starts : <<a, s>> \in r.usable}
    BY <1>1, <1>2, <1>3
  <2>3. reuse = {} \/ \E m \in reuse : m[2] \notin r.proof[m[1]]
    BY <1>1, <1>4
  <2>4. /\ Len(r.selected) \in 1..Cardinality(Assets) /\ ToSet(r.selected) \subseteq r.qualified
        /\ \A a \in Assets : r.starts[a] \in r.proof[a] \cap ToSet(r.selected)
    <3>1. ASSUME NEW a \in Assets PROVE r.starts[a] \in proof[a] \cap ToSet(x)
      <4>1. Chosen(a) \in proof[a] /\ Chosen(a) \in ToSet(x)
        BY <1>5
      <4>2. Chosen(a) \in proof[a] \cap ToSet(x)
        BY <4>1
      <4> QED BY <1>1, <4>2, Zenon
    <3>2. Len(x) \in 1..Cardinality(Assets) /\ ToSet(x) \subseteq qualified
      BY <1>5
    <3> QED BY <1>1, <3>1, <3>2, Zenon
  <2> QED BY <2>1, <2>2, <2>3, <2>4, Zenon DEF CoverageIsBound
<1> QED BY <1>6 DEF r

LEMMA ReceiptTyped ==
  ASSUME CanaryAssumption, StateOK, Covered, Uncovered = {}
  PROVE  TheReceipt \in Receipts
<1>1. MinimumCover(usable) \in Seq(Starts) /\ \A a \in Assets : Chosen(a) \in Starts
  BY SelectedFacts, Zenon
<1>2. Cardinality(fresh) \in Nat /\ Cardinality(qualified) \in Nat
  BY StartsFacts, FS_Subset, FS_CardinalityType DEF StateOK
<1>3. Cardinality(ExclusionChecked) \in Nat
  <2>1. ExclusionChecked \subseteq Assets /\ IsFiniteSet(Assets)
    BY PriorFacts, AssetsFacts DEF ExclusionChecked, StateOK
  <2> QED BY <2>1, FS_Subset, FS_CardinalityType
<1>4. [a \in Assets |-> Max({s \in ToSet(MinimumCover(usable)) : <<a, s>> \in usable})]
        \in [Assets -> Starts]
  BY <1>1 DEF Chosen
<1>5. /\ reused \in SUBSET Configured /\ invalidated \in SUBSET Configured /\ round \in Nat
      /\ qualified \in SUBSET Starts /\ gamma \in Nat /\ heads \in Nat /\ objects \in Nat
      /\ usable \in SUBSET (Assets \X Starts) /\ proof \in [Assets -> SUBSET Starts]
  BY RoundFacts DEF StateOK
<1> QED BY <1>1, <1>2, <1>3, <1>4, <1>5 DEF TheReceipt, Receipts

LEMMA ReceiptIsMinimal ==
  ASSUME CanaryAssumption, StateOK, Covered, Uncovered = {}
  PROVE  LET chosen == ToSet(TheReceipt.selected) IN
           /\ Covers(chosen, TheReceipt.usable)
           /\ \A T \in SUBSET {m[2] : m \in TheReceipt.usable} :
                Covers(T, TheReceipt.usable) =>
                  \/ Cardinality(chosen) < Cardinality(T)
                  \/ Cardinality(chosen) = Cardinality(T) /\ Later(chosen, T)
<1>1. TheReceipt.selected = MinimumCover(usable) /\ TheReceipt.usable = usable
  BY DEF TheReceipt
<1> QED BY <1>1, SelectedFacts

LEMMA ReceiptAccepted ==
  ASSUME CanaryAssumption, StateOK, PriorPhase, Covered, Identities, SearchPhase,
         pc = "select", Uncovered = {}
  PROVE  \/ GateAccepts(TheReceipt) \/ ~EnoughRequests(TheReceipt)
         \/ ~(TheReceipt.prior \subseteq PriorExcluded)
<1>1. SUFFICES ASSUME EnoughRequests(TheReceipt), TheReceipt.prior \subseteq PriorExcluded
               PROVE  GateAccepts(TheReceipt)
  OBVIOUS
<1>2. TheReceipt.prior = reused /\ TheReceipt.invalidated = invalidated
  BY DEF TheReceipt
<1>3. PriorIsDisposed(TheReceipt)
  BY <1>2 DEF PriorIsDisposed, PriorPhase, SearchPhase
<1>4. CountsAgree(TheReceipt)
  BY <1>1, <1>2, ReceiptCounts
<1> QED BY <1>1, <1>3, <1>4, ReceiptCoverage DEF GateAccepts

-----------------------------------------------------------------------------
(***************************************************************************)
(* The inductive invariant holds.                                          *)
(***************************************************************************)
LEMMA NoReceipt == ASSUME receipt' = None PROVE ReceiptOK'
BY DEF ReceiptOK, ReceiptOpensGate, CoverIsMinimum

\* Nothing follows a written receipt.
LEMMA ReceiptStays == ASSUME ReceiptOK, UNCHANGED <<receipt, reuse>> PROVE ReceiptOK'
<1>1. ReceiptOpensGate'
  BY DEF ReceiptOK, ReceiptOpensGate, GateAccepts, PriorIsDisposed, CountsAgree,
         EnoughRequests, CoverageIsBound
<1>2. CoverIsMinimum'
  BY DEF ReceiptOK, CoverIsMinimum
<1> QED BY <1>1, <1>2 DEF ReceiptOK

LEMMA ReceiptWritten ==
  ASSUME CanaryAssumption, StateOK, PriorPhase, Covered, Identities, SearchPhase, RoundPhase,
         WriteReceipt
  PROVE  ReceiptOK'
<1>1. pc = "select" /\ receipt' = TheReceipt /\ reuse' = reuse
  BY DEF WriteReceipt, TheReceipt
<1>2. Uncovered = {}
  BY <1>1 DEF RoundPhase
<1>3. receipt' \in Receipts
  BY <1>1, <1>2, ReceiptTyped
<1> DEFINE r == TheReceipt
<1>4. \/ GateAccepts(r) \/ ~EnoughRequests(r) \/ ~(r.prior \subseteq PriorExcluded)
  BY <1>1, <1>2, ReceiptAccepted
<1>5. LET chosen == ToSet(r.selected) IN
        /\ Covers(chosen, r.usable)
        /\ \A T \in SUBSET {m[2] : m \in r.usable} :
             Covers(T, r.usable) =>
               \/ Cardinality(chosen) < Cardinality(T)
               \/ Cardinality(chosen) = Cardinality(T) /\ Later(chosen, T)
  BY <1>2, ReceiptIsMinimal
<1> HIDE DEF r
<1>6. receipt' = r
  BY <1>1 DEF r
<1>7. ReceiptOpensGate'
  BY <1>1, <1>4, <1>6 DEF ReceiptOpensGate, GateAccepts, PriorIsDisposed, CountsAgree,
                          EnoughRequests, CoverageIsBound
<1>8. CoverIsMinimum'
  BY <1>5, <1>6 DEF CoverIsMinimum
<1> QED BY <1>3, <1>7, <1>8 DEF ReceiptOK

LEMMA InitInv == ASSUME CanaryAssumption, Init PROVE CanaryInv
<1>1. StateOK
  BY InitOK
<1>2. /\ pc = "prior" /\ reuse \in Reuses /\ unchecked = Configured /\ asset = None
      /\ reused = {} /\ invalidated = {} /\ left = {} /\ gamma = 0 /\ heads = 0 /\ objects = 0
      /\ round = 0 /\ seen = {} /\ qualified = {} /\ fresh = {} /\ usable = {}
      /\ proof = [a \in Assets |-> {}] /\ receipt = None
  BY DEF Init
<1>3. Answered = {}
  BY <1>2 DEF Answered, Requested
<1>4. Cardinality({}) = 0
  BY FS_EmptySet
<1>5. PriorPhase
  BY <1>2, <1>3, <1>4 DEF PriorPhase
<1>6. Covered
  BY <1>2 DEF Covered, PriorOf
<1>7. Identities
  BY <1>2 DEF Identities, Distinct
<1>8. SearchPhase /\ RoundPhase
  BY <1>2 DEF SearchPhase, RoundPhase
<1>9. ReceiptOK
  BY <1>2 DEF ReceiptOK, ReceiptOpensGate, CoverIsMinimum
<1> QED BY <1>1, <1>2, <1>5, <1>6, <1>7, <1>8, <1>9 DEF CanaryInv

\* A failed canary does nothing more.
LEMMA FailedStops == ASSUME pc = "failed", Next PROVE FALSE
<1>1. CASE Proceed
  BY <1>1 DEF Proceed, BeginPrior, AskPrior, EndPrior, BeginSearch, BeginRound, Reject, Accept,
              CloseQualification, Execute, EndSearch, WriteReceipt
<1>2. CASE Abort
  BY <1>2 DEF Abort, Working
<1> QED BY <1>1, <1>2 DEF Next

\* No step but WriteReceipt touches the receipt.
LEMMA ReceiptStep ==
  ASSUME CanaryAssumption, CanaryInv, pc # "failed", [Next]_vars
  PROVE  ReceiptOK'
<1>1. CASE WriteReceipt
  BY <1>1, ReceiptWritten DEF CanaryInv
<1>2. CASE UNCHANGED <<receipt, reuse>>
  BY <1>2, ReceiptStays DEF CanaryInv
<1>3. CASE AskPrior
  BY <1>2, <1>3 DEF AskPrior
<1>4. CASE Accept
  BY <1>2, <1>4 DEF Accept
<1>5. CASE CloseQualification
  BY <1>2, <1>5 DEF CloseQualification
<1>6. CASE \/ (\E a \in Configured : BeginPrior(a)) \/ EndPrior \/ BeginSearch \/ BeginRound
           \/ (\E a \in Assets : Reject(a)) \/ EndSearch \/ Abort \/ UNCHANGED vars
           \/ (\E acc \in [Uncovered -> SUBSET candidates] : Execute(acc))
  BY <1>2, <1>6 DEF BeginPrior, EndPrior, BeginSearch, BeginRound, Reject, EndSearch, Abort,
                    Execute, vars
<1> QED BY <1>1, <1>3, <1>4, <1>5, <1>6 DEF Next, Proceed

LEMMA StepInv == ASSUME CanaryAssumption, CanaryInv, [Next]_vars PROVE CanaryInv'
<1>1. CASE UNCHANGED vars /\ pc = "failed"
  <2>1. StateOK'
    BY <1>1, StepOK DEF CanaryInv
  <2>2. ReceiptOK' /\ pc' = "failed"
    BY <1>1, ReceiptStays DEF CanaryInv, vars
  <2> QED BY <2>1, <2>2 DEF CanaryInv
<1>2. CASE pc # "failed"
  <2>1. /\ StateOK /\ ReceiptOK /\ pc # "exceeded"
        /\ PriorPhase /\ Covered /\ Identities /\ SearchPhase /\ RoundPhase
    BY <1>2 DEF CanaryInv
  <2>2. StateOK'
    BY <2>1, StepOK DEF RoundPhase
  <2>3. ReceiptOK'
    BY <1>2, ReceiptStep
  <2>4. pc' # "exceeded"
    BY <2>1, Unexceeded
  <2>5. ASSUME pc' # "failed"
        PROVE  PriorPhase' /\ Covered' /\ Identities' /\ SearchPhase' /\ RoundPhase'
    <3>1. PriorPhase'
      BY <2>1, <2>5, PriorStep
    <3>2. Covered'
      BY <2>1, CoveredStep
    <3>3. Identities'
      BY <2>1, <2>4, <2>5, IdentitiesStep
    <3>4. SearchPhase'
      BY <2>1, <2>4, <2>5, SearchStep
    <3>5. RoundPhase'
      BY <2>1, <2>4, <2>5, RoundStep
    <3> QED BY <3>1, <3>2, <3>3, <3>4, <3>5
  <2> QED BY <2>2, <2>3, <2>4, <2>5 DEF CanaryInv
<1> QED BY <1>1, <1>2, FailedStops

LEMMA Invariant == ASSUME CanaryAssumption PROVE Spec => []CanaryInv
<1>1. Init => CanaryInv
  BY InitInv
<1>2. CanaryInv /\ [Next]_vars => CanaryInv'
  BY StepInv
<1> QED BY <1>1, <1>2, PTL DEF Spec

-----------------------------------------------------------------------------
\* Every variable of command_canary has the values its declaration says, and
\* the receipt, written on success only, has the fields the gate reads.
THEOREM CanaryTypes == ASSUME CanaryAssumption PROVE Spec => []CanaryTypeOK
<1>1. CanaryInv => CanaryTypeOK
  BY DEF CanaryInv, ReceiptOK, CanaryTypeOK
<1> QED BY <1>1, Invariant, PTL

\* Whatever Gamma and the archive answer, the requests of the prior proofs and
\* of all the rounds fit into the frozen budgets (command_canary,
\* _revalidate_prior_canary_evidence, qualify_canary_candidates).
THEOREM BudgetsHold == ASSUME CanaryAssumption PROVE Spec => []BudgetsSuffice
<1>1. CanaryInv => BudgetsSuffice
  BY DEF CanaryInv, BudgetsSuffice
<1> QED BY <1>1, Invariant, PTL

\* The receipt of command_canary passes every check of _require_canary_receipt
\* and _validate_receipt_coverage, but for the two cases the property names.
THEOREM GateOpens == ASSUME CanaryAssumption PROVE Spec => []ReceiptOpensGate
<1>1. CanaryInv => ReceiptOpensGate
  BY DEF CanaryInv, ReceiptOK
<1> QED BY <1>1, Invariant, PTL

\* minimum_canary_cover selects a smallest set of the usable starts that covers
\* every asset, and of those the latest.
THEOREM CoverMinimal == ASSUME CanaryAssumption PROVE Spec => []CoverIsMinimum
<1>1. CanaryInv => CoverIsMinimum
  BY DEF CanaryInv, ReceiptOK
<1> QED BY <1>1, Invariant, PTL
=============================================================================
