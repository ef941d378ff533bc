------------------------------ MODULE BudgetProofs ------------------------------
(***************************************************************************)
(* Proofs about Budget for every number of threads and reservations and    *)
(* every limit: the ledger adds up, nothing is overspent, every effect is  *)
(* paid once and no reservation leaks.                                     *)
(*                                                                         *)
(* The first part is about SumFunctionOnSet of the community module        *)
(* Functions on finite sets.  Its definition is a recursive function over  *)
(* the subsets of the set, so every fact is proved by looking at a         *)
(* smallest counterexample: the induction principles of the library take   *)
(* operators as parameters, a least element of a set of numbers does not.  *)
(***************************************************************************)
EXTENDS Budget, FiniteSetTheorems, WellFoundedInduction, TLAPS

-----------------------------------------------------------------------------
(* Sums over finite sets *)

(* A set of natural numbers that is not empty has a least element. *)
LEMMA LeastElement ==
    ASSUME NEW T \in SUBSET Nat, T # {}
    PROVE  \E m \in T : \A k \in T : m <= k
<1> DEFINE R == OpToRel(<, Nat)
<1>1. \A x, y \in Nat : <<x, y>> \in R <=> x < y
  BY DEF OpToRel
<1>2. IsWellFoundedOn(R, Nat) BY NatLessThanWellFounded
<1> HIDE DEF R
<1>3. PICK m \in T : \A y \in T : ~(<<y, m>> \in R)
  BY <1>2, WFMin
<1>4. ASSUME NEW k \in T PROVE m <= k
  <2>1. m \in Nat /\ k \in Nat OBVIOUS
  <2>2. ~(<<k, m>> \in R) BY <1>3
  <2>3. ~(k < m) BY <1>1, <2>1, <2>2, Zenon
  <2> QED BY <2>1, <2>3
<1> QED BY <1>4

(* Induction over the natural numbers, for a set instead of a predicate. *)
LEMMA SetInduction ==
    ASSUME NEW P, 0 \in P, \A n \in Nat : n \in P => n + 1 \in P
    PROVE  \A n \in Nat : n \in P
<1> DEFINE Bad == Nat \ P
<1> SUFFICES ASSUME Bad # {} PROVE FALSE
  OBVIOUS
<1>1. PICK m \in Bad : \A k \in Bad : m <= k
  BY LeastElement
<1>2. m \in Nat /\ m # 0 /\ m - 1 \in Nat
  OBVIOUS
<1>3. m - 1 \in P BY <1>1, <1>2
<1>4. (m - 1) + 1 \in P BY <1>2, <1>3
<1>5. (m - 1) + 1 = m BY <1>2
<1> QED BY <1>1, <1>4, <1>5

(* The element the fold takes from a set first. *)
FoldPick(s) == CHOOSE x \in s : TRUE

(* What the fold makes of the set s, given what it makes of smaller ones. *)
FoldStep(f, g, s) == IF s = {} THEN 0 ELSE f[FoldPick(s)] + g[s \ {FoldPick(s)}]

(* g is the fold of f on every subset of S. *)
IsFold(f, g, S) == \A s \in SUBSET S : g[s] = FoldStep(f, g, s)

LEMMA PickFacts ==
    ASSUME NEW s, s # {}
    PROVE  FoldPick(s) \in s
BY DEF FoldPick

(* The subsets of a finite set, and what is left of one without an element. *)
LEMMA SubsetFacts ==
    ASSUME NEW S, IsFiniteSet(S), NEW s \in SUBSET S
    PROVE  /\ IsFiniteSet(s) /\ Cardinality(s) \in Nat
           /\ Cardinality(s) = 0 <=> s = {}
           /\ \A x \in s : /\ s \ {x} \in SUBSET S
                           /\ Cardinality(s \ {x}) = Cardinality(s) - 1
<1>1. IsFiniteSet(s) BY FS_Subset
<1>2. Cardinality(s) \in Nat BY <1>1, FS_CardinalityType
<1>3. Cardinality(s) = 0 <=> s = {} BY <1>1, FS_EmptySet
<1>4. ASSUME NEW x \in s PROVE Cardinality(s \ {x}) = Cardinality(s) - 1
  BY <1>1, FS_RemoveElement
<1> QED BY <1>1, <1>2, <1>3, <1>4

(* The fold exists. *)
LEMMA FoldExists ==
    ASSUME NEW f, NEW S, IsFiniteSet(S)
    PROVE  \E h : h = [s \in SUBSET S |-> FoldStep(f, h, s)]
<1> DEFINE Upto(g, n) == \A s \in SUBSET S :
                            Cardinality(s) <= n => g[s] = FoldStep(f, g, s)
           P == {n \in Nat : \E g : Upto(g, n)}
<1>1. 0 \in P
  <2> DEFINE g == [s \in SUBSET S |-> 0]
  <2>1. ASSUME NEW s \in SUBSET S, Cardinality(s) <= 0
        PROVE  g[s] = FoldStep(f, g, s)
    BY <2>1, SubsetFacts DEF FoldStep
  <2>2. Upto(g, 0) BY <2>1
  <2> HIDE DEF Upto, g
  <2> QED BY <2>2
<1>2. ASSUME NEW n \in Nat, n \in P PROVE n + 1 \in P
  <2>1. PICK g : Upto(g, n) BY <1>2
  <2> DEFINE h == [s \in SUBSET S |-> IF Cardinality(s) <= n THEN g[s]
                                       ELSE FoldStep(f, g, s)]
  <2>2. ASSUME NEW s \in SUBSET S, Cardinality(s) <= n + 1
        PROVE  h[s] = FoldStep(f, h, s)
    <3>1. h[s] = FoldStep(f, g, s) BY <2>1
    <3>2. CASE s = {} BY <3>1, <3>2 DEF FoldStep
    <3>3. CASE s # {}
      <4>1. FoldPick(s) \in s BY <3>3, PickFacts
      <4>2. /\ s \ {FoldPick(s)} \in SUBSET S
            /\ Cardinality(s \ {FoldPick(s)}) = Cardinality(s) - 1
            /\ Cardinality(s) \in Nat
        BY <4>1, SubsetFacts
      <4>3. h[s \ {FoldPick(s)}] = g[s \ {FoldPick(s)}] BY <2>2, <4>2
      <4> QED BY <3>1, <3>3, <4>3 DEF FoldStep
    <3> QED BY <3>2, <3>3
  <2>3. Upto(h, n + 1) BY <2>2
  <2> HIDE DEF Upto, h
  <2> QED BY <2>3
<1> HIDE DEF P
<1>3. \A n \in Nat : n \in P BY <1>1, <1>2, SetInduction
<1> USE DEF P
<1>4. Cardinality(S) \in Nat BY FS_CardinalityType
<1>5. PICK g : Upto(g, Cardinality(S)) BY <1>3, <1>4
<1> DEFINE h == [s \in SUBSET S |-> g[s]]
<1>6. ASSUME NEW s \in SUBSET S PROVE h[s] = FoldStep(f, h, s)
  <2>1. Cardinality(s) <= Cardinality(S) BY FS_Subset
  <2>2. h[s] = FoldStep(f, g, s) BY <1>5, <2>1
  <2>3. CASE s = {} BY <2>2, <2>3 DEF FoldStep
  <2>4. CASE s # {}
    <3>1. s \ {FoldPick(s)} \in SUBSET S OBVIOUS
    <3> QED BY <2>2, <2>4, <3>1 DEF FoldStep
  <2> QED BY <2>3, <2>4
<1>7. h = [s \in SUBSET S |-> h[s]] OBVIOUS
<1> HIDE DEF h
<1>8. h = [s \in SUBSET S |-> FoldStep(f, h, s)] BY <1>6, <1>7
<1> QED BY <1>8

(* SumFunctionOnSet is the value of such a fold. *)
LEMMA SumUnfold ==
    ASSUME NEW f, NEW S, IsFiniteSet(S)
    PROVE  \E g : IsFold(f, g, S) /\ SumFunctionOnSet(f, S) = g[S]
<1>1. PICK h : h = [s \in SUBSET S |-> FoldStep(f, h, s)] BY FoldExists
<1>2. \E g : /\ g = [s \in SUBSET S |-> FoldStep(f, g, s)]
             /\ SumFunctionOnSet(f, S) = g[S]
  BY <1>1 DEF SumFunctionOnSet, FoldFunctionOnSet, MapThenFoldSet, FoldStep, FoldPick
<1>3. PICK g : /\ g = [s \in SUBSET S |-> FoldStep(f, g, s)]
               /\ SumFunctionOnSet(f, S) = g[S]
  BY <1>2
<1>4. IsFold(f, g, S) BY <1>3 DEF IsFold
<1> QED BY <1>3, <1>4

(* The folds of functions that agree on a set have one value there. *)
LEMMA FoldsAgree ==
    ASSUME NEW S, IsFiniteSet(S), NEW f, NEW g, NEW e, NEW h,
           \A x \in S : f[x] = e[x], IsFold(f, g, S), IsFold(e, h, S)
    PROVE  g[S] = h[S]
<1> DEFINE P == {n \in Nat : \A s \in SUBSET S :
                                Cardinality(s) = n => g[s] = h[s]}
<1>1. 0 \in P
  <2>1. ASSUME NEW s \in SUBSET S, Cardinality(s) = 0 PROVE g[s] = h[s]
    BY <2>1, SubsetFacts DEF IsFold, FoldStep
  <2> QED BY <2>1
<1>2. ASSUME NEW n \in Nat, n \in P PROVE n + 1 \in P
  <2>1. ASSUME NEW s \in SUBSET S, Cardinality(s) = n + 1 PROVE g[s] = h[s]
    <3>1. s # {} BY <2>1, SubsetFacts
    <3>2. FoldPick(s) \in s BY <3>1, PickFacts
    <3>3. g[s \ {FoldPick(s)}] = h[s \ {FoldPick(s)}]
      BY <1>2, <2>1, <3>2, SubsetFacts
    <3>4. g[s] = FoldStep(f, g, s) /\ h[s] = FoldStep(e, h, s) BY DEF IsFold
    <3>5. f[FoldPick(s)] = e[FoldPick(s)] BY <3>2
    <3> QED BY <3>1, <3>3, <3>4, <3>5 DEF FoldStep
  <2> QED BY <2>1
<1> HIDE DEF P
<1>3. \A n \in Nat : n \in P BY <1>1, <1>2, SetInduction
<1> QED BY <1>3, FS_CardinalityType DEF P

(* A fold of natural numbers is one. *)
LEMMA FoldsNat ==
    ASSUME NEW S, IsFiniteSet(S), NEW f, NEW g,
           \A x \in S : f[x] \in Nat, IsFold(f, g, S)
    PROVE  \A s \in SUBSET S : g[s] \in Nat
<1> DEFINE P == {n \in Nat : \A s \in SUBSET S :
                                Cardinality(s) = n => g[s] \in Nat}
<1>1. 0 \in P
  <2>1. ASSUME NEW s \in SUBSET S, Cardinality(s) = 0 PROVE g[s] \in Nat
    <3>1. s = {} BY <2>1, SubsetFacts
    <3>2. g[s] = FoldStep(f, g, s) BY DEF IsFold
    <3> QED BY <3>1, <3>2 DEF FoldStep
  <2> QED BY <2>1
<1>2. ASSUME NEW n \in Nat, n \in P PROVE n + 1 \in P
  <2>1. ASSUME NEW s \in SUBSET S, Cardinality(s) = n + 1 PROVE g[s] \in Nat
    <3>1. s # {} BY <2>1, SubsetFacts
    <3>2. FoldPick(s) \in s BY <3>1, PickFacts
    <3>3. g[s \ {FoldPick(s)}] \in Nat BY <1>2, <2>1, <3>2, SubsetFacts
    <3>4. g[s] = FoldStep(f, g, s) BY DEF IsFold
    <3>5. f[FoldPick(s)] \in Nat BY <3>2
    <3> QED BY <3>1, <3>3, <3>4, <3>5 DEF FoldStep
  <2> QED BY <2>1
<1> HIDE DEF P
<1>3. \A n \in Nat : n \in P BY <1>1, <1>2, SetInduction
<1> QED BY <1>3, SubsetFacts DEF P

(* The order in which a fold takes the elements does not matter. *)
LEMMA FoldsRemove ==
    ASSUME NEW S, IsFiniteSet(S), NEW f, NEW g,
           \A x \in S : f[x] \in Nat, IsFold(f, g, S)
    PROVE  \A s \in SUBSET S : \A x \in s : g[s] = f[x] + g[s \ {x}]
<1> DEFINE P == {n \in Nat : \A s \in SUBSET S : Cardinality(s) = n =>
                                \A x \in s : g[s] = f[x] + g[s \ {x}]}
<1>1. 0 \in P
  <2>1. ASSUME NEW s \in SUBSET S, Cardinality(s) = 0, NEW x \in s
        PROVE  g[s] = f[x] + g[s \ {x}]
    BY <2>1, SubsetFacts
  <2> QED BY <2>1
<1>2. ASSUME NEW n \in Nat, n \in P PROVE n + 1 \in P
  <2>1. ASSUME NEW s \in SUBSET S, Cardinality(s) = n + 1, NEW x \in s
        PROVE  g[s] = f[x] + g[s \ {x}]
    <3> DEFINE y == FoldPick(s)
    <3>1. y \in s BY PickFacts
    <3> HIDE DEF y
    <3>2. g[s] = f[y] + g[s \ {y}] BY <2>1 DEF IsFold, FoldStep, y
    <3>3. CASE x = y BY <3>2, <3>3
    <3>4. CASE x # y
      <4>1. /\ s \ {x} \in SUBSET S /\ Cardinality(s \ {x}) = n
            /\ s \ {y} \in SUBSET S /\ Cardinality(s \ {y}) = n
        BY <2>1, <3>1, SubsetFacts
      <4>2. x \in s \ {y} /\ y \in s \ {x} BY <3>1, <3>4
      <4>3. /\ g[s \ {y}] = f[x] + g[(s \ {y}) \ {x}]
            /\ g[s \ {x}] = f[y] + g[(s \ {x}) \ {y}]
        BY <1>2, <4>1, <4>2
      <4>4. (s \ {y}) \ {x} = (s \ {x}) \ {y} OBVIOUS
      <4>5. /\ f[x] \in Nat /\ f[y] \in Nat
            /\ g[(s \ {x}) \ {y}] \in Nat
        BY <3>1, FoldsNat
      <4> DEFINE r == g[(s \ {x}) \ {y}]
      <4>6. /\ g[s] = f[y] + g[s \ {y}] /\ g[s \ {y}] = f[x] + r
            /\ g[s \ {x}] = f[y] + r /\ r \in Nat
        BY <3>2, <4>3, <4>4, <4>5
      <4> HIDE DEF r
      <4> QED BY <4>5, <4>6
    <3> QED BY <3>3, <3>4
  <2> QED BY <2>1
<1> HIDE DEF P
<1>3. \A n \in Nat : n \in P BY <1>1, <1>2, SetInduction
<1>4. ASSUME NEW s \in SUBSET S, NEW x \in s
      PROVE  g[s] = f[x] + g[s \ {x}]
  <2>1. Cardinality(s) \in P BY <1>3, SubsetFacts
  <2> QED BY <2>1 DEF P
<1> QED BY <1>4

-----------------------------------------------------------------------------
(* The facts about sums that the other proofs use *)

(* The empty sum is zero. *)
LEMMA SumEmpty == ASSUME NEW f PROVE SumFunctionOnSet(f, {}) = 0
<1>1. IsFiniteSet({}) BY FS_EmptySet
<1>2. PICK g : IsFold(f, g, {}) /\ SumFunctionOnSet(f, {}) = g[{}]
  BY <1>1, SumUnfold
<1> QED BY <1>2 DEF IsFold, FoldStep

(* A sum of natural numbers is one. *)
LEMMA SumNat ==
    ASSUME NEW S, IsFiniteSet(S), NEW f, \A x \in S : f[x] \in Nat
    PROVE  SumFunctionOnSet(f, S) \in Nat
BY SumUnfold, FoldsNat

(* A sum depends only on the values at the indices. *)
LEMMA SumAgree ==
    ASSUME NEW S, IsFiniteSet(S), NEW f, NEW e, \A x \in S : f[x] = e[x]
    PROVE  SumFunctionOnSet(f, S) = SumFunctionOnSet(e, S)
<1>1. PICK g : IsFold(f, g, S) /\ SumFunctionOnSet(f, S) = g[S] BY SumUnfold
<1>2. PICK h : IsFold(e, h, S) /\ SumFunctionOnSet(e, S) = h[S] BY SumUnfold
<1>3. g[S] = h[S] BY <1>1, <1>2, FoldsAgree
<1> QED BY <1>1, <1>2, <1>3

(* A sum with and without one of its indices. *)
LEMMA SumRemove ==
    ASSUME NEW S, IsFiniteSet(S), NEW f, \A x \in S : f[x] \in Nat,
           NEW x \in S
    PROVE  SumFunctionOnSet(f, S) = f[x] + SumFunctionOnSet(f, S \ {x})
<1>1. PICK g : IsFold(f, g, S) /\ SumFunctionOnSet(f, S) = g[S] BY SumUnfold
<1>2. IsFiniteSet(S \ {x}) BY FS_RemoveElement
<1>3. PICK h : /\ IsFold(f, h, S \ {x})
               /\ SumFunctionOnSet(f, S \ {x}) = h[S \ {x}]
  BY <1>2, SumUnfold
<1>4. IsFold(f, g, S \ {x}) BY <1>1 DEF IsFold
<1>5. g[S \ {x}] = h[S \ {x}] BY <1>2, <1>3, <1>4, FoldsAgree
<1>6. g[S] = f[x] + g[S \ {x}] BY <1>1, FoldsRemove
<1> QED BY <1>1, <1>3, <1>5, <1>6

(* A sum grows by the value of an index that is added. *)
LEMMA SumInsert ==
    ASSUME NEW S, IsFiniteSet(S), NEW x, x \notin S, NEW f,
           \A y \in S \union {x} : f[y] \in Nat
    PROVE  SumFunctionOnSet(f, S \union {x}) = SumFunctionOnSet(f, S) + f[x]
<1>1. IsFiniteSet(S \union {x}) BY FS_AddElement
<1>2. SumFunctionOnSet(f, S \union {x})
        = f[x] + SumFunctionOnSet(f, (S \union {x}) \ {x})
  BY <1>1, SumRemove
<1>3. (S \union {x}) \ {x} = S OBVIOUS
<1>4. SumFunctionOnSet(f, S) \in Nat /\ f[x] \in Nat BY SumNat
<1> QED BY <1>2, <1>3, <1>4

(* A sum of natural numbers over fewer indices is not larger. *)
LEMMA SumMonotone ==
    ASSUME NEW T, IsFiniteSet(T), NEW f, \A x \in T : f[x] \in Nat,
           NEW S \in SUBSET T
    PROVE  SumFunctionOnSet(f, S) <= SumFunctionOnSet(f, T)
<1> DEFINE Total(s) == SumFunctionOnSet(f, s)
           P == {n \in Nat : \A s \in SUBSET T :
                   Cardinality(s) = n /\ S \subseteq s => Total(S) <= Total(s)}
<1> HIDE DEF Total
<1>0. \A s \in SUBSET T : Total(s) \in Nat BY SubsetFacts, SumNat DEF Total
<1>1. 0 \in P
  <2>1. ASSUME NEW s \in SUBSET T, Cardinality(s) = 0, S \subseteq s
        PROVE  Total(S) <= Total(s)
    <3>1. s = S BY <2>1, SubsetFacts
    <3> QED BY <1>0, <3>1
  <2> QED BY <2>1
<1>2. ASSUME NEW n \in Nat, n \in P PROVE n + 1 \in P
  <2>1. ASSUME NEW s \in SUBSET T, Cardinality(s) = n + 1, S \subseteq s
        PROVE  Total(S) <= Total(s)
    <3>1. CASE s = S BY <1>0, <3>1
    <3>2. CASE s # S
      <4>1. PICK x \in s : x \notin S BY <2>1, <3>2
      <4>2. /\ s \ {x} \in SUBSET T /\ S \subseteq s \ {x}
            /\ Cardinality(s \ {x}) = n
        BY <2>1, <4>1, SubsetFacts
      <4>3. Total(S) <= Total(s \ {x}) BY <1>2, <4>2
      <4>4. IsFiniteSet(s) BY FS_Subset
      <4>5. Total(s) = f[x] + Total(s \ {x}) BY <4>4, SumRemove DEF Total
      <4>6. f[x] \in Nat OBVIOUS
      <4> QED BY <1>0, <4>2, <4>3, <4>5, <4>6
    <3> QED BY <3>1, <3>2
  <2> QED BY <2>1
<1> HIDE DEF P
<1>3. \A n \in Nat : n \in P BY <1>1, <1>2, SetInduction
<1>4. Cardinality(T) \in Nat BY FS_CardinalityType
<1>5. Total(S) <= Total(T) BY <1>3, <1>4 DEF P
<1> QED BY <1>5 DEF Total

(* The sum over two sets of indices without a common one. *)
LEMMA SumUnion ==
    ASSUME NEW S, IsFiniteSet(S), NEW T, IsFiniteSet(T), NEW f,
           \A x \in S \union T : f[x] \in Nat, S \intersect T = {}
    PROVE  SumFunctionOnSet(f, S \union T)
             = SumFunctionOnSet(f, S) + SumFunctionOnSet(f, T)
<1> DEFINE Total(s) == SumFunctionOnSet(f, s)
           P == {n \in Nat : \A t \in SUBSET T :
                   Cardinality(t) = n => Total(S \union t) = Total(S) + Total(t)}
<1> HIDE DEF Total
<1>0. Total(S) \in Nat /\ \A t \in SUBSET T : Total(t) \in Nat
  BY SubsetFacts, SumNat DEF Total
<1>1. 0 \in P
  <2>1. ASSUME NEW t \in SUBSET T, Cardinality(t) = 0
        PROVE  Total(S \union t) = Total(S) + Total(t)
    <3>1. t = {} BY <2>1, SubsetFacts
    <3>2. Total({}) = 0 BY SumEmpty DEF Total
    <3>3. S \union t = S BY <3>1
    <3> QED BY <1>0, <3>1, <3>2, <3>3
  <2> QED BY <2>1
<1>2. ASSUME NEW n \in Nat, n \in P PROVE n + 1 \in P
  <2>1. ASSUME NEW t \in SUBSET T, Cardinality(t) = n + 1
        PROVE  Total(S \union t) = Total(S) + Total(t)
    <3>1. PICK x \in t : TRUE BY <2>1, SubsetFacts
    <3>2. /\ t \ {x} \in SUBSET T /\ Cardinality(t \ {x}) = n
          /\ IsFiniteSet(t)
      BY <2>1, SubsetFacts
    <3>3. Total(S \union (t \ {x})) = Total(S) + Total(t \ {x}) BY <1>2, <3>2
    <3>4. Total(t) = f[x] + Total(t \ {x}) BY <3>2, SumRemove DEF Total
    <3>5. IsFiniteSet(S \union t) BY <3>2, FS_Union
    <3>6. Total(S \union t) = f[x] + Total((S \union t) \ {x})
      BY <3>5, SumRemove DEF Total
    <3>7. (S \union t) \ {x} = S \union (t \ {x}) BY <3>1
    <3>8. f[x] \in Nat OBVIOUS
    <3> QED BY <1>0, <3>2, <3>3, <3>4, <3>6, <3>7, <3>8
  <2> QED BY <2>1
<1> HIDE DEF P
<1>3. \A n \in Nat : n \in P BY <1>1, <1>2, SetInduction
<1>4. Cardinality(T) \in Nat BY FS_CardinalityType
<1>5. Total(S \union T) = Total(S) + Total(T) BY <1>3, <1>4 DEF P
<1> QED BY <1>5 DEF Total

-----------------------------------------------------------------------------
(* The ledger *)

Rows == {Absent} \union [status : {"RESERVED", "CONSUMED", "RELEASED"},
                         units : Units]

Operations == [pc : {"idle", "working", "finally", "releasing"},
               kind : Kinds \union {"none"}, id : Ids \union {None}]

(* The units of a row are a natural number, and of a reservation not zero. *)
LEMMA RowUnits ==
    ASSUME NEW r \in Rows
    PROVE  r.units \in Nat /\ (r.status # "NONE" => r.units > 0)
<1>1. CASE r = Absent BY <1>1 DEF Absent
<1>2. CASE r \in [status : {"RESERVED", "CONSUMED", "RELEASED"},
                  units : Units]
  <2>1. r.units \in Units BY <1>2
  <2>2. r.units \in Nat \ {0} BY <2>1, BudgetAssumption
  <2> QED BY <2>2
<1> QED BY <1>1, <1>2 DEF Rows

(* The reservations of one status are finitely many and their units add up to
   a natural number. *)
LEMMA SumFacts ==
    ASSUME res \in [Ids -> Rows], NEW s
    PROVE  /\ IsFiniteSet(With(s)) /\ With(s) \subseteq Ids
           /\ \A i \in Ids : UnitsOf[i] = res[i].units /\ UnitsOf[i] \in Nat
           /\ Sum(s) \in Nat
<1>1. With(s) \subseteq Ids BY DEF With
<1>2. IsFiniteSet(With(s)) BY <1>1, BudgetAssumption, FS_Subset
<1>3. ASSUME NEW i \in Ids
      PROVE  UnitsOf[i] = res[i].units /\ UnitsOf[i] \in Nat
  <2>1. res[i] \in Rows OBVIOUS
  <2> QED BY <2>1, RowUnits DEF UnitsOf
<1>4. \A i \in With(s) : UnitsOf[i] \in Nat BY <1>1, <1>3
<1>5. SumFunctionOnSet(UnitsOf, With(s)) \in Nat BY <1>2, <1>4, SumNat
<1> QED BY <1>1, <1>2, <1>3, <1>5 DEF Sum

(* A reservation that counts is not larger than the sum it counts in. *)
LEMMA OneOfSum ==
    ASSUME res \in [Ids -> Rows], NEW s, NEW i \in With(s)
    PROVE  /\ res[i].units \in Nat /\ res[i].units <= Sum(s)
           /\ Sum(s) = res[i].units + SumFunctionOnSet(UnitsOf, With(s) \ {i})
           /\ SumFunctionOnSet(UnitsOf, With(s) \ {i}) \in Nat
<1>1. /\ IsFiniteSet(With(s)) /\ i \in Ids
      /\ \A j \in With(s) : UnitsOf[j] \in Nat
      /\ UnitsOf[i] = res[i].units /\ UnitsOf[i] \in Nat
  BY SumFacts
<1>2. SumFunctionOnSet(UnitsOf, With(s))
        = UnitsOf[i] + SumFunctionOnSet(UnitsOf, With(s) \ {i})
  BY <1>1, SumRemove
<1>3. IsFiniteSet(With(s) \ {i}) BY <1>1, FS_RemoveElement
<1>4. SumFunctionOnSet(UnitsOf, With(s) \ {i}) \in Nat BY <1>1, <1>3, SumNat
<1> QED BY <1>1, <1>2, <1>4 DEF Sum

(* The sums of one status before and after a step: nothing changed, a
   reservation joined, or one left. *)
LEMMA SumSame ==
    ASSUME res \in [Ids -> Rows], res' \in [Ids -> Rows], NEW s,
           With(s)' = With(s), \A i \in With(s) : res'[i].units = res[i].units
    PROVE  Sum(s)' = Sum(s)
<1>1. IsFiniteSet(With(s)) /\ With(s) \subseteq Ids BY SumFacts
<1>2. \A i \in With(s) : UnitsOf'[i] = UnitsOf[i] BY <1>1 DEF UnitsOf
<1>3. SumFunctionOnSet(UnitsOf', With(s)) = SumFunctionOnSet(UnitsOf, With(s))
  BY <1>1, <1>2, SumAgree
<1> QED BY <1>3 DEF Sum

LEMMA SumJoin ==
    ASSUME res \in [Ids -> Rows], res' \in [Ids -> Rows], NEW s, NEW i \in Ids,
           i \notin With(s), With(s)' = With(s) \union {i},
           \A j \in With(s) : res'[j].units = res[j].units
    PROVE  Sum(s)' = Sum(s) + res'[i].units
<1>1. IsFiniteSet(With(s)) /\ With(s) \subseteq Ids BY SumFacts
<1>2. /\ \A j \in With(s) : UnitsOf'[j] = UnitsOf[j]
      /\ UnitsOf'[i] = res'[i].units
  BY <1>1 DEF UnitsOf
<1>3. \A j \in With(s) \union {i} : UnitsOf'[j] \in Nat
  <2>1. \A j \in Ids : res'[j] \in Rows OBVIOUS
  <2>2. \A j \in Ids : UnitsOf'[j] \in Nat BY <2>1, RowUnits DEF UnitsOf
  <2> QED BY <1>1, <2>2
<1>4. SumFunctionOnSet(UnitsOf', With(s) \union {i})
        = SumFunctionOnSet(UnitsOf', With(s)) + UnitsOf'[i]
  BY <1>1, <1>3, SumInsert
<1>5. SumFunctionOnSet(UnitsOf', With(s)) = SumFunctionOnSet(UnitsOf, With(s))
  BY <1>1, <1>2, SumAgree
<1> QED BY <1>2, <1>4, <1>5 DEF Sum

LEMMA SumLeave ==
    ASSUME res \in [Ids -> Rows], res' \in [Ids -> Rows], NEW s,
           NEW i \in With(s), With(s)' = With(s) \ {i},
           \A j \in With(s) : res'[j].units = res[j].units
    PROVE  Sum(s)' = Sum(s) - res[i].units
<1>1. IsFiniteSet(With(s)) /\ With(s) \subseteq Ids BY SumFacts
<1>2. IsFiniteSet(With(s) \ {i}) BY <1>1, FS_RemoveElement
<1>3. \A j \in With(s) \ {i} : UnitsOf'[j] = UnitsOf[j] BY <1>1 DEF UnitsOf
<1>4. SumFunctionOnSet(UnitsOf', With(s) \ {i})
        = SumFunctionOnSet(UnitsOf, With(s) \ {i})
  BY <1>2, <1>3, SumAgree
<1>5. Sum(s)' = SumFunctionOnSet(UnitsOf, With(s) \ {i}) BY <1>4 DEF Sum
<1>6. /\ res[i].units \in Nat
      /\ Sum(s) = res[i].units + SumFunctionOnSet(UnitsOf, With(s) \ {i})
      /\ SumFunctionOnSet(UnitsOf, With(s) \ {i}) \in Nat
  BY OneOfSum
<1> QED BY <1>5, <1>6

-----------------------------------------------------------------------------
(* What the operations of the store do to the row and the reservations *)

(* The tables: the row's counters are the sums of the reservations and within
   the limit. *)
Ledger ==
    /\ res \in [Ids -> Rows]
    /\ ledger \in [reserved : Nat, consumed : Nat]
    /\ Balanced /\ WithinLimit

(* reserve_budget adds one reservation. *)
LEMMA ReserveLedger ==
    ASSUME Ledger, NEW i \in Ids, NEW u \in Units, res[i].status = "NONE",
           u <= Available, ledger' = [ledger EXCEPT !.reserved = @ + u],
           res' = [res EXCEPT ![i] = [status |-> "RESERVED", units |-> u]]
    PROVE  Ledger'
<1>1. u \in Nat /\ Limit \in Nat BY BudgetAssumption
<1>2. [status |-> "RESERVED", units |-> u] \in Rows BY DEF Rows
<1>3. /\ res \in [Ids -> Rows] /\ res' \in [Ids -> Rows]
      /\ res'[i] = [status |-> "RESERVED", units |-> u]
      /\ \A j \in Ids : j # i => res'[j] = res[j]
  BY <1>2 DEF Ledger
<1>4. i \notin With("RESERVED") /\ i \notin With("CONSUMED") BY DEF With
<1>5. With("RESERVED")' = With("RESERVED") \union {i} BY <1>3 DEF With
<1>6. With("CONSUMED")' = With("CONSUMED") BY <1>3, <1>4 DEF With
<1>7. \A j \in With("RESERVED") : res'[j].units = res[j].units
  BY <1>3, <1>4 DEF With
<1>8. \A j \in With("CONSUMED") : res'[j].units = res[j].units
  BY <1>3, <1>4 DEF With
<1>9. Sum("RESERVED")' = Sum("RESERVED") + u
  BY <1>3, <1>4, <1>5, <1>7, SumJoin
<1>10. Sum("CONSUMED")' = Sum("CONSUMED") BY <1>3, <1>6, <1>8, SumSame
<1>11. /\ ledger.reserved \in Nat /\ ledger.consumed \in Nat
       /\ ledger'.reserved = ledger.reserved + u
       /\ ledger'.consumed = ledger.consumed
       /\ ledger' \in [reserved : Nat, consumed : Nat]
  BY <1>1 DEF Ledger
<1>12. Balanced' BY <1>9, <1>10, <1>11 DEF Ledger, Balanced
<1>13. WithinLimit' BY <1>1, <1>11 DEF WithinLimit, Available
<1> QED BY <1>3, <1>11, <1>12, <1>13 DEF Ledger

(* _transition_reservation moves one reservation to its target. *)
LEMMA MoveLedger ==
    ASSUME Ledger, NEW i \in Ids, NEW target \in {"CONSUMED", "RELEASED"},
           Move(i, target)
    PROVE  /\ Ledger'
           /\ \A j \in Ids : j # i => res'[j] = res[j]
           /\ res[i].status = "RESERVED" => res'[i].status = target
           /\ res[i].status # "RESERVED" => res' = res
<1>1. CASE res[i].status # "RESERVED"
  <2>1. ledger' = ledger /\ res' = res BY <1>1 DEF Move
  <2>2. Sum("RESERVED")' = Sum("RESERVED") /\ Sum("CONSUMED")' = Sum("CONSUMED")
    BY <2>1 DEF Sum, UnitsOf, With
  <2> QED BY <1>1, <2>1, <2>2 DEF Ledger, Balanced, WithinLimit
<1>2. CASE res[i].status = "RESERVED"
  <2>1. ledger' = Debited(i, target) /\ res' = [res EXCEPT ![i].status = target]
    BY <1>2 DEF Move
  <2>2. res[i] \in [status : {"RESERVED", "CONSUMED", "RELEASED"},
                    units : Units]
    BY <1>2 DEF Ledger, Rows, Absent
  <2>3. [res[i] EXCEPT !.status = target] \in Rows BY <2>2 DEF Rows
  <2>4. /\ res \in [Ids -> Rows] /\ res' \in [Ids -> Rows]
        /\ res'[i].status = target /\ res'[i].units = res[i].units
        /\ \A j \in Ids : j # i => res'[j] = res[j]
    BY <2>1, <2>2, <2>3 DEF Ledger
  <2>5. i \in With("RESERVED") /\ i \notin With("CONSUMED")
    BY <1>2 DEF With
  <2>6. With("RESERVED")' = With("RESERVED") \ {i} BY <2>4 DEF With
  <2>7. \A s : \A j \in With(s) : res'[j].units = res[j].units
    BY <2>4 DEF With
  <2>8. Sum("RESERVED")' = Sum("RESERVED") - res[i].units
    BY <2>4, <2>5, <2>6, <2>7, SumLeave
  <2>9. /\ res[i].units \in Nat /\ res[i].units <= Sum("RESERVED")
        /\ Sum("RESERVED") = ledger.reserved
    BY <2>4, <2>5, OneOfSum DEF Ledger, Balanced
  <2>10. /\ ledger.reserved \in Nat /\ ledger.consumed \in Nat /\ Limit \in Nat
         /\ ledger.reserved + ledger.consumed <= Limit
    BY BudgetAssumption DEF Ledger, WithinLimit
  <2>11. CASE target = "CONSUMED"
    <3>1. With("CONSUMED")' = With("CONSUMED") \union {i}
      BY <2>4, <2>11 DEF With
    <3>2. Sum("CONSUMED")' = Sum("CONSUMED") + res[i].units
      BY <2>4, <2>5, <2>7, <3>1, SumJoin
    <3>3. ledger' = [reserved |-> ledger.reserved - res[i].units,
                     consumed |-> ledger.consumed + res[i].units]
      BY <2>1, <2>11 DEF Debited
    <3>4. /\ ledger' \in [reserved : Nat, consumed : Nat]
          /\ ledger'.reserved + ledger'.consumed <= Limit
      BY <2>9, <2>10, <3>3
    <3>5. Balanced' BY <2>8, <2>9, <3>2, <3>3 DEF Ledger, Balanced
    <3> QED BY <1>2, <2>4, <3>4, <3>5 DEF Ledger, WithinLimit
  <2>12. CASE target = "RELEASED"
    <3>1. With("CONSUMED")' = With("CONSUMED")
      BY <2>4, <2>5, <2>12 DEF With
    <3>2. Sum("CONSUMED")' = Sum("CONSUMED") BY <2>4, <2>7, <3>1, SumSame
    <3>3. ledger' = [reserved |-> ledger.reserved - res[i].units,
                     consumed |-> ledger.consumed]
      BY <2>1, <2>12 DEF Debited
    <3>4. /\ ledger' \in [reserved : Nat, consumed : Nat]
          /\ ledger'.reserved + ledger'.consumed <= Limit
      BY <2>9, <2>10, <3>3
    <3>5. Balanced' BY <2>8, <2>9, <3>2, <3>3 DEF Ledger, Balanced
    <3> QED BY <1>2, <2>4, <3>4, <3>5 DEF Ledger, WithinLimit
  <2> QED BY <2>11, <2>12
<1> QED BY <1>1, <1>2

(* reconcile_startup leaves no reservation open and no unit reserved. *)
LEMMA ReconcileLedger ==
    ASSUME Ledger, Reconcile
    PROVE  /\ Ledger'
           /\ \A i \in Ids : /\ res'[i].status # "RESERVED"
                             /\ res'[i].status = "CONSUMED" <=>
                                   res[i].status = "CONSUMED"
<1>1. ASSUME NEW i \in Ids
      PROVE  /\ res'[i] \in Rows /\ res'[i].units = res[i].units
             /\ res'[i].status = IF res[i].status = "RESERVED" THEN "RELEASED"
                                 ELSE res[i].status
  <2>1. CASE res[i].status = "RESERVED"
    <3>1. res[i] \in [status : {"RESERVED", "CONSUMED", "RELEASED"},
                      units : Units]
      BY <2>1 DEF Ledger, Rows, Absent
    <3>2. res'[i] = [res[i] EXCEPT !.status = "RELEASED"]
      BY <2>1 DEF Reconcile
    <3> QED BY <2>1, <3>1, <3>2 DEF Rows
  <2>2. CASE res[i].status # "RESERVED"
    <3>1. res'[i] = res[i] BY <2>2 DEF Reconcile
    <3> QED BY <2>2, <3>1 DEF Ledger
  <2> QED BY <2>1, <2>2
<1>2. res \in [Ids -> Rows] /\ res' \in [Ids -> Rows]
  BY <1>1 DEF Ledger, Reconcile
<1>3. With("RESERVED")' = {} BY <1>1 DEF With
<1>4. With("CONSUMED")' = With("CONSUMED") BY <1>1 DEF With
<1>5. \A j \in With("CONSUMED") : res'[j].units = res[j].units
  BY <1>1 DEF With
<1>6. Sum("CONSUMED")' = Sum("CONSUMED") BY <1>2, <1>4, <1>5, SumSame
<1>7. Sum("RESERVED")' = 0 BY <1>3, SumEmpty DEF Sum
<1>8. /\ ledger' = [ledger EXCEPT !.reserved = 0]
      /\ ledger.consumed \in Nat /\ ledger.reserved \in Nat /\ Limit \in Nat
  BY BudgetAssumption DEF Reconcile, Ledger
<1>9. /\ ledger' \in [reserved : Nat, consumed : Nat]
      /\ ledger'.reserved = 0 /\ ledger'.consumed = ledger.consumed
  BY <1>8 DEF Ledger
<1>10. Balanced' BY <1>6, <1>7, <1>9 DEF Ledger, Balanced
<1>11. WithinLimit' BY <1>8, <1>9 DEF Ledger, WithinLimit
<1> QED BY <1>1, <1>2, <1>9, <1>10, <1>11 DEF Ledger

-----------------------------------------------------------------------------
(* The invariant *)

(* The same invariant with the tables and the threads named. *)
LEMMA LedgerInvParts ==
    LedgerInv <=>
        /\ Ledger /\ up \in BOOLEAN /\ cl \in [Clients -> Operations]
        /\ work \subseteq Ids /\ leaked \subseteq Ids
        /\ OwnReservation /\ WorkPaidOnce /\ NoLeakedReservation
BY DEF LedgerInv, Ledger, TypeOK, Rows, Operations

LEMMA LedgerInvPrimed ==
    ASSUME Ledger', up' \in BOOLEAN, cl' \in [Clients -> Operations],
           work' \subseteq Ids, leaked' \subseteq Ids,
           OwnReservation', WorkPaidOnce', NoLeakedReservation'
    PROVE  LedgerInv'
BY DEF LedgerInv, Ledger, TypeOK, Rows, Operations

(* A step that leaves the tables alone and moves one thread on, or lets it end
   when its reservation is settled or on record as leaked. *)
LEMMA ThreadMoves ==
    ASSUME LedgerInv, NEW c \in Clients, NEW x \in Operations,
           cl[c].pc # "idle", cl' = [cl EXCEPT ![c] = x],
           x.pc = "idle" \/ (x.pc \in {"finally", "releasing"}
                              /\ x.id = cl[c].id /\ x.kind = cl[c].kind),
           leaked \subseteq leaked', leaked' \subseteq Ids,
           x.pc = "idle" => \/ res[cl[c].id].status # "RESERVED"
                            \/ cl[c].id \in leaked',
           UNCHANGED <<up, ledger, res, work>>
    PROVE  LedgerInv'
<1>1. /\ Ledger /\ up \in BOOLEAN /\ cl \in [Clients -> Operations]
      /\ work \subseteq Ids /\ OwnReservation /\ WorkPaidOnce
      /\ NoLeakedReservation
  BY LedgerInvParts
<1>2. /\ cl' \in [Clients -> Operations] /\ cl'[c] = x
      /\ \A d \in Clients : d # c => cl'[d] = cl[d]
  BY <1>1
<1>3. Sum("RESERVED")' = Sum("RESERVED") /\ Sum("CONSUMED")' = Sum("CONSUMED")
  BY DEF Sum, UnitsOf, With
<1>4. Ledger' BY <1>1, <1>3 DEF Ledger, Balanced, WithinLimit
<1>5. OwnReservation' BY <1>1, <1>2 DEF OwnReservation
<1>6. WorkPaidOnce' BY <1>1 DEF WorkPaidOnce
<1>7. ASSUME up', NEW i \in Ids, res'[i].status = "RESERVED"
      PROVE  \/ \E d \in Clients : cl'[d].pc # "idle" /\ cl'[d].id = i
             \/ i \in leaked'
  <2>1. CASE i \in leaked BY <2>1
  <2>2. CASE \E d \in Clients : cl[d].pc # "idle" /\ cl[d].id = i
    <3>1. PICK d \in Clients : cl[d].pc # "idle" /\ cl[d].id = i BY <2>2
    <3>2. CASE d # c BY <1>2, <3>1, <3>2
    <3>3. CASE d = c BY <1>2, <1>7, <3>1, <3>3
    <3> QED BY <3>2, <3>3
  <2> QED BY <1>1, <1>7, <2>1, <2>2 DEF NoLeakedReservation
<1>8. NoLeakedReservation' BY <1>7 DEF NoLeakedReservation
<1>9. up' \in BOOLEAN /\ work' \subseteq Ids BY <1>1
<1> QED BY <1>2, <1>4, <1>5, <1>6, <1>8, <1>9, LedgerInvPrimed

(* The type of an operation under way after its place changed. *)
LEMMA Elsewhere ==
    ASSUME NEW o \in Operations, NEW pc \in {"finally", "releasing"}
    PROVE  LET x == [o EXCEPT !.pc = pc] IN
           x \in Operations /\ x.pc = pc /\ x.id = o.id /\ x.kind = o.kind
BY DEF Operations

LEMMA IdleOperation == Idle \in Operations /\ Idle.pc = "idle"
BY DEF Idle, Operations

(* Every step keeps the invariant. *)
LEMMA LedgerStep == LedgerInv /\ [Next]_vars => LedgerInv'
<1> SUFFICES ASSUME LedgerInv, [Next]_vars PROVE LedgerInv'
  OBVIOUS
<1>0. /\ Ledger /\ up \in BOOLEAN /\ cl \in [Clients -> Operations]
      /\ work \subseteq Ids /\ leaked \subseteq Ids
      /\ OwnReservation /\ WorkPaidOnce /\ NoLeakedReservation
  BY LedgerInvParts
<1>1. ASSUME NEW c \in Clients, NEW kind \in Kinds, NEW i \in Ids,
             NEW u \in Units, Reserve(c, kind, i, u)
      PROVE  LedgerInv'
  <2>1. Ledger' BY <1>0, <1>1, ReserveLedger DEF Reserve
  <2>2. [pc |-> "working", kind |-> kind, id |-> i] \in Operations
    BY DEF Operations
  <2>3. /\ cl' \in [Clients -> Operations]
        /\ cl'[c] = [pc |-> "working", kind |-> kind, id |-> i]
        /\ \A d \in Clients : d # c => cl'[d] = cl[d]
    BY <1>0, <1>1, <2>2 DEF Reserve
  <2>4. /\ res'[i].status = "RESERVED"
        /\ \A j \in Ids : j # i => res'[j] = res[j]
    BY <1>0, <1>1 DEF Reserve, Ledger
  <2>5. /\ up /\ up' = up /\ work' = work /\ leaked' = leaked
        /\ res[i].status = "NONE" /\ cl[c].pc = "idle"
    BY <1>1 DEF Reserve
  <2>6. \A d \in Clients : cl[d].pc # "idle" => cl[d].id # i
    BY <1>0, <2>5 DEF OwnReservation
  <2>7. OwnReservation'
    <3>1. ASSUME NEW d \in Clients, cl'[d].pc # "idle"
          PROVE  /\ up' /\ cl'[d].id \in Ids /\ cl'[d].kind \in Kinds
                 /\ res'[cl'[d].id].status \in {"RESERVED", "CONSUMED"}
                 /\ cl'[d].pc = "working" => res'[cl'[d].id].status = "RESERVED"
      <4>1. CASE d = c BY <2>3, <2>4, <2>5, <4>1
      <4>2. CASE d # c
        <5>1. cl'[d] = cl[d] /\ cl[d].id \in Ids /\ cl[d].id # i
          BY <1>0, <2>3, <2>6, <3>1, <4>2 DEF OwnReservation
        <5> QED BY <1>0, <2>4, <2>5, <3>1, <5>1 DEF OwnReservation
      <4> QED BY <4>1, <4>2
    <3>2. ASSUME NEW d \in Clients, NEW e \in Clients, d # e,
                 cl'[d].pc # "idle", cl'[e].pc # "idle"
          PROVE  cl'[d].id # cl'[e].id
      BY <1>0, <2>3, <2>6, <3>2 DEF OwnReservation
    <3> QED BY <3>1, <3>2 DEF OwnReservation
  <2>8. WorkPaidOnce' BY <1>0, <2>4, <2>5 DEF WorkPaidOnce
  <2>9. ASSUME NEW j \in Ids, res'[j].status = "RESERVED"
        PROVE  \/ \E d \in Clients : cl'[d].pc # "idle" /\ cl'[d].id = j
               \/ j \in leaked'
    <3>1. CASE j = i BY <2>3, <3>1
    <3>2. CASE j # i
      <4>1. res[j].status = "RESERVED" BY <2>4, <2>9, <3>2
      <4>2. CASE j \in leaked BY <2>5, <4>2
      <4>3. CASE \E d \in Clients : cl[d].pc # "idle" /\ cl[d].id = j
        <5>1. PICK d \in Clients : cl[d].pc # "idle" /\ cl[d].id = j BY <4>3
        <5>2. cl'[d] = cl[d] BY <2>3, <2>5, <5>1
        <5> QED BY <5>1, <5>2
      <4> QED BY <1>0, <2>5, <4>1, <4>2, <4>3 DEF NoLeakedReservation
    <3> QED BY <3>1, <3>2
  <2>10. NoLeakedReservation' BY <2>9 DEF NoLeakedReservation
  <2> QED BY <1>0, <2>1, <2>3, <2>5, <2>7, <2>8, <2>10, LedgerInvPrimed
<1>2. ASSUME NEW c \in Clients, Commit(c) PROVE LedgerInv'
  <2> DEFINE i == cl[c].id
  <2>1. /\ up /\ up' = up /\ leaked' = leaked /\ work' = work \union {i}
        /\ cl[c].pc = "working" /\ Move(i, "CONSUMED")
    BY <1>2 DEF Commit
  <2>2. i \in Ids /\ res[i].status = "RESERVED" /\ cl[c].kind \in Kinds
    BY <1>0, <2>1 DEF OwnReservation
  <2>3. /\ Ledger' /\ res'[i].status = "CONSUMED"
        /\ \A j \in Ids : j # i => res'[j] = res[j]
    BY <1>0, <2>1, <2>2, MoveLedger
  <2>4. PICK x \in Operations :
          /\ cl' = [cl EXCEPT ![c] = x]
          /\ \/ x.pc = "idle"
             \/ x.pc \in {"finally", "releasing"} /\ x.id = i /\ x.kind = cl[c].kind
    <3>1. cl[c] \in Operations BY <1>0
    <3>2. CASE cl' = [cl EXCEPT ![c].pc = "finally"]
      <4> DEFINE x == [cl[c] EXCEPT !.pc = "finally"]
      <4>1. x \in Operations /\ x.pc = "finally" /\ x.id = i /\ x.kind = cl[c].kind
        BY <3>1, Elsewhere
      <4>2. cl' = [cl EXCEPT ![c] = x] BY <3>2
      <4> QED BY <4>1, <4>2
    <3>3. CASE cl' = [cl EXCEPT ![c].pc = "releasing"]
      <4> DEFINE x == [cl[c] EXCEPT !.pc = "releasing"]
      <4>1. x \in Operations /\ x.pc = "releasing" /\ x.id = i /\ x.kind = cl[c].kind
        BY <3>1, Elsewhere
      <4>2. cl' = [cl EXCEPT ![c] = x] BY <3>3
      <4> QED BY <4>1, <4>2
    <3>4. CASE cl' = [cl EXCEPT ![c] = Idle]
      BY <3>4, IdleOperation
    <3> QED BY <1>2, <3>2, <3>3, <3>4 DEF Commit
  <2>5. /\ cl' \in [Clients -> Operations] /\ cl'[c] = x
        /\ \A d \in Clients : d # c => cl'[d] = cl[d]
    BY <1>0, <2>4
  <2>6. \A d \in Clients : d # c /\ cl[d].pc # "idle" =>
            cl[d].id \in Ids /\ cl[d].id # i
    BY <1>0, <2>1 DEF OwnReservation
  <2> HIDE DEF i
  <2>7. OwnReservation'
    <3>1. ASSUME NEW d \in Clients, cl'[d].pc # "idle"
          PROVE  /\ up' /\ cl'[d].id \in Ids /\ cl'[d].kind \in Kinds
                 /\ res'[cl'[d].id].status \in {"RESERVED", "CONSUMED"}
                 /\ cl'[d].pc = "working" => res'[cl'[d].id].status = "RESERVED"
      <4>1. CASE d = c BY <2>1, <2>2, <2>3, <2>4, <2>5, <3>1, <4>1
      <4>2. CASE d # c
        <5>1. cl'[d] = cl[d] /\ cl[d].id \in Ids /\ cl[d].id # i
          BY <2>5, <2>6, <3>1, <4>2
        <5> QED BY <1>0, <2>1, <2>3, <3>1, <5>1 DEF OwnReservation
      <4> QED BY <4>1, <4>2
    <3>2. ASSUME NEW d \in Clients, NEW e \in Clients, d # e,
                 cl'[d].pc # "idle", cl'[e].pc # "idle"
          PROVE  cl'[d].id # cl'[e].id
      <4>1. CASE d # c /\ e # c BY <1>0, <2>5, <3>2, <4>1 DEF OwnReservation
      <4>2. CASE d = c BY <2>4, <2>5, <2>6, <3>2, <4>2
      <4>3. CASE e = c BY <2>4, <2>5, <2>6, <3>2, <4>3
      <4> QED BY <4>1, <4>2, <4>3
    <3> QED BY <3>1, <3>2 DEF OwnReservation
  <2>8. WorkPaidOnce' BY <1>0, <2>1, <2>2, <2>3 DEF WorkPaidOnce
  <2>9. ASSUME NEW j \in Ids, res'[j].status = "RESERVED"
        PROVE  \/ \E d \in Clients : cl'[d].pc # "idle" /\ cl'[d].id = j
               \/ j \in leaked'
    <3>1. j # i /\ res[j].status = "RESERVED" BY <2>3, <2>9
    <3>2. CASE j \in leaked BY <2>1, <3>2
    <3>3. CASE \E d \in Clients : cl[d].pc # "idle" /\ cl[d].id = j
      <4>1. PICK d \in Clients : cl[d].pc # "idle" /\ cl[d].id = j BY <3>3
      <4>2. d # c BY <3>1, <4>1 DEF i
      <4> QED BY <2>5, <4>1, <4>2
    <3> QED BY <1>0, <2>1, <3>1, <3>2, <3>3 DEF NoLeakedReservation
  <2>10. NoLeakedReservation' BY <2>9 DEF NoLeakedReservation
  <2>11. work' \subseteq Ids BY <1>0, <2>1, <2>2
  <2> QED BY <1>0, <2>1, <2>3, <2>5, <2>7, <2>8, <2>10, <2>11, LedgerInvPrimed
<1>3. ASSUME NEW c \in Clients, Raise(c) PROVE LedgerInv'
  <2> DEFINE pc == IF cl[c].kind = "training" THEN "finally" ELSE "releasing"
             x == [cl[c] EXCEPT !.pc = pc]
  <2>1. pc \in {"finally", "releasing"} /\ cl[c] \in Operations BY <1>0
  <2>2. x \in Operations /\ x.pc = pc /\ x.id = cl[c].id /\ x.kind = cl[c].kind
    BY <2>1, Elsewhere
  <2>3. cl' = [cl EXCEPT ![c] = x] /\ UNCHANGED <<up, ledger, res, work, leaked>>
        /\ cl[c].pc # "idle"
    BY <1>3 DEF Raise
  <2> HIDE DEF x, pc
  <2> QED BY <1>0, <2>1, <2>2, <2>3, ThreadMoves
<1>4. ASSUME NEW c \in Clients, CheckReserved(c) PROVE LedgerInv'
  <2>1. cl[c] \in Operations /\ cl[c].pc # "idle" BY <1>0, <1>4 DEF CheckReserved
  <2>2. CASE ledger.reserved > 0
    <3> DEFINE x == [cl[c] EXCEPT !.pc = "releasing"]
    <3>1. /\ x \in Operations /\ x.pc = "releasing" /\ x.id = cl[c].id
          /\ x.kind = cl[c].kind
      BY <2>1, Elsewhere
    <3>2. cl' = [cl EXCEPT ![c] = x] /\ UNCHANGED <<up, ledger, res, work, leaked>>
      BY <1>4, <2>2 DEF CheckReserved
    <3> HIDE DEF x
    <3> QED BY <1>0, <2>1, <3>1, <3>2, ThreadMoves
  <2>3. CASE ~(ledger.reserved > 0)
    <3>1. cl' = [cl EXCEPT ![c] = Idle]
          /\ UNCHANGED <<up, ledger, res, work, leaked>>
      BY <1>4, <2>3 DEF CheckReserved
    <3>2. cl[c].id \in Ids BY <1>0, <2>1 DEF OwnReservation
    <3>3. res[cl[c].id].status # "RESERVED"
      <4> SUFFICES ASSUME res[cl[c].id].status = "RESERVED" PROVE FALSE
        OBVIOUS
      <4>1. cl[c].id \in With("RESERVED") BY <3>2 DEF With
      <4>2. /\ res[cl[c].id].units \in Nat
            /\ res[cl[c].id].units <= Sum("RESERVED")
        BY <1>0, <4>1, OneOfSum DEF Ledger
      <4>3. res[cl[c].id].units > 0
        BY <1>0, <3>2, RowUnits DEF Ledger
      <4>4. Sum("RESERVED") = ledger.reserved /\ ledger.reserved \in Nat
        BY <1>0 DEF Ledger, Balanced
      <4> QED BY <2>3, <4>2, <4>3, <4>4
    <3> QED BY <1>0, <2>1, <3>1, <3>3, IdleOperation, ThreadMoves
  <2> QED BY <2>2, <2>3
<1>5. ASSUME NEW c \in Clients, Release(c) PROVE LedgerInv'
  <2> DEFINE i == cl[c].id
  <2>1. /\ up /\ up' = up /\ leaked' = leaked /\ work' = work
        /\ cl[c].pc = "releasing" /\ Move(i, "RELEASED")
        /\ cl' = [cl EXCEPT ![c] = Idle]
    BY <1>5 DEF Release
  <2>2. i \in Ids BY <1>0, <2>1 DEF OwnReservation
  <2>3. /\ Ledger' /\ res'[i].status # "RESERVED"
        /\ res'[i].status = "CONSUMED" <=> res[i].status = "CONSUMED"
        /\ \A j \in Ids : j # i => res'[j] = res[j]
    BY <1>0, <2>1, <2>2, MoveLedger
  <2>4. /\ cl' \in [Clients -> Operations] /\ cl'[c].pc = "idle"
        /\ \A d \in Clients : d # c => cl'[d] = cl[d]
    BY <1>0, <2>1, IdleOperation
  <2>5. \A d \in Clients : d # c /\ cl[d].pc # "idle" =>
            cl[d].id \in Ids /\ cl[d].id # i
    BY <1>0, <2>1 DEF OwnReservation
  <2>6. OwnReservation'
    <3>1. ASSUME NEW d \in Clients, cl'[d].pc # "idle"
          PROVE  d # c /\ cl'[d] = cl[d] /\ res'[cl[d].id] = res[cl[d].id]
      BY <2>3, <2>4, <2>5, <3>1
    <3> QED BY <1>0, <2>1, <3>1 DEF OwnReservation
  <2>7. WorkPaidOnce' BY <1>0, <2>1, <2>3 DEF WorkPaidOnce
  <2>8. ASSUME NEW j \in Ids, res'[j].status = "RESERVED"
        PROVE  \/ \E d \in Clients : cl'[d].pc # "idle" /\ cl'[d].id = j
               \/ j \in leaked'
    <3>1. j # i /\ res[j].status = "RESERVED" BY <2>3, <2>8
    <3>2. CASE j \in leaked BY <2>1, <3>2
    <3>3. CASE \E d \in Clients : cl[d].pc # "idle" /\ cl[d].id = j
      <4>1. PICK d \in Clients : cl[d].pc # "idle" /\ cl[d].id = j BY <3>3
      <4>2. d # c BY <3>1, <4>1
      <4> QED BY <2>4, <4>1, <4>2
    <3> QED BY <1>0, <2>1, <3>1, <3>2, <3>3 DEF NoLeakedReservation
  <2>9. NoLeakedReservation' BY <2>8 DEF NoLeakedReservation
  <2> QED BY <1>0, <2>1, <2>3, <2>4, <2>6, <2>7, <2>9, LedgerInvPrimed
<1>6. ASSUME NEW c \in Clients, ReleaseFault(c) PROVE LedgerInv'
  <2>1. /\ cl[c].pc # "idle" /\ cl' = [cl EXCEPT ![c] = Idle]
        /\ leaked' = leaked \union {cl[c].id}
        /\ UNCHANGED <<up, ledger, res, work>>
    BY <1>6 DEF ReleaseFault
  <2>2. cl[c].id \in Ids BY <1>0, <2>1 DEF OwnReservation
  <2>3. leaked \subseteq leaked' /\ leaked' \subseteq Ids /\ cl[c].id \in leaked'
    BY <1>0, <2>1, <2>2
  <2> QED BY <2>1, <2>3, IdleOperation, ThreadMoves
<1>7. CASE Crash
  <2>1. /\ up' = FALSE /\ cl' = [c \in Clients |-> Idle]
        /\ UNCHANGED <<ledger, res, work, leaked>>
    BY <1>7 DEF Crash
  <2>2. Sum("RESERVED")' = Sum("RESERVED") /\ Sum("CONSUMED")' = Sum("CONSUMED")
    BY <2>1 DEF Sum, UnitsOf, With
  <2>3. Ledger' BY <1>0, <2>1, <2>2 DEF Ledger, Balanced, WithinLimit
  <2>4. cl' \in [Clients -> Operations] /\ \A c \in Clients : cl'[c].pc = "idle"
    BY <2>1, IdleOperation
  <2>5. OwnReservation' BY <2>4 DEF OwnReservation
  <2>6. WorkPaidOnce' BY <1>0, <2>1 DEF WorkPaidOnce
  <2>7. NoLeakedReservation' BY <2>1 DEF NoLeakedReservation
  <2> QED BY <1>0, <2>1, <2>3, <2>4, <2>5, <2>6, <2>7, LedgerInvPrimed
<1>8. CASE Restart
  <2>1. ~up /\ up' = TRUE /\ Reconcile /\ UNCHANGED <<cl, work, leaked>>
    BY <1>8 DEF Restart
  <2>2. /\ Ledger'
        /\ \A i \in Ids : /\ res'[i].status # "RESERVED"
                          /\ res'[i].status = "CONSUMED" <=>
                                res[i].status = "CONSUMED"
    BY <1>0, <2>1, ReconcileLedger
  <2>3. \A c \in Clients : cl'[c].pc = "idle"
    BY <1>0, <2>1 DEF OwnReservation
  <2>4. OwnReservation' BY <2>3 DEF OwnReservation
  <2>5. WorkPaidOnce' BY <1>0, <2>1, <2>2 DEF WorkPaidOnce
  <2>6. NoLeakedReservation'
    BY <2>2 DEF NoLeakedReservation
  <2> QED BY <1>0, <2>1, <2>2, <2>4, <2>5, <2>6, LedgerInvPrimed
<1>9. CASE UNCHANGED vars
  <2>1. Sum("RESERVED")' = Sum("RESERVED") /\ Sum("CONSUMED")' = Sum("CONSUMED")
    BY <1>9 DEF Sum, UnitsOf, With, vars
  <2>2. Ledger' BY <1>0, <1>9, <2>1 DEF Ledger, Balanced, WithinLimit, vars
  <2> QED BY <1>0, <1>9, <2>2, LedgerInvPrimed
          DEF vars, OwnReservation, WorkPaidOnce, NoLeakedReservation
<1>10. ASSUME NEW c \in Clients, NEW u \in Units, ReserveRefused(c, u)
       PROVE  UNCHANGED vars
  BY <1>10 DEF ReserveRefused
<1> QED
  BY <1>1, <1>2, <1>3, <1>4, <1>5, <1>6, <1>7, <1>8, <1>9, <1>10
  DEF Next, Step

(* The empty tables of a new store. *)
LEMMA LedgerInit == ASSUME Init PROVE LedgerInv
<1>1. Absent \in Rows /\ Absent.status = "NONE" BY DEF Rows, Absent
<1>2. res \in [Ids -> Rows] /\ \A i \in Ids : res[i].status = "NONE"
  BY <1>1 DEF Init
<1>3. With("RESERVED") = {} /\ With("CONSUMED") = {} BY <1>2 DEF With
<1>4. Sum("RESERVED") = 0 /\ Sum("CONSUMED") = 0 BY <1>3, SumEmpty DEF Sum
<1>5. Ledger
  BY <1>2, <1>4, BudgetAssumption DEF Init, Ledger, Balanced, WithinLimit
<1>6. cl \in [Clients -> Operations] /\ \A c \in Clients : cl[c].pc = "idle"
  BY IdleOperation DEF Init
<1>7. OwnReservation BY <1>6 DEF OwnReservation
<1>8. WorkPaidOnce BY <1>2 DEF Init, WorkPaidOnce
<1>9. NoLeakedReservation BY <1>2 DEF NoLeakedReservation
<1> QED BY <1>5, <1>6, <1>7, <1>8, <1>9, LedgerInvParts DEF Init

(* The work done and the work under way are bounded by the two counters of the
   row, which reserve_budget keeps within the limit. *)
LEMMA LedgerBoundsSpend == ASSUME LedgerInv PROVE SpendWithinLimit
<1>0. Ledger /\ work \subseteq Ids /\ OwnReservation /\ WorkPaidOnce
  BY LedgerInvParts
<1> DEFINE live == {cl[c].id : c \in {d \in Clients : cl[d].pc = "working"}}
           R == With("RESERVED")
           C == With("CONSUMED")
<1>1. live \subseteq R BY <1>0 DEF OwnReservation, With
<1>2. work = C BY <1>0 DEF WorkPaidOnce, With
<1>3. /\ IsFiniteSet(R) /\ IsFiniteSet(C)
      /\ \A i \in C \union R : UnitsOf[i] \in Nat
      /\ Sum("RESERVED") \in Nat /\ Sum("CONSUMED") \in Nat
  BY <1>0, SumFacts DEF Ledger
<1>4. C \intersect R = {} BY DEF With
<1>5. IsFiniteSet(C \union R) BY <1>3, FS_Union
<1>6. work \union live \in SUBSET (C \union R) BY <1>1, <1>2
<1> HIDE DEF live, R, C
<1>7. SumFunctionOnSet(UnitsOf, work \union live)
        <= SumFunctionOnSet(UnitsOf, C \union R)
  BY <1>3, <1>5, <1>6, SumMonotone
<1>8. SumFunctionOnSet(UnitsOf, C \union R) = Sum("CONSUMED") + Sum("RESERVED")
  <2>1. SumFunctionOnSet(UnitsOf, C \union R)
          = SumFunctionOnSet(UnitsOf, C) + SumFunctionOnSet(UnitsOf, R)
    BY <1>3, <1>4, SumUnion
  <2> QED BY <2>1 DEF Sum, R, C
<1>9. SumFunctionOnSet(UnitsOf, work \union live) \in Nat
  <2>1. IsFiniteSet(work \union live) BY <1>5, <1>6, FS_Subset
  <2> QED BY <1>3, <1>6, <2>1, SumNat
<1>10. Sum("CONSUMED") + Sum("RESERVED") <= Limit
  BY <1>0, <1>3, BudgetAssumption DEF Ledger, Balanced, WithinLimit
<1>11. SumFunctionOnSet(UnitsOf, work \union live) <= Limit
  BY <1>3, <1>7, <1>8, <1>9, <1>10, BudgetAssumption
<1> QED BY <1>11 DEF SpendWithinLimit, live

-----------------------------------------------------------------------------
(* The theorems *)

(* The inductive invariant: between any two transactions of any threads, and
   across crashes, the budgets row equals the sums of the reservations and
   stays within the limit, and every operation owns its reservation. *)
THEOREM LedgerAlways == Spec => []LedgerInv
<1>1. Init => LedgerInv BY LedgerInit
<1>2. LedgerInv /\ [Next]_vars => LedgerInv' BY LedgerStep
<1> QED BY <1>1, <1>2, PTL DEF Spec

(* The shape of the rows and of the operations, for every instance. *)
THEOREM BudgetTypeCorrect == Spec => []TypeOK
<1>1. LedgerInv => TypeOK BY DEF LedgerInv
<1> QED BY <1>1, LedgerAlways, PTL

(* The ledger check of reconcile_startup never fails: whatever the crash
   interrupted, the service can start again. *)
THEOREM LedgerBalanced == Spec => []Balanced
<1>1. LedgerInv => Balanced BY DEF LedgerInv
<1> QED BY <1>1, LedgerAlways, PTL

(* No interleaving of reserve_budget, consume_budget, release_budget, crashes
   and reconciliation spends more than the limit. *)
THEOREM NeverOverspent == Spec => []SpendWithinLimit
<1>1. LedgerInv => SpendWithinLimit BY LedgerBoundsSpend
<1> QED BY <1>1, LedgerAlways, PTL

(* An operation that took effect stays consumed, and only such an operation
   is: neither release_budget nor reconcile_startup pays anything back. *)
THEOREM EveryEffectPaid == Spec => []WorkPaidOnce
<1>1. LedgerInv => WorkPaidOnce BY DEF LedgerInv
<1> QED BY <1>1, LedgerAlways, PTL

(* A reservation of a running service is held by an operation that will settle
   it, or the store failed to release it. *)
THEOREM ReservationsOwned == Spec => []NoLeakedReservation
<1>1. LedgerInv => NoLeakedReservation BY DEF LedgerInv
<1> QED BY <1>1, LedgerAlways, PTL
=============================================================================
