------------------------------ MODULE SearchProofs ------------------------------
(***************************************************************************)
(* Proofs about Search for every set of scenarios over the moves of        *)
(* Fixture, every budget and any number of searches and shadow rounds: the *)
(* tree's visits are conserved, what is handed out is safe and the best    *)
(* that was seen, the learner accepts it, and generations follow each      *)
(* other without a gap.                                                    *)
(***************************************************************************)
EXTENDS Search, FiniteSetTheorems, SequenceTheorems, WellFoundedInduction,
        TLAPS

Ids == DOMAIN Move

-----------------------------------------------------------------------------
(* Prefixes *)

(* The prefix of length n *)
Cut(p, n) == SubSeq(p, 1, n)

(* What a prefix is *)
LEMMA CutFacts ==
    ASSUME NEW S, NEW p \in Seq(S), NEW n \in 0..Len(p)
    PROVE  /\ Cut(p, n) \in Seq(S)
           /\ Len(Cut(p, n)) = n
           /\ \A k \in 1..n : Cut(p, n)[k] = p[k]
<1>1. Len(p) \in Nat /\ n \in Int /\ n <= Len(p) BY LenProperties
<1>2. \A k \in 1..n : p[k] \in S BY <1>1, ElementOfSeq
<1>3. /\ SubSeq(p, 1, n) \in Seq(S)
      /\ Len(SubSeq(p, 1, n)) = IF 1 <= n THEN n - 1 + 1 ELSE 0
      /\ \A k \in 1..(n - 1 + 1) : SubSeq(p, 1, n)[k] = p[1 + k - 1]
  BY <1>1, <1>2, SubSeqProperties
<1> QED BY <1>1, <1>3 DEF Cut

(* Two sequences with the same elements up to n have the same prefix. *)
LEMMA CutSame ==
    ASSUME NEW S, NEW p \in Seq(S), NEW q \in Seq(S),
           NEW n \in 0..Len(p), n <= Len(q),
           \A k \in 1..n : p[k] = q[k]
    PROVE  Cut(p, n) = Cut(q, n)
<1>1. n \in 0..Len(q) BY LenProperties
<1>2. /\ Cut(p, n) \in Seq(S) /\ Cut(q, n) \in Seq(S)
      /\ Len(Cut(p, n)) = n /\ Len(Cut(q, n)) = n
      /\ \A k \in 1..n : Cut(p, n)[k] = p[k] /\ Cut(q, n)[k] = q[k]
  BY <1>1, CutFacts
<1> QED BY <1>2, SeqEqual

(* The longest prefix of a path is the path. *)
LEMMA CutWhole ==
    ASSUME NEW S, NEW p \in Seq(S)
    PROVE  Cut(p, Len(p)) = p
BY SubSeqFull DEF Cut

(* A prefix of a prefix is a prefix. *)
LEMMA CutCut ==
    ASSUME NEW S, NEW p \in Seq(S), NEW n \in 0..Len(p), NEW m \in 0..n
    PROVE  Cut(Cut(p, n), m) = Cut(p, m)
<1>1. /\ Cut(p, n) \in Seq(S) /\ Len(Cut(p, n)) = n /\ Len(p) \in Nat
      /\ \A k \in 1..n : Cut(p, n)[k] = p[k]
  BY CutFacts, LenProperties
<1>2. m \in 0..Len(Cut(p, n)) /\ m <= Len(p) /\ m \in 0..Len(p) BY <1>1
<1>3. \A k \in 1..m : Cut(p, n)[k] = p[k] BY <1>1
<1> QED BY <1>1, <1>2, <1>3, CutSame

(* A path that is extended keeps its prefixes. *)
LEMMA CutAppend ==
    ASSUME NEW S, NEW p \in Seq(S), NEW m \in S
    PROVE  /\ Append(p, m) \in Seq(S) /\ Len(Append(p, m)) = Len(p) + 1
           /\ Append(p, m)[Len(p) + 1] = m
           /\ \A k \in 1..Len(p) : Append(p, m)[k] = p[k]
           /\ \A n \in 0..Len(p) : Cut(Append(p, m), n) = Cut(p, n)
           /\ Cut(Append(p, m), Len(p)) = p
<1>1. /\ Append(p, m) \in Seq(S) /\ Len(Append(p, m)) = Len(p) + 1
      /\ \A i \in 1..Len(p) : Append(p, m)[i] = p[i]
      /\ Append(p, m)[Len(p) + 1] = m /\ Len(p) \in Nat
  BY AppendProperties, LenProperties
<1>2. ASSUME NEW n \in 0..Len(p) PROVE Cut(Append(p, m), n) = Cut(p, n)
  <2>1. n \in 0..Len(Append(p, m)) /\ n <= Len(p) BY <1>1
  <2>2. \A k \in 1..n : Append(p, m)[k] = p[k] BY <1>1
  <2> QED BY <1>1, <2>1, <2>2, CutSame
<1>3. Cut(Append(p, m), Len(p)) = p BY <1>1, <1>2, CutWhole
<1> QED BY <1>1, <1>2, <1>3

(* IsPrefix and Prefixes of the community modules in terms of Cut *)
LEMMA PrefixCut ==
    ASSUME NEW S, NEW p \in Seq(S), NEW q \in Seq(S)
    PROVE  /\ IsPrefix(p, q) <=> Len(p) <= Len(q) /\ p = Cut(q, Len(p))
           /\ p \in Prefixes(q) <=> Len(p) <= Len(q) /\ p = Cut(q, Len(p))
<1>1. Len(p) \in Nat /\ Len(q) \in Nat BY LenProperties
<1>2. SubSeq(p, 1, Len(p)) = p BY SubSeqFull
<1>3. IsPrefix(p, q) <=> Len(p) <= Len(q) /\ p = Cut(q, Len(p))
  BY <1>2 DEF IsPrefix, Cut
<1>4. ASSUME p \in Prefixes(q)
      PROVE  Len(p) <= Len(q) /\ p = Cut(q, Len(p))
  <2>1. PICK n \in 0..Len(q) : p = Cut(q, n) BY <1>4 DEF Prefixes, Cut
  <2>2. Len(p) = n BY <2>1, CutFacts
  <2> QED BY <1>1, <2>1, <2>2
<1>5. ASSUME Len(p) <= Len(q), p = Cut(q, Len(p))
      PROVE  p \in Prefixes(q)
  <2>1. Len(p) \in 0..Len(q) BY <1>1, <1>5
  <2> QED BY <1>5, <2>1 DEF Prefixes, Cut
<1> QED BY <1>3, <1>4, <1>5

(* A path has finitely many prefixes. *)
LEMMA PrefixesFacts ==
    ASSUME NEW S, NEW q \in Seq(S)
    PROVE  /\ Prefixes(q) \subseteq Seq(S)
           /\ Prefixes(q) = {Cut(q, n) : n \in 0..Len(q)}
           /\ \A n \in 0..Len(q) : Cut(q, n) \in Prefixes(q)
           /\ IsFiniteSet(Prefixes(q))
<1>1. Prefixes(q) = {Cut(q, n) : n \in 0..Len(q)} BY DEF Prefixes, Cut
<1>2. Prefixes(q) \subseteq Seq(S) BY <1>1, CutFacts
<1>3. IsFiniteSet(Prefixes(q))
  <2> DEFINE N == 0..Len(q)
             f == [n \in N |-> Cut(q, n)]
  <2>1. IsFiniteSet(N) BY LenProperties, FS_Interval
  <2>2. f \in Surjection(N, Prefixes(q)) BY <1>1 DEF Surjection
  <2> HIDE DEF N, f
  <2> QED BY <2>1, <2>2, FS_Surjection
<1> QED BY <1>1, <1>2, <1>3

-----------------------------------------------------------------------------
(* Legal moves *)

(* A legal move is a move of the phase, by an agent that is not benched. *)
LEMMA LegalFacts ==
    ASSUME NEW sc, ScenarioOK(sc), NEW p, Len(p) \in Nat, NEW b,
           NEW m \in Legal(sc, p, b)
    PROVE  /\ m \in Ids /\ Len(p) + 1 \in 1..4
           /\ Move[m].actor \notin b
           /\ Move[m].kind \in PhaseKinds[Len(p) + 1]
<1> DEFINE k == Len(p) + 1
<1>1. sc \in Seq(Seq(Ids)) /\ Len(sc) = 4 BY DEF ScenarioOK, PhaseKinds, Ids
<1>2. ~(Terminal(p) \/ Len(p) >= Len(sc)) BY DEF Legal
<1>3. m \in Range(sc[k]) /\ Move[m].actor \notin b BY <1>2 DEF Legal
<1>4. k \in 1..4 BY <1>1, <1>2
<1>5. k \in DOMAIN sc /\ sc[k] \in Seq(Ids)
  BY <1>1, <1>4, LenProperties, ElementOfSeq
<1>6. \A id \in Range(sc[k]) : Move[id].kind \in PhaseKinds[k]
  BY <1>5 DEF ScenarioOK
<1>7. Range(sc[k]) \subseteq Ids BY <1>5, RangeOfSeq
<1> QED BY <1>3, <1>4, <1>6, <1>7

(* A legal move extends a path that replays. *)
LEMMA ReplaysAppend ==
    ASSUME NEW sc, ScenarioOK(sc), NEW p \in Seq(Ids), NEW b,
           NEW m \in Legal(sc, p, b), Replays(sc, p, b)
    PROVE  Replays(sc, Append(p, m), b)
<1> DEFINE q == Append(p, m)
<1>1. m \in Ids /\ Len(p) \in Nat BY LegalFacts, LenProperties
<1>2. /\ q \in Seq(Ids) /\ Len(q) = Len(p) + 1 /\ q[Len(p) + 1] = m
      /\ \A k \in 1..Len(p) : q[k] = p[k]
      /\ \A n \in 0..Len(p) : Cut(q, n) = Cut(p, n)
      /\ Cut(q, Len(p)) = p
  BY <1>1, CutAppend
<1>3. DOMAIN q = 1..(Len(p) + 1) /\ DOMAIN p = 1..Len(p)
  BY <1>2, LenProperties
<1> HIDE DEF q
<1>4. ASSUME NEW k \in DOMAIN q PROVE q[k] \in Legal(sc, Cut(q, k - 1), b)
  <2>1. CASE k = Len(p) + 1
    <3>1. k - 1 = Len(p) BY <1>1, <2>1
    <3> QED BY <1>2, <2>1, <3>1
  <2>2. CASE k \in 1..Len(p)
    <3>1. q[k] = p[k] /\ Cut(q, k - 1) = Cut(p, k - 1) BY <1>1, <1>2, <2>2
    <3>2. p[k] \in Legal(sc, Cut(p, k - 1), b)
      BY <1>3, <2>2 DEF Replays, Cut
    <3> QED BY <3>1, <3>2
  <2> QED BY <1>1, <1>3, <2>1, <2>2
<1> QED BY <1>4 DEF Replays, Cut, q

(* A path that replays is one that the table of moves was computed for. *)
LEMMA ReplaysPaths ==
    ASSUME NEW sc, ScenarioOK(sc), NEW p \in Seq(Ids), NEW b,
           Replays(sc, p, b)
    PROVE  /\ p \in Paths
           /\ \A k \in DOMAIN p : Move[p[k]].actor \notin b
           /\ Len(p) \in 0..4
<1>1. Len(p) \in Nat /\ p \in [1..Len(p) -> Ids] /\ DOMAIN p = 1..Len(p)
  BY LenProperties
<1>2. ASSUME NEW k \in DOMAIN p
      PROVE  /\ k \in 1..4 /\ Move[p[k]].kind \in PhaseKinds[k]
             /\ Move[p[k]].actor \notin b
  <2>1. p[k] \in Legal(sc, Cut(p, k - 1), b) BY DEF Replays, Cut
  <2>2. k - 1 \in 0..Len(p) BY <1>1
  <2>3. Len(Cut(p, k - 1)) = k - 1 BY <2>2, CutFacts
  <2>4. (k - 1) + 1 = k /\ k - 1 \in Nat BY <1>1
  <2> QED BY <2>1, <2>3, <2>4, LegalFacts
<1>3. Len(p) \in 0..4
  <2>1. CASE Len(p) = 0 BY <2>1
  <2>2. CASE Len(p) # 0 BY <1>1, <1>2, <2>2
  <2> QED BY <2>1, <2>2
<1>4. Len(PhaseKinds) = 4 BY DEF PhaseKinds
<1>5. p \in UNION {[1..n -> DOMAIN Move] : n \in 0..Len(PhaseKinds)}
  BY <1>1, <1>3, <1>4 DEF Ids
<1> QED BY <1>2, <1>3, <1>5 DEF Paths

-----------------------------------------------------------------------------
(* The tree: the operators of Search for a tree t, whatever the state. *)

ChildrenIn(t, p) == {q \in DOMAIN t : Len(q) = Len(p) + 1 /\ IsPrefix(p, q)}

VisitsIn(t, p) == UNION {{q} \X (1..t[q]) : q \in ChildrenIn(t, p)}

UntriedIn(t, sc, b, p) ==
    {m \in Legal(sc, p, b) : Append(p, m) \notin DOMAIN t}

BackedUpIn(t, l) ==
    [q \in DOMAIN t \union {l} |->
        (IF q \in DOMAIN t THEN t[q] ELSE 0)
        + (IF q \in Prefixes(l) THEN 1 ELSE 0)]

(* The nodes are finitely many legal paths with all their prefixes. *)
LegalTree(t, sc, b) ==
    /\ IsFiniteSet(DOMAIN t) /\ <<>> \in DOMAIN t
    /\ \A p \in DOMAIN t :
         /\ p \in Seq(Ids) /\ t[p] \in Nat
         /\ Prefixes(p) \subseteq DOMAIN t
         /\ Replays(sc, p, b)

(* The counts of node p are in order. *)
Counted(t, sc, b, p) ==
    /\ p # <<>> => t[p] >= 1
    /\ Legal(sc, p, b) # {} =>
         t[p] = Cardinality(VisitsIn(t, p)) + (IF p = <<>> THEN 0 ELSE 1)
    /\ (\E q \in ChildrenIn(t, p) : ChildrenIn(t, q) # {}) =>
         UntriedIn(t, sc, b, p) = {}

(* The two ends of a simulation: a new child, or a node without a move. *)
LeafIn(t, sc, b, l) ==
    \/ \E p \in DOMAIN t :
         /\ \E m \in UntriedIn(t, sc, b, p) : l = Append(p, m)
         /\ \A q \in Prefixes(p) \ {p} : UntriedIn(t, sc, b, q) = {}
    \/ l \in DOMAIN t /\ Legal(sc, l, b) = {}

(* The children of a node are one move longer. *)
LEMMA ChildFacts ==
    ASSUME NEW t, \A q \in DOMAIN t : q \in Seq(Ids), NEW p \in Seq(Ids)
    PROVE  \A q : q \in ChildrenIn(t, p) <=>
              q \in DOMAIN t /\ Len(q) = Len(p) + 1 /\ p = Cut(q, Len(p))
<1> SUFFICES ASSUME NEW q, q \in DOMAIN t
             PROVE  q \in ChildrenIn(t, p) <=>
                      Len(q) = Len(p) + 1 /\ p = Cut(q, Len(p))
  BY DEF ChildrenIn
<1>1. Len(p) \in Nat BY LenProperties
<1>2. IsPrefix(p, q) <=> Len(p) <= Len(q) /\ p = Cut(q, Len(p))
  BY PrefixCut
<1> QED BY <1>1, <1>2 DEF ChildrenIn

(* The visits of the children of a node are finitely many. *)
LEMMA VisitsFinite ==
    ASSUME NEW t, IsFiniteSet(DOMAIN t), \A q \in DOMAIN t : t[q] \in Nat,
           NEW p
    PROVE  IsFiniteSet(VisitsIn(t, p)) /\ Cardinality(VisitsIn(t, p)) \in Nat
<1> DEFINE C == ChildrenIn(t, p)
           V(q) == {q} \X (1..t[q])
           W == {V(q) : q \in C}
           f == [q \in C |-> V(q)]
<1>1. IsFiniteSet(C) BY FS_Subset DEF ChildrenIn
<1>2. f \in Surjection(C, W) BY DEF Surjection
<1>3. IsFiniteSet(W) BY <1>1, <1>2, FS_Surjection
<1>4. ASSUME NEW q \in C PROVE IsFiniteSet(V(q))
  <2>1. t[q] \in Int BY DEF ChildrenIn
  <2>2. IsFiniteSet(1..t[q]) BY <2>1, FS_Interval
  <2>3. IsFiniteSet({q}) BY FS_Singleton
  <2> QED BY <2>2, <2>3, FS_Product
<1>5. \A x \in W : IsFiniteSet(x) BY <1>4
<1>6. IsFiniteSet(UNION W) BY <1>3, <1>5, FS_UNION
<1>7. VisitsIn(t, p) = UNION W BY DEF VisitsIn
<1> QED BY <1>6, <1>7, FS_CardinalityType

(* Everything above a leaf is in the tree already. *)
LEMMA LeafFacts ==
    ASSUME NEW sc, ScenarioOK(sc), NEW b, NEW t, LegalTree(t, sc, b),
           NEW l, LeafIn(t, sc, b, l)
    PROVE  /\ l \in Seq(Ids) /\ Replays(sc, l, b)
           /\ \A n \in 0..Len(l) : n < Len(l) => Cut(l, n) \in DOMAIN t
           /\ l \in DOMAIN t => Legal(sc, l, b) = {}
<1>1. ASSUME NEW p \in DOMAIN t, NEW m \in UntriedIn(t, sc, b, p),
             l = Append(p, m)
      PROVE  /\ l \in Seq(Ids) /\ Replays(sc, l, b)
             /\ \A n \in 0..Len(l) : n < Len(l) => Cut(l, n) \in DOMAIN t
             /\ l \notin DOMAIN t
  <2>1. /\ p \in Seq(Ids) /\ Replays(sc, p, b) /\ Prefixes(p) \subseteq DOMAIN t
        /\ Len(p) \in Nat
    BY LenProperties DEF LegalTree
  <2>2. m \in Legal(sc, p, b) /\ l \notin DOMAIN t BY <1>1 DEF UntriedIn
  <2>3. m \in Ids BY <2>1, <2>2, LegalFacts
  <2>4. /\ l \in Seq(Ids) /\ Len(l) = Len(p) + 1
        /\ \A n \in 0..Len(p) : Cut(l, n) = Cut(p, n)
    BY <1>1, <2>1, <2>3, CutAppend
  <2>5. Replays(sc, l, b) BY <1>1, <2>1, <2>2, ReplaysAppend
  <2>6. ASSUME NEW n \in 0..Len(l), n < Len(l) PROVE Cut(l, n) \in DOMAIN t
    <3>1. n \in 0..Len(p) BY <2>1, <2>4, <2>6
    <3>2. Cut(l, n) = Cut(p, n) /\ Cut(p, n) \in Prefixes(p)
      BY <2>1, <2>4, <3>1, PrefixesFacts
    <3> QED BY <2>1, <3>2
  <2> QED BY <2>2, <2>4, <2>5, <2>6
<1>2. ASSUME l \in DOMAIN t, Legal(sc, l, b) = {}
      PROVE  /\ l \in Seq(Ids) /\ Replays(sc, l, b)
             /\ \A n \in 0..Len(l) : n < Len(l) => Cut(l, n) \in DOMAIN t
  <2>1. l \in Seq(Ids) /\ Replays(sc, l, b) /\ Prefixes(l) \subseteq DOMAIN t
    BY <1>2 DEF LegalTree
  <2>2. \A n \in 0..Len(l) : Cut(l, n) \in Prefixes(l) BY <2>1, PrefixesFacts
  <2> QED BY <2>1, <2>2
<1> QED BY <1>1, <1>2 DEF LeafIn

(* What a simulation changes: the nodes of its path gain one visit. *)
LEMMA BackedUpFacts ==
    ASSUME NEW t, NEW l, \A q \in DOMAIN t : t[q] \in Nat
    PROVE  LET u == BackedUpIn(t, l) IN
           /\ DOMAIN u = DOMAIN t \union {l}
           /\ \A q \in DOMAIN t : q \notin Prefixes(l) => u[q] = t[q]
           /\ \A q \in DOMAIN t : q \in Prefixes(l) => u[q] = t[q] + 1
           /\ l \notin DOMAIN t /\ l \in Prefixes(l) => u[l] = 1
           /\ \A q \in DOMAIN u : u[q] \in Nat
BY DEF BackedUpIn

(* A simulation keeps the nodes legal paths. *)
LEMMA LegalGrows ==
    ASSUME NEW sc, ScenarioOK(sc), NEW b, NEW t, LegalTree(t, sc, b),
           NEW l, LeafIn(t, sc, b, l)
    PROVE  LegalTree(BackedUpIn(t, l), sc, b)
<1> DEFINE u == BackedUpIn(t, l)
<1>1. /\ l \in Seq(Ids) /\ Replays(sc, l, b) /\ Len(l) \in Nat
      /\ \A n \in 0..Len(l) : n < Len(l) => Cut(l, n) \in DOMAIN t
  BY LeafFacts, LenProperties
<1>2. \A q \in DOMAIN t : t[q] \in Nat BY DEF LegalTree
<1>3. DOMAIN u = DOMAIN t \union {l} /\ \A q \in DOMAIN u : u[q] \in Nat
  BY <1>2, BackedUpFacts
<1> HIDE DEF u
<1>4. IsFiniteSet(DOMAIN u) /\ <<>> \in DOMAIN u
  BY <1>3, FS_AddElement DEF LegalTree
<1>5. Prefixes(l) \subseteq DOMAIN u
  <2> SUFFICES ASSUME NEW n \in 0..Len(l) PROVE Cut(l, n) \in DOMAIN u
    BY <1>1, PrefixesFacts
  <2>1. CASE n = Len(l) BY <1>1, <1>3, <2>1, CutWhole
  <2>2. CASE n < Len(l) BY <1>1, <1>3, <2>2
  <2> QED BY <1>1, <2>1, <2>2
<1>6. ASSUME NEW p \in DOMAIN u
      PROVE  /\ p \in Seq(Ids) /\ u[p] \in Nat
             /\ Prefixes(p) \subseteq DOMAIN u /\ Replays(sc, p, b)
  <2>1. CASE p = l BY <1>1, <1>3, <1>5, <2>1
  <2>2. CASE p \in DOMAIN t
    <3>1. p \in Seq(Ids) /\ Prefixes(p) \subseteq DOMAIN t /\ Replays(sc, p, b)
      BY <2>2 DEF LegalTree
    <3> QED BY <1>3, <3>1
  <2> QED BY <1>3, <2>1, <2>2
<1> QED BY <1>4, <1>6 DEF LegalTree, u

(* A proper prefix of the leaf gains one visit, and so does one child of it,
   the next node of the path. *)
LEMMA VisitsOnPath ==
    ASSUME NEW sc, ScenarioOK(sc), NEW b, NEW t, LegalTree(t, sc, b),
           NEW l, LeafIn(t, sc, b, l), NEW n \in 0..Len(l), n < Len(l)
    PROVE  LET x == Cut(l, n)
               u == BackedUpIn(t, l) IN
           Cardinality(VisitsIn(u, x)) = Cardinality(VisitsIn(t, x)) + 1
<1> DEFINE x == Cut(l, n)
           c == Cut(l, n + 1)
           u == BackedUpIn(t, l)
           old == VisitsIn(t, x)
<1>1. l \in Seq(Ids) /\ Len(l) \in Nat /\ n \in Nat /\ n + 1 \in 0..Len(l)
  BY LeafFacts, LenProperties
<1>2. /\ x \in Seq(Ids) /\ Len(x) = n /\ c \in Seq(Ids) /\ Len(c) = n + 1
      /\ x = Cut(c, n) /\ c \in Prefixes(l)
  BY <1>1, CutFacts, CutCut, PrefixesFacts
<1>3. \A q \in DOMAIN t : q \in Seq(Ids) /\ t[q] \in Nat BY DEF LegalTree
<1>4. LegalTree(u, sc, b) BY LegalGrows
<1>5. /\ DOMAIN u = DOMAIN t \union {l}
      /\ \A q \in DOMAIN t : q \notin Prefixes(l) => u[q] = t[q]
      /\ \A q \in DOMAIN t : q \in Prefixes(l) => u[q] = t[q] + 1
      /\ l \notin DOMAIN t /\ l \in Prefixes(l) => u[l] = 1
  BY <1>3, BackedUpFacts
<1>6. c \in DOMAIN u /\ (c \in DOMAIN t \/ c = l)
  <2>1. CASE n + 1 = Len(l) BY <1>1, <1>5, <2>1, CutWhole
  <2>2. CASE n + 1 < Len(l) BY <1>1, <1>5, <2>2, LeafFacts
  <2> QED BY <1>1, <2>1, <2>2
<1> HIDE DEF u, x, c
<1>7. \A q \in DOMAIN u : q \in Seq(Ids) BY <1>4 DEF LegalTree
<1>8. \A q : q \in ChildrenIn(t, x) <=>
         q \in DOMAIN t /\ Len(q) = n + 1 /\ x = Cut(q, n)
  BY <1>2, <1>3, ChildFacts
<1>9. \A q : q \in ChildrenIn(u, x) <=>
         q \in DOMAIN u /\ Len(q) = n + 1 /\ x = Cut(q, n)
  BY <1>2, <1>7, ChildFacts
<1>10. ASSUME NEW q \in DOMAIN u, Len(q) = n + 1, q \in Prefixes(l)
       PROVE  q = c
  <2>1. q = Cut(l, Len(q)) BY <1>1, <1>7, <1>10, PrefixCut
  <2> QED BY <1>10, <2>1 DEF c
<1>11. ASSUME NEW q \in ChildrenIn(t, x), q # c
       PROVE  q \in ChildrenIn(u, x) /\ u[q] = t[q]
  BY <1>5, <1>8, <1>9, <1>10, <1>11
<1>12. ASSUME NEW q \in ChildrenIn(u, x), q # c
       PROVE  q \in ChildrenIn(t, x) /\ u[q] = t[q]
  <2>1. q \in DOMAIN u /\ Len(q) = n + 1 /\ x = Cut(q, n) BY <1>9
  <2>2. q # l
    <3>1. l \in Prefixes(l) BY <1>1, PrefixCut, CutWhole
    <3> QED BY <1>10, <1>12, <2>1, <3>1
  <2> QED BY <1>5, <1>8, <1>10, <1>12, <2>1, <2>2
<1>13. c \in ChildrenIn(u, x) BY <1>2, <1>6, <1>9
<1>14. /\ u[c] \in Nat /\ u[c] >= 1 /\ <<c, u[c]>> \notin old
       /\ {c} \X (1..u[c]) =
            (IF c \in DOMAIN t THEN {c} \X (1..t[c]) ELSE {}) \union {<<c, u[c]>>}
  <2>1. CASE c \in DOMAIN t
    <3>1. u[c] = t[c] + 1 /\ t[c] \in Nat BY <1>2, <1>3, <1>5, <2>1
    <3>2. <<c, u[c]>> \notin {c} \X (1..t[c]) BY <3>1
    <3>3. <<c, u[c]>> \notin old BY <3>2 DEF VisitsIn
    <3>4. 1..u[c] = (1..t[c]) \union {u[c]} BY <3>1
    <3> QED BY <2>1, <3>1, <3>3, <3>4
  <2>2. CASE c \notin DOMAIN t
    <3>1. c = l /\ u[c] = 1 BY <1>2, <1>5, <1>6, <2>2
    <3>2. <<c, u[c]>> \notin old BY <1>8, <2>2 DEF VisitsIn
    <3>3. 1..u[c] = {u[c]} BY <3>1
    <3> QED BY <2>2, <3>1, <3>2, <3>3
  <2> QED BY <2>1, <2>2
<1>15. VisitsIn(u, x) = old \union {<<c, u[c]>>}
  <2>1. ASSUME NEW v \in VisitsIn(u, x) PROVE v \in old \union {<<c, u[c]>>}
    <3>1. PICK q \in ChildrenIn(u, x) : v \in {q} \X (1..u[q])
      BY DEF VisitsIn
    <3>2. CASE q # c
      <4>1. q \in ChildrenIn(t, x) /\ v \in {q} \X (1..t[q]) BY <1>12, <3>1, <3>2
      <4> QED BY <4>1 DEF VisitsIn
    <3>3. CASE q = c
      <4>1. CASE v = <<c, u[c]>> BY <4>1
      <4>2. CASE v # <<c, u[c]>>
        <5>1. c \in DOMAIN t /\ v \in {c} \X (1..t[c]) BY <1>14, <3>1, <3>3, <4>2
        <5>2. c \in ChildrenIn(t, x) BY <1>2, <1>8, <5>1
        <5> QED BY <5>1, <5>2 DEF VisitsIn
      <4> QED BY <4>1, <4>2
    <3> QED BY <3>2, <3>3
  <2>2. ASSUME NEW v \in old PROVE v \in VisitsIn(u, x)
    <3>1. PICK q \in ChildrenIn(t, x) : v \in {q} \X (1..t[q])
      BY DEF VisitsIn
    <3>2. CASE q # c
      <4>1. q \in ChildrenIn(u, x) /\ v \in {q} \X (1..u[q]) BY <1>11, <3>1, <3>2
      <4> QED BY <4>1 DEF VisitsIn
    <3>3. CASE q = c
      <4>1. c \in DOMAIN t BY <1>8, <3>3
      <4>2. v \in {c} \X (1..u[c]) BY <1>14, <3>1, <3>3, <4>1
      <4> QED BY <1>13, <4>2 DEF VisitsIn
    <3> QED BY <3>2, <3>3
  <2>3. <<c, u[c]>> \in VisitsIn(u, x)
    <3>1. <<c, u[c]>> \in {c} \X (1..u[c]) BY <1>14
    <3> QED BY <1>13, <3>1 DEF VisitsIn
  <2> QED BY <2>1, <2>2, <2>3
<1>16. IsFiniteSet(old) BY <1>3, VisitsFinite DEF LegalTree
<1> HIDE DEF old
<1>17. Cardinality(old \union {<<c, u[c]>>}) = Cardinality(old) + 1
  BY <1>14, <1>16, FS_AddElement
<1> QED BY <1>15, <1>17 DEF old, u, x

(* Off the path nothing changes. *)
LEMMA VisitsOffPath ==
    ASSUME NEW sc, ScenarioOK(sc), NEW b, NEW t, LegalTree(t, sc, b),
           NEW l, LeafIn(t, sc, b, l), NEW x \in DOMAIN t, x \notin Prefixes(l)
    PROVE  VisitsIn(BackedUpIn(t, l), x) = VisitsIn(t, x)
<1> DEFINE u == BackedUpIn(t, l)
<1>1. l \in Seq(Ids) /\ Len(l) \in Nat BY LeafFacts, LenProperties
<1>2. \A q \in DOMAIN t : q \in Seq(Ids) /\ t[q] \in Nat BY DEF LegalTree
<1>3. x \in Seq(Ids) /\ Len(x) \in Nat BY <1>2, LenProperties
<1>4. LegalTree(u, sc, b) BY LegalGrows
<1>5. /\ DOMAIN u = DOMAIN t \union {l}
      /\ \A q \in DOMAIN t : q \notin Prefixes(l) => u[q] = t[q]
  BY <1>2, BackedUpFacts
<1> HIDE DEF u
<1>6. \A q \in DOMAIN u : q \in Seq(Ids) BY <1>4 DEF LegalTree
<1>7. \A q : q \in ChildrenIn(t, x) <=>
         q \in DOMAIN t /\ Len(q) = Len(x) + 1 /\ x = Cut(q, Len(x))
  BY <1>2, <1>3, ChildFacts
<1>8. \A q : q \in ChildrenIn(u, x) <=>
         q \in DOMAIN u /\ Len(q) = Len(x) + 1 /\ x = Cut(q, Len(x))
  BY <1>3, <1>6, ChildFacts
<1>9. ASSUME NEW q \in ChildrenIn(u, x) PROVE q \notin Prefixes(l)
  <2>1. /\ q \in Seq(Ids) /\ Len(q) = Len(x) + 1 /\ x = Cut(q, Len(x))
        /\ Len(q) \in Nat
    BY <1>6, <1>8, LenProperties
  <2> SUFFICES ASSUME q \in Prefixes(l) PROVE FALSE OBVIOUS
  <2>2. Len(q) <= Len(l) /\ q = Cut(l, Len(q)) BY <1>1, <2>1, PrefixCut
  <2>3. Len(q) \in 0..Len(l) /\ Len(x) \in 0..Len(q) /\ Len(x) <= Len(l)
    BY <1>1, <1>3, <2>1, <2>2
  <2>4. Cut(Cut(l, Len(q)), Len(x)) = Cut(l, Len(x)) BY <1>1, <2>3, CutCut
  <2>5. x = Cut(l, Len(x)) BY <2>1, <2>2, <2>4
  <2> QED BY <1>1, <1>3, <2>3, <2>5, PrefixCut
<1>10. l \in Prefixes(l) BY <1>1, PrefixCut, CutWhole
<1>11. ChildrenIn(u, x) = ChildrenIn(t, x)
  BY <1>5, <1>7, <1>8, <1>9, <1>10
<1>12. \A q \in ChildrenIn(t, x) : u[q] = t[q]
  BY <1>5, <1>7, <1>9, <1>11
<1>13. ASSUME NEW v PROVE v \in VisitsIn(u, x) <=> v \in VisitsIn(t, x)
  BY <1>11, <1>12 DEF VisitsIn
<1> QED BY <1>13 DEF u, VisitsIn

(* A simulation keeps the counts of every node in order. *)
LEMMA CountedGrows ==
    ASSUME NEW sc, ScenarioOK(sc), NEW b, NEW t, LegalTree(t, sc, b),
           \A p \in DOMAIN t : Counted(t, sc, b, p),
           NEW l, LeafIn(t, sc, b, l),
           NEW x \in DOMAIN BackedUpIn(t, l)
    PROVE  Counted(BackedUpIn(t, l), sc, b, x)
<1> DEFINE u == BackedUpIn(t, l)
<1>1. /\ l \in Seq(Ids) /\ Len(l) \in Nat
      /\ \A n \in 0..Len(l) : n < Len(l) => Cut(l, n) \in DOMAIN t
      /\ l \in DOMAIN t => Legal(sc, l, b) = {}
  BY LeafFacts, LenProperties
<1>2. /\ \A q \in DOMAIN t : /\ q \in Seq(Ids) /\ t[q] \in Nat
                             /\ Prefixes(q) \subseteq DOMAIN t
      /\ <<>> \in DOMAIN t
  BY DEF LegalTree
<1>3. LegalTree(u, sc, b) BY LegalGrows
<1>4. /\ DOMAIN u = DOMAIN t \union {l}
      /\ \A q \in DOMAIN t : q \notin Prefixes(l) => u[q] = t[q]
      /\ \A q \in DOMAIN t : q \in Prefixes(l) => u[q] = t[q] + 1
      /\ l \notin DOMAIN t /\ l \in Prefixes(l) => u[l] = 1
  BY <1>2, BackedUpFacts
<1>5. l \in Prefixes(l) BY <1>1, PrefixCut, CutWhole
<1>6. x \in DOMAIN t \/ x = l BY <1>4
<1> HIDE DEF u
<1>7. \A q \in DOMAIN u : q \in Seq(Ids) /\ Len(q) \in Nat
  BY <1>3, LenProperties DEF LegalTree
<1>X. x \in Seq(Ids) /\ Len(x) \in Nat BY <1>4, <1>6, <1>7
<1>8. \A p \in Seq(Ids) : \A q : q \in ChildrenIn(t, p) <=>
         q \in DOMAIN t /\ Len(q) = Len(p) + 1 /\ p = Cut(q, Len(p))
  BY <1>2, ChildFacts
<1>9. \A p \in Seq(Ids) : \A q : q \in ChildrenIn(u, p) <=>
         q \in DOMAIN u /\ Len(q) = Len(p) + 1 /\ p = Cut(q, Len(p))
  BY <1>7, ChildFacts
(* A parent is an old node. *)
<1>10. ASSUME NEW p \in Seq(Ids), NEW q \in ChildrenIn(u, p)
       PROVE  /\ p \in DOMAIN t /\ (q \in DOMAIN t => q \in ChildrenIn(t, p))
              /\ q \in Seq(Ids)
  <2>1. /\ q \in DOMAIN u /\ Len(q) = Len(p) + 1 /\ p = Cut(q, Len(p))
        /\ q \in Seq(Ids) /\ Len(p) \in Nat
    BY <1>7, <1>9, LenProperties
  <2>2. CASE q \in DOMAIN t
    <3>1. Len(p) \in 0..Len(q) BY <2>1
    <3>2. Cut(q, Len(p)) \in Prefixes(q) BY <2>1, <3>1, PrefixesFacts
    <3> QED BY <1>2, <1>8, <2>1, <2>2, <3>2
  <2>3. CASE q \notin DOMAIN t
    <3>1. q = l BY <1>4, <2>1, <2>3
    <3>2. Len(p) \in 0..Len(l) /\ Len(p) < Len(l) BY <1>1, <2>1, <3>1
    <3> QED BY <1>1, <2>1, <2>3, <3>1, <3>2
  <2> QED BY <2>2, <2>3
<1>11. x # <<>> => u[x] >= 1
  <2>1. CASE x \in DOMAIN t
    <3>1. x # <<>> => t[x] >= 1 BY <2>1 DEF Counted
    <3> QED BY <1>2, <1>4, <2>1, <3>1
  <2>2. CASE x \notin DOMAIN t BY <1>4, <1>5, <1>6, <2>2
  <2> QED BY <2>1, <2>2
<1>12. ASSUME Legal(sc, x, b) # {}
       PROVE  u[x] = Cardinality(VisitsIn(u, x)) + (IF x = <<>> THEN 0 ELSE 1)
  <2>1. CASE x = l
    <3>1. x \notin DOMAIN t BY <1>1, <1>12, <2>1
    <3>2. u[x] = 1 /\ x # <<>> BY <1>2, <1>4, <1>5, <2>1, <3>1
    <3>3. ChildrenIn(u, x) = {} BY <1>X, <1>10, <3>1
    <3>4. VisitsIn(u, x) = {} BY <3>3 DEF VisitsIn
    <3> QED BY <3>2, <3>4, FS_EmptySet
  <2>2. CASE x # l /\ x \in Prefixes(l)
    <3>1. x \in DOMAIN t BY <1>6, <2>2
    <3>2. Len(x) <= Len(l) /\ x = Cut(l, Len(x)) BY <1>1, <1>X, <2>2, PrefixCut
    <3>3. Len(x) # Len(l) BY <1>1, <2>2, <3>2, CutWhole
    <3>4. Len(x) \in 0..Len(l) /\ Len(x) < Len(l) BY <1>1, <1>X, <3>2, <3>3
    <3>5. Cardinality(VisitsIn(u, x)) = Cardinality(VisitsIn(t, x)) + 1
      BY <3>2, <3>4, VisitsOnPath DEF u
    <3>6. u[x] = t[x] + 1 BY <1>4, <2>2, <3>1
    <3>7. t[x] = Cardinality(VisitsIn(t, x)) + (IF x = <<>> THEN 0 ELSE 1)
      BY <1>12, <3>1 DEF Counted
    <3>8. Cardinality(VisitsIn(t, x)) \in Nat
      BY <1>2, VisitsFinite DEF LegalTree
    <3> QED BY <3>5, <3>6, <3>7, <3>8
  <2>3. CASE x # l /\ x \notin Prefixes(l)
    <3>1. x \in DOMAIN t BY <1>6, <2>3
    <3>2. VisitsIn(u, x) = VisitsIn(t, x) BY <2>3, <3>1, VisitsOffPath DEF u
    <3>3. u[x] = t[x] BY <1>4, <2>3, <3>1
    <3> QED BY <1>12, <3>1, <3>2, <3>3 DEF Counted
  <2> QED BY <2>1, <2>2, <2>3
<1>13. ASSUME NEW q \in ChildrenIn(u, x), NEW g \in ChildrenIn(u, q)
       PROVE  UntriedIn(u, sc, b, x) = {}
  <2>1. /\ x \in DOMAIN t /\ q \in Seq(Ids) /\ q \in DOMAIN t
        /\ q \in ChildrenIn(t, x) /\ g \in Seq(Ids)
        /\ g \in DOMAIN t => g \in ChildrenIn(t, q)
    <3>1. x \in DOMAIN t /\ q \in Seq(Ids) BY <1>X, <1>10
    <3>2. /\ q \in DOMAIN t /\ g \in Seq(Ids)
          /\ g \in DOMAIN t => g \in ChildrenIn(t, q)
      BY <1>10, <3>1
    <3> QED BY <1>X, <1>10, <3>1, <3>2
  <2>2. UntriedIn(u, sc, b, x) \subseteq UntriedIn(t, sc, b, x)
    BY <1>4 DEF UntriedIn
  <2>3. UntriedIn(t, sc, b, x) = {}
    <3>1. CASE g \in DOMAIN t BY <2>1, <3>1 DEF Counted
    <3>2. CASE g \notin DOMAIN t
      <4>1. g = l /\ Len(g) = Len(q) + 1 /\ q = Cut(l, Len(q))
        BY <1>4, <1>9, <2>1, <3>2
      <4>2. PICK p \in DOMAIN t :
              /\ \E m \in UntriedIn(t, sc, b, p) : l = Append(p, m)
              /\ \A z \in Prefixes(p) \ {p} : UntriedIn(t, sc, b, z) = {}
        BY <3>2, <4>1 DEF LeafIn
      <4>3. PICK m \in UntriedIn(t, sc, b, p) : l = Append(p, m) BY <4>2
      <4>4. p \in Seq(Ids) /\ Len(p) \in Nat /\ Len(q) \in Nat
        BY <1>2, <2>1, LenProperties
      <4>5. m \in Ids BY <4>4, LegalFacts DEF UntriedIn
      <4>6. Len(l) = Len(p) + 1 /\ Cut(l, Len(p)) = p BY <4>3, <4>4, <4>5, CutAppend
      <4>7. q = p BY <4>1, <4>4, <4>6
      <4>8. Len(q) = Len(x) + 1 /\ x = Cut(q, Len(x)) BY <1>X, <1>8, <2>1
      <4>9. x \in Prefixes(p) \ {p} BY <1>X, <4>4, <4>7, <4>8, PrefixCut
      <4> QED BY <4>2, <4>9
    <3> QED BY <3>1, <3>2
  <2> QED BY <2>2, <2>3
<1> QED BY <1>11, <1>12, <1>13 DEF Counted, u

-----------------------------------------------------------------------------
(* The best terminal *)

(* A set of natural numbers that is not empty has a least element. *)
LEMMA LeastElement ==
    ASSUME NEW T \in SUBSET Nat, T # {}
    PROVE  \E m \in T : \A k \in T : m <= k
<1> DEFINE R == OpToRel(<, Nat)
<1>1. \A x, y \in Nat : <<x, y>> \in R <=> x < y BY DEF OpToRel
<1>2. IsWellFoundedOn(R, Nat) BY NatLessThanWellFounded
<1> HIDE DEF R
<1>3. PICK m \in T : \A y \in T : ~(<<y, m>> \in R) BY <1>2, WFMin
<1>4. ASSUME NEW k \in T PROVE m <= k
  <2>1. ~(k < m) BY <1>1, <1>3, Zenon
  <2> QED BY <2>1
<1> QED BY <1>4

BetterIn(t, p, q) ==
    \/ Reward(p) > Reward(q)
    \/ /\ Reward(p) = Reward(q)
       /\ \/ SpentCost(p) < SpentCost(q)
          \/ SpentCost(p) = SpentCost(q) /\ t[p] > t[q]

(* Among finitely many terminals one is best: the one that fewest are better
   than. *)
LEMMA BestExists ==
    ASSUME NEW t, NEW F, IsFiniteSet(F), F # {},
           \A p \in F : Reward(p) \in Int /\ SpentCost(p) \in Nat /\ t[p] \in Nat
    PROVE  \E p \in F : \A q \in F : ~BetterIn(t, q, p)
<1> DEFINE Up(p) == {q \in F : BetterIn(t, q, p)}
           N == {Cardinality(Up(p)) : p \in F}
<1>1. \A p \in F : IsFiniteSet(Up(p)) /\ Cardinality(Up(p)) \in Nat
  BY FS_Subset, FS_CardinalityType
<1>2. N \in SUBSET Nat /\ N # {} BY <1>1
<1>3. PICK m \in N : \A k \in N : m <= k BY <1>2, LeastElement
<1>4. PICK p \in F : m = Cardinality(Up(p)) BY <1>3
<1>5. ASSUME NEW q \in F, BetterIn(t, q, p) PROVE FALSE
  <2>1. q \in Up(p) /\ q \notin Up(q) BY <1>5 DEF BetterIn
  <2>2. Up(q) \subseteq Up(p)
    <3> SUFFICES ASSUME NEW z \in F, BetterIn(t, z, q) PROVE BetterIn(t, z, p)
      OBVIOUS
    <3> QED BY <1>5 DEF BetterIn
  <2>3. /\ Cardinality(Up(q)) <= Cardinality(Up(p))
        /\ Cardinality(Up(q)) # Cardinality(Up(p))
    BY <1>1, <2>1, <2>2, FS_Subset
  <2>4. m <= Cardinality(Up(q)) BY <1>3
  <2>5. Cardinality(Up(p)) \in Nat /\ Cardinality(Up(q)) \in Nat BY <1>1
  <2> HIDE DEF Up, N
  <2> QED BY <1>4, <2>3, <2>4, <2>5
<1> QED BY <1>5

-----------------------------------------------------------------------------
(* Results *)

(* The fallback is a feasible abstention. *)
LEMMA AbstainFacts ==
    /\ SystemAbstain \in Seq({"SYSTEM_ABSTAIN"})
    /\ Abstained(SystemAbstain) /\ ~Committed(SystemAbstain)
    /\ Terminal(SystemAbstain) /\ Feasible(SystemAbstain)
<1>1. SystemAbstain \in Seq({"SYSTEM_ABSTAIN"}) BY DEF SystemAbstain
<1>2. Len(SystemAbstain) = 1 BY DEF SystemAbstain
<1>3. SystemAbstain[1] = "SYSTEM_ABSTAIN" BY DEF SystemAbstain
<1>4. /\ SystemAbstain \in Seq({"SYSTEM_ABSTAIN"})
      /\ DOMAIN SystemAbstain = 1..1
      /\ SystemAbstain[1] = "SYSTEM_ABSTAIN"
  BY <1>1, <1>2, <1>3, LenProperties
<1>5. Move["SYSTEM_ABSTAIN"].kind = "ABSTAIN"
  BY DEF Move, NewMove
<1>6. MovesOf(SystemAbstain) = {Move["SYSTEM_ABSTAIN"]} BY <1>4 DEF MovesOf
<1>7. Abstained(SystemAbstain) /\ ~Committed(SystemAbstain)
  BY <1>5, <1>6 DEF Abstained, Committed
<1> QED BY <1>4, <1>7 DEF Terminal, Feasible

(* A path that commits does not abstain: both would be its last move. *)
LEMMA CommitIsLast ==
    ASSUME NEW p \in Paths, Committed(p)
    PROVE  ~Abstained(p)
<1>1. \A k \in DOMAIN p : k \in 1..4 /\ Move[p[k]].kind \in PhaseKinds[k]
  BY DEF Paths, PhaseKinds
<1>2. ASSUME NEW k \in DOMAIN p, Move[p[k]].kind \in {"COMMIT", "ABSTAIN"}
      PROVE  k = 4
  BY <1>1, <1>2 DEF PhaseKinds
<1>3. PICK j \in DOMAIN p : Move[p[j]].kind = "COMMIT" BY DEF Committed, MovesOf
<1> SUFFICES ASSUME NEW k \in DOMAIN p, Move[p[k]].kind = "ABSTAIN" PROVE FALSE
  BY DEF Abstained, MovesOf
<1>4. j = 4 /\ k = 4 BY <1>2, <1>3
<1> QED BY <1>3, <1>4

(* The learner makes at least one update and finitely many. *)
LEMMA UpdatesNat ==
    ASSUME NEW r, ResultOK(r)
    PROVE  Updates(r) \in Nat
<1>1. IsFiniteSet(Prefixes(r.path))
  BY AbstainFacts, PrefixesFacts DEF ResultOK, Ids
<1>2. IsFiniteSet(DOMAIN r.targets) BY <1>1, FS_Subset DEF ResultOK
<1> DEFINE n == Cardinality(DOMAIN r.targets)
<1>3. n \in Nat BY <1>2, FS_CardinalityType
<1> HIDE DEF n
<1>4. \E x \in {1, n} : \A y \in {1, n} : x >= y BY <1>3
<1>5. Max({1, n}) \in {1, n} BY <1>4 DEF Max
<1> QED BY <1>3, <1>5 DEF Updates, n

-----------------------------------------------------------------------------
(* The invariant *)

(* Only agents of the table of moves are ever benched. *)
LEMMA ScenarioFacts ==
    ASSUME NEW sc \in Scenarios
    PROVE  /\ ScenarioOK(sc)
           /\ Actors(sc) \subseteq Agents
           /\ \A b, n : NewlyBenched(sc, b, n) \subseteq Agents
           /\ \A n : BenchedBy(sc, n) \subseteq Agents
<1>1. ScenarioOK(sc) BY SearchAssumption
<1>2. sc \in Seq(Seq(Ids)) BY <1>1 DEF ScenarioOK, Ids
<1>3. ASSUME NEW k \in DOMAIN sc PROVE Range(sc[k]) \subseteq Ids
  <2>1. sc[k] \in Seq(Ids) BY <1>2, LenProperties, ElementOfSeq
  <2> QED BY <2>1, RangeOfSeq
<1>4. Actors(sc) \subseteq Agents BY <1>3 DEF Actors, Agents, Ids
<1> QED BY <1>1, <1>4 DEF NewlyBenched, BenchedBy

(* TreeOK in terms of the tree alone *)
LEMMA TreeParts ==
    TreeOK <=> /\ LegalTree(search.tree, scenario, search.model.benched)
               /\ \A p \in DOMAIN search.tree :
                    Counted(search.tree, scenario, search.model.benched, p)
BY DEF TreeOK, LegalTree, Counted, ChildrenIn, VisitsIn, UntriedIn, Ids,
       Tree, Nodes, Children, VisitsBelow, Candidates, Unexpanded

(* Where a simulation may end is a leaf. *)
LEMMA LeavesFacts ==
    ASSUME NEW l \in Leaves
    PROVE  /\ LeafIn(search.tree, scenario, search.model.benched, l)
           /\ BackedUp(l) = BackedUpIn(search.tree, l)
<1> DEFINE t == search.tree
           b == search.model.benched
<1>1. PICK p \in DOMAIN t :
        /\ Selectable(p)
        /\ l \in IF Unexpanded(p) # {}
                 THEN {Append(p, m) : m \in Unexpanded(p)}
                 ELSE IF Candidates(p) = {} THEN {p} ELSE {}
  BY DEF Leaves, Nodes, Tree
<1>2. \A q : Unexpanded(q) = UntriedIn(t, scenario, b, q)
  BY DEF Unexpanded, UntriedIn, Candidates, Nodes, Tree
<1>3. Candidates(p) = Legal(scenario, p, b) BY DEF Candidates
<1>4. \A q \in Prefixes(p) \ {p} : UntriedIn(t, scenario, b, q) = {}
  BY <1>1, <1>2 DEF Selectable
<1>5. LeafIn(t, scenario, b, l)
  <2>1. CASE Unexpanded(p) # {}
    <3>1. \E m \in UntriedIn(t, scenario, b, p) : l = Append(p, m)
      BY <1>1, <1>2, <2>1
    <3> QED BY <1>4, <3>1 DEF LeafIn
  <2>2. CASE Unexpanded(p) = {}
    <3>1. l = p /\ Legal(scenario, p, b) = {} BY <1>1, <1>3, <2>2
    <3> QED BY <3>1 DEF LeafIn
  <2> QED BY <2>1, <2>2
<1>6. BackedUp(l) = BackedUpIn(t, l) BY DEF BackedUp, BackedUpIn, Nodes, Tree
<1> QED BY <1>5, <1>6

(* The root has no other prefix. *)
LEMMA RootPrefixes == Prefixes(<<>>) = {<<>>}
<1>1. <<>> \in Seq(Ids) /\ Len(<<>>) = 0 BY EmptySeq
<1>2. Prefixes(<<>>) = {Cut(<<>>, n) : n \in 0..Len(<<>>)}
  BY <1>1, PrefixesFacts
<1>3. Cut(<<>>, 0) = <<>> BY <1>1, CutWhole
<1>4. 0..Len(<<>>) = {0} BY <1>1
<1> QED BY <1>2, <1>3, <1>4

(* The tree of a new search is the root, without a visit. *)
LEMMA RootTree ==
    ASSUME NEW sc, NEW b
    PROVE  LET t == [p \in {<<>>} |-> 0] IN
           /\ LegalTree(t, sc, b)
           /\ \A p \in DOMAIN t : Counted(t, sc, b, p)
<1> DEFINE t == [p \in {<<>>} |-> 0]
<1>1. DOMAIN t = {<<>>} /\ t[<<>>] = 0 OBVIOUS
<1> HIDE DEF t
<1>2. <<>> \in Seq(Ids) /\ Len(<<>>) = 0 /\ DOMAIN <<>> = {}
  BY EmptySeq, LenProperties
<1>3. Prefixes(<<>>) = {<<>>} BY RootPrefixes
<1>4. IsFiniteSet(DOMAIN t) BY <1>1, FS_Singleton
<1>5. Replays(sc, <<>>, b) BY <1>2 DEF Replays
<1>6. LegalTree(t, sc, b) BY <1>1, <1>2, <1>3, <1>4, <1>5 DEF LegalTree
<1>7. ChildrenIn(t, <<>>) = {} BY <1>1, <1>2 DEF ChildrenIn
<1>8. VisitsIn(t, <<>>) = {} BY <1>7 DEF VisitsIn
<1>9. Cardinality(VisitsIn(t, <<>>)) = 0 BY <1>8, FS_EmptySet
<1>10. Counted(t, sc, b, <<>>) BY <1>1, <1>7, <1>9 DEF Counted
<1> QED BY <1>1, <1>6, <1>10 DEF t

(* The invariant holds at first. *)
LEMMA InitInv == Init => SearchInv
<1> SUFFICES ASSUME Init PROVE SearchInv OBVIOUS
<1>1. PICK n \in StartRounds :
        model = [generation |-> 0, updates |-> 0, rounds |-> n,
                 benched |-> BenchedBy(scenario, n)]
  BY DEF Init
<1>2. scenario \in Scenarios /\ n \in Nat BY SearchAssumption DEF Init
<1>3. model \in Models BY <1>1, <1>2, ScenarioFacts DEF Models
<1>4. /\ DOMAIN search = {"pc", "model", "budget", "tree"}
      /\ search.pc = "idle" /\ search.model = model
      /\ search.tree = [p \in {<<>>} |-> 0]
  BY DEF Init, NoSearch
<1>5. results = {} /\ learned = <<>> /\ searches = 0 BY DEF Init
<1>6. learned \in Seq([result : results, rounds : Nat]) /\ Len(learned) = 0 /\ DOMAIN learned = {}
  BY <1>5, EmptySeq, LenProperties
<1>7. TypeOK BY <1>2, <1>3, <1>4, <1>5, <1>6 DEF TypeOK
<1>8. TreeOK BY <1>4, RootTree, TreeParts
<1>9. BestHandedOut BY <1>5 DEF BestHandedOut
<1>10. LearnedInOrder BY <1>1, <1>6 DEF LearnedInOrder, UpdatesAfter
<1> QED BY <1>5, <1>7, <1>8, <1>9, <1>10 DEF SearchInv

(* The same in the next state *)
LEMMA TreePartsNext ==
    TreeOK' <=> /\ LegalTree(search'.tree, scenario', search'.model.benched)
                /\ \A p \in DOMAIN search'.tree :
                     Counted(search'.tree, scenario', search'.model.benched, p)
BY DEF TreeOK, LegalTree, Counted, ChildrenIn, VisitsIn, UntriedIn, Ids,
       Tree, Nodes, Children, VisitsBelow, Candidates, Unexpanded

(* What does not touch the results leaves them as they are. *)
LEMMA ResultsKept ==
    ASSUME SearchInv, scenario' = scenario, NEW r \in results
    PROVE  ResultOK(r)'
BY DEF SearchInv, ResultOK

(* What does not touch the model keeps the order. *)
LEMMA OrderKept ==
    ASSUME SearchInv, UNCHANGED <<model, learned>>
    PROVE  LearnedInOrder'
BY DEF SearchInv, LearnedInOrder, UpdatesAfter

(* A new search starts with a new tree. *)
LEMMA ConstructInv ==
    ASSUME SearchInv, NEW n \in Budgets, Construct(n)
    PROVE  SearchInv'
<1>1. /\ search' = [pc |-> "made", model |-> model, budget |-> n,
                    tree |-> [p \in {<<>>} |-> 0]]
      /\ UNCHANGED <<scenario, model, results, learned>>
      /\ searches' = searches + 1
  BY DEF Construct, NoSearch
<1>2. TypeOK' BY <1>1 DEF SearchInv, TypeOK
<1>3. TreeOK' BY <1>1, RootTree, TreePartsNext
<1>4. BestHandedOut' BY <1>1 DEF BestHandedOut
<1>5. \A r \in results' : ResultOK(r)' BY <1>1, ResultsKept
<1> QED BY <1>1, <1>2, <1>3, <1>4, <1>5, OrderKept DEF SearchInv

(* A simulation grows the tree as it was shown above. *)
LEMMA SimulateInv ==
    ASSUME SearchInv, Simulate
    PROVE  SearchInv'
<1>1. PICK l \in Leaves :
        search' = [search EXCEPT !.pc = "running", !.tree = BackedUp(l)]
  BY DEF Simulate
<1>2. UNCHANGED <<scenario, model, searches, results, learned>> BY DEF Simulate
<1>3. /\ DOMAIN search' = DOMAIN search
      /\ search'.pc = "running" /\ search'.tree = BackedUp(l)
      /\ search'.model = search.model
  BY <1>1 DEF SearchInv, TypeOK
<1>4. TypeOK' BY <1>2, <1>3 DEF SearchInv, TypeOK
<1>5. TreeOK'
  <2> DEFINE t == search.tree
             b == search.model.benched
  <2>1. /\ LegalTree(t, scenario, b)
        /\ \A p \in DOMAIN t : Counted(t, scenario, b, p)
    BY TreeParts DEF SearchInv
  <2>2. LeafIn(t, scenario, b, l) /\ BackedUp(l) = BackedUpIn(t, l)
    BY LeavesFacts
  <2>3. ScenarioOK(scenario) BY ScenarioFacts DEF SearchInv, TypeOK
  <2> HIDE DEF t, b
  <2>4. /\ LegalTree(BackedUpIn(t, l), scenario, b)
        /\ \A p \in DOMAIN BackedUpIn(t, l) :
             Counted(BackedUpIn(t, l), scenario, b, p)
    BY <2>1, <2>2, <2>3, LegalGrows, CountedGrows
  <2> QED BY <1>2, <1>3, <2>2, <2>4, TreePartsNext DEF b
<1>6. BestHandedOut' BY <1>3 DEF BestHandedOut
<1>7. \A r \in results' : ResultOK(r)' BY <1>2, ResultsKept
<1> QED BY <1>2, <1>4, <1>5, <1>6, <1>7, OrderKept DEF SearchInv

(* When no terminal of the tree is best, none is feasible. *)
LEMMA BestFacts ==
    ASSUME SearchInv
    PROVE  /\ \A p \in FeasibleTerminals : Reward(p) \in Int
           /\ Best = {} => FeasibleTerminals = {}
           /\ \A p \in Best, q \in FeasibleTerminals : Reward(q) <= Reward(p)
<1>1. ScenarioOK(scenario) BY ScenarioFacts DEF SearchInv, TypeOK
<1>2. IsFiniteSet(FeasibleTerminals)
  BY FS_Subset DEF SearchInv, TreeOK, FeasibleTerminals
<1>3. ASSUME NEW p \in FeasibleTerminals
      PROVE  Reward(p) \in Int /\ SpentCost(p) \in Nat /\ Tree[p] \in Nat
  <2>1. /\ p \in Seq(Ids) /\ Tree[p] \in Nat
        /\ Replays(scenario, p, search.model.benched)
    BY DEF SearchInv, TreeOK, FeasibleTerminals, Ids
  <2>2. p \in Paths BY <1>1, <2>1, ReplaysPaths
  <2> QED BY <2>1, <2>2, FixtureArithmetic
<1>4. \A p, q : Better(p, q) <=> BetterIn(Tree, p, q) BY DEF Better, BetterIn
<1>5. ASSUME FeasibleTerminals # {} PROVE Best # {}
  <2>1. \E p \in FeasibleTerminals :
          \A q \in FeasibleTerminals : ~BetterIn(Tree, q, p)
    BY <1>2, <1>3, <1>5, BestExists
  <2> QED BY <1>4, <2>1 DEF Best
<1>6. ASSUME NEW p \in Best, NEW q \in FeasibleTerminals
      PROVE  Reward(q) <= Reward(p)
  <2>1. p \in FeasibleTerminals /\ ~Better(q, p) BY DEF Best
  <2>2. ~(Reward(q) > Reward(p)) BY <2>1 DEF Better
  <2>3. Reward(p) \in Int /\ Reward(q) \in Int BY <1>3, <2>1
  <2> QED BY <2>2, <2>3
<1> QED BY <1>3, <1>5, <1>6

(* What a search hands out: its best terminal or the system's abstention. *)
LEMMA HandedOut ==
    ASSUME SearchInv, NEW p \in IF Best # {} THEN Best ELSE {SystemAbstain}
    PROVE  ResultOK(SearchResult(p))
<1> DEFINE r == SearchResult(p)
<1>1. /\ r.version = search.model /\ r.path = p
      /\ r.reward = Reward(p)
      /\ r.targets = IF p = SystemAbstain THEN <<>> ELSE Targets(p)
  BY DEF SearchResult
<1>2. r.feasible = Feasible(p) BY DEF SearchResult
<1>3. r.version \in Models BY <1>1 DEF SearchInv, TypeOK
<1>4. /\ Terminal(p) /\ Feasible(p)
      /\ \/ p = SystemAbstain
         \/ p \in Seq(DOMAIN Move) /\ Replays(scenario, p, search.model.benched)
  <2>1. CASE p = SystemAbstain BY <2>1, AbstainFacts
  <2>2. CASE p # SystemAbstain
    <3>1. p \in Nodes /\ Terminal(p) /\ Feasible(p)
      BY <2>2 DEF Best, FeasibleTerminals
    <3> QED BY <3>1 DEF SearchInv, TreeOK
  <2> QED BY <2>1, <2>2
<1>5. /\ DOMAIN r.targets \subseteq Prefixes(p) \ {p}
      /\ \A q \in DOMAIN r.targets :
           r.targets[q] = Legal(scenario, q, search.model.benched)
  <2>1. CASE p = SystemAbstain
    <3>1. DOMAIN r.targets = {}
      <4>1. r.targets = <<>> BY <1>1, <2>1
      <4>2. DOMAIN <<>> = 1..0 BY EmptySeq, LenProperties
      <4> QED BY <4>1, <4>2
    <3> QED BY <3>1
  <2>2. CASE p # SystemAbstain
    <3>1. r.targets = Targets(p) BY <1>1, <2>2
    <3> QED BY <3>1 DEF Targets, Candidates
  <2> QED BY <2>1, <2>2
<1> HIDE DEF r
<1>6. ResultOK(r)
  <2>1. r.feasible = Feasible(r.path) BY <1>1, <1>2, Zenon
  <2> QED BY <1>1, <1>3, <1>4, <1>5, <2>1 DEF ResultOK
<1> QED BY <1>6 DEF r

(* The end of a search hands out the best of its tree. *)
LEMMA FinishInv ==
    ASSUME SearchInv, Finish
    PROVE  SearchInv'
<1>1. PICK p \in IF Best # {} THEN Best ELSE {SystemAbstain} :
        results' = results \union {SearchResult(p)}
  BY DEF Finish
<1>2. UNCHANGED <<scenario, model, searches, learned>> BY DEF Finish
<1>3. /\ DOMAIN search' = DOMAIN search /\ search'.pc = "idle"
      /\ search'.tree = search.tree /\ search'.model = search.model
  BY DEF Finish, SearchInv, TypeOK
<1>4. TypeOK'
  <2>2. [result : results, rounds : Nat] \subseteq [result : results', rounds : Nat]
    BY <1>1
  <2>1. learned' \in Seq([result : results', rounds : Nat])
    BY <1>2, <2>2, SeqMonotonic DEF SearchInv, TypeOK
  <2> QED BY <1>2, <1>3, <2>1 DEF SearchInv, TypeOK
<1>5. TreeOK' BY <1>2, <1>3, TreeParts, TreePartsNext DEF SearchInv
<1>6. ASSUME NEW r \in results' PROVE ResultOK(r)'
  <2>1. ResultOK(r) BY <1>1, HandedOut DEF SearchInv
  <2> QED BY <1>2, <2>1 DEF ResultOK
<1>7. BestHandedOut'
  <2>1. PICK r : r = SearchResult(p) OBVIOUS
  <2>2. r \in results' /\ r.version = search'.model /\ r.reward = Reward(p)
    BY <1>1, <1>3, <2>1 DEF SearchResult
  <2>3. ASSUME NEW q \in Nodes', Terminal(q), Feasible(q)
        PROVE  Reward(q) <= r.reward
    <3>1. q \in FeasibleTerminals BY <1>3, <2>3 DEF FeasibleTerminals, Nodes, Tree
    <3>2. Best # {} BY <3>1, BestFacts
    <3> QED BY <2>2, <3>1, <3>2, BestFacts
  <2> QED BY <2>2, <2>3 DEF BestHandedOut
<1> QED BY <1>2, <1>4, <1>5, <1>6, <1>7, OrderKept DEF SearchInv

(* Learning appends a result of the current model. *)
LEMMA LearnInv ==
    ASSUME SearchInv, NEW r \in results, Learn(r)
    PROVE  SearchInv'
<1> DEFINE entry == [result |-> r, rounds |-> model.rounds]
<1>1. /\ learned' = Append(learned, entry) /\ r.version = model
      /\ UNCHANGED <<scenario, search, searches, results>>
  BY DEF Learn, Accepts
<1>2. Updates(r) \in Nat BY UpdatesNat DEF SearchInv
<1>3. /\ model \in Models /\ Len(learned) \in Nat
      /\ learned \in Seq([result : results, rounds : Nat])
  BY LenProperties DEF SearchInv, TypeOK
<1>4. /\ model' \in Models
      /\ model'.generation = model.generation + 1
      /\ model'.updates = model.updates + Updates(r)
      /\ model'.benched = model.benched
  <2>1. model' = [model EXCEPT !.generation = model.generation + 1,
                               !.updates = model.updates + Updates(r)]
    BY DEF Learn
  <2>2. /\ model.generation + 1 \in Nat /\ model.updates + Updates(r) \in Nat
    BY <1>2, <1>3 DEF Models
  <2> QED BY <1>3, <2>1, <2>2 DEF Models
<1>11. entry \in [result : results, rounds : Nat] BY <1>3 DEF Models
<1>12. entry.result = r /\ entry.rounds = model.rounds OBVIOUS
<1> HIDE DEF entry
<1>5. /\ learned' \in Seq([result : results, rounds : Nat])
      /\ Len(learned') = Len(learned) + 1
      /\ \A k \in 1..Len(learned) : learned'[k] = learned[k]
      /\ learned'[Len(learned) + 1] = entry
      /\ DOMAIN learned' = 1..(Len(learned) + 1)
      /\ DOMAIN learned = 1..Len(learned)
  BY <1>1, <1>3, <1>11, AppendProperties, LenProperties
<1>6. TypeOK' BY <1>1, <1>4, <1>5 DEF SearchInv, TypeOK
<1>7. TreeOK' BY <1>1, TreeParts, TreePartsNext DEF SearchInv
<1>8. \A s \in results' : ResultOK(s)' BY <1>1, ResultsKept
<1>9. BestHandedOut' BY <1>1 DEF SearchInv, BestHandedOut, Nodes, Tree
<1>10. LearnedInOrder'
  <2>1. /\ model.generation = Len(learned)
        /\ model.updates = UpdatesAfter(learned, Len(learned))
        /\ \A k \in DOMAIN learned :
             /\ learned[k].result.version.generation = k - 1
             /\ learned[k].result.version.updates = UpdatesAfter(learned, k - 1)
             /\ learned[k].result.version.rounds = learned[k].rounds
    BY DEF SearchInv, LearnedInOrder
  <2>2. ASSUME NEW k \in 0..Len(learned)
        PROVE  UpdatesAfter(learned', k) = UpdatesAfter(learned, k)
    BY <1>3, <1>5 DEF UpdatesAfter
  <2>3. UpdatesAfter(learned', Len(learned')) = model.updates + Updates(r)
    BY <1>1, <1>3, <1>5, <1>12 DEF UpdatesAfter
  <2>4. ASSUME NEW k \in DOMAIN learned'
        PROVE  /\ learned'[k].result.version.generation = k - 1
               /\ learned'[k].result.version.updates = UpdatesAfter(learned', k - 1)
               /\ learned'[k].result.version.rounds = learned'[k].rounds
    <3>1. CASE k = Len(learned) + 1
      <4>1. k - 1 = Len(learned) /\ k - 1 \in 0..Len(learned) BY <1>3, <3>1
      <4> QED BY <1>1, <1>3, <1>4, <1>5, <1>12, <2>1, <2>2, <3>1, <4>1
    <3>2. CASE k \in DOMAIN learned
      <4>1. k - 1 \in 0..Len(learned) BY <1>3, <1>5, <3>2
      <4> QED BY <1>4, <1>5, <2>1, <2>2, <3>2, <4>1
    <3> QED BY <1>3, <1>5, <3>1, <3>2
  <2> QED BY <1>4, <1>5, <2>1, <2>3, <2>4 DEF LearnedInOrder
<1> QED BY <1>6, <1>7, <1>8, <1>9, <1>10 DEF SearchInv

(* A shadow round only benches more agents. *)
LEMMA ShadowInv ==
    ASSUME SearchInv, Shadow
    PROVE  SearchInv'
<1> DEFINE newly == NewlyBenched(scenario, model.benched, model.rounds + 1)
<1>1. UNCHANGED <<scenario, search, searches, results, learned>> BY DEF Shadow
<1>2. newly \subseteq Agents BY ScenarioFacts DEF SearchInv, TypeOK
<1> HIDE DEF newly
<1>3. model \in Models BY DEF SearchInv, TypeOK
<1>4. /\ model' \in Models
      /\ model'.generation = model.generation /\ model'.updates = model.updates
      /\ model'.benched = model.benched \union newly
  <2>1. model' = [model EXCEPT !.rounds = model.rounds + 1,
                               !.benched = model.benched \union newly]
    BY DEF Shadow, newly
  <2>2. /\ model.rounds + 1 \in Nat
        /\ model.benched \union newly \in SUBSET Agents
    BY <1>2, <1>3 DEF Models
  <2> QED BY <1>3, <2>1, <2>2 DEF Models
<1>5. TypeOK' BY <1>1, <1>4 DEF SearchInv, TypeOK
<1>6. TreeOK' BY <1>1, TreeParts, TreePartsNext DEF SearchInv
<1>7. \A s \in results' : ResultOK(s)' BY <1>1, ResultsKept
<1>8. BestHandedOut' BY <1>1 DEF SearchInv, BestHandedOut, Nodes, Tree
<1>9. LearnedInOrder'
  BY <1>1, <1>4 DEF SearchInv, LearnedInOrder, UpdatesAfter
<1> QED BY <1>5, <1>6, <1>7, <1>8, <1>9 DEF SearchInv

(* Every step keeps the invariant. *)
LEMMA NextInv == SearchInv /\ [Next]_vars => SearchInv'
<1> SUFFICES ASSUME SearchInv, [Next]_vars PROVE SearchInv' OBVIOUS
<1>1. CASE UNCHANGED vars
  <2>1. UNCHANGED <<scenario, model, search, searches, results, learned>>
    BY <1>1 DEF vars
  <2>2. TypeOK' BY <2>1 DEF SearchInv, TypeOK
  <2>3. TreeOK' BY <2>1, TreeParts, TreePartsNext DEF SearchInv
  <2>4. BestHandedOut' BY <2>1 DEF SearchInv, BestHandedOut, Nodes, Tree
  <2>5. \A r \in results' : ResultOK(r)' BY <2>1, ResultsKept
  <2> QED BY <2>1, <2>2, <2>3, <2>4, <2>5, OrderKept DEF SearchInv
<1>2. ASSUME NEW n \in Budgets, Construct(n) PROVE SearchInv'
  BY <1>2, ConstructInv
<1>3. CASE Simulate BY <1>3, SimulateInv
<1>4. CASE Finish BY <1>4, FinishInv
<1>5. ASSUME NEW r \in results, Learn(r) PROVE SearchInv' BY <1>5, LearnInv
<1>6. ASSUME NEW r \in results, LearnRefused(r) PROVE UNCHANGED vars
  BY <1>6 DEF LearnRefused
<1>7. CASE Shadow BY <1>7, ShadowInv
<1> QED BY <1>1, <1>2, <1>3, <1>4, <1>5, <1>6, <1>7 DEF Next

-----------------------------------------------------------------------------
(* Theorems *)

(* Every reachable state is in order: the tree of PUCTSearch, the results it
   handed out, the best of them, and the generations of the model. *)
THEOREM SearchAlways == Spec => []SearchInv
BY InitInv, NextInv, PTL DEF Spec

(* Backpropagation conserves visits: in the middle of a search each node was
   visited as often as its children, and once more when it was expanded. *)
THEOREM VisitsAreConserved == Spec => []VisitsConserved
<1>1. SearchInv => VisitsConserved
  BY DEF SearchInv, TreeOK, VisitsConserved
<1> QED BY <1>1, SearchAlways, PTL

(* A committed result passed every gate. *)
LEMMA CommitsPass ==
    ASSUME SearchInv, NEW r \in results, Committed(r.path)
    PROVE  /\ r.reward > AbstainReward
           /\ \E m \in MovesOf(r.path) : m.evidence
           /\ \A m \in MovesOf(r.path) :
                /\ ~m.violates /\ m.actor \notin r.version.benched
                /\ m.receipt[SafetyIndex] >= CriticalSafety
<1>1. ScenarioOK(scenario) BY ScenarioFacts DEF SearchInv, TypeOK
<1>2. /\ r.path \in Seq(Ids) /\ Replays(scenario, r.path, r.version.benched)
      /\ Feasible(r.path) /\ r.reward = Reward(r.path)
  BY AbstainFacts DEF SearchInv, ResultOK, Ids
<1>3. /\ r.path \in Paths
      /\ \A k \in DOMAIN r.path : Move[r.path[k]].actor \notin r.version.benched
  BY <1>1, <1>2, ReplaysPaths
<1>4. r.reward > AbstainReward BY <1>2, <1>3, FixtureArithmetic
<1>5. ~Abstained(r.path) BY <1>3, CommitIsLast
<1>6. /\ \E m \in MovesOf(r.path) : m.evidence
      /\ \A m \in MovesOf(r.path) :
           ~m.violates /\ m.receipt[SafetyIndex] >= CriticalSafety
  BY <1>2, <1>5 DEF Feasible
<1>7. \A m \in MovesOf(r.path) : m.actor \notin r.version.benched
  BY <1>3 DEF MovesOf
<1> QED BY <1>4, <1>6, <1>7

(* What run returns passed every gate and is worth no less than anything
   feasible in its tree; a commit cites evidence, beats abstaining, violates
   nothing and holds no move of an agent benched when the search began. *)
THEOREM ResultsAreSafe == Spec => []NeverUnsafe
<1>1. ASSUME SearchInv PROVE NeverUnsafe
  <2>1. ASSUME NEW r \in results PROVE r.feasible
    BY <1>1 DEF SearchInv, ResultOK
  <2>2. ASSUME NEW r \in results, Committed(r.path)
        PROVE  /\ r.reward > AbstainReward
               /\ \E m \in MovesOf(r.path) : m.evidence
               /\ \A m \in MovesOf(r.path) :
                    /\ ~m.violates /\ m.actor \notin r.version.benched
                    /\ m.receipt[SafetyIndex] >= CriticalSafety
    BY <1>1, <2>2, CommitsPass
  <2>3. BestHandedOut BY <1>1 DEF SearchInv
  <2> QED BY <2>1, <2>2, <2>3 DEF NeverUnsafe, BestHandedOut
<1> QED BY <1>1, SearchAlways, PTL

(* learn_from_result never refuses what a search over the current model
   returned. *)
THEOREM OwnResultsAreAccepted == Spec => []OwnResultAccepted
<1>1. ASSUME SearchInv, NEW r \in results, r.version = model PROVE Accepts(r)
  <2>1. ResultOK(r) BY <1>1 DEF SearchInv
  <2>2. r.feasible = Feasible(r.path) BY <2>1 DEF ResultOK
  <2> QED BY <1>1, <2>1, <2>2 DEF ResultOK, Accepts
<1>2. SearchInv => OwnResultAccepted BY <1>1 DEF OwnResultAccepted
<1> QED BY <1>2, SearchAlways, PTL

(* Generations follow each other: each was learned from a result of its direct
   predecessor with no shadow round in between, and value_updates counts
   exactly their targets. *)
THEOREM LearnedOneByOne == Spec => []LearnedInOrder
<1>1. SearchInv => LearnedInOrder BY DEF SearchInv
<1> QED BY <1>1, SearchAlways, PTL

(* The longest node that selection can reach has an untried move or no move:
   otherwise one of its children is longer. *)
THEOREM SimulationsEnd == Spec => []SimulationEnds
<1>1. ASSUME SearchInv PROVE SimulationEnds
  <2>1. ScenarioOK(scenario) BY <1>1, ScenarioFacts DEF SearchInv, TypeOK
  <2>2. /\ <<>> \in Nodes
        /\ \A p \in Nodes :
             /\ p \in Seq(Ids) /\ Len(p) \in Nat
             /\ Replays(scenario, p, search.model.benched)
    BY <1>1, LenProperties DEF SearchInv, TreeOK, Ids
  <2>3. \A p \in Nodes : 4 - Len(p) \in Nat
    BY <2>1, <2>2, ReplaysPaths
  <2> DEFINE N == {4 - Len(p) : p \in {n \in Nodes : Selectable(n)}}
  <2>4. Selectable(<<>>) BY RootPrefixes DEF Selectable
  <2>5. N \in SUBSET Nat /\ N # {} BY <2>2, <2>3, <2>4
  <2>6. PICK k \in N : \A j \in N : k <= j BY <2>5, LeastElement
  <2>7. PICK p \in Nodes : Selectable(p) /\ k = 4 - Len(p) BY <2>6
  <2> SUFFICES ASSUME Leaves = {} PROVE FALSE BY DEF SimulationEnds
  <2>8. Unexpanded(p) = {} /\ Candidates(p) # {}
    <3> DEFINE E(n) == IF Unexpanded(n) # {}
                       THEN {Append(n, m) : m \in Unexpanded(n)}
                       ELSE IF Candidates(n) = {} THEN {n} ELSE {}
    <3>1. Leaves = UNION {E(n) : n \in {x \in Nodes : Selectable(x)}}
      BY DEF Leaves
    <3> HIDE DEF E
    <3>2. E(p) \subseteq Leaves BY <2>7, <3>1
    <3>3. E(p) = {} BY <3>2
    <3> QED BY <3>3 DEF E
  <2>9. PICK m \in Candidates(p) : Append(p, m) \in Nodes
    BY <2>8 DEF Unexpanded
  <2> DEFINE q == Append(p, m)
  <2>10. p \in Seq(Ids) /\ Len(p) \in Nat /\ m \in Ids
    BY <2>1, <2>2, <2>9, LegalFacts DEF Candidates
  <2>11. /\ q \in Seq(Ids) /\ Len(q) = Len(p) + 1
         /\ \A n \in 0..Len(p) : Cut(q, n) = Cut(p, n)
    BY <2>10, CutAppend
  <2> HIDE DEF q, N
  <2>12. ASSUME NEW x \in Prefixes(q) \ {q} PROVE Unexpanded(x) = {}
    <3>1. PICK n \in 0..Len(q) : x = Cut(q, n) BY <2>11, PrefixesFacts
    <3>2. n # Len(q) BY <2>11, <3>1, CutWhole
    <3>3. n \in 0..Len(p) BY <2>10, <2>11, <3>1, <3>2
    <3>4. x \in Prefixes(p) BY <2>10, <2>11, <3>1, <3>3, PrefixesFacts
    <3>5. CASE x = p BY <2>8, <3>5
    <3>6. CASE x # p BY <2>7, <3>4, <3>6 DEF Selectable
    <3> QED BY <3>5, <3>6
  <2>13. Selectable(q) /\ q \in Nodes BY <2>9, <2>12 DEF Selectable, q
  <2>14. 4 - Len(q) \in N BY <2>13 DEF N
  <2>15. k <= 4 - Len(q) BY <2>6, <2>14
  <2> QED BY <2>7, <2>10, <2>11, <2>15
<1> QED BY <1>1, SearchAlways, PTL

=============================================================================
