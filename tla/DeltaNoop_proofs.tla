--------------------------- MODULE DeltaNoop_proofs ---------------------------
(***************************************************************************)
(* Proofs about histories and deltas, for every history, any nodes and     *)
(* resources and any catalogs.                                             *)
(***************************************************************************)
EXTENDS DeltaNoop, TLAPS, WellFoundedInduction

-----------------------------------------------------------------------------
(* The lineage of a commit.                                                *)

\* The recursive definition is one of a function: the least set that holds the commit
\* and the parents of what it holds satisfies it.
Closed(S) == S \subseteq Commit /\ \A d \in S : Parents[d] \subseteq S
Reached(c) == {d \in Commit : \A S \in SUBSET Commit : c \in S /\ Closed(S) => d \in S}

LEMMA ReachedUnfolds ==
  ASSUME NEW c \in Commit
  PROVE  Reached(c) = {c} \cup UNION {Reached(p) : p \in Parents[c]}
<1> USE DeltaNoopAssumption
<1> DEFINE U == {c} \cup UNION {Reached(p) : p \in Parents[c]}
<1>1. Parents[c] \subseteq Commit
  OBVIOUS
<1>2. \A p \in Commit : p \in Reached(p) /\ Closed(Reached(p))
  BY DEF Reached, Closed
<1>3. Closed(U) /\ c \in U
  <2>1. U \subseteq Commit
    BY DEF Reached
  <2>2. Parents[c] \subseteq U
    BY <1>1, <1>2
  <2>3. ASSUME NEW p \in Parents[c], NEW d \in Reached(p) PROVE Parents[d] \subseteq U
    BY <1>1, <1>2, <2>3 DEF Closed
  <2>4. \A d \in U : d = c \/ \E p \in Parents[c] : d \in Reached(p)
    OBVIOUS
  <2>5. c \in U
    OBVIOUS
  <2> HIDE DEF U
  <2> QED
    BY <2>1, <2>2, <2>3, <2>4, <2>5 DEF Closed
<1>4. Reached(c) \subseteq U
  <2> HIDE DEF U
  <2> QED
    BY <1>3 DEF Reached, Closed
<1>5. \A p \in Parents[c] : Reached(p) \subseteq Reached(c)
  BY <1>1 DEF Reached, Closed
<1> QED
  BY <1>2, <1>4, <1>5

LEMMA LineageUnfolds ==
  \A c \in Commit : Lineage[c] = {c} \cup UNION {Lineage[p] : p \in Parents[c]}
<1> DEFINE F(f) == [c \in Commit |-> {c} \cup UNION {f[p] : p \in Parents[c]}]
           g == [c \in Commit |-> Reached(c)]
<1>1. g = F(g)
  <2>1. ASSUME NEW c \in Commit
        PROVE  {c} \cup UNION {g[p] : p \in Parents[c]} = Reached(c)
    <3>1. \A p \in Parents[c] : g[p] = Reached(p)
      BY DeltaNoopAssumption
    <3>2. {g[p] : p \in Parents[c]} = {Reached(p) : p \in Parents[c]}
      BY <3>1
    <3> QED
      BY <3>2, ReachedUnfolds
  <2> QED
    BY <2>1
<1>2. Lineage = CHOOSE f : f = F(f)
  BY DEF Lineage
<1> HIDE DEF g
<1>3. \E f : f = F(f)
  BY <1>1
<1>4. Lineage = F(Lineage)
  BY <1>2, <1>3, Zenon
<1> QED
  BY <1>4

\* Among commits, as among any natural numbers, some have a least one.
LEMMA Below == ASSUME NEW d \in Nat, NEW c \in Nat, ~(d < c) PROVE c <= d
OBVIOUS

LEMMA LeastCommit ==
  ASSUME NEW S \in SUBSET Commit, S # {}
  PROVE  \E c \in S : \A d \in S : c <= d
<1>1. S \in SUBSET Nat
  BY DeltaNoopAssumption
<1>2. \A d, e \in Nat : d < e => <<d, e>> \in OpToRel(<, Nat)
  BY Zenon DEF OpToRel
<1>3. PICK c \in S : \A d \in S : ~(<<d, c>> \in OpToRel(<, Nat))
  BY <1>1, NatLessThanWellFounded, WFMin, Zenon
<1>4. \A d \in S : c <= d
  BY <1>1, <1>2, <1>3, Below, Zenon
<1> QED
  BY <1>4, Zenon

LEMMA OwnLineage == \A c \in Commit : c \in Lineage[c]
BY LineageUnfolds

LEMMA ParentsLineage ==
  ASSUME NEW c \in Commit, NEW p \in Parents[c]
  PROVE  p \in Commit /\ p < c /\ Lineage[p] \subseteq Lineage[c]
BY LineageUnfolds, DeltaNoopAssumption

\* A commit's ancestors are commits, and are numbered below it.
LEMMA LineageOrder == \A c \in Commit : \A d \in Lineage[c] : d \in Commit /\ d <= c
<1> DEFINE Bad == {c \in Commit : \E d \in Lineage[c] : ~(d \in Commit /\ d <= c)}
<1>1. SUFFICES ASSUME Bad # {} PROVE FALSE
  OBVIOUS
<1>2. PICK c \in Bad : \A d \in Bad : c <= d
  BY <1>1, LeastCommit
<1>3. PICK d \in Lineage[c] : ~(d \in Commit /\ d <= c)
  OBVIOUS
<1>4. c \in Commit /\ c \in Nat
  BY DeltaNoopAssumption
<1>5. CASE d = c
  BY <1>3, <1>4, <1>5
<1>6. ASSUME NEW p \in Parents[c], d \in Lineage[p] PROVE FALSE
  <2>1. p \in Commit /\ p < c /\ p \in Nat
    BY <1>4, ParentsLineage, DeltaNoopAssumption
  <2>2. p \notin Bad
    BY <1>2, <1>4, <2>1
  <2>3. d \in Commit /\ d <= p
    BY <1>6, <2>1, <2>2
  <2> QED
    BY <1>3, <1>4, <2>1, <2>3, DeltaNoopAssumption
<1> QED
  BY <1>4, <1>3, <1>5, <1>6, LineageUnfolds

\* The ancestors of an ancestor are ancestors.
LEMMA LineageTransitive == \A c \in Commit : \A d \in Lineage[c] : Lineage[d] \subseteq Lineage[c]
<1> DEFINE Bad == {c \in Commit : \E d \in Lineage[c] : ~(Lineage[d] \subseteq Lineage[c])}
<1>1. SUFFICES ASSUME Bad # {} PROVE FALSE
  OBVIOUS
<1>2. PICK c \in Bad : \A d \in Bad : c <= d
  BY <1>1, LeastCommit
<1>3. PICK d \in Lineage[c] : ~(Lineage[d] \subseteq Lineage[c])
  OBVIOUS
<1>4. c \in Commit /\ c \in Nat
  BY DeltaNoopAssumption
<1>5. ASSUME NEW p \in Parents[c], d \in Lineage[p] PROVE FALSE
  <2>1. p \in Commit /\ p < c /\ p \in Nat /\ Lineage[p] \subseteq Lineage[c]
    BY <1>4, ParentsLineage, DeltaNoopAssumption
  <2>2. p \notin Bad
    BY <1>2, <1>4, <2>1
  <2> QED
    BY <1>3, <1>5, <2>1, <2>2
<1> QED
  BY <1>3, <1>4, <1>5, LineageUnfolds

\* Two commits that are each other's ancestors are one.
LEMMA LineageAntisymmetric ==
  ASSUME NEW c \in Commit, NEW d \in Commit, c \in Lineage[d], d \in Lineage[c]
  PROVE  c = d
BY LineageOrder, DeltaNoopAssumption

-----------------------------------------------------------------------------
(* Groups.                                                                 *)

\* Whatever node each group was begun at, a node is listed with the resources of its
\* delta, and with no other.
THEOREM GroupsListDeltas ==
  ASSUME NEW delta, NEW groups \in groupResources(delta), NEW n \in Node, NEW r \in Resource,
         \A m \in DOMAIN delta : \A d \in delta[m] : d.resource \in Resource
  PROVE  (\E g \in groups : g.shown.resource = r /\ n \in g.hosts)
           <=> n \in DOMAIN delta /\ \E d \in delta[n] : d.resource = r
<1> DEFINE classes == {k \in Resource \X File : Having(delta, k[1], k[2]) # {}}
           Group(first, k) == [shown |-> DeltaOf(delta, first[k], k[1]),
                               hosts |-> Having(delta, k[1], k[2])]
<1>1. PICK first \in [classes -> DOMAIN delta] :
        /\ \A k \in classes : first[k] \in Having(delta, k[1], k[2])
        /\ groups = {Group(first, k) : k \in classes}
  BY DEF groupResources
<1>2. ASSUME NEW k \in classes
      PROVE  Group(first, k).shown.resource = k[1]
  <2>1. first[k] \in Having(delta, k[1], k[2])
    BY <1>1
  <2>2. \E d \in delta[first[k]] : d.resource = k[1]
    BY <2>1 DEF Having
  <2> QED
    BY <2>2 DEF DeltaOf
<1>3. ASSUME NEW g \in groups, g.shown.resource = r, n \in g.hosts
      PROVE  n \in DOMAIN delta /\ \E d \in delta[n] : d.resource = r
  <2>1. PICK k \in classes : g = Group(first, k)
    BY <1>1
  <2>2. k[1] = r /\ n \in Having(delta, k[1], k[2])
    BY <1>2, <1>3, <2>1
  <2> QED
    BY <2>2 DEF Having
<1>4. ASSUME n \in DOMAIN delta, NEW d \in delta[n], d.resource = r
      PROVE  \E g \in groups : g.shown.resource = r /\ n \in g.hosts
  <2> DEFINE k == <<r, FileOf[n][r]>>
  <2>1. n \in Having(delta, k[1], k[2])
    BY <1>4 DEF Having
  <2>2. k \in classes /\ k[1] = r
    BY <2>1, DeltaNoopAssumption
  <2>3. Group(first, k) \in groups /\ Group(first, k).shown.resource = r
    BY <1>1, <1>2, <2>2
  <2> QED
    BY <2>1, <2>3
<1> QED
  BY <1>3, <1>4
=============================================================================
