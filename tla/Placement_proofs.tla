-------------------------- MODULE Placement_proofs --------------------------
(***************************************************************************)
(* Machine-checked facts about rendezvous placement, for every digest and  *)
(* every set of nodes.  The sort order of select_replica_nodes is a strict *)
(* total order on the nodes; the proofs go by the sets of the nodes that   *)
(* outrank a node.                                                         *)
(***************************************************************************)
EXTENDS Placement, FiniteSetTheorems, TLAPS

Outranking(c, P, n) == {m \in P : Outranks(c, m, n)}

LEMMA OutranksOrder ==
    ASSUME NEW c \in Chunks, NEW m \in Nodes, NEW n \in Nodes, NEW k \in Nodes
    PROVE  /\ ~Outranks(c, m, m)
           /\ Outranks(c, k, m) /\ Outranks(c, m, n) => Outranks(c, k, n)
           /\ m # n => Outranks(c, m, n) \/ Outranks(c, n, m)
<1>1. /\ m \in Nat /\ n \in Nat /\ k \in Nat
      /\ Score[c][m] \in Nat /\ Score[c][n] \in Nat /\ Score[c][k] \in Nat
    BY PlacementAssumption
<1> QED
    BY <1>1 DEF Outranks

LEMMA OutrankingFinite ==
    ASSUME NEW c \in Chunks, NEW P \in SUBSET Nodes, NEW n \in P
    PROVE  /\ Outranking(c, P, n) \in SUBSET Nodes
           /\ IsFiniteSet(Outranking(c, P, n))
           /\ Cardinality(Outranking(c, P, n)) \in Nat
<1> DEFINE D == Outranking(c, P, n)
<1>1. D \in SUBSET Nodes
    BY DEF Outranking
<1> HIDE DEF D
<1>2. IsFiniteSet(D)
    BY <1>1, FS_Subset, PlacementAssumption
<1> QED
    BY <1>1, <1>2, FS_CardinalityType DEF D

(* A node that outranks n is outranked by fewer nodes than n. *)
LEMMA FewerOutrank ==
    ASSUME NEW c \in Chunks, NEW P \in SUBSET Nodes, NEW m \in P, NEW n \in P,
           Outranks(c, m, n)
    PROVE  /\ IsFiniteSet(Outranking(c, P, m)) /\ IsFiniteSet(Outranking(c, P, n))
           /\ Outranking(c, P, m) \subseteq Outranking(c, P, n) \ {m}
           /\ Cardinality(Outranking(c, P, m)) \in Nat
           /\ Cardinality(Outranking(c, P, n)) \in Nat
           /\ Cardinality(Outranking(c, P, m)) < Cardinality(Outranking(c, P, n))
<1> DEFINE D == Outranking(c, P, m)  E == Outranking(c, P, n)
<1>1. /\ IsFiniteSet(D) /\ Cardinality(D) \in Nat
      /\ IsFiniteSet(E) /\ Cardinality(E) \in Nat
    BY OutrankingFinite
<1>2. D \subseteq E \ {m}
  <2> SUFFICES ASSUME NEW k \in P, Outranks(c, k, m) PROVE Outranks(c, k, n) /\ k # m
    BY DEF Outranking
  <2> QED
    BY OutranksOrder
<1>3. m \in E
    BY DEF Outranking
<1> HIDE DEF D, E
<1>4. IsFiniteSet(E \ {m}) /\ Cardinality(E \ {m}) = Cardinality(E) - 1
    BY <1>1, <1>3, FS_RemoveElement
<1>5. Cardinality(D) <= Cardinality(E \ {m})
    BY <1>2, <1>4, FS_Subset
<1>6. Cardinality(D) < Cardinality(E)
    BY <1>1, <1>4, <1>5
<1> QED
    BY <1>1, <1>2, <1>6 DEF D, E

(* select_replica_nodes never returns an empty list for a placement: the   *)
(* node no other one outranks is selected.                                 *)
THEOREM SelectNonEmpty ==
    ASSUME NEW c \in Chunks, NEW P \in SUBSET Nodes, P # {}, NEW rf \in Nat \ {0}
    PROVE  select_replica_nodes(c, P, rf) # {}
<1> DEFINE T == {Outranking(c, P, n) : n \in P}
<1>1. T \subseteq FiniteSubsetsOf(Nodes) /\ T # {}
  <2>1. \A n \in P : Outranking(c, P, n) \in FiniteSubsetsOf(Nodes)
    BY OutrankingFinite DEF FiniteSubsetsOf
  <2> QED
    BY <2>1
<1>2. IsWellFoundedOn(StrictSubsetOrdering(Nodes), FiniteSubsetsOf(Nodes))
    BY FS_StrictSubsetOrderingWellFounded
<1> HIDE DEF T
<1>3. PICK D \in T : \A E \in T : ~ (<<E, D>> \in StrictSubsetOrdering(Nodes))
    BY <1>1, <1>2, WFMin
<1>4. PICK n \in P : D = Outranking(c, P, n)
    BY <1>3 DEF T
<1>5. Outranking(c, P, n) = {}
  <2> SUFFICES ASSUME NEW m \in Outranking(c, P, n) PROVE FALSE
    OBVIOUS
  <2>1. m \in P /\ Outranks(c, m, n)
    BY DEF Outranking
  <2>2. /\ Outranking(c, P, m) \subseteq Outranking(c, P, n) \ {m}
        /\ Outranking(c, P, m) \in SUBSET Nodes /\ Outranking(c, P, n) \in SUBSET Nodes
    BY <2>1, FewerOutrank, OutrankingFinite
  <2>4. Outranking(c, P, m) \in T
    BY <2>1 DEF T
  <2>3. <<Outranking(c, P, m), Outranking(c, P, n)>> \in StrictSubsetOrdering(Nodes)
    BY <2>2 DEF StrictSubsetOrdering
  <2> QED
    BY <1>3, <1>4, <2>3, <2>4
<1>6. Cardinality(Outranking(c, P, n)) = 0
    BY <1>5, FS_EmptySet
<1> QED
    BY <1>4, <1>6 DEF select_replica_nodes, Outranking

(* The nodes of a placement that are not selected are outranked by all     *)
(* that are: the last selected node leaves rf - 1 others at most, and the  *)
(* first one that is not selected has rf selected nodes before it.         *)
LEMMA SelectAtLeast ==
    ASSUME NEW c \in Chunks, NEW P \in SUBSET Nodes, NEW rf \in Nat, rf <= Cardinality(P)
    PROVE  Cardinality(select_replica_nodes(c, P, rf)) >= rf
<1> DEFINE Top == select_replica_nodes(c, P, rf)
           W == P \ Top
           T == {Outranking(c, P, n) : n \in W}
<1>1. /\ IsFiniteSet(P) /\ Cardinality(P) \in Nat
      /\ Top \subseteq P /\ IsFiniteSet(Top) /\ Cardinality(Top) \in Nat
  <2>1. Top \subseteq P
    BY DEF select_replica_nodes
  <2> HIDE DEF Top
  <2> QED
    BY <2>1, FS_Subset, FS_CardinalityType, PlacementAssumption
<1>2. CASE W = {}
  <2>1. Top = P
    BY <1>1, <1>2
  <2> HIDE DEF Top
  <2> QED
    BY <1>1, <2>1 DEF Top
<1>3. CASE W # {}
  <2>1. T \subseteq FiniteSubsetsOf(Nodes) /\ T # {}
    <3>1. \A n \in W : Outranking(c, P, n) \in FiniteSubsetsOf(Nodes)
      BY OutrankingFinite DEF FiniteSubsetsOf
    <3> QED
      BY <1>3, <3>1
  <2>2. IsWellFoundedOn(StrictSubsetOrdering(Nodes), FiniteSubsetsOf(Nodes))
    BY FS_StrictSubsetOrderingWellFounded
  <2> HIDE DEF T
  <2>3. PICK D \in T : \A E \in T : ~ (<<E, D>> \in StrictSubsetOrdering(Nodes))
    BY <2>1, <2>2, WFMin
  <2>4. PICK n \in W : D = Outranking(c, P, n)
    BY <2>3 DEF T
  <2>5. Outranking(c, P, n) \subseteq Top
    <3> SUFFICES ASSUME NEW m \in Outranking(c, P, n), m \notin Top PROVE FALSE
      OBVIOUS
    <3>1. m \in P /\ Outranks(c, m, n) /\ m \in W
      BY DEF Outranking
    <3>2. /\ Outranking(c, P, m) \subseteq Outranking(c, P, n) \ {m}
          /\ Outranking(c, P, m) \in SUBSET Nodes /\ Outranking(c, P, n) \in SUBSET Nodes
      BY <3>1, FewerOutrank, OutrankingFinite
    <3>3. <<Outranking(c, P, m), Outranking(c, P, n)>> \in StrictSubsetOrdering(Nodes)
      BY <3>2 DEF StrictSubsetOrdering
    <3> QED
      BY <2>3, <2>4, <3>1, <3>3 DEF T
  <2>6. ~(Cardinality(Outranking(c, P, n)) < rf)
    BY DEF select_replica_nodes, Outranking
  <2> HIDE DEF Top, W
  <2>7. /\ Cardinality(Outranking(c, P, n)) \in Nat
        /\ Cardinality(Outranking(c, P, n)) <= Cardinality(Top)
    BY <1>1, <2>5, OutrankingFinite, FS_Subset DEF W
  <2>8. Cardinality(Top) >= rf
    BY <1>1, <2>6, <2>7
  <2> QED
    BY <2>8 DEF Top
<1> QED
    BY <1>2, <1>3

LEMMA SelectAtMost ==
    ASSUME NEW c \in Chunks, NEW P \in SUBSET Nodes, NEW rf \in Nat
    PROVE  Cardinality(select_replica_nodes(c, P, rf)) <= rf
<1> DEFINE Top == select_replica_nodes(c, P, rf)
           After(n) == {m \in Top : Outranks(c, n, m)}
           T == {After(n) : n \in Top}
<1>1. Top \subseteq P /\ Top \subseteq Nodes /\ IsFiniteSet(Top) /\ Cardinality(Top) \in Nat
  <2>1. Top \subseteq P /\ Top \subseteq Nodes
    BY DEF select_replica_nodes
  <2> HIDE DEF Top
  <2> QED
    BY <2>1, FS_Subset, FS_CardinalityType, PlacementAssumption
<1> HIDE DEF Top
<1>2. CASE Top = {}
    BY <1>2, FS_EmptySet DEF Top
<1>3. CASE Top # {}
  <2>1. T \subseteq FiniteSubsetsOf(Nodes) /\ T # {}
    <3>1. ASSUME NEW n \in Top PROVE After(n) \in FiniteSubsetsOf(Nodes)
      <4>1. After(n) \subseteq Top
        OBVIOUS
      <4> HIDE DEF After
      <4> QED
        BY <1>1, <4>1, FS_Subset DEF FiniteSubsetsOf
    <3> QED
      BY <1>3, <3>1
  <2>2. IsWellFoundedOn(StrictSubsetOrdering(Nodes), FiniteSubsetsOf(Nodes))
    BY FS_StrictSubsetOrderingWellFounded
  <2> HIDE DEF T
  <2>3. PICK D \in T : \A E \in T : ~ (<<E, D>> \in StrictSubsetOrdering(Nodes))
    BY <2>1, <2>2, WFMin
  <2>4. PICK n \in Top : D = After(n)
    BY <2>3 DEF T
  <2>5. After(n) = {}
    <3> SUFFICES ASSUME NEW m \in After(n) PROVE FALSE
      OBVIOUS
    <3>1. m \in Top /\ Outranks(c, n, m)
      OBVIOUS
    <3>2. After(m) \subseteq After(n) /\ m \notin After(m)
      BY <1>1, <3>1, OutranksOrder
    <3>3. <<After(m), After(n)>> \in StrictSubsetOrdering(Nodes)
      BY <1>1, <3>2 DEF StrictSubsetOrdering
    <3> QED
      BY <2>3, <2>4, <3>1, <3>3 DEF T
  <2>6. Top \ {n} \subseteq Outranking(c, P, n)
    BY <1>1, <2>5, OutranksOrder DEF Outranking
  <2>7. Cardinality(Outranking(c, P, n)) < rf /\ n \in P
    BY DEF Top, select_replica_nodes, Outranking
  <2>8. /\ IsFiniteSet(Outranking(c, P, n)) /\ Cardinality(Outranking(c, P, n)) \in Nat
        /\ Cardinality(Top \ {n}) = Cardinality(Top) - 1
    BY <1>1, <2>7, OutrankingFinite, FS_RemoveElement
  <2>9. Cardinality(Top \ {n}) <= Cardinality(Outranking(c, P, n))
    BY <2>6, <2>8, FS_Subset
  <2>10. Cardinality(Top) <= rf
    BY <1>1, <2>7, <2>8, <2>9
  <2> QED
    BY <2>10 DEF Top
<1> QED
    BY <1>2, <1>3

(* select_replica_nodes returns replication_factor nodes of a placement    *)
(* that is not smaller: no tie leaves a chunk with fewer or more replicas. *)
THEOREM SelectCount ==
    ASSUME NEW c \in Chunks, NEW P \in SUBSET Nodes, NEW rf \in Nat, rf <= Cardinality(P)
    PROVE  Cardinality(select_replica_nodes(c, P, rf)) = rf
<1>1. /\ Cardinality(select_replica_nodes(c, P, rf)) >= rf
      /\ Cardinality(select_replica_nodes(c, P, rf)) <= rf
    BY SelectAtLeast, SelectAtMost
<1>2. Cardinality(select_replica_nodes(c, P, rf)) \in Nat
  <2>1. select_replica_nodes(c, P, rf) \subseteq Nodes
    BY DEF select_replica_nodes
  <2> QED
    BY <2>1, FS_Subset, FS_CardinalityType, PlacementAssumption
<1> QED
    BY <1>1, <1>2

(* "Stable, decentralized placement" (docs/design-decisions.md): taking a  *)
(* node out of a snapshot moves no chunk the node was not selected for.    *)
THEOREM SelectStable ==
    ASSUME NEW c \in Chunks, NEW P \in SUBSET Nodes, NEW rf \in Nat,
           NEW m \in P, m \notin select_replica_nodes(c, P, rf)
    PROVE  select_replica_nodes(c, P \ {m}, rf) = select_replica_nodes(c, P, rf)
<1>1. ~(Cardinality(Outranking(c, P, m)) < rf)
    BY DEF select_replica_nodes, Outranking
<1>2. ASSUME NEW n \in P \ {m}
      PROVE  Cardinality(Outranking(c, P \ {m}, n)) < rf <=> Cardinality(Outranking(c, P, n)) < rf
  <2>1. CASE Outranks(c, m, n)
    <3> DEFINE E == Outranking(c, P, n)
    <3>1. Outranking(c, P \ {m}, n) = E \ {m} /\ m \in E
      BY <2>1 DEF Outranking
    <3>2. /\ IsFiniteSet(E) /\ Cardinality(E) \in Nat
          /\ Cardinality(Outranking(c, P, m)) \in Nat
          /\ Cardinality(Outranking(c, P, m)) < Cardinality(E)
      BY <2>1, FewerOutrank
    <3> HIDE DEF E
    <3>3. Cardinality(E \ {m}) = Cardinality(E) - 1
      BY <3>1, <3>2, FS_RemoveElement
    <3>4. Cardinality(E \ {m}) >= rf /\ Cardinality(E) >= rf
      BY <1>1, <3>2, <3>3
    <3>5. ~(Cardinality(E \ {m}) < rf) /\ ~(Cardinality(E) < rf)
      BY <3>2, <3>3, <3>4
    <3> QED
      BY <3>1, <3>5 DEF E
  <2>2. CASE ~Outranks(c, m, n)
    <3>1. Outranking(c, P \ {m}, n) = Outranking(c, P, n)
      BY <2>2 DEF Outranking
    <3> QED
      BY <3>1
  <2> QED
    BY <2>1, <2>2
<1> QED
    BY <1>2 DEF select_replica_nodes, Outranking

=============================================================================
