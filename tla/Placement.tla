------------------------------ MODULE Placement ------------------------------
(***************************************************************************)
(* Rendezvous placement (src/metadata/placement.cpp).  Every client and    *)
(* the metadata service compute, without talking to each other, the nodes  *)
(* that must hold a chunk: the nodes of a placement snapshot are ranked by *)
(* SHA-256(chunk, node), highest digest first, ties by node id, and the    *)
(* first replication_factor of them are selected.                          *)
(*                                                                         *)
(* Node ids are naturals, so that "<" is the order of the id strings.  The *)
(* digest is the constant Score: all the code uses of it is its order.     *)
(***************************************************************************)
EXTENDS Integers, FiniteSets

CONSTANTS Nodes,    \* storage node ids
          Chunks,   \* chunk ids (SHA-256 of the bytes); "<" is the id order
          Score     \* Score[c][n]: placement_digest(c, n)

ASSUME PlacementAssumption ==
    /\ Nodes \subseteq Nat /\ IsFiniteSet(Nodes) /\ Nodes # {}
    /\ Chunks \subseteq Nat \ {0}
    /\ Score \in [Chunks -> [Nodes -> Nat]]

(* The sort order of select_replica_nodes: m is ranked before n. *)
Outranks(c, m, n) ==
    \/ Score[c][m] > Score[c][n]
    \/ Score[c][m] = Score[c][n] /\ m < n

(* The first rf nodes of the ranking of P.  The callers guarantee          *)
(* 1 <= rf <= Cardinality(P), which the code checks (invalid_argument).    *)
select_replica_nodes(c, P, rf) ==
    {n \in P : Cardinality({m \in P : Outranks(c, m, n)}) < rf}

=============================================================================
