------------------------------- MODULE MCPull -------------------------------
(***************************************************************************)
(* A version of three chunks and one of a single chunk; a node that fails, *)
(* one that answers and one that has a replica now and then.               *)
(***************************************************************************)
EXTENDS Pull

CONSTANTS v1, v2

MCChunks == [v \in {v1, v2} |-> IF v = v1 THEN 3 ELSE 1]
MCLocated == {<<v, i, n>> \in Replicas : n = 2 \/ (n = 1 /\ i = 0)}
MCHealthy == {<<v, i, n>> \in Replicas : n = 2}
MCLate == {<<v1, 1, 0>>}
=============================================================================
