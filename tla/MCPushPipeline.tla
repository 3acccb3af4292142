--------------------------- MODULE MCPushPipeline ---------------------------
(***************************************************************************)
(* A file of three reads with a repeated chunk, and replicas on one node   *)
(* or on two, in an order that depends on the chunk.                       *)
(***************************************************************************)
EXTENDS PushPipeline

CONSTANTS c1, c2, c3, n1, n2

MCDesired == [c \in Chunks |-> IF c = c1 THEN <<n1, n2>> ELSE <<n2>>]
MCReads == <<<<c1, c1>>, <<c2>>, <<>>>>
MCRest == <<c3, c1>>
=============================================================================
