--------------------------- MODULE MCArtifactStore ---------------------------
(***************************************************************************)
(* Small instances of ArtifactStore for TLC.  Two objects whose layouts    *)
(* share chunk 1, so that a chunk of a retired version may still be used   *)
(* by a live one; the placement of the chunks on the nodes differs.        *)
(***************************************************************************)
EXTENDS ArtifactStore, TLC

CONSTANTS s1, s2, a1, a2, o1, o2, g1, g2, r1, r2, p1, p2, k1, k2, q1, q2

MCScore == [c \in Chunks |-> [n \in Nodes |-> IF c % 2 = 1 THEN n ELSE 10 - n]]

(* Session s1 is for lineage a1, s2 for a2. *)
MCSessionLineage == [s \in Sessions |-> IF s = s1 THEN a1 ELSE a2]

(* Layout 1 is object o1 in one chunk, layout 2 object o2 in two. *)
MCLayoutObject == [l \in Layouts |-> IF l = 1 THEN o1 ELSE o2]
MCLayoutChunks == [l \in Layouts |-> IF l = 1 THEN {1} ELSE {1, 2}]
MCSessionLayouts == [s \in Sessions |-> Layouts]

(* One pusher per session, one collector per GC run. *)
MCPusherSession == [p \in Pushers |-> IF p = p1 THEN s1 ELSE s2]
MCCollectorRun == [k \in Collectors |-> IF k = k1 THEN g1 ELSE g2]
MCRepairerRun == [r \in Repairers |-> IF r = q1 THEN r1 ELSE r2]

(* A command that was run again while the first process is still at work:  *)
(* two pushers on one session, two collectors on one run.                  *)
MCSameSession == [p \in Pushers |-> s1]
MCSameRun == [k \in Collectors |-> g1]
MCSameRepairRun == [r \in Repairers |-> r1]

(* Processes that run the same command are interchangeable.                *)
MCSameCommand == Permutations(Pushers) \cup Permutations(Collectors)
MCSameRepair == Permutations(Repairers)

=============================================================================
