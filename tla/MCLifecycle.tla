---------------------------- MODULE MCLifecycle -----------------------------
(***************************************************************************)
(* Small instances of Lifecycle for TLC: one artifact with two versions of *)
(* one kind and, from the first object again, a version of another kind.   *)
(***************************************************************************)
EXTENDS Lifecycle

CONSTANTS s1, s2, s3, a1, a2, o1, o2, art, generic, model, pol1, pol2, m1, tag1

MCScore == [c \in Chunks |-> [n \in Nodes |-> n]]

MCSessionLineage == [s \in Sessions |-> IF s = s3 THEN a2 ELSE a1]
MCSessionLayouts == [s \in Sessions |-> IF s = s2 THEN {2} ELSE {1}]
MCLayoutObject == [l \in Layouts |-> IF l = 1 THEN o1 ELSE o2]
MCLayoutChunks == [l \in Layouts |-> (IF l = 1 THEN {1} ELSE {1, 2}) \cap Chunks]

MCLineageArtifact == [x \in Lineages |-> art]
MCLineageKind == [x \in Lineages |-> IF x = a1 THEN generic ELSE model]
MCVersionOrder ==
    [v \in Lineages \X Objects |-> (IF v[2] = o1 THEN 1 ELSE 2) + (IF v[1] = a1 THEN 0 ELSE 2)]

MCTagKeys == {<<art, tag1>>}
MCManifestVersions == [m \in {m1} |-> {<<a1, o2>>, <<a2, o1>>}]
MCNoTagKeys == {}
MCNoManifests == [m \in {} |-> {}]

(* One policy goes by number only, the other by age, too.                  *)
MCKeepLastN == [p \in Policies |-> [k \in ArtifactKinds |-> 1]]
MCMaxAge == [p \in Policies |-> [k \in ArtifactKinds |-> IF p = pol1 THEN NoAge ELSE 1]]

=============================================================================
