---------------------- MODULE MetadataRepository_proofs ----------------------
(***************************************************************************)
(* Lemmas about the transactions of module MetadataRepository, which the   *)
(* proofs about the modules that compose it have in common.                *)
(***************************************************************************)
EXTENDS MetadataRepository, Placement_proofs

USE DEF nodeVars, chunkVars, catalogVars, sessVars, gcVars, replVars, dbVars

(* Placement selects nodes of the snapshot it is given. *)
LEMMA SelectSubset ==
    ASSUME NEW c, NEW P, NEW rf
    PROVE  select_replica_nodes(c, P, rf) \subseteq P
BY DEF select_replica_nodes

(* A step of the metadata repository: one of its transactions, or none. *)
RepositoryStep ==
    \/ UNCHANGED dbVars
    \/ \E n \in Nodes, st \in NodeStates : register_storage_node(n, st)
    \/ \E s \in Sessions, B \in SUBSET Chunks : negotiate_chunks(s, B)
    \/ \E c \in Chunks, n \in Nodes : register_storage_location(c, n)
    \/ \E s \in Sessions, P \in SUBSET Nodes : create_upload_session(s, P)
    \/ \E s \in Sessions : abort_upload_session(s)
    \/ \E s \in Sessions, l \in Layouts : finalize_upload(s, l)
    \/ \E g \in GcRuns, n \in Nodes, mode \in GcModes : start_gc_run(g, n, mode)
    \/ \E g \in GcRuns : complete_gc_run(g)
    \/ \E r \in ReplicationRuns, v \in Versions : start_replication_run(r, v)
    \/ \E r \in ReplicationRuns : complete_replication_run(r)
    \/ \E R \in SUBSET versions : run_lifecycle(R)

-----------------------------------------------------------------------------
(* Types: each transaction of the repository keeps the types of the tables. *)

LEMMA RepositoryTypes ==
    ASSUME RepositoryTypeOK, RepositoryStep
    PROVE  RepositoryTypeOK'
<1> USE PlacementAssumption, RepositoryAssumption DEF RepositoryTypeOK
<1>1. CASE UNCHANGED dbVars
    BY <1>1
<1>2. ASSUME NEW n \in Nodes, NEW st \in NodeStates, register_storage_node(n, st)
      PROVE RepositoryTypeOK'
    BY <1>2 DEF register_storage_node
<1>3. ASSUME NEW s \in Sessions, NEW B \in SUBSET Chunks, negotiate_chunks(s, B)
      PROVE RepositoryTypeOK'
    BY <1>3 DEF negotiate_chunks
<1>4. ASSUME NEW c \in Chunks, NEW n \in Nodes, register_storage_location(c, n)
      PROVE RepositoryTypeOK'
    BY <1>4 DEF register_storage_location, Replicas
<1>5. ASSUME NEW s \in Sessions, NEW P \in SUBSET Nodes, create_upload_session(s, P)
      PROVE RepositoryTypeOK'
    BY <1>5 DEF create_upload_session, SessionStates
<1>6. ASSUME NEW s \in Sessions, abort_upload_session(s) PROVE RepositoryTypeOK'
    BY <1>6 DEF abort_upload_session, SessionStates
<1>7. ASSUME NEW s \in Sessions, NEW l \in Layouts, finalize_upload(s, l) PROVE RepositoryTypeOK'
  <2>1. version_of(s, l) \in Versions
    BY DEF version_of, Versions
  <2> QED
    BY <1>7, <2>1 DEF finalize_upload, SessionStates
<1>8. ASSUME NEW g \in GcRuns, NEW n \in Nodes, NEW mode \in GcModes, start_gc_run(g, n, mode)
      PROVE RepositoryTypeOK'
    BY <1>8 DEF start_gc_run, RunStates
<1>9. ASSUME NEW g \in GcRuns, complete_gc_run(g) PROVE RepositoryTypeOK'
  <2>1. /\ locations' \subseteq locations /\ layouts' \subseteq layouts
        /\ objects' \subseteq objects /\ chunkRows' \subseteq chunkRows
        /\ sessLayout' \in [Sessions -> Layouts \cup {NoLayout}]
    BY <1>9 DEF complete_gc_run, sweep_gc_metadata, finalizations_after_sweep, live_layouts
  <2> QED
    BY <1>9, <2>1 DEF complete_gc_run, RunStates
<1>10. ASSUME NEW r \in ReplicationRuns, NEW v \in Versions, start_replication_run(r, v)
       PROVE RepositoryTypeOK'
  <2>1. PICK l \in Layouts : replLayout' = [replLayout EXCEPT ![r] = l]
    BY <1>10 DEF start_replication_run, restorable_layouts
  <2>2. active_nodes \in SUBSET Nodes
    BY DEF active_nodes
  <2> QED
    BY <1>10, <2>1, <2>2 DEF start_replication_run, RunStates
<1>11. ASSUME NEW r \in ReplicationRuns, complete_replication_run(r) PROVE RepositoryTypeOK'
  <2>1. replState[r] = "open"
    BY <1>11 DEF complete_replication_run, complete_replication_run_outcome, RunStates
  <2> QED
    BY <1>11, <2>1 DEF complete_replication_run, RunStates
<1>12. ASSUME NEW R \in SUBSET versions, run_lifecycle(R) PROVE RepositoryTypeOK'
    BY <1>12 DEF run_lifecycle
<1> QED
    BY <1>1, <1>2, <1>3, <1>4, <1>5, <1>6, <1>7, <1>8, <1>9, <1>10, <1>11, <1>12
       DEF RepositoryStep

=============================================================================
