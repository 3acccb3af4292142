------------------------- MODULE MetadataRepository -------------------------
(***************************************************************************)
(* The control plane: the tables of the PostgreSQL schema (migrations/)    *)
(* and the transactions of PostgresMetadataRepository that read and write  *)
(* them.  The metadata service runs every repository call under            *)
(* repository_mutex_ and every call is one database transaction that is    *)
(* committed or rolled back as a whole, so a transaction is one step.      *)
(*                                                                         *)
(* A transaction that can be refused has an "..._outcome" state function   *)
(* that follows the order of the early returns of the code, and an action  *)
(* of its own for the outcomes that write.  A refused transaction is       *)
(* rolled back: it changes nothing.                                        *)
(*                                                                         *)
(* Identifiers are content addresses.  A version id is the hash of         *)
(* (artifact, parent, metadata, root object); the first three are the      *)
(* session's and are abstracted to a "lineage", so a version is a pair     *)
(* <<lineage, object>>.  A layout id is the hash of an object and of the   *)
(* sequence of its chunks, of which the repository uses only the set.      *)
(***************************************************************************)
EXTENDS Placement

CONSTANTS Sessions,         \* upload session ids
          Lineages,         \* (artifact, parent version, metadata) triples
          Objects,          \* object ids (SHA-256 of the whole byte stream)
          Layouts,          \* object layout ids; "<" is the id order
          GcRuns,           \* GC run ids
          ReplicationRuns,  \* replication (repair) run ids
          SessionLineage,   \* the lineage a session was created for
          SessionLayouts,   \* layouts the session's chunking parameters yield
          LayoutObject,     \* the object a layout represents
          LayoutChunks,     \* the chunks of a layout
          RF,               \* replication factor of upload sessions
          RepairRF,         \* replication factor of replication runs
          NoVersion,        \* SQL NULL in upload_sessions.finalized_version_id
          NoLayout          \* SQL NULL in upload_session_finalizations.layout_id

Versions == Lineages \X Objects

ASSUME RepositoryAssumption ==
    /\ Layouts \subseteq Nat
    /\ SessionLineage \in [Sessions -> Lineages]
    /\ SessionLayouts \in [Sessions -> SUBSET Layouts]
    /\ LayoutObject \in [Layouts -> Objects]
    /\ LayoutChunks \in [Layouts -> SUBSET Chunks]
    /\ RF \in Nat \ {0} /\ RepairRF \in Nat \ {0}
    /\ NoVersion \notin Versions
    /\ NoLayout \notin Layouts

VARIABLES
    nodeState,      \* storage_nodes.state
    chunkRows,      \* chunks
    locations,      \* storage_locations in state 'available', as <<chunk, node>>
    objects,        \* objects
    layouts,        \* object_layouts, with their object_layout_chunks
    versions,       \* artifact_versions (all of them committed)
    retired,        \* artifact_version_retirements
    sessState,      \* upload_sessions.state
    sessPlacement,  \* upload_session_nodes
    sessVersion,    \* upload_sessions.finalized_version_id
    sessLayout,     \* upload_session_finalizations.layout_id
    gcState, gcTarget, gcMode,                           \* gc_runs
    replState, replVersion, replLayout, replPlacement    \* replication_runs

nodeVars == nodeState
chunkVars == <<chunkRows, locations>>
catalogVars == <<objects, layouts, versions, retired>>
sessVars == <<sessState, sessPlacement, sessVersion, sessLayout>>
gcVars == <<gcState, gcTarget, gcMode>>
replVars == <<replState, replVersion, replLayout, replPlacement>>
dbVars == <<nodeVars, chunkVars, catalogVars, sessVars, gcVars, replVars>>

NodeStates == {"unregistered", "active", "draining", "disabled"}
GcModes == {"apply", "dry-run"}
SessionStates == {"none", "open", "committed", "aborted"}
RunStates == {"none", "open", "completed"}

Replicas == Chunks \X Nodes

RepositoryTypeOK ==
    /\ nodeState \in [Nodes -> NodeStates]
    /\ chunkRows \subseteq Chunks
    /\ locations \subseteq Replicas
    /\ objects \subseteq Objects
    /\ layouts \subseteq Layouts
    /\ versions \subseteq Versions
    /\ retired \subseteq Versions
    /\ sessState \in [Sessions -> SessionStates]
    /\ sessPlacement \in [Sessions -> SUBSET Nodes]
    /\ sessVersion \in [Sessions -> Versions \cup {NoVersion}]
    /\ sessLayout \in [Sessions -> Layouts \cup {NoLayout}]
    /\ gcState \in [GcRuns -> RunStates]
    /\ gcTarget \in [GcRuns -> Nodes]
    /\ gcMode \in [GcRuns -> GcModes]
    /\ replState \in [ReplicationRuns -> RunStates]
    /\ replVersion \in [ReplicationRuns -> Versions \cup {NoVersion}]
    /\ replLayout \in [ReplicationRuns -> Layouts \cup {NoLayout}]
    /\ \A r \in ReplicationRuns : replState[r] # "none" => replLayout[r] \in Layouts
    /\ replPlacement \in [ReplicationRuns -> SUBSET Nodes]

(* AdminNodes is the set of nodes the operator has not registered yet. *)
RepositoryInit(AdminNodes) ==
    /\ nodeState = [n \in Nodes |-> IF n \in AdminNodes THEN "unregistered" ELSE "active"]
    /\ chunkRows = {} /\ locations = {}
    /\ objects = {} /\ layouts = {} /\ versions = {} /\ retired = {}
    /\ sessState = [s \in Sessions |-> "none"]
    /\ sessPlacement = [s \in Sessions |-> {}]
    /\ sessVersion = [s \in Sessions |-> NoVersion]
    /\ sessLayout = [s \in Sessions |-> NoLayout]
    /\ gcState = [g \in GcRuns |-> "none"]
    /\ gcTarget = [g \in GcRuns |-> CHOOSE n \in Nodes : TRUE]
    /\ gcMode = [g \in GcRuns |-> "dry-run"]
    /\ replState = [r \in ReplicationRuns |-> "none"]
    /\ replVersion = [r \in ReplicationRuns |-> NoVersion]
    /\ replLayout = [r \in ReplicationRuns |-> NoLayout]
    /\ replPlacement = [r \in ReplicationRuns |-> {}]

-----------------------------------------------------------------------------
(* What several transactions ask of the tables.                            *)

open_upload_sessions_present == \E s \in Sessions : sessState[s] = "open"
gc_in_progress == \E g \in GcRuns : gcState[g] = "open"
replication_in_progress == \E r \in ReplicationRuns : replState[r] = "open"

is_version_retired(v) == v \in retired
Live(v) == v \in versions /\ ~is_version_retired(v)

(* kLiveLayoutPredicate: a layout is kept alive by a version that is not   *)
(* retired, through the version's root object or through the finalization  *)
(* record of the session that committed it.                                *)
live_layout(l) ==
    \/ \E v \in versions : v[2] = LayoutObject[l] /\ ~is_version_retired(v)
    \/ \E s \in Sessions : /\ sessLayout[s] = l
                           /\ sessVersion[s] # NoVersion
                           /\ ~is_version_retired(sessVersion[s])

live_layouts == {l \in layouts : live_layout(l)}
live_chunk(c) == \E l \in live_layouts : c \in LayoutChunks[l]

version_of(s, l) == <<SessionLineage[s], LayoutObject[l]>>
session_replicas(s, c) == select_replica_nodes(c, sessPlacement[s], RF)
run_replicas(r, c) == select_replica_nodes(c, replPlacement[r], RepairRF)

(* kMultiNodeRestorableChunkPredicate *)
restorable_chunk(c) ==
    \E n \in Nodes : <<c, n>> \in locations /\ nodeState[n] \in {"active", "draining"}

-----------------------------------------------------------------------------
(* Storage node registry, chunk rows and storage locations.                *)

(* An upsert: registers a node or overwrites the state it has. *)
register_storage_node(n, st) ==
    /\ nodeState' = [nodeState EXCEPT ![n] = st]
    /\ UNCHANGED <<chunkVars, catalogVars, sessVars, gcVars, replVars>>

(* POST /v1/chunks/negotiate: refused unless the session is open; inserts  *)
(* the chunk rows that are missing.  The reply is available_node_ids.      *)
negotiate_chunks(s, B) ==
    /\ sessState[s] = "open"
    /\ chunkRows' = chunkRows \cup B
    /\ UNCHANGED <<nodeVars, locations, catalogVars, sessVars, gcVars, replVars>>

available_node_ids(c) == {n \in Nodes : <<c, n>> \in locations}

(* An upsert whose only condition is the foreign key to chunks: neither    *)
(* the session nor the GC barrier is looked at.                            *)
register_storage_location(c, n) ==
    /\ c \in chunkRows
    /\ locations' = locations \cup {<<c, n>>}
    /\ UNCHANGED <<nodeVars, chunkRows, catalogVars, sessVars, gcVars, replVars>>

-----------------------------------------------------------------------------
(* Upload sessions.                                                        *)

(* Mutant: the check for an open GC run is missing. *)
create_upload_session_outcome_without_barrier(s, P) ==
    IF RF > Cardinality(P) THEN "invalid"
    ELSE IF sessState[s] # "none"
    THEN IF sessState[s] = "open" /\ sessPlacement[s] = P THEN "existing" ELSE "conflict"
    ELSE IF \E n \in P : nodeState[n] # "active" THEN "invalid"
    ELSE "created"

(* The request is validated first (validate_replication_configuration).    *)
(* The identity of an existing session is compared with the request; of    *)
(* the fields the id does not determine here, only the placement differs.  *)
create_upload_session_outcome(s, P) ==
    IF RF > Cardinality(P) THEN "invalid"
    ELSE IF gc_in_progress THEN "gc_in_progress"
    ELSE IF sessState[s] # "none"
         THEN IF sessState[s] = "open" /\ sessPlacement[s] = P THEN "existing" ELSE "conflict"
    ELSE IF \E n \in P : nodeState[n] # "active" THEN "invalid"
    ELSE "created"

(* What the service answers: it compares an existing session before it asks *)
(* the repository, so the retry of a push that committed is told of the    *)
(* conflict, not of a GC run that is open.                                 *)
create_upload_session_response(s, P) ==
    IF sessState[s] = "none" \/ RF > Cardinality(P) THEN create_upload_session_outcome(s, P)
    ELSE IF sessState[s] = "open" /\ sessPlacement[s] = P THEN "existing"
    ELSE "conflict"

create_upload_session(s, P) ==
    /\ create_upload_session_outcome(s, P) = "created"
    /\ sessState' = [sessState EXCEPT ![s] = "open"]
    /\ sessPlacement' = [sessPlacement EXCEPT ![s] = P]
    /\ UNCHANGED <<nodeVars, chunkVars, catalogVars, sessVersion, sessLayout, gcVars, replVars>>

(* Aborting an aborted session succeeds and changes nothing; aborting a    *)
(* committed one is refused.                                               *)
abort_upload_session(s) ==
    /\ sessState[s] = "open"
    /\ sessState' = [sessState EXCEPT ![s] = "aborted"]
    /\ UNCHANGED <<nodeVars, chunkVars, catalogVars, sessPlacement, sessVersion, sessLayout,
                   gcVars, replVars>>

(* The branch of finalize_upload for a session that is already committed.  *)
committed_retry_outcome(s, l) ==
    IF is_version_retired(sessVersion[s]) THEN "version_retired"
    ELSE IF sessLayout[s] # l \/ sessVersion[s] # version_of(s, l) THEN "conflict"
    ELSE IF LayoutObject[l] \notin objects \/ l \notin layouts THEN "conflict"
    ELSE "ok"

(* The branch for an open session: every chunk of the layout must have a   *)
(* row and an available location on each node placement selects for it.    *)
open_finalize_outcome(s, l) ==
    IF \E c \in LayoutChunks[l] : c \notin chunkRows THEN "conflict"
    ELSE IF \E c \in LayoutChunks[l] : \E n \in session_replicas(s, c) : <<c, n>> \notin locations
         THEN "chunk_under_replicated"
    ELSE "committed"

(* Mutant: a committed session is finalized like an open one. *)
finalize_upload_outcome_recommits(s, l) ==
    IF sessState[s] = "none" THEN "session_not_found"
    ELSE IF sessState[s] = "aborted" THEN "session_not_open"
    ELSE IF is_version_retired(version_of(s, l)) THEN "version_retired"
    ELSE open_finalize_outcome(s, l)

finalize_upload_outcome(s, l) ==
    IF sessState[s] = "none" THEN "session_not_found"
    ELSE IF sessState[s] = "aborted" THEN "session_not_open"
    ELSE IF is_version_retired(version_of(s, l)) THEN "version_retired"
    ELSE IF sessState[s] = "committed" THEN committed_retry_outcome(s, l)
    ELSE open_finalize_outcome(s, l)

(* One transaction registers the object, the layout and the version (each  *)
(* if absent), the finalization record and the session's commit.           *)
finalize_upload(s, l) ==
    /\ finalize_upload_outcome(s, l) = "committed"
    /\ objects' = objects \cup {LayoutObject[l]}
    /\ layouts' = layouts \cup {l}
    /\ versions' = versions \cup {version_of(s, l)}
    /\ sessLayout' = [sessLayout EXCEPT ![s] = l]
    /\ sessState' = [sessState EXCEPT ![s] = "committed"]
    /\ sessVersion' = [sessVersion EXCEPT ![s] = version_of(s, l)]
    /\ UNCHANGED <<nodeVars, chunkVars, retired, sessPlacement, gcVars, replVars>>

-----------------------------------------------------------------------------
(* Garbage collection runs.                                                *)

(* Mutants: a GC run starts beside an open session, or a replication run.  *)
start_gc_run_outcome_beside_sessions(g, n, mode) ==
    IF gcState[g] # "none"
    THEN IF gcTarget[g] = n /\ gcMode[g] = mode THEN gcState[g] ELSE "run_conflict"
    ELSE IF gc_in_progress THEN "another_run_open"
    ELSE IF replication_in_progress THEN "replication_in_progress"
    ELSE "started"

start_gc_run_outcome_beside_replication(g, n, mode) ==
    IF gcState[g] # "none"
    THEN IF gcTarget[g] = n /\ gcMode[g] = mode THEN gcState[g] ELSE "run_conflict"
    ELSE IF gc_in_progress THEN "another_run_open"
    ELSE IF open_upload_sessions_present THEN "open_upload_sessions_present"
    ELSE "started"

(* Mutant: a run that exists is answered whatever the request asks for. *)
start_gc_run_outcome_any_target(g, n, mode) ==
    IF gcState[g] # "none" THEN gcState[g]
    ELSE IF gc_in_progress THEN "another_run_open"
    ELSE IF replication_in_progress THEN "replication_in_progress"
    ELSE IF open_upload_sessions_present THEN "open_upload_sessions_present"
    ELSE "started"

start_gc_run_outcome(g, n, mode) ==
    IF gcState[g] # "none"
    THEN IF gcTarget[g] = n /\ gcMode[g] = mode THEN gcState[g] ELSE "run_conflict"
    ELSE IF gc_in_progress THEN "another_run_open"
    ELSE IF replication_in_progress THEN "replication_in_progress"
    ELSE IF open_upload_sessions_present THEN "open_upload_sessions_present"
    ELSE "started"

start_gc_run(g, n, mode) ==
    /\ start_gc_run_outcome(g, n, mode) = "started"
    /\ gcState' = [gcState EXCEPT ![g] = "open"]
    /\ gcTarget' = [gcTarget EXCEPT ![g] = n]
    /\ gcMode' = [gcMode EXCEPT ![g] = mode]
    /\ UNCHANGED <<nodeVars, chunkVars, catalogVars, sessVars, replVars>>

(* classify_gc_chunks reads only; the run must still be open. *)
classify_gc_chunks(S) == {c \in S : ~live_chunk(c)}

(* upload_session_finalizations.layout_id is ON DELETE SET NULL.           *)
finalizations_after_sweep ==
    [s \in Sessions |-> IF sessLayout[s] \in layouts \ live_layouts THEN NoLayout ELSE sessLayout[s]]

(* Mutant: a chunk is swept with any dead layout that has it. *)
sweep_gc_metadata_shared_chunks(n) ==
    /\ locations' = {x \in locations : x[2] = n =>
                        \A l \in layouts \ live_layouts : x[1] \notin LayoutChunks[l]}
    /\ layouts' = live_layouts
    /\ sessLayout' = finalizations_after_sweep
    /\ UNCHANGED <<objects, chunkRows>>

(* Mutant: the objects of retired versions are swept. *)
sweep_gc_metadata_retired_objects(n) ==
    /\ layouts' = live_layouts
    /\ sessLayout' = finalizations_after_sweep
    /\ objects' = {o \in objects : \E l \in layouts' : LayoutObject[l] = o}
    /\ UNCHANGED <<locations, chunkRows>>

(* sweep_gc_metadata: locations of dead chunks on the target node only,    *)
(* then dead layouts (upload_session_finalizations.layout_id is set to     *)
(* NULL), objects without versions and layouts, chunk rows without layouts *)
(* and locations.                                                          *)
sweep_gc_metadata(n) ==
    /\ locations' = {x \in locations : x[2] = n => live_chunk(x[1])}
    /\ layouts' = live_layouts
    /\ sessLayout' = finalizations_after_sweep
    /\ objects' = {o \in objects : \/ \E v \in versions : v[2] = o
                                   \/ \E l \in layouts' : LayoutObject[l] = o}
    /\ chunkRows' = {c \in chunkRows : \/ \E l \in layouts' : c \in LayoutChunks[l]
                                       \/ \E x \in locations' : x[1] = c}

(* replication_runs_layout_fk is ON DELETE RESTRICT: a layout that any     *)
(* replication run, open or completed, was made for cannot be deleted.     *)
sweep_violates_replication_fk ==
    \E r \in ReplicationRuns : replLayout[r] \in layouts \ live_layouts

complete_gc_run_outcome(g) ==
    IF gcState[g] # "open" THEN gcState[g]
    ELSE IF open_upload_sessions_present THEN "open_upload_sessions_present"
    ELSE IF gcMode[g] = "apply" /\ sweep_violates_replication_fk THEN "foreign_key_violation"
    ELSE "done"

complete_gc_run(g) ==
    /\ complete_gc_run_outcome(g) = "done"
    /\ \/ /\ gcMode[g] = "apply"
          /\ sweep_gc_metadata(gcTarget[g])
       \/ /\ gcMode[g] = "dry-run"
          /\ UNCHANGED <<locations, layouts, sessLayout, objects, chunkRows>>
    /\ gcState' = [gcState EXCEPT ![g] = "completed"]
    /\ UNCHANGED <<nodeVars, versions, retired, sessState, sessPlacement, sessVersion,
                   gcTarget, gcMode, replVars>>

-----------------------------------------------------------------------------
(* Replication runs.                                                       *)

restorable_layouts(o) ==
    {l \in layouts : LayoutObject[l] = o /\ \A c \in LayoutChunks[l] : restorable_chunk(c)}

active_nodes == {n \in Nodes : nodeState[n] = "active"}

start_replication_run_outcome(r, v) ==
    IF gc_in_progress THEN "gc_in_progress"
    ELSE IF replState[r] # "none"
         THEN IF replVersion[r] = v THEN replState[r] ELSE "run_conflict"
    ELSE IF replication_in_progress THEN "another_run_open"
    ELSE IF v \notin versions THEN "version_not_found"
    ELSE IF is_version_retired(v) THEN "version_retired"
    ELSE IF restorable_layouts(v[2]) = {} \/ Cardinality(active_nodes) < RepairRF
         THEN "source_unavailable"
    ELSE "started"

(* Mutant: the run is inserted without its layout. *)
start_replication_run_without_layout(r, v) ==
    /\ start_replication_run_outcome(r, v) = "started"
    /\ replState' = [replState EXCEPT ![r] = "open"]
    /\ replVersion' = [replVersion EXCEPT ![r] = v]
    /\ replPlacement' = [replPlacement EXCEPT ![r] = active_nodes]
    /\ UNCHANGED <<nodeVars, chunkVars, catalogVars, sessVars, gcVars, replLayout>>

(* Takes the restorable layout with the lowest id and a snapshot of the    *)
(* active nodes as the placement.                                          *)
start_replication_run(r, v) ==
    /\ start_replication_run_outcome(r, v) = "started"
    /\ replState' = [replState EXCEPT ![r] = "open"]
    /\ replVersion' = [replVersion EXCEPT ![r] = v]
    /\ \E l \in restorable_layouts(v[2]) :
          /\ \A k \in restorable_layouts(v[2]) : l <= k
          /\ replLayout' = [replLayout EXCEPT ![r] = l]
    /\ replPlacement' = [replPlacement EXCEPT ![r] = active_nodes]
    /\ UNCHANGED <<nodeVars, chunkVars, catalogVars, sessVars, gcVars>>

get_replication_plan_outcome(r) ==
    IF replState[r] # "open" THEN "run_not_open"
    ELSE IF \E c \in LayoutChunks[replLayout[r]] : \E n \in run_replicas(r, c) :
              nodeState[n] \in {"unregistered", "disabled"}
         THEN "target_disabled"
    ELSE "planned"

(* source_nodes of the plan, as <<chunk, node>> pairs. *)
replication_sources(r) ==
    {x \in locations : x[1] \in LayoutChunks[replLayout[r]]
                       /\ nodeState[x[2]] \in {"active", "draining"}}

(* Mutant: the barrier is asked before the run. *)
complete_replication_run_outcome_barrier_first(r) ==
    IF gc_in_progress THEN "gc_in_progress"
    ELSE IF replState[r] # "open" THEN replState[r]
    ELSE IF \E c \in LayoutChunks[replLayout[r]] : \E n \in run_replicas(r, c) :
              <<c, n>> \notin locations
         THEN "under_replicated"
    ELSE "done"

complete_replication_run_outcome(r) ==
    IF replState[r] # "open" THEN replState[r]
    ELSE IF gc_in_progress THEN "gc_in_progress"
    ELSE IF \E c \in LayoutChunks[replLayout[r]] : \E n \in run_replicas(r, c) :
              <<c, n>> \notin locations
         THEN "under_replicated"
    ELSE "done"

complete_replication_run(r) ==
    /\ complete_replication_run_outcome(r) = "done"
    /\ replState' = [replState EXCEPT ![r] = "completed"]
    /\ UNCHANGED <<nodeVars, chunkVars, catalogVars, sessVars, gcVars,
                   replVersion, replLayout, replPlacement>>

-----------------------------------------------------------------------------
(* Lifecycle, seen from the storage side: an apply run, refused while a    *)
(* session, a GC run or a replication run is open, retires a set of live   *)
(* versions.  Which ones the policy selects is the subject of module       *)
(* Lifecycle; here it is any set.                                          *)
run_lifecycle(R) ==
    /\ ~open_upload_sessions_present /\ ~gc_in_progress /\ ~replication_in_progress
    /\ \A v \in R : Live(v)
    /\ retired' = retired \cup R
    /\ UNCHANGED <<nodeVars, chunkVars, objects, layouts, versions, sessVars, gcVars, replVars>>

=============================================================================
