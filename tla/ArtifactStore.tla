---------------------------- MODULE ArtifactStore ----------------------------
(***************************************************************************)
(* The whole store: the metadata service (module MetadataRepository), the  *)
(* chunk files of the storage nodes, and the client processes that drive   *)
(* both.  Push, garbage collection and repair are orchestrated by the      *)
(* client (apps/aistore-cli, PushEngine, GcEngine, RepairEngine): each     *)
(* request to the metadata service or to a storage node is one step, and   *)
(* the requests of all clients interleave freely.  A client may stop       *)
(* between any two requests, and its command may be run again with the     *)
(* same session or run id.                                                 *)
(***************************************************************************)
EXTENDS MetadataRepository

CONSTANTS Pushers, PusherSession,       \* "aistore push --session-id" processes
          Collectors, CollectorRun,     \* "aistore gc --gc-run-id" processes
          Repairers, RepairerRun,       \* "aistore repair --repair-run-id" processes
          AdminNodes,                   \* nodes whose registry entry changes
          BatchSize,                    \* kNegotiationBatchSize
          PageSize,                     \* kInventoryPageSize
          MaxStops,                     \* bound: how often a collector stops
          MaxLosses                     \* bound: replicas lost by the disks

ASSUME StoreAssumption ==
    /\ PusherSession \in [Pushers -> Sessions]
    /\ CollectorRun \in [Collectors -> GcRuns]
    /\ RepairerRun \in [Repairers -> ReplicationRuns]
    /\ AdminNodes \subseteq Nodes
    /\ BatchSize \in Nat \ {0} /\ PageSize \in Nat \ {0}
    /\ MaxStops \in Nat /\ MaxLosses \in Nat

VARIABLES
    bytes,          \* <<chunk, node>>: the node's LocalChunkStore has the chunk
    lost,           \* history: replicas a disk lost and nobody wrote again
    lostInRepair,   \* history: per repairer, the losses since it started its run
    writtenInGc,    \* history: the replicas written while the last GC run was open
    acks,           \* history: <<session, layout>> of the successful pushes
    pushPc,         \* "idle", "create", "upload" or "retry"
    pushLayout,     \* the layout of the file being pushed
    pushPlacement,  \* placement_node_ids of the request
    pushTodo,       \* chunks not negotiated yet
    pushTasks,      \* <<chunk, node, stage>>: replicas being verified or written
    collPc,         \* "idle", "list", "classify", "delete" or "complete"
    collAfter,      \* the cursor of the inventory (0: none)
    collPage,       \* chunks of the page, then those still to delete
    collMore,       \* next_after was present
    collStops,      \* number of times the collector stopped
    repPc,          \* "idle", "plan" or "repair"
    repSources,     \* source_nodes of the plan, as <<chunk, node>>
    repTodo,        \* chunks of the plan not scanned yet
    repTasks        \* <<chunk, node, stage>> of the chunk being repaired

nodeFiles == <<bytes, lost, lostInRepair, writtenInGc>>
pushVars == <<acks, pushPc, pushLayout, pushPlacement, pushTodo, pushTasks>>
collVars == <<collPc, collAfter, collPage, collMore, collStops>>
repVars == <<repPc, repSources, repTodo, repTasks>>
vars == <<dbVars, nodeFiles, pushVars, collVars, repVars>>

PushStages == {"head", "put", "register"}
RepairStages == {"head", "fetch", "put", "register"}

Init ==
    /\ RepositoryInit(AdminNodes)
    /\ bytes = {} /\ lost = {} /\ lostInRepair = [r \in Repairers |-> {}] /\ writtenInGc = {} /\ acks = {}
    /\ pushPc = [p \in Pushers |-> "idle"]
    /\ pushLayout = [p \in Pushers |-> NoLayout]
    /\ pushPlacement = [p \in Pushers |-> {}]
    /\ pushTodo = [p \in Pushers |-> {}]
    /\ pushTasks = [p \in Pushers |-> {}]
    /\ collPc = [k \in Collectors |-> "idle"]
    /\ collAfter = [k \in Collectors |-> 0]
    /\ collPage = [k \in Collectors |-> {}]
    /\ collMore = [k \in Collectors |-> FALSE]
    /\ collStops = [k \in Collectors |-> 0]
    /\ repPc = [r \in Repairers |-> "idle"]
    /\ repSources = [r \in Repairers |-> {}]
    /\ repTodo = [r \in Repairers |-> {}]
    /\ repTasks = [r \in Repairers |-> {}]

-----------------------------------------------------------------------------
(* Storage nodes.  LocalChunkStore writes a chunk to a temporary file,     *)
(* verifies it and renames it into place; a PUT of a chunk that is already *)
(* there changes nothing.  DELETE of an absent chunk is not an error.      *)

put_chunk(c, n) ==
    /\ bytes' = bytes \cup {<<c, n>>}
    /\ lost' = lost \ {<<c, n>>}
    /\ lostInRepair' = [r \in Repairers |-> lostInRepair[r] \ {<<c, n>>}]
    /\ writtenInGc' = IF gc_in_progress THEN writtenInGc \cup {<<c, n>>} ELSE writtenInGc

has_chunk(c, n) == <<c, n>> \in bytes

delete_chunk(c, n) ==
    /\ bytes' = bytes \ {<<c, n>>}
    /\ UNCHANGED <<lost, lostInRepair, writtenInGc>>

(* GET /v1/chunks?after=..&limit=..: the first PageSize ids above the      *)
(* cursor; next_after is present when there are more.                      *)
inventory(n, after) == {c \in Chunks : c > after /\ has_chunk(c, n)}

list_chunks(n, after) ==
    {c \in inventory(n, after) :
        Cardinality({d \in inventory(n, after) : d < c}) < PageSize}

(* A disk loses a replica (the event repair exists for). *)
LoseReplica(c, n) ==
    /\ <<c, n>> \in bytes
    /\ Cardinality(lost) < MaxLosses
    /\ bytes' = bytes \ {<<c, n>>}
    /\ lost' = lost \cup {<<c, n>>}
    /\ lostInRepair' = [r \in Repairers |->
          IF repPc[r] = "idle" THEN lostInRepair[r] ELSE lostInRepair[r] \cup {<<c, n>>}]
    /\ UNCHANGED <<writtenInGc, dbVars, pushVars, collVars, repVars>>

-----------------------------------------------------------------------------
(* Push.                                                                   *)

PushTo(p, pc) ==
    /\ pushPc' = [pushPc EXCEPT ![p] = pc]
    /\ UNCHANGED <<pushLayout, pushPlacement, pushTodo, pushTasks>>

PushExit(p) ==
    /\ pushPc' = [pushPc EXCEPT ![p] = "idle"]
    /\ pushLayout' = [pushLayout EXCEPT ![p] = NoLayout]
    /\ pushPlacement' = [pushPlacement EXCEPT ![p] = {}]
    /\ pushTodo' = [pushTodo EXCEPT ![p] = {}]
    /\ pushTasks' = [pushTasks EXCEPT ![p] = {}]

(* run_push reads the registry and the session: the placement is the one   *)
(* of an existing session, or else the active nodes.  A client pool is     *)
(* built for the placement, which refuses a disabled node.                 *)
push_placement(s) == IF sessState[s] = "none" THEN active_nodes ELSE sessPlacement[s]

PushStart(p, l) ==
    LET s == PusherSession[p] IN
    LET P == push_placement(s) IN
    /\ pushPc[p] = "idle"
    /\ l \in SessionLayouts[s]
    /\ sessState[s] = "none" => Cardinality(P) >= RF
    /\ \A n \in P : nodeState[n] \notin {"unregistered", "disabled"}
    /\ pushPc' = [pushPc EXCEPT ![p] = "create"]
    /\ pushLayout' = [pushLayout EXCEPT ![p] = l]
    /\ pushPlacement' = [pushPlacement EXCEPT ![p] = P]
    /\ pushTodo' = [pushTodo EXCEPT ![p] = LayoutChunks[l]]
    /\ UNCHANGED <<acks, pushTasks, dbVars, nodeFiles, collVars, repVars>>

(* The session is created, or found open with the same identity.  The GET  *)
(* with which PushEngine::push starts is not a step: all it does is stop   *)
(* early where the negotiation would be refused.                           *)
PushCreate(p) ==
    LET s == PusherSession[p]  P == pushPlacement[p] IN
    /\ pushPc[p] = "create"
    /\ \/ create_upload_session(s, P)
       \/ create_upload_session_response(s, P) = "existing" /\ UNCHANGED dbVars
    /\ PushTo(p, "upload")
    /\ UNCHANGED <<acks, nodeFiles, collVars, repVars>>

(* On upload_session_conflict the session is read again; a committed one   *)
(* with the same identity makes this a retry of a lost acknowledgement.    *)
PushCreateRefused(p) ==
    LET s == PusherSession[p]  P == pushPlacement[p] IN
    /\ pushPc[p] = "create"
    /\ create_upload_session_response(s, P) \in {"gc_in_progress", "conflict", "invalid"}
    /\ IF /\ create_upload_session_response(s, P) = "conflict"
          /\ sessState[s] = "committed" /\ sessPlacement[s] = P
       THEN PushTo(p, "retry")
       ELSE PushExit(p)
    /\ UNCHANGED <<acks, dbVars, nodeFiles, collVars, repVars>>

(* The work on the desired replicas of a negotiated batch: a replica the   *)
(* metadata calls available is checked with HEAD, any other is written.    *)
desired_replicas(s, B) == {x \in B \X Nodes : x[2] \in session_replicas(s, x[1])}

(* Mutant: what the metadata calls available is taken to be there. *)
upload_tasks_trusting(s, B) ==
    {<<x[1], x[2], "put">> : x \in {y \in desired_replicas(s, B) : y[2] \notin available_node_ids(y[1])}}

upload_tasks(s, B) ==
    {<<x[1], x[2], IF x[2] \in available_node_ids(x[1]) THEN "head" ELSE "put">> :
        x \in desired_replicas(s, B)}

PushNegotiate(p) ==
    LET s == PusherSession[p] IN
    /\ pushPc[p] = "upload"
    /\ \E B \in SUBSET pushTodo[p] :
          /\ B # {}
          /\ Cardinality(B) = BatchSize \/ (B = pushTodo[p] /\ Cardinality(B) < BatchSize)
          /\ negotiate_chunks(s, B)
          /\ pushTodo' = [pushTodo EXCEPT ![p] = @ \ B]
          /\ pushTasks' = [pushTasks EXCEPT ![p] = @ \cup upload_tasks(s, B)]
    /\ UNCHANGED <<acks, pushPc, pushLayout, pushPlacement, nodeFiles, collVars, repVars>>

PushHead(p, c, n) ==
    /\ <<c, n, "head">> \in pushTasks[p]
    /\ pushTasks' = [pushTasks EXCEPT ![p] =
          (@ \ {<<c, n, "head">>}) \cup (IF has_chunk(c, n) THEN {} ELSE {<<c, n, "put">>})]
    /\ UNCHANGED <<acks, pushPc, pushLayout, pushPlacement, pushTodo,
                   dbVars, nodeFiles, collVars, repVars>>

PushPut(p, c, n) ==
    /\ <<c, n, "put">> \in pushTasks[p]
    /\ put_chunk(c, n)
    /\ pushTasks' = [pushTasks EXCEPT ![p] = (@ \ {<<c, n, "put">>}) \cup {<<c, n, "register">>}]
    /\ UNCHANGED <<acks, pushPc, pushLayout, pushPlacement, pushTodo, dbVars, collVars, repVars>>

PushRegister(p, c, n) ==
    /\ <<c, n, "register">> \in pushTasks[p]
    /\ register_storage_location(c, n)
    /\ pushTasks' = [pushTasks EXCEPT ![p] = @ \ {<<c, n, "register">>}]
    /\ UNCHANGED <<acks, pushPc, pushLayout, pushPlacement, pushTodo, nodeFiles, collVars, repVars>>

ReadyToFinalize(p) ==
    \/ pushPc[p] = "upload" /\ pushTodo[p] = {} /\ pushTasks[p] = {}
    \/ pushPc[p] = "retry"

(* finalize_upload commits, or answers a retry with the committed result.  *)
(* The acknowledgement may be lost: then the push ends without success.    *)
PushFinalize(p) ==
    LET s == PusherSession[p]  l == pushLayout[p] IN
    /\ ReadyToFinalize(p)
    /\ \/ finalize_upload(s, l)
       \/ finalize_upload_outcome(s, l) = "ok" /\ UNCHANGED dbVars
    /\ acks' \in {acks, acks \cup {<<s, l>>}}
    /\ PushExit(p)
    /\ UNCHANGED <<nodeFiles, collVars, repVars>>

(* A refused request, a failed transfer or the death of the process ends   *)
(* the push; the session keeps its state.                                  *)
PushStop(p) ==
    /\ pushPc[p] # "idle"
    /\ PushExit(p)
    /\ UNCHANGED <<acks, dbVars, nodeFiles, collVars, repVars>>

AbortSession(s) ==
    /\ abort_upload_session(s)
    /\ UNCHANGED <<nodeFiles, pushVars, collVars, repVars>>

-----------------------------------------------------------------------------
(* Garbage collection (GcEngine::collect).                                 *)

CollectTo(k, pc) ==
    /\ collPc' = [collPc EXCEPT ![k] = pc]
    /\ collAfter' = [collAfter EXCEPT ![k] = 0]
    /\ collPage' = [collPage EXCEPT ![k] = {}]
    /\ collMore' = [collMore EXCEPT ![k] = FALSE]

(* Mutant: an open run is not resumed. *)
CollectStart_without_resume(k, n, mode) ==
    /\ collPc[k] = "idle" /\ nodeState[n] # "unregistered"
    /\ start_gc_run(CollectorRun[k], n, mode) /\ writtenInGc' = {}
    /\ CollectTo(k, "list")
    /\ UNCHANGED <<collStops, bytes, lost, lostInRepair, pushVars, repVars>>

CollectStart(k, n, mode) ==
    LET g == CollectorRun[k] IN
    /\ collPc[k] = "idle"
    /\ nodeState[n] # "unregistered"
    /\ \/ start_gc_run(g, n, mode) /\ writtenInGc' = {}
       \/ /\ start_gc_run_outcome(g, n, mode) = "open"
          /\ UNCHANGED <<dbVars, writtenInGc>>
    /\ CollectTo(k, "list")
    /\ UNCHANGED <<collStops, bytes, lost, lostInRepair, pushVars, repVars>>

CollectList(k) ==
    LET page == list_chunks(gcTarget[CollectorRun[k]], collAfter[k]) IN
    /\ collPc[k] = "list"
    /\ collPage' = [collPage EXCEPT ![k] = page]
    /\ collMore' = [collMore EXCEPT ![k] =
          page # inventory(gcTarget[CollectorRun[k]], collAfter[k])]
    /\ IF page = {}
       THEN /\ collPc' = [collPc EXCEPT ![k] = "complete"]
            /\ UNCHANGED collAfter
       ELSE /\ collPc' = [collPc EXCEPT ![k] = "classify"]
            /\ \E c \in page : /\ \A d \in page : d <= c
                               /\ collAfter' = [collAfter EXCEPT ![k] = c]
    /\ UNCHANGED <<collStops, dbVars, nodeFiles, pushVars, repVars>>

(* A dry run only counts what is collectible. *)
CollectClassify(k) ==
    LET g == CollectorRun[k] IN
    /\ collPc[k] = "classify"
    /\ gcState[g] = "open"
    /\ collPc' = [collPc EXCEPT ![k] = "delete"]
    /\ collPage' = [collPage EXCEPT ![k] =
          IF gcMode[g] = "dry-run" THEN {} ELSE classify_gc_chunks(@)]
    /\ UNCHANGED <<collAfter, collMore, collStops, dbVars, nodeFiles, pushVars, repVars>>

(* Classification is refused when the run is not open any more. *)
CollectClassifyRefused(k) ==
    /\ collPc[k] = "classify"
    /\ gcState[CollectorRun[k]] # "open"
    /\ CollectTo(k, "idle")
    /\ UNCHANGED <<collStops, dbVars, nodeFiles, pushVars, repVars>>

(* The DELETE names only the chunk: the storage node knows neither the run *)
(* nor its state.                                                          *)
CollectDelete(k, c) ==
    /\ collPc[k] = "delete"
    /\ c \in collPage[k]
    /\ delete_chunk(c, gcTarget[CollectorRun[k]])
    /\ collPage' = [collPage EXCEPT ![k] = @ \ {c}]
    /\ UNCHANGED <<collPc, collAfter, collMore, collStops, dbVars, pushVars, repVars>>

(* Mutant: next_after is ignored. *)
CollectNextPage_last(k) ==
    /\ collPc[k] = "delete" /\ collPage[k] = {}
    /\ collPc' = [collPc EXCEPT ![k] = "complete"]
    /\ UNCHANGED <<collAfter, collPage, collMore, collStops, dbVars, nodeFiles, pushVars, repVars>>

CollectNextPage(k) ==
    /\ collPc[k] = "delete" /\ collPage[k] = {}
    /\ collPc' = [collPc EXCEPT ![k] = IF collMore[k] THEN "list" ELSE "complete"]
    /\ UNCHANGED <<collAfter, collPage, collMore, collStops, dbVars, nodeFiles, pushVars, repVars>>

CollectComplete(k) ==
    LET g == CollectorRun[k] IN
    /\ collPc[k] = "complete"
    /\ \/ complete_gc_run(g)
       \/ complete_gc_run_outcome(g) # "done" /\ UNCHANGED dbVars
    /\ CollectTo(k, "idle")
    /\ UNCHANGED <<collStops, nodeFiles, pushVars, repVars>>

(* A failed request or the death of the process; the run stays as it is.   *)
CollectStop(k) ==
    /\ collPc[k] # "idle" /\ collStops[k] < MaxStops
    /\ CollectTo(k, "idle")
    /\ collStops' = [collStops EXCEPT ![k] = @ + 1]
    /\ UNCHANGED <<dbVars, nodeFiles, pushVars, repVars>>

-----------------------------------------------------------------------------
(* Repair (RepairEngine::repair).                                          *)

RepairExit(r) ==
    /\ repPc' = [repPc EXCEPT ![r] = "idle"]
    /\ repSources' = [repSources EXCEPT ![r] = {}]
    /\ repTodo' = [repTodo EXCEPT ![r] = {}]
    /\ repTasks' = [repTasks EXCEPT ![r] = {}]

RepairStart(r, v) ==
    LET run == RepairerRun[r] IN
    /\ repPc[r] = "idle"
    /\ \/ start_replication_run(run, v)
       \/ start_replication_run_outcome(run, v) = "open" /\ UNCHANGED dbVars
    /\ lostInRepair' = [lostInRepair EXCEPT ![r] = {}]
    /\ repPc' = [repPc EXCEPT ![r] = "plan"]
    /\ UNCHANGED <<bytes, lost, writtenInGc, repSources, repTodo, repTasks, pushVars, collVars>>

RepairPlan(r) ==
    LET run == RepairerRun[r] IN
    /\ repPc[r] = "plan"
    /\ get_replication_plan_outcome(run) = "planned"
    /\ repPc' = [repPc EXCEPT ![r] = "repair"]
    /\ repSources' = [repSources EXCEPT ![r] = replication_sources(run)]
    /\ repTodo' = [repTodo EXCEPT ![r] = LayoutChunks[replLayout[run]]]
    /\ UNCHANGED <<repTasks, dbVars, nodeFiles, pushVars, collVars>>

(* Chunks are repaired one after the other.  A desired replica the plan    *)
(* calls available is checked with HEAD, any other must be copied.         *)

(* Mutant: what the plan calls available is taken to be there. *)
repair_tasks_trusting(r, c) ==
    {<<c, n, "fetch">> : n \in {m \in run_replicas(RepairerRun[r], c) : <<c, m>> \notin repSources[r]}}

repair_tasks(r, c) ==
    {<<c, n, IF <<c, n>> \in repSources[r] THEN "head" ELSE "fetch">> :
        n \in run_replicas(RepairerRun[r], c)}

RepairScan(r, c) ==
    /\ repPc[r] = "repair" /\ repTasks[r] = {} /\ c \in repTodo[r]
    /\ repTodo' = [repTodo EXCEPT ![r] = @ \ {c}]
    /\ repTasks' = [repTasks EXCEPT ![r] = repair_tasks(r, c)]
    /\ UNCHANGED <<repPc, repSources, dbVars, nodeFiles, pushVars, collVars>>

RepairHead(r, c, n) ==
    /\ <<c, n, "head">> \in repTasks[r]
    /\ repTasks' = [repTasks EXCEPT ![r] =
          (@ \ {<<c, n, "head">>}) \cup (IF has_chunk(c, n) THEN {} ELSE {<<c, n, "fetch">>})]
    /\ UNCHANGED <<repPc, repSources, repTodo, dbVars, nodeFiles, pushVars, collVars>>

(* When every target is known, the bytes are read once, from the first     *)
(* source of the plan that has them.                                       *)
RepairFetch(r, c) ==
    /\ \E n \in Nodes : <<c, n, "fetch">> \in repTasks[r]
    /\ \A n \in Nodes : <<c, n, "head">> \notin repTasks[r]
    /\ \E m \in Nodes : <<c, m>> \in repSources[r] /\ has_chunk(c, m)
    /\ repTasks' = [repTasks EXCEPT ![r] = {<<t[1], t[2], "put">> : t \in @}]
    /\ UNCHANGED <<repPc, repSources, repTodo, dbVars, nodeFiles, pushVars, collVars>>

RepairPut(r, c, n) ==
    /\ <<c, n, "put">> \in repTasks[r]
    /\ put_chunk(c, n)
    /\ repTasks' = [repTasks EXCEPT ![r] = (@ \ {<<c, n, "put">>}) \cup {<<c, n, "register">>}]
    /\ UNCHANGED <<repPc, repSources, repTodo, dbVars, pushVars, collVars>>

RepairRegister(r, c, n) ==
    /\ <<c, n, "register">> \in repTasks[r]
    /\ register_storage_location(c, n)
    /\ repTasks' = [repTasks EXCEPT ![r] = @ \ {<<c, n, "register">>}]
    /\ UNCHANGED <<repPc, repSources, repTodo, nodeFiles, pushVars, collVars>>

RepairComplete(r) ==
    LET run == RepairerRun[r] IN
    /\ repPc[r] = "repair" /\ repTodo[r] = {} /\ repTasks[r] = {}
    /\ \/ complete_replication_run(run)
       \/ complete_replication_run_outcome(run) # "done" /\ UNCHANGED dbVars
    /\ RepairExit(r)
    /\ UNCHANGED <<nodeFiles, pushVars, collVars>>

(* A refused request, no healthy source, a failed transfer or a crash.     *)
RepairStop(r) ==
    /\ repPc[r] # "idle"
    /\ RepairExit(r)
    /\ UNCHANGED <<dbVars, nodeFiles, pushVars, collVars>>

-----------------------------------------------------------------------------
(* The operator.                                                           *)

SetNodeState(n, st) ==
    /\ register_storage_node(n, st)
    /\ UNCHANGED <<nodeFiles, pushVars, collVars, repVars>>

Retire(R) ==
    /\ run_lifecycle(R)
    /\ UNCHANGED <<nodeFiles, pushVars, collVars, repVars>>

Push(p) ==
    \/ \E l \in Layouts : PushStart(p, l)
    \/ PushCreate(p) \/ PushCreateRefused(p) \/ PushNegotiate(p)
    \/ \E c \in Chunks, n \in Nodes : PushHead(p, c, n)
    \/ \E c \in Chunks, n \in Nodes : PushPut(p, c, n)
    \/ \E c \in Chunks, n \in Nodes : PushRegister(p, c, n)
    \/ PushFinalize(p) \/ PushStop(p)

CollectWork(k) ==
    \/ \E n \in Nodes, mode \in GcModes : CollectStart(k, n, mode)
    \/ CollectList(k) \/ CollectClassify(k) \/ CollectClassifyRefused(k)
    \/ \E c \in Chunks : CollectDelete(k, c)
    \/ CollectNextPage(k) \/ CollectComplete(k)

Repair(r) ==
    \/ \E v \in Versions : RepairStart(r, v)
    \/ RepairPlan(r)
    \/ \E c \in Chunks : RepairScan(r, c)
    \/ \E c \in Chunks, n \in Nodes : RepairHead(r, c, n)
    \/ \E c \in Chunks : RepairFetch(r, c)
    \/ \E c \in Chunks, n \in Nodes : RepairPut(r, c, n)
    \/ \E c \in Chunks, n \in Nodes : RepairRegister(r, c, n)
    \/ RepairComplete(r) \/ RepairStop(r)

Operator ==
    \/ \E s \in Sessions : AbortSession(s)
    \/ \E n \in AdminNodes, st \in NodeStates \ {"unregistered"} : SetNodeState(n, st)
    \/ \E R \in (SUBSET versions) \ {{}} : Retire(R)

Next ==
    \/ \E p \in Pushers : Push(p)
    \/ \E k \in Collectors : CollectWork(k) \/ CollectStop(k)
    \/ \E r \in Repairers : Repair(r)
    \/ \E c \in Chunks, n \in Nodes : LoseReplica(c, n)
    \/ Operator

Spec == Init /\ [][Next]_vars

(* A collector that runs keeps running, and a run that was interrupted is  *)
(* resumed: the error message of aistore gc asks the operator for that.    *)
FairSpec == Spec /\ \A k \in Collectors : WF_vars(CollectWork(k))

-----------------------------------------------------------------------------
(* Properties.                                                             *)

FilesTypeOK ==
    /\ bytes \subseteq Replicas
    /\ lost \subseteq Replicas
    /\ lostInRepair \in [Repairers -> SUBSET Replicas]
    /\ writtenInGc \subseteq Replicas

PushTypeOK ==
    /\ acks \subseteq Sessions \X Layouts
    /\ pushPc \in [Pushers -> {"idle", "create", "upload", "retry"}]
    /\ pushLayout \in [Pushers -> Layouts \cup {NoLayout}]
    /\ \A p \in Pushers : pushPc[p] # "idle" => pushLayout[p] \in Layouts
    /\ pushPlacement \in [Pushers -> SUBSET Nodes]
    /\ pushTodo \in [Pushers -> SUBSET Chunks]
    /\ pushTasks \in [Pushers -> SUBSET (Chunks \X Nodes \X PushStages)]

CollectTypeOK ==
    /\ collPc \in [Collectors -> {"idle", "list", "classify", "delete", "complete"}]
    /\ collAfter \in [Collectors -> Chunks \cup {0}]
    /\ collPage \in [Collectors -> SUBSET Chunks]
    /\ collMore \in [Collectors -> BOOLEAN]
    /\ collStops \in [Collectors -> 0..MaxStops]

RepairTypeOK ==
    /\ repPc \in [Repairers -> {"idle", "plan", "repair"}]
    /\ repSources \in [Repairers -> SUBSET Replicas]
    /\ repTodo \in [Repairers -> SUBSET Chunks]
    /\ repTasks \in [Repairers -> SUBSET (Chunks \X Nodes \X RepairStages)]

TypeOK == RepositoryTypeOK /\ FilesTypeOK /\ PushTypeOK /\ CollectTypeOK /\ RepairTypeOK

(* The advisory-lock protocol of create_upload_session, start_gc_run and   *)
(* start_replication_run: at most one GC run and one replication run are   *)
(* open, and neither a session nor a replication run is open together with *)
(* a GC run.                                                               *)
OperationBarrier ==
    /\ gc_in_progress => ~open_upload_sessions_present /\ ~replication_in_progress
    /\ \A g, h \in GcRuns : gcState[g] = "open" /\ gcState[h] = "open" => g = h
    /\ \A q, r \in ReplicationRuns : replState[q] = "open" /\ replState[r] = "open" => q = r

(* What a commit promises: while the version a session committed is not    *)
(* retired, its layout is registered, and every replica placement selects  *)
(* is recorded as available and is on its node, unless the disk lost it.   *)
(* finalize_upload looks only at the metadata; the physical half rests on  *)
(* the push clients, the GC barrier and the classification together.       *)
CommittedReplicasIntact ==
    \A s \in Sessions :
        sessState[s] = "committed" /\ ~is_version_retired(sessVersion[s]) =>
            /\ sessLayout[s] \in layouts
            /\ \A c \in LayoutChunks[sessLayout[s]] : \A n \in session_replicas(s, c) :
                  <<c, n>> \in locations /\ <<c, n>> \in bytes \cup lost

(* A version that is not retired can be pulled: some layout of its object  *)
(* has each of its chunks on a node, unless RF disks lost the chunk.       *)
LiveVersionRestorable ==
    \A v \in versions \ retired :
        \E l \in layouts :
            /\ LayoutObject[l] = v[2]
            /\ \A c \in LayoutChunks[l] :
                  \/ \E n \in Nodes : <<c, n>> \in bytes
                  \/ Cardinality({n \in Nodes : <<c, n>> \in lost}) >= RF

(* Idempotent finalize: all pushes of one session that were told "ok" were *)
(* told the same layout, and a retry of any of them (its acknowledgement   *)
(* may have been lost) is answered "ok" again, or "version_retired" once   *)
(* the version is retired; no conflict, whatever was collected meanwhile.  *)
FinalizeAgreement ==
    /\ \A a, b \in acks : a[1] = b[1] => a[2] = b[2]
    /\ \A a \in acks :
          /\ sessVersion[a[1]] = version_of(a[1], a[2])
          /\ finalize_upload_outcome(a[1], a[2]) \in {"ok", "version_retired"}

(* The order of the sweep keeps the tables consistent: chunk rows exist    *)
(* for every registered layout and location, and objects for every version *)
(* and layout (the foreign keys a wrong order would trip over).            *)
ReferentialIntegrity ==
    /\ \A l \in layouts : LayoutChunks[l] \subseteq chunkRows /\ LayoutObject[l] \in objects
    /\ \A x \in locations : x[1] \in chunkRows
    /\ \A v \in versions : v[2] \in objects
    /\ \A s \in Sessions : sessLayout[s] # NoLayout => sessLayout[s] \in layouts

(* The chunks a collector is about to delete belong to no live layout: its *)
(* classification is not stale although finalize_upload may have run since *)
(* it was made ("deletes collectible physical bytes", docs/cli.md).        *)
PendingDeletesAreGarbage ==
    \A k \in Collectors : collPc[k] = "delete" => \A c \in collPage[k] : ~live_chunk(c)

(* A replica a push has verified with HEAD or written with PUT. *)
Verified(p, c, n) ==
    /\ pushPc[p] = "upload"
    /\ c \in LayoutChunks[pushLayout[p]] \ pushTodo[p]
    /\ n \in session_replicas(PusherSession[p], c)
    /\ \A st \in {"head", "put"} : <<c, n, st>> \notin pushTasks[p]

(* A DELETE of the garbage collector never hits a chunk of a live layout,  *)
(* nor a replica that a push still in progress has verified or written for *)
(* an open session.                                                        *)
CollectsOnlyGarbage ==
    [][\A k \in Collectors, c \in Chunks : CollectDelete(k, c) =>
          /\ ~live_chunk(c)
          /\ \A p \in Pushers : sessState[PusherSession[p]] = "open" =>
                ~Verified(p, c, gcTarget[CollectorRun[k]])]_vars

(* An apply run that completes has deleted all the garbage of its node:    *)
(* what is left belongs to a live layout, or was written (by a push whose  *)
(* session was aborted) after the run was opened.  The pages neither skip  *)
(* a chunk because others are deleted behind the cursor, nor because an    *)
(* earlier attempt at the run stopped half way.                            *)
CollectsAllGarbage ==
    [][\A g \in GcRuns : gcState[g] = "open" /\ gcState'[g] = "completed" /\ gcMode[g] = "apply" =>
          \A c \in Chunks : <<c, gcTarget[g]>> \in bytes =>
              live_chunk(c) \/ <<c, gcTarget[g]>> \in writtenInGc]_vars

(* A repair that completes has put every desired replica on its node,      *)
(* whatever the metadata said of it before: the HEAD requests find the     *)
(* replicas that are recorded but gone, but for those that were lost under *)
(* the feet of the process that completes the run.                         *)
RepairRestores ==
    [][\A r \in ReplicationRuns : replState[r] = "open" /\ replState'[r] = "completed" =>
          \E q \in Repairers :
              /\ RepairerRun[q] = r /\ repPc[q] = "repair" /\ repPc'[q] = "idle"
              /\ \A c \in LayoutChunks[replLayout[r]] : \A n \in run_replicas(r, c) :
                    <<c, n>> \in bytes \cup lostInRepair[q]]_vars

(* An open GC run is completed eventually, as long as its command is run   *)
(* again whenever it failed: "Open run: Resumeable".                       *)
GcRunCompletes ==
    \A k \in Collectors :
        gcState[CollectorRun[k]] = "open" ~> gcState[CollectorRun[k]] = "completed"

-----------------------------------------------------------------------------
(* The inductive invariant behind CommittedReplicasIntact.                 *)

(* No two gc processes work on the same run at the same time.  Without     *)
(* this PendingDeletesAreGarbage does not hold.                            *)
OneCollectorPerRun ==
    \A j, k \in Collectors : CollectorRun[j] = CollectorRun[k] => j = k

SessionRecords ==
    \A s \in Sessions :
        /\ sessState[s] # "committed" => sessVersion[s] = NoVersion /\ sessLayout[s] = NoLayout
        /\ sessState[s] = "committed" => sessVersion[s] \in versions
        /\ sessLayout[s] # NoLayout => /\ sessLayout[s] \in layouts
                                       /\ sessVersion[s][2] = LayoutObject[sessLayout[s]]

CollectorHoldsRun ==
    \A k \in Collectors : collPc[k] # "idle" => gcState[CollectorRun[k]] = "open"

PushProgress ==
    \A p \in Pushers :
        /\ pushPc[p] \in {"upload", "retry"} => sessState[PusherSession[p]] # "none"
        /\ pushPc[p] = "retry" => sessState[PusherSession[p]] = "committed"
        /\ pushPc[p] = "create" => pushTodo[p] = LayoutChunks[pushLayout[p]]
        /\ sessState[PusherSession[p]] = "open" =>
              \A c \in Chunks, n \in Nodes : Verified(p, c, n) => <<c, n>> \in bytes \cup lost

(* The promise of a commit, and what makes it inductive: sessions and their *)
(* finalization records agree, a collector works only on an open run and   *)
(* with a valid classification, and what a push has verified is there.     *)
DurabilityInvariant ==
    /\ TypeOK
    /\ OperationBarrier
    /\ SessionRecords
    /\ CollectorHoldsRun
    /\ PendingDeletesAreGarbage
    /\ PushProgress
    /\ CommittedReplicasIntact

=============================================================================
