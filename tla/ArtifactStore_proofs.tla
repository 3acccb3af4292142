------------------------ MODULE ArtifactStore_proofs ------------------------
(***************************************************************************)
(* Machine-checked proofs about module ArtifactStore, for every number of  *)
(* sessions, chunks, nodes, runs and client processes.                     *)
(***************************************************************************)
EXTENDS ArtifactStore, MetadataRepository_proofs

USE DEF nodeVars, chunkVars, catalogVars, sessVars, gcVars, replVars, dbVars,
        nodeFiles, pushVars, collVars, repVars

-----------------------------------------------------------------------------
(* Types.                                                                  *)

LEMMA InitTypeOK == Init => TypeOK
<1> SUFFICES ASSUME Init PROVE TypeOK
    OBVIOUS
<1>1. (CHOOSE n \in Nodes : TRUE) \in Nodes
    BY PlacementAssumption
<1>2. RepositoryTypeOK
    BY <1>1 DEF Init, RepositoryInit, RepositoryTypeOK, NodeStates, SessionStates, RunStates, GcModes
<1>3. FilesTypeOK /\ PushTypeOK /\ CollectTypeOK /\ RepairTypeOK
    BY StoreAssumption DEF Init, FilesTypeOK, PushTypeOK, CollectTypeOK, RepairTypeOK
<1> QED
    BY <1>2, <1>3 DEF TypeOK

LEMMA PushTypes ==
    ASSUME TypeOK, NEW p \in Pushers, Push(p)
    PROVE  TypeOK'
<1> USE PlacementAssumption, RepositoryAssumption, StoreAssumption DEF TypeOK
<1> DEFINE s == PusherSession[p]
<1>a. s \in Sessions
    OBVIOUS
<1>b. ASSUME UNCHANGED collVars PROVE CollectTypeOK'
    BY <1>b DEF CollectTypeOK
<1>c. ASSUME UNCHANGED repVars PROVE RepairTypeOK'
    BY <1>c DEF RepairTypeOK
<1>d. ASSUME UNCHANGED nodeFiles PROVE FilesTypeOK'
    BY <1>d DEF FilesTypeOK
<1>e. ASSUME PushExit(p), acks' \subseteq Sessions \X Layouts PROVE PushTypeOK'
    BY <1>e DEF PushExit, PushTypeOK
<1>f. ASSUME pushPc[p] # "idle", UNCHANGED acks, NEW pc \in {"upload", "retry"}, PushTo(p, pc)
      PROVE PushTypeOK'
    BY <1>f DEF PushTo, PushTypeOK
<1>g. ASSUME UNCHANGED <<acks, pushPc, pushLayout, pushPlacement>>,
             pushTodo' \in [Pushers -> SUBSET Chunks],
             pushTasks' \in [Pushers -> SUBSET (Chunks \X Nodes \X PushStages)]
      PROVE PushTypeOK'
    BY <1>g DEF PushTypeOK
<1>1. ASSUME NEW l \in Layouts, PushStart(p, l) PROVE TypeOK'
  <2>1. push_placement(s) \in SUBSET Nodes
    BY DEF push_placement, active_nodes, RepositoryTypeOK
  <2>2. PushTypeOK'
    BY <1>1, <2>1 DEF PushStart, PushTypeOK
  <2> QED
    BY <1>1, <2>2, <1>b, <1>c, <1>d, RepositoryTypes DEF RepositoryStep, PushStart
<1>2. CASE PushCreate(p)
  <2>1. pushPlacement[p] \in SUBSET Nodes
    BY DEF PushTypeOK
  <2>2. PushTypeOK'
    BY <1>2, <1>f DEF PushCreate
  <2>3. RepositoryTypeOK'
    BY <1>2, <2>1, RepositoryTypes DEF RepositoryStep, PushCreate
  <2> QED
    BY <1>2, <2>2, <2>3, <1>b, <1>c, <1>d DEF PushCreate
<1>3. CASE PushCreateRefused(p)
  <2>1. PushTypeOK'
    BY <1>3, <1>e, <1>f DEF PushCreateRefused, PushTypeOK
  <2> QED
    BY <1>3, <2>1, <1>b, <1>c, <1>d, RepositoryTypes DEF RepositoryStep, PushCreateRefused
<1>4. CASE PushNegotiate(p)
  <2>1. PICK B \in SUBSET pushTodo[p] :
          /\ negotiate_chunks(s, B)
          /\ pushTodo' = [pushTodo EXCEPT ![p] = @ \ B]
          /\ pushTasks' = [pushTasks EXCEPT ![p] = @ \cup upload_tasks(s, B)]
    BY <1>4 DEF PushNegotiate
  <2>2. B \subseteq Chunks
    BY DEF PushTypeOK
  <2>3. upload_tasks(s, B) \subseteq Chunks \X Nodes \X PushStages
    <3>1. ASSUME NEW x \in B \X Nodes
          PROVE  <<x[1], x[2], IF x[2] \in available_node_ids(x[1]) THEN "head" ELSE "put">>
                    \in Chunks \X Nodes \X PushStages
      <4>1. x[1] \in Chunks /\ x[2] \in Nodes
        BY <2>2
      <4>2. (IF x[2] \in available_node_ids(x[1]) THEN "head" ELSE "put") \in PushStages
        BY DEF PushStages
      <4> QED
        BY <4>1, <4>2
    <3> QED
        BY <3>1 DEF upload_tasks, desired_replicas
  <2>4. PushTypeOK'
    BY <1>4, <2>1, <2>2, <2>3, <1>g DEF PushNegotiate, PushTypeOK
  <2> QED
    BY <1>4, <2>1, <2>2, <2>4, <1>b, <1>c, <1>d, RepositoryTypes DEF RepositoryStep, PushNegotiate
<1>5. ASSUME NEW c \in Chunks, NEW n \in Nodes, PushHead(p, c, n) PROVE TypeOK'
  <2>1. PushTypeOK'
    BY <1>5, <1>g DEF PushHead, PushTypeOK, PushStages
  <2> QED
    BY <1>5, <2>1, <1>b, <1>c, <1>d, RepositoryTypes DEF RepositoryStep, PushHead
<1>6. ASSUME NEW c \in Chunks, NEW n \in Nodes, PushPut(p, c, n) PROVE TypeOK'
  <2>1. PushTypeOK'
    BY <1>6, <1>g DEF PushPut, PushTypeOK, PushStages
  <2>2. FilesTypeOK'
    BY <1>6 DEF PushPut, put_chunk, FilesTypeOK, Replicas
  <2> QED
    BY <1>6, <2>1, <2>2, <1>b, <1>c, RepositoryTypes DEF RepositoryStep, PushPut
<1>7. ASSUME NEW c \in Chunks, NEW n \in Nodes, PushRegister(p, c, n) PROVE TypeOK'
  <2>1. PushTypeOK'
    BY <1>7, <1>g DEF PushRegister, PushTypeOK
  <2> QED
    BY <1>7, <2>1, <1>b, <1>c, <1>d, RepositoryTypes DEF RepositoryStep, PushRegister
<1>8. CASE PushFinalize(p)
  <2>1. pushLayout[p] \in Layouts
    BY <1>8 DEF PushFinalize, ReadyToFinalize, PushTypeOK
  <2>2. PushTypeOK'
    BY <1>8, <1>e, <2>1 DEF PushFinalize, PushTypeOK
  <2>3. RepositoryTypeOK'
    BY <1>8, <2>1, RepositoryTypes DEF RepositoryStep, PushFinalize
  <2> QED
    BY <1>8, <2>2, <2>3, <1>b, <1>c, <1>d DEF PushFinalize
<1>9. CASE PushStop(p)
  <2>1. PushTypeOK'
    BY <1>9, <1>e DEF PushStop, PushTypeOK
  <2> QED
    BY <1>9, <2>1, <1>b, <1>c, <1>d, RepositoryTypes DEF RepositoryStep, PushStop
<1> QED
    BY <1>1, <1>2, <1>3, <1>4, <1>5, <1>6, <1>7, <1>8, <1>9 DEF Push

LEMMA CollectTypes ==
    ASSUME TypeOK, NEW k \in Collectors, CollectWork(k) \/ CollectStop(k)
    PROVE  TypeOK'
<1> USE PlacementAssumption, RepositoryAssumption, StoreAssumption DEF TypeOK
<1> DEFINE g == CollectorRun[k]
<1>a. g \in GcRuns
    OBVIOUS
<1>b. ASSUME UNCHANGED pushVars PROVE PushTypeOK'
    BY <1>b DEF PushTypeOK
<1>c. ASSUME UNCHANGED repVars PROVE RepairTypeOK'
    BY <1>c DEF RepairTypeOK
<1>d. ASSUME UNCHANGED nodeFiles PROVE FilesTypeOK'
    BY <1>d DEF FilesTypeOK
<1>e. ASSUME NEW pc \in {"idle", "list"}, CollectTo(k, pc), collStops' \in [Collectors -> 0..MaxStops]
      PROVE CollectTypeOK'
    BY <1>e DEF CollectTo, CollectTypeOK
<1>1. ASSUME NEW n \in Nodes, NEW mode \in GcModes, CollectStart(k, n, mode) PROVE TypeOK'
  <2>1. CollectTypeOK'
    BY <1>1, <1>e DEF CollectStart, CollectTypeOK
  <2>2. FilesTypeOK'
    BY <1>1 DEF CollectStart, FilesTypeOK
  <2> QED
    BY <1>1, <2>1, <2>2, <1>b, <1>c, RepositoryTypes DEF RepositoryStep, CollectStart
<1>2. CASE CollectList(k)
  <2>1. list_chunks(gcTarget[g], collAfter[k]) \subseteq Chunks
    BY DEF list_chunks, inventory
  <2>2. CollectTypeOK'
    BY <1>2, <2>1 DEF CollectList, CollectTypeOK
  <2> QED
    BY <1>2, <2>2, <1>b, <1>c, <1>d, RepositoryTypes DEF RepositoryStep, CollectList
<1>3. CASE CollectClassify(k)
  <2>1. classify_gc_chunks(collPage[k]) \subseteq collPage[k]
    BY DEF classify_gc_chunks
  <2>2. CollectTypeOK'
    BY <1>3, <2>1 DEF CollectClassify, CollectTypeOK
  <2> QED
    BY <1>3, <2>2, <1>b, <1>c, <1>d, RepositoryTypes DEF RepositoryStep, CollectClassify
<1>4. CASE CollectClassifyRefused(k)
  <2>1. CollectTypeOK'
    BY <1>4, <1>e DEF CollectClassifyRefused, CollectTypeOK
  <2> QED
    BY <1>4, <2>1, <1>b, <1>c, <1>d, RepositoryTypes DEF RepositoryStep, CollectClassifyRefused
<1>5. ASSUME NEW c \in Chunks, CollectDelete(k, c) PROVE TypeOK'
  <2>1. CollectTypeOK'
    BY <1>5 DEF CollectDelete, CollectTypeOK
  <2>2. FilesTypeOK'
    BY <1>5 DEF CollectDelete, delete_chunk, FilesTypeOK
  <2> QED
    BY <1>5, <2>1, <2>2, <1>b, <1>c, RepositoryTypes DEF RepositoryStep, CollectDelete
<1>6. CASE CollectNextPage(k)
  <2>1. CollectTypeOK'
    BY <1>6 DEF CollectNextPage, CollectTypeOK
  <2> QED
    BY <1>6, <2>1, <1>b, <1>c, <1>d, RepositoryTypes DEF RepositoryStep, CollectNextPage
<1>7. CASE CollectComplete(k)
  <2>1. CollectTypeOK'
    BY <1>7, <1>e DEF CollectComplete, CollectTypeOK
  <2> QED
    BY <1>7, <2>1, <1>b, <1>c, <1>d, RepositoryTypes DEF RepositoryStep, CollectComplete
<1>8. CASE CollectStop(k)
  <2>1. collStops' \in [Collectors -> 0..MaxStops]
    BY <1>8 DEF CollectStop, CollectTypeOK
  <2>2. CollectTypeOK'
    BY <1>8, <2>1, <1>e DEF CollectStop
  <2> QED
    BY <1>8, <2>2, <1>b, <1>c, <1>d, RepositoryTypes DEF RepositoryStep, CollectStop
<1> QED
    BY <1>1, <1>2, <1>3, <1>4, <1>5, <1>6, <1>7, <1>8 DEF CollectWork

LEMMA RepairTypes ==
    ASSUME TypeOK, NEW r \in Repairers, Repair(r)
    PROVE  TypeOK'
<1> USE PlacementAssumption, RepositoryAssumption, StoreAssumption DEF TypeOK
<1> DEFINE run == RepairerRun[r]
<1>a. run \in ReplicationRuns
    OBVIOUS
<1>b. ASSUME UNCHANGED pushVars PROVE PushTypeOK'
    BY <1>b DEF PushTypeOK
<1>c. ASSUME UNCHANGED collVars PROVE CollectTypeOK'
    BY <1>c DEF CollectTypeOK
<1>d. ASSUME UNCHANGED nodeFiles PROVE FilesTypeOK'
    BY <1>d DEF FilesTypeOK
<1>e. ASSUME RepairExit(r) PROVE RepairTypeOK'
    BY <1>e DEF RepairExit, RepairTypeOK
<1>1. ASSUME NEW v \in Versions, RepairStart(r, v) PROVE TypeOK'
  <2>1. RepairTypeOK' /\ FilesTypeOK'
    BY <1>1 DEF RepairStart, RepairTypeOK, FilesTypeOK
  <2>2. RepositoryTypeOK'
    BY <1>1, RepositoryTypes DEF RepositoryStep, RepairStart
  <2> QED
    BY <1>1, <2>1, <2>2, <1>b, <1>c DEF RepairStart
<1>2. CASE RepairPlan(r)
  <2>1. replLayout[run] \in Layouts
    BY <1>2 DEF RepairPlan, get_replication_plan_outcome, RepositoryTypeOK, RunStates
  <2>2. replication_sources(run) \subseteq Replicas
    BY DEF replication_sources, RepositoryTypeOK
  <2>3. RepairTypeOK'
    BY <1>2, <2>1, <2>2 DEF RepairPlan, RepairTypeOK
  <2> QED
    BY <1>2, <2>3, <1>b, <1>c, <1>d, RepositoryTypes DEF RepositoryStep, RepairPlan
<1>3. ASSUME NEW c \in Chunks, RepairScan(r, c) PROVE TypeOK'
  <2> DEFINE stage(n) == IF <<c, n>> \in repSources[r] THEN "head" ELSE "fetch"
             T == {<<c, n, stage(n)>> : n \in run_replicas(run, c)}
  <2>1. run_replicas(run, c) \subseteq Nodes
    <3>1. replPlacement[run] \subseteq Nodes
      BY DEF RepositoryTypeOK
    <3> QED
      BY <3>1, SelectSubset DEF run_replicas
  <2>2. T \subseteq Chunks \X Nodes \X RepairStages
    <3>1. \A n \in Nodes : stage(n) \in RepairStages
      BY DEF RepairStages
    <3> HIDE DEF stage
    <3>2. ASSUME NEW t \in T PROVE t \in Chunks \X Nodes \X RepairStages
      <4>1. PICK n \in run_replicas(run, c) : t = <<c, n, stage(n)>>
        OBVIOUS
      <4>2. n \in Nodes
        BY <2>1
      <4> QED
        BY <4>1, <4>2, <3>1
    <3> HIDE DEF T
    <3> QED
      BY <3>2
  <2>3. RepairTypeOK'
    <3> HIDE DEF T
    <3>1. repTasks' = [repTasks EXCEPT ![r] = T]
      BY <1>3 DEF RepairScan, repair_tasks, T
    <3> QED
      BY <1>3, <3>1, <2>2 DEF RepairScan, RepairTypeOK
  <2> QED
    BY <1>3, <2>3, <1>b, <1>c, <1>d, RepositoryTypes DEF RepositoryStep, RepairScan
<1>4. ASSUME NEW c \in Chunks, NEW n \in Nodes, RepairHead(r, c, n) PROVE TypeOK'
  <2>1. RepairTypeOK'
    BY <1>4 DEF RepairHead, RepairTypeOK, RepairStages
  <2> QED
    BY <1>4, <2>1, <1>b, <1>c, <1>d, RepositoryTypes DEF RepositoryStep, RepairHead
<1>5. ASSUME NEW c \in Chunks, RepairFetch(r, c) PROVE TypeOK'
  <2> DEFINE T == {<<t[1], t[2], "put">> : t \in repTasks[r]}
  <2>1. T \subseteq Chunks \X Nodes \X RepairStages
    BY DEF RepairTypeOK, RepairStages
  <2>2. RepairTypeOK'
    <3> HIDE DEF T
    <3>1. repTasks' = [repTasks EXCEPT ![r] = T]
      BY <1>5 DEF RepairFetch, T
    <3> QED
      BY <1>5, <3>1, <2>1 DEF RepairFetch, RepairTypeOK
  <2> QED
    BY <1>5, <2>2, <1>b, <1>c, <1>d, RepositoryTypes DEF RepositoryStep, RepairFetch
<1>6. ASSUME NEW c \in Chunks, NEW n \in Nodes, RepairPut(r, c, n) PROVE TypeOK'
  <2>1. RepairTypeOK'
    BY <1>6 DEF RepairPut, RepairTypeOK, RepairStages
  <2>2. FilesTypeOK'
    BY <1>6 DEF RepairPut, put_chunk, FilesTypeOK, Replicas
  <2> QED
    BY <1>6, <2>1, <2>2, <1>b, <1>c, RepositoryTypes DEF RepositoryStep, RepairPut
<1>7. ASSUME NEW c \in Chunks, NEW n \in Nodes, RepairRegister(r, c, n) PROVE TypeOK'
  <2>1. RepairTypeOK'
    BY <1>7 DEF RepairRegister, RepairTypeOK
  <2> QED
    BY <1>7, <2>1, <1>b, <1>c, <1>d, RepositoryTypes DEF RepositoryStep, RepairRegister
<1>8. CASE RepairComplete(r)
  <2>1. RepositoryTypeOK'
    BY <1>8, RepositoryTypes DEF RepositoryStep, RepairComplete
  <2> QED
    BY <1>8, <2>1, <1>e, <1>b, <1>c, <1>d DEF RepairComplete
<1>9. CASE RepairStop(r)
    BY <1>9, <1>e, <1>b, <1>c, <1>d, RepositoryTypes DEF RepositoryStep, RepairStop
<1> QED
    BY <1>1, <1>2, <1>3, <1>4, <1>5, <1>6, <1>7, <1>8, <1>9 DEF Repair

LEMMA NextTypeOK == TypeOK /\ [Next]_vars => TypeOK'
<1> SUFFICES ASSUME TypeOK, [Next]_vars PROVE TypeOK'
    OBVIOUS
<1>a. ASSUME UNCHANGED <<pushVars, collVars, repVars>>
      PROVE PushTypeOK' /\ CollectTypeOK' /\ RepairTypeOK'
    BY <1>a DEF TypeOK, PushTypeOK, CollectTypeOK, RepairTypeOK
<1>b. ASSUME UNCHANGED nodeFiles PROVE FilesTypeOK'
    BY <1>b DEF TypeOK, FilesTypeOK
<1>1. ASSUME NEW c \in Chunks, NEW n \in Nodes, LoseReplica(c, n) PROVE TypeOK'
  <2>1. FilesTypeOK'
    BY <1>1 DEF LoseReplica, TypeOK, FilesTypeOK, Replicas
  <2> QED
    BY <1>1, <2>1, <1>a, RepositoryTypes DEF RepositoryStep, LoseReplica, TypeOK
<1>2. CASE Operator
  <2>1. ASSUME NEW s \in Sessions, AbortSession(s) PROVE TypeOK'
    BY <2>1, <1>a, <1>b, RepositoryTypes DEF RepositoryStep, AbortSession, TypeOK
  <2>2. ASSUME NEW n \in Nodes, NEW st \in NodeStates, SetNodeState(n, st) PROVE TypeOK'
    BY <2>2, <1>a, <1>b, RepositoryTypes DEF RepositoryStep, SetNodeState, TypeOK
  <2>3. ASSUME NEW R \in SUBSET versions, Retire(R) PROVE TypeOK'
    BY <2>3, <1>a, <1>b, RepositoryTypes DEF RepositoryStep, Retire, TypeOK
  <2> QED
    BY <1>2, <2>1, <2>2, <2>3, StoreAssumption DEF Operator
<1>3. CASE UNCHANGED vars
    BY <1>3, <1>a, <1>b, RepositoryTypes DEF RepositoryStep, vars, TypeOK
<1> QED
    BY <1>1, <1>2, <1>3, PushTypes, CollectTypes, RepairTypes DEF Next

(* Type correctness: whatever the clients, the operator and the disks do,  *)
(* the tables, the chunk files and the clients' own state keep their types *)
(* (the layout of a replication run that exists is a layout).              *)
THEOREM TypeCorrect == Spec => []TypeOK
<1>1. QED
    BY InitTypeOK, NextTypeOK, PTL DEF Spec

-----------------------------------------------------------------------------
(* Every step of the store is at most one transaction of the repository.   *)

LEMMA NextIsRepositoryStep ==
    ASSUME TypeOK, [Next]_vars
    PROVE  RepositoryStep
<1> USE RepositoryAssumption, StoreAssumption DEF TypeOK
<1>1. ASSUME NEW p \in Pushers, Push(p) PROVE RepositoryStep
  <2> DEFINE s == PusherSession[p]
  <2>1. s \in Sessions
    OBVIOUS
  <2>2. CASE PushCreate(p)
    <3>1. pushPlacement[p] \in SUBSET Nodes
      BY DEF PushTypeOK
    <3> QED
      BY <2>2, <3>1 DEF PushCreate, RepositoryStep
  <2>3. CASE PushNegotiate(p)
    <3>1. PICK B \in SUBSET pushTodo[p] : negotiate_chunks(s, B)
      BY <2>3 DEF PushNegotiate
    <3>2. B \subseteq Chunks
      BY DEF PushTypeOK
    <3> QED
      BY <3>1, <3>2 DEF RepositoryStep
  <2>4. CASE PushFinalize(p)
    <3>1. pushLayout[p] \in Layouts
      BY <2>4 DEF PushFinalize, ReadyToFinalize, PushTypeOK
    <3> QED
      BY <2>4, <3>1 DEF PushFinalize, RepositoryStep
  <2>5. ASSUME NEW c \in Chunks, NEW n \in Nodes, PushRegister(p, c, n) PROVE RepositoryStep
    BY <2>5 DEF PushRegister, RepositoryStep
  <2> QED
    BY <1>1, <2>2, <2>3, <2>4, <2>5
       DEF Push, PushStart, PushCreateRefused, PushHead, PushPut, PushStop, RepositoryStep
<1>2. ASSUME NEW k \in Collectors, CollectWork(k) \/ CollectStop(k) PROVE RepositoryStep
  <2> DEFINE g == CollectorRun[k]
  <2>1. g \in GcRuns
    OBVIOUS
  <2>2. ASSUME NEW n \in Nodes, NEW mode \in GcModes, CollectStart(k, n, mode) PROVE RepositoryStep
    BY <2>2 DEF CollectStart, RepositoryStep
  <2>3. CASE CollectComplete(k)
    BY <2>3 DEF CollectComplete, RepositoryStep
  <2> QED
    BY <1>2, <2>2, <2>3
       DEF CollectWork, CollectList, CollectClassify, CollectClassifyRefused, CollectDelete,
           CollectNextPage, CollectStop, RepositoryStep
<1>3. ASSUME NEW r \in Repairers, Repair(r) PROVE RepositoryStep
  <2> DEFINE run == RepairerRun[r]
  <2>1. run \in ReplicationRuns
    OBVIOUS
  <2>2. ASSUME NEW v \in Versions, RepairStart(r, v) PROVE RepositoryStep
    BY <2>2 DEF RepairStart, RepositoryStep
  <2>3. ASSUME NEW c \in Chunks, NEW n \in Nodes, RepairRegister(r, c, n) PROVE RepositoryStep
    BY <2>3 DEF RepairRegister, RepositoryStep
  <2>4. CASE RepairComplete(r)
    BY <2>4 DEF RepairComplete, RepositoryStep
  <2> QED
    BY <1>3, <2>2, <2>3, <2>4
       DEF Repair, RepairPlan, RepairScan, RepairHead, RepairFetch, RepairPut, RepairStop,
           RepositoryStep
<1>4. CASE Operator
    BY <1>4 DEF Operator, AbortSession, SetNodeState, Retire, RepositoryStep
<1> QED
    BY <1>1, <1>2, <1>3, <1>4 DEF Next, LoseReplica, vars, RepositoryStep

-----------------------------------------------------------------------------
(* The barrier between sessions, GC runs and replication runs.             *)

LEMMA RepositoryBarrier ==
    ASSUME RepositoryTypeOK, OperationBarrier, RepositoryStep
    PROVE  OperationBarrier'
<1> USE DEF RepositoryTypeOK, OperationBarrier, gc_in_progress, replication_in_progress,
            open_upload_sessions_present
<1>1. ASSUME NEW s \in Sessions, NEW P \in SUBSET Nodes, create_upload_session(s, P)
      PROVE OperationBarrier'
    BY <1>1 DEF create_upload_session, create_upload_session_outcome
<1>2. ASSUME NEW s \in Sessions, abort_upload_session(s) PROVE OperationBarrier'
    BY <1>2 DEF abort_upload_session
<1>3. ASSUME NEW s \in Sessions, NEW l \in Layouts, finalize_upload(s, l) PROVE OperationBarrier'
    BY <1>3 DEF finalize_upload
<1>4. ASSUME NEW g \in GcRuns, NEW n \in Nodes, NEW mode \in GcModes, start_gc_run(g, n, mode)
      PROVE OperationBarrier'
  <2>1. ~gc_in_progress /\ ~replication_in_progress /\ ~open_upload_sessions_present
    BY <1>4 DEF start_gc_run, start_gc_run_outcome, RunStates
  <2> QED
    BY <1>4, <2>1 DEF start_gc_run
<1>5. ASSUME NEW g \in GcRuns, complete_gc_run(g) PROVE OperationBarrier'
    BY <1>5 DEF complete_gc_run
<1>6. ASSUME NEW r \in ReplicationRuns, NEW v \in Versions, start_replication_run(r, v)
      PROVE OperationBarrier'
  <2>1. ~gc_in_progress /\ ~replication_in_progress
    BY <1>6 DEF start_replication_run, start_replication_run_outcome, RunStates
  <2> QED
    BY <1>6, <2>1 DEF start_replication_run
<1>7. ASSUME NEW r \in ReplicationRuns, complete_replication_run(r) PROVE OperationBarrier'
    BY <1>7 DEF complete_replication_run
<1> QED
    BY <1>1, <1>2, <1>3, <1>4, <1>5, <1>6, <1>7
       DEF RepositoryStep, register_storage_node, negotiate_chunks, register_storage_location,
           run_lifecycle

(* The barrier of the operations: no interleaving of clients has a GC run   *)
(* open together with another GC run, an upload session or a replication   *)
(* run (lock_gc_operations and the checks made under it).                  *)
THEOREM BarrierHolds == Spec => []OperationBarrier
<1>1. Init => OperationBarrier
    BY DEF Init, RepositoryInit, OperationBarrier, gc_in_progress, replication_in_progress,
           open_upload_sessions_present
<1>2. TypeOK /\ OperationBarrier /\ [Next]_vars => OperationBarrier'
    BY NextIsRepositoryStep, RepositoryBarrier DEF TypeOK
<1> QED
    BY <1>1, <1>2, TypeCorrect, PTL DEF Spec

-----------------------------------------------------------------------------
(* Session records, and what is live, across the repository's steps.       *)

LEMMA RepositoryRecords ==
    ASSUME RepositoryTypeOK, SessionRecords, RepositoryStep
    PROVE  SessionRecords'
<1> USE RepositoryAssumption DEF RepositoryTypeOK, SessionRecords
<1>1. ASSUME NEW s \in Sessions, NEW P \in SUBSET Nodes, create_upload_session(s, P)
      PROVE SessionRecords'
    BY <1>1 DEF create_upload_session, create_upload_session_outcome
<1>2. ASSUME NEW s \in Sessions, abort_upload_session(s) PROVE SessionRecords'
    BY <1>2 DEF abort_upload_session
<1>3. ASSUME NEW s \in Sessions, NEW l \in Layouts, finalize_upload(s, l) PROVE SessionRecords'
  <2>1. version_of(s, l) \in Versions /\ version_of(s, l)[2] = LayoutObject[l]
    BY DEF version_of, Versions
  <2> QED
    BY <1>3, <2>1 DEF finalize_upload
<1>4. ASSUME NEW g \in GcRuns, complete_gc_run(g) PROVE SessionRecords'
  <2>1. /\ UNCHANGED <<sessState, sessVersion, versions>>
        /\ \A s \in Sessions : \/ sessLayout'[s] = NoLayout
                               \/ sessLayout'[s] = sessLayout[s] /\ sessLayout[s] \in layouts'
    BY <1>4 DEF complete_gc_run, sweep_gc_metadata, finalizations_after_sweep, live_layouts
  <2> QED
    BY <2>1, <1>4 DEF complete_gc_run, sweep_gc_metadata, finalizations_after_sweep
<1> QED
    BY <1>1, <1>2, <1>3, <1>4
       DEF RepositoryStep, register_storage_node, negotiate_chunks, register_storage_location,
           start_gc_run, start_replication_run, complete_replication_run, run_lifecycle

(* Only finalize_upload makes a chunk live, and it needs an open session.  *)
LEMMA LiveChunksShrink ==
    ASSUME RepositoryTypeOK, RepositoryStep, ~open_upload_sessions_present,
           NEW c \in Chunks, live_chunk(c)'
    PROVE  live_chunk(c)
<1> USE RepositoryAssumption DEF RepositoryTypeOK, open_upload_sessions_present
<1>1. PICK l \in layouts' : live_layout(l)' /\ c \in LayoutChunks[l]
    BY DEF live_chunk, live_layouts
<1>2. ~ \E s \in Sessions, k \in Layouts : finalize_upload(s, k)
    BY DEF finalize_upload, finalize_upload_outcome, SessionStates, committed_retry_outcome
<1>3. /\ layouts' \subseteq layouts /\ versions' = versions /\ retired \subseteq retired'
      /\ sessVersion' = sessVersion
      /\ \A s \in Sessions : sessLayout'[s] \in {sessLayout[s], NoLayout}
  <2>1. ASSUME NEW g \in GcRuns, complete_gc_run(g) PROVE <1>3!:
    BY <2>1 DEF complete_gc_run, sweep_gc_metadata, finalizations_after_sweep, live_layouts
  <2>2. ASSUME NEW s \in Sessions, NEW P \in SUBSET Nodes, create_upload_session(s, P)
        PROVE <1>3!:
    BY <2>2 DEF create_upload_session
  <2> QED
    BY <1>2, <2>1, <2>2
       DEF RepositoryStep, register_storage_node, negotiate_chunks, register_storage_location,
           abort_upload_session, start_gc_run, start_replication_run, complete_replication_run,
           run_lifecycle
<1>4. live_layout(l)
    BY <1>1, <1>3 DEF live_layout, is_version_retired
<1> QED
    BY <1>1, <1>3, <1>4 DEF live_chunk, live_layouts

(* The layout of a committed session whose version is not retired is live. *)
LEMMA CommittedLayoutLive ==
    ASSUME RepositoryTypeOK, SessionRecords, NEW s \in Sessions,
           sessState[s] = "committed", ~is_version_retired(sessVersion[s]),
           sessLayout[s] \in layouts
    PROVE  /\ sessLayout[s] \in live_layouts
           /\ \A c \in LayoutChunks[sessLayout[s]] : live_chunk(c)
<1>1. sessVersion[s] # NoVersion
    BY RepositoryAssumption DEF SessionRecords, RepositoryTypeOK
<1> QED
    BY <1>1 DEF live_layouts, live_layout, live_chunk

(* A session is created once, with its placement, and ends once.           *)
LEMMA SessionSteps ==
    ASSUME RepositoryTypeOK, RepositoryStep, NEW s \in Sessions
    PROVE  /\ sessState[s] # "none" => sessState'[s] # "none" /\ sessPlacement'[s] = sessPlacement[s]
           /\ sessState[s] = "committed" => sessState'[s] = "committed" /\ sessVersion'[s] = sessVersion[s]
           /\ sessState[s] = "aborted" => sessState'[s] = "aborted"
           /\ sessState'[s] = "open" => sessState[s] \in {"none", "open"}
<1> USE DEF RepositoryTypeOK, SessionStates
<1>1. ASSUME NEW z \in Sessions, NEW P \in SUBSET Nodes, create_upload_session(z, P)
      PROVE sessState[z] = "none" /\ sessState' = [sessState EXCEPT ![z] = "open"]
            /\ sessPlacement' = [sessPlacement EXCEPT ![z] = P] /\ sessVersion' = sessVersion
    BY <1>1 DEF create_upload_session, create_upload_session_outcome
<1>2. ASSUME NEW z \in Sessions, NEW l \in Layouts, finalize_upload(z, l)
      PROVE sessState[z] = "open" /\ sessState' = [sessState EXCEPT ![z] = "committed"]
            /\ sessPlacement' = sessPlacement
            /\ sessVersion' = [sessVersion EXCEPT ![z] = version_of(z, l)]
    BY <1>2 DEF finalize_upload, finalize_upload_outcome, committed_retry_outcome
<1>3. CASE \E z \in Sessions, P \in SUBSET Nodes : create_upload_session(z, P)
    BY <1>3, <1>1
<1>4. CASE \E z \in Sessions, l \in Layouts : finalize_upload(z, l)
    BY <1>4, <1>2
<1>5. CASE \E z \in Sessions : abort_upload_session(z)
    BY <1>5 DEF abort_upload_session
<1>6. CASE \E g \in GcRuns : complete_gc_run(g)
    BY <1>6 DEF complete_gc_run
<1> QED
    BY <1>3, <1>4, <1>5, <1>6
       DEF RepositoryStep, register_storage_node, negotiate_chunks, register_storage_location,
           start_gc_run, start_replication_run, complete_replication_run, run_lifecycle

(* What the repository recorded for a committed version that is not        *)
(* retired, no later transaction takes away, the sweep included.           *)
LEMMA CommittedRecordsStay ==
    ASSUME RepositoryTypeOK, SessionRecords, RepositoryStep, NEW s \in Sessions,
           sessState[s] = "committed", ~is_version_retired(sessVersion[s]),
           sessLayout[s] \in layouts
    PROVE  /\ sessLayout'[s] = sessLayout[s] /\ sessLayout[s] \in layouts'
           /\ \A c \in LayoutChunks[sessLayout[s]], n \in Nodes :
                 <<c, n>> \in locations => <<c, n>> \in locations'
<1> USE DEF RepositoryTypeOK
<1> DEFINE Kept == /\ sessLayout'[s] = sessLayout[s] /\ sessLayout[s] \in layouts'
                   /\ \A c \in LayoutChunks[sessLayout[s]], n \in Nodes :
                         <<c, n>> \in locations => <<c, n>> \in locations'
<1>1. ASSUME NEW g \in GcRuns, complete_gc_run(g) PROVE Kept
  <2>1. /\ sessLayout[s] \in live_layouts
        /\ \A c \in LayoutChunks[sessLayout[s]] : live_chunk(c)
    BY CommittedLayoutLive
  <2> QED
    BY <1>1, <2>1 DEF complete_gc_run, sweep_gc_metadata, finalizations_after_sweep
<1> QED
    BY <1>1
       DEF RepositoryStep, register_storage_node, negotiate_chunks, register_storage_location,
           create_upload_session, abort_upload_session, finalize_upload, finalize_upload_outcome,
           committed_retry_outcome, start_gc_run, start_replication_run,
           complete_replication_run, run_lifecycle

-----------------------------------------------------------------------------
(* What the steps of one kind of client leave alone.                       *)

LEMMA OnlyCollectorsCollect ==
    ASSUME [Next]_vars, ~ \E k \in Collectors : CollectWork(k) \/ CollectStop(k)
    PROVE  UNCHANGED <<collVars, gcVars>>
<1>1. ASSUME NEW p \in Pushers, Push(p) PROVE UNCHANGED <<collVars, gcVars>>
    BY <1>1 DEF Push, PushStart, PushCreate, create_upload_session, PushCreateRefused,
           PushNegotiate, negotiate_chunks, PushHead, PushPut, PushRegister,
           register_storage_location, PushFinalize, finalize_upload, PushStop
<1>2. ASSUME NEW r \in Repairers, Repair(r) PROVE UNCHANGED <<collVars, gcVars>>
    BY <1>2 DEF Repair, RepairStart, start_replication_run, RepairPlan, RepairScan, RepairHead,
           RepairFetch, RepairPut, RepairRegister, register_storage_location, RepairComplete,
           complete_replication_run, RepairStop
<1>3. CASE Operator
    BY <1>3 DEF Operator, AbortSession, abort_upload_session, SetNodeState,
           register_storage_node, Retire, run_lifecycle
<1> QED
    BY <1>1, <1>2, <1>3 DEF Next, LoseReplica, vars

LEMMA OnlyPushersPush ==
    ASSUME [Next]_vars, ~ \E p \in Pushers : Push(p)
    PROVE  UNCHANGED pushVars
<1>1. ASSUME NEW k \in Collectors, CollectWork(k) \/ CollectStop(k) PROVE UNCHANGED pushVars
    BY <1>1 DEF CollectWork, CollectStart, CollectList, CollectClassify, CollectClassifyRefused,
           CollectDelete, CollectNextPage, CollectComplete, CollectStop
<1>2. ASSUME NEW r \in Repairers, Repair(r) PROVE UNCHANGED pushVars
    BY <1>2 DEF Repair, RepairStart, RepairPlan, RepairScan, RepairHead,
           RepairFetch, RepairPut, RepairRegister, RepairComplete, RepairStop
<1> QED
    BY <1>1, <1>2 DEF Next, Operator, AbortSession, SetNodeState, Retire, LoseReplica, vars

(* Only a collector takes bytes away that no disk lost. *)
LEMMA OnlyCollectorsDelete ==
    ASSUME [Next]_vars, ~ \E k \in Collectors, c \in Chunks : CollectDelete(k, c)
    PROVE  bytes \cup lost \subseteq bytes' \cup lost'
<1>1. ASSUME NEW p \in Pushers, Push(p) PROVE bytes \cup lost \subseteq bytes' \cup lost'
    BY <1>1 DEF Push, PushStart, PushCreate, PushCreateRefused, PushNegotiate, PushHead,
           PushPut, put_chunk, PushRegister, PushFinalize, PushStop
<1>2. ASSUME NEW r \in Repairers, Repair(r) PROVE bytes \cup lost \subseteq bytes' \cup lost'
    BY <1>2 DEF Repair, RepairStart, RepairPlan, RepairScan, RepairHead,
           RepairFetch, RepairPut, put_chunk, RepairRegister, RepairComplete, RepairStop
<1>3. ASSUME NEW k \in Collectors, CollectWork(k) \/ CollectStop(k)
      PROVE bytes \cup lost \subseteq bytes' \cup lost'
    BY <1>3 DEF CollectWork, CollectStart, CollectList, CollectClassify, CollectClassifyRefused,
           CollectNextPage, CollectComplete, CollectStop
<1> QED
    BY <1>1, <1>2, <1>3
       DEF Next, Operator, AbortSession, SetNodeState, Retire, LoseReplica, vars

-----------------------------------------------------------------------------
(* Durability.  A DELETE needs an open GC run (CollectorHoldsRun), an open *)
(* run excludes open sessions (OperationBarrier), and without an open      *)
(* session nothing becomes live (LiveChunksShrink), so a classification    *)
(* stays valid until its last DELETE; a commit in turn finds the replicas  *)
(* its push verified, because no DELETE happened while it was open.        *)

LEMMA CollectorStep ==
    ASSUME OneCollectorPerRun, DurabilityInvariant, [Next]_vars
    PROVE  CollectorHoldsRun'
<1> USE StoreAssumption DEF DurabilityInvariant, CollectorHoldsRun
<1>1. ASSUME NEW k \in Collectors, CollectWork(k) \/ CollectStop(k) PROVE CollectorHoldsRun'
  <2> DEFINE g == CollectorRun[k]
  <2>1. ASSUME NEW n \in Nodes, NEW mode \in GcModes, CollectStart(k, n, mode)
        PROVE CollectorHoldsRun'
    <3>1. gcState'[g] = "open" /\ \A h \in GcRuns : gcState[h] = "open" => gcState'[h] = "open"
      BY <2>1 DEF CollectStart, start_gc_run, start_gc_run_outcome, TypeOK, RepositoryTypeOK, RunStates
    <3> QED
      BY <2>1, <3>1 DEF CollectStart, CollectTo, TypeOK, CollectTypeOK
  <2>2. CASE CollectComplete(k)
    <3>1. \A h \in GcRuns \ {g} : gcState'[h] = gcState[h]
      BY <2>2 DEF CollectComplete, complete_gc_run, TypeOK, RepositoryTypeOK
    <3>2. \A j \in Collectors \ {k} : collPc'[j] = collPc[j] /\ CollectorRun[j] # g
      BY <2>2 DEF CollectComplete, CollectTo, OneCollectorPerRun, TypeOK, CollectTypeOK
    <3>3. collPc'[k] = "idle"
      BY <2>2 DEF CollectComplete, CollectTo, TypeOK, CollectTypeOK
    <3> QED
      BY <3>1, <3>2, <3>3
  <2>3. ASSUME UNCHANGED gcState, \A j \in Collectors : collPc'[j] # "idle" => collPc[j] # "idle"
        PROVE CollectorHoldsRun'
    BY <2>3
  <2>4. CASE CollectList(k) \/ CollectClassify(k) \/ CollectClassifyRefused(k) \/ CollectNextPage(k)
              \/ CollectStop(k) \/ \E c \in Chunks : CollectDelete(k, c)
    BY <2>3, <2>4 DEF CollectList, CollectClassify, CollectClassifyRefused, CollectNextPage,
           CollectStop, CollectDelete, CollectTo, TypeOK, CollectTypeOK
  <2> QED
    BY <1>1, <2>1, <2>2, <2>4 DEF CollectWork
<1> QED
    BY <1>1, OnlyCollectorsCollect

LEMMA PendingDeletesStep ==
    ASSUME DurabilityInvariant, [Next]_vars
    PROVE  PendingDeletesAreGarbage'
<1> USE StoreAssumption DEF DurabilityInvariant
<1> SUFFICES ASSUME NEW j \in Collectors, collPc'[j] = "delete", NEW c \in collPage'[j],
                    live_chunk(c)'
             PROVE  FALSE
    BY DEF PendingDeletesAreGarbage
<1>t. RepositoryTypeOK /\ CollectTypeOK
    BY DEF TypeOK
<1>1. CASE collPc[j] = "delete" /\ c \in collPage[j]
  <2>1. gc_in_progress
    BY <1>1 DEF CollectorHoldsRun, gc_in_progress
  <2>2. ~open_upload_sessions_present
    BY <2>1 DEF OperationBarrier
  <2>3. c \in Chunks
    BY <1>1, <1>t DEF CollectTypeOK
  <2>4. live_chunk(c)
    BY <2>2, <2>3, <1>t, LiveChunksShrink, NextIsRepositoryStep
  <2> QED
    BY <1>1, <2>4 DEF PendingDeletesAreGarbage
<1>2. CASE ~(collPc[j] = "delete" /\ c \in collPage[j])
  <2>1. CollectClassify(j)
    <3>1. PICK k \in Collectors : CollectWork(k) \/ CollectStop(k)
      BY <1>2, OnlyCollectorsCollect
    <3>2. ASSUME CollectList(k) PROVE FALSE
      BY <3>2, <1>2, <1>t DEF CollectList, CollectTypeOK
    <3>3. ASSUME NEW d \in Chunks, CollectDelete(k, d) PROVE FALSE
      BY <3>3, <1>2, <1>t DEF CollectDelete, CollectTypeOK
    <3>4. ASSUME NEW n \in Nodes, NEW mode \in GcModes, CollectStart(k, n, mode) PROVE FALSE
      BY <3>4, <1>2, <1>t DEF CollectStart, CollectTo, CollectTypeOK
    <3>5. ASSUME CollectClassifyRefused(k) \/ CollectComplete(k) \/ CollectStop(k) PROVE FALSE
      BY <3>5, <1>2, <1>t DEF CollectClassifyRefused, CollectComplete, CollectStop, CollectTo,
                              CollectTypeOK
    <3>6. ASSUME CollectNextPage(k) PROVE FALSE
      BY <3>6, <1>2, <1>t DEF CollectNextPage, CollectTypeOK
    <3>7. CollectClassify(k)
      BY <3>1, <3>2, <3>3, <3>4, <3>5, <3>6 DEF CollectWork
    <3> QED
      BY <3>7, <1>2, <1>t DEF CollectClassify, CollectTypeOK
  <2>2. c \in classify_gc_chunks(collPage[j])
    BY <2>1, <1>t DEF CollectClassify, CollectTypeOK
  <2>3. UNCHANGED dbVars
    BY <2>1 DEF CollectClassify
  <2>4. ~live_chunk(c)
    BY <2>2 DEF classify_gc_chunks
  <2>5. live_chunk(c)
    BY <2>3 DEF live_chunk, live_layouts, live_layout, is_version_retired
  <2> QED
    BY <2>4, <2>5
<1> QED
    BY <1>1, <1>2

(* While a session is open no collector deletes. *)
LEMMA OpenSessionKeepsFiles ==
    ASSUME DurabilityInvariant, [Next]_vars, open_upload_sessions_present
    PROVE  bytes \cup lost \subseteq bytes' \cup lost'
<1>1. ASSUME NEW k \in Collectors, NEW c \in Chunks, CollectDelete(k, c) PROVE FALSE
  <2>1. gc_in_progress
    BY <1>1, StoreAssumption DEF CollectDelete, DurabilityInvariant, CollectorHoldsRun, gc_in_progress
  <2> QED
    BY <2>1 DEF DurabilityInvariant, OperationBarrier
<1> QED
    BY <1>1, OnlyCollectorsDelete

LEMMA PushProgressStep ==
    ASSUME DurabilityInvariant, [Next]_vars, NEW p \in Pushers
    PROVE  LET s == PusherSession[p] IN
           /\ pushPc'[p] \in {"upload", "retry"} => sessState'[s] # "none"
           /\ pushPc'[p] = "retry" => sessState'[s] = "committed"
           /\ pushPc'[p] = "create" => pushTodo'[p] = LayoutChunks[pushLayout'[p]]
           /\ sessState'[s] = "open" =>
                 \A c \in Chunks, n \in Nodes : Verified(p, c, n)' => <<c, n>> \in bytes' \cup lost'
<1> USE StoreAssumption
<1> DEFINE s == PusherSession[p]
           Progress ==
              /\ pushPc'[p] \in {"upload", "retry"} => sessState'[s] # "none"
              /\ pushPc'[p] = "retry" => sessState'[s] = "committed"
              /\ pushPc'[p] = "create" => pushTodo'[p] = LayoutChunks[pushLayout'[p]]
              /\ sessState'[s] = "open" =>
                 \A c \in Chunks, n \in Nodes : Verified(p, c, n)' => <<c, n>> \in bytes' \cup lost'
<1>t. RepositoryTypeOK /\ PushTypeOK /\ s \in Sessions
    BY DEF TypeOK, DurabilityInvariant
<1>p. /\ pushPc[p] \in {"upload", "retry"} => sessState[s] # "none"
      /\ pushPc[p] = "retry" => sessState[s] = "committed"
      /\ pushPc[p] = "create" => pushTodo[p] = LayoutChunks[pushLayout[p]]
      /\ sessState[s] = "open" =>
            \A c \in Chunks, n \in Nodes : Verified(p, c, n) => <<c, n>> \in bytes \cup lost
    BY DEF DurabilityInvariant, PushProgress
<1>s. /\ sessState[s] # "none" => sessState'[s] # "none" /\ sessPlacement'[s] = sessPlacement[s]
      /\ sessState[s] = "committed" => sessState'[s] = "committed"
      /\ sessState'[s] = "open" => sessState[s] \in {"none", "open"}
    BY <1>t, SessionSteps, NextIsRepositoryStep DEF DurabilityInvariant
<1>f. sessState[s] = "open" => bytes \cup lost \subseteq bytes' \cup lost'
    BY <1>t, OpenSessionKeepsFiles DEF open_upload_sessions_present
(* What the push itself does not touch. *)
<1>1. ASSUME pushPc'[p] = pushPc[p], pushLayout'[p] = pushLayout[p], pushTodo'[p] = pushTodo[p],
             \A c \in Chunks, n \in Nodes : Verified(p, c, n)' =>
                 Verified(p, c, n) \/ <<c, n>> \in bytes' \cup lost'
      PROVE  Progress
  <2>1. ASSUME sessState'[s] = "open", NEW c \in Chunks, NEW n \in Nodes, Verified(p, c, n)'
        PROVE  <<c, n>> \in bytes' \cup lost'
    <3>1. pushPc[p] = "upload"
      BY <2>1, <1>1 DEF Verified
    <3>2. sessState[s] = "open"
      BY <2>1, <3>1, <1>p, <1>s
    <3> QED
      BY <2>1, <3>2, <1>1, <1>p, <1>f
  <2> QED
    BY <2>1, <1>1, <1>p, <1>s
<1>2. CASE ~Push(p)
  <2>1. UNCHANGED <<pushPc[p], pushLayout[p], pushTodo[p], pushTasks[p]>>
    <3>1. ASSUME NEW q \in Pushers, q # p, Push(q)
          PROVE  UNCHANGED <<pushPc[p], pushLayout[p], pushTodo[p], pushTasks[p]>>
      BY <3>1, <1>t DEF Push, PushTo, PushExit, PushStart, PushCreate, PushCreateRefused,
             PushNegotiate, PushHead, PushPut, PushRegister, PushFinalize, PushStop, PushTypeOK
    <3> QED
      BY <3>1, <1>2, OnlyPushersPush
  <2>2. ASSUME NEW c \in Chunks, NEW n \in Nodes, Verified(p, c, n)' PROVE Verified(p, c, n)
    <3>1. pushPc[p] = "upload"
      BY <2>1, <2>2 DEF Verified
    <3>2. sessPlacement'[s] = sessPlacement[s]
      BY <3>1, <1>p, <1>s
    <3> QED
      BY <2>1, <2>2, <3>2 DEF Verified, session_replicas
  <2> QED
    BY <2>1, <2>2, <1>1
<1>3. CASE Push(p)
  <2>1. ASSUME NEW l \in Layouts, PushStart(p, l) PROVE Progress
    BY <2>1, <1>t DEF PushStart, PushTypeOK, Verified
  <2>2. CASE PushCreate(p)
    <3>1. pushPc'[p] = "upload" /\ pushTodo'[p] = LayoutChunks[pushLayout'[p]]
      BY <2>2, <1>t, <1>p DEF PushCreate, PushTo, PushTypeOK
    <3>2. sessState'[s] = "open"
      BY <2>2, <1>t DEF PushCreate, create_upload_session, create_upload_session_outcome,
                        create_upload_session_response, RepositoryTypeOK
    <3> QED
      BY <3>1, <3>2 DEF Verified
  <2>3. CASE PushCreateRefused(p)
    BY <2>3, <1>t DEF PushCreateRefused, PushTo, PushExit, PushTypeOK, Verified
  <2>4. CASE PushNegotiate(p)
    <3>1. PICK B \in SUBSET pushTodo[p] :
            /\ pushTodo' = [pushTodo EXCEPT ![p] = @ \ B]
            /\ pushTasks' = [pushTasks EXCEPT ![p] = @ \cup upload_tasks(s, B)]
      BY <2>4 DEF PushNegotiate
    <3>2. UNCHANGED <<pushPc, pushLayout, sessState, sessPlacement, bytes, lost>>
      BY <2>4 DEF PushNegotiate, negotiate_chunks
    <3>3. ASSUME NEW c \in Chunks, NEW n \in Nodes, Verified(p, c, n)' PROVE Verified(p, c, n)
      <4>1. n \in session_replicas(s, c)
        BY <3>2, <3>3 DEF Verified, session_replicas
      <4>2. c \notin B
        <5>1. SUFFICES ASSUME c \in B PROVE FALSE
          OBVIOUS
        <5>2. <<c, n>> \in desired_replicas(s, B)
          BY <4>1, <5>1 DEF desired_replicas
        <5>3. <<c, n, IF n \in available_node_ids(c) THEN "head" ELSE "put">> \in pushTasks'[p]
          BY <3>1, <5>2, <1>t DEF PushTypeOK, upload_tasks
        <5> QED
          BY <5>3, <3>3 DEF Verified
      <4> QED
        BY <3>1, <3>2, <3>3, <4>1, <4>2, <1>t DEF Verified, PushTypeOK
    <3>4. sessState[s] = "open" => Progress
      BY <3>2, <3>3, <1>p, <2>4 DEF PushNegotiate
    <3> QED
      BY <2>4, <3>4 DEF PushNegotiate, negotiate_chunks
  <2>5. ASSUME NEW c \in Chunks, NEW n \in Nodes, PushHead(p, c, n) PROVE Progress
    BY <2>5, <1>1, <1>t DEF PushHead, has_chunk, Verified, session_replicas, PushTypeOK
  <2>6. ASSUME NEW c \in Chunks, NEW n \in Nodes, PushPut(p, c, n) PROVE Progress
    BY <2>6, <1>1, <1>t DEF PushPut, put_chunk, Verified, session_replicas, PushTypeOK
  <2>7. ASSUME NEW c \in Chunks, NEW n \in Nodes, PushRegister(p, c, n) PROVE Progress
    BY <2>7, <1>1, <1>t DEF PushRegister, register_storage_location, Verified,
                            session_replicas, PushTypeOK
  <2>8. CASE PushFinalize(p)
    BY <2>8, <1>t DEF PushFinalize, PushExit, PushTypeOK, Verified
  <2>9. CASE PushStop(p)
    BY <2>9, <1>t DEF PushStop, PushExit, PushTypeOK, Verified
  <2> QED
    BY <1>3, <2>1, <2>2, <2>3, <2>4, <2>5, <2>6, <2>7, <2>8, <2>9 DEF Push
<1> QED
    BY <1>2, <1>3

LEMMA CommittedReplicasStep ==
    ASSUME DurabilityInvariant, [Next]_vars
    PROVE  CommittedReplicasIntact'
<1> USE StoreAssumption, RepositoryAssumption
<1> SUFFICES ASSUME NEW s \in Sessions, sessState'[s] = "committed",
                    ~is_version_retired(sessVersion[s])'
             PROVE  /\ sessLayout'[s] \in layouts'
                    /\ \A c \in LayoutChunks[sessLayout'[s]], n \in Nodes :
                          n \in session_replicas(s, c)' =>
                              <<c, n>> \in locations' /\ <<c, n>> \in bytes' \cup lost'
  <2>1. RepositoryTypeOK'
    BY NextTypeOK DEF DurabilityInvariant, TypeOK
  <2>2. \A c \in Chunks, z \in Sessions : session_replicas(z, c)' \subseteq Nodes
    BY <2>1, SelectSubset DEF session_replicas, RepositoryTypeOK
  <2>3. \A l \in Layouts : LayoutChunks[l] \subseteq Chunks
    OBVIOUS
  <2> QED
    BY <2>1, <2>2, <2>3 DEF CommittedReplicasIntact, RepositoryTypeOK
<1>t. RepositoryTypeOK /\ PushTypeOK /\ SessionRecords /\ RepositoryStep
    BY NextIsRepositoryStep DEF TypeOK, DurabilityInvariant
<1>1. CASE sessState[s] = "committed"
  <2>1. /\ sessVersion'[s] = sessVersion[s] /\ sessPlacement'[s] = sessPlacement[s]
    BY <1>1, <1>t, SessionSteps
  <2>2. retired \subseteq retired'
    BY <1>t DEF RepositoryStep, register_storage_node, negotiate_chunks, register_storage_location,
           create_upload_session, abort_upload_session, finalize_upload, start_gc_run,
           complete_gc_run, start_replication_run, complete_replication_run, run_lifecycle
  <2>3. ~is_version_retired(sessVersion[s])
    BY <2>1, <2>2 DEF is_version_retired
  <2>4. /\ sessLayout[s] \in layouts
        /\ \A c \in LayoutChunks[sessLayout[s]] : \A n \in session_replicas(s, c) :
              <<c, n>> \in locations /\ <<c, n>> \in bytes \cup lost
    BY <1>1, <2>3 DEF DurabilityInvariant, CommittedReplicasIntact
  <2>5. /\ sessLayout'[s] = sessLayout[s] /\ sessLayout[s] \in layouts'
        /\ \A c \in LayoutChunks[sessLayout[s]], n \in Nodes :
              <<c, n>> \in locations => <<c, n>> \in locations'
    BY <1>1, <1>t, <2>3, <2>4, CommittedRecordsStay
  <2>6. ASSUME NEW c \in LayoutChunks[sessLayout[s]], NEW n \in Nodes, <<c, n>> \in bytes \cup lost
        PROVE  <<c, n>> \in bytes' \cup lost'
    <3>1. live_chunk(c)
      BY <1>1, <1>t, <2>3, <2>4, CommittedLayoutLive
    <3>2. ASSUME NEW k \in Collectors, NEW d \in Chunks, CollectDelete(k, d)
          PROVE  bytes' = bytes \ {<<d, gcTarget[CollectorRun[k]]>>} /\ d # c
      BY <3>1, <3>2 DEF CollectDelete, delete_chunk, DurabilityInvariant, PendingDeletesAreGarbage
    <3>3. CASE \E k \in Collectors, d \in Chunks : CollectDelete(k, d)
      BY <3>2, <3>3, <2>6 DEF CollectDelete, delete_chunk
    <3> QED
      BY <3>3, <2>6, OnlyCollectorsDelete
  <2>7. \A c : session_replicas(s, c)' = session_replicas(s, c)
    BY <2>1 DEF session_replicas
  <2> QED
    BY <2>4, <2>5, <2>6, <2>7
<1>2. CASE sessState[s] # "committed"
  <2>1. PICK p \in Pushers : PusherSession[p] = s /\ PushFinalize(p)
    <3>1. ASSUME ~ \E p \in Pushers : PusherSession[p] = s /\ PushFinalize(p)
          PROVE  sessState'[s] # "committed"
      <4>1. ASSUME NEW p \in Pushers, Push(p) PROVE sessState'[s] # "committed"
        BY <4>1, <3>1, <1>2, <1>t
           DEF Push, PushStart, PushCreate, create_upload_session, PushCreateRefused,
               PushNegotiate, negotiate_chunks, PushHead, PushPut, PushRegister,
               register_storage_location, PushFinalize, finalize_upload, PushStop, RepositoryTypeOK
      <4>2. ASSUME NEW k \in Collectors, CollectWork(k) \/ CollectStop(k)
            PROVE  sessState'[s] # "committed"
        BY <4>2, <1>2 DEF CollectWork, CollectStart, start_gc_run, CollectList, CollectClassify,
               CollectClassifyRefused, CollectDelete, CollectNextPage, CollectComplete,
               complete_gc_run, CollectStop
      <4>3. ASSUME NEW r \in Repairers, Repair(r) PROVE sessState'[s] # "committed"
        BY <4>3, <1>2 DEF Repair, RepairStart, start_replication_run, RepairPlan, RepairScan,
               RepairHead, RepairFetch, RepairPut, RepairRegister, register_storage_location,
               RepairComplete, complete_replication_run, RepairStop
      <4>4. CASE Operator
        BY <4>4, <1>2, <1>t DEF Operator, AbortSession, abort_upload_session, SetNodeState,
               register_storage_node, Retire, run_lifecycle, RepositoryTypeOK
      <4> QED
        BY <4>1, <4>2, <4>3, <4>4, <1>2 DEF Next, LoseReplica, vars
    <3> QED
      BY <3>1
  <2> DEFINE l == pushLayout[p]
  <2>2. l \in Layouts
    BY <2>1, <1>t DEF PushFinalize, ReadyToFinalize, PushTypeOK
  <2>3. finalize_upload(s, l)
    BY <2>1, <1>2 DEF PushFinalize
  <2>4. /\ sessState[s] = "open" /\ open_finalize_outcome(s, l) = "committed"
    BY <2>3, <1>t DEF finalize_upload, finalize_upload_outcome, committed_retry_outcome,
                      RepositoryTypeOK, SessionStates
  <2>5. pushPc[p] = "upload" /\ pushTodo[p] = {} /\ pushTasks[p] = {}
    BY <2>1, <2>4 DEF PushFinalize, ReadyToFinalize, DurabilityInvariant, PushProgress
  <2>6. \A c \in LayoutChunks[l] : \A n \in session_replicas(s, c) : <<c, n>> \in locations
    BY <2>4 DEF open_finalize_outcome
  <2>7. ASSUME NEW c \in LayoutChunks[l], NEW n \in Nodes, n \in session_replicas(s, c)
        PROVE  <<c, n>> \in bytes \cup lost
    <3>1. c \in Chunks
      BY <2>2
    <3>2. Verified(p, c, n)
      BY <2>1, <2>5, <2>7 DEF Verified
    <3> QED
      BY <2>1, <2>4, <3>1, <3>2 DEF DurabilityInvariant, PushProgress
  <2>8. /\ sessLayout'[s] = l /\ l \in layouts' /\ locations' = locations
        /\ sessPlacement' = sessPlacement /\ UNCHANGED nodeFiles
    BY <2>1, <2>3, <1>t DEF finalize_upload, PushFinalize, RepositoryTypeOK
  <2> QED
    BY <2>6, <2>7, <2>8 DEF session_replicas
<1> QED
    BY <1>1, <1>2

LEMMA DurabilityStep ==
    ASSUME OneCollectorPerRun, DurabilityInvariant, [Next]_vars
    PROVE  DurabilityInvariant'
<1>1. TypeOK' /\ OperationBarrier' /\ SessionRecords'
    BY NextTypeOK, NextIsRepositoryStep, RepositoryBarrier, RepositoryRecords
       DEF DurabilityInvariant, TypeOK
<1>2. PushProgress'
    BY PushProgressStep DEF PushProgress
<1> QED
    BY <1>1, <1>2, CollectorStep, PendingDeletesStep, CommittedReplicasStep
       DEF DurabilityInvariant

LEMMA DurabilityInit == Init => DurabilityInvariant
<1> SUFFICES ASSUME Init PROVE DurabilityInvariant
    OBVIOUS
<1>1. OperationBarrier /\ SessionRecords
    BY DEF Init, RepositoryInit, OperationBarrier, gc_in_progress, replication_in_progress,
           open_upload_sessions_present, SessionRecords
<1>2. CollectorHoldsRun /\ PendingDeletesAreGarbage
    BY DEF Init, CollectorHoldsRun, PendingDeletesAreGarbage
<1>3. PushProgress /\ CommittedReplicasIntact
    BY StoreAssumption DEF Init, RepositoryInit, PushProgress, CommittedReplicasIntact
<1> QED
    BY <1>1, <1>2, <1>3, InitTypeOK DEF DurabilityInvariant

(* The inductive invariant of the store: with at most one gc process per   *)
(* run, commits keep their promise, classifications stay valid and open    *)
(* pushes keep what they verified, whatever else interleaves.              *)
THEOREM DurabilityInvariantHolds ==
    ASSUME OneCollectorPerRun
    PROVE  Spec => []DurabilityInvariant
<1>1. DurabilityInvariant /\ [Next]_vars => DurabilityInvariant'
    BY DurabilityStep
<1> QED
    BY <1>1, DurabilityInit, PTL DEF Spec

(* No committed version that is not retired ever loses a replica to the    *)
(* garbage collector: neither the DELETEs nor the metadata sweep of a run, *)
(* of whichever node, in whichever order with pushes, aborts, retries,     *)
(* crashes, repairs and node state changes.                                *)
THEOREM CommittedReplicasSafe ==
    ASSUME OneCollectorPerRun
    PROVE  Spec => []CommittedReplicasIntact
<1>1. DurabilityInvariant => CommittedReplicasIntact
    BY DEF DurabilityInvariant
<1> QED
    BY <1>1, DurabilityInvariantHolds, PTL

(* The classification a collector acts on is valid when it acts: what it   *)
(* is about to delete belongs to no live layout.                           *)
THEOREM PendingDeletesSafe ==
    ASSUME OneCollectorPerRun
    PROVE  Spec => []PendingDeletesAreGarbage
<1>1. DurabilityInvariant => PendingDeletesAreGarbage
    BY DEF DurabilityInvariant
<1> QED
    BY <1>1, DurabilityInvariantHolds, PTL

(* A DELETE hits neither a chunk of a live layout nor a replica that a     *)
(* push of an open session has verified.                                   *)
THEOREM CollectsOnlyGarbageHolds ==
    ASSUME OneCollectorPerRun
    PROVE  Spec => CollectsOnlyGarbage
<1> DEFINE Harmless == \A k \in Collectors, c \in Chunks : CollectDelete(k, c) =>
                          /\ ~live_chunk(c)
                          /\ \A p \in Pushers : sessState[PusherSession[p]] = "open" =>
                                ~Verified(p, c, gcTarget[CollectorRun[k]])
<1>1. DurabilityInvariant => Harmless
  <2> SUFFICES ASSUME DurabilityInvariant, NEW k \in Collectors, NEW c \in Chunks,
                      CollectDelete(k, c)
               PROVE  ~live_chunk(c) /\ ~open_upload_sessions_present
    BY StoreAssumption DEF open_upload_sessions_present
  <2>1. ~live_chunk(c)
    BY DEF CollectDelete, DurabilityInvariant, PendingDeletesAreGarbage
  <2>2. gc_in_progress
    BY StoreAssumption DEF CollectDelete, DurabilityInvariant, CollectorHoldsRun, gc_in_progress
  <2> QED
    BY <2>1, <2>2 DEF DurabilityInvariant, OperationBarrier
<1>2. DurabilityInvariant => [Harmless]_vars
    BY <1>1
<1> QED
    BY <1>2, DurabilityInvariantHolds, PTL DEF CollectsOnlyGarbage

-----------------------------------------------------------------------------
(* The tables refer only to rows that exist.                               *)

LEMMA RepositoryIntegrity ==
    ASSUME RepositoryTypeOK, ReferentialIntegrity, RepositoryStep
    PROVE  ReferentialIntegrity'
<1> USE RepositoryAssumption DEF RepositoryTypeOK, ReferentialIntegrity
<1>1. ASSUME NEW c \in Chunks, NEW n \in Nodes, register_storage_location(c, n)
      PROVE ReferentialIntegrity'
    BY <1>1 DEF register_storage_location
<1>2. ASSUME NEW s \in Sessions, NEW l \in Layouts, finalize_upload(s, l)
      PROVE ReferentialIntegrity'
  <2>1. LayoutChunks[l] \subseteq chunkRows
    BY <1>2 DEF finalize_upload, finalize_upload_outcome, committed_retry_outcome,
                open_finalize_outcome
  <2>2. version_of(s, l)[2] = LayoutObject[l]
    BY DEF version_of
  <2>3. \A z \in Sessions : sessLayout'[z] \in {l, sessLayout[z]}
    BY <1>2 DEF finalize_upload
  <2> QED
    BY <1>2, <2>1, <2>2, <2>3 DEF finalize_upload
<1>3. ASSUME NEW g \in GcRuns, complete_gc_run(g) PROVE ReferentialIntegrity'
  <2>1. CASE sweep_gc_metadata(gcTarget[g])
    <3>1. \A s \in Sessions : sessLayout'[s] # NoLayout => sessLayout'[s] \in layouts'
      BY <2>1 DEF sweep_gc_metadata, finalizations_after_sweep, live_layouts
    <3>2. \A l \in layouts' : /\ l \in layouts
                             /\ LayoutChunks[l] \subseteq chunkRows' /\ LayoutObject[l] \in objects'
      BY <2>1 DEF sweep_gc_metadata, live_layouts
    <3>3. \A x \in locations' : x[1] \in chunkRows'
      BY <2>1 DEF sweep_gc_metadata
    <3>4. versions' = versions /\ \A v \in versions' : v[2] \in objects'
      BY <1>3, <2>1 DEF sweep_gc_metadata, complete_gc_run
    <3> QED
      BY <3>1, <3>2, <3>3, <3>4
  <2> QED
    BY <1>3, <2>1 DEF complete_gc_run
<1> QED
    BY <1>1, <1>2, <1>3
       DEF RepositoryStep, register_storage_node, negotiate_chunks, create_upload_session,
           abort_upload_session, start_gc_run, start_replication_run, complete_replication_run,
           run_lifecycle

(* Referential integrity: neither the order of a sweep nor the sharing of  *)
(* chunks and objects leaves a row whose reference is gone                 *)
(* (sweep_gc_metadata, finalize_upload).                                   *)
THEOREM ReferentialIntegrityHolds == Spec => []ReferentialIntegrity
<1>1. Init => ReferentialIntegrity
    BY DEF Init, RepositoryInit, ReferentialIntegrity
<1>2. TypeOK /\ ReferentialIntegrity /\ [Next]_vars => ReferentialIntegrity'
    BY NextIsRepositoryStep, RepositoryIntegrity DEF TypeOK
<1> QED
    BY <1>1, <1>2, TypeCorrect, PTL DEF Spec

-----------------------------------------------------------------------------
(* Acknowledgements: what a push was told stays true.                      *)

SessionRecordsHold == TypeOK /\ SessionRecords /\ ReferentialIntegrity

(* What an acknowledged push can rely on.                                  *)
AckRecords ==
    \A a \in acks :
        /\ sessState[a[1]] = "committed" /\ sessVersion[a[1]] = version_of(a[1], a[2])
        /\ ~is_version_retired(sessVersion[a[1]]) =>
              sessLayout[a[1]] = a[2] /\ a[2] \in layouts

AcksAgree == \A a, b \in acks : a[1] = b[1] => a[2] = b[2]

LEMMA RetirementIsFinal ==
    ASSUME RepositoryStep
    PROVE  retired \subseteq retired'
BY DEF RepositoryStep, register_storage_node, negotiate_chunks, register_storage_location,
       create_upload_session, abort_upload_session, finalize_upload, start_gc_run,
       complete_gc_run, start_replication_run, complete_replication_run, run_lifecycle

(* A successful finalize leaves the session committed with the layout.     *)
LEMMA AckIsRecorded ==
    ASSUME TypeOK, NEW p \in Pushers, PushFinalize(p)
    PROVE  LET s == PusherSession[p]  l == pushLayout[p] IN
           /\ s \in Sessions /\ l \in Layouts
           /\ sessState'[s] = "committed" /\ sessVersion'[s] = version_of(s, l)
           /\ sessLayout'[s] = l /\ l \in layouts'
           /\ sessState[s] = "committed" => /\ sessLayout[s] = l
                                            /\ ~is_version_retired(sessVersion[s])
<1> USE StoreAssumption DEF TypeOK, RepositoryTypeOK
<1> DEFINE s == PusherSession[p]  l == pushLayout[p]
<1>1. s \in Sessions /\ l \in Layouts
    BY DEF PushFinalize, ReadyToFinalize, PushTypeOK
<1>2. CASE finalize_upload(s, l)
    BY <1>1, <1>2 DEF finalize_upload, finalize_upload_outcome, committed_retry_outcome
<1>3. CASE finalize_upload_outcome(s, l) = "ok" /\ UNCHANGED dbVars
  <2>1. /\ sessState[s] = "committed" /\ sessVersion[s] = version_of(s, l)
        /\ sessLayout[s] = l /\ l \in layouts /\ ~is_version_retired(sessVersion[s])
    BY <1>1, <1>3 DEF finalize_upload_outcome, committed_retry_outcome, open_finalize_outcome,
                      SessionStates
  <2> QED
    BY <1>1, <1>3, <2>1
<1> QED
    BY <1>1, <1>2, <1>3 DEF PushFinalize

LEMMA AckStep ==
    ASSUME SessionRecordsHold, AckRecords, AcksAgree, [Next]_vars
    PROVE  AckRecords' /\ AcksAgree'
<1> USE DEF SessionRecordsHold
<1>1. RepositoryStep /\ acks \subseteq Sessions \X Layouts
    BY NextIsRepositoryStep DEF TypeOK, PushTypeOK
<1>2. ASSUME NEW a \in acks
      PROVE  /\ sessState'[a[1]] = "committed" /\ sessVersion'[a[1]] = version_of(a[1], a[2])
             /\ ~is_version_retired(sessVersion[a[1]])' =>
                   sessLayout'[a[1]] = a[2] /\ a[2] \in layouts'
  <2>1. a[1] \in Sessions /\ sessState[a[1]] = "committed"
    BY <1>1 DEF AckRecords
  <2>2. sessState'[a[1]] = "committed" /\ sessVersion'[a[1]] = sessVersion[a[1]]
    BY <1>1, <2>1, SessionSteps DEF TypeOK
  <2>3. ~is_version_retired(sessVersion[a[1]])' => ~is_version_retired(sessVersion[a[1]])
    BY <1>1, <2>2, RetirementIsFinal DEF is_version_retired
  <2>4. ASSUME ~is_version_retired(sessVersion[a[1]])
        PROVE  sessLayout'[a[1]] = a[2] /\ a[2] \in layouts'
    <3>1. sessLayout[a[1]] = a[2] /\ a[2] \in layouts
      BY <2>4 DEF AckRecords
    <3> QED
      BY <1>1, <2>1, <2>4, <3>1, CommittedRecordsStay DEF TypeOK
  <2> QED
    BY <2>2, <2>3, <2>4 DEF AckRecords
<1>3. ASSUME NEW p \in Pushers, PushFinalize(p) PROVE AckRecords' /\ AcksAgree'
  <2> DEFINE s == PusherSession[p]  l == pushLayout[p]
  <2>1. /\ s \in Sessions /\ l \in Layouts
        /\ sessState'[s] = "committed" /\ sessVersion'[s] = version_of(s, l)
        /\ sessLayout'[s] = l /\ l \in layouts'
        /\ sessState[s] = "committed" => sessLayout[s] = l /\ ~is_version_retired(sessVersion[s])
    BY <1>3, AckIsRecorded
  <2>2. acks' \in {acks, acks \cup {<<s, l>>}}
    BY <1>3 DEF PushFinalize
  <2>3. \A a \in acks : a[1] = s => a[2] = l
    BY <2>1 DEF AckRecords
  <2> HIDE DEF s, l
  <2>4. \A a \in acks' : a \in acks \/ (a[1] = s /\ a[2] = l)
    BY <2>2
  <2>5. AckRecords'
    BY <1>2, <2>1, <2>4 DEF AckRecords, version_of
  <2>6. AcksAgree'
    BY <2>3, <2>4 DEF AcksAgree
  <2> QED
    BY <2>5, <2>6
<1>4. CASE ~ \E p \in Pushers : PushFinalize(p)
  <2>1. acks' = acks
    <3>1. ASSUME NEW p \in Pushers, Push(p) PROVE acks' = acks
      BY <1>4, <3>1 DEF Push, PushStart, PushCreate, PushCreateRefused, PushNegotiate, PushHead,
                        PushPut, PushRegister, PushStop
    <3>2. ASSUME NEW k \in Collectors, CollectWork(k) \/ CollectStop(k) PROVE acks' = acks
      BY <3>2 DEF CollectWork, CollectStart, CollectList, CollectClassify, CollectClassifyRefused,
                  CollectDelete, CollectNextPage, CollectComplete, CollectStop
    <3>3. ASSUME NEW r \in Repairers, Repair(r) PROVE acks' = acks
      BY <3>3 DEF Repair, RepairStart, RepairPlan, RepairScan, RepairHead, RepairFetch, RepairPut,
                  RepairRegister, RepairComplete, RepairStop
    <3> QED
      BY <3>1, <3>2, <3>3 DEF Next, Operator, AbortSession, SetNodeState, Retire, LoseReplica, vars
  <2> QED
    BY <1>2, <2>1 DEF AckRecords, AcksAgree, version_of
<1> QED
    BY <1>3, <1>4

(* Idempotent finalize: whoever was told "ok" can be told again, with the  *)
(* same layout, or that the version was retired (finalize_upload).         *)
THEOREM FinalizeAgreementHolds == Spec => []FinalizeAgreement
<1>1. Init => SessionRecords /\ AckRecords /\ AcksAgree
    BY DEF Init, RepositoryInit, SessionRecords, AckRecords, AcksAgree
<1>2. TypeOK /\ SessionRecords /\ [Next]_vars => SessionRecords'
    BY NextIsRepositoryStep, RepositoryRecords DEF TypeOK
<1>3. TypeOK /\ SessionRecords /\ ReferentialIntegrity /\ AckRecords /\ AcksAgree /\ [Next]_vars
      => AckRecords' /\ AcksAgree'
    BY AckStep DEF SessionRecordsHold
<1>4. TypeOK /\ ReferentialIntegrity /\ AckRecords /\ AcksAgree => FinalizeAgreement
  <2> SUFFICES ASSUME TypeOK, ReferentialIntegrity, AckRecords, AcksAgree, NEW a \in acks
               PROVE  finalize_upload_outcome(a[1], a[2]) \in {"ok", "version_retired"}
    BY DEF FinalizeAgreement, AckRecords, AcksAgree
  <2> QED
    BY DEF ReferentialIntegrity, AckRecords, finalize_upload_outcome, committed_retry_outcome
<1> QED
    BY <1>1, <1>2, <1>3, <1>4, TypeCorrect, ReferentialIntegrityHolds, PTL DEF Spec

-----------------------------------------------------------------------------
(* A live version can be pulled.                                           *)

(* Every version was committed by a session.                               *)
VersionsCommitted ==
    \A v \in versions : \E s \in Sessions : sessState[s] = "committed" /\ sessVersion[s] = v

(* A session's placement has room for its replication factor.              *)
PlacementsLargeEnough ==
    \A s \in Sessions : sessState[s] # "none" => RF <= Cardinality(sessPlacement[s])

LEMMA CommittingSessions ==
    ASSUME RepositoryTypeOK, VersionsCommitted, PlacementsLargeEnough, RepositoryStep
    PROVE  VersionsCommitted' /\ PlacementsLargeEnough'
<1>1. ASSUME NEW v \in versions'
      PROVE  \E s \in Sessions : sessState'[s] = "committed" /\ sessVersion'[s] = v
  <2>1. CASE v \in versions
    BY <2>1, SessionSteps DEF VersionsCommitted
  <2>2. CASE v \notin versions
    <3>1. PICK s \in Sessions, l \in Layouts : finalize_upload(s, l)
      BY <2>2 DEF RepositoryStep, register_storage_node, negotiate_chunks, register_storage_location,
                  create_upload_session, abort_upload_session, start_gc_run, complete_gc_run,
                  start_replication_run, complete_replication_run, run_lifecycle
    <3> QED
      BY <2>2, <3>1 DEF finalize_upload, RepositoryTypeOK
  <2> QED
    BY <2>1, <2>2
<1>2. ASSUME NEW s \in Sessions, sessState'[s] # "none"
      PROVE  RF <= Cardinality(sessPlacement'[s])
  <2>1. CASE sessState[s] # "none"
    BY <2>1, SessionSteps DEF PlacementsLargeEnough
  <2>2. CASE sessState[s] = "none"
    <3>1. PICK z \in Sessions, P \in SUBSET Nodes : create_upload_session(z, P)
      BY <1>2, <2>2
         DEF RepositoryStep, register_storage_node, negotiate_chunks, register_storage_location,
             abort_upload_session, finalize_upload, finalize_upload_outcome, start_gc_run,
             complete_gc_run, start_replication_run, complete_replication_run, run_lifecycle,
             RepositoryTypeOK
    <3>2. z = s /\ sessPlacement'[s] = P
      BY <1>2, <2>2, <3>1 DEF create_upload_session, RepositoryTypeOK
    <3>3. ~(RF > Cardinality(P))
      BY <3>1 DEF create_upload_session, create_upload_session_outcome
    <3>4. RF \in Nat /\ Cardinality(P) \in Nat
      <4>1. IsFiniteSet(P)
        BY FS_Subset, PlacementAssumption
      <4> QED
        BY <4>1, FS_CardinalityType, RepositoryAssumption
    <3> QED
      BY <3>2, <3>3, <3>4
  <2> QED
    BY <2>1, <2>2
<1> QED
    BY <1>1, <1>2 DEF VersionsCommitted, PlacementsLargeEnough

(* A version that is committed and not retired can be restored: each chunk *)
(* is on a node, or at least RF disks have lost it, because placement      *)
(* selects RF nodes and no fewer (select_replica_nodes, finalize_upload,   *)
(* GcEngine::collect).                                                     *)
THEOREM LiveVersionRestorableHolds ==
    ASSUME OneCollectorPerRun
    PROVE  Spec => []LiveVersionRestorable
<1>1. Init => VersionsCommitted /\ PlacementsLargeEnough
    BY DEF Init, RepositoryInit, VersionsCommitted, PlacementsLargeEnough
<1>2. TypeOK /\ VersionsCommitted /\ PlacementsLargeEnough /\ [Next]_vars
      => VersionsCommitted' /\ PlacementsLargeEnough'
    BY NextIsRepositoryStep, CommittingSessions DEF TypeOK
<1>3. DurabilityInvariant /\ VersionsCommitted /\ PlacementsLargeEnough => LiveVersionRestorable
  <2> SUFFICES ASSUME DurabilityInvariant, VersionsCommitted, PlacementsLargeEnough,
                      NEW v \in versions \ retired
               PROVE  \E l \in layouts :
                         /\ LayoutObject[l] = v[2]
                         /\ \A c \in LayoutChunks[l] :
                               \/ \E n \in Nodes : <<c, n>> \in bytes
                               \/ Cardinality({n \in Nodes : <<c, n>> \in lost}) >= RF
    BY DEF LiveVersionRestorable
  <2> USE RepositoryAssumption DEF DurabilityInvariant, TypeOK, RepositoryTypeOK
  <2>1. PICK s \in Sessions : sessState[s] = "committed" /\ sessVersion[s] = v
    BY DEF VersionsCommitted
  <2> DEFINE l == sessLayout[s]
  <2>2. /\ l \in layouts
        /\ \A c \in LayoutChunks[l] : \A n \in session_replicas(s, c) : <<c, n>> \in bytes \cup lost
    BY <2>1 DEF CommittedReplicasIntact, is_version_retired
  <2>3. LayoutObject[l] = v[2] /\ LayoutChunks[l] \subseteq Chunks
    BY <2>1, <2>2 DEF SessionRecords
  <2> HIDE DEF l
  <2>4. ASSUME NEW c \in LayoutChunks[l], \A n \in Nodes : <<c, n>> \notin bytes
        PROVE  Cardinality({n \in Nodes : <<c, n>> \in lost}) >= RF
    <3> DEFINE S == session_replicas(s, c)
               L == {n \in Nodes : <<c, n>> \in lost}
    <3>1. sessPlacement[s] \in SUBSET Nodes /\ RF <= Cardinality(sessPlacement[s]) /\ c \in Chunks
      BY <2>1, <2>3 DEF PlacementsLargeEnough
    <3>2. Cardinality(S) = RF /\ S \subseteq Nodes
      BY <3>1, SelectCount, SelectSubset DEF session_replicas
    <3>3. S \subseteq L
      BY <2>2, <2>4, <3>2
    <3>4. IsFiniteSet(L)
      BY FS_Subset, PlacementAssumption
    <3> HIDE DEF S, L
    <3>5. Cardinality(S) <= Cardinality(L) /\ Cardinality(L) \in Nat
      BY <3>3, <3>4, FS_Subset, FS_CardinalityType
    <3> QED
      BY <3>2, <3>5 DEF L
  <2> QED
    BY <2>2, <2>3, <2>4
<1>4. DurabilityInvariant => TypeOK
    BY DEF DurabilityInvariant
<1> QED
    BY <1>1, <1>2, <1>3, <1>4, DurabilityInvariantHolds, PTL DEF Spec

-----------------------------------------------------------------------------
(* What the sweep of a node misses: nothing.  The pages of the inventory   *)
(* go up the chunk ids, the cursor is a chunk id and not a position, and   *)
(* while the run is open no transaction changes what is live.              *)

(* Garbage of the node run g collects: on the node, in no live layout, and *)
(* not written since the run was opened.                                   *)
Garbage(g, c) ==
    /\ c \in Chunks /\ <<c, gcTarget[g]>> \in bytes
    /\ ~live_chunk(c) /\ <<c, gcTarget[g]>> \notin writtenInGc

(* Where a collector of an apply run will still meet it: beyond the cursor *)
(* or in the page at hand, and nowhere once the last page is done.         *)
StillToSweep(k, c) ==
    \/ collPc[k] = "list" /\ c > collAfter[k]
    \/ collPc[k] \in {"classify", "delete"} /\ (c \in collPage[k] \/ (collMore[k] /\ c > collAfter[k]))

SweepProgress ==
    \A k \in Collectors : collPc[k] # "idle" =>
        /\ gcState[CollectorRun[k]] # "none"
        /\ gcState[CollectorRun[k]] = "open" /\ gcMode[CollectorRun[k]] = "apply" =>
              \A c \in Chunks : Garbage(CollectorRun[k], c) => StillToSweep(k, c)

(* A set of chunks has a first one. *)
LEMMA FirstChunk ==
    ASSUME NEW S \in SUBSET Chunks, S # {}
    PROVE  \E c \in S : \A d \in S : c <= d
<1>1. S \subseteq Nat
    BY PlacementAssumption
<1>2. PICK c \in S : \A d \in S : ~ (<<d, c>> \in OpToRel(<, Nat))
    BY <1>1, NatLessThanWellFounded, WFMin
<1>3. ASSUME NEW d \in S PROVE c <= d
  <2>1. c \in Nat /\ d \in Nat
    BY <1>1
  <2>2. ~(d < c)
    BY <1>2, <2>1 DEF OpToRel
  <2> QED
    BY <2>1, <2>2
<1> QED
    BY <1>3

(* A page is empty only where nothing is left, and what it leaves for the  *)
(* next page is beyond all its chunks.                                     *)
InventoryBelow(n, after, c) == {d \in inventory(n, after) : d < c}

LEMMA PageSkipsNothing ==
    ASSUME NEW n, NEW after, NEW c \in inventory(n, after)
    PROVE  /\ list_chunks(n, after) # {}
           /\ c \notin list_chunks(n, after) => \A d \in list_chunks(n, after) : c > d
<1> DEFINE I == inventory(n, after)
<1>1. I \in SUBSET Chunks /\ I \subseteq Nat /\ I # {}
    BY PlacementAssumption DEF inventory
<1>2. list_chunks(n, after) = {d \in I : Cardinality(InventoryBelow(n, after, d)) < PageSize}
    BY DEF list_chunks, InventoryBelow
<1> HIDE DEF I
<1>3. list_chunks(n, after) # {}
  <2>1. PICK d \in I : \A e \in I : d <= e
    BY <1>1, FirstChunk
  <2>2. InventoryBelow(n, after, d) = {}
    BY <1>1, <2>1 DEF InventoryBelow, I
  <2>3. Cardinality(InventoryBelow(n, after, d)) = 0
    BY <2>2, FS_EmptySet
  <2> QED
    BY <1>2, <2>3, StoreAssumption
<1>4. ASSUME c \notin list_chunks(n, after), NEW d \in list_chunks(n, after) PROVE c > d
  <2>1. c \in I /\ d \in I /\ c \in Nat /\ d \in Nat
    BY <1>1, <1>2 DEF I
  <2> SUFFICES ASSUME c < d PROVE FALSE
    BY <1>4, <2>1
  <2>2. InventoryBelow(n, after, d) \in SUBSET Nat /\ \A e \in InventoryBelow(n, after, d) : e <= d
    BY <1>1, <2>1 DEF InventoryBelow, I
  <2>3. IsFiniteSet(InventoryBelow(n, after, d))
    BY <2>1, <2>2, FS_BoundedSetOfNaturals
  <2>4. InventoryBelow(n, after, c) \in SUBSET InventoryBelow(n, after, d)
    BY <1>1, <2>1 DEF InventoryBelow, I
  <2>5. /\ Cardinality(InventoryBelow(n, after, c)) <= Cardinality(InventoryBelow(n, after, d))
        /\ Cardinality(InventoryBelow(n, after, c)) \in Nat /\ Cardinality(InventoryBelow(n, after, d)) \in Nat
    BY <2>3, <2>4, FS_Subset, FS_CardinalityType
  <2>6. Cardinality(InventoryBelow(n, after, d)) < PageSize /\ ~(Cardinality(InventoryBelow(n, after, c)) < PageSize)
    BY <1>2, <1>4, <2>1
  <2> QED
    BY <2>5, <2>6, StoreAssumption
<1> QED
    BY <1>3, <1>4

(* The transactions that change what is live are refused during a GC run.  *)
LEMMA OpenRunFreezesCatalog ==
    ASSUME RepositoryTypeOK, OperationBarrier, RepositoryStep,
           NEW g \in GcRuns, gcState[g] = "open", gcState'[g] = "open"
    PROVE  /\ UNCHANGED <<layouts, versions, retired, sessLayout, sessVersion>>
           /\ gcTarget'[g] = gcTarget[g] /\ gcMode'[g] = gcMode[g]
<1> DEFINE Frozen == /\ UNCHANGED <<layouts, versions, retired, sessLayout, sessVersion>>
                     /\ gcTarget'[g] = gcTarget[g] /\ gcMode'[g] = gcMode[g]
<1> USE DEF RepositoryTypeOK
<1>1. gc_in_progress /\ ~open_upload_sessions_present
    BY DEF gc_in_progress, OperationBarrier
<1>2. ASSUME NEW s \in Sessions, NEW l \in Layouts, finalize_upload(s, l) PROVE Frozen
    BY <1>1, <1>2 DEF finalize_upload, finalize_upload_outcome, committed_retry_outcome,
           SessionStates, open_upload_sessions_present
<1>3. ASSUME NEW h \in GcRuns, NEW n \in Nodes, NEW mode \in GcModes, start_gc_run(h, n, mode)
      PROVE  Frozen
  <2>1. gcState[h] = "none"
    BY <1>3, <1>1 DEF start_gc_run, start_gc_run_outcome, RunStates
  <2> QED
    BY <1>3, <2>1 DEF start_gc_run
<1>4. ASSUME NEW h \in GcRuns, complete_gc_run(h) PROVE Frozen
  <2>1. gcState[h] = "open" /\ gcState' = [gcState EXCEPT ![h] = "completed"]
    BY <1>4 DEF complete_gc_run, complete_gc_run_outcome, RunStates
  <2>2. h = g
    BY <2>1 DEF OperationBarrier
  <2> QED
    BY <2>1, <2>2
<1>5. ASSUME NEW R \in SUBSET versions, run_lifecycle(R) PROVE Frozen
    BY <1>1, <1>5 DEF run_lifecycle
<1> QED
    BY <1>2, <1>3, <1>4, <1>5
       DEF RepositoryStep, register_storage_node, negotiate_chunks, register_storage_location,
           create_upload_session, abort_upload_session, start_replication_run,
           complete_replication_run

(* A run, once inserted, is never removed, and it is opened once.          *)
LEMMA RunsStay ==
    ASSUME RepositoryTypeOK, RepositoryStep
    PROVE  /\ \A g \in GcRuns : /\ gcState[g] # "none" => gcState'[g] # "none"
                                /\ gcState'[g] = "open" => gcState[g] \in {"none", "open"}
           /\ \A r \in ReplicationRuns : /\ replState[r] # "none" => replState'[r] # "none"
                                         /\ replState'[r] = "open" => replState[r] \in {"none", "open"}
<1> USE DEF RepositoryTypeOK
<1>1. ASSUME NEW g \in GcRuns, NEW n \in Nodes, NEW mode \in GcModes, start_gc_run(g, n, mode)
      PROVE  gcState[g] = "none" /\ gcState' = [gcState EXCEPT ![g] = "open"] /\ UNCHANGED replState
    BY <1>1 DEF start_gc_run, start_gc_run_outcome, RunStates
<1>2. ASSUME NEW g \in GcRuns, complete_gc_run(g)
      PROVE  gcState' = [gcState EXCEPT ![g] = "completed"] /\ UNCHANGED replState
    BY <1>2 DEF complete_gc_run
<1>3. ASSUME NEW r \in ReplicationRuns, NEW v \in Versions, start_replication_run(r, v)
      PROVE  replState[r] = "none" /\ replState' = [replState EXCEPT ![r] = "open"] /\ UNCHANGED gcState
    BY <1>3 DEF start_replication_run, start_replication_run_outcome, RunStates
<1>4. ASSUME NEW r \in ReplicationRuns, complete_replication_run(r)
      PROVE  replState' = [replState EXCEPT ![r] = "completed"] /\ UNCHANGED gcState
    BY <1>4 DEF complete_replication_run
<1>5. CASE UNCHANGED <<gcState, replState>>
    BY <1>5
<1>6. CASE \E g \in GcRuns, n \in Nodes, mode \in GcModes : start_gc_run(g, n, mode)
    BY <1>1, <1>6
<1>7. CASE \E g \in GcRuns : complete_gc_run(g)
    BY <1>2, <1>7
<1>8. CASE \E r \in ReplicationRuns, v \in Versions : start_replication_run(r, v)
    BY <1>3, <1>8
<1>9. CASE \E r \in ReplicationRuns : complete_replication_run(r)
    BY <1>4, <1>9
<1> QED
    BY <1>5, <1>6, <1>7, <1>8, <1>9
       DEF RepositoryStep, register_storage_node, negotiate_chunks, register_storage_location,
           create_upload_session, abort_upload_session, finalize_upload, run_lifecycle

(* Whatever is written during a GC run is noted. *)
LEMMA WritesNoted ==
    ASSUME TypeOK, [Next]_vars, gc_in_progress
    PROVE  writtenInGc \subseteq writtenInGc' /\ bytes' \subseteq bytes \cup writtenInGc'
<1> DEFINE Noted == writtenInGc \subseteq writtenInGc' /\ bytes' \subseteq bytes \cup writtenInGc'
<1>1. ASSUME NEW p \in Pushers, Push(p) PROVE Noted
    BY <1>1 DEF Push, PushStart, PushCreate, PushCreateRefused, PushNegotiate, PushHead,
           PushPut, put_chunk, PushRegister, PushFinalize, PushStop
<1>2. ASSUME NEW r \in Repairers, Repair(r) PROVE Noted
    BY <1>2 DEF Repair, RepairStart, RepairPlan, RepairScan, RepairHead,
           RepairFetch, RepairPut, put_chunk, RepairRegister, RepairComplete, RepairStop
<1>3. ASSUME NEW k \in Collectors, NEW n \in Nodes, NEW mode \in GcModes, CollectStart(k, n, mode)
      PROVE  Noted
  <2>1. ~start_gc_run(CollectorRun[k], n, mode)
    BY StoreAssumption DEF start_gc_run, start_gc_run_outcome, TypeOK, RepositoryTypeOK, RunStates
  <2> QED
    BY <1>3, <2>1 DEF CollectStart
<1>4. ASSUME NEW k \in Collectors, CollectWork(k) \/ CollectStop(k) PROVE Noted
    BY <1>3, <1>4 DEF CollectWork, CollectList, CollectClassify, CollectClassifyRefused,
           CollectDelete, delete_chunk, CollectNextPage, CollectComplete, CollectStop
<1> QED
    BY <1>1, <1>2, <1>4
       DEF Next, Operator, AbortSession, SetNodeState, Retire, LoseReplica, vars

(* During a run no new garbage appears on the node it collects.            *)
LEMMA GarbageShrinks ==
    ASSUME TypeOK, OperationBarrier, [Next]_vars, NEW g \in GcRuns,
           gcState[g] = "open", gcState'[g] = "open", NEW c, Garbage(g, c)'
    PROVE  Garbage(g, c)
<1>1. /\ UNCHANGED <<layouts, versions, retired, sessLayout, sessVersion>>
      /\ gcTarget'[g] = gcTarget[g]
    BY OpenRunFreezesCatalog, NextIsRepositoryStep DEF TypeOK
<1>2. live_chunk(c)' <=> live_chunk(c)
    BY <1>1 DEF live_chunk, live_layouts, live_layout, is_version_retired
<1>3. writtenInGc \subseteq writtenInGc' /\ bytes' \subseteq bytes \cup writtenInGc'
    BY WritesNoted DEF gc_in_progress
<1> QED
    BY <1>1, <1>2, <1>3 DEF Garbage

LEMMA SweepStep ==
    ASSUME TypeOK, OperationBarrier, SweepProgress, [Next]_vars, NEW k \in Collectors
    PROVE  LET g == CollectorRun[k] IN
           collPc'[k] # "idle" =>
              /\ gcState'[g] # "none"
              /\ gcState'[g] = "open" /\ gcMode'[g] = "apply" =>
                    \A c \in Chunks : Garbage(g, c)' => StillToSweep(k, c)'
<1> DEFINE g == CollectorRun[k]
           Progress == collPc'[k] # "idle" =>
              /\ gcState'[g] # "none"
              /\ gcState'[g] = "open" /\ gcMode'[g] = "apply" =>
                    \A c \in Chunks : Garbage(g, c)' => StillToSweep(k, c)'
<1>t. g \in GcRuns /\ RepositoryTypeOK /\ CollectTypeOK
    BY StoreAssumption DEF TypeOK
<1>p. collPc[k] # "idle" =>
        /\ gcState[g] # "none"
        /\ gcState[g] = "open" /\ gcMode[g] = "apply" =>
              \A c \in Chunks : Garbage(g, c) => StillToSweep(k, c)
    BY DEF SweepProgress
<1> SUFFICES Progress
    OBVIOUS
<1> HIDE DEF g
(* It is enough that the work of this collector keeps up with its garbage. *)
<1>1. ASSUME collPc[k] # "idle",
             \A c \in Chunks : Garbage(g, c) /\ StillToSweep(k, c) /\ Garbage(g, c)' => StillToSweep(k, c)'
      PROVE  Progress
  <2>1. gcState'[g] # "none" /\ (gcState'[g] = "open" => gcState[g] = "open")
    BY <1>1, <1>t, <1>p, RunsStay, NextIsRepositoryStep
  <2>2. ASSUME gcState'[g] = "open", gcMode'[g] = "apply", NEW c \in Chunks, Garbage(g, c)'
        PROVE  StillToSweep(k, c)'
    <3>1. gcState[g] = "open" /\ gcMode[g] = "apply"
      BY <2>1, <2>2, <1>t, OpenRunFreezesCatalog, NextIsRepositoryStep
    <3>2. Garbage(g, c)
      BY <2>2, <3>1, <1>t, GarbageShrinks
    <3> QED
      BY <1>1, <1>p, <2>2, <3>1, <3>2
  <2> QED
    BY <2>1, <2>2
<1>2. CASE UNCHANGED <<collPc[k], collAfter[k], collPage[k], collMore[k]>>
  <2>1. \A c \in Chunks : StillToSweep(k, c) => StillToSweep(k, c)'
    BY <1>2 DEF StillToSweep
  <2>2. CASE collPc[k] # "idle"
    <3> HIDE DEF Progress
    <3> QED
      BY <1>1, <2>1, <2>2
  <2> QED
    BY <1>2, <2>2
<1>3. ASSUME NEW n \in Nodes, NEW mode \in GcModes, CollectStart(k, n, mode) PROVE Progress
  <2>1. collPc'[k] = "list" /\ collAfter'[k] = 0
    BY <1>3, <1>t DEF CollectStart, CollectTo, CollectTypeOK
  <2>2. gcState'[g] # "none"
    BY <1>3, <1>t DEF CollectStart, start_gc_run, start_gc_run_outcome, RepositoryTypeOK, g
  <2> QED
    BY <2>1, <2>2, PlacementAssumption DEF StillToSweep
<1>4. CASE CollectList(k)
  <2> DEFINE n == gcTarget[g]  after == collAfter[k]  page == list_chunks(n, after)
  <2>1. /\ collPc[k] = "list" /\ collPage'[k] = page /\ (collMore'[k] <=> page # inventory(n, after))
        /\ page = {} => collPc'[k] = "complete"
        /\ page # {} => collPc'[k] = "classify" /\ collAfter'[k] \in page
    BY <1>4, <1>t DEF CollectList, CollectTypeOK, g
  <2> HIDE DEF page
  <2>2. ASSUME NEW c \in Chunks, Garbage(g, c), StillToSweep(k, c) PROVE StillToSweep(k, c)'
    <3>1. c \in inventory(n, after)
      BY <2>1, <2>2 DEF Garbage, StillToSweep, inventory, has_chunk
    <3>2. /\ page # {}
          /\ c \notin page => \A d \in page : c > d
      BY <3>1, PageSkipsNothing DEF page
    <3>3. collPc'[k] = "classify" /\ (c \notin page => collMore'[k] /\ c > collAfter'[k])
      BY <2>1, <3>1, <3>2
    <3> QED
      BY <2>1, <3>3 DEF StillToSweep
  <2> HIDE DEF Progress
  <2> QED
    BY <1>1, <2>1, <2>2
<1>5. CASE CollectClassify(k)
  <2>1. /\ collPc[k] = "classify" /\ collPc'[k] = "delete" /\ gcState[g] = "open"
        /\ UNCHANGED <<collAfter, collMore, dbVars>>
    BY <1>5, <1>t DEF CollectClassify, CollectTypeOK, g
  <2>2. gcMode[g] = "apply" => collPage'[k] = {c \in collPage[k] : ~live_chunk(c)}
    BY <1>5, <1>t DEF CollectClassify, CollectTypeOK, classify_gc_chunks, g
  <2>3. ASSUME gcMode[g] = "apply"
        PROVE  \A c \in Chunks : Garbage(g, c) /\ StillToSweep(k, c) => StillToSweep(k, c)'
    BY <2>1, <2>2, <2>3 DEF StillToSweep, Garbage
  <2>4. CASE gcMode[g] = "apply"
    <3> HIDE DEF Progress
    <3> QED
      BY <1>1, <2>1, <2>3, <2>4
  <2>5. CASE gcMode[g] # "apply"
    <3>1. gcState'[g] = "open" /\ gcMode'[g] # "apply"
      BY <2>1, <2>5
    <3> QED
      BY <3>1
  <2> QED
    BY <2>4, <2>5
<1>6. ASSUME NEW c \in Chunks, CollectDelete(k, c) PROVE Progress
  <2>1. /\ collPc[k] = "delete" /\ collPage'[k] = collPage[k] \ {c}
        /\ bytes' = bytes \ {<<c, gcTarget[g]>>}
        /\ UNCHANGED <<collPc, collAfter, collMore, gcTarget>>
    BY <1>6, <1>t DEF CollectDelete, delete_chunk, CollectTypeOK, g
  <2>2. \A d \in Chunks : StillToSweep(k, d) /\ Garbage(g, d)' => StillToSweep(k, d)'
    BY <2>1 DEF StillToSweep, Garbage
  <2> HIDE DEF Progress
  <2> QED
    BY <1>1, <2>1, <2>2
<1>7. CASE CollectNextPage(k)
  <2>1. /\ collPc[k] = "delete" /\ collPage[k] = {} /\ UNCHANGED <<collAfter, collMore>>
        /\ collMore[k] => collPc'[k] = "list"
    BY <1>7, <1>t DEF CollectNextPage, CollectTypeOK
  <2>2. \A c \in Chunks : StillToSweep(k, c) => StillToSweep(k, c)'
    BY <2>1 DEF StillToSweep
  <2> HIDE DEF Progress
  <2> QED
    BY <1>1, <2>1, <2>2
<1>8. CASE CollectClassifyRefused(k) \/ CollectComplete(k) \/ CollectStop(k)
  <2>1. collPc'[k] = "idle"
    BY <1>8, <1>t DEF CollectClassifyRefused, CollectComplete, CollectStop, CollectTo, CollectTypeOK
  <2> QED
    BY <2>1
<1>9. CASE ~(CollectWork(k) \/ CollectStop(k))
  <2>1. UNCHANGED <<collPc[k], collAfter[k], collPage[k], collMore[k]>>
    <3>1. ASSUME NEW j \in Collectors, j # k, CollectWork(j) \/ CollectStop(j)
          PROVE  UNCHANGED <<collPc[k], collAfter[k], collPage[k], collMore[k]>>
      BY <3>1, <1>t DEF CollectWork, CollectStart, CollectList, CollectClassify,
             CollectClassifyRefused, CollectDelete, CollectNextPage, CollectComplete, CollectStop,
             CollectTo, CollectTypeOK
    <3> QED
      BY <3>1, <1>9, OnlyCollectorsCollect
  <2> QED
    BY <1>2, <2>1
<1> QED
    BY <1>3, <1>4, <1>5, <1>6, <1>7, <1>8, <1>9 DEF CollectWork, g

(* The sweep misses nothing: when an apply run completes, every chunk left *)
(* on its node is live or was written during the run, whatever the page    *)
(* size, the interleaving, the restarts of the collector and the other     *)
(* processes at work on the same run (GcEngine::collect).                  *)
THEOREM CollectsAllGarbageHolds == Spec => CollectsAllGarbage
<1> DEFINE Swept == \A g \in GcRuns :
              gcState[g] = "open" /\ gcState'[g] = "completed" /\ gcMode[g] = "apply" =>
                 \A c \in Chunks : <<c, gcTarget[g]>> \in bytes =>
                    live_chunk(c) \/ <<c, gcTarget[g]>> \in writtenInGc
<1>1. Init => SweepProgress
    BY DEF Init, SweepProgress
<1>2. TypeOK /\ OperationBarrier /\ SweepProgress /\ [Next]_vars => SweepProgress'
    BY SweepStep DEF SweepProgress
<1>3. TypeOK /\ SweepProgress /\ [Next]_vars => [Swept]_vars
  <2> SUFFICES ASSUME TypeOK, SweepProgress, [Next]_vars, NEW g \in GcRuns,
                      gcState[g] = "open", gcState'[g] = "completed", gcMode[g] = "apply",
                      NEW c \in Chunks, Garbage(g, c)
               PROVE  FALSE
    BY DEF Garbage
  <2>1. PICK k \in Collectors : CollectWork(k) \/ CollectStop(k)
    BY OnlyCollectorsCollect
  <2>2. CollectorRun[k] = g /\ collPc[k] = "complete"
    BY <2>1, StoreAssumption
       DEF CollectWork, CollectStart, start_gc_run, CollectList, CollectClassify, CollectClassifyRefused,
           CollectDelete, CollectNextPage, CollectComplete, complete_gc_run, CollectStop,
           TypeOK, RepositoryTypeOK
  <2>3. StillToSweep(k, c)
    BY <2>2 DEF SweepProgress
  <2> QED
    BY <2>2, <2>3 DEF StillToSweep
<1> QED
    BY <1>1, <1>2, <1>3, TypeCorrect, BarrierHolds, PTL DEF Spec, CollectsAllGarbage

-----------------------------------------------------------------------------
(* What a repair restores.  A replication run keeps its layout and its     *)
(* placement, and while it is open no collector deletes, so what has been  *)
(* through the repair is on its node unless a disk lost it since.          *)

(* What repairer q has been through with: a desired replica that is        *)
(* neither still to scan nor still to check, copy or write.                *)
Repaired(q, c, n) ==
    /\ c \in LayoutChunks[replLayout[RepairerRun[q]]] \ repTodo[q]
    /\ n \in run_replicas(RepairerRun[q], c)
    /\ \A st \in {"head", "fetch", "put"} : <<c, n, st>> \notin repTasks[q]

RepairProgress ==
    \A q \in Repairers :
        /\ repPc[q] # "idle" => replState[RepairerRun[q]] # "none"
        /\ replState[RepairerRun[q]] = "open" /\ repPc[q] = "repair" =>
              \A c \in Chunks, n \in Nodes : Repaired(q, c, n) => <<c, n>> \in bytes \cup lostInRepair[q]

LEMMA RunsKeepTheirPlan ==
    ASSUME RepositoryTypeOK, RepositoryStep, NEW r \in ReplicationRuns, replState[r] # "none"
    PROVE  replLayout'[r] = replLayout[r] /\ replPlacement'[r] = replPlacement[r]
<1> USE DEF RepositoryTypeOK
<1>1. ASSUME NEW z \in ReplicationRuns, NEW v \in Versions, start_replication_run(z, v)
      PROVE  replLayout'[r] = replLayout[r] /\ replPlacement'[r] = replPlacement[r]
  <2>1. replState[z] = "none"
    BY <1>1 DEF start_replication_run, start_replication_run_outcome, RunStates
  <2> QED
    BY <1>1, <2>1 DEF start_replication_run
<1> QED
    BY <1>1
       DEF RepositoryStep, register_storage_node, negotiate_chunks, register_storage_location,
           create_upload_session, abort_upload_session, finalize_upload, start_gc_run,
           complete_gc_run, complete_replication_run, run_lifecycle

LEMMA OnlyRepairersRepair ==
    ASSUME [Next]_vars, ~ \E r \in Repairers : Repair(r)
    PROVE  UNCHANGED <<repVars, replState>>
<1>1. ASSUME NEW k \in Collectors, CollectWork(k) \/ CollectStop(k)
      PROVE  UNCHANGED <<repVars, replState>>
    BY <1>1 DEF CollectWork, CollectStart, start_gc_run, CollectList, CollectClassify,
           CollectClassifyRefused, CollectDelete, CollectNextPage, CollectComplete, complete_gc_run,
           CollectStop
<1>2. ASSUME NEW p \in Pushers, Push(p) PROVE UNCHANGED <<repVars, replState>>
    BY <1>2 DEF Push, PushStart, PushCreate, create_upload_session, PushCreateRefused,
           PushNegotiate, negotiate_chunks, PushHead, PushPut, PushRegister,
           register_storage_location, PushFinalize, finalize_upload, PushStop
<1>3. CASE Operator
    BY <1>3 DEF Operator, AbortSession, abort_upload_session, SetNodeState,
           register_storage_node, Retire, run_lifecycle
<1> QED
    BY <1>1, <1>2, <1>3 DEF Next, LoseReplica, vars

(* A repairer at work is told of every loss, as far as the history goes.   *)
LEMMA LossesNoted ==
    ASSUME TypeOK, [Next]_vars, NEW q \in Repairers, repPc[q] # "idle",
           ~ \E k \in Collectors, c \in Chunks : CollectDelete(k, c)
    PROVE  bytes \cup lostInRepair[q] \subseteq bytes' \cup lostInRepair'[q]
<1> DEFINE Noted == bytes \cup lostInRepair[q] \subseteq bytes' \cup lostInRepair'[q]
<1> USE DEF TypeOK, FilesTypeOK
<1>1. ASSUME NEW p \in Pushers, Push(p) PROVE Noted
    BY <1>1 DEF Push, PushStart, PushCreate, PushCreateRefused, PushNegotiate, PushHead,
           PushPut, put_chunk, PushRegister, PushFinalize, PushStop
<1>2. ASSUME NEW r \in Repairers, Repair(r) PROVE Noted
    BY <1>2 DEF Repair, RepairStart, RepairPlan, RepairScan, RepairHead,
           RepairFetch, RepairPut, put_chunk, RepairRegister, RepairComplete, RepairStop
<1>3. ASSUME NEW k \in Collectors, CollectWork(k) \/ CollectStop(k) PROVE Noted
    BY <1>3 DEF CollectWork, CollectStart, CollectList, CollectClassify, CollectClassifyRefused,
           CollectNextPage, CollectComplete, CollectStop
<1>4. ASSUME NEW c \in Chunks, NEW n \in Nodes, LoseReplica(c, n) PROVE Noted
    BY <1>4 DEF LoseReplica
<1> QED
    BY <1>1, <1>2, <1>3, <1>4 DEF Next, Operator, AbortSession, SetNodeState, Retire, vars

LEMMA RepairStep ==
    ASSUME DurabilityInvariant, RepairProgress, [Next]_vars, NEW q \in Repairers
    PROVE  LET r == RepairerRun[q] IN
           /\ repPc'[q] # "idle" => replState'[r] # "none"
           /\ replState'[r] = "open" /\ repPc'[q] = "repair" =>
                 \A c \in Chunks, n \in Nodes : Repaired(q, c, n)' => <<c, n>> \in bytes' \cup lostInRepair'[q]
<1> DEFINE r == RepairerRun[q]
           Progress ==
              /\ repPc'[q] # "idle" => replState'[r] # "none"
              /\ replState'[r] = "open" /\ repPc'[q] = "repair" =>
                    \A c \in Chunks, n \in Nodes : Repaired(q, c, n)' => <<c, n>> \in bytes' \cup lostInRepair'[q]
<1>t. r \in ReplicationRuns /\ RepositoryTypeOK /\ RepairTypeOK /\ TypeOK /\ RepositoryStep
    BY StoreAssumption, NextIsRepositoryStep DEF TypeOK, DurabilityInvariant
<1>p. /\ repPc[q] # "idle" => replState[r] # "none"
      /\ replState[r] = "open" /\ repPc[q] = "repair" =>
            \A c \in Chunks, n \in Nodes : Repaired(q, c, n) => <<c, n>> \in bytes \cup lostInRepair[q]
    BY DEF RepairProgress
<1>r. replState[r] # "none" =>
          /\ replState'[r] # "none" /\ (replState'[r] = "open" => replState[r] = "open")
          /\ replLayout'[r] = replLayout[r] /\ replPlacement'[r] = replPlacement[r]
    BY <1>t, RunsStay, RunsKeepTheirPlan
<1>d. replState[r] = "open" => ~ \E k \in Collectors, c \in Chunks : CollectDelete(k, c)
  <2> SUFFICES ASSUME replState[r] = "open", NEW k \in Collectors, NEW c \in Chunks, CollectDelete(k, c)
               PROVE  FALSE
    OBVIOUS
  <2>1. gc_in_progress
    BY StoreAssumption DEF CollectDelete, DurabilityInvariant, CollectorHoldsRun, gc_in_progress
  <2> QED
    BY <1>t, <2>1 DEF DurabilityInvariant, OperationBarrier, replication_in_progress
<1> SUFFICES Progress
    OBVIOUS
<1> HIDE DEF r
(* It is enough that what this step calls repaired is or was there.        *)
<1>1. ASSUME repPc[q] # "idle", repPc'[q] = "repair" => repPc[q] = "repair",
             \A c \in Chunks, n \in Nodes : Repaired(q, c, n)' =>
                 Repaired(q, c, n) \/ <<c, n>> \in bytes' \cup lostInRepair'[q]
      PROVE  Progress
  <2>1. ASSUME replState'[r] = "open", repPc'[q] = "repair",
               NEW c \in Chunks, NEW n \in Nodes, Repaired(q, c, n)'
        PROVE  <<c, n>> \in bytes' \cup lostInRepair'[q]
    <3>1. replState[r] = "open" /\ repPc[q] = "repair"
      BY <1>1, <1>p, <1>r, <2>1
    <3>2. bytes \cup lostInRepair[q] \subseteq bytes' \cup lostInRepair'[q]
      BY <1>t, <1>d, <3>1, LossesNoted
    <3> QED
      BY <1>1, <1>p, <2>1, <3>1, <3>2
  <2> QED
    BY <1>1, <1>p, <1>r, <2>1
<1>2. CASE ~Repair(q)
  <2>1. UNCHANGED <<repPc[q], repTodo[q], repTasks[q]>>
    <3>1. ASSUME NEW z \in Repairers, z # q, Repair(z)
          PROVE  UNCHANGED <<repPc[q], repTodo[q], repTasks[q]>>
      BY <3>1, <1>t DEF Repair, RepairStart, RepairPlan, RepairScan, RepairHead, RepairFetch,
             RepairPut, RepairRegister, RepairComplete, RepairStop, RepairExit, RepairTypeOK
    <3> QED
      BY <3>1, <1>2, OnlyRepairersRepair
  <2>2. CASE repPc[q] = "idle"
    BY <2>1, <2>2
  <2>3. CASE repPc[q] # "idle"
    <3>1. replLayout'[r] = replLayout[r] /\ replPlacement'[r] = replPlacement[r]
      BY <1>p, <1>r, <2>3
    <3>2. \A c \in Chunks, n \in Nodes : Repaired(q, c, n)' => Repaired(q, c, n)
      BY <2>1, <3>1 DEF Repaired, run_replicas, r
    <3> HIDE DEF Progress
    <3> QED
      BY <1>1, <2>1, <2>3, <3>2
  <2> QED
    BY <2>2, <2>3
<1>3. ASSUME NEW v \in Versions, RepairStart(q, v) PROVE Progress
  <2>1. repPc'[q] = "plan" /\ replState'[r] # "none"
    BY <1>3, <1>t DEF RepairStart, start_replication_run, start_replication_run_outcome,
           RepairTypeOK, RepositoryTypeOK, r
  <2> QED
    BY <2>1
<1>4. CASE RepairPlan(q)
  <2>1. /\ repPc[q] = "plan" /\ repTodo'[q] = LayoutChunks[replLayout'[r]]
        /\ UNCHANGED replState
    BY <1>4, <1>t DEF RepairPlan, RepairTypeOK, r
  <2>2. \A c \in Chunks, n \in Nodes : ~Repaired(q, c, n)'
    BY <2>1 DEF Repaired, r
  <2> QED
    BY <2>1, <2>2, <1>p
<1>5. ASSUME NEW c \in Chunks, RepairScan(q, c) PROVE Progress
  <2>1. /\ repPc[q] = "repair" /\ repTasks[q] = {} /\ repTodo'[q] = repTodo[q] \ {c}
        /\ repTasks'[q] = repair_tasks(q, c)
        /\ UNCHANGED <<repPc, dbVars>>
    BY <1>5, <1>t DEF RepairScan, RepairTypeOK
  <2>2. ASSUME NEW d \in Chunks, NEW n \in Nodes, Repaired(q, d, n)' PROVE Repaired(q, d, n)
    <3>1. n \in run_replicas(r, d)
      BY <2>1, <2>2 DEF Repaired, run_replicas, r
    <3>2. d # c
      <4> SUFFICES ASSUME d = c PROVE FALSE
        OBVIOUS
      <4>1. <<d, n, IF <<d, n>> \in repSources[q] THEN "head" ELSE "fetch">> \in repTasks'[q]
        BY <2>1, <3>1 DEF repair_tasks, r
      <4> QED
        BY <4>1, <2>2 DEF Repaired
    <3> QED
      BY <2>1, <2>2, <3>1, <3>2 DEF Repaired, r
  <2> HIDE DEF Progress
  <2> QED
    BY <1>1, <2>1, <2>2
<1>6. ASSUME NEW c \in Chunks, NEW n \in Nodes, RepairHead(q, c, n) PROVE Progress
  <2>1. /\ repTasks'[q] = (repTasks[q] \ {<<c, n, "head">>})
                             \cup (IF <<c, n>> \in bytes THEN {} ELSE {<<c, n, "fetch">>})
        /\ UNCHANGED <<repPc, repTodo, bytes, dbVars>>
    BY <1>6, <1>t DEF RepairHead, has_chunk, RepairTypeOK
  <2>2. ASSUME NEW d \in Chunks, NEW m \in Nodes, Repaired(q, d, m)'
        PROVE  Repaired(q, d, m) \/ <<d, m>> \in bytes' \cup lostInRepair'[q]
    BY <2>1, <2>2 DEF Repaired, run_replicas
  <2> HIDE DEF Progress
  <2>3. CASE repPc[q] # "idle"
    BY <1>1, <2>1, <2>2, <2>3
  <2>4. CASE repPc[q] = "idle"
    BY <2>1, <2>4 DEF Progress
  <2> QED
    BY <2>3, <2>4
<1>7. ASSUME NEW c \in Chunks, RepairFetch(q, c) PROVE Progress
  <2>1. /\ repTasks'[q] = {<<t[1], t[2], "put">> : t \in repTasks[q]}
        /\ UNCHANGED <<repPc, repTodo, dbVars>>
    BY <1>7, <1>t DEF RepairFetch, RepairTypeOK
  <2>2. ASSUME NEW d \in Chunks, NEW m \in Nodes, Repaired(q, d, m)' PROVE Repaired(q, d, m)
    <3>1. ASSUME NEW st, <<d, m, st>> \in repTasks[q] PROVE <<d, m, "put">> \in repTasks'[q]
      BY <2>1, <3>1
    <3> QED
      BY <2>1, <2>2, <3>1 DEF Repaired, run_replicas
  <2> HIDE DEF Progress
  <2>3. CASE repPc[q] # "idle"
    BY <1>1, <2>1, <2>2, <2>3
  <2>4. CASE repPc[q] = "idle"
    BY <2>1, <2>4 DEF Progress
  <2> QED
    BY <2>3, <2>4
<1>8. ASSUME NEW c \in Chunks, NEW n \in Nodes, RepairPut(q, c, n) PROVE Progress
  <2>1. /\ repTasks'[q] = (repTasks[q] \ {<<c, n, "put">>}) \cup {<<c, n, "register">>}
        /\ bytes' = bytes \cup {<<c, n>>}
        /\ UNCHANGED <<repPc, repTodo, dbVars>>
    BY <1>8, <1>t DEF RepairPut, put_chunk, RepairTypeOK
  <2>2. ASSUME NEW d \in Chunks, NEW m \in Nodes, Repaired(q, d, m)'
        PROVE  Repaired(q, d, m) \/ <<d, m>> \in bytes' \cup lostInRepair'[q]
    BY <2>1, <2>2 DEF Repaired, run_replicas
  <2> HIDE DEF Progress
  <2>3. CASE repPc[q] # "idle"
    BY <1>1, <2>1, <2>2, <2>3
  <2>4. CASE repPc[q] = "idle"
    BY <2>1, <2>4 DEF Progress
  <2> QED
    BY <2>3, <2>4
<1>9. ASSUME NEW c \in Chunks, NEW n \in Nodes, RepairRegister(q, c, n) PROVE Progress
  <2>1. /\ repTasks'[q] = repTasks[q] \ {<<c, n, "register">>}
        /\ UNCHANGED <<repPc, repTodo, replState, replLayout, replPlacement>>
    BY <1>9, <1>t DEF RepairRegister, register_storage_location, RepairTypeOK
  <2>2. ASSUME NEW d \in Chunks, NEW m \in Nodes, Repaired(q, d, m)' PROVE Repaired(q, d, m)
    BY <2>1, <2>2 DEF Repaired, run_replicas
  <2> HIDE DEF Progress
  <2>3. CASE repPc[q] # "idle"
    BY <1>1, <2>1, <2>2, <2>3
  <2>4. CASE repPc[q] = "idle"
    BY <2>1, <2>4 DEF Progress
  <2> QED
    BY <2>3, <2>4
<1>10. CASE RepairComplete(q) \/ RepairStop(q)
  <2>1. repPc'[q] = "idle"
    BY <1>10, <1>t DEF RepairComplete, RepairStop, RepairExit, RepairTypeOK
  <2> QED
    BY <2>1
<1> QED
    BY <1>2, <1>3, <1>4, <1>5, <1>6, <1>7, <1>8, <1>9, <1>10 DEF Repair

(* A repair run that completes has restored: the process that completes it *)
(* has found or put every desired replica on its node, but for those that  *)
(* a disk lost since that process started (RepairEngine::repair,           *)
(* complete_replication_run).                                              *)
THEOREM RepairRestoresHolds ==
    ASSUME OneCollectorPerRun
    PROVE  Spec => RepairRestores
<1> DEFINE Restored == \A r \in ReplicationRuns : replState[r] = "open" /\ replState'[r] = "completed" =>
              \E q \in Repairers :
                 /\ RepairerRun[q] = r /\ repPc[q] = "repair" /\ repPc'[q] = "idle"
                 /\ \A c \in LayoutChunks[replLayout[r]] : \A n \in run_replicas(r, c) :
                       <<c, n>> \in bytes \cup lostInRepair[q]
<1>1. Init => RepairProgress
    BY DEF Init, RepairProgress
<1>2. DurabilityInvariant /\ RepairProgress /\ [Next]_vars => RepairProgress'
    BY RepairStep DEF RepairProgress
<1>3. DurabilityInvariant /\ RepairProgress /\ [Next]_vars => [Restored]_vars
  <2> SUFFICES ASSUME DurabilityInvariant, RepairProgress, [Next]_vars, NEW r \in ReplicationRuns,
                      replState[r] = "open", replState'[r] = "completed"
               PROVE  \E q \in Repairers :
                        /\ RepairerRun[q] = r /\ repPc[q] = "repair" /\ repPc'[q] = "idle"
                        /\ \A c \in LayoutChunks[replLayout[r]] : \A n \in run_replicas(r, c) :
                              <<c, n>> \in bytes \cup lostInRepair[q]
    OBVIOUS
  <2>t. RepositoryTypeOK /\ RepairTypeOK
    BY DEF DurabilityInvariant, TypeOK
  <2>1. PICK q \in Repairers : Repair(q)
    BY OnlyRepairersRepair
  <2>2. RepairComplete(q) /\ RepairerRun[q] = r
    BY <2>1, <2>t, StoreAssumption
       DEF Repair, RepairStart, start_replication_run, RepairPlan, RepairScan, RepairHead,
           RepairFetch, RepairPut, RepairRegister, register_storage_location, RepairComplete,
           complete_replication_run, RepairStop, RepositoryTypeOK
  <2>3. repPc[q] = "repair" /\ repTodo[q] = {} /\ repTasks[q] = {} /\ repPc'[q] = "idle"
    BY <2>2, <2>t DEF RepairComplete, RepairExit, RepairTypeOK
  <2>4. ASSUME NEW c \in LayoutChunks[replLayout[r]], NEW n \in run_replicas(r, c)
        PROVE  <<c, n>> \in bytes \cup lostInRepair[q]
    <3>1. LayoutChunks[replLayout[r]] \subseteq Chunks
      BY <2>t, RepositoryAssumption DEF RepositoryTypeOK
    <3>2. n \in Nodes
      BY <2>t, SelectSubset DEF run_replicas, RepositoryTypeOK
    <3>3. Repaired(q, c, n)
      BY <2>2, <2>3 DEF Repaired
    <3> QED
      BY <2>2, <2>3, <3>1, <3>2, <3>3 DEF RepairProgress
  <2> QED
    BY <2>2, <2>3, <2>4
<1> QED
    BY <1>1, <1>2, <1>3, DurabilityInvariantHolds, PTL DEF Spec, RepairRestores

=============================================================================
