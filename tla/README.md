# A TLA+ model of the AI artifact store

The store keeps versions of large files as content-addressed chunks. Client
commands (`aistore push`, `pull`, `gc`, `repair`, `lifecycle`, `node`) talk over
HTTP to one metadata service, which is a front end of a PostgreSQL schema, and
to storage nodes, which keep chunk files. Nothing coordinates the clients except
the transactions of the schema: pushing, collecting and repairing are protocols
that the *clients* run, request by request, and any of them may stop anywhere.
That is what this project models and what its properties are about.

## The system: components, state, operations

| Component | Source | State | Operations |
| --- | --- | --- | --- |
| Placement | `src/metadata/placement.cpp` | none | `select_replica_nodes`: the rf highest ranked nodes of a snapshot, computed by clients and service independently |
| Metadata repository | `src/metadata/postgres_metadata_repository.cpp`, `migrations/` | tables `storage_nodes`, `chunks`, `storage_locations`, `objects`, `object_layouts`, `artifact_versions`, `artifact_version_retirements`, `upload_sessions` (+ nodes, finalizations), `gc_runs`, `replication_runs` | register node / location, negotiate chunks, create / abort / finalize a session, start / classify / complete a GC run, start / plan / complete a replication run, lifecycle run |
| Lifecycle policies | the same, `src/metadata/lifecycle.cpp`, migration 010 | policies, pins, decisions, retirements | evaluate a policy (dry run or apply), pin, unpin |
| Metadata service | `src/service/metadata_service*.cpp` | a mutex around the repository | a handler per route: repository calls under the mutex, their outcome as a status, an error code and a body |
| Storage node | `src/service/storage_node_service.cpp`, `src/storage/local_chunk_store.cpp` | chunk files; two server threads and no lock | put (look, verify, or temporary file and rename), get, contains, remove, paged listing |
| Push | `src/push/push_engine.cpp`, `run_push` | work queue and worker threads of one process | create or resume a session, chunk, negotiate, HEAD / PUT / register each replica, finalize; retry of a lost acknowledgement |
| Garbage collection | `src/gc/gc_engine.cpp`, `run_gc` | cursor and page of one process | start or resume a run, list, classify, delete, complete |
| Repair | `src/replication/repair_engine.cpp`, `run_repair` | plan of one process | start or resume a run, plan, HEAD, fetch, PUT, register, complete |
| Pull | `src/pull/pull_engine.cpp`, `run_pull` | partial file; window and worker threads of one process | two restore plans, resume from the partial file, chunk downloads with source fallback, ordered writes, publish by link or rename |
| Chunking, hashing, descriptors | `src/chunking/`, `src/hashing/`, `src/metadata/*_descriptor.cpp` | none | pure functions |
| HTTP clients and servers | `src/client/`, `src/http/` | sockets | one connection per call with a timeout; every answer is checked against its request |
| Demo, benchmarks | `demo/`, `benchmarks/` | none | drivers of the command line tool |

### How they interact, and what is hard

* A push makes three kinds of promises at three places: a session row says that
  chunks are being uploaded, `storage_locations` rows say where they are, and the
  finalize transaction, which looks at these rows only, turns them into a
  committed version. The files are verified by the client, earlier.
* GC deletes files first and rows afterwards. Between the two a location row
  points to nothing; a push that meets such a row has to look with HEAD.
* The only thing that keeps GC and push apart is the barrier: no session is
  created while a GC run is open and no GC run starts while a session is open.
  Storage nodes and `register_storage_location` do not look at it, so the worker
  threads of a push whose session was aborted go on during a GC run.
* All client commands may be run again with the id of their session or run, after
  a crash, a lost acknowledgement, or while the first process is still alive.
* Chunks are shared: what belongs to a retired version may belong to a live one.
* The storage side of repair runs after losses nobody reported: metadata may call
  a replica available that is gone.
* A client that got no answer does not know whether its request was handled, will be
  handled later, or is lost.
* Push and pull are each a main thread with workers. In a push any thread may fail
  while others sleep on a full or empty queue; in a pull the workers run ahead of the
  writer, who must have the chunks in order.
* A pull may be killed anywhere, in the middle of a write or between the `link` and
  the `unlink` of a publication; the next pull works with the files it left.
* A storage node reads and writes chunk files without a lock, so a file may vanish
  or change between any two file operations of a handler.

What makes the parts correct: the barrier (`OperationBarrier`); a committed and
not retired version keeps its replicas, in the tables and on the nodes
(`CommittedReplicasIntact`, `LiveVersionRestorable`); GC deletes only garbage and
all of it (`CollectsOnlyGarbage`, `PendingDeletesAreGarbage`,
`CollectsAllGarbage`); finalize is idempotent (`FinalizeAgreement`); the sweep
respects the foreign keys (`ReferentialIntegrity`); a completed repair restored
its replicas (`RepairRestores`); GC runs terminate (`GcRunCompletes`); lifecycle
runs retire only what retention allows (`RetentionPromise`), what they decided is
what happened (`RetirementsExplained`) and what is pinned, tagged or named by a
manifest stays restorable (`ProtectedRestorable`); clients and service agree on every
answer (`AnswersAccepted`), what was granted stays true and is granted again to who
asks again (`GrantsKept`, `RetriesGranted`, `CompletionsAgree`); a push returns, with
every replica stored or with the cause (`TransferPromise`, `RootCauseReported`,
`PushEnds`); a pull publishes the version at once or not at all (`AtomicPublish`), resumes
from what is right (`PartialIsPrefix`), in bounded memory (`WindowBounded`), and ends
(`PullEnds`, `FailureExplained`); a storage node has what it acknowledged
(`AckedStored`), nothing that is incomplete (`NoTornChunk`), and lists everything
(`InventoryComplete`).

## Modules

* **Placement** - `select_replica_nodes` over an uninterpreted digest `Score`.
  Node ids are naturals so that ties are broken by their order.
* **MetadataRepository** - the tables as variables and each transaction as an
  action. A transaction that can be refused has an operator `..._outcome` that
  follows the early returns of the code in their order; the action is enabled for
  the outcomes that write. The service holds `repository_mutex_` around every
  call and a call is one database transaction, so a transaction is one step;
  what a handler checks under the same lock (negotiate needs an open session) is
  part of the action.
* **ArtifactStore** - adds the chunk files (`bytes`), and the push, gc and repair
  processes. One request is one step. `PushStop`, `CollectStop`, `RepairStop`
  stand for every failure and for a crash; a stopped process starts again with
  the same session or run id and nothing but the durable state.
* **Retention** - what retention promises, without policies, runs, sessions or
  collections: three steps, `Commit`, `Protect` and `Retire`.
* **Lifecycle** - composes the repository with pins, tags, manifests, policies and
  lifecycle runs; the node files and the clients' own states are left out, the
  transactions they make are there. It implements `Retention` (`RetentionPromise`).
* **HttpResponse** - an answer as status, error code and body, and the two ways in
  which a client method takes one: `Expect` and `Lookup`.
* **MetadataService** - one operator per handler of the core and m8 routes. A handler
  holds `repository_mutex_` around all its calls and is one step; it names the status and
  the code of each outcome and each caught exception. What nobody catches is a 500.
* **MetadataClient** - what each method of `MetadataClient` makes of an answer, and a
  call as `Request`, `Handle`, `Receive`. `Timeout` loses the request or leaves it to
  `HandleLate`, after which nobody waits for the answer. Any call may follow any other.
* **Transfer** - what a push's data plane promises: `Store`, then `Prepare` or `Fail`.
* **PushPipeline** - the threads of one push: the producer that reads, stages,
  negotiates and fills `BoundedQueue`, and the workers. A step is what is done under
  one lock, or one request. Every operation that can throw may do so. It implements
  `Transfer` (`TransferPromise`).
* **Destination** - what a pull promises to the reader of its path: `Publish` at
  once, onto nothing or with `--overwrite`; other pulls publish there too.
* **Pull** - `run_pull` and `PullEngine` with two restore plans, the window, the workers,
  the writer and the files as inodes with names. `Kill` ends the process anywhere.
  It implements `Destination` (`AtomicPublish`).
* **StorageNode** - the handlers of a storage node by file operations, the methods of
  `StorageNodeClient`, the inventory of `GcEngine::collect` over pages, a `Crash` of the
  process and a disk that corrupts files (`Rot`).
* **MCArtifactStore**, **MCLifecycle**, **MCMetadataClient**, **MCPushPipeline**, **MCPull**,
  **MCStorageNode** - the instances for TLC.
* **Placement_proofs**, **MetadataRepository_proofs**, **ArtifactStore_proofs**,
  **Lifecycle_proofs**, **MetadataClient_proofs**, **StorageNode_proofs**,
  **PushPipeline_proofs**, **Pull_proofs** - theorems and proofs.

`ArtifactStore` and `Lifecycle` both EXTEND `MetadataRepository`, which EXTENDS
`Placement`. They do not interact beyond `run_lifecycle`: in `ArtifactStore` an apply
run retires any set of live versions, which contains what every policy does, and
`Lifecycle` says which set. `MetadataService` EXTENDS the same repository with the answers
that the two leave out, and `MetadataClient` EXTENDS it. `PushPipeline`, `Pull` and
`StorageNode` are each the inside of what is a few steps elsewhere: a worker's requests
in a push of `ArtifactStore` are `Upload` here, and one `bytes` update there is a whole
put here. That these inner models keep their promises (a push that prepared stored
every replica; a 204 means a whole file) is what `ArtifactStore` takes for granted.

### State and code

| Variable | Code |
| --- | --- |
| `nodeState` | `storage_nodes.state`, `"unregistered"` where there is no row |
| `chunkRows`, `locations` | `chunks`; `storage_locations` rows in state `available` (the only state ever written) |
| `objects`, `layouts`, `versions`, `retired` | the rows of `objects`, `object_layouts`, `artifact_versions`, `artifact_version_retirements` |
| `sessState`, `sessPlacement`, `sessVersion`, `sessLayout` | `upload_sessions`, `upload_session_nodes`, `finalized_version_id`, `upload_session_finalizations.layout_id` |
| `gcState`, `gcTarget`, `gcMode` | `gc_runs` |
| `replState`, `replVersion`, `replLayout`, `replPlacement` | `replication_runs`, `replication_run_nodes` |
| `bytes` | which chunk files the nodes have |
| `pushPc`, `pushLayout`, `pushPlacement`, `pushTodo`, `pushTasks` | a push process: where `run_push` is, the file's layout, the request's placement, the chunks not negotiated and the replicas the workers are busy with (`head`, `put`, `register`) |
| `collPc`, `collAfter`, `collPage`, `collMore` | `GcEngine::collect`: the cursor, the page and then what is left to delete of it |
| `repPc`, `repSources`, `repTodo`, `repTasks` | `RepairEngine::repair`: the plan's sources, the chunks not scanned, the replicas of the current chunk |
| `pins`, `tags`, `manifests` | `artifact_version_pins`, `tags`, `manifests` with `manifest_entries` |
| `createdAt`, `now` | `artifact_versions.created_at`, the clock of the database |
| `policies`, `lifeRuns` | `lifecycle_policies`; `lifecycle_runs` with `lifecycle_run_decisions` |
| `lost`, `lostInRepair`, `writtenInGc`, `acks`, `collStops` | history and bounds, read by properties and bounds only; `lostInRepair[q]` is what disks lost since repairer q started |
| `gcStats`, `replStats` | the statistics columns of `gc_runs` and `replication_runs`, 0 until completed |
| `answer`, `call`, `pc`, `late` (MetadataClient) | the response and request of each call, where the call is; requests still on their way whose caller timed out |
| `granted`, `retracted` | history: grants with their bodies, refusals of what was granted before |
| `items`, `closed`, `cancelled`, `parked` (PushPipeline) | `BoundedQueue`; the threads asleep on its two condition variables |
| `failure`, `task`, `reads`, `pending`, `seen`, `staging`, `batch` | `first_failure`, a worker's task, the unread file, chunks emitted, `seen_chunk_ids`, the staging batch, the batch being enqueued |
| `stored`, `outcome` (PushPipeline) | history: replicas verified or written; what `push` returned |
| `partial`, `dest`, `data` (Pull) | the names `<destination>.aistore.<version>.part` and `<destination>`, each an inode or none; the blocks of each inode |
| `pool`, `sources`, `file`, `size` | clients made from the first plan, the sources of the second, the open partial file and its size |
| `write`, `claim`, `ready`, `taken`, `task`, `failure`, `cancelled`, `parked`, `pc`, `wpc` (Pull) | `next_write_index`, `next_claim_index`, `ready`, the chunk that is being written, a worker's chunk and the sources it has left, the shared failure state, the threads |
| `stored`, `pc`, `req`, `visited`, `found` (StorageNode) | a chunk file absent, good or bad; the handler of each client's request; the directory walk of a listing |
| `scanning`, `after`, `inventory` | the collector's inventory, its cursor, the ids so far |
| `acked`, `since`, `rotted`, `throughout` | history: acknowledged and not taken since; taken since a handler looked; corrupted by the disk; there all the time |

### Abstractions

Identifiers are content addresses and hashes do not collide: an id is the thing
it names. A version id is the pair of the session's *lineage* (artifact, parent,
metadata) and the object. A layout is the set of its chunks: sizes and offsets
are checked by code that no property here is about. The identity of an existing
session is compared by its placement, the only compared field that the session id does
not determine in this model (its other fields are constants of the session). A
push in this model may retry with another file (`SessionLayouts`), so sessions do meet
finalize requests for different layouts. A request whose placement is smaller than
its replication factor is refused before anything else, as
`UploadSession::validate_replication_configuration` does. The rules of a policy are
the constants `KeepLastN` and `MaxAge`: a policy is immutable once registered. Time
is a counter, the truncation of the evaluation time to milliseconds is left out. In
`ArtifactStore` the bytes of a file are correct or it is absent; `StorageNode` has
corrupt files and shows why a reader never takes one for the chunk.

`MetadataClient` has requests that its methods can build, so answers 400, 405, 415 and
the encoding are left out; statistics are opaque values. In `PushPipeline` a chunk's
requests to one node (HEAD, PUT, register) are one step that succeeds or fails;
their order is in `ArtifactStore`. In `Pull` a chunk is two blocks, so that a short write
leaves a torn chunk and a gap reads as zeros. Hashes are right exactly for right blocks.
In `StorageNode` a read that overlaps a removal or a corruption may return either:
an open file outlives its name. A request body arrives whole. An order (the pages of an
inventory, the sources of a chunk by node id) is given by what it is, a list that ascends,
not by how it is sorted.

## Runs

The runs of `MCArtifactStore` have two objects, whose layouts share chunk 1; those of
`MCLifecycle` have one artifact with two versions of one kind and a version of
another kind.

| Run | Instance | Shows |
| --- | --- | --- |
| `push_gc` | 1 node, 2 sessions with a push each, 1 GC run in both modes, stopped at most once | `PendingDeletesAreGarbage`, `CommittedReplicasIntact`, `ReferentialIntegrity`, `DurabilityInvariant`, `CollectsOnlyGarbage`, `CollectsAllGarbage` |
| `same_session` | 1 session with two pushes, 1 GC run with two collectors | `OperationBarrier`, `FinalizeAgreement` |
| `repair` | 2 nodes of which one is registered, drained and disabled; one loss; two repair processes that resume one replication run with plans of different age; push and GC beside them; RF 1, repair RF 2 | `TypeOK`, `OperationBarrier`, `LiveVersionRestorable`, `RepairRestores` |
| `lifecycle` | 3 versions, pins, two policies (by number; by number and age), two lifecycle runs in both modes | `LifecycleTypeOK`, `RetirementsExplained`, `RetentionPromise` |
| `lifecycle_gc` | 3 versions over layouts that share a chunk, pins, a tag that moves, a manifest, one lifecycle run and one GC run | `ProtectedRestorable`, `RetentionPromise` |
| `gc_liveness` | 1 session, 2 chunks, pages of one chunk, a stop in the middle, fairness | `GcRunCompletes` |
| `metadata_client` | every call of a push, a GC run and a repair of one version, in any order, by one client and a late request; two statistics | `ServiceTypeOK`, `AnswersAccepted`, `GrantsKept`, `CompletionsAgree`, `RetriesGranted` |
| `push_pipeline` | 3 workers, a queue of 1, batches of 2, a file of 3 reads and a rest, with a chunk that repeats in the first read and at the end, replicas on one or two nodes, failures anywhere, fairness | `PipelineTypeOK`, `RootCauseReported`, `UploadsDisjoint`, `TransferPromise`, `PushEnds` |
| `pull` | versions of 3 chunks and of 1, 2 workers, a window of 2, 3 nodes (one fails, one answers, one comes and goes), kills, other pulls, fairness | `PullTypeOK`, `PartialIsPrefix`, `WindowBounded`, `FailureExplained`, `AtomicPublish`, `PullEnds` |
| `storage_node` | 2 chunks on two pages, 2 clients of whom one takes inventories, crashes, corruption | `StoreTypeOK`, `AckedStored`, `NoTornChunk`, `AnswersUnderstood`, `InventoryComplete` |
| `gc_straggler` | as `push_gc` with two collectors on one run | violates `PendingDeletesAreGarbage` (finding 1) |
| `gc_after_repair` | 1 node, 1 chunk, with a replication run, fairness | violates `GcRunCompletes` (finding 2) |

What some properties say that their names do not:

* `RepairRestores` is about the process that completes the run: every replica of the
  placement that is recorded then is on its node, but for what a disk lost since that
  process started. The other process may have restored it, or lost its node.
* `AnswersAccepted` also says which request may end in a 500: only `complete_gc_run`, by the
  foreign key of finding 2.
* `RetriesGranted` lists all refusals of a request that was granted before. They are
  the conflict of a session that is not open any more, the retired version, and a
  replication run that exists while a GC run is open (`start_replication_run` asks the
  barrier first).
* `FailureExplained` is what a user may conclude from the message of `aistore pull`: no
  source of the plan serves the chunk, or a node that the first plan did not have.
* `AnswersUnderstood` says that the digest and page checks of the client never fail
  against this server, whatever happens to a file in the middle of its handler.

Bounds. `MaxStops` bounds how often a collector stops: once is enough to resume
a run from every point of it. Pushes and repairs stop without bound. `MaxLosses`
bounds the replicas that disks have lost; one is enough for a repair to find a replica
gone that metadata calls available. `MaxTime` 1
separates the versions of the first moment, whose age a policy can reach, from those
of the second, whose age it cannot, and leaves ties within each. `PageSize` 1 makes every
inventory of two chunks a paged one, `BatchSize` 2 lets a push negotiate partly and fully
known batches. A GC run and a replication run are used up when they complete, so the
number of runs is the bound on how often they happen; with two sessions a chunk
can be committed, retired, collected and pushed again. The states of these runs are
finite, so sessions and runs are all used up in the end and the store rests: deadlock
is not checked. A push or an operator that rests is no deadlock either; that threads do not wait on each other for ever is `PushEnds` and `PullEnds`.

`MaxLate` 1: one late request against a client that goes on with any calls has every
order of two requests. One session, one GC run and one replication run suffice because
a handler looks at another one only through "is one open". `Capacity` 1 makes the
producer sleep on the queue and three workers sleep on it together, of whom a push wakes
one. The repeated chunk falls in one read, across batches and at the end of the file.
`Window` 2 over three chunks has claims that wait, chunks that are ready out of order
and a writer that waits; the second version publishes to the same path and has a partial
file of its own. `Files` has one inode more than can have a name. In `storage_node` two clients occupy the two server threads
that there are by default, and two pages make a cursor.

Symmetry: `MCSameCommand` and `MCSameRepair` permute processes that run the same
command, `MCSymmetry` the statistics; no action or property distinguishes them.

Fairness. In `ArtifactStore`: weak fairness of each collector's work, without
`CollectStop`. A running process makes progress, and the operator runs the
command of an interrupted run again, which is what the message of `aistore gc`
asks for. Nothing is assumed about pushes, aborts or repairs. In `PushPipeline` and
`Pull`: weak fairness of the main thread and of each worker, because the operating system
runs every thread, each request ends by an answer or by the client's timeout, and
`std::condition_variable` wakes who was notified. A thread that was not notified stays
asleep: the models have no spurious wake-ups, so that a lost one would show. `Kill`, and
`MakePool`, with which a pull starts, are not fair.

### Findings

1. `gc_straggler`. DELETE requests are not fenced by the run. With two processes
   on one run id the slower one may delete a chunk that was committed again after
   the run was completed. The positive results therefore assume one collector
   per run (`OneCollectorPerRun`).
2. `gc_after_repair`. `replication_runs_layout_fk` is `ON DELETE RESTRICT` and
   rows of `replication_runs` are never deleted, so a layout that was ever
   repaired cannot be swept. After repair, retirement and GC apply the run
   fails in its last request, each time it is resumed, and stays open; an open
   run blocks pushes, repairs and lifecycle.

## Proofs

All theorems hold for every value of the constants that satisfies the assumptions in
the modules (`PlacementAssumption`, `RepositoryAssumption`, `StoreAssumption`,
`LifecycleAssumption`, `ClientAssumption`, `PipelineAssumption`, `PullAssumption`,
`StorageNodeAssumption`). Of these, `ClientAssumption` says that the calls are among
`Requests`, those the client's methods can build; `PipelineAssumption` that `"none"`, which
an idle worker has for a chunk, is not one; `PullAssumption` and
`StorageNodeAssumption` that there are finitely many workers, nodes and chunks.

| Theorem | States | Needs |
| --- | --- | --- |
| `SelectCount` | placement selects exactly rf nodes of a snapshot that is not smaller | |
| `SelectStable` | a snapshot without a node that was not selected gives the same placement | |
| `TypeCorrect` | `Spec => []TypeOK` | |
| `BarrierHolds` | `Spec => []OperationBarrier`, for any number of processes | |
| `ReferentialIntegrityHolds` | `Spec => []ReferentialIntegrity` | |
| `FinalizeAgreementHolds` | `Spec => []FinalizeAgreement` | |
| `DurabilityInvariantHolds` | the inductive invariant of the store | `OneCollectorPerRun` |
| `CommittedReplicasSafe` | `Spec => []CommittedReplicasIntact` | `OneCollectorPerRun` |
| `PendingDeletesSafe` | `Spec => []PendingDeletesAreGarbage` | `OneCollectorPerRun` |
| `CollectsOnlyGarbageHolds` | `Spec => CollectsOnlyGarbage` | `OneCollectorPerRun` |
| `LiveVersionRestorableHolds` | `Spec => []LiveVersionRestorable` | `OneCollectorPerRun` |
| `CollectsAllGarbageHolds` | `Spec => CollectsAllGarbage` | |
| `RepairRestoresHolds` | `Spec => RepairRestores` | `OneCollectorPerRun` |
| `LifecycleTypesHold` | `Spec => []LifecycleTypeOK` | |
| `ProtectedRestorableHolds` | `Spec => []ProtectedRestorable` | |
| `RetirementsExplainedHolds` | `Spec => []RetirementsExplained` | |
| `LifecycleImplementsRetention` | `Spec => RetentionPromise`, the refinement of `Retention` | |
| `ServiceTypes` | `Spec => []ServiceTypeOK` | |
| `AnswersAcceptedHolds` | `Spec => []AnswersAccepted` | |
| `GrantsKeptHolds` | `Spec => []GrantsKept` | |
| `CompletionsAgreeHolds` | `Spec => []CompletionsAgree` | |
| `RetriesGrantedHolds` | `Spec => []RetriesGranted` | |
| `StoreTypeHolds` | `Spec => []StoreTypeOK` | |
| `AnswersUnderstoodHolds` | `Spec => []AnswersUnderstood` | |
| `InventoryCompleteHolds` | `Spec => []InventoryComplete` | |
| `AckedStoredHolds` | `Spec => []AckedStored` | |
| `NoTornChunkHolds` | `Spec => []NoTornChunk` | |
| `PipelineTypeHolds` | `Spec => []PipelineTypeOK` | |
| `UploadsDisjointHolds` | `Spec => []UploadsDisjoint` | |
| `RootCauseHolds` | `Spec => []RootCauseReported` | |
| `TransferPromiseHolds` | `Spec => TransferPromise`, the refinement of `Transfer` | |
| `PullTypeHolds` | `Spec => []PullTypeOK` | |
| `PartialIsPrefixHolds` | `Spec => []PartialIsPrefix` | |
| `WindowBoundedHolds` | `Spec => []WindowBounded` | |
| `FailureExplainedHolds` | `Spec => []FailureExplained` | |
| `AtomicPublishHolds` | `Spec => AtomicPublish`, the refinement of `Destination` | |

`OneCollectorPerRun` says that no two gc processes share a run; finding 1 is what
happens without it.

**Repository steps.** Both specifications are first reduced to the transactions of
the repository (`RepositoryStep`, `NextIsRepositoryStep`, `LifecycleIsRepositoryStep`), so
that a fact about the tables is proved once per transaction and not once per
process action. `BarrierHolds` and `ReferentialIntegrityHolds` need nothing else.

**Durability.** `CommittedReplicasIntact` is not inductive: a DELETE destroys it
unless what the collector holds is garbage, and a finalize establishes it only
if the files are there. So `DurabilityInvariant` adds that a process of the
collector is at work only while its run is open (`CollectorHoldsRun`), that its
classification is valid (`PendingDeletesAreGarbage`), that the session and
finalization records agree (`SessionRecords`) and that, while a session is open,
what a push has verified is on its node unless a disk lost it (`PushProgress`).
The step that matters is the DELETE: its run is open, so by the barrier no
session is; then no push has anything verified that counts, and the chunk is in no
live layout; a commit in between is impossible because it needs an open
session. Liveness of layouts only shrinks while a run is open
(`LiveChunksShrink`), which keeps the classification valid; the sweep keeps live
layouts and the locations of their chunks (`CommittedLayoutLive`).
`LiveVersionRestorable` follows with two more facts, that every version was
committed by some session (`VersionsCommitted`) and that a placement is at least as
large as the replication factor (`PlacementsLargeEnough`): then placement selected RF
nodes (`SelectCount`), and if no node has the chunk all of them lost it.

**Sweep.** `SweepProgress` says where the garbage of an open run is, that is, the dead chunks
on its target that nobody wrote since the run began: beyond the cursor of the
collector that works on it, or in the page it has in hand. A chunk leaves the page only by its
DELETE or because the classification keeps it, and a page ends where the next begins, which
is a count of the chunks below a cursor (`InventoryBelow`). So the last page leaves none. It
holds for each collector by itself, hence without `OneCollectorPerRun`.

**Repair.** By `RepairProgress` a chunk of the layout that the repairer has passed, and for
which it has no task left, is on every node of its placement or lost there since it started.
Only a collector's DELETE could take it away otherwise, and that needs an open GC run
beside the open replication run, which the barrier excludes for a collector that is alone
on its run: this is what `OneCollectorPerRun` is for.

**Finalize.** `FinalizeAgreement` is made inductive by what an acknowledgement was told
(`AckRecords`): the session is committed to the version of that layout, and as long
as the version is not retired the finalization record still names the layout.

**Placement.** The proofs count by the sets of nodes that outrank a node. These are
finite and strictly grow along the ranking, so a set of nodes has a first one that
is not selected, by well-foundedness of the strict subset order on finite sets.

**Lifecycle.** `ProtectedRestorable` needs that every version that is not retired, protected
or not, has a layout with a location of each chunk (`CandidatesRestorable`): a pin may
come any time. The refinement's hard part is `KeepAtLeast`: the first version of a partition
whose rank exceeds `keep_last_n` has `keep_last_n` versions before it, which all
stay (`EnoughRankUpTo`).

**Metadata client.** A handled request, in time or late, is one repository step
(`ServiceStep`), so `ServiceInv` and `SessionsValid`, what the constructor of
`UploadSession` demands of every record, are kept transaction by transaction. Each method then
accepts each answer its handler can give in such a state, and only `complete_gc_run` lets an
exception through (`AnswerInv`). The others are about all the requests that were ever
granted. `GrantInv` says for each of them what the tables keep (`Promise`): more than
`GrantsKept` asks, namely what a retry of the same request depends on, so that
`RetriesGranted` is part of the invariant and each transaction is shown to keep the promises
made before it and to make its own.

**Storage node.** All steps of all handlers come down to five things that can happen to the
file of one chunk (`FileStep`): a put's rename, a put that verified what is there, a
removal, a corruption, and nothing. `FilesInv` puts the two properties together with the
types. What makes the second of the five safe is `since`: a handler acknowledges a
file it has read only if nobody took it since it looked. For the answers and the inventory,
`NodeInv` adds what each handler may answer (`AnswersOK`) and how far the walk of the directory
has come (`ScanOK`): what was there throughout and is visited is found. A page has the first
of what is found beyond the cursor (`PageIsFirst`), so that what it lacks is beyond the
next cursor, or there is none left.

**Push.** `RootCauseReported` rests on `CauseInv`: a cancelled queue, and a thread that is
about to cancel it, have a failure on record, and the queue closes without one only
after the producer's last push. So nobody meets a cancelled queue without a failure
that came first. For `TransferPromise`, `AccountInv` says where each chunk of the file is
as long as nothing failed: not yet recorded, staged, batched, queued, with a worker, or
stored on all its nodes. `EndInv` empties these places one after the other: when the producer
closes the queue nothing is unrecorded, staged or batched, when a worker leaves nothing is
queued, and `Join` waits for all workers; what is left is stored (`AllStored`). `TaskInv` is
the part of a worker (what it has stored of its chunk and what it still has to),
`SourceInv` says that only chunks of the file are on their way. `UploadsDisjoint` counts
places; `HeldInv` says the same as disjoint sets without repetitions, all of chunks that the
producer has `seen`, which is why a chunk that repeats does not enter again.

**Pull.** The invariant has a part in memory (`WindowInv`: the chunks that are fetched,
ready or being written are different ones of `write .. write + Window - 1`) and a part
on disk (`DiskInv`, `OpenInv`: every partial file is a prefix of its version, no two have
one inode, the destination is whole, and the open file ends where the next write begins
unless it is complete). They meet in the write: the writer has chunk `write` and the file
has exactly that many, so what is written extends the prefix. `WindowBounded` then counts an
injection of chunks into the window. For `AtomicPublish` a file that is not whole is not the
destination (`NotPublished`), so writing and truncating it is invisible; a file that the
last kill left under both names is whole, and the resuming pull neither writes nor
truncates it. `publish_partial` by `link` needs an absent destination, whatever
`validate_destination` saw. `PullAssumption` includes that an inode is free whenever a
partial file is created: without one `open` fails, which is `~restorable(plan)`'s exit
in all but name. `FailureExplained` rests on `CauseInv`: the pool has a client for every node
that had a chunk all the time (`PlanInv`), the sources a worker has passed over do not serve
its chunk (`TriesInv`), and while the writer still takes chunks nobody has cancelled without
a failure on record (`CancelInv`), so that "cancelled" is never the first. That the list of a
chunk's sources has all of them needs that a finite set of numbers can be listed in order
(`Listing`), by a smallest one that could not, and that such a list misses none
(`ByNodeId`, by the pigeonhole principle).

All invariants and action properties of the passing runs, and all refinements, are proved.
Only model-checked: `GcRunCompletes`, `PushEnds` and `PullEnds`, which are liveness under
fairness and out of the prover's reach. The two violations are not theorems either: a run
shows each by a behaviour. That `pages` of `StorageNode` always has a page is not stated; a
safety property does not need it, and TLC takes the step in every reachable walk.

## Not modelled

* The m9 (lifecycle) routes and client methods as requests. What they call is in
  `Lifecycle`; the routes turn its outcomes into answers, which is not modelled.
* Malformed requests, the encoding of requests and answers, sockets, and the body
  limit of 8 MiB, which the restore plan of a large version may exceed.
* Experiment runs, which nothing else reads.
* The chunkers. Their result is the sequence `Reads` and `Rest`; that FastCDC cuts
  within its bounds is a matter of arithmetic on bytes, without interleaving.
* Hashing, identifiers and canonical descriptors: an id is the thing it names.
* Two pulls of one version to one destination. They share the partial file, and
  nothing excludes them; a torn file can be published. No document promises otherwise.
* A power failure that undoes a rename of a storage node which did not sync the directory:
  for the system that is a disk that lost a replica, `LoseReplica`.
* The counters of a dry run of GC, computed by queries of their own.
* The progress of a push, a repair or a lifecycle run as a whole. An abandoned session and a
  replication run whose target is disabled block GC until an operator comes, and
  nothing in the code schedules one.
* The demo and the benchmarks, which drive the command line tool.

## Plan

The modules were written in this order; 1 to 9 exist, the rest is left.

1. `Placement`, `MetadataRepository`, `ArtifactStore` with push, gc and repair.
2. `Retention`, `Lifecycle`.
3. Proofs of the store's safety, `ArtifactStore_proofs`.
4. Proofs of placement and lifecycle, `Placement_proofs`, `Lifecycle_proofs`.
5. `Transfer`, `PushPipeline` and the refinement's proof, `PushPipeline_proofs`.
6. `MetadataService`, `MetadataClient` over `HttpResponse`.
7. `StorageNode` and `StorageNode_proofs`.
8. `Destination`, `Pull` and the refinement's proof, `Pull_proofs`.
9. Proofs of what the runs had only checked: the sweep, the repair, the metadata client
   (`MetadataClient_proofs`), the inventory, the causes of a failed pull.
10. `StorageNode` as an implementation of the set `bytes` of `ArtifactStore`, and the
    storage requests of `ArtifactStore` with lost and late answers.
11. The m9 routes in `MetadataService`, with lifecycle runs that are retried.
12. Sweep counters of a dry run against the rows an apply run deletes, over small tables.
13. FixedSize and FastCDC cut points as functions against a reference definition.
