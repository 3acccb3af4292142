-------------------------------- MODULE Pull --------------------------------
(***************************************************************************)
(* aistore pull (run_pull and PullEngine::pull): the thread that called    *)
(* pull, its download workers and the files.  The pull may be killed at    *)
(* any point and started again, for the same version or another; the files *)
(* survive.  Other pulls to the same destination, of other versions, have  *)
(* partial files of their own: only what they publish is seen here.        *)
(* A step is what a thread does while it holds the mutex, one request, or  *)
(* one file operation.  A chunk is two blocks, so that a write that was    *)
(* cut short leaves a torn chunk.                                          *)
(***************************************************************************)
EXTENDS Integers, Sequences, FiniteSets

CONSTANTS Workers,       \* kWorkerCount
          Main,          \* the thread that called pull
          Chunks,        \* Chunks[v]: the number of chunks of version v
          Window,        \* kWindowCapacity
          Nodes,         \* storage nodes, numbered in the order of their ids
          Located,       \* <<version, chunk index, node>>: available locations
          LateReplicas,  \* locations that come and go
          Healthy,       \* replicas that a GET returns; a GET of others may fail
          Files,         \* inodes
          NoFile

Versions == DOMAIN Chunks
ChunkIndexes(v) == 0..(Chunks[v] - 1)
Replicas == UNION {{v} \X ChunkIndexes(v) \X Nodes : v \in Versions}

ASSUME PullAssumption ==
    /\ Main \notin Workers /\ IsFiniteSet(Workers)
    /\ Chunks \in [Versions -> Nat \ {0}] /\ Window \in Nat \ {0}
    /\ Nodes \subseteq Nat /\ IsFiniteSet(Nodes)
    /\ Located \cup LateReplicas \cup Healthy \subseteq Replicas
    /\ NoFile \notin Files    \* and there are inodes enough for the files with a name:
    /\ \A p \in [Versions -> Files \cup {NoFile}], d \in Files \cup {NoFile} :
          NoFile \in {p[v] : v \in Versions} => Files \ ({p[v] : v \in Versions} \cup {d}) # {}

VARIABLES
    version, overwrite,   \* the PullRequest
    partial,              \* partial[v]: <destination>.aistore.<v>.part
    dest,                 \* the destination
    data,                 \* data[f]: the blocks of file f
    pool, sources,        \* nodes with a client; the sources of each chunk
    file, size,           \* the descriptor of the partial file; its size when it was opened
    write, claim,         \* next_write_index, next_claim_index
    ready, taken,         \* chunks in ready; the chunk the writer took
    task,                 \* the chunk a worker downloads and the sources left to try
    failure, cancelled,   \* first_failure, cancelled
    pc, wpc,              \* where the main thread and the workers are
    parked                \* threads asleep on the condition variable

requestVars == <<version, overwrite>>
fileVars == <<partial, dest, data>>
planVars == <<pool, sources, file, size>>
windowVars == <<write, claim, ready, taken, task>>
failVars == <<failure, cancelled>>
threadVars == <<pc, wpc, parked>>
memory == <<planVars, windowVars, failVars>>
vars == <<requestVars, fileVars, memory, threadVars>>

NoTask == [chunk |-> -1, left |-> <<>>]

Init ==
    /\ version \in Versions /\ overwrite \in BOOLEAN
    /\ partial = [v \in Versions |-> NoFile] /\ dest = NoFile
    /\ data = [f \in Files |-> <<>>]
    /\ pool = {} /\ sources = <<>> /\ file = NoFile /\ size = 0
    /\ write = 0 /\ claim = 0 /\ ready = {} /\ taken = -1
    /\ task = [w \in Workers |-> NoTask]
    /\ failure = "none" /\ cancelled = FALSE
    /\ pc = "idle" /\ wpc = [w \in Workers |-> "unborn"] /\ parked = {}

-----------------------------------------------------------------------------
At(where) == pc = where /\ Main \notin parked
WorkerAt(w, where) == wpc[w] = where /\ w \notin parked
Goto(where) == pc' = where
WorkerGoto(w, where) == wpc' = [wpc EXCEPT ![w] = where]

park(t) == parked' = parked \cup {t}
notify_all == parked' = {}

record_failure(what) == failure' = IF failure = "none" THEN what ELSE failure

(* Mutant: nobody is woken. *)
cancel_download_quiet == cancelled' = TRUE /\ UNCHANGED parked

cancel_download == cancelled' = TRUE /\ notify_all

\* The process ends: its descriptors are closed and its memory is gone.
Exit ==
    /\ pool' = {} /\ sources' = <<>> /\ file' = NoFile /\ size' = 0
    /\ write' = 0 /\ claim' = 0 /\ ready' = {} /\ taken' = -1
    /\ task' = [w \in Workers |-> NoTask]
    /\ failure' = "none" /\ cancelled' = FALSE
    /\ pc' = "idle" /\ wpc' = [w \in Workers |-> "unborn"] /\ parked' = {}
    /\ UNCHANGED requestVars

-----------------------------------------------------------------------------
(* Plans.  The command makes a client for every node of a first plan; the  *)
(* engine asks for the plan again.                                         *)

\* The nodes of a set in the order of their ids, and the nodes of a list.
by_node_id(S) == CHOOSE s \in [1..Cardinality(S) -> S] : \A i, j \in DOMAIN s : i < j => s[i] < s[j]
nodes_of(s) == {s[i] : i \in DOMAIN s}

\* A plan is for the locations at the time, and lists the sources of a chunk by node id.
Plans(v) ==
    LET plan(L) == [i \in ChunkIndexes(v) |-> by_node_id({n \in Nodes : <<v, i, n>> \in L})]
    IN  {plan(Located \cup L) : L \in SUBSET LateReplicas}
restorable(plan) == \A i \in DOMAIN plan : plan[i] # <<>>

MakePool ==
    /\ pc = "idle"
    /\ version' \in Versions /\ overwrite' \in BOOLEAN
    /\ \E plan \in Plans(version') :
          /\ restorable(plan)
          /\ pool' = UNION {nodes_of(plan[i]) : i \in DOMAIN plan}
    /\ Goto("validate")
    /\ UNCHANGED <<fileVars, sources, file, size, windowVars, failVars, wpc, parked>>

validate_destination ==
    /\ pc = "validate" /\ UNCHANGED fileVars
    /\ \/ dest # NoFile /\ ~overwrite /\ Exit
       \/ /\ dest = NoFile \/ overwrite
          /\ Goto("plan") /\ UNCHANGED <<requestVars, memory, wpc, parked>>

\* Files with a name, and the one that is open.
in_use == {partial[v] : v \in Versions} \cup {dest, file}

\* The engine's plan, then open_partial_file and its size; a file that is too long is emptied.
open_partial_file ==
    LET found == partial[version] # NoFile
        f == IF found THEN partial[version] ELSE CHOOSE g \in Files : g \notin in_use
        kept == IF found /\ Len(data[f]) <= 2 * Chunks[version] THEN data[f] ELSE <<>>
    IN  /\ pc = "plan"
        /\ \E plan \in Plans(version) :
           \/ ~restorable(plan) /\ Exit /\ UNCHANGED fileVars
           \/ /\ restorable(plan) /\ sources' = plan
              /\ partial' = [partial EXCEPT ![version] = f] /\ data' = [data EXCEPT ![f] = kept]
              /\ file' = f /\ size' = Len(kept)
              /\ Goto("resume")
              /\ UNCHANGED <<requestVars, dest, pool, windowVars, failVars, wpc, parked>>

-----------------------------------------------------------------------------
(* The partial file *)

Blocks(v) == [b \in 1..(2 * Chunks[v]) |-> <<v, b>>]
Zero == <<"zero", 0>>

chunk_bytes_match_id(i) == \A b \in {2 * i + 1, 2 * i + 2} : data[file][b] = <<version, b>>

truncate_file(n) == data' = [data EXCEPT ![file] = SubSeq(@, 1, n)]

\* The blocks of chunk i are written, or only the first n; a gap before them is filled with zeros.
pwrite(i, n) ==
    data' = [data EXCEPT ![file] = [b \in 1..(IF 2 * i + n > Len(@) THEN 2 * i + n ELSE Len(@)) |->
                IF b \in (2 * i + 1)..(2 * i + n) THEN <<version, b>>
                ELSE IF b <= Len(@) THEN @[b] ELSE Zero]]

(* Mutant: a torn chunk is taken for a whole one. *)
resume_from_partial_torn ==
    /\ pc = "resume"
    /\ \/ /\ size > 2 * write
          /\ write' = write + 1 /\ claim' = write + 1
          /\ Goto(IF write + 1 = Chunks[version] THEN "publish" ELSE "resume")
       \/ size <= 2 * write /\ Goto("spawn") /\ UNCHANGED <<write, claim>>
    /\ UNCHANGED <<requestVars, fileVars, planVars, ready, taken, task, failVars, wpc, parked>>

\* One chunk: kept if it is there and its hash is right, else cut off with all that follows.
resume_from_partial ==
    LET kept == size >= 2 * write + 2 /\ chunk_bytes_match_id(write) IN
    /\ pc = "resume"
    /\ \/ /\ kept
          /\ write' = write + 1 /\ claim' = write + 1
          /\ Goto(IF write + 1 = Chunks[version] THEN "publish" ELSE "resume")
          /\ UNCHANGED data
       \/ /\ ~kept
          /\ IF size > 2 * write THEN truncate_file(2 * write) ELSE UNCHANGED data
          /\ Goto("spawn") /\ UNCHANGED <<write, claim>>
    /\ UNCHANGED <<requestVars, partial, dest, planVars, ready, taken, task, failVars, wpc, parked>>

-----------------------------------------------------------------------------
(* The main thread *)

\* An exception is recorded, then the download is cancelled.
Throws(what) == record_failure(what) /\ Goto("cancel") /\ UNCHANGED <<cancelled, parked>>

\* The workers are started in turn; one that cannot be started ends the pull.
Spawn ==
    /\ pc = "spawn" /\ UNCHANGED <<requestVars, fileVars, planVars, windowVars>>
    /\ \E started \in SUBSET Workers :
          /\ wpc' = [w \in Workers |-> IF w \in started THEN "claim" ELSE "unborn"]
          /\ IF started = Workers THEN Goto("take") /\ UNCHANGED <<failVars, parked>>
             ELSE Throws("thread")

(* Mutant: any chunk that is ready is written. *)
next_ready_any == ready

\* The writer takes the chunks in order.
next_ready == {write} \cap ready

Take ==
    /\ At("take") /\ UNCHANGED <<requestVars, fileVars, planVars, write, claim, task, wpc>>
    /\ LET stopped == cancelled \/ failure # "none" IN
       \/ /\ write = Chunks[version] /\ Goto("cancel")
          /\ UNCHANGED <<ready, taken, failVars, parked>>
       \/ /\ write < Chunks[version] /\ stopped /\ Throws("cancelled") /\ UNCHANGED <<ready, taken>>
       \/ /\ write < Chunks[version] /\ ~stopped
          /\ \E i \in next_ready : taken' = i /\ ready' = ready \ {i}
          /\ Goto("write") /\ UNCHANGED <<failVars, parked>>
       \/ /\ write < Chunks[version] /\ ~stopped /\ next_ready = {}
          /\ park(Main) /\ UNCHANGED <<ready, taken, failVars, pc>>

\* write_all, then next_write_index; or the disk is full.
write_all ==
    /\ pc = "write" /\ UNCHANGED <<requestVars, partial, dest, planVars, claim, ready, task, wpc>>
    /\ \/ /\ pwrite(taken, 2) /\ write' = write + 1 /\ taken' = -1
          /\ notify_all /\ Goto("take") /\ UNCHANGED failVars
       \/ /\ \E n \in 0..1 : pwrite(taken, n)
          /\ Throws("disk") /\ UNCHANGED <<write, taken>>

Cancel ==
    /\ pc = "cancel" /\ cancel_download /\ Goto("join")
    /\ UNCHANGED <<requestVars, fileVars, planVars, windowVars, failure, wpc>>

\* WorkerJoinGuard; the first failure is thrown again.
Join ==
    /\ pc = "join" /\ \A w \in Workers : wpc[w] \in {"unborn", "gone"}
    /\ \/ failure # "none" /\ Exit
       \/ failure = "none" /\ Goto("publish") /\ UNCHANGED <<requestVars, memory, wpc, parked>>
    /\ UNCHANGED fileVars

\* A file without a name is gone when nobody has it open.
reclaim == data' = [f \in Files |-> IF f \in in_use' THEN data[f] ELSE <<>>]

(* Mutant: link is replaced by rename. *)
publish_partial_rename ==
    /\ pc = "publish"
    /\ dest' = partial[version] /\ partial' = [partial EXCEPT ![version] = NoFile] /\ Exit
    /\ reclaim

\* The object hash was taken over the same chunks.  fsync, close, rename and link may fail.
publish_partial ==
    /\ pc = "publish"
    /\ \/ Exit /\ UNCHANGED <<partial, dest>>
       \/ /\ overwrite        \* rename does nothing when both names are one file
          /\ dest' = partial[version]
          /\ partial' = IF dest = partial[version] THEN partial
                        ELSE [partial EXCEPT ![version] = NoFile]
          /\ Exit
       \/ /\ ~overwrite /\ dest = NoFile
          /\ dest' = partial[version]
          /\ Goto("unlink") /\ UNCHANGED <<requestVars, partial, memory, wpc, parked>>
    /\ reclaim

unlink ==
    /\ pc = "unlink"
    /\ partial' = [partial EXCEPT ![version] = NoFile] /\ Exit
    /\ UNCHANGED dest /\ reclaim

-----------------------------------------------------------------------------
(* download_worker_loop *)

(* Mutant: one chunk more. *)
may_claim_inclusive == claim <= write + Window

may_claim == claim < write + Window

Claim(w) ==
    /\ WorkerAt(w, "claim")
    /\ UNCHANGED <<requestVars, fileVars, planVars, write, ready, taken, failVars, pc>>
    /\ LET stopped == cancelled \/ failure # "none" \/ claim >= Chunks[version] IN
       \/ stopped /\ WorkerGoto(w, "gone") /\ UNCHANGED <<claim, task, parked>>
       \/ /\ ~stopped /\ may_claim
          /\ claim' = claim + 1
          /\ task' = [task EXCEPT ![w] = [chunk |-> claim, left |-> sources[claim]]]
          /\ WorkerGoto(w, "fetch") /\ UNCHANGED parked
       \/ ~stopped /\ ~may_claim /\ park(w) /\ UNCHANGED <<claim, task, wpc>>

WorkerThrows(w, what) == record_failure(what) /\ WorkerGoto(w, "cancel") /\ UNCHANGED task

(* Mutant: a failed source is the end of the attempt. *)
other_sources_none(t) == <<>>

other_sources(t) == Tail(t.left)

\* The next source: 404, an error status, a wrong digest and a lost connection go on to the
\* one after; no client for the node is an exception that the loop does not catch.
Fetch(w) ==
    /\ wpc[w] = "fetch"
    /\ UNCHANGED <<requestVars, fileVars, planVars, write, claim, ready, taken, cancelled, pc, parked>>
    /\ LET t == task[w] IN
       \/ t.left = <<>> /\ WorkerThrows(w, "missing")
       \/ t.left # <<>> /\ Head(t.left) \notin pool /\ WorkerThrows(w, "no_client")
       \/ /\ t.left # <<>> /\ Head(t.left) \in pool /\ UNCHANGED failure
          /\ \/ WorkerGoto(w, "deliver") /\ UNCHANGED task
             \/ /\ <<version, t.chunk, Head(t.left)>> \notin Healthy
                /\ task' = [task EXCEPT ![w].left = other_sources(t)] /\ UNCHANGED wpc

Deliver(w) ==
    /\ wpc[w] = "deliver"
    /\ ready' = ready \cup {task[w].chunk} /\ task' = [task EXCEPT ![w] = NoTask]
    /\ notify_all /\ WorkerGoto(w, "claim")
    /\ UNCHANGED <<requestVars, fileVars, planVars, write, claim, taken, failVars, pc>>

WorkerCancels(w) ==
    /\ wpc[w] = "cancel" /\ cancel_download /\ WorkerGoto(w, "gone")
    /\ UNCHANGED <<requestVars, fileVars, planVars, windowVars, failure, pc>>

-----------------------------------------------------------------------------
(* The process is killed, in the middle of a write perhaps; another pull   *)
(* publishes another version.                                              *)

Kill ==
    /\ pc # "idle" /\ Exit /\ UNCHANGED <<partial, dest>>
    /\ \/ UNCHANGED data
       \/ pc = "write" /\ \E n \in 1..2 : pwrite(taken, n)

PublishOther ==
    /\ UNCHANGED <<requestVars, partial, memory, threadVars>>
    /\ \E v \in Versions \ {version}, f \in Files \ in_use :
          /\ dest' = f
          /\ data' = [g \in Files |-> IF g = f THEN Blocks(v) ELSE IF g \in in_use' THEN data[g] ELSE <<>>]

MainStep ==
    \/ validate_destination \/ open_partial_file \/ resume_from_partial \/ Spawn
    \/ Take \/ write_all \/ Cancel \/ Join \/ publish_partial \/ unlink

WorkerStep(w) == Claim(w) \/ Fetch(w) \/ Deliver(w) \/ WorkerCancels(w)

Next == MakePool \/ MainStep \/ (\E w \in Workers : WorkerStep(w)) \/ Kill \/ PublishOther

Spec == Init /\ [][Next]_vars

\* The operating system runs every thread; a request ends by an answer or a timeout.
FairSpec == Spec /\ WF_vars(MainStep) /\ \A w \in Workers : WF_vars(WorkerStep(w))

-----------------------------------------------------------------------------
(* Properties *)

MainPlaces == {"idle", "validate", "plan", "resume", "spawn", "take", "write", "cancel", "join",
               "publish", "unlink"}
busy == {w \in Workers : task[w] # NoTask}

\* Types of the files and of what the pull has in memory.
PullTypeOK ==
    /\ version \in Versions /\ overwrite \in BOOLEAN
    /\ partial \in [Versions -> Files \cup {NoFile}] /\ dest \in Files \cup {NoFile}
    /\ \A f \in Files \ in_use : data[f] = <<>>
    /\ write \in 0..Chunks[version] /\ claim \in write..Chunks[version]
    /\ ready \subseteq write..(claim - 1) /\ taken \in {-1, write}
    /\ pc \in MainPlaces /\ parked \subseteq Workers \cup {Main}
    /\ file = NoFile <=> pc \in {"idle", "validate", "plan"}

\* "Interrupted download | Partial restore file retained; resume reuses verified prefix chunks"
\* (docs/failure-model.md): wherever a pull is killed, what it leaves is a prefix of the version,
\* and the pull that resumes downloads none of the chunks that were written in full.
PartialIsPrefix ==
    /\ \A v \in Versions : partial[v] # NoFile =>
          data[partial[v]] = SubSeq(Blocks(v), 1, Len(data[partial[v]]))
    /\ pc \in {"spawn", "take"} => Len(data[file]) = 2 * write

\* Memory is bounded: the chunks being fetched, waiting or being written are different chunks of
\* a window of kWindowCapacity, however slow the writer and whatever the workers do.
WindowBounded ==
    /\ Cardinality(ready) + Cardinality(busy) + (IF taken # -1 THEN 1 ELSE 0) <= Window
    /\ \A w \in busy : task[w].chunk \notin ready \cup {taken}
    /\ \A v, w \in busy : v # w => task[v].chunk # task[w].chunk

\* A pull gives up on a chunk only when no source of the plan serves it, or when a node appeared
\* between the two plans; and what it reports is the cause, not that another thread noticed.
FailureExplained ==
    LET serves(i, n) == <<version, i, n>> \in Healthy IN
    /\ failure = "missing" => \E i \in DOMAIN sources : ~\E n \in nodes_of(sources[i]) : serves(i, n)
    /\ failure = "no_client" => \E i \in DOMAIN sources : \E n \in nodes_of(sources[i]) \ pool :
                                   <<version, i, n>> \in LateReplicas
    /\ failure # "cancelled"

\* The version whose bytes the destination holds in full.
contents == IF dest = NoFile THEN "nothing"
            ELSE IF \E v \in Versions : data[dest] = Blocks(v)
                 THEN CHOOSE v \in Versions : data[dest] = Blocks(v)
            ELSE "torn"

\* "Resumable verified Pull with atomic publish" (README.md): the pull keeps the promise of
\* Destination, although the check of validate_destination is long past when it publishes, and
\* a pull may have been killed between link and unlink.
DestinationOf == INSTANCE Destination WITH
    published <- contents, overwriting <- overwrite, Nothing <- "nothing"
AtomicPublish == DestinationOf!Spec

\* No wake-up is lost: a pull that was started ends.
PullEnds == pc # "idle" ~> pc = "idle"
=============================================================================
