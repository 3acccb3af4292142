---------------------------- MODULE PushPipeline ----------------------------
(***************************************************************************)
(* The threads of one push (push_engine.cpp): the thread that reads the    *)
(* file, stages chunks, negotiates batches and fills a bounded queue, and  *)
(* the workers that empty it. A step is what a thread does while it holds  *)
(* the mutex of the queue or of the failure record, or one request.        *)
(***************************************************************************)
EXTENDS Naturals, Sequences, FiniteSets

CONSTANTS Workers,     \* worker threads
          Producer,    \* the thread that called push
          Chunks, Nodes,
          Desired,     \* select_replica_nodes of a chunk, in its order
          Reads,       \* the chunks that each read of the file completes
          Rest,        \* the chunks the chunker emits at the end of the file
          Capacity,    \* kQueueCapacity
          BatchSize    \* kNegotiationBatchSize

Elems(s) == {s[i] : i \in DOMAIN s}

ASSUME PipelineAssumption ==
    /\ Producer \notin Workers
    /\ IsFiniteSet(Workers) /\ Workers # {}
    /\ "none" \notin Chunks            \* the chunk of NoTask
    /\ Desired \in [Chunks -> Seq(Nodes)]
    /\ \A c \in Chunks : \A i, j \in DOMAIN Desired[c] : Desired[c][i] = Desired[c][j] => i = j
    /\ Reads \in Seq(Seq(Chunks))
    /\ Rest \in Seq(Chunks)
    /\ Capacity \in Nat \ {0}
    /\ BatchSize \in Nat \ {0}

VARIABLES
    items, closed, cancelled,   \* BoundedQueue
    parked,                     \* threads asleep on not_full_ (the producer) or not_empty_ (workers)
    failure,                    \* first_failure
    pc,                         \* where each thread is
    task,                       \* the chunk and the nodes a worker is still busy with
    reads,                      \* the part of the file that was not read
    pending,                    \* chunks the chunker emitted that were not recorded
    seen, staging, batch,       \* seen_chunk_ids; staging; the batch that is being enqueued
    stored,                     \* history: replicas that were verified, or written and registered
    outcome                     \* what push returned

queueVars == <<items, closed, cancelled>>
fileVars  == <<reads, pending, seen, staging, batch>>
vars == <<queueVars, parked, failure, pc, task, fileVars, stored, outcome>>

NoTask == [chunk |-> "none", left |-> <<>>]
Tasks  == [chunk : Chunks, left : Seq(Nodes)]
Failures == {"upload", "source", "service", "cancelled"}

-----------------------------------------------------------------------------
(* Pieces of the threads *)

At(t, where) == pc[t] = where /\ t \notin parked
Goto(t, where) == pc' = [pc EXCEPT ![t] = where]

notify_not_full == parked' = parked \ {Producer}
notify_not_empty == IF parked \cap Workers = {} THEN UNCHANGED parked
                    ELSE \E w \in parked \cap Workers : parked' = parked \ {w}
notify_everyone == parked' = {}

(* Mutant: the last exception wins. *)
record_failure_last(what) == failure' = what

record_failure(what) == failure' = IF failure = "none" THEN what ELSE failure

close == closed' = TRUE /\ notify_everyone /\ UNCHANGED <<items, cancelled>>

(* Mutant: cancel wakes the workers only. *)
cancel_workers_only == /\ cancelled' = TRUE /\ closed' = TRUE /\ items' = <<>>
                       /\ parked' = parked \ Workers

cancel == /\ cancelled' = TRUE /\ closed' = TRUE /\ items' = <<>>
          /\ notify_everyone

\* An exception in the producer is recorded before the queue is cancelled.
Throws(what) == /\ record_failure(what)
                /\ Goto(Producer, "cancel")
                /\ UNCHANGED <<queueVars, parked, task, fileVars, stored, outcome>>

-----------------------------------------------------------------------------
(* The producer *)

\* Threads start one by one; the constructor of a thread may throw.
Spawn(w) ==
    /\ At(Producer, "spawn") /\ pc[w] = "unborn"
    /\ pc' = [pc EXCEPT ![w] = "pop"]
    /\ UNCHANGED <<queueVars, parked, failure, task, fileVars, stored, outcome>>

SpawnEnds ==
    /\ At(Producer, "spawn")
    /\ \/ /\ \A w \in Workers : pc[w] # "unborn"
          /\ Goto(Producer, "read")
          /\ UNCHANGED <<queueVars, parked, failure, task, fileVars, stored, outcome>>
       \/ (\E w \in Workers : pc[w] = "unborn") /\ Throws("source")

\* The loop over the file looks at cancelled() before each read.
Read ==
    /\ At(Producer, "read")
    /\ \/ cancelled /\ reads # <<>> /\ Throws("cancelled")
       \/ ~cancelled /\ reads # <<>> /\ Throws("source")
       \/ /\ ~cancelled \/ reads = <<>>
          /\ IF reads # <<>>
             THEN reads' = Tail(reads) /\ pending' = Head(reads) /\ Goto(Producer, "record")
             ELSE UNCHANGED reads /\ pending' = Rest /\ Goto(Producer, "finish")
          /\ UNCHANGED <<queueVars, parked, failure, task, seen, staging, batch, stored, outcome>>

(* Mutant: no seen_chunk_ids. *)
record_chunk_unseen(c) ==
    LET staged == Append(staging, c)
        full   == Len(staged) = BatchSize
    IN  /\ seen' = seen \cup {c}
        /\ staging' = IF full THEN <<>> ELSE staged
        /\ batch' = IF full THEN staged ELSE <<>>

\* record_chunk stages a chunk that was not seen; a full staging area becomes a batch.
record_chunk(c) ==
    LET staged == IF c \in seen THEN staging ELSE Append(staging, c)
        full   == Len(staged) = BatchSize
    IN  /\ seen' = seen \cup {c}
        /\ staging' = IF full THEN <<>> ELSE staged
        /\ batch' = IF full THEN staged ELSE <<>>

Negotiating == batch # <<>>

Record ==
    /\ At(Producer, "record") \/ At(Producer, "finish")
    /\ ~Negotiating
    /\ pending # <<>>
    /\ record_chunk(Head(pending))
    /\ pending' = Tail(pending)
    /\ UNCHANGED <<queueVars, parked, failure, pc, task, reads, stored, outcome>>

Recorded ==
    /\ At(Producer, "record")
    /\ ~Negotiating /\ pending = <<>>
    /\ Goto(Producer, "read")
    /\ UNCHANGED <<queueVars, parked, failure, task, fileVars, stored, outcome>>

\* After the last chunk what is staged is negotiated, then the queue is closed.
Flush ==
    /\ At(Producer, "finish")
    /\ ~Negotiating /\ pending = <<>> /\ staging # <<>>
    /\ batch' = staging /\ staging' = <<>>
    /\ UNCHANGED <<queueVars, parked, failure, pc, task, reads, pending, seen, stored, outcome>>

Close ==
    /\ At(Producer, "finish")
    /\ ~Negotiating /\ pending = <<>> /\ staging = <<>>
    /\ close
    /\ Goto(Producer, "join")
    /\ UNCHANGED <<failure, task, fileVars, stored, outcome>>

(* Mutant: one item too many. *)
has_room_inclusive == Len(items) <= Capacity

has_room == Len(items) < Capacity

\* negotiate_chunks of the whole batch comes first and may fail; then tasks are pushed one by one.
NegotiateFails ==
    /\ At(Producer, "record") \/ At(Producer, "finish")
    /\ Negotiating
    /\ Throws("service")

push ==
    /\ At(Producer, "record") \/ At(Producer, "finish")
    /\ Negotiating
    /\ \/ (cancelled \/ closed) /\ Throws("cancelled")
       \/ /\ ~cancelled /\ ~closed /\ has_room
          /\ items' = Append(items, Head(batch))
          /\ batch' = Tail(batch)
          /\ notify_not_empty
          /\ UNCHANGED <<closed, cancelled, failure, pc, task, reads, pending, seen, staging,
                         stored, outcome>>
       \/ /\ ~cancelled /\ ~closed /\ ~has_room
          /\ parked' = parked \cup {Producer}
          /\ UNCHANGED <<queueVars, failure, pc, task, fileVars, stored, outcome>>

Cancel ==
    /\ At(Producer, "cancel")
    /\ cancel
    /\ Goto(Producer, "join")
    /\ UNCHANGED <<failure, task, fileVars, stored, outcome>>

\* WorkerJoinGuard, then the first failure is rethrown or the layout returned.
Join ==
    /\ At(Producer, "join")
    /\ \A w \in Workers : pc[w] \in {"unborn", "gone"}
    /\ outcome' = IF failure = "none" THEN "prepared" ELSE "failed"
    /\ Goto(Producer, "gone")
    /\ UNCHANGED <<queueVars, parked, failure, task, fileVars, stored>>

-----------------------------------------------------------------------------
(* Workers *)

pop(w) ==
    /\ At(w, "pop")
    /\ items # <<>>
    /\ items' = Tail(items)
    /\ task' = [task EXCEPT ![w] = [chunk |-> Head(items), left |-> Desired[Head(items)]]]
    /\ notify_not_full
    /\ Goto(w, "work")
    /\ UNCHANGED <<closed, cancelled, failure, fileVars, stored, outcome>>

PopWaits(w) ==
    /\ At(w, "pop")
    /\ items = <<>> /\ ~closed /\ ~cancelled
    /\ parked' = parked \cup {w}
    /\ UNCHANGED <<queueVars, failure, pc, task, fileVars, stored, outcome>>

(* Mutant: a worker leaves as soon as the queue is closed. *)
PopEnds_at_close(w) ==
    /\ At(w, "pop")
    /\ closed \/ cancelled
    /\ Goto(w, "gone")
    /\ UNCHANGED <<queueVars, parked, failure, task, fileVars, stored, outcome>>

PopEnds(w) ==
    /\ At(w, "pop")
    /\ items = <<>> /\ (closed \/ cancelled)
    /\ Goto(w, "gone")
    /\ UNCHANGED <<queueVars, parked, failure, task, fileVars, stored, outcome>>

\* process_upload_task takes the desired nodes of a chunk in turn.
Upload(w) ==
    /\ At(w, "work")
    /\ task[w].left # <<>>
    /\ stored' = stored \cup {<<task[w].chunk, Head(task[w].left)>>}
    /\ task' = [task EXCEPT ![w].left = Tail(@)]
    /\ UNCHANGED <<queueVars, parked, failure, pc, fileVars, outcome>>

UploadFails(w) ==
    /\ At(w, "work")
    /\ task[w].left # <<>>
    /\ record_failure("upload")
    /\ Goto(w, "cancel")
    /\ UNCHANGED <<queueVars, parked, task, fileVars, stored, outcome>>

Uploaded(w) ==
    /\ At(w, "work")
    /\ task[w].left = <<>>
    /\ task' = [task EXCEPT ![w] = NoTask]
    /\ Goto(w, "pop")
    /\ UNCHANGED <<queueVars, parked, failure, fileVars, stored, outcome>>

WorkerCancels(w) ==
    /\ At(w, "cancel")
    /\ cancel
    /\ Goto(w, "gone")
    /\ UNCHANGED <<failure, task, fileVars, stored, outcome>>

-----------------------------------------------------------------------------
Init ==
    /\ items = <<>> /\ closed = FALSE /\ cancelled = FALSE
    /\ parked = {}
    /\ failure = "none"
    /\ pc = [t \in Workers \cup {Producer} |-> IF t = Producer THEN "spawn" ELSE "unborn"]
    /\ task = [w \in Workers |-> NoTask]
    /\ reads = Reads /\ pending = <<>> /\ seen = {} /\ staging = <<>> /\ batch = <<>>
    /\ stored = {}
    /\ outcome = "running"

ProducerStep ==
    \/ \E w \in Workers : Spawn(w)
    \/ SpawnEnds \/ Read \/ Record \/ Recorded \/ Flush \/ Close \/ NegotiateFails \/ push
    \/ Cancel \/ Join

WorkerStep(w) ==
    \/ pop(w) \/ PopWaits(w) \/ PopEnds(w)
    \/ Upload(w) \/ UploadFails(w) \/ Uploaded(w) \/ WorkerCancels(w)

Next == ProducerStep \/ (\E w \in Workers : WorkerStep(w))

Spec == Init /\ [][Next]_vars

\* The operating system runs every thread; a request ends by an answer or a timeout.
FairSpec == Spec /\ WF_vars(ProducerStep) /\ \A w \in Workers : WF_vars(WorkerStep(w))
-----------------------------------------------------------------------------
(* Properties *)

FileChunks == Elems(Rest) \cup UNION {Elems(Reads[i]) : i \in DOMAIN Reads}
FileReplicas == UNION {{c} \X Elems(Desired[c]) : c \in FileChunks}

ProducerPlaces == {"spawn", "read", "record", "finish", "cancel", "join", "gone"}
WorkerPlaces == {"unborn", "pop", "work", "cancel", "gone"}

\* Types of the state of push, its queue and its threads.
PipelineTypeOK ==
    /\ items \in Seq(Chunks) /\ Len(items) <= Capacity
    /\ closed \in BOOLEAN /\ cancelled \in BOOLEAN
    /\ parked \subseteq Workers \cup {Producer}
    /\ failure \in Failures \cup {"none"}
    /\ pc \in [Workers \cup {Producer} -> ProducerPlaces \cup WorkerPlaces]
    /\ pc[Producer] \in ProducerPlaces
    /\ \A w \in Workers : pc[w] \in WorkerPlaces
    /\ task \in [Workers -> Tasks \cup {NoTask}]
    /\ reads \in Seq(Seq(Chunks)) /\ pending \in Seq(Chunks)
    /\ seen \subseteq Chunks
    /\ staging \in Seq(Chunks) /\ batch \in Seq(Chunks)
    /\ stored \subseteq Chunks \X Nodes
    /\ outcome \in {"running", "prepared", "failed"}

\* What push reports is why it failed, and not that another thread noticed: a worker records its
\* failure before it cancels the queue, so "push cancelled" never is the first failure.
RootCauseReported == failure # "cancelled"

\* The chunks that are staged, batched, queued or with a worker are all different: no chunk is
\* uploaded twice, whatever repetitions the file has and however the threads interleave.
UploadsDisjoint ==
    LET held(c) == Cardinality({i \in DOMAIN staging : staging[i] = c})
                 + Cardinality({i \in DOMAIN batch : batch[i] = c})
                 + Cardinality({i \in DOMAIN items : items[i] = c})
                 + Cardinality({w \in Workers : task[w].chunk = c})
    IN  \A c \in Chunks : held(c) <= 1

\* push keeps the promise of Transfer: a returned layout has all its replicas stored, and no
\* worker sends a request after push has returned.
TransferOf == INSTANCE Transfer WITH Replicas <- FileReplicas
TransferPromise == TransferOf!Spec

\* No wake-up is lost: push returns, with the layout or with a failure.
PushEnds == <>(outcome # "running")
=============================================================================
