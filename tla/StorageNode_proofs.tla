-------------------------- MODULE StorageNode_proofs --------------------------
(***************************************************************************)
(* The properties of a storage node for any chunks, clients and page       *)
(* limit.  AckedStored and NoTornChunk are about the files and the history *)
(* of the puts: of the handlers their argument, FilesInv, needs only that  *)
(* one at work on a chunk names one.  The answers and the inventory need   *)
(* more, NodeInv: what each handler may answer, and what the walk of the   *)
(* directory has found by now.                                             *)
(***************************************************************************)
EXTENDS StorageNode, FiniteSetTheorems, TLAPS

\* The handlers that work on one chunk.
OnChunk == {"head", "put", "get", "delete", "verify", "temporary", "rename", "read", "missing",
            "remove", "removed"}

FilesTypeOK ==
    /\ stored \in [Chunks -> {"absent", "good", "bad"}]
    /\ acked \subseteq Chunks /\ rotted \subseteq Chunks
    /\ since \in [Clients -> SUBSET Chunks]

HandlersOK ==
    /\ pc \in [Clients -> OnChunk \cup {"idle", "list"}]
    /\ DOMAIN req = Clients
    /\ \A p \in Clients : pc[p] \in OnChunk => req[p].chunk \in Chunks

FilesInv == FilesTypeOK /\ HandlersOK /\ AckedStored /\ NoTornChunk

-----------------------------------------------------------------------------

\* What a step of the whole node does to the files.
FileStep ==
    \/ UNCHANGED <<stored, acked, rotted>>
    \/ \E c \in Chunks :
        \/ /\ stored' = [stored EXCEPT ![c] = "good"]
           /\ acked' = acked \cup {c} /\ rotted' = rotted \ {c}
        \/ /\ stored[c] = "good" /\ acked' = acked \cup {c} /\ UNCHANGED <<stored, rotted>>
        \/ /\ stored' = [stored EXCEPT ![c] = "absent"] /\ rotted' = rotted \ {c}
           /\ acked' = IF stored[c] = "good" THEN acked \ {c} ELSE acked
        \/ /\ stored' = [stored EXCEPT ![c] = "bad"] /\ rotted' = rotted \cup {c}
           /\ acked' = acked \ {c}

(* An answer to a put is never ahead of the file: of all the handlers'     *)
(* steps only the rename and the reading of a good file acknowledge it.    *)
LEMMA HandlerFiles ==
    ASSUME FilesInv, NEW p \in Clients, handle_request(p)
    PROVE  FileStep
<1> DEFINE c == req[p].chunk
<1>a. pc[p] \in OnChunk => c \in Chunks
  BY DEF FilesInv, HandlersOK
<1>1. CASE put_verify(p)
  <2>1. c \in Chunks
    BY <1>a, <1>1 DEF put_verify, OnChunk
  <2>2. CASE stored[c] = "good" /\ c \notin since[p] /\ acked' = acked \cup ({c} \ since[p])
                /\ UNCHANGED <<stored, rotted>>
    <3>1. acked' = acked \cup {c}
      BY <2>2
    <3> QED  BY <2>1, <2>2, <3>1 DEF FileStep
  <2>3. CASE c \in since[p] /\ acked' = acked \cup ({c} \ since[p]) /\ UNCHANGED <<stored, rotted>>
    <3>1. acked' = acked
      BY <2>3
    <3> QED  BY <2>3, <3>1 DEF FileStep
  <2>4. CASE UNCHANGED fileVars
    BY <2>4 DEF FileStep, fileVars
  <2> QED  BY <1>1, <2>2, <2>3, <2>4 DEF put_verify, reads_good, Fails
<1>2. CASE put_rename(p)
  <2>1. c \in Chunks
    BY <1>a, <1>2 DEF put_rename, OnChunk
  <2> QED  BY <1>2, <2>1 DEF put_rename, FileStep
<1>3. CASE remove(p)
  <2>1. c \in Chunks
    BY <1>a, <1>3 DEF remove, OnChunk
  <2>2. CASE UNCHANGED fileVars
    BY <2>2 DEF FileStep, fileVars
  <2>3. CASE /\ stored' = [stored EXCEPT ![c] = "absent"] /\ rotted' = rotted \ {c}
             /\ IF stored[c] = "good" THEN Taken(c) ELSE UNCHANGED <<acked, since>>
    BY <2>1, <2>3 DEF FileStep, Taken
  <2> QED  BY <1>3, <2>2, <2>3 DEF remove, Fails
<1>4. CASE put_begin(p) \/ get_begin(p) \/ remove_begin(p)
  BY <1>4 DEF put_begin, get_begin, remove_begin, Look, FileStep
<1>5. CASE put_temporary(p) \/ contains(p) \/ get_missing(p) \/ get(p) \/ remove_absent(p)
  BY <1>5 DEF put_temporary, Fails, contains, get_missing, get, remove_absent, FileStep, fileVars
<1> QED  BY <1>1, <1>2, <1>3, <1>4, <1>5 DEF handle_request

(* Every step of the node and of its clients is one of those.              *)
LEMMA StepFiles ==
    ASSUME FilesInv, [Next]_vars
    PROVE  FileStep
<1>1. ASSUME NEW p \in Clients, Request(p) PROVE FileStep
  BY <1>1 DEF Request, Begin, FileStep
<1>2. ASSUME NEW p \in Clients, handle_request(p) PROVE FileStep
  BY <1>2, HandlerFiles
<1>3. ASSUME NEW p \in Clients, handle_chunk_collection(p) PROVE FileStep
  BY <1>3 DEF handle_chunk_collection, scan, list_chunks, FileStep, fileVars
<1>4. CASE InventoryBegins \/ InventoryGoesOn
  BY <1>4 DEF InventoryBegins, InventoryGoesOn, Begin, FileStep
<1>5. CASE Crash \/ UNCHANGED vars
  BY <1>5 DEF Crash, vars, fileVars, FileStep
<1>6. ASSUME NEW c \in Chunks, Rot(c) PROVE FileStep
  BY <1>6 DEF Rot, Taken, FileStep
<1> QED  BY <1>1, <1>2, <1>3, <1>4, <1>5, <1>6 DEF Next

(* The file steps keep the two promises.                                   *)
LEMMA FilesKept ==
    ASSUME FilesInv, FileStep
    PROVE  /\ stored' \in [Chunks -> {"absent", "good", "bad"}]
           /\ acked' \subseteq Chunks /\ rotted' \subseteq Chunks
           /\ AckedStored' /\ NoTornChunk'
<1> USE DEF FilesInv, FilesTypeOK, AckedStored, NoTornChunk
<1>1. CASE UNCHANGED <<stored, acked, rotted>>
  BY <1>1
<1>2. ASSUME NEW c \in Chunks, stored' = [stored EXCEPT ![c] = "good"],
             acked' = acked \cup {c}, rotted' = rotted \ {c}
      PROVE  /\ stored' \in [Chunks -> {"absent", "good", "bad"}]
             /\ acked' \subseteq Chunks /\ rotted' \subseteq Chunks
             /\ AckedStored' /\ NoTornChunk'
  BY <1>2
<1>3. ASSUME NEW c \in Chunks, stored[c] = "good", acked' = acked \cup {c},
             UNCHANGED <<stored, rotted>>
      PROVE  /\ stored' \in [Chunks -> {"absent", "good", "bad"}]
             /\ acked' \subseteq Chunks /\ rotted' \subseteq Chunks
             /\ AckedStored' /\ NoTornChunk'
  BY <1>3
<1>4. ASSUME NEW c \in Chunks, stored' = [stored EXCEPT ![c] = "absent"], rotted' = rotted \ {c},
             acked' = IF stored[c] = "good" THEN acked \ {c} ELSE acked
      PROVE  /\ stored' \in [Chunks -> {"absent", "good", "bad"}]
             /\ acked' \subseteq Chunks /\ rotted' \subseteq Chunks
             /\ AckedStored' /\ NoTornChunk'
  BY <1>4
<1>5. ASSUME NEW c \in Chunks, stored' = [stored EXCEPT ![c] = "bad"],
             rotted' = rotted \cup {c}, acked' = acked \ {c}
      PROVE  /\ stored' \in [Chunks -> {"absent", "good", "bad"}]
             /\ acked' \subseteq Chunks /\ rotted' \subseteq Chunks
             /\ AckedStored' /\ NoTornChunk'
  BY <1>5
<1> QED  BY <1>1, <1>2, <1>3, <1>4, <1>5 DEF FileStep

(* A handler is started for a chunk, and keeps to it.                      *)
LEMMA HandlersKept ==
    ASSUME FilesInv, [Next]_vars
    PROVE  HandlersOK' /\ since' \in [Clients -> SUBSET Chunks]
<1> USE StorageNodeAssumption DEF FilesInv, FilesTypeOK, HandlersOK, OnChunk
<1>1. ASSUME NEW p \in Clients, Request(p)
      PROVE  HandlersOK' /\ since' \in [Clients -> SUBSET Chunks]
  <2>1. PICK op \in Operations, c \in Chunks : Begin(p, op, c)
    BY <1>1 DEF Request
  <2> QED  BY <2>1 DEF Begin, Goto, Operations
<1>2. ASSUME NEW p \in Clients, handle_request(p), UNCHANGED req
      PROVE  HandlersOK' /\ since' \in [Clients -> SUBSET Chunks]
  <2>1. CASE put_begin(p) \/ get_begin(p) \/ remove_begin(p)
    BY <1>2, <2>1 DEF put_begin, get_begin, remove_begin, Look, Goto
  <2>2. CASE put_verify(p) \/ put_temporary(p) \/ put_rename(p)
    BY <1>2, <2>2 DEF put_verify, put_temporary, put_rename, Respond, Fails, Goto, fileVars
  <2>3. CASE contains(p) \/ get_missing(p) \/ get(p) \/ remove_absent(p)
    BY <1>2, <2>3 DEF contains, get_missing, get, remove_absent, Respond, Goto, fileVars
  <2>4. CASE remove(p)
    <3>1. req[p].chunk \in Chunks
      BY <2>4 DEF remove
    <3>2. pc' = [pc EXCEPT ![p] = "idle"]
      BY <2>4 DEF remove, Respond, Fails, Goto
    <3>3. since' = since \/ since' = [q \in Clients |->
             IF pc[q] \in Reading THEN since[q] \cup {req[p].chunk} ELSE since[q]]
      BY <2>4 DEF remove, Respond, Fails, Goto, Taken, fileVars
    <3>4. since' \in [Clients -> SUBSET Chunks]
      BY <3>1, <3>3
    <3> QED  BY <1>2, <3>2, <3>4
  <2> QED  BY <1>2, <2>1, <2>2, <2>3, <2>4 DEF handle_request
<1>3. ASSUME NEW p \in Clients, handle_chunk_collection(p), UNCHANGED req
      PROVE  HandlersOK' /\ since' \in [Clients -> SUBSET Chunks]
  BY <1>3 DEF handle_chunk_collection, scan, list_chunks, Respond, Goto, fileVars
<1>4. ASSUME NEW c, Begin(Collector, "list", c)
      PROVE  HandlersOK' /\ since' \in [Clients -> SUBSET Chunks]
  BY <1>4 DEF Begin, Goto
<1>5. CASE InventoryBegins
  BY <1>4, <1>5 DEF InventoryBegins
<1>6. CASE InventoryGoesOn
  BY <1>4, <1>6 DEF InventoryGoesOn
<1>7. CASE Crash \/ UNCHANGED vars
  BY <1>7 DEF Crash, vars, fileVars
<1>8. ASSUME NEW c \in Chunks, Rot(c) PROVE HandlersOK' /\ since' \in [Clients -> SUBSET Chunks]
  BY <1>8 DEF Rot, Taken
<1> QED  BY <1>1, <1>2, <1>3, <1>5, <1>6, <1>7, <1>8 DEF Next

(* The inductive invariant holds.                                          *)
THEOREM FilesInvHolds == Spec => []FilesInv
<1>1. Init => FilesInv
  BY DEF Init, FilesInv, FilesTypeOK, HandlersOK, OnChunk, AckedStored, NoTornChunk
<1>2. FilesInv /\ [Next]_vars => FilesInv'
  <2> SUFFICES ASSUME FilesInv, [Next]_vars PROVE FilesInv'
    OBVIOUS
  <2>1. FileStep
    BY StepFiles
  <2> QED  BY <2>1, FilesKept, HandlersKept DEF FilesInv, FilesTypeOK
<1> QED  BY <1>1, <1>2, PTL DEF Spec

(* A chunk whose PUT was answered 204 is in its file in full until a       *)
(* DELETE or the disk takes it, whatever runs beside it and after any      *)
(* number of crashes.                                                      *)
THEOREM AckedStoredHolds == Spec => []AckedStored
<1>1. FilesInv => AckedStored
  BY DEF FilesInv
<1> QED  BY <1>1, FilesInvHolds, PTL

(* No put and no crash leaves an incomplete file under the name of a chunk. *)
THEOREM NoTornChunkHolds == Spec => []NoTornChunk
<1>1. FilesInv => NoTornChunk
  BY DEF FilesInv
<1> QED  BY <1>1, FilesInvHolds, PTL


-----------------------------------------------------------------------------
(* The answers and the inventory.                                          *)

\* The stages of the handler of each request.
Stages ==
    [head |-> {"head"}, put |-> {"put", "verify", "temporary", "rename"},
     get |-> {"get", "read", "missing"}, delete |-> {"delete", "remove", "removed"},
     list |-> {"list"}, none |-> {}]

\* An answer that the client's method takes, with the types of a page.
Understood(r, a) ==
    \/ a = NoAnswer
    \/ /\ a.status \in Statuses[r.op] /\ result(r, a) # "protocol_error"
       /\ r.op = "list" /\ a.status = 200 =>
            a.body.chunks \in Seq(Chunks) /\ a.body.next \in Chunks \cup {0}

AnswersOK ==
    /\ DOMAIN req = Clients /\ DOMAIN answer = Clients
    /\ \A p \in Clients :
        /\ req[p].op \in DOMAIN Statuses /\ req[p].chunk \in Chunks \cup {0}
        /\ pc[p] # "idle" => pc[p] \in Stages[req[p].op]
        /\ Understood(req[p], answer[p])

ListsOK ==
    /\ visited \in [Clients -> SUBSET Chunks] /\ found \in [Clients -> SUBSET Chunks]
    /\ scanning \in BOOLEAN /\ after \in Chunks \cup {0} /\ inventory \in Seq(Chunks)
    /\ throughout \subseteq Chunks

\* Why a page misses nothing: what was there throughout is there when the walk comes by, and
\* the page that was answered goes on where its last chunk is.
ScanOK ==
    /\ \A c \in throughout : exists(c)
    /\ scanning =>
        /\ pc[Collector] \in {"idle", "list"}
        /\ req[Collector] = [op |-> "list", chunk |-> after]
        /\ pc[Collector] = "list" =>
            /\ answer[Collector] = NoAnswer
            /\ throughout \cap visited[Collector] \subseteq found[Collector]
        /\ answer[Collector].status = 200 =>
            \A c \in throughout : c > after =>
                \/ c \in entries(answer[Collector].body.chunks)
                \/ answer[Collector].body.next # 0 /\ c > answer[Collector].body.next

NodeInv == FilesInv /\ AnswersOK /\ ListsOK /\ ScanOK /\ InventoryComplete

(* A page has the first of the chunks after the cursor, in their order,    *)
(* and the next cursor says where the others are.                          *)
LEMMA PageIsFirst ==
    ASSUME NEW rest \in SUBSET Chunks, NEW cursor \in Chunks \cup {0}, \A c \in rest : c > cursor,
           NEW page \in pages(rest)
    PROVE  LET next == next_after(rest, page) IN
           /\ page \in Seq(Chunks) /\ next \in Chunks \cup {0}
           /\ valid_page(cursor, page, next)
           /\ \A c \in rest : c \in entries(page) \/ (next # 0 /\ c > next)
<1> DEFINE n == IF Cardinality(rest) < PageLimit THEN Cardinality(rest) ELSE PageLimit
           next == next_after(rest, page)
<1>1. IsFiniteSet(rest) /\ Cardinality(rest) \in Nat
    BY StorageNodeAssumption, FS_Subset, FS_CardinalityType
<1>2. n \in Nat
    BY <1>1, StorageNodeAssumption
<1>3. /\ page \in [1..n -> rest]
      /\ \A i, j \in DOMAIN page : i < j => page[i] < page[j]
      /\ \A c \in entries(page), d \in rest \ entries(page) : c < d
    BY DEF pages
<1>4. rest # {} => n >= 1
    BY <1>1, FS_EmptySet, StorageNodeAssumption
<1> HIDE DEF n
<1>5. page \in Seq(Chunks) /\ Len(page) = n /\ DOMAIN page = 1..n
    BY <1>2, <1>3
<1>6. page = <<>> <=> n = 0
    BY <1>5, <1>2
<1>7. CASE entries(page) = rest
  <2>1. next = 0
    BY <1>7 DEF next_after
  <2>2. valid_page(cursor, page, next)
    BY <1>2, <1>3, <1>5, <2>1 DEF valid_page
  <2> QED
    BY <1>5, <1>7, <2>1, <2>2
<1>8. CASE entries(page) # rest
  <2>1. entries(page) \subseteq rest
    BY <1>3 DEF entries
  <2>2. n >= 1
    BY <1>4, <1>8, <2>1
  <2>3. next = page[n] /\ n \in DOMAIN page /\ page # <<>>
    BY <1>2, <1>5, <1>6, <1>8, <2>2 DEF next_after
  <2>4. next \in entries(page) /\ next \in rest
    BY <2>1, <2>3 DEF entries
  <2>5. next \in Chunks /\ next > cursor /\ next # 0
    BY <2>4, StorageNodeAssumption
  <2>6. valid_page(cursor, page, next)
    <3>1. \A i \in 1..(Len(page) - 1) : page[i] < page[i + 1]
      BY <1>2, <1>3, <1>5
    <3> QED
      BY <1>5, <2>3, <2>5, <3>1 DEF valid_page
  <2>7. ASSUME NEW c \in rest, c \notin entries(page) PROVE c > next
    <3> HIDE DEF next
    <3>1. c \in rest \ entries(page)
      BY <2>7
    <3>2. \A x \in entries(page), y \in rest \ entries(page) : x < y
      BY <1>3
    <3>3. next < c
      BY <2>4, <3>1, <3>2
    <3>4. next \in Nat /\ c \in Nat
      BY <2>5, StorageNodeAssumption
    <3> QED
      BY <3>3, <3>4
  <2> QED
    BY <1>5, <2>5, <2>6, <2>7
<1> QED
    BY <1>7, <1>8

\* What a handler at work on a chunk answers, and where it goes.
LEMMA HandlerAnswers ==
    ASSUME HandlersOK, AnswersOK, NEW p \in Clients, handle_request(p)
    PROVE  \/ /\ UNCHANGED answer
              /\ \E where \in Stages[req[p].op] : pc' = [pc EXCEPT ![p] = where]
           \/ /\ pc' = [pc EXCEPT ![p] = "idle"]
              /\ \E a : answer' = [answer EXCEPT ![p] = a] /\ Understood(req[p], a)
<1> DEFINE r == req[p]
           Moves == /\ UNCHANGED answer
                    /\ \E where \in Stages[r.op] : pc' = [pc EXCEPT ![p] = where]
           Answers == /\ pc' = [pc EXCEPT ![p] = "idle"]
                      /\ \E a : answer' = [answer EXCEPT ![p] = a] /\ Understood(r, a)
<1> SUFFICES Moves \/ Answers
    OBVIOUS
<1>a. /\ pc[p] # "idle" => pc[p] \in Stages[r.op]
      /\ r.op \in {"head", "put", "get", "delete", "list", "none"}
    BY DEF AnswersOK, Statuses
<1>b. ASSUME NEW a, Respond(p, a), Understood(r, a) PROVE Answers
    BY <1>b DEF Respond, Goto
<1>c. ASSUME Fails(p), r.op \in {"put", "get", "delete"} PROVE Answers
  <2>1. InternalError.status = 500
    BY DEF InternalError, Error
  <2>2. ASSUME r.op = "put" PROVE Understood(r, InternalError)
    BY <2>1, <2>2 DEF Understood, Statuses, result, put_chunk_result, Expect
  <2>3. ASSUME r.op = "get" PROVE Understood(r, InternalError)
    BY <2>1, <2>3 DEF Understood, Statuses, result, get_chunk_result, Expect, Lookup
  <2>4. ASSUME r.op = "delete" PROVE Understood(r, InternalError)
    BY <2>1, <2>4 DEF Understood, Statuses, result, delete_chunk_result, Expect
  <2> QED
    BY <1>b, <1>c, <2>2, <2>3, <2>4 DEF Fails
<1>d. ASSUME Respond(p, NoContent), r.op = "put" PROVE Answers
  <2>1. NoContent.status = 204
    BY DEF NoContent, Ok
  <2>2. Understood(r, NoContent)
    BY <1>d, <2>1 DEF Understood, Statuses, result, put_chunk_result, Expect
  <2> QED
    BY <1>b, <1>d, <2>2
<1>e. ASSUME NEW there \in Stages[r.op], NEW elsewhere \in Stages[r.op],
             Look(p, there, elsewhere), UNCHANGED answer
      PROVE  Moves
  <2>1. PICK where \in {there, elsewhere} : Goto(p, where)
    BY <1>e DEF Look
  <2> QED
    BY <1>e, <2>1 DEF Goto
<1>1. CASE put_begin(p) \/ get_begin(p) \/ remove_begin(p)
  <2>1. CASE put_begin(p)
    <3>1. r.op = "put"
      BY <1>a, <2>1 DEF put_begin, Stages
    <3>2. "verify" \in Stages[r.op] /\ "temporary" \in Stages[r.op]
      BY <3>1 DEF Stages
    <3> QED
      BY <1>e, <2>1, <3>2 DEF put_begin
  <2>2. CASE get_begin(p)
    <3>1. r.op = "get"
      BY <1>a, <2>2 DEF get_begin, Stages
    <3>2. "read" \in Stages[r.op] /\ "missing" \in Stages[r.op]
      BY <3>1 DEF Stages
    <3> QED
      BY <1>e, <2>2, <3>2 DEF get_begin
  <2>3. CASE remove_begin(p)
    <3>1. r.op = "delete"
      BY <1>a, <2>3 DEF remove_begin, Stages
    <3>2. "remove" \in Stages[r.op] /\ "removed" \in Stages[r.op]
      BY <3>1 DEF Stages
    <3> QED
      BY <1>e, <2>3, <3>2 DEF remove_begin
  <2> QED
    BY <1>1, <2>1, <2>2, <2>3
<1>2. CASE put_verify(p)
  <2>1. r.op = "put"
    BY <1>a, <1>2 DEF put_verify, Stages
  <2> QED
    BY <1>2, <1>c, <1>d, <2>1 DEF put_verify
<1>3. CASE put_temporary(p)
  <2>1. r.op = "put"
    BY <1>a, <1>3 DEF put_temporary, Stages
  <2>2. CASE Goto(p, "rename") /\ UNCHANGED answer
    <3>1. "rename" \in Stages[r.op]
      BY <2>1 DEF Stages
    <3> QED
      BY <2>2, <3>1 DEF Goto
  <2> QED
    BY <1>3, <1>c, <2>1, <2>2 DEF put_temporary
<1>4. CASE put_rename(p)
  <2>1. r.op = "put"
    BY <1>a, <1>4 DEF put_rename, Stages
  <2> QED
    BY <1>4, <1>d, <2>1 DEF put_rename
<1>5. CASE contains(p)
  <2>1. r.op = "head"
    BY <1>a, <1>5 DEF contains, Stages
  <2>2. Understood(r, Ok(<<>>)) /\ Understood(r, Error(404, "none"))
    BY <2>1 DEF Understood, Statuses, result, has_chunk_result, Expect, Ok, Error
  <2> QED
    BY <1>5, <1>b, <2>2 DEF contains
<1>6. CASE get_missing(p)
  <2>1. r.op = "get"
    BY <1>a, <1>6 DEF get_missing, Stages
  <2>2. Understood(r, Error(404, "chunk_not_found"))
    BY <2>1 DEF Understood, Statuses, result, get_chunk_result, Lookup, Error
  <2> QED
    BY <1>6, <1>b, <2>2 DEF get_missing
<1>7. CASE get(p)
  <2>1. r.op = "get"
    BY <1>a, <1>7 DEF get, Stages
  <2>2. Understood(r, Ok("good"))
    BY <2>1 DEF Understood, Statuses, result, get_chunk_result, Lookup, Expect, Ok
  <2> QED
    BY <1>7, <1>b, <1>c, <2>1, <2>2 DEF get, Fails
<1>8. CASE remove_absent(p) \/ remove(p)
  <2>0. pc[p] \in {"remove", "removed"}
    BY <1>8 DEF remove_absent, remove
  <2>1. r.op = "delete"
    BY <1>a, <2>0 DEF Stages
  <2>2. \A deleted \in BOOLEAN : Understood(r, Ok([chunk |-> r.chunk, deleted |-> deleted]))
    BY <2>1 DEF Understood, Statuses, result, delete_chunk_result, Expect, Ok
  <2> QED
    BY <1>8, <1>b, <1>c, <2>1, <2>2 DEF remove_absent, remove
<1> QED
    BY <1>1, <1>2, <1>3, <1>4, <1>5, <1>6, <1>7, <1>8 DEF handle_request

\* A handler at work on a chunk takes from the node only the chunk it deletes.
LEMMA HandlerThroughout ==
    ASSUME FilesInv, ListsOK, ScanOK, NEW p \in Clients, handle_request(p)
    PROVE  /\ throughout' \subseteq throughout
           /\ \A c \in throughout' : exists(c)'
<1> DEFINE k == req[p].chunk
<1>a. /\ stored \in [Chunks -> {"absent", "good", "bad"}] /\ throughout \subseteq Chunks
      /\ \A c \in throughout : stored[c] # "absent"
  BY DEF FilesInv, FilesTypeOK, ListsOK, ScanOK, exists
<1>1. CASE put_rename(p)
  <2>1. stored' = [stored EXCEPT ![k] = "good"] /\ throughout' = throughout
    BY <1>1 DEF put_rename
  <2> QED
    BY <1>a, <2>1 DEF exists
<1>2. CASE remove(p)
  <2>1. CASE stored' = [stored EXCEPT ![k] = "absent"] /\ throughout' = throughout \ {k}
    BY <1>a, <2>1 DEF exists
  <2>2. CASE UNCHANGED fileVars
    BY <1>a, <2>2 DEF exists, fileVars
  <2> QED
    BY <1>2, <2>1, <2>2 DEF remove, Fails
<1>3. CASE put_begin(p) \/ get_begin(p) \/ remove_begin(p)
  BY <1>a, <1>3 DEF put_begin, get_begin, remove_begin, Look, exists
<1>4. CASE put_verify(p) \/ put_temporary(p) \/ contains(p) \/ get_missing(p) \/ get(p)
           \/ remove_absent(p)
  BY <1>a, <1>4 DEF put_verify, put_temporary, contains, get_missing, get, remove_absent, Fails,
     fileVars, exists
<1> QED
  BY <1>1, <1>2, <1>3, <1>4 DEF handle_request

(* The handler of another request does not disturb the inventory.          *)
LEMMA HandlerKeeps ==
    ASSUME NodeInv, NEW p \in Clients, handle_request(p), UNCHANGED <<req, listVars, inventoryVars>>
    PROVE  AnswersOK' /\ ListsOK' /\ ScanOK' /\ InventoryComplete'
<1> USE DEF NodeInv
<1>1. /\ throughout' \subseteq throughout
      /\ \A c \in throughout' : exists(c)'
  BY HandlerThroughout
<1>2. /\ UNCHANGED <<req, visited, found, scanning, after, inventory>>
      /\ DOMAIN pc = Clients
  BY DEF listVars, inventoryVars, FilesInv, HandlersOK
<1>3. pc[p] \in OnChunk
  BY DEF handle_request, put_begin, put_verify, put_temporary, put_rename, contains, get_begin,
     get_missing, get, remove_begin, remove_absent, remove, OnChunk
<1>4. scanning => p # Collector
  BY <1>3 DEF ScanOK, OnChunk
<1>5. \/ /\ UNCHANGED answer
         /\ \E where \in Stages[req[p].op] : pc' = [pc EXCEPT ![p] = where]
      \/ /\ pc' = [pc EXCEPT ![p] = "idle"]
         /\ \E a : answer' = [answer EXCEPT ![p] = a] /\ Understood(req[p], a)
  BY HandlerAnswers DEF FilesInv
<1>6. AnswersOK'
  <2>1. CASE UNCHANGED answer /\ \E where \in Stages[req[p].op] : pc' = [pc EXCEPT ![p] = where]
    BY <1>2, <2>1 DEF AnswersOK, Understood
  <2>2. CASE /\ pc' = [pc EXCEPT ![p] = "idle"]
             /\ \E a : answer' = [answer EXCEPT ![p] = a] /\ Understood(req[p], a)
    BY <1>2, <2>2 DEF AnswersOK, Understood
  <2> QED
    BY <1>5, <2>1, <2>2
<1>7. ListsOK'
  BY <1>1, <1>2 DEF ListsOK
<1>8. ScanOK'
  <2>1. scanning => pc'[Collector] = pc[Collector] /\ answer'[Collector] = answer[Collector]
    BY <1>2, <1>4, <1>5, StorageNodeAssumption DEF AnswersOK
  <2> QED
    BY <1>1, <1>2, <2>1 DEF ScanOK, entries
<1>9. InventoryComplete'
  BY <1>1, <1>2 DEF InventoryComplete
<1> QED
  BY <1>6, <1>7, <1>8, <1>9

\* What a request that is begun leaves.
LEMMA BeginKeeps ==
    ASSUME NodeInv, NEW p \in Clients, NEW op \in DOMAIN Statuses, NEW c \in Chunks \cup {0},
           op \in Stages[op], Begin(p, op, c)
    PROVE  /\ AnswersOK'
           /\ visited' \in [Clients -> SUBSET Chunks] /\ found' \in [Clients -> SUBSET Chunks]
           /\ pc'[p] = op /\ req'[p] = [op |-> op, chunk |-> c] /\ answer'[p] = NoAnswer
           /\ visited'[p] = {} /\ UNCHANGED stored
<1> USE DEF NodeInv
<1>1. /\ pc' = [pc EXCEPT ![p] = op] /\ req' = [req EXCEPT ![p] = [op |-> op, chunk |-> c]]
      /\ answer' = [answer EXCEPT ![p] = NoAnswer]
      /\ visited' = [visited EXCEPT ![p] = {}] /\ found' = [found EXCEPT ![p] = {}]
      /\ UNCHANGED stored
  BY DEF Begin, Goto
<1>2. DOMAIN pc = Clients
  BY DEF FilesInv, HandlersOK
<1>3. ListsOK => /\ visited' \in [Clients -> SUBSET Chunks] /\ found' \in [Clients -> SUBSET Chunks]
                 /\ visited'[p] = {}
  BY <1>1 DEF ListsOK
<1>4. AnswersOK'
  <2> SUFFICES ASSUME NEW q \in Clients
               PROVE  /\ req'[q].op \in DOMAIN Statuses /\ req'[q].chunk \in Chunks \cup {0}
                      /\ pc'[q] # "idle" => pc'[q] \in Stages[req'[q].op]
                      /\ Understood(req'[q], answer'[q])
    BY <1>1 DEF AnswersOK, Understood
  <2>1. CASE q = p
    BY <1>1, <1>2, <2>1 DEF AnswersOK, Understood
  <2>2. CASE q # p
    BY <1>1, <1>2, <2>2 DEF AnswersOK
  <2> QED
    BY <2>1, <2>2
<1> QED
  BY <1>1, <1>2, <1>3, <1>4 DEF AnswersOK

LEMMA RequestKeeps ==
    ASSUME NodeInv, NEW p \in Clients, Request(p)
    PROVE  AnswersOK' /\ ListsOK' /\ ScanOK' /\ InventoryComplete'
<1> USE DEF NodeInv
<1>1. PICK op \in Operations, c \in Chunks : Begin(p, op, c)
  BY DEF Request
<1>2. op \in DOMAIN Statuses /\ op \in Stages[op]
  BY DEF Operations, Statuses, Stages
<1>3. /\ AnswersOK' /\ UNCHANGED stored
      /\ visited' \in [Clients -> SUBSET Chunks] /\ found' \in [Clients -> SUBSET Chunks]
  BY <1>1, <1>2, BeginKeeps
<1>4. UNCHANGED <<scanning, after, inventory, throughout>> /\ (scanning => p # Collector)
  BY DEF Request, inventoryVars
<1>5. scanning => /\ pc'[Collector] = pc[Collector] /\ answer'[Collector] = answer[Collector]
                  /\ req'[Collector] = req[Collector]
                  /\ visited'[Collector] = visited[Collector] /\ found'[Collector] = found[Collector]
  BY <1>1, <1>4, StorageNodeAssumption DEF Begin, Goto, AnswersOK, ListsOK, FilesInv, HandlersOK
<1>6. ListsOK'
  BY <1>3, <1>4 DEF ListsOK
<1>7. ScanOK'
  BY <1>3, <1>4, <1>5 DEF ScanOK, entries, exists
<1>8. InventoryComplete'
  BY <1>4 DEF InventoryComplete
<1> QED
  BY <1>3, <1>6, <1>7, <1>8

\* An entry of the directory is read; the inventory's own walk finds what is there throughout.
LEMMA ScanKeeps ==
    ASSUME NodeInv, NEW p \in Clients, scan(p), UNCHANGED <<req, inventoryVars>>
    PROVE  AnswersOK' /\ ListsOK' /\ ScanOK' /\ InventoryComplete'
<1> USE DEF NodeInv
<1>1. /\ UNCHANGED <<stored, throughout, req, scanning, after, inventory>> /\ pc[p] = "list"
      /\ DOMAIN pc = Clients
  BY DEF scan, fileVars, inventoryVars, FilesInv, HandlersOK
<1>2. PICK c \in Chunks \ visited[p] :
        /\ visited' = [visited EXCEPT ![p] = @ \cup {c}]
        /\ \/ /\ found' = [found EXCEPT ![p] = IF exists(c) THEN @ \cup {c} ELSE @]
              /\ UNCHANGED <<pc, answer>>
           \/ ~exists(c) /\ c \in since[p] /\ Respond(p, InternalError) /\ UNCHANGED found
  BY DEF scan
<1>3. req[p].op = "list"
  <2>1. "list" \in Stages[req[p].op]
    BY <1>1 DEF AnswersOK
  <2> QED
    BY <2>1 DEF AnswersOK, Stages, Statuses
<1>4. InventoryComplete'
  BY <1>1 DEF InventoryComplete
<1>5. CASE /\ found' = [found EXCEPT ![p] = IF exists(c) THEN @ \cup {c} ELSE @]
           /\ UNCHANGED <<pc, answer>>
  <2>1. AnswersOK'
    BY <1>1, <1>5 DEF AnswersOK, Understood
  <2>2. ListsOK'
    BY <1>1, <1>2, <1>5 DEF ListsOK
  <2>3. visited' = [visited EXCEPT ![p] = @ \cup {c}]
    BY <1>2
  <2>4. ASSUME scanning, pc[Collector] = "list"
        PROVE  throughout \cap visited'[Collector] \subseteq found'[Collector]
    <3>1. throughout \cap visited[Collector] \subseteq found[Collector]
      BY <2>4 DEF ScanOK
    <3>2. c \in throughout => exists(c)
      BY DEF ScanOK
    <3> QED
      BY <1>5, <2>3, <3>1, <3>2, StorageNodeAssumption DEF ListsOK
  <2>5. ScanOK'
    BY <1>1, <1>5, <2>4 DEF ScanOK, entries, exists
  <2> QED
    BY <1>4, <2>1, <2>2, <2>5
<1>6. CASE Respond(p, InternalError) /\ UNCHANGED found
  <2>1. pc' = [pc EXCEPT ![p] = "idle"] /\ answer' = [answer EXCEPT ![p] = InternalError]
    BY <1>6 DEF Respond, Goto
  <2>2. InternalError.status = 500
    BY DEF InternalError, Error
  <2>3. Understood(req[p], InternalError)
    BY <1>3, <2>2 DEF Understood, Statuses, result, list_chunks_result, Expect
  <2>4. AnswersOK'
    BY <1>1, <2>1, <2>3 DEF AnswersOK, Understood
  <2>5. ListsOK'
    BY <1>1, <1>2, <1>6 DEF ListsOK
  <2>6. ScanOK'
    <3>1. CASE p = Collector
      <4>1. pc'[Collector] = "idle" /\ answer'[Collector].status = 500
        BY <1>1, <2>1, <2>2, <3>1 DEF AnswersOK
      <4> QED
        BY <1>1, <4>1 DEF ScanOK, exists
    <3>2. CASE p # Collector
      <4>1. /\ pc'[Collector] = pc[Collector] /\ answer'[Collector] = answer[Collector]
            /\ visited'[Collector] = visited[Collector] /\ found'[Collector] = found[Collector]
        BY <1>2, <1>6, <2>1, <3>2, StorageNodeAssumption DEF AnswersOK, ListsOK
      <4> QED
        BY <1>1, <4>1 DEF ScanOK, entries, exists
    <3> QED
      BY <3>1, <3>2
  <2> QED
    BY <1>4, <2>4, <2>5, <2>6
<1> QED
  BY <1>2, <1>5, <1>6

\* The page is answered: what was there throughout is on it or comes after its cursor.
LEMMA ListKeeps ==
    ASSUME NodeInv, NEW p \in Clients, list_chunks(p), UNCHANGED <<req, inventoryVars>>
    PROVE  AnswersOK' /\ ListsOK' /\ ScanOK' /\ InventoryComplete'
<1> USE DEF NodeInv
<1> DEFINE rest == {c \in found[p] : c > req[p].chunk}
<1>1. /\ UNCHANGED <<stored, throughout, req, scanning, after, inventory, visited, found>>
      /\ pc[p] = "list" /\ DOMAIN pc = Clients /\ visited[p] = Chunks
  BY DEF list_chunks, walked, fileVars, listVars, inventoryVars, FilesInv, HandlersOK
<1>2. PICK page \in pages(rest) :
        Respond(p, Ok([chunks |-> page, next |-> next_after(rest, page)]))
  BY DEF list_chunks
<1> DEFINE next == next_after(rest, page)
           a == Ok([chunks |-> page, next |-> next])
<1>3. rest \in SUBSET Chunks /\ req[p].chunk \in Chunks \cup {0} /\ \A c \in rest : c > req[p].chunk
  BY DEF ListsOK, AnswersOK
<1>4. /\ page \in Seq(Chunks) /\ next \in Chunks \cup {0}
      /\ valid_page(req[p].chunk, page, next)
      /\ \A c \in rest : c \in entries(page) \/ (next # 0 /\ c > next)
  <2> HIDE DEF rest
  <2> QED
    BY <1>3, PageIsFirst
<1>5. req[p].op = "list"
  <2>1. "list" \in Stages[req[p].op]
    BY <1>1 DEF AnswersOK
  <2> QED
    BY <2>1 DEF AnswersOK, Stages, Statuses
<1>6. throughout \subseteq Chunks /\ InventoryComplete'
  BY <1>1 DEF ListsOK, InventoryComplete
<1> HIDE DEF next
<1>7. a.status = 200 /\ a.body.chunks = page /\ a.body.next = next
  BY DEF Ok
<1>8. pc' = [pc EXCEPT ![p] = "idle"] /\ answer' = [answer EXCEPT ![p] = a]
  BY <1>2 DEF Respond, Goto, next
<1> HIDE DEF a
<1>9. Understood(req[p], a)
  BY <1>4, <1>5, <1>7 DEF Understood, Statuses, result, list_chunks_result, Expect
<1>10. AnswersOK'
  BY <1>1, <1>8, <1>9 DEF AnswersOK, Understood
<1>11. ListsOK'
  BY <1>1 DEF ListsOK
<1>12. ScanOK'
  <2>1. CASE p = Collector
    <3> SUFFICES ASSUME scanning, NEW c \in throughout, c > after
                 PROVE  c \in entries(page) \/ (next # 0 /\ c > next)
      BY <1>1, <1>7, <1>8, <2>1 DEF ScanOK, AnswersOK, exists
    <3>1. req[p].chunk = after /\ throughout \cap visited[p] \subseteq found[p]
      BY <1>1, <2>1 DEF ScanOK
    <3>2. c \in rest
      BY <1>1, <1>6, <3>1
    <3> QED
      BY <1>4, <3>2
  <2>2. CASE p # Collector
    <3>1. pc'[Collector] = pc[Collector] /\ answer'[Collector] = answer[Collector]
      BY <1>8, <2>2, StorageNodeAssumption DEF AnswersOK
    <3> QED
      BY <1>1, <3>1 DEF ScanOK, entries, exists
  <2> QED
    BY <2>1, <2>2
<1> QED
  BY <1>6, <1>10, <1>11, <1>12

LEMMA InventoryBeginsKeeps ==
    ASSUME NodeInv, InventoryBegins
    PROVE  AnswersOK' /\ ListsOK' /\ ScanOK' /\ InventoryComplete'
<1>1. /\ Begin(Collector, "list", 0) /\ throughout' = {c \in Chunks : exists(c)}
      /\ scanning' = TRUE /\ after' = 0 /\ inventory' = <<>>
  BY DEF InventoryBegins
<1>2. "list" \in DOMAIN Statuses /\ "list" \in Stages["list"]
  BY DEF Statuses, Stages
<1>3. /\ AnswersOK' /\ UNCHANGED stored
      /\ visited' \in [Clients -> SUBSET Chunks] /\ found' \in [Clients -> SUBSET Chunks]
      /\ pc'[Collector] = "list" /\ req'[Collector] = [op |-> "list", chunk |-> 0]
      /\ answer'[Collector] = NoAnswer /\ visited'[Collector] = {}
  BY <1>1, <1>2, StorageNodeAssumption, BeginKeeps
<1>4. ListsOK'
  <2>1. scanning' \in BOOLEAN /\ after' \in Chunks \cup {0} /\ throughout' \subseteq Chunks
    BY <1>1
  <2>2. inventory' \in Seq(Chunks)
    BY <1>1
  <2> QED
    BY <1>3, <2>1, <2>2 DEF ListsOK
<1>5. NoAnswer.status = 0
  BY DEF NoAnswer, Error
<1>6. ScanOK'
  BY <1>1, <1>3, <1>5 DEF ScanOK, exists
<1>7. InventoryComplete'
  BY <1>1, StorageNodeAssumption DEF InventoryComplete
<1> QED
  BY <1>3, <1>4, <1>6, <1>7

\* A page that is taken is appended; what it lacks is beyond the new cursor.
LEMMA InventoryGoesOnKeeps ==
    ASSUME NodeInv, InventoryGoesOn
    PROVE  AnswersOK' /\ ListsOK' /\ ScanOK' /\ InventoryComplete'
<1> DEFINE a == answer[Collector]
           page == a.body.chunks
           next == a.body.next
           accepted == result(req[Collector], a) = "value"
<1> USE DEF NodeInv
<1>1. /\ scanning /\ pc[Collector] = "idle"
      /\ inventory' = IF accepted THEN inventory \o page ELSE <<>>
      /\ Collector \in Clients
  BY StorageNodeAssumption DEF InventoryGoesOn
<1>2. /\ req[Collector] = [op |-> "list", chunk |-> after]
      /\ Understood(req[Collector], a)
      /\ inventory \in Seq(Chunks) /\ throughout \subseteq Chunks
  BY <1>1 DEF ScanOK, AnswersOK, ListsOK
<1>3. ASSUME accepted
      PROVE  a.status = 200 /\ page \in Seq(Chunks) /\ next \in Chunks \cup {0}
  <2>1. a.status = 200
    BY <1>2, <1>3 DEF result, list_chunks_result, Expect
  <2>2. a # NoAnswer
    BY <2>1 DEF NoAnswer, Error
  <2> QED
    BY <1>2, <2>1, <2>2 DEF Understood
<1>4. ASSUME accepted
      PROVE  \A c \in throughout :
               \/ \E i \in DOMAIN inventory' : inventory'[i] = c
               \/ next # 0 /\ c > next
  <2> SUFFICES ASSUME NEW c \in throughout
               PROVE  (\E i \in DOMAIN inventory' : inventory'[i] = c) \/ (next # 0 /\ c > next)
    OBVIOUS
  <2>1. inventory' = inventory \o page /\ page \in Seq(Chunks)
    BY <1>1, <1>3, <1>4
  <2>2. ASSUME NEW i \in DOMAIN inventory, inventory[i] = c
        PROVE  \E j \in DOMAIN inventory' : inventory'[j] = c
    <3>1. i \in DOMAIN inventory' /\ inventory'[i] = c
      BY <1>2, <2>1, <2>2
    <3> QED
      BY <3>1
  <2>3. ASSUME NEW i \in DOMAIN page, page[i] = c
        PROVE  \E j \in DOMAIN inventory' : inventory'[j] = c
    <3>1. i \in 1..Len(page) /\ Len(inventory) \in Nat /\ Len(page) \in Nat
      BY <1>2, <2>1, <2>3
    <3> HIDE DEF page
    <3>2. Len(inventory) + i \in 1..Len(inventory')
      BY <1>2, <2>1, <3>1
    <3>3. (inventory \o page)[Len(inventory) + i] = page[i]
      BY <1>2, <2>1, <3>1
    <3>4. Len(inventory) + i \in DOMAIN inventory' /\ inventory'[Len(inventory) + i] = c
      BY <1>2, <2>1, <2>3, <3>2, <3>3
    <3> QED
      BY <3>4
  <2>4. (\E i \in DOMAIN inventory : inventory[i] = c) \/ c > after
    BY DEF InventoryComplete
  <2>5. c > after => c \in entries(page) \/ (next # 0 /\ c > next)
    BY <1>1, <1>3, <1>4 DEF ScanOK
  <2> QED
    BY <2>2, <2>3, <2>4, <2>5 DEF entries
<1>5. inventory' \in Seq(Chunks)
  BY <1>1, <1>2, <1>3
<1>6. CASE /\ accepted /\ next # 0 /\ after' = next /\ Begin(Collector, "list", next)
           /\ UNCHANGED <<scanning, throughout>>
  <2>1. "list" \in DOMAIN Statuses /\ "list" \in Stages["list"]
    BY DEF Statuses, Stages
  <2>2. next \in Chunks \cup {0}
    BY <1>3, <1>6
  <2> HIDE DEF next
  <2>3. /\ AnswersOK' /\ UNCHANGED stored
        /\ visited' \in [Clients -> SUBSET Chunks] /\ found' \in [Clients -> SUBSET Chunks]
        /\ pc'[Collector] = "list" /\ req'[Collector] = [op |-> "list", chunk |-> next]
        /\ answer'[Collector] = NoAnswer /\ visited'[Collector] = {}
    BY <1>1, <1>6, <2>1, <2>2, BeginKeeps
  <2>4. ListsOK'
    BY <1>1, <1>2, <1>5, <1>6, <2>2, <2>3 DEF ListsOK
  <2>5. NoAnswer.status = 0
    BY DEF NoAnswer, Error
  <2>6. ScanOK'
    BY <1>1, <1>6, <2>3, <2>5 DEF ScanOK, exists
  <2>7. InventoryComplete'
    BY <1>1, <1>4, <1>6 DEF InventoryComplete
  <2> QED
    BY <2>3, <2>4, <2>6, <2>7
<1>7. CASE /\ ~(accepted /\ next # 0) /\ scanning' = FALSE /\ after' = 0
           /\ throughout' = (IF accepted THEN throughout ELSE {})
           /\ UNCHANGED <<stored, pc, req, listVars, answer>>
  <2>1. AnswersOK'
    BY <1>7 DEF AnswersOK, Understood
  <2>2. ListsOK'
    BY <1>2, <1>5, <1>7 DEF ListsOK, listVars
  <2>3. ScanOK'
    BY <1>7 DEF ScanOK, exists
  <2>4. InventoryComplete'
    BY <1>4, <1>7 DEF InventoryComplete
  <2> QED
    BY <2>1, <2>2, <2>3, <2>4
<1> QED
  BY <1>6, <1>7 DEF InventoryGoesOn

\* The process dies, or the disk corrupts a file: nothing was answered and no file is gone.
LEMMA FaultKeeps ==
    ASSUME NodeInv, Crash \/ (\E c \in Chunks : Rot(c)) \/ UNCHANGED vars
    PROVE  AnswersOK' /\ ListsOK' /\ ScanOK' /\ InventoryComplete'
<1> USE DEF NodeInv
<1>1. /\ UNCHANGED <<req, visited, found, answer, scanning, after, inventory, throughout>>
      /\ pc' = pc \/ pc' = [p \in Clients |-> "idle"]
      /\ Collector \in Clients
  BY StorageNodeAssumption DEF Crash, Rot, vars, fileVars, listVars, inventoryVars
<1>2. \A c \in throughout : exists(c)'
  <2>1. /\ stored \in [Chunks -> {"absent", "good", "bad"}]
        /\ \A c \in throughout : stored[c] # "absent"
    BY DEF ScanOK, exists, FilesInv, FilesTypeOK
  <2>2. stored' = stored \/ \E c \in Chunks : stored' = [stored EXCEPT ![c] = "bad"]
    BY DEF Crash, Rot, vars, fileVars
  <2>3. throughout' = throughout /\ throughout \subseteq Chunks
    BY <1>1 DEF ListsOK
  <2> QED
    BY <2>1, <2>2, <2>3 DEF exists
<1>3. AnswersOK'
  BY <1>1 DEF AnswersOK, Understood
<1>4. ListsOK'
  BY <1>1 DEF ListsOK
<1>5. ScanOK'
  BY <1>1, <1>2 DEF ScanOK, entries
<1>6. InventoryComplete'
  BY <1>1 DEF InventoryComplete
<1> QED
  BY <1>3, <1>4, <1>5, <1>6

(* The inductive invariant holds.                                          *)
THEOREM NodeInvHolds == Spec => []NodeInv
<1>1. Init => NodeInv
  <2> SUFFICES ASSUME Init PROVE NodeInv
    OBVIOUS
  <2>1. FilesInv
    BY DEF Init, FilesInv, FilesTypeOK, HandlersOK, OnChunk, AckedStored, NoTornChunk
  <2>2. \A p \in Clients : req[p].op \in DOMAIN Statuses /\ req[p].chunk = 0
    BY DEF Init, Statuses
  <2>3. AnswersOK
    BY <2>2 DEF Init, AnswersOK, Understood
  <2>4. ListsOK
    <3>1. inventory \in Seq(Chunks)
      BY DEF Init
    <3> QED
      BY <3>1 DEF Init, ListsOK
  <2>5. ScanOK /\ InventoryComplete
    BY DEF Init, ScanOK, InventoryComplete
  <2> QED
    BY <2>1, <2>3, <2>4, <2>5 DEF NodeInv
<1>2. NodeInv /\ [Next]_vars => NodeInv'
  <2> SUFFICES ASSUME NodeInv, [Next]_vars PROVE NodeInv'
    OBVIOUS
  <2>1. FilesInv'
    BY StepFiles, FilesKept, HandlersKept DEF NodeInv, FilesInv, FilesTypeOK
  <2>2. AnswersOK' /\ ListsOK' /\ ScanOK' /\ InventoryComplete'
    BY RequestKeeps, HandlerKeeps, ScanKeeps, ListKeeps, InventoryBeginsKeeps,
       InventoryGoesOnKeeps, FaultKeeps DEF Next, handle_chunk_collection
  <2> QED
    BY <2>1, <2>2 DEF NodeInv
<1> QED
  BY <1>1, <1>2, PTL DEF Spec

(* The node answers each method with the statuses of the API, and the      *)
(* state has its types.                                                    *)
THEOREM StoreTypeHolds == Spec => []StoreTypeOK
<1>1. NodeInv => StoreTypeOK
  <2> SUFFICES ASSUME NodeInv PROVE StoreTypeOK
    OBVIOUS
  <2>1. pc \in [Clients -> Operations \cup {"idle", "verify", "temporary", "rename", "read",
                                            "missing", "remove", "removed", "list"}]
    BY DEF NodeInv, FilesInv, HandlersOK, OnChunk, Operations
  <2>2. \A p \in Clients :
          /\ req[p].op \in DOMAIN Statuses /\ req[p].chunk \in Chunks \cup {0}
          /\ answer[p] = NoAnswer \/ answer[p].status \in Statuses[req[p].op]
    BY DEF NodeInv, AnswersOK, Understood
  <2> QED
    BY <2>1, <2>2 DEF NodeInv, FilesInv, FilesTypeOK, ListsOK, StoreTypeOK
<1> QED
  BY <1>1, NodeInvHolds, PTL

(* No client ever finds an answer wrong: the bytes of a 200 are those of   *)
(* the chunk whatever became of the file meanwhile, and every page is      *)
(* sorted and moves the cursor on.                                         *)
THEOREM AnswersUnderstoodHolds == Spec => []AnswersUnderstood
<1>1. NodeInv => AnswersUnderstood
  <2> SUFFICES ASSUME NodeInv, NEW p \in Clients
               PROVE  result(req[p], answer[p]) # "protocol_error"
    BY DEF AnswersUnderstood
  <2>1. req[p].op \in DOMAIN Statuses /\ Understood(req[p], answer[p])
    BY DEF NodeInv, AnswersOK
  <2>2. NoAnswer.status = 0
    BY DEF NoAnswer, Error
  <2>3. req[p].op \in {"head", "put", "get", "delete", "list", "none"}
    BY <2>1 DEF Statuses
  <2>4. result(req[p], NoAnswer) # "protocol_error"
    BY <2>2, <2>3 DEF result, has_chunk_result, put_chunk_result, get_chunk_result,
       delete_chunk_result, list_chunks_result, Expect, Lookup
  <2> QED
    BY <2>1, <2>4 DEF Understood
<1> QED
  BY <1>1, NodeInvHolds, PTL

(* An inventory has every chunk that was on the node from its beginning    *)
(* to its end, over any number of pages, with puts, deletes and            *)
(* corruptions beside it and walks of the directory in any order.          *)
THEOREM InventoryCompleteHolds == Spec => []InventoryComplete
<1>1. NodeInv => InventoryComplete
  BY DEF NodeInv
<1> QED
  BY <1>1, NodeInvHolds, PTL

=============================================================================
