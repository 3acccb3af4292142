----------------------------- MODULE StorageNode -----------------------------
(***************************************************************************)
(* A storage node: the handlers of StorageNodeService on the files of      *)
(* LocalChunkStore, and StorageNodeClient at the other end.  Nothing locks *)
(* the store, so a step is one operation on the file system.  The process  *)
(* may crash and the disk may corrupt a file.  Requests are well-formed    *)
(* and bodies arrive whole: the 400, 415 and 422 of others are left out.   *)
(***************************************************************************)
EXTENDS Naturals, Sequences, FiniteSets, HttpResponse

CONSTANTS Chunks,      \* chunk ids, in their order
          Clients,     \* the clients, with one request at a time
          Collector,   \* the client that takes the inventory, page by page
          PageLimit    \* kInventoryPageSize

ASSUME StorageNodeAssumption ==
    /\ Chunks \subseteq Nat \ {0} /\ IsFiniteSet(Chunks)
    /\ Collector \in Clients /\ PageLimit \in Nat \ {0}

VARIABLES
    stored,      \* stored[c]: the file of chunk c: "absent", "good" or "bad"
    pc, req,     \* the handler of each client's request
    visited,     \* list_chunks: the directory entries it has looked at
    found,       \* list_chunks: the chunks among them
    answer,      \* the last response each client has received
    scanning,    \* the inventory is under way
    after,       \* its cursor, 0 at the start
    inventory,   \* the chunk ids of its pages so far
    \* History:
    acked,       \* chunks whose PUT was answered 204 and that nobody took since
    since,       \* since[p]: chunks taken since p's handler looked for its file
    rotted,      \* chunks whose file the disk corrupted
    throughout   \* chunks that were there when the inventory began and ever since

fileVars == <<stored, acked, since, rotted, throughout>>
listVars == <<visited, found>>
inventoryVars == <<scanning, after, inventory>>
vars == <<fileVars, pc, req, listVars, answer, inventoryVars>>

NoAnswer == Error(0, "none")
Operations == {"head", "put", "get", "delete"}

Init ==
    /\ stored = [c \in Chunks |-> "absent"]
    /\ pc = [p \in Clients |-> "idle"] /\ req = [p \in Clients |-> [op |-> "none", chunk |-> 0]]
    /\ visited = [p \in Clients |-> {}] /\ found = [p \in Clients |-> {}]
    /\ answer = [p \in Clients |-> NoAnswer]
    /\ scanning = FALSE /\ after = 0 /\ inventory = <<>>
    /\ acked = {} /\ since = [p \in Clients |-> {}] /\ rotted = {} /\ throughout = {}

-----------------------------------------------------------------------------
Goto(p, where) == pc' = [pc EXCEPT ![p] = where]
Respond(p, a) == Goto(p, "idle") /\ answer' = [answer EXCEPT ![p] = a]
Fails(p) == Respond(p, InternalError) /\ UNCHANGED fileVars
NoContent == [Ok(<<>>) EXCEPT !.status = 204]

exists(c) == stored[c] # "absent"

\* is_regular_file: where the handler goes from here.
Look(p, there, elsewhere) ==
    /\ Goto(p, IF exists(req[p].chunk) THEN there ELSE elsewhere)
    /\ since' = [since EXCEPT ![p] = {}]
    /\ UNCHANGED <<stored, acked, rotted, throughout>>

Reading == {"verify", "read", "list"}

\* The good bytes of chunk c are gone from the node.
Taken(c) ==
    /\ acked' = acked \ {c}
    /\ since' = [p \in Clients |-> IF pc[p] \in Reading THEN since[p] \cup {c} ELSE since[p]]

\* LocalChunkStore::get reads and hashes the file, which may be one that was deleted or
\* corrupted after it was opened.
reads_good(p) == stored[req[p].chunk] = "good" \/ req[p].chunk \in since[p]
reads_bad(p) == stored[req[p].chunk] # "good"

-----------------------------------------------------------------------------
(* LocalChunkStore::put *)

put_begin(p) == pc[p] = "put" /\ Look(p, "verify", "temporary") /\ UNCHANGED answer

(* Mutant: a file that is there is not read. *)
put_verify_trusting(p) ==
    /\ pc[p] = "verify" /\ Respond(p, NoContent)
    /\ acked' = acked \cup ({req[p].chunk} \ since[p])
    /\ UNCHANGED <<stored, since, rotted, throughout>>

put_verify(p) ==
    /\ pc[p] = "verify"
    /\ \/ /\ reads_good(p) /\ Respond(p, NoContent)
          /\ acked' = acked \cup ({req[p].chunk} \ since[p])
          /\ UNCHANGED <<stored, since, rotted, throughout>>
       \/ reads_bad(p) /\ Fails(p)

(* Mutant: the bytes are written under the name of the chunk. *)
put_temporary_in_place(p) ==
    /\ pc[p] = "temporary"
    /\ stored' = [stored EXCEPT ![req[p].chunk] = "bad"]
    /\ Goto(p, "rename") /\ UNCHANGED <<answer, acked, since, rotted, throughout>>

\* mkstemp, write, fsync and close may fail; a crash leaves a file that nothing looks at again.
put_temporary(p) ==
    /\ pc[p] = "temporary"
    /\ \/ Goto(p, "rename") /\ UNCHANGED <<fileVars, answer>>
       \/ Fails(p)

put_rename(p) ==
    /\ pc[p] = "rename" /\ Respond(p, NoContent)
    /\ stored' = [stored EXCEPT ![req[p].chunk] = "good"]
    /\ acked' = acked \cup {req[p].chunk} /\ rotted' = rotted \ {req[p].chunk}
    /\ UNCHANGED <<since, throughout>>

-----------------------------------------------------------------------------
(* HEAD, GET and DELETE *)

contains(p) ==
    /\ pc[p] = "head" /\ UNCHANGED fileVars
    /\ Respond(p, IF exists(req[p].chunk) THEN Ok(<<>>) ELSE Error(404, "none"))

get_begin(p) == pc[p] = "get" /\ Look(p, "read", "missing") /\ UNCHANGED answer

get_missing(p) ==
    pc[p] = "missing" /\ Respond(p, Error(404, "chunk_not_found")) /\ UNCHANGED fileVars

(* Mutant: the bytes go out as they are. *)
get_unverified(p) ==
    /\ pc[p] = "read" /\ UNCHANGED fileVars
    /\ Respond(p, IF exists(req[p].chunk) THEN Ok(stored[req[p].chunk]) ELSE InternalError)

get(p) ==
    /\ pc[p] = "read" /\ UNCHANGED fileVars
    /\ \/ reads_good(p) /\ Respond(p, Ok("good"))
       \/ reads_bad(p) /\ Respond(p, InternalError)

remove_begin(p) == pc[p] = "delete" /\ Look(p, "remove", "removed") /\ UNCHANGED answer

(* Mutant: a chunk that is not there is an error. *)
remove_absent_not_found(p) ==
    pc[p] = "removed" /\ Respond(p, Error(404, "chunk_not_found")) /\ UNCHANGED fileVars

remove_absent(p) ==
    /\ pc[p] = "removed" /\ UNCHANGED fileVars
    /\ Respond(p, Ok([chunk |-> req[p].chunk, deleted |-> FALSE]))

\* The file may be gone: then is_regular_file fails, or the remove deletes nothing and nobody asks.
remove(p) ==
    LET c == req[p].chunk IN
    /\ pc[p] = "remove"
    /\ \/ /\ stored' = [stored EXCEPT ![c] = "absent"] /\ rotted' = rotted \ {c}
          /\ IF stored[c] = "good" THEN Taken(c) ELSE UNCHANGED <<acked, since>>
          /\ throughout' = throughout \ {c}
          /\ Respond(p, Ok([chunk |-> c, deleted |-> TRUE]))
       \/ ~exists(c) /\ Fails(p)

-----------------------------------------------------------------------------
(* LocalChunkStore::list_chunks *)

\* The directory is read entry by entry, in no order; a file that is deleted between
\* is_regular_file and file_size fails the request.
scan(p) ==
    /\ pc[p] = "list" /\ UNCHANGED fileVars
    /\ \E c \in Chunks \ visited[p] :
        /\ visited' = [visited EXCEPT ![p] = @ \cup {c}]
        /\ \/ /\ found' = [found EXCEPT ![p] = IF exists(c) THEN @ \cup {c} ELSE @]
              /\ UNCHANGED <<pc, answer>>
           \/ ~exists(c) /\ c \in since[p] /\ Respond(p, InternalError) /\ UNCHANGED found

\* A page: the first of the chunks after the cursor, in their order.
entries(page) == {page[i] : i \in DOMAIN page}
pages(rest) ==
    {page \in [1..(IF Cardinality(rest) < PageLimit THEN Cardinality(rest) ELSE PageLimit) -> rest] :
        /\ \A i, j \in DOMAIN page : i < j => page[i] < page[j]
        /\ \A c \in entries(page), d \in rest \ entries(page) : c < d}

(* Mutant: the cursor is the first chunk that does not fit. *)
next_after_excluded(rest, page) ==
    IF entries(page) = rest \/ page = <<>> THEN 0
    ELSE CHOOSE c \in rest \ entries(page) : \A d \in rest \ entries(page) : c <= d

\* 0 is null.
next_after(rest, page) == IF entries(page) = rest \/ page = <<>> THEN 0 ELSE page[Len(page)]

(* Mutant: the walk stops once there is a full page. *)
walked_page(p) == visited[p] = Chunks \/ Cardinality(found[p]) >= PageLimit

walked(p) == visited[p] = Chunks

list_chunks(p) ==
    LET rest == {c \in found[p] : c > req[p].chunk} IN
    /\ pc[p] = "list" /\ walked(p)
    /\ \E page \in pages(rest) : Respond(p, Ok([chunks |-> page, next |-> next_after(rest, page)]))
    /\ UNCHANGED <<fileVars, listVars>>

-----------------------------------------------------------------------------
(* The methods of StorageNodeClient, and the inventory of GcEngine::collect.   *)

Begin(p, op, c) ==
    /\ Goto(p, op) /\ req' = [req EXCEPT ![p] = [op |-> op, chunk |-> c]]
    /\ answer' = [answer EXCEPT ![p] = NoAnswer]
    /\ since' = [since EXCEPT ![p] = {}]
    /\ visited' = [visited EXCEPT ![p] = {}] /\ found' = [found EXCEPT ![p] = {}]
    /\ UNCHANGED <<stored, acked, rotted>>

Request(p) ==
    /\ pc[p] = "idle" /\ ~(p = Collector /\ scanning)
    /\ \E op \in Operations, c \in Chunks : Begin(p, op, c)
    /\ UNCHANGED <<inventoryVars, throughout>>

\* GcEngine checks the page and its cursor.
valid_page(cursor, page, next) ==
    /\ \A i \in 1..(Len(page) - 1) : page[i] < page[i + 1]
    /\ next # 0 => page # <<>> /\ next = page[Len(page)] /\ next > cursor

has_chunk_result(a) == IF a.status = 404 THEN "absent" ELSE Expect(200, a, TRUE)
put_chunk_result(a) == Expect(204, a, TRUE)
get_chunk_result(a) == Lookup(a, "chunk_not_found", a.body = "good")
delete_chunk_result(c, a) == Expect(200, a, a.body.chunk = c)
list_chunks_result(cursor, a) == Expect(200, a, valid_page(cursor, a.body.chunks, a.body.next))

result(r, a) ==
    CASE r.op = "head" -> has_chunk_result(a)
      [] r.op = "put" -> put_chunk_result(a)
      [] r.op = "get" -> get_chunk_result(a)
      [] r.op = "delete" -> delete_chunk_result(r.chunk, a)
      [] r.op = "list" -> list_chunks_result(r.chunk, a)
      [] r.op = "none" -> "api_error"

InventoryBegins ==
    /\ pc[Collector] = "idle" /\ ~scanning
    /\ scanning' = TRUE /\ after' = 0 /\ inventory' = <<>>
    /\ throughout' = {c \in Chunks : exists(c)}
    /\ Begin(Collector, "list", 0)

\* It gives up at the first error and ends at the page without a cursor.
InventoryGoesOn ==
    LET a == answer[Collector]
        accepted == result(req[Collector], a) = "value"
    IN  /\ pc[Collector] = "idle" /\ scanning
        /\ inventory' = IF accepted THEN inventory \o a.body.chunks ELSE <<>>
        /\ IF accepted /\ a.body.next # 0
           THEN /\ after' = a.body.next /\ Begin(Collector, "list", a.body.next)
                /\ UNCHANGED <<scanning, throughout>>
           ELSE /\ scanning' = FALSE /\ after' = 0
                /\ throughout' = IF accepted THEN throughout ELSE {}
                /\ UNCHANGED <<stored, acked, since, rotted, pc, req, listVars, answer>>

-----------------------------------------------------------------------------
(* The process crashes and is started again; the disk corrupts a file.     *)

Crash ==
    /\ \E p \in Clients : pc[p] # "idle"
    /\ pc' = [p \in Clients |-> "idle"]
    /\ UNCHANGED <<fileVars, req, listVars, answer, inventoryVars>>

Rot(c) ==
    /\ stored[c] = "good"
    /\ stored' = [stored EXCEPT ![c] = "bad"] /\ rotted' = rotted \cup {c} /\ Taken(c)
    /\ UNCHANGED <<pc, req, listVars, answer, inventoryVars, throughout>>

handle_request(p) ==
    \/ put_begin(p) \/ put_verify(p) \/ put_temporary(p) \/ put_rename(p)
    \/ contains(p) \/ get_begin(p) \/ get_missing(p) \/ get(p)
    \/ remove_begin(p) \/ remove_absent(p) \/ remove(p)

handle_chunk_collection(p) == scan(p) \/ list_chunks(p)

Next ==
    \/ \E p \in Clients :
        \/ Request(p)
        \/ handle_request(p) /\ UNCHANGED <<req, listVars, inventoryVars>>
        \/ handle_chunk_collection(p) /\ UNCHANGED <<req, inventoryVars>>
    \/ InventoryBegins \/ InventoryGoesOn
    \/ Crash \/ \E c \in Chunks : Rot(c)

Spec == Init /\ [][Next]_vars

-----------------------------------------------------------------------------
(* Properties.                                                             *)

Statuses ==
    [head |-> {200, 404}, put |-> {204, 500}, get |-> {200, 404, 500},
     delete |-> {200, 500}, list |-> {200, 500}, none |-> {}]

(* The types, with the statuses of each method of the API: what is not     *)
(* there is 404 to HEAD and GET and 200 to DELETE.                         *)
StoreTypeOK ==
    /\ stored \in [Chunks -> {"absent", "good", "bad"}]
    /\ pc \in [Clients -> Operations \cup {"idle", "verify", "temporary", "rename", "read",
                                           "missing", "remove", "removed", "list"}]
    /\ \A p \in Clients : /\ req[p].op \in DOMAIN Statuses /\ req[p].chunk \in Chunks \cup {0}
                          /\ answer[p] = NoAnswer \/ answer[p].status \in Statuses[req[p].op]
    /\ visited \in [Clients -> SUBSET Chunks] /\ found \in [Clients -> SUBSET Chunks]
    /\ scanning \in BOOLEAN /\ after \in Chunks \cup {0} /\ inventory \in Seq(Chunks)
    /\ acked \subseteq Chunks /\ rotted \subseteq Chunks /\ throughout \subseteq Chunks
    /\ since \in [Clients -> SUBSET Chunks]

(* A 204 for a PUT means that the whole chunk is in its file: nothing but  *)
(* a DELETE of the chunk or the disk takes it away again, whatever other   *)
(* requests are handled and wherever the process crashes.                  *)
AckedStored == \A c \in acked : stored[c] = "good"

(* The name of a chunk never stands for an incomplete file, at no step of  *)
(* a put and after no crash: a bad file is the work of the disk.           *)
NoTornChunk == \A c \in Chunks : stored[c] = "bad" => c \in rotted

(* The client's own checks of an answer never fail: a 200 for a GET has    *)
(* the chunk's bytes even when the file is deleted or corrupted beside it, *)
(* and every page of an inventory is sorted and moves the cursor on.       *)
AnswersUnderstood ==
    \A p \in Clients : pc[p] = "idle" => result(req[p], answer[p]) # "protocol_error"

(* An inventory misses no chunk that was there all the time, although its  *)
(* pages are read from a store that others put to and delete from: up to   *)
(* the cursor while it goes on, at all when it ended.                      *)
InventoryComplete ==
    \A c \in throughout : (\E i \in DOMAIN inventory : inventory[i] = c) \/ (scanning /\ c > after)

=============================================================================
