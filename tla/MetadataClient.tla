---------------------------- MODULE MetadataClient ----------------------------
(***************************************************************************)
(* MetadataClient, the connection it opens for every call, and the service *)
(* behind it.  A call that times out is not undone: the service may        *)
(* already have handled the request, may handle it later, or never gets    *)
(* it.  The caller learns none of that and may send the request again.     *)
(***************************************************************************)
EXTENDS MetadataService

CONSTANTS Calls,    \* the requests the clients may send
          MaxLate   \* bound: requests whose caller is gone, at a time

\* What the methods take: the arguments of each, by their types.
Requests ==
    [op : {"create_upload_session"}, session : Sessions, placement : SUBSET Nodes]
    \cup [op : {"get_upload_session", "abort_upload_session"}, session : Sessions]
    \cup [op : {"finalize_upload"}, session : Sessions, layout : Layouts]
    \cup [op : {"negotiate_chunks"}, session : Sessions, chunks : SUBSET Chunks]
    \cup [op : {"register_storage_location"}, chunk : Chunks, node : Nodes]
    \cup [op : {"start_gc_run"}, run : GcRuns, node : Nodes, mode : GcModes]
    \cup [op : {"get_gc_run"}, run : GcRuns]
    \cup [op : {"classify_gc_chunks"}, run : GcRuns, chunks : SUBSET Chunks]
    \cup [op : {"complete_gc_run"}, run : GcRuns, stats : Stats]
    \cup [op : {"get_restore_plan"}, version : Versions, node : Nodes]
    \cup [op : {"get_multi_node_restore_plan"}, version : Versions]
    \cup [op : {"list_storage_nodes"}]
    \cup [op : {"get_storage_node"}, node : Nodes]
    \cup [op : {"register_storage_node"}, node : Nodes, state : NodeStates \ {"unregistered"}]
    \cup [op : {"start_replication_run"}, run : ReplicationRuns, version : Versions]
    \cup [op : {"get_replication_run", "get_replication_plan"}, run : ReplicationRuns]
    \cup [op : {"complete_replication_run"}, run : ReplicationRuns, stats : Stats]

ASSUME ClientAssumption == MaxLate \in Nat /\ Calls \subseteq Requests

VARIABLES call,  \* the request of each client
          pc,    \* "idle", "sent" or "answered"
          late   \* requests still to be handled whose caller timed out

clientVars == <<call, pc, late>>
vars == <<serviceVars, clientVars>>

-----------------------------------------------------------------------------
(* What each method makes of the answer.                                   *)

parse_upload_session_json(a) == valid_upload_session(a.body)

create_upload_session_result(req, a) == Expect(200, a, parse_upload_session_json(a))
get_upload_session_result(req, a) ==
    Lookup(a, "upload_session_not_found", parse_upload_session_json(a))
abort_upload_session_result(req, a) == Expect(200, a, parse_upload_session_json(a))

finalize_upload_result(req, a) ==
    Expect(200, a, /\ a.body.session = req.session
                   /\ a.body.object = LayoutObject[req.layout]
                   /\ a.body.layout = req.layout
                   /\ a.body.state = "committed")

\* Whether the chunks are those of the request is left to the caller.
negotiate_chunks_result(req, a) == Expect(200, a, a.body.session = req.session)

register_storage_location_result(req, a) == Expect(204, a, TRUE)

start_gc_run_result(req, a) ==
    Expect(200, a, a.body.run = req.run /\ a.body.target = req.node /\ a.body.mode = req.mode)
get_gc_run_result(req, a) == Lookup(a, "gc_run_not_found", a.body.run = req.run)
classify_gc_chunks_result(req, a) ==
    Expect(200, a, a.body.run = req.run /\ a.body.chunks = req.chunks)
complete_gc_run_result(req, a) ==
    Expect(200, a, a.body.run = req.run /\ a.body.state = "completed")

\* The layout id is computed again from the object and the chunks.
get_restore_plan_result(req, a) ==
    Expect(200, a, /\ a.body.version = req.version /\ a.body.node = req.node
                   /\ a.body.object = LayoutObject[a.body.layout]
                   /\ a.body.chunks = LayoutChunks[a.body.layout])
\* Here the ids are taken as they come.
get_multi_node_restore_plan_result(req, a) == Expect(200, a, a.body.version = req.version)

register_storage_node_result(req, a) ==
    Expect(200, a, a.body = [node |-> req.node, state |-> req.state])
get_storage_node_result(req, a) == Lookup(a, "storage_node_not_found", TRUE)
list_storage_nodes_result(req, a) == Expect(200, a, TRUE)

\* The version of the answer is not compared.
start_replication_run_result(req, a) == Expect(200, a, a.body.run = req.run)
get_replication_run_result(req, a) == Lookup(a, "replication_run_not_found", a.body.run = req.run)
get_replication_plan_result(req, a) == Expect(200, a, TRUE)
complete_replication_run_result(req, a) ==
    Expect(200, a, a.body.run = req.run /\ a.body.state = "completed")

result(req, a) ==
    CASE req.op = "create_upload_session" -> create_upload_session_result(req, a)
      [] req.op = "get_upload_session" -> get_upload_session_result(req, a)
      [] req.op = "abort_upload_session" -> abort_upload_session_result(req, a)
      [] req.op = "finalize_upload" -> finalize_upload_result(req, a)
      [] req.op = "negotiate_chunks" -> negotiate_chunks_result(req, a)
      [] req.op = "register_storage_location" -> register_storage_location_result(req, a)
      [] req.op = "start_gc_run" -> start_gc_run_result(req, a)
      [] req.op = "get_gc_run" -> get_gc_run_result(req, a)
      [] req.op = "classify_gc_chunks" -> classify_gc_chunks_result(req, a)
      [] req.op = "complete_gc_run" -> complete_gc_run_result(req, a)
      [] req.op = "get_restore_plan" -> get_restore_plan_result(req, a)
      [] req.op = "get_multi_node_restore_plan" -> get_multi_node_restore_plan_result(req, a)
      [] req.op = "list_storage_nodes" -> list_storage_nodes_result(req, a)
      [] req.op = "get_storage_node" -> get_storage_node_result(req, a)
      [] req.op = "register_storage_node" -> register_storage_node_result(req, a)
      [] req.op = "start_replication_run" -> start_replication_run_result(req, a)
      [] req.op = "get_replication_run" -> get_replication_run_result(req, a)
      [] req.op = "get_replication_plan" -> get_replication_plan_result(req, a)
      [] req.op = "complete_replication_run" -> complete_replication_run_result(req, a)

-----------------------------------------------------------------------------
(* A call: HttpClient::request on the client's side, Session of HttpServer *)
(* on the other.                                                           *)

NoCall == [op |-> "none"]

Init ==
    /\ RepositoryInit({})
    /\ gcStats = [g \in GcRuns |-> 0]
    /\ replStats = [r \in ReplicationRuns |-> 0]
    /\ answer = [p \in Clients |-> NoAnswer]
    /\ granted = {} /\ retracted = {}
    /\ call = [p \in Clients |-> NoCall]
    /\ pc = [p \in Clients |-> "idle"]
    /\ late = {}

Serve(p, req) == handle_request(p, req) \/ try_handle_m8_routes(p, req)

Request(p, req) ==
    /\ pc[p] = "idle"
    /\ call' = [call EXCEPT ![p] = req]
    /\ pc' = [pc EXCEPT ![p] = "sent"]
    /\ UNCHANGED <<late, serviceVars>>

Handle(p) ==
    /\ pc[p] = "sent"
    /\ pc' = [pc EXCEPT ![p] = "answered"]
    /\ UNCHANGED <<call, late>>
    /\ Serve(p, call[p])

\* Or the answer is lost: the service does not see the difference.
Receive(p) ==
    /\ pc[p] = "answered"
    /\ pc' = [pc EXCEPT ![p] = "idle"]
    /\ call' = [call EXCEPT ![p] = NoCall]
    /\ answer' = [answer EXCEPT ![p] = NoAnswer]
    /\ UNCHANGED <<late, dbVars, statVars, granted, retracted>>

Queries == {"get_upload_session", "get_gc_run", "classify_gc_chunks", "get_restore_plan",
            "get_multi_node_restore_plan", "list_storage_nodes", "get_storage_node",
            "get_replication_run", "get_replication_plan"}

\* The request is lost, or is still on its way (a late query has no effect).
Timeout(p) ==
    /\ pc[p] = "sent"
    /\ pc' = [pc EXCEPT ![p] = "idle"]
    /\ \/ UNCHANGED late
       \/ /\ call[p].op \notin Queries /\ Cardinality(late) < MaxLate
          /\ late' = late \cup {call[p]}
    /\ call' = [call EXCEPT ![p] = NoCall]
    /\ UNCHANGED serviceVars

HandleLate(req) ==
    /\ req \in late
    /\ Serve(Nobody, req)
    /\ late' = late \ {req}
    /\ UNCHANGED <<call, pc>>

Retire(R) ==
    /\ run_lifecycle(R)
    /\ UNCHANGED <<statVars, answer, granted, retracted, clientVars>>

Next ==
    \/ \E p \in Clients, req \in Calls : Request(p, req)
    \/ \E p \in Clients : Handle(p) \/ Receive(p) \/ Timeout(p)
    \/ \E req \in late : HandleLate(req)
    \/ \E R \in (SUBSET versions) \ {{}} : Retire(R)

Spec == Init /\ [][Next]_vars

-----------------------------------------------------------------------------
(* Properties.                                                             *)

ServiceTypeOK ==
    /\ RepositoryTypeOK
    /\ gcStats \in [GcRuns -> Stats \cup {0}] /\ replStats \in [ReplicationRuns -> Stats \cup {0}]
    /\ \A g \in GcRuns : gcStats[g] = 0 <=> gcState[g] # "completed"
    /\ \A r \in ReplicationRuns : replStats[r] = 0 <=> replState[r] # "completed"
    /\ call \in [Clients -> Calls \cup {NoCall}] /\ pc \in [Clients -> {"idle", "sent", "answered"}]
    /\ late \subseteq Calls

(* Whatever the requests that were handled between a request and its       *)
(* answer, and however often it was sent before: the client method accepts *)
(* what the service answers (no RemoteProtocolError), and the service      *)
(* never fails but for the foreign key of a layout under repair.           *)
AnswersAccepted ==
    \A p \in Clients : pc[p] = "answered" =>
        /\ result(call[p], answer[p]) # "protocol_error"
        /\ answer[p] = InternalError => call[p].op = "complete_gc_run"

(* What a granted request promised its caller stays true in the database,  *)
(* whatever is sent, resent or handled late afterwards.                    *)
Kept(req, body) ==
    CASE req.op = "create_upload_session" ->
            sessState[req.session] # "none" /\ sessPlacement[req.session] = body.placement
      [] req.op = "abort_upload_session" -> sessState[req.session] = "aborted"
      [] req.op = "finalize_upload" ->
            /\ sessState[req.session] = "committed" /\ sessVersion[req.session] = body.version
            /\ body.version \in versions
      [] req.op \in {"start_gc_run", "complete_gc_run"} ->
            /\ gcTarget[req.run] = body.target /\ gcMode[req.run] = body.mode
            /\ gcState[req.run] \in {body.state, "completed"}
      [] req.op \in {"start_replication_run", "complete_replication_run"} ->
            /\ replVersion[req.run] = body.version /\ replLayout[req.run] = body.layout
            /\ replPlacement[req.run] = body.placement
            /\ replState[req.run] \in {body.state, "completed"}

GrantsKept == \A x \in granted : Kept(x.req, x.body)

(* "Completed run retry returns stored stats": all the callers that        *)
(* completed one run, with statistics of their own, were told the same.    *)
CompletionsAgree ==
    \A x, y \in granted :
        /\ x.req.op = y.req.op /\ x.req.op \in {"complete_gc_run", "complete_replication_run"}
        /\ x.req.run = y.req.run
        => x.body = y.body

(* A request that was granted and is sent again, because its answer was    *)
(* lost, is granted again: it is refused only once the session is past     *)
(* "open" or its version retired, or, for a repair, while a GC run is open.*)
RetriesGranted ==
    retracted \subseteq
        {[op |-> "create_upload_session", error |-> "upload_session_conflict"],
         [op |-> "finalize_upload", error |-> "artifact_version_retired"],
         [op |-> "start_replication_run", error |-> "gc_in_progress"]}

=============================================================================
