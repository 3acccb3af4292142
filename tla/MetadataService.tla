--------------------------- MODULE MetadataService ---------------------------
(***************************************************************************)
(* The metadata service: a handler per route (metadata_service.cpp and     *)
(* metadata_service_m8_routes.cpp).  A handler takes repository_mutex_     *)
(* around all its repository calls, so it is one step, and turns what the  *)
(* repository returns or throws into a status, an error code and a body.   *)
(* The requests come from MetadataClient, which sends well-formed ones     *)
(* only: the 400, 405 and 415 of a malformed request are left out.         *)
(***************************************************************************)
EXTENDS MetadataRepository, HttpResponse

CONSTANTS Clients,   \* processes that call the service
          Nobody,    \* the caller that no longer waits for its answer
          Stats      \* statistics a caller reports when it completes a run

ASSUME ServiceAssumption == Nobody \notin Clients /\ 0 \notin Stats

VARIABLES gcStats,     \* gc_runs: the physical statistics, 0 until the run is completed
          replStats,   \* replication_runs: the statistics
          answer,      \* the response each client's connection has received
          granted,     \* history: requests that were granted, with the body
          retracted    \* history: requests that were granted before and are refused now

statVars == <<gcStats, replStats>>
serviceVars == <<dbVars, statVars, answer, granted, retracted>>

NoAnswer == Error(0, "none")

\* Requests whose grant changes the database for good.
Committing == {"create_upload_session", "abort_upload_session", "finalize_upload",
               "start_gc_run", "complete_gc_run",
               "start_replication_run", "complete_replication_run"}

Respond(p, req, a) ==
    /\ IF p = Nobody THEN UNCHANGED answer ELSE answer' = [answer EXCEPT ![p] = a]
    /\ LET grant == [req |-> req, body |-> a.body]
           before == \E x \in granted : x.req = req
       IN  /\ granted' = IF req.op \in Committing /\ a.status = 200
                         THEN granted \cup {grant} ELSE granted
           /\ retracted' = IF before /\ a.status # 200
                           THEN retracted \cup {[op |-> req.op, error |-> a.error]} ELSE retracted

Grant(p, req, body) == Respond(p, req, Ok(body))
Refuse(p, req, a) == Respond(p, req, a) /\ UNCHANGED <<dbVars, statVars>>
Query(p, req, body) == Grant(p, req, body) /\ UNCHANGED <<dbVars, statVars>>

-----------------------------------------------------------------------------
(* Bodies *)

upload_session_body(s) == [session |-> s, placement |-> sessPlacement[s], state |-> sessState[s],
                    version |-> sessVersion[s]]
\* The constructor of UploadSession, on both sides of the connection.
valid_upload_session(b) ==
    /\ RF <= Cardinality(b.placement)
    /\ b.state = "committed" <=> b.version # NoVersion

gc_run_body(g) == [run |-> g, target |-> gcTarget[g], mode |-> gcMode[g], state |-> gcState[g],
                   stats |-> gcStats[g]]
replication_run_body(r) == [run |-> r, version |-> replVersion[r], layout |-> replLayout[r],
                            placement |-> replPlacement[r], state |-> replState[r],
                            stats |-> replStats[r]]

-----------------------------------------------------------------------------
(* Upload sessions *)

create_error == [conflict       |-> Error(409, "upload_session_conflict"),
                 gc_in_progress |-> Error(409, "gc_in_progress"),
                 invalid        |-> Error(400, "invalid_request")]

handle_create_upload_session(p, req) ==
    LET response == create_upload_session_response(req.session, req.placement) IN
    \/ /\ response = "created"
       /\ create_upload_session(req.session, req.placement)
       /\ UNCHANGED statVars /\ Grant(p, req, upload_session_body(req.session)')
    \/ response = "existing" /\ Query(p, req, upload_session_body(req.session))
    \/ response \in DOMAIN create_error /\ Refuse(p, req, create_error[response])

handle_get_upload_session(p, req) ==
    IF sessState[req.session] = "none"
    THEN Refuse(p, req, Error(404, "upload_session_not_found"))
    ELSE Query(p, req, upload_session_body(req.session))

(* Mutant: a committed session is aborted too. *)
handle_abort_upload_session_committed(p, req) ==
    LET s == req.session IN
    \/ sessState[s] = "none" /\ Refuse(p, req, Error(404, "upload_session_not_found"))
    \/ /\ sessState[s] # "none"
       /\ sessState' = [sessState EXCEPT ![s] = "aborted"]
       /\ UNCHANGED <<nodeVars, chunkVars, catalogVars, sessPlacement, sessVersion, sessLayout,
                      gcVars, replVars, statVars>>
       /\ Grant(p, req, upload_session_body(s)')

handle_abort_upload_session(p, req) ==
    LET s == req.session IN
    \/ sessState[s] = "none" /\ Refuse(p, req, Error(404, "upload_session_not_found"))
    \/ sessState[s] = "committed" /\ Refuse(p, req, Error(409, "upload_session_committed"))
    \/ sessState[s] = "aborted" /\ Query(p, req, upload_session_body(s))
    \/ /\ abort_upload_session(s)
       /\ UNCHANGED statVars /\ Grant(p, req, upload_session_body(s)')

finalize_error == [session_not_found      |-> Error(404, "upload_session_not_found"),
                   session_not_open       |-> Error(409, "upload_session_not_open"),
                   conflict               |-> Error(409, "finalize_conflict"),
                   chunk_under_replicated |-> Error(409, "chunk_under_replicated"),
                   version_retired        |-> Error(410, "artifact_version_retired")]

finalize_body(s, l) == [session |-> s, version |-> version_of(s, l), object |-> LayoutObject[l],
                        layout |-> l, state |-> "committed"]

handle_finalize_upload_session(p, req) ==
    LET s == req.session  l == req.layout  outcome == finalize_upload_outcome(s, l) IN
    \/ finalize_upload(s, l) /\ Grant(p, req, finalize_body(s, l)) /\ UNCHANGED statVars
    \/ outcome = "ok" /\ Query(p, req, finalize_body(s, l))
    \/ outcome \in DOMAIN finalize_error /\ Refuse(p, req, finalize_error[outcome])

handle_negotiate_chunks(p, req) ==
    LET s == req.session
        body == [session |-> s, available |-> [c \in req.chunks |-> available_node_ids(c)]]
    IN
    \/ sessState[s] = "none" /\ Refuse(p, req, Error(404, "upload_session_not_found"))
    \/ /\ sessState[s] \in {"committed", "aborted"}
       /\ Refuse(p, req, Error(409, "upload_session_not_open"))
    \/ /\ negotiate_chunks(s, req.chunks)
       /\ Grant(p, req, body) /\ UNCHANGED statVars

\* PUT of a location: the foreign key to chunks is the only thing that refuses it.
handle_location_routes(p, req) ==
    \/ /\ register_storage_location(req.chunk, req.node)
       /\ Respond(p, req, [Ok(<<>>) EXCEPT !.status = 204]) /\ UNCHANGED statVars
    \/ req.chunk \notin chunkRows /\ Refuse(p, req, Error(404, "chunk_not_found"))

-----------------------------------------------------------------------------
(* Garbage collection runs *)

gc_error == [none                         |-> Error(404, "gc_run_not_found"),
             run_conflict                 |-> Error(409, "gc_run_conflict"),
             another_run_open             |-> Error(409, "gc_already_in_progress"),
             open_upload_sessions_present |-> Error(409, "gc_blocked_by_open_upload_sessions"),
             run_not_open                 |-> Error(409, "gc_run_not_open"),
             replication_in_progress      |-> Error(409, "replication_in_progress")]

handle_start_gc_run(p, req) ==
    LET g == req.run  outcome == start_gc_run_outcome(g, req.node, req.mode) IN
    \/ /\ start_gc_run(g, req.node, req.mode)
       /\ UNCHANGED statVars /\ Grant(p, req, gc_run_body(g)')
    \/ outcome \in {"open", "completed"} /\ Query(p, req, gc_run_body(g))
    \/ outcome \in DOMAIN gc_error /\ Refuse(p, req, gc_error[outcome])

handle_get_gc_run(p, req) ==
    IF gcState[req.run] = "none" THEN Refuse(p, req, gc_error["none"])
    ELSE Query(p, req, gc_run_body(req.run))

handle_classify_gc_chunks(p, req) ==
    LET g == req.run IN
    IF gcState[g] # "open"
    THEN Refuse(p, req, gc_error[IF gcState[g] = "none" THEN "none" ELSE "run_not_open"])
    ELSE Query(p, req, [run |-> g, chunks |-> req.chunks,
                        collectible |-> classify_gc_chunks(req.chunks)])

(* Mutant: the statistics of a completed run are written again. *)
handle_complete_gc_run_rewrites(p, req) ==
    LET g == req.run  outcome == complete_gc_run_outcome(g) IN
    \/ /\ \/ complete_gc_run(g)
          \/ outcome = "completed" /\ UNCHANGED dbVars
       /\ gcStats' = [gcStats EXCEPT ![g] = req.stats] /\ UNCHANGED replStats
       /\ Grant(p, req, gc_run_body(g)')
    \/ outcome = "foreign_key_violation" /\ Refuse(p, req, InternalError)
    \/ outcome \in DOMAIN gc_error /\ Refuse(p, req, gc_error[outcome])

\* The statistics of the request that completes the run are stored and answered from then on.
handle_complete_gc_run(p, req) ==
    LET g == req.run  outcome == complete_gc_run_outcome(g) IN
    \/ /\ complete_gc_run(g)
       /\ gcStats' = [gcStats EXCEPT ![g] = req.stats] /\ UNCHANGED replStats
       /\ Grant(p, req, gc_run_body(g)')
    \/ outcome = "completed" /\ Query(p, req, gc_run_body(g))
    \/ outcome = "foreign_key_violation" /\ Refuse(p, req, InternalError)
    \/ outcome \in DOMAIN gc_error /\ Refuse(p, req, gc_error[outcome])

-----------------------------------------------------------------------------
(* Storage nodes *)

handle_list_storage_nodes(p, req) ==
    Query(p, req, [nodes |-> [n \in {m \in Nodes : nodeState[m] # "unregistered"} |-> nodeState[n]]])

handle_get_storage_node(p, req) ==
    IF nodeState[req.node] = "unregistered"
    THEN Refuse(p, req, Error(404, "storage_node_not_found"))
    ELSE Query(p, req, [node |-> req.node, state |-> nodeState[req.node]])

\* The body echoes the request.
handle_put_storage_node(p, req) ==
    /\ register_storage_node(req.node, req.state)
    /\ Grant(p, req, [node |-> req.node, state |-> req.state])
    /\ UNCHANGED statVars

-----------------------------------------------------------------------------
(* Restore plans *)

\* From one node, whose state is not looked at, and from all nodes.
resolve_restore_plan(v, n) ==
    {l \in layouts : LayoutObject[l] = v[2] /\ \A c \in LayoutChunks[l] : <<c, n>> \in locations}
resolve_multi_node_restore_plan(v) == restorable_layouts(v[2])

restore_plan_outcome(v, candidates) ==
    IF v \notin versions THEN "version_not_found"
    ELSE IF is_version_retired(v) THEN "version_retired"
    ELSE IF candidates = {} THEN "source_unavailable"
    ELSE "planned"

\* Of several candidates, the layout with the lowest id.
lowest(S) == CHOOSE l \in S : \A k \in S : l <= k

restore_plan_body(v, n, l) ==
    [version |-> v, node |-> n, object |-> v[2], layout |-> l, chunks |-> LayoutChunks[l]]

restore_sources(c) == {n \in available_node_ids(c) : nodeState[n] \in {"active", "draining"}}
multi_node_restore_plan_body(v, l) ==
    [version |-> v, object |-> v[2], layout |-> l,
     sources |-> [c \in LayoutChunks[l] |-> restore_sources(c)]]

restore_error == [version_not_found  |-> Error(404, "artifact_version_not_found"),
                  version_retired    |-> Error(410, "artifact_version_retired"),
                  source_unavailable |-> Error(409, "restore_source_unavailable")]

handle_get_restore_plan(p, req) ==
    LET candidates == resolve_restore_plan(req.version, req.node)
        outcome == restore_plan_outcome(req.version, candidates)
    IN  \/ /\ outcome = "planned"
           /\ Query(p, req, restore_plan_body(req.version, req.node, lowest(candidates)))
        \/ outcome \in DOMAIN restore_error /\ Refuse(p, req, restore_error[outcome])

handle_get_multi_node_restore_plan(p, req) ==
    LET candidates == resolve_multi_node_restore_plan(req.version)
        outcome == restore_plan_outcome(req.version, candidates)
    IN  \/ /\ outcome = "planned"
           /\ Query(p, req, multi_node_restore_plan_body(req.version, lowest(candidates)))
        \/ outcome \in DOMAIN restore_error /\ Refuse(p, req, restore_error[outcome])

-----------------------------------------------------------------------------
(* Replication runs *)

replication_error == [none               |-> Error(404, "replication_run_not_found"),
                      run_conflict       |-> Error(409, "replication_run_conflict"),
                      another_run_open   |-> Error(409, "replication_already_in_progress"),
                      gc_in_progress     |-> Error(409, "gc_in_progress"),
                      version_not_found  |-> Error(404, "artifact_version_not_found"),
                      version_retired    |-> Error(410, "artifact_version_retired"),
                      source_unavailable |-> Error(409, "restore_source_unavailable"),
                      under_replicated   |-> Error(409, "chunk_under_replicated"),
                      target_disabled    |-> Error(409, "replication_target_disabled"),
                      run_not_open       |-> Error(409, "replication_error")]

handle_start_replication_run(p, req) ==
    LET r == req.run  outcome == start_replication_run_outcome(r, req.version) IN
    \/ /\ start_replication_run(r, req.version)
       /\ UNCHANGED statVars /\ Grant(p, req, replication_run_body(r)')
    \/ outcome \in {"open", "completed"} /\ Query(p, req, replication_run_body(r))
    \/ outcome \in DOMAIN replication_error /\ Refuse(p, req, replication_error[outcome])

handle_get_replication_run(p, req) ==
    IF replState[req.run] = "none" THEN Refuse(p, req, replication_error["none"])
    ELSE Query(p, req, replication_run_body(req.run))

handle_get_replication_plan(p, req) ==
    LET r == req.run  outcome == get_replication_plan_outcome(r) IN
    \/ /\ outcome = "planned"
       /\ Query(p, req, [run |-> r, version |-> replVersion[r], layout |-> replLayout[r],
                         placement |-> replPlacement[r], sources |-> replication_sources(r)])
    \/ /\ replState[r] = "none"
       /\ Refuse(p, req, replication_error["none"])
    \/ /\ replState[r] # "none" /\ outcome \in {"run_not_open", "target_disabled"}
       /\ Refuse(p, req, replication_error[outcome])

(* Mutant: the statistics are not stored. *)
handle_complete_replication_run_unstored(p, req) ==
    LET r == req.run  outcome == complete_replication_run_outcome(r) IN
    \/ /\ complete_replication_run(r)
       /\ UNCHANGED statVars /\ Grant(p, req, replication_run_body(r)')
    \/ outcome = "completed" /\ Query(p, req, replication_run_body(r))
    \/ outcome \in DOMAIN replication_error /\ Refuse(p, req, replication_error[outcome])

handle_complete_replication_run(p, req) ==
    LET r == req.run  outcome == complete_replication_run_outcome(r) IN
    \/ /\ complete_replication_run(r)
       /\ replStats' = [replStats EXCEPT ![r] = req.stats] /\ UNCHANGED gcStats
       /\ Grant(p, req, replication_run_body(r)')
    \/ outcome = "completed" /\ Query(p, req, replication_run_body(r))
    \/ outcome \in DOMAIN replication_error /\ Refuse(p, req, replication_error[outcome])

-----------------------------------------------------------------------------
(* MetadataService::handle_request and try_handle_m8_routes *)
handle_request(p, req) ==
    \/ req.op = "create_upload_session" /\ handle_create_upload_session(p, req)
    \/ req.op = "get_upload_session" /\ handle_get_upload_session(p, req)
    \/ req.op = "abort_upload_session" /\ handle_abort_upload_session(p, req)
    \/ req.op = "finalize_upload" /\ handle_finalize_upload_session(p, req)
    \/ req.op = "negotiate_chunks" /\ handle_negotiate_chunks(p, req)
    \/ req.op = "register_storage_location" /\ handle_location_routes(p, req)
    \/ req.op = "start_gc_run" /\ handle_start_gc_run(p, req)
    \/ req.op = "get_gc_run" /\ handle_get_gc_run(p, req)
    \/ req.op = "classify_gc_chunks" /\ handle_classify_gc_chunks(p, req)
    \/ req.op = "complete_gc_run" /\ handle_complete_gc_run(p, req)
    \/ req.op = "get_restore_plan" /\ handle_get_restore_plan(p, req)

try_handle_m8_routes(p, req) ==
    \/ req.op = "list_storage_nodes" /\ handle_list_storage_nodes(p, req)
    \/ req.op = "get_storage_node" /\ handle_get_storage_node(p, req)
    \/ req.op = "register_storage_node" /\ handle_put_storage_node(p, req)
    \/ req.op = "get_multi_node_restore_plan" /\ handle_get_multi_node_restore_plan(p, req)
    \/ req.op = "start_replication_run" /\ handle_start_replication_run(p, req)
    \/ req.op = "get_replication_run" /\ handle_get_replication_run(p, req)
    \/ req.op = "get_replication_plan" /\ handle_get_replication_plan(p, req)
    \/ req.op = "complete_replication_run" /\ handle_complete_replication_run(p, req)

=============================================================================
