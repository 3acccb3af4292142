------------------------ MODULE MetadataClient_proofs ------------------------
(***************************************************************************)
(* Machine-checked proofs about module MetadataClient, for every set of    *)
(* clients, sessions, runs, chunks, nodes and requests.                    *)
(***************************************************************************)
EXTENDS MetadataClient, MetadataRepository_proofs, FiniteSetTheorems, WellFoundedInduction,
        NaturalsInduction

USE DEF nodeVars, chunkVars, catalogVars, sessVars, gcVars, replVars, dbVars, statVars,
        clientVars, serviceVars, vars

-----------------------------------------------------------------------------
(* Requests: the fields that each kind has, and their types.               *)

LEMMA RequestTypes ==
    ASSUME NEW req \in Calls
    PROVE
    /\ req.op \in {"create_upload_session", "get_upload_session", "abort_upload_session",
                   "finalize_upload", "negotiate_chunks", "register_storage_location",
                   "start_gc_run", "get_gc_run", "classify_gc_chunks", "complete_gc_run",
                   "get_restore_plan", "get_multi_node_restore_plan", "list_storage_nodes",
                   "get_storage_node", "register_storage_node", "start_replication_run",
                   "get_replication_run", "get_replication_plan", "complete_replication_run"}
    /\ req.op \in {"create_upload_session", "get_upload_session", "abort_upload_session",
                   "finalize_upload", "negotiate_chunks"} => req.session \in Sessions
    /\ req.op = "create_upload_session" => req.placement \in SUBSET Nodes
    /\ req.op = "finalize_upload" => req.layout \in Layouts
    /\ req.op \in {"negotiate_chunks", "classify_gc_chunks"} => req.chunks \in SUBSET Chunks
    /\ req.op = "register_storage_location" => req.chunk \in Chunks
    /\ req.op \in {"register_storage_location", "start_gc_run", "get_restore_plan",
                   "get_storage_node", "register_storage_node"} => req.node \in Nodes
    /\ req.op \in {"start_gc_run", "get_gc_run", "classify_gc_chunks", "complete_gc_run"}
            => req.run \in GcRuns
    /\ req.op = "start_gc_run" => req.mode \in GcModes
    /\ req.op \in {"complete_gc_run", "complete_replication_run"} => req.stats \in Stats
    /\ req.op \in {"get_restore_plan", "get_multi_node_restore_plan", "start_replication_run"}
            => req.version \in Versions
    /\ req.op = "register_storage_node" => req.state \in NodeStates
    /\ req.op \in {"start_replication_run", "get_replication_run", "get_replication_plan",
                   "complete_replication_run"} => req.run \in ReplicationRuns
<1> req \in Requests
    BY ClientAssumption
<1> QED
    BY DEF Requests

-----------------------------------------------------------------------------
(* Steps: what a handler does to the tables is one transaction, and the    *)
(* statistics of a run are written by the one that completes it.           *)

ServiceStep ==
    \/ UNCHANGED <<dbVars, statVars>>
    \/ /\ UNCHANGED statVars
       /\ \/ \E n \in Nodes, st \in NodeStates : register_storage_node(n, st)
          \/ \E s \in Sessions, B \in SUBSET Chunks : negotiate_chunks(s, B)
          \/ \E c \in Chunks, n \in Nodes : register_storage_location(c, n)
          \/ \E s \in Sessions, P \in SUBSET Nodes : create_upload_session(s, P)
          \/ \E s \in Sessions : abort_upload_session(s)
          \/ \E s \in Sessions, l \in Layouts : finalize_upload(s, l)
          \/ \E g \in GcRuns, n \in Nodes, mode \in GcModes : start_gc_run(g, n, mode)
          \/ \E r \in ReplicationRuns, v \in Versions : start_replication_run(r, v)
          \/ \E R \in SUBSET versions : run_lifecycle(R)
    \/ \E g \in GcRuns, st \in Stats : /\ complete_gc_run(g)
                                       /\ gcStats' = [gcStats EXCEPT ![g] = st]
                                       /\ UNCHANGED replStats
    \/ \E r \in ReplicationRuns, st \in Stats : /\ complete_replication_run(r)
                                                /\ replStats' = [replStats EXCEPT ![r] = st]
                                                /\ UNCHANGED gcStats

LEMMA ServeStep ==
    ASSUME NEW p, NEW req \in Calls, Serve(p, req)
    PROVE  ServiceStep
<1> USE RequestTypes DEF Query, Refuse
<1>1. CASE req.op = "create_upload_session" /\ handle_create_upload_session(p, req)
    BY <1>1 DEF ServiceStep, handle_create_upload_session
<1>2. CASE req.op = "get_upload_session" /\ handle_get_upload_session(p, req)
    BY <1>2 DEF ServiceStep, handle_get_upload_session
<1>3. CASE req.op = "abort_upload_session" /\ handle_abort_upload_session(p, req)
    BY <1>3 DEF ServiceStep, handle_abort_upload_session
<1>4. CASE req.op = "finalize_upload" /\ handle_finalize_upload_session(p, req)
    BY <1>4 DEF ServiceStep, handle_finalize_upload_session
<1>5. CASE req.op = "negotiate_chunks" /\ handle_negotiate_chunks(p, req)
    BY <1>5 DEF ServiceStep, handle_negotiate_chunks
<1>6. CASE req.op = "register_storage_location" /\ handle_location_routes(p, req)
    BY <1>6 DEF ServiceStep, handle_location_routes
<1>7. CASE req.op = "start_gc_run" /\ handle_start_gc_run(p, req)
    BY <1>7 DEF ServiceStep, handle_start_gc_run
<1>8. CASE req.op = "get_gc_run" /\ handle_get_gc_run(p, req)
    BY <1>8 DEF ServiceStep, handle_get_gc_run
<1>9. CASE req.op = "classify_gc_chunks" /\ handle_classify_gc_chunks(p, req)
    BY <1>9 DEF ServiceStep, handle_classify_gc_chunks
<1>10. CASE req.op = "complete_gc_run" /\ handle_complete_gc_run(p, req)
    BY <1>10 DEF ServiceStep, handle_complete_gc_run
<1>11. CASE req.op = "get_restore_plan" /\ handle_get_restore_plan(p, req)
    BY <1>11 DEF ServiceStep, handle_get_restore_plan
<1>12. CASE req.op = "list_storage_nodes" /\ handle_list_storage_nodes(p, req)
    BY <1>12 DEF ServiceStep, handle_list_storage_nodes
<1>13. CASE req.op = "get_storage_node" /\ handle_get_storage_node(p, req)
    BY <1>13 DEF ServiceStep, handle_get_storage_node
<1>14. CASE req.op = "register_storage_node" /\ handle_put_storage_node(p, req)
    BY <1>14 DEF ServiceStep, handle_put_storage_node
<1>15. CASE req.op = "get_multi_node_restore_plan" /\ handle_get_multi_node_restore_plan(p, req)
    BY <1>15 DEF ServiceStep, handle_get_multi_node_restore_plan
<1>16. CASE req.op = "start_replication_run" /\ handle_start_replication_run(p, req)
    BY <1>16 DEF ServiceStep, handle_start_replication_run
<1>17. CASE req.op = "get_replication_run" /\ handle_get_replication_run(p, req)
    BY <1>17 DEF ServiceStep, handle_get_replication_run
<1>18. CASE req.op = "get_replication_plan" /\ handle_get_replication_plan(p, req)
    BY <1>18 DEF ServiceStep, handle_get_replication_plan
<1>19. CASE req.op = "complete_replication_run" /\ handle_complete_replication_run(p, req)
    BY <1>19 DEF ServiceStep, handle_complete_replication_run
<1> QED
    BY <1>1, <1>2, <1>3, <1>4, <1>5, <1>6, <1>7, <1>8, <1>9, <1>10, <1>11, <1>12, <1>13, <1>14,
       <1>15, <1>16, <1>17, <1>18, <1>19
       DEF Serve, handle_request, try_handle_m8_routes

LEMMA ServiceIsRepository ==
    ASSUME ServiceStep PROVE RepositoryStep
BY DEF ServiceStep, RepositoryStep

LEMMA NextStep ==
    ASSUME ServiceTypeOK, [Next]_vars PROVE ServiceStep
<1>1. ASSUME NEW p \in Clients, Handle(p) PROVE ServiceStep
  <2>1. /\ call[p] \in Calls \cup {NoCall}
        /\ Serve(p, call[p])
    BY <1>1 DEF Handle, ServiceTypeOK
  <2>2. CASE call[p] \in Calls
    BY <2>1, <2>2, ServeStep
  <2>3. CASE call[p] = NoCall
    BY <2>1, <2>3 DEF NoCall, Serve, handle_request, try_handle_m8_routes
  <2> QED
    BY <2>1, <2>2, <2>3
<1>2. ASSUME NEW req \in late, HandleLate(req) PROVE ServiceStep
    BY <1>2, ServeStep DEF HandleLate, ServiceTypeOK
<1>3. ASSUME NEW R \in (SUBSET versions) \ {{}}, Retire(R) PROVE ServiceStep
    BY <1>3 DEF Retire, ServiceStep
<1>4. ASSUME NEW p \in Clients, NEW req \in Calls, Request(p, req) PROVE ServiceStep
    BY <1>4 DEF Request, ServiceStep
<1>5. ASSUME NEW p \in Clients, Receive(p) PROVE ServiceStep
    BY <1>5 DEF Receive, ServiceStep
<1>6. ASSUME NEW p \in Clients, Timeout(p) PROVE ServiceStep
    BY <1>6 DEF Timeout, ServiceStep
<1>7. CASE UNCHANGED vars
    BY <1>7 DEF ServiceStep
<1> QED
    BY <1>1, <1>2, <1>3, <1>4, <1>5, <1>6, <1>7 DEF Next

-----------------------------------------------------------------------------
(* Types, and statistics that are there exactly when the run is completed. *)

LEMMA CompletesOpenRun ==
    ASSUME RepositoryTypeOK
    PROVE  /\ \A g \in GcRuns : complete_gc_run(g) =>
                gcState[g] = "open" /\ gcState' = [gcState EXCEPT ![g] = "completed"]
           /\ \A r \in ReplicationRuns : complete_replication_run(r) =>
                replState[r] = "open" /\ replState' = [replState EXCEPT ![r] = "completed"]
BY DEF RepositoryTypeOK, RunStates, complete_gc_run, complete_gc_run_outcome,
       complete_replication_run, complete_replication_run_outcome

LEMMA StartsNewRun ==
    ASSUME RepositoryTypeOK
    PROVE  /\ \A g \in GcRuns, n \in Nodes, mode \in GcModes : start_gc_run(g, n, mode) =>
                gcState[g] = "none" /\ gcState' = [gcState EXCEPT ![g] = "open"]
           /\ \A r \in ReplicationRuns, v \in Versions : start_replication_run(r, v) =>
                replState[r] = "none" /\ replState' = [replState EXCEPT ![r] = "open"]
BY DEF RepositoryTypeOK, RunStates, start_gc_run, start_gc_run_outcome,
       start_replication_run, start_replication_run_outcome

StatsTypeOK ==
    /\ gcStats \in [GcRuns -> Stats \cup {0}] /\ replStats \in [ReplicationRuns -> Stats \cup {0}]
    /\ \A g \in GcRuns : gcStats[g] = 0 <=> gcState[g] # "completed"
    /\ \A r \in ReplicationRuns : replStats[r] = 0 <=> replState[r] # "completed"

LEMMA StatsTypes ==
    ASSUME RepositoryTypeOK, StatsTypeOK, ServiceStep
    PROVE  StatsTypeOK'
<1> USE ServiceAssumption DEF StatsTypeOK
<1>1. CASE UNCHANGED <<dbVars, statVars>>
    BY <1>1
<1>2. ASSUME NEW n \in Nodes, NEW st \in NodeStates, register_storage_node(n, st),
             UNCHANGED statVars
      PROVE  StatsTypeOK'
    BY <1>2 DEF register_storage_node
<1>3. ASSUME NEW s \in Sessions, NEW B \in SUBSET Chunks, negotiate_chunks(s, B),
             UNCHANGED statVars
      PROVE  StatsTypeOK'
    BY <1>3 DEF negotiate_chunks
<1>4. ASSUME NEW c \in Chunks, NEW n \in Nodes, register_storage_location(c, n),
             UNCHANGED statVars
      PROVE  StatsTypeOK'
    BY <1>4 DEF register_storage_location
<1>5. ASSUME NEW s \in Sessions, NEW P \in SUBSET Nodes, create_upload_session(s, P),
             UNCHANGED statVars
      PROVE  StatsTypeOK'
    BY <1>5 DEF create_upload_session
<1>6. ASSUME NEW s \in Sessions, abort_upload_session(s), UNCHANGED statVars PROVE StatsTypeOK'
    BY <1>6 DEF abort_upload_session
<1>7. ASSUME NEW s \in Sessions, NEW l \in Layouts, finalize_upload(s, l), UNCHANGED statVars
      PROVE  StatsTypeOK'
    BY <1>7 DEF finalize_upload
<1>8. ASSUME NEW g \in GcRuns, NEW n \in Nodes, NEW mode \in GcModes, start_gc_run(g, n, mode),
             UNCHANGED statVars
      PROVE  StatsTypeOK'
  <2>1. gcState[g] = "none" /\ gcState' = [gcState EXCEPT ![g] = "open"]
    BY <1>8, StartsNewRun
  <2>2. \A h \in GcRuns : gcState'[h] = "completed" <=> gcState[h] = "completed"
    BY <2>1 DEF RepositoryTypeOK
  <2> QED
    BY <1>8, <2>2 DEF start_gc_run
<1>9. ASSUME NEW g \in GcRuns, NEW st \in Stats, complete_gc_run(g),
             gcStats' = [gcStats EXCEPT ![g] = st], UNCHANGED replStats
      PROVE  StatsTypeOK'
  <2>1. gcState' = [gcState EXCEPT ![g] = "completed"]
    BY <1>9, CompletesOpenRun
  <2> QED
    BY <1>9, <2>1 DEF complete_gc_run, RepositoryTypeOK
<1>10. ASSUME NEW r \in ReplicationRuns, NEW v \in Versions, start_replication_run(r, v),
              UNCHANGED statVars
       PROVE  StatsTypeOK'
  <2>1. replState[r] = "none" /\ replState' = [replState EXCEPT ![r] = "open"]
    BY <1>10, StartsNewRun
  <2>2. \A q \in ReplicationRuns : replState'[q] = "completed" <=> replState[q] = "completed"
    BY <2>1 DEF RepositoryTypeOK
  <2> QED
    BY <1>10, <2>2 DEF start_replication_run
<1>11. ASSUME NEW r \in ReplicationRuns, NEW st \in Stats, complete_replication_run(r),
              replStats' = [replStats EXCEPT ![r] = st], UNCHANGED gcStats
       PROVE  StatsTypeOK'
  <2>1. replState' = [replState EXCEPT ![r] = "completed"]
    BY <1>11, CompletesOpenRun
  <2> QED
    BY <1>11, <2>1 DEF complete_replication_run, RepositoryTypeOK
<1>12. ASSUME NEW R \in SUBSET versions, run_lifecycle(R), UNCHANGED statVars PROVE StatsTypeOK'
    BY <1>12 DEF run_lifecycle
<1> QED
    BY <1>1, <1>2, <1>3, <1>4, <1>5, <1>6, <1>7, <1>8, <1>9, <1>10, <1>11, <1>12 DEF ServiceStep

\* A client that is not idle has a request (NoCall would be a late request otherwise).
CallTypeOK ==
    /\ \A p \in Clients : pc[p] # "idle" => call[p] \in Calls
    /\ call \in [Clients -> Calls \cup {NoCall}] /\ pc \in [Clients -> {"idle", "sent", "answered"}]
    /\ late \subseteq Calls

LEMMA CallTypes ==
    ASSUME CallTypeOK, [Next]_vars PROVE CallTypeOK'
<1> USE DEF CallTypeOK
<1>1. ASSUME NEW p \in Clients, NEW req \in Calls, Request(p, req) PROVE CallTypeOK'
    BY <1>1 DEF Request
<1>2. ASSUME NEW p \in Clients, Handle(p) PROVE CallTypeOK'
    BY <1>2 DEF Handle
<1>3. ASSUME NEW p \in Clients, Receive(p) PROVE CallTypeOK'
    BY <1>3 DEF Receive
<1>4. ASSUME NEW p \in Clients, Timeout(p) PROVE CallTypeOK'
  <2>1. call[p] \in Calls
    BY <1>4 DEF Timeout
  <2> QED
    BY <1>4, <2>1 DEF Timeout
<1>5. ASSUME NEW req \in late, HandleLate(req) PROVE CallTypeOK'
    BY <1>5 DEF HandleLate
<1>6. ASSUME NEW R \in (SUBSET versions) \ {{}}, Retire(R) PROVE CallTypeOK'
    BY <1>6 DEF Retire
<1>7. CASE UNCHANGED vars
    BY <1>7
<1> QED
    BY <1>1, <1>2, <1>3, <1>4, <1>5, <1>6, <1>7 DEF Next

ServiceInv == RepositoryTypeOK /\ StatsTypeOK /\ CallTypeOK

LEMMA ServiceInit == Init => ServiceInv
<1> SUFFICES ASSUME Init PROVE ServiceInv
    OBVIOUS
<1>1. (CHOOSE n \in Nodes : TRUE) \in Nodes
    BY PlacementAssumption
<1>2. RepositoryTypeOK
    BY <1>1 DEF Init, RepositoryInit, RepositoryTypeOK, NodeStates, SessionStates, RunStates,
                GcModes
<1>3. StatsTypeOK /\ CallTypeOK
    BY DEF Init, RepositoryInit, StatsTypeOK, CallTypeOK
<1> QED
    BY <1>2, <1>3 DEF ServiceInv

LEMMA ServiceNext ==
    ASSUME ServiceInv, [Next]_vars PROVE ServiceStep /\ ServiceInv'
<1>1. ServiceTypeOK
    BY DEF ServiceInv, ServiceTypeOK, StatsTypeOK, CallTypeOK
<1>2. ServiceStep
    BY <1>1, NextStep
<1> QED
    BY <1>2, RepositoryTypes, ServiceIsRepository, StatsTypes, CallTypes DEF ServiceInv

(* Every table, every statistic and every request keeps its type, and a    *)
(* run has its statistics exactly from the request that completed it.      *)
THEOREM ServiceTypes == Spec => []ServiceTypeOK
<1>1. Spec => []ServiceInv
    BY ServiceInit, ServiceNext, PTL DEF Spec
<1>2. ServiceInv => ServiceTypeOK
    BY DEF ServiceInv, ServiceTypeOK, StatsTypeOK, CallTypeOK
<1> QED
    BY <1>1, <1>2, PTL

-----------------------------------------------------------------------------
(* Answers: the client methods accept them.                                *)

(* The records the constructor of UploadSession accepts, at rest. *)
SessionsValid ==
    \A s \in Sessions :
        IF sessState[s] = "none" THEN sessVersion[s] = NoVersion
        ELSE valid_upload_session(upload_session_body(s))

LEMMA SessionsStayValid ==
    ASSUME RepositoryTypeOK, SessionsValid, RepositoryStep
    PROVE  SessionsValid'
<1> USE PlacementAssumption, RepositoryAssumption
        DEF SessionsValid, valid_upload_session, upload_session_body, RepositoryTypeOK
<1>1. ASSUME UNCHANGED <<sessState, sessPlacement, sessVersion>> PROVE SessionsValid'
    BY <1>1
<1>2. ASSUME NEW s \in Sessions, NEW P \in SUBSET Nodes, create_upload_session(s, P)
      PROVE  SessionsValid'
  <2>1. sessState[s] = "none" /\ RF <= Cardinality(P)
    <3>1. create_upload_session_outcome(s, P) = "created"
      BY <1>2 DEF create_upload_session
    <3>2. IsFiniteSet(P)
      BY FS_Subset
    <3>3. Cardinality(P) \in Nat
      BY <3>2, FS_CardinalityType
    <3> QED
      BY <3>1, <3>3 DEF create_upload_session_outcome
  <2> QED
    BY <1>2, <2>1 DEF create_upload_session
<1>3. ASSUME NEW s \in Sessions, abort_upload_session(s) PROVE SessionsValid'
    BY <1>3 DEF abort_upload_session
<1>4. ASSUME NEW s \in Sessions, NEW l \in Layouts, finalize_upload(s, l) PROVE SessionsValid'
  <2>1. sessState[s] # "none"
    BY <1>4 DEF finalize_upload, finalize_upload_outcome
  <2>2. version_of(s, l) # NoVersion
    BY DEF version_of, Versions
  <2> QED
    BY <1>4, <2>1, <2>2 DEF finalize_upload
<1> QED
    BY <1>1, <1>2, <1>3, <1>4
       DEF RepositoryStep, register_storage_node, negotiate_chunks, register_storage_location,
           start_gc_run, complete_gc_run, start_replication_run, complete_replication_run,
           run_lifecycle

(* The lowest of the candidate layouts is one of them. *)
LEMMA LowestIsCandidate ==
    ASSUME NEW S \in SUBSET Nat, S # {} PROVE lowest(S) \in S
<1>1. \E l \in S : \A k \in S : l <= k
  <2> DEFINE R == OpToRel(<, Nat)
  <2>1. IsWellFoundedOn(R, Nat)
    BY NatLessThanWellFounded
  <2>2. PICK l \in S : \A k \in S : ~(<<k, l>> \in R)
    BY <2>1, WFMin
  <2>3. ASSUME NEW k \in S PROVE l <= k
    <3>1. k \in Nat /\ l \in Nat
      OBVIOUS
    <3>2. ~(<<k, l>> \in R)
      BY <2>2
    <3>3. ~(k < l)
      BY <3>1, <3>2 DEF OpToRel
    <3> QED
      BY <3>1, <3>3
  <2> QED
    BY <2>3
<1> QED
    BY <1>1 DEF lowest

Understood(req, a) ==
    /\ result(req, a) # "protocol_error"
    /\ a = InternalError => req.op = "complete_gc_run"

\* What any error but the 500 is to a method, whatever it looks at in an answer.
LEMMA ErrorsUnderstood ==
    ASSUME NEW req \in Calls, NEW status \in {400, 404, 409, 410}, NEW code
    PROVE  Understood(req, Error(status, code))
<1> DEFINE a == Error(status, code)
<1>1. a.status \notin {200, 204, 500}
    BY DEF Error
<1>2. a # InternalError
    BY <1>1 DEF Error, InternalError
<1> HIDE DEF a
<1>3. result(req, a) # "protocol_error"
    BY <1>1, RequestTypes
       DEF result, Expect, Lookup, create_upload_session_result, get_upload_session_result,
           abort_upload_session_result, finalize_upload_result, negotiate_chunks_result,
           register_storage_location_result, start_gc_run_result, get_gc_run_result,
           classify_gc_chunks_result, complete_gc_run_result, get_restore_plan_result,
           get_multi_node_restore_plan_result, list_storage_nodes_result,
           get_storage_node_result, register_storage_node_result,
           start_replication_run_result, get_replication_run_result,
           get_replication_plan_result, complete_replication_run_result
<1> QED
    BY <1>2, <1>3 DEF Understood, a

LEMMA Responded ==
    ASSUME NEW p \in Clients, DOMAIN answer = Clients, NEW req, NEW a, Respond(p, req, a)
    PROVE  answer'[p] = a /\ answer' = [answer EXCEPT ![p] = a]
<1>1. p # Nobody
    BY ServiceAssumption
<1> QED
    BY <1>1 DEF Respond

LEMMA RefusalsUnderstood ==
    ASSUME NEW p \in Clients, DOMAIN answer = Clients, NEW req \in Calls,
           NEW status \in {400, 404, 409, 410}, NEW code, Refuse(p, req, Error(status, code))
    PROVE  Understood(req, answer'[p])
BY Responded, ErrorsUnderstood DEF Refuse

LEMMA GrantsUnderstood ==
    ASSUME NEW p \in Clients, DOMAIN answer = Clients, NEW req \in Calls, NEW b,
           Grant(p, req, b), result(req, Ok(b)) # "protocol_error"
    PROVE  Understood(req, answer'[p])
<1>1. answer'[p] = Ok(b)
    BY Responded DEF Grant
<1>2. Ok(b).status = 200 /\ InternalError.status = 500
    BY DEF Ok, InternalError, Error
<1>3. Ok(b) # InternalError
    BY <1>2
<1> QED
    BY <1>1, <1>3 DEF Understood

LEMMA SessionAnswers ==
    ASSUME RepositoryTypeOK, SessionsValid, SessionsValid', NEW p \in Clients,
           DOMAIN answer = Clients, NEW req \in Calls,
           \/ req.op = "create_upload_session" /\ handle_create_upload_session(p, req)
           \/ req.op = "get_upload_session" /\ handle_get_upload_session(p, req)
           \/ req.op = "abort_upload_session" /\ handle_abort_upload_session(p, req)
    PROVE  Understood(req, answer'[p])
<1> DEFINE s == req.session
<1>a. req.op \in {"create_upload_session", "get_upload_session", "abort_upload_session"}
      /\ s \in Sessions
    BY RequestTypes
<1>b. ASSUME NEW b, valid_upload_session(b), Grant(p, req, b) PROVE Understood(req, answer'[p])
  <2> DEFINE a == Ok(b)
  <2>1. a.status = 200 /\ a.error = "none" /\ a.body = b
    BY DEF Ok
  <2>2. valid_upload_session(a.body)
    BY <1>b, <2>1
  <2> HIDE DEF a
  <2>3. result(req, a) = "value"
    BY <1>a, <2>1, <2>2
       DEF result, create_upload_session_result, get_upload_session_result,
           abort_upload_session_result, parse_upload_session_json, Expect, Lookup
  <2> QED
    BY <1>b, <2>3, GrantsUnderstood DEF a
<1>c. sessState[s] # "none" => valid_upload_session(upload_session_body(s))
    BY <1>a DEF SessionsValid
<1>d. sessState'[s] # "none" => valid_upload_session(upload_session_body(s)')
    BY <1>a DEF SessionsValid, upload_session_body
<1>1. CASE handle_create_upload_session(p, req)
  <2>1. CASE create_upload_session(s, req.placement) /\ Grant(p, req, upload_session_body(s)')
    <3>1. sessState'[s] # "none"
      BY <1>a, <2>1 DEF create_upload_session, RepositoryTypeOK
    <3> QED
      BY <2>1, <3>1, <1>b, <1>d
  <2>2. CASE /\ create_upload_session_response(s, req.placement) = "existing"
             /\ Query(p, req, upload_session_body(s))
    <3>1. sessState[s] # "none"
      BY <2>2 DEF create_upload_session_response, create_upload_session_outcome
    <3> QED
      BY <2>2, <3>1, <1>b, <1>c DEF Query
  <2>3. CASE \E response \in DOMAIN create_error : Refuse(p, req, create_error[response])
    BY <2>3, RefusalsUnderstood DEF create_error
  <2> QED
    BY <1>1, <2>1, <2>2, <2>3 DEF handle_create_upload_session
<1>2. CASE handle_get_upload_session(p, req)
    BY <1>2, <1>b, <1>c, RefusalsUnderstood DEF handle_get_upload_session, Query
<1>3. CASE handle_abort_upload_session(p, req)
  <2>1. CASE abort_upload_session(s) /\ Grant(p, req, upload_session_body(s)')
    <3>1. sessState'[s] # "none"
      BY <1>a, <2>1 DEF abort_upload_session, RepositoryTypeOK
    <3> QED
      BY <2>1, <3>1, <1>b, <1>d
  <2>2. CASE sessState[s] = "aborted" /\ Query(p, req, upload_session_body(s))
    BY <2>2, <1>b, <1>c DEF Query
  <2> QED
    BY <1>3, <2>1, <2>2, RefusalsUnderstood DEF handle_abort_upload_session
<1> QED
    BY <1>1, <1>2, <1>3

LEMMA TransferAnswers ==
    ASSUME RepositoryTypeOK, NEW p \in Clients, DOMAIN answer = Clients, NEW req \in Calls,
           \/ req.op = "finalize_upload" /\ handle_finalize_upload_session(p, req)
           \/ req.op = "negotiate_chunks" /\ handle_negotiate_chunks(p, req)
           \/ req.op = "register_storage_location" /\ handle_location_routes(p, req)
           \/ req.op = "get_restore_plan" /\ handle_get_restore_plan(p, req)
           \/ /\ req.op = "get_multi_node_restore_plan"
              /\ handle_get_multi_node_restore_plan(p, req)
    PROVE  Understood(req, answer'[p])
<1>1. CASE req.op = "finalize_upload" /\ handle_finalize_upload_session(p, req)
  <2> DEFINE b == finalize_body(req.session, req.layout)
  <2>1. result(req, Ok(b)) # "protocol_error"
    BY <1>1 DEF result, finalize_upload_result, Expect, Ok, finalize_body
  <2>2. CASE Grant(p, req, b)
    BY <2>1, <2>2, GrantsUnderstood
  <2>3. CASE \E outcome \in DOMAIN finalize_error : Refuse(p, req, finalize_error[outcome])
    BY <2>3, RefusalsUnderstood DEF finalize_error
  <2> QED
    BY <1>1, <2>2, <2>3 DEF handle_finalize_upload_session, Query
<1>2. CASE req.op = "negotiate_chunks" /\ handle_negotiate_chunks(p, req)
  <2> DEFINE b == [session |-> req.session,
                   available |-> [c \in req.chunks |-> available_node_ids(c)]]
  <2>1. result(req, Ok(b)) # "protocol_error"
    BY <1>2 DEF result, negotiate_chunks_result, Expect, Ok
  <2>2. CASE Grant(p, req, b)
    BY <2>1, <2>2, GrantsUnderstood
  <2> QED
    BY <1>2, <2>2, RefusalsUnderstood DEF handle_negotiate_chunks
<1>3. CASE req.op = "register_storage_location" /\ handle_location_routes(p, req)
  <2> DEFINE a == [Ok(<<>>) EXCEPT !.status = 204]
  <2>1. CASE Respond(p, req, a)
    <3>1. answer'[p] = a
      BY <2>1, Responded
    <3>2. a.status = 204 /\ InternalError.status = 500
      BY DEF Ok, InternalError, Error
    <3>3. result(req, a) # "protocol_error"
      BY <1>3 DEF result, register_storage_location_result, Expect
    <3> HIDE DEF a
    <3>4. a # InternalError
      BY <3>2
    <3> QED
      BY <3>1, <3>3, <3>4 DEF Understood
  <2> QED
    BY <1>3, <2>1, RefusalsUnderstood DEF handle_location_routes
<1>4. CASE req.op = "get_restore_plan" /\ handle_get_restore_plan(p, req)
  <2> DEFINE candidates == resolve_restore_plan(req.version, req.node)
             b == restore_plan_body(req.version, req.node, lowest(candidates))
  <2>1. CASE candidates # {} /\ Query(p, req, b)
    <3>1. candidates \in SUBSET Nat
      BY RepositoryAssumption DEF resolve_restore_plan, RepositoryTypeOK
    <3>2. lowest(candidates) \in candidates
      BY <2>1, <3>1, LowestIsCandidate
    <3>3. LayoutObject[lowest(candidates)] = req.version[2]
      BY <3>2 DEF resolve_restore_plan
    <3>4. result(req, Ok(b)) # "protocol_error"
      BY <1>4, <3>3 DEF result, get_restore_plan_result, Expect, Ok, restore_plan_body
    <3> QED
      BY <2>1, <3>4, GrantsUnderstood DEF Query
  <2>2. CASE \E outcome \in DOMAIN restore_error : Refuse(p, req, restore_error[outcome])
    BY <2>2, RefusalsUnderstood DEF restore_error
  <2> QED
    BY <1>4, <2>1, <2>2 DEF handle_get_restore_plan, restore_plan_outcome
<1>5. CASE req.op = "get_multi_node_restore_plan" /\ handle_get_multi_node_restore_plan(p, req)
  <2> DEFINE candidates == resolve_multi_node_restore_plan(req.version)
             b == multi_node_restore_plan_body(req.version, lowest(candidates))
  <2>1. CASE Query(p, req, b)
    <3>1. result(req, Ok(b)) # "protocol_error"
      BY <1>5 DEF result, get_multi_node_restore_plan_result, Expect, Ok,
                  multi_node_restore_plan_body
    <3> QED
      BY <2>1, <3>1, GrantsUnderstood DEF Query
  <2>2. CASE \E outcome \in DOMAIN restore_error : Refuse(p, req, restore_error[outcome])
    BY <2>2, RefusalsUnderstood DEF restore_error
  <2> QED
    BY <1>5, <2>1, <2>2 DEF handle_get_multi_node_restore_plan
<1> QED
    BY <1>1, <1>2, <1>3, <1>4, <1>5

LEMMA RunAnswers ==
    ASSUME RepositoryTypeOK, NEW p \in Clients, DOMAIN answer = Clients, NEW req \in Calls,
           \/ req.op = "start_gc_run" /\ handle_start_gc_run(p, req)
           \/ req.op = "get_gc_run" /\ handle_get_gc_run(p, req)
           \/ req.op = "classify_gc_chunks" /\ handle_classify_gc_chunks(p, req)
           \/ req.op = "complete_gc_run" /\ handle_complete_gc_run(p, req)
           \/ req.op = "start_replication_run" /\ handle_start_replication_run(p, req)
           \/ req.op = "get_replication_run" /\ handle_get_replication_run(p, req)
           \/ req.op = "get_replication_plan" /\ handle_get_replication_plan(p, req)
           \/ req.op = "complete_replication_run" /\ handle_complete_replication_run(p, req)
    PROVE  Understood(req, answer'[p])
<1> USE RequestTypes
<1>a. ASSUME \E outcome \in DOMAIN gc_error : Refuse(p, req, gc_error[outcome])
      PROVE  Understood(req, answer'[p])
    BY <1>a, RefusalsUnderstood DEF gc_error
<1>b. ASSUME \E outcome \in DOMAIN replication_error : Refuse(p, req, replication_error[outcome])
      PROVE  Understood(req, answer'[p])
    BY <1>b, RefusalsUnderstood DEF replication_error
<1>1. CASE req.op = "start_gc_run" /\ handle_start_gc_run(p, req)
  <2> DEFINE g == req.run
  <2>1. ASSUME NEW b, Grant(p, req, b), b.run = g, b.target = req.node, b.mode = req.mode
        PROVE  Understood(req, answer'[p])
    <3>1. result(req, Ok(b)) # "protocol_error"
      BY <1>1, <2>1 DEF result, start_gc_run_result, Expect, Ok
    <3> QED
      BY <2>1, <3>1, GrantsUnderstood
  <2>2. CASE start_gc_run(g, req.node, req.mode) /\ Grant(p, req, gc_run_body(g)')
    BY <1>1, <2>1, <2>2 DEF start_gc_run, gc_run_body, RepositoryTypeOK
  <2>3. CASE /\ start_gc_run_outcome(g, req.node, req.mode) \in {"open", "completed"}
             /\ Query(p, req, gc_run_body(g))
    <3>1. gcTarget[g] = req.node /\ gcMode[g] = req.mode
      BY <1>1, <2>3 DEF start_gc_run_outcome
    <3> QED
      BY <2>1, <2>3, <3>1 DEF Query, gc_run_body
  <2> QED
    BY <1>1, <1>a, <2>2, <2>3 DEF handle_start_gc_run
<1>2. CASE req.op = "get_gc_run" /\ handle_get_gc_run(p, req)
  <2>1. result(req, Ok(gc_run_body(req.run))) # "protocol_error"
    BY <1>2 DEF result, get_gc_run_result, Lookup, Expect, Ok, gc_run_body
  <2> QED
    BY <1>2, <1>a, <2>1, GrantsUnderstood DEF handle_get_gc_run, Query, gc_error
<1>3. CASE req.op = "classify_gc_chunks" /\ handle_classify_gc_chunks(p, req)
  <2> DEFINE b == [run |-> req.run, chunks |-> req.chunks,
                   collectible |-> classify_gc_chunks(req.chunks)]
  <2>1. result(req, Ok(b)) # "protocol_error"
    BY <1>3 DEF result, classify_gc_chunks_result, Expect, Ok
  <2>2. CASE Query(p, req, b)
    BY <2>1, <2>2, GrantsUnderstood DEF Query
  <2> QED
    BY <1>3, <1>a, <2>2 DEF handle_classify_gc_chunks, gc_error
<1>4. CASE req.op = "complete_gc_run" /\ handle_complete_gc_run(p, req)
  <2> DEFINE g == req.run
  <2>1. ASSUME NEW b, Grant(p, req, b), b.run = g, b.state = "completed"
        PROVE  Understood(req, answer'[p])
    <3>1. result(req, Ok(b)) # "protocol_error"
      BY <1>4, <2>1 DEF result, complete_gc_run_result, Expect, Ok
    <3> QED
      BY <2>1, <3>1, GrantsUnderstood
  <2>2. CASE complete_gc_run(g) /\ Grant(p, req, gc_run_body(g)')
    BY <1>4, <2>1, <2>2 DEF complete_gc_run, gc_run_body, RepositoryTypeOK
  <2>3. CASE complete_gc_run_outcome(g) = "completed" /\ Query(p, req, gc_run_body(g))
    <3>1. gcState[g] = "completed"
      BY <2>3 DEF complete_gc_run_outcome
    <3> QED
      BY <2>1, <2>3, <3>1 DEF Query, gc_run_body
  <2>4. CASE Refuse(p, req, InternalError)
    <3>1. answer'[p] = InternalError
      BY <2>4, Responded DEF Refuse
    <3>2. result(req, InternalError) = "api_error"
      BY <1>4 DEF result, complete_gc_run_result, Expect, InternalError, Error
    <3> QED
      BY <1>4, <3>1, <3>2 DEF Understood
  <2> QED
    BY <1>4, <1>a, <2>2, <2>3, <2>4 DEF handle_complete_gc_run
<1>5. CASE req.op = "start_replication_run" /\ handle_start_replication_run(p, req)
  <2> DEFINE r == req.run
  <2>1. ASSUME NEW b, Grant(p, req, b), b.run = r PROVE Understood(req, answer'[p])
    <3>1. result(req, Ok(b)) # "protocol_error"
      BY <1>5, <2>1 DEF result, start_replication_run_result, Expect, Ok
    <3> QED
      BY <2>1, <3>1, GrantsUnderstood
  <2> QED
    BY <1>5, <1>b, <2>1 DEF handle_start_replication_run, Query, replication_run_body
<1>6. CASE req.op = "get_replication_run" /\ handle_get_replication_run(p, req)
  <2>1. result(req, Ok(replication_run_body(req.run))) # "protocol_error"
    BY <1>6 DEF result, get_replication_run_result, Lookup, Expect, Ok, replication_run_body
  <2> QED
    BY <1>6, <1>b, <2>1, GrantsUnderstood
       DEF handle_get_replication_run, Query, replication_error
<1>7. CASE req.op = "get_replication_plan" /\ handle_get_replication_plan(p, req)
  <2>1. ASSUME NEW b, Query(p, req, b) PROVE Understood(req, answer'[p])
    <3>1. result(req, Ok(b)) # "protocol_error"
      BY <1>7 DEF result, get_replication_plan_result, Expect, Ok
    <3> QED
      BY <2>1, <3>1, GrantsUnderstood DEF Query
  <2> QED
    BY <1>7, <1>b, <2>1 DEF handle_get_replication_plan, replication_error
<1>8. CASE req.op = "complete_replication_run" /\ handle_complete_replication_run(p, req)
  <2> DEFINE r == req.run
  <2>1. ASSUME NEW b, Grant(p, req, b), b.run = r, b.state = "completed"
        PROVE  Understood(req, answer'[p])
    <3>1. result(req, Ok(b)) # "protocol_error"
      BY <1>8, <2>1 DEF result, complete_replication_run_result, Expect, Ok
    <3> QED
      BY <2>1, <3>1, GrantsUnderstood
  <2>2. CASE complete_replication_run(r) /\ Grant(p, req, replication_run_body(r)')
    BY <1>8, <2>1, <2>2 DEF complete_replication_run, replication_run_body, RepositoryTypeOK
  <2>3. CASE /\ complete_replication_run_outcome(r) = "completed"
             /\ Query(p, req, replication_run_body(r))
    <3>1. replState[r] = "completed"
      BY <2>3 DEF complete_replication_run_outcome
    <3> QED
      BY <2>1, <2>3, <3>1 DEF Query, replication_run_body
  <2> QED
    BY <1>8, <1>b, <2>2, <2>3 DEF handle_complete_replication_run
<1> QED
    BY <1>1, <1>2, <1>3, <1>4, <1>5, <1>6, <1>7, <1>8

LEMMA NodeAnswers ==
    ASSUME RepositoryTypeOK, NEW p \in Clients, DOMAIN answer = Clients, NEW req \in Calls,
           \/ req.op = "list_storage_nodes" /\ handle_list_storage_nodes(p, req)
           \/ req.op = "get_storage_node" /\ handle_get_storage_node(p, req)
           \/ req.op = "register_storage_node" /\ handle_put_storage_node(p, req)
    PROVE  Understood(req, answer'[p])
<1>1. ASSUME NEW b, Grant(p, req, b), req.op \in {"list_storage_nodes", "get_storage_node"}
      PROVE  Understood(req, answer'[p])
  <2>1. result(req, Ok(b)) # "protocol_error"
    BY <1>1 DEF result, list_storage_nodes_result, get_storage_node_result, Expect, Lookup, Ok
  <2> QED
    BY <1>1, <2>1, GrantsUnderstood
<1>2. CASE req.op = "list_storage_nodes" /\ handle_list_storage_nodes(p, req)
    BY <1>1, <1>2 DEF handle_list_storage_nodes, Query
<1>3. CASE req.op = "get_storage_node" /\ handle_get_storage_node(p, req)
    BY <1>1, <1>3, RefusalsUnderstood DEF handle_get_storage_node, Query
<1>4. CASE req.op = "register_storage_node" /\ handle_put_storage_node(p, req)
  <2> DEFINE b == [node |-> req.node, state |-> req.state]
  <2>1. result(req, Ok(b)) # "protocol_error"
    BY <1>4 DEF result, register_storage_node_result, Expect, Ok
  <2> QED
    BY <1>4, <2>1, GrantsUnderstood DEF handle_put_storage_node
<1> QED
    BY <1>2, <1>3, <1>4

LEMMA ServedAnswers ==
    ASSUME RepositoryTypeOK, SessionsValid, SessionsValid', NEW p \in Clients,
           DOMAIN answer = Clients, NEW req \in Calls, Serve(p, req)
    PROVE  Understood(req, answer'[p])
BY SessionAnswers, TransferAnswers, RunAnswers, NodeAnswers
   DEF Serve, handle_request, try_handle_m8_routes

\* Every handler answers its caller and no other.
LEMMA ServeResponds ==
    ASSUME NEW p, NEW req \in Calls, Serve(p, req)
    PROVE  \E a : Respond(p, req, a)
<1> USE DEF Query, Refuse, Grant
<1>1. CASE req.op \in {"create_upload_session", "get_upload_session", "abort_upload_session",
                       "finalize_upload", "negotiate_chunks", "register_storage_location"}
    BY <1>1 DEF Serve, handle_request, try_handle_m8_routes, handle_create_upload_session,
                handle_get_upload_session, handle_abort_upload_session,
                handle_finalize_upload_session, handle_negotiate_chunks, handle_location_routes
<1>2. CASE req.op \in {"start_gc_run", "get_gc_run", "classify_gc_chunks", "complete_gc_run"}
    BY <1>2 DEF Serve, handle_request, try_handle_m8_routes, handle_start_gc_run,
                handle_get_gc_run, handle_classify_gc_chunks, handle_complete_gc_run
<1>3. CASE req.op \in {"get_restore_plan", "get_multi_node_restore_plan", "list_storage_nodes",
                       "get_storage_node", "register_storage_node"}
    BY <1>3 DEF Serve, handle_request, try_handle_m8_routes, handle_get_restore_plan,
                handle_get_multi_node_restore_plan, handle_list_storage_nodes,
                handle_get_storage_node, handle_put_storage_node
<1>4. CASE req.op \in {"start_replication_run", "get_replication_run", "get_replication_plan",
                       "complete_replication_run"}
    BY <1>4 DEF Serve, handle_request, try_handle_m8_routes, handle_start_replication_run,
                handle_get_replication_run, handle_get_replication_plan,
                handle_complete_replication_run
<1> QED
    BY <1>1, <1>2, <1>3, <1>4, RequestTypes

AnswerInv ==
    /\ ServiceInv /\ SessionsValid
    /\ DOMAIN answer = Clients
    /\ \A p \in Clients : pc[p] = "answered" => Understood(call[p], answer[p])

LEMMA AnswerInit == Init => AnswerInv
<1> SUFFICES ASSUME Init PROVE AnswerInv
    OBVIOUS
<1>1. SessionsValid
    BY DEF Init, RepositoryInit, SessionsValid
<1> QED
    BY <1>1, ServiceInit DEF Init, AnswerInv

LEMMA AnswerNext ==
    ASSUME AnswerInv, [Next]_vars PROVE AnswerInv'
<1>a. ServiceStep /\ ServiceInv'
    BY ServiceNext DEF AnswerInv
<1>b. SessionsValid'
    BY <1>a, ServiceIsRepository, SessionsStayValid DEF AnswerInv, ServiceInv
<1> USE DEF AnswerInv, ServiceInv, CallTypeOK
<1> DEFINE NextTold == /\ DOMAIN answer' = Clients
                       /\ \A p \in Clients :
                            pc'[p] = "answered" => Understood(call'[p], answer'[p])
<1>1. ASSUME NEW p \in Clients, NEW req \in Calls, Request(p, req) PROVE NextTold
    BY <1>1 DEF Request
<1>2. ASSUME NEW p \in Clients, Handle(p) PROVE NextTold
  <2>1. call[p] \in Calls /\ Serve(p, call[p])
    BY <1>2 DEF Handle
  <2>2. PICK a : Respond(p, call[p], a)
    BY <2>1, ServeResponds
  <2>3. answer' = [answer EXCEPT ![p] = a]
    BY <2>2, Responded
  <2>4. Understood(call[p], answer'[p])
    BY <1>b, <2>1, ServedAnswers
  <2> QED
    BY <1>2, <2>3, <2>4 DEF Handle
<1>3. ASSUME NEW p \in Clients, Receive(p) PROVE NextTold
    BY <1>3 DEF Receive
<1>4. ASSUME NEW p \in Clients, Timeout(p) PROVE NextTold
    BY <1>4 DEF Timeout
<1>5. ASSUME NEW req \in late, HandleLate(req) PROVE NextTold
  <2>1. PICK a : Respond(Nobody, req, a)
    BY <1>5, ServeResponds DEF HandleLate
  <2>2. answer' = answer
    BY <2>1 DEF Respond
  <2> QED
    BY <1>5, <2>2 DEF HandleLate
<1>6. ASSUME NEW R \in (SUBSET versions) \ {{}}, Retire(R) PROVE NextTold
    BY <1>6 DEF Retire
<1>7. ASSUME UNCHANGED vars PROVE NextTold
    BY <1>7
<1>8. NextTold
    BY <1>1, <1>2, <1>3, <1>4, <1>5, <1>6, <1>7 DEF Next
<1> QED
    BY <1>a, <1>b, <1>8

(* Whatever is handled between a request and its answer, the client method *)
(* accepts what the service answers: the ids are those it asked for, a     *)
(* session record has a version exactly when it is committed and at least  *)
(* RF nodes, and only the completion of a GC run is answered with a 500.   *)
THEOREM AnswersAcceptedHolds == Spec => []AnswersAccepted
<1>1. Spec => []AnswerInv
    BY AnswerInit, AnswerNext, PTL DEF Spec
<1>2. AnswerInv => AnswersAccepted
    BY DEF AnswerInv, AnswersAccepted, Understood
<1> QED
    BY <1>1, <1>2, PTL

-----------------------------------------------------------------------------
(* Grants.  What the database keeps for a request once it was granted:     *)
(* what Kept says, and what a retry of the request depends on.             *)

Promise(req, body) ==
    \/ /\ req.op = "create_upload_session"
       /\ sessState[req.session] # "none" /\ sessPlacement[req.session] = body.placement
       /\ RF <= Cardinality(req.placement)
    \/ req.op = "abort_upload_session" /\ sessState[req.session] = "aborted"
    \/ /\ req.op = "finalize_upload"
       /\ sessState[req.session] = "committed" /\ sessVersion[req.session] = body.version
       /\ body.version = version_of(req.session, req.layout) /\ body.version \in versions
       /\ is_version_retired(body.version) \/ /\ sessLayout[req.session] = req.layout
                                              /\ req.layout \in layouts
                                              /\ LayoutObject[req.layout] \in objects
    \/ /\ req.op = "start_gc_run"
       /\ body.target = req.node /\ gcTarget[req.run] = req.node
       /\ body.mode = req.mode /\ gcMode[req.run] = req.mode
       /\ body.state \in {"open", "completed"} /\ gcState[req.run] \in {body.state, "completed"}
    \/ /\ req.op = "complete_gc_run"
       /\ gcState[req.run] = "completed" /\ body = gc_run_body(req.run)
    \/ /\ req.op = "start_replication_run"
       /\ body.version = req.version /\ replVersion[req.run] = req.version
       /\ body.layout = replLayout[req.run] /\ body.placement = replPlacement[req.run]
       /\ body.state \in {"open", "completed"} /\ replState[req.run] \in {body.state, "completed"}
    \/ /\ req.op = "complete_replication_run"
       /\ replState[req.run] = "completed" /\ body = replication_run_body(req.run)

VersionsRecorded ==
    \A s \in Sessions : sessState[s] = "committed" => sessVersion[s] \in versions

GrantInv ==
    /\ VersionsRecorded
    /\ \A x \in granted : x.req \in Calls /\ Promise(x.req, x.body)
    /\ RetriesGranted

LEMMA SessionsAdvance ==
    ASSUME RepositoryTypeOK, VersionsRecorded, RepositoryStep
    PROVE  /\ VersionsRecorded' /\ versions \subseteq versions' /\ retired \subseteq retired'
           /\ \A s \in Sessions :
                /\ sessState[s] # "none" => /\ sessState'[s] # "none"
                                            /\ sessPlacement'[s] = sessPlacement[s]
                /\ sessState[s] \in {"aborted", "committed"} =>
                        sessState'[s] = sessState[s] /\ sessVersion'[s] = sessVersion[s]
<1> DEFINE Advance ==
           /\ VersionsRecorded' /\ versions \subseteq versions' /\ retired \subseteq retired'
           /\ \A s \in Sessions :
                /\ sessState[s] # "none" => /\ sessState'[s] # "none"
                                            /\ sessPlacement'[s] = sessPlacement[s]
                /\ sessState[s] \in {"aborted", "committed"} =>
                        sessState'[s] = sessState[s] /\ sessVersion'[s] = sessVersion[s]
<1> SUFFICES Advance OBVIOUS
<1> USE DEF VersionsRecorded, RepositoryTypeOK
<1>1. ASSUME UNCHANGED <<sessState, sessPlacement, sessVersion, versions>>,
             retired \subseteq retired'
      PROVE  Advance
    BY <1>1
<1>2. ASSUME NEW s \in Sessions, NEW P \in SUBSET Nodes, create_upload_session(s, P) PROVE Advance
  <2>1. sessState[s] = "none"
    BY <1>2 DEF create_upload_session, create_upload_session_outcome
  <2> QED
    BY <1>2, <2>1 DEF create_upload_session
<1>3. ASSUME NEW s \in Sessions, abort_upload_session(s) PROVE Advance
    BY <1>3 DEF abort_upload_session
<1>4. ASSUME NEW s \in Sessions, NEW l \in Layouts, finalize_upload(s, l) PROVE Advance
  <2>1. sessState[s] \notin {"none", "aborted", "committed"}
    BY <1>4 DEF finalize_upload, finalize_upload_outcome, committed_retry_outcome
  <2> QED
    BY <1>4, <2>1 DEF finalize_upload
<1> QED
  <2> HIDE DEF Advance
  <2> QED
    BY <1>1, <1>2, <1>3, <1>4
       DEF RepositoryStep, register_storage_node, negotiate_chunks, register_storage_location,
           start_gc_run, complete_gc_run, start_replication_run, complete_replication_run,
           run_lifecycle

\* The sweep leaves what a version that is not retired was committed with.
LEMMA LayoutsStay ==
    ASSUME RepositoryTypeOK, VersionsRecorded, RepositoryStep,
           NEW s \in Sessions, sessState[s] = "committed", ~is_version_retired(sessVersion[s]),
           sessLayout[s] \in layouts, LayoutObject[sessLayout[s]] \in objects
    PROVE  /\ sessLayout'[s] = sessLayout[s]
           /\ sessLayout[s] \in layouts' /\ LayoutObject[sessLayout[s]] \in objects'
<1> DEFINE l == sessLayout[s]
           Stay == sessLayout'[s] = l /\ l \in layouts' /\ LayoutObject[l] \in objects'
<1> SUFFICES Stay OBVIOUS
<1> USE DEF RepositoryTypeOK
<1>1. ASSUME UNCHANGED <<sessLayout, layouts, objects>> PROVE Stay
    BY <1>1
<1>2. ASSUME NEW t \in Sessions, NEW k \in Layouts, finalize_upload(t, k) PROVE Stay
  <2>1. t # s
    BY <1>2 DEF finalize_upload, finalize_upload_outcome, committed_retry_outcome
  <2> QED
    BY <1>2, <2>1 DEF finalize_upload
<1>3. ASSUME NEW g \in GcRuns, complete_gc_run(g) PROVE Stay
  <2>1. l \in live_layouts
    <3>1. sessVersion[s] # NoVersion
      BY RepositoryAssumption DEF VersionsRecorded
    <3> QED
      BY <3>1 DEF live_layouts, live_layout
  <2>2. CASE sweep_gc_metadata(gcTarget[g])
    BY <2>1, <2>2 DEF sweep_gc_metadata, finalizations_after_sweep
  <2> QED
    BY <1>1, <1>3, <2>2 DEF complete_gc_run
<1> QED
  <2> HIDE DEF Stay
  <2> QED
    BY <1>1, <1>2, <1>3
       DEF RepositoryStep, register_storage_node, negotiate_chunks, register_storage_location,
           create_upload_session, abort_upload_session, start_gc_run, start_replication_run,
           complete_replication_run, run_lifecycle

LEMMA RunsAdvance ==
    ASSUME RepositoryTypeOK, StatsTypeOK, ServiceStep
    PROVE  /\ \A g \in GcRuns : gcState[g] # "none" =>
                /\ gcTarget'[g] = gcTarget[g] /\ gcMode'[g] = gcMode[g]
                /\ gcState'[g] \in {gcState[g], "completed"}
                /\ gcState[g] = "completed" => gcStats'[g] = gcStats[g]
           /\ \A r \in ReplicationRuns : replState[r] # "none" =>
                /\ replVersion'[r] = replVersion[r] /\ replLayout'[r] = replLayout[r]
                /\ replPlacement'[r] = replPlacement[r]
                /\ replState'[r] \in {replState[r], "completed"}
                /\ replState[r] = "completed" => replStats'[r] = replStats[r]
<1> DEFINE GcAdvance == \A g \in GcRuns : gcState[g] # "none" =>
                /\ gcTarget'[g] = gcTarget[g] /\ gcMode'[g] = gcMode[g]
                /\ gcState'[g] \in {gcState[g], "completed"}
                /\ gcState[g] = "completed" => gcStats'[g] = gcStats[g]
           ReplAdvance == \A r \in ReplicationRuns : replState[r] # "none" =>
                /\ replVersion'[r] = replVersion[r] /\ replLayout'[r] = replLayout[r]
                /\ replPlacement'[r] = replPlacement[r]
                /\ replState'[r] \in {replState[r], "completed"}
                /\ replState[r] = "completed" => replStats'[r] = replStats[r]
<1> SUFFICES GcAdvance /\ ReplAdvance OBVIOUS
<1> USE DEF RepositoryTypeOK, StatsTypeOK
<1>1. ASSUME UNCHANGED <<gcVars, gcStats>> PROVE GcAdvance
    BY <1>1
<1>2. ASSUME UNCHANGED <<replVars, replStats>> PROVE ReplAdvance
    BY <1>2
<1>3. ASSUME NEW g \in GcRuns, NEW n \in Nodes, NEW mode \in GcModes, start_gc_run(g, n, mode),
             UNCHANGED statVars
      PROVE  GcAdvance /\ ReplAdvance
  <2>1. gcState[g] = "none" /\ gcState' = [gcState EXCEPT ![g] = "open"]
    BY <1>3, StartsNewRun
  <2> QED
    BY <1>2, <1>3, <2>1 DEF start_gc_run
<1>4. ASSUME NEW g \in GcRuns, NEW st \in Stats, complete_gc_run(g),
             gcStats' = [gcStats EXCEPT ![g] = st], UNCHANGED replStats
      PROVE  GcAdvance /\ ReplAdvance
  <2>1. gcState[g] = "open" /\ gcState' = [gcState EXCEPT ![g] = "completed"]
    BY <1>4, CompletesOpenRun
  <2> QED
    BY <1>2, <1>4, <2>1 DEF complete_gc_run
<1>5. ASSUME NEW r \in ReplicationRuns, NEW v \in Versions, start_replication_run(r, v),
             UNCHANGED statVars
      PROVE  GcAdvance /\ ReplAdvance
  <2>1. replState[r] = "none" /\ replState' = [replState EXCEPT ![r] = "open"]
    BY <1>5, StartsNewRun
  <2>2. PICK l \in Layouts : replLayout' = [replLayout EXCEPT ![r] = l]
    BY <1>5 DEF start_replication_run, restorable_layouts
  <2>3. ReplAdvance
    BY <1>5, <2>1, <2>2 DEF start_replication_run
  <2>4. GcAdvance
    BY <1>1, <1>5 DEF start_replication_run
  <2> QED
    BY <2>3, <2>4
<1>6. ASSUME NEW r \in ReplicationRuns, NEW st \in Stats, complete_replication_run(r),
             replStats' = [replStats EXCEPT ![r] = st], UNCHANGED gcStats
      PROVE  GcAdvance /\ ReplAdvance
  <2>1. replState[r] = "open" /\ replState' = [replState EXCEPT ![r] = "completed"]
    BY <1>6, CompletesOpenRun
  <2> QED
    BY <1>1, <1>6, <2>1 DEF complete_replication_run
<1> QED
  <2> HIDE DEF GcAdvance, ReplAdvance
  <2> QED
    BY <1>1, <1>2, <1>3, <1>4, <1>5, <1>6
       DEF ServiceStep, register_storage_node, negotiate_chunks, register_storage_location,
           create_upload_session, abort_upload_session, finalize_upload, run_lifecycle

(* A promise outlives every step of the service. *)
LEMMA PromisesKept ==
    ASSUME RepositoryTypeOK, StatsTypeOK, VersionsRecorded, ServiceStep,
           NEW req \in Calls, NEW body, Promise(req, body)
    PROVE  Promise(req, body)'
<1> USE RequestTypes
<1>a. RepositoryStep
    BY ServiceIsRepository
<1>1. CASE req.op \in {"create_upload_session", "abort_upload_session"}
    BY <1>a, <1>1, SessionsAdvance DEF Promise
<1>2. CASE req.op = "finalize_upload"
  <2> DEFINE s == req.session  l == req.layout
  <2>1. /\ sessState[s] = "committed" /\ sessVersion[s] = body.version
        /\ body.version = version_of(s, l) /\ body.version \in versions
        /\ is_version_retired(body.version) \/ /\ sessLayout[s] = l /\ l \in layouts
                                               /\ LayoutObject[l] \in objects
    BY <1>2 DEF Promise
  <2>2. /\ sessState'[s] = "committed" /\ sessVersion'[s] = body.version
        /\ body.version \in versions' /\ retired \subseteq retired'
    BY <1>a, <1>2, <2>1, SessionsAdvance
  <2>3. body.version \in retired' \/ /\ sessLayout'[s] = l /\ l \in layouts'
                                     /\ LayoutObject[l] \in objects'
    BY <1>a, <1>2, <2>1, <2>2, LayoutsStay DEF is_version_retired
  <2> QED
    BY <1>2, <2>1, <2>2, <2>3 DEF Promise, is_version_retired, version_of
<1>3. CASE req.op = "start_gc_run"
    BY <1>3, RunsAdvance DEF Promise, RepositoryTypeOK
<1>4. CASE req.op = "complete_gc_run"
  <2>1. gcState[req.run] = "completed" /\ body = gc_run_body(req.run)
    BY <1>4 DEF Promise
  <2>2. gcState'[req.run] = "completed" /\ body = gc_run_body(req.run)'
    BY <1>4, <2>1, RunsAdvance DEF gc_run_body
  <2> QED
    BY <1>4, <2>2 DEF Promise, gc_run_body
<1>5. CASE req.op = "start_replication_run"
    BY <1>5, RunsAdvance DEF Promise, RepositoryTypeOK
<1>6. CASE req.op = "complete_replication_run"
  <2>1. replState[req.run] = "completed" /\ body = replication_run_body(req.run)
    BY <1>6 DEF Promise
  <2>2. replState'[req.run] = "completed" /\ body = replication_run_body(req.run)'
    BY <1>6, <2>1, RunsAdvance DEF replication_run_body
  <2> QED
    BY <1>6, <2>2 DEF Promise, replication_run_body
<1> QED
    BY <1>1, <1>2, <1>3, <1>4, <1>5, <1>6 DEF Promise

\* The history of grants: what a response adds to it.
LEMMA GrantHistory ==
    ASSUME NEW p, NEW req, NEW b, Grant(p, req, b)
    PROVE  /\ granted' = IF req.op \in Committing
                         THEN granted \cup {[req |-> req, body |-> b]} ELSE granted
           /\ retracted' = retracted
BY DEF Grant, Respond, Ok

LEMMA RefusalHistory ==
    ASSUME NEW p, NEW req, NEW status, status # 200, NEW code,
           Refuse(p, req, Error(status, code))
    PROVE  /\ granted' = granted
           /\ retracted' = IF \E x \in granted : x.req = req
                           THEN retracted \cup {[op |-> req.op, error |-> code]} ELSE retracted
BY DEF Refuse, Respond, Error

\* What is granted is promised: the new grants of a step.
NewGrantsPromised(req) ==
    \A x \in granted' : x \in granted \/ (x.req = req /\ Promise(req, x.body)')

LEMMA RefusalsPromiseNothing ==
    ASSUME NEW p, NEW req, NEW status, status # 200, NEW code,
           Refuse(p, req, Error(status, code))
    PROVE  NewGrantsPromised(req)
<1>1. granted' = granted
    BY RefusalHistory
<1> QED
    BY <1>1 DEF NewGrantsPromised

LEMMA GrantsPromise ==
    ASSUME NEW p, NEW req, NEW b, Grant(p, req, b), req.op \in Committing => Promise(req, b)'
    PROVE  NewGrantsPromised(req)
<1> SUFFICES ASSUME NEW x \in granted', x \notin granted
             PROVE  x.req = req /\ Promise(req, x.body)'
    BY DEF NewGrantsPromised
<1>1. req.op \in Committing /\ x = [req |-> req, body |-> b]
    BY GrantHistory
<1>2. x.req = req /\ x.body = b
    BY <1>1
<1> QED
    BY <1>1, <1>2 DEF Promise

LEMMA SessionGrants ==
    ASSUME RepositoryTypeOK, VersionsRecorded, NEW p, NEW req \in Calls,
           \/ req.op = "create_upload_session" /\ handle_create_upload_session(p, req)
           \/ req.op = "abort_upload_session" /\ handle_abort_upload_session(p, req)
           \/ req.op = "finalize_upload" /\ handle_finalize_upload_session(p, req)
    PROVE  NewGrantsPromised(req)
<1> USE RequestTypes
<1> DEFINE s == req.session
<1>1. CASE req.op = "create_upload_session" /\ handle_create_upload_session(p, req)
  <2>a. RF <= Cardinality(req.placement) <=> ~(RF > Cardinality(req.placement))
    <3>1. IsFiniteSet(req.placement)
      BY <1>1, PlacementAssumption, FS_Subset
    <3>2. Cardinality(req.placement) \in Nat /\ RF \in Nat
      BY <3>1, FS_CardinalityType, RepositoryAssumption
    <3> QED
      BY <3>2
  <2>0. ASSUME sessState'[s] # "none", RF <= Cardinality(req.placement),
               NEW b, b.placement = sessPlacement'[s], Grant(p, req, b)
        PROVE  NewGrantsPromised(req)
    <3>1. Promise(req, b)'
      BY <1>1, <2>0 DEF Promise
    <3> QED
      BY <2>0, <3>1, GrantsPromise
  <2>1. CASE create_upload_session(s, req.placement) /\ Grant(p, req, upload_session_body(s)')
    <3>1. sessState'[s] = "open" /\ RF <= Cardinality(req.placement)
      BY <1>1, <2>1, <2>a DEF create_upload_session, create_upload_session_outcome, RepositoryTypeOK
    <3> QED
      BY <2>0, <2>1, <3>1 DEF upload_session_body
  <2>2. CASE /\ create_upload_session_response(s, req.placement) = "existing"
             /\ Query(p, req, upload_session_body(s))
    <3>1. sessState[s] = "open" /\ RF <= Cardinality(req.placement) /\ UNCHANGED dbVars
      BY <2>2, <2>a DEF create_upload_session_response, create_upload_session_outcome, Query
    <3> QED
      BY <2>0, <2>2, <3>1 DEF Query, upload_session_body
  <2>3. CASE \E response \in DOMAIN create_error : Refuse(p, req, create_error[response])
    BY <2>3, RefusalsPromiseNothing DEF create_error
  <2> QED
    BY <1>1, <2>1, <2>2, <2>3 DEF handle_create_upload_session
<1>2. CASE req.op = "abort_upload_session" /\ handle_abort_upload_session(p, req)
  <2>1. ASSUME NEW b, Grant(p, req, b), sessState'[s] = "aborted" PROVE NewGrantsPromised(req)
    <3>1. Promise(req, b)'
      BY <1>2, <2>1 DEF Promise
    <3> QED
      BY <2>1, <3>1, GrantsPromise
  <2>2. CASE abort_upload_session(s) /\ Grant(p, req, upload_session_body(s)')
    BY <1>2, <2>1, <2>2 DEF abort_upload_session, RepositoryTypeOK
  <2>3. CASE sessState[s] = "aborted" /\ Query(p, req, upload_session_body(s))
    BY <2>1, <2>3 DEF Query
  <2> QED
    BY <1>2, <2>2, <2>3, RefusalsPromiseNothing DEF handle_abort_upload_session
<1>3. CASE req.op = "finalize_upload" /\ handle_finalize_upload_session(p, req)
  <2> DEFINE l == req.layout  b == finalize_body(s, l)
  <2>a. b.version = version_of(s, l)
    BY DEF finalize_body
  <2>1. CASE finalize_upload(s, l) /\ Grant(p, req, b)
    <3>1. /\ sessState'[s] = "committed" /\ sessVersion'[s] = version_of(s, l)
          /\ version_of(s, l) \in versions' /\ sessLayout'[s] = l
          /\ l \in layouts' /\ LayoutObject[l] \in objects'
      BY <1>3, <2>1 DEF finalize_upload, RepositoryTypeOK
    <3>2. Promise(req, b)'
      BY <1>3, <2>a, <3>1 DEF Promise, version_of
    <3> QED
      BY <2>1, <3>2, GrantsPromise
  <2>2. CASE finalize_upload_outcome(s, l) = "ok" /\ Query(p, req, b)
    <3>1. /\ sessState[s] = "committed" /\ sessVersion[s] = version_of(s, l) /\ sessLayout[s] = l
          /\ l \in layouts /\ LayoutObject[l] \in objects
      BY <2>2 DEF finalize_upload_outcome, committed_retry_outcome, open_finalize_outcome
    <3>2. version_of(s, l) \in versions
      BY <1>3, <3>1 DEF VersionsRecorded
    <3>3. Promise(req, b)'
      BY <1>3, <2>2, <2>a, <3>1, <3>2 DEF Promise, version_of, Query
    <3> QED
      BY <2>2, <3>3, GrantsPromise DEF Query
  <2>3. CASE \E outcome \in DOMAIN finalize_error : Refuse(p, req, finalize_error[outcome])
    BY <2>3, RefusalsPromiseNothing DEF finalize_error
  <2> QED
    BY <1>3, <2>1, <2>2, <2>3 DEF handle_finalize_upload_session
<1> QED
    BY <1>1, <1>2, <1>3

LEMMA RunGrants ==
    ASSUME RepositoryTypeOK, NEW p, NEW req \in Calls,
           \/ req.op = "start_gc_run" /\ handle_start_gc_run(p, req)
           \/ req.op = "complete_gc_run" /\ handle_complete_gc_run(p, req)
           \/ req.op = "start_replication_run" /\ handle_start_replication_run(p, req)
           \/ req.op = "complete_replication_run" /\ handle_complete_replication_run(p, req)
    PROVE  NewGrantsPromised(req)
<1> USE RequestTypes
<1> DEFINE g == req.run
<1>a. ASSUME \E outcome \in DOMAIN gc_error : Refuse(p, req, gc_error[outcome])
      PROVE  NewGrantsPromised(req)
    BY <1>a, RefusalsPromiseNothing DEF gc_error
<1>b. ASSUME \E outcome \in DOMAIN replication_error : Refuse(p, req, replication_error[outcome])
      PROVE  NewGrantsPromised(req)
    BY <1>b, RefusalsPromiseNothing DEF replication_error
<1>1. CASE req.op = "start_gc_run" /\ handle_start_gc_run(p, req)
  <2>1. ASSUME gcState'[g] \in {"open", "completed"},
               gcTarget'[g] = req.node, gcMode'[g] = req.mode,
               NEW b, b = gc_run_body(g)', Grant(p, req, b)
        PROVE  NewGrantsPromised(req)
    <3>1. Promise(req, b)'
      BY <1>1, <2>1 DEF Promise, gc_run_body
    <3> QED
      BY <2>1, <3>1, GrantsPromise
  <2>2. CASE start_gc_run(g, req.node, req.mode) /\ Grant(p, req, gc_run_body(g)')
    BY <1>1, <2>1, <2>2 DEF start_gc_run, RepositoryTypeOK
  <2>3. CASE /\ start_gc_run_outcome(g, req.node, req.mode) \in {"open", "completed"}
             /\ Query(p, req, gc_run_body(g))
    <3>1. gcTarget[g] = req.node /\ gcMode[g] = req.mode /\ gcState[g] \in {"open", "completed"}
      BY <1>1, <2>3 DEF start_gc_run_outcome
    <3>2. gc_run_body(g) = gc_run_body(g)'
      BY <2>3 DEF Query, gc_run_body
    <3> QED
      BY <2>1, <2>3, <3>1, <3>2 DEF Query
  <2> QED
    BY <1>1, <1>a, <2>2, <2>3 DEF handle_start_gc_run
<1>2. CASE req.op = "complete_gc_run" /\ handle_complete_gc_run(p, req)
  <2>1. ASSUME gcState'[g] = "completed", NEW b, b = gc_run_body(g)', Grant(p, req, b)
        PROVE  NewGrantsPromised(req)
    <3>1. Promise(req, b)'
      BY <1>2, <2>1 DEF Promise, gc_run_body
    <3> QED
      BY <2>1, <3>1, GrantsPromise
  <2>2. CASE complete_gc_run(g) /\ Grant(p, req, gc_run_body(g)')
    BY <1>2, <2>1, <2>2 DEF complete_gc_run, RepositoryTypeOK
  <2>3. CASE complete_gc_run_outcome(g) = "completed" /\ Query(p, req, gc_run_body(g))
    <3>1. gcState[g] = "completed"
      BY <2>3 DEF complete_gc_run_outcome
    <3>2. gc_run_body(g) = gc_run_body(g)'
      BY <2>3 DEF Query, gc_run_body
    <3> QED
      BY <2>1, <2>3, <3>1, <3>2 DEF Query
  <2>4. CASE Refuse(p, req, InternalError)
    <3>1. InternalError.status # 200
      BY DEF InternalError, Error
    <3>2. granted' = granted
      BY <2>4, <3>1 DEF Refuse, Respond
    <3> QED
      BY <3>2 DEF NewGrantsPromised
  <2> QED
    BY <1>2, <1>a, <2>2, <2>3, <2>4 DEF handle_complete_gc_run
<1>3. CASE req.op = "start_replication_run" /\ handle_start_replication_run(p, req)
  <2>1. ASSUME replState'[g] \in {"open", "completed"}, replVersion'[g] = req.version,
               NEW b, b = replication_run_body(g)', Grant(p, req, b)
        PROVE  NewGrantsPromised(req)
    <3>1. Promise(req, b)'
      BY <1>3, <2>1 DEF Promise, replication_run_body
    <3> QED
      BY <2>1, <3>1, GrantsPromise
  <2>2. CASE start_replication_run(g, req.version) /\ Grant(p, req, replication_run_body(g)')
    BY <1>3, <2>1, <2>2 DEF start_replication_run, RepositoryTypeOK
  <2>3. CASE /\ start_replication_run_outcome(g, req.version) \in {"open", "completed"}
             /\ Query(p, req, replication_run_body(g))
    <3>1. replVersion[g] = req.version /\ replState[g] \in {"open", "completed"}
      BY <1>3, <2>3 DEF start_replication_run_outcome
    <3>2. replication_run_body(g) = replication_run_body(g)'
      BY <2>3 DEF Query, replication_run_body
    <3> QED
      BY <2>1, <2>3, <3>1, <3>2 DEF Query
  <2> QED
    BY <1>3, <1>b, <2>2, <2>3 DEF handle_start_replication_run
<1>4. CASE req.op = "complete_replication_run" /\ handle_complete_replication_run(p, req)
  <2>1. ASSUME replState'[g] = "completed", NEW b, b = replication_run_body(g)', Grant(p, req, b)
        PROVE  NewGrantsPromised(req)
    <3>1. Promise(req, b)'
      BY <1>4, <2>1 DEF Promise, replication_run_body
    <3> QED
      BY <2>1, <3>1, GrantsPromise
  <2>2. CASE complete_replication_run(g) /\ Grant(p, req, replication_run_body(g)')
    BY <1>4, <2>1, <2>2 DEF complete_replication_run, RepositoryTypeOK
  <2>3. CASE /\ complete_replication_run_outcome(g) = "completed"
             /\ Query(p, req, replication_run_body(g))
    <3>1. replState[g] = "completed"
      BY <2>3 DEF complete_replication_run_outcome
    <3>2. replication_run_body(g) = replication_run_body(g)'
      BY <2>3 DEF Query, replication_run_body
    <3> QED
      BY <2>1, <2>3, <3>1, <3>2 DEF Query
  <2> QED
    BY <1>4, <1>b, <2>2, <2>3 DEF handle_complete_replication_run
<1> QED
    BY <1>1, <1>2, <1>3, <1>4

LEMMA ServeGrants ==
    ASSUME RepositoryTypeOK, VersionsRecorded, NEW p, NEW req \in Calls, Serve(p, req)
    PROVE  NewGrantsPromised(req)
<1>1. CASE req.op \notin Committing
  <2>1. PICK a : Respond(p, req, a)
    BY ServeResponds
  <2>2. granted' = granted
    BY <1>1, <2>1 DEF Respond
  <2> QED
    BY <2>2 DEF NewGrantsPromised
<1>2. CASE req.op \in Committing
    BY <1>2, SessionGrants, RunGrants
       DEF Committing, Serve, handle_request, try_handle_m8_routes
<1> QED
    BY <1>1, <1>2

-----------------------------------------------------------------------------
(* Retries: what a request that was granted before can be refused with.    *)

LEMMA RefusalsExcused ==
    ASSUME RetriesGranted, NEW p, NEW req,
           \/ \E b : Grant(p, req, b)
           \/ \E status, code :
                /\ status # 200 /\ Refuse(p, req, Error(status, code))
                /\ \/ \A x \in granted : x.req # req
                   \/ [op |-> req.op, error |-> code] \in
                        {[op |-> "create_upload_session", error |-> "upload_session_conflict"],
                         [op |-> "finalize_upload", error |-> "artifact_version_retired"],
                         [op |-> "start_replication_run", error |-> "gc_in_progress"]}
    PROVE  RetriesGranted'
<1>1. CASE \E b : Grant(p, req, b)
    BY <1>1, GrantHistory DEF RetriesGranted
<1>2. ASSUME NEW status, status # 200, NEW code,
             Refuse(p, req, Error(status, code)),
             \/ \A x \in granted : x.req # req
             \/ [op |-> req.op, error |-> code] \in
                  {[op |-> "create_upload_session", error |-> "upload_session_conflict"],
                   [op |-> "finalize_upload", error |-> "artifact_version_retired"],
                   [op |-> "start_replication_run", error |-> "gc_in_progress"]}
      PROVE  RetriesGranted'
  <2>1. retracted' = IF \E x \in granted : x.req = req
                     THEN retracted \cup {[op |-> req.op, error |-> code]} ELSE retracted
    BY <1>2, RefusalHistory
  <2> QED
    BY <1>2, <2>1 DEF RetriesGranted
<1> QED
    BY <1>1, <1>2

LEMMA SessionRetries ==
    ASSUME GrantInv, RepositoryTypeOK, NEW p, NEW req \in Calls,
           \/ req.op = "create_upload_session" /\ handle_create_upload_session(p, req)
           \/ req.op = "abort_upload_session" /\ handle_abort_upload_session(p, req)
           \/ req.op = "finalize_upload" /\ handle_finalize_upload_session(p, req)
    PROVE  RetriesGranted'
<1> USE RequestTypes
<1> DEFINE s == req.session
<1>a. RetriesGranted /\ \A x \in granted : x.req = req => Promise(req, x.body)
    BY DEF GrantInv
<1>b. ASSUME NEW b, Grant(p, req, b) PROVE RetriesGranted'
    BY <1>a, <1>b, RefusalsExcused
<1>c. ASSUME NEW b, Query(p, req, b) PROVE RetriesGranted'
    BY <1>b, <1>c DEF Query
<1>1. CASE req.op = "create_upload_session" /\ handle_create_upload_session(p, req)
  <2> DEFINE response == create_upload_session_response(s, req.placement)
  <2>1. ASSUME response = "conflict", Refuse(p, req, create_error["conflict"])
        PROVE  RetriesGranted'
    <3> DEFINE code == "upload_session_conflict"
    <3>1. Refuse(p, req, Error(409, code))
      BY <2>1 DEF create_error
    <3>2. [op |-> req.op, error |-> code] = [op |-> "create_upload_session", error |-> code]
      BY <1>1
    <3> QED
      BY <1>a, <3>1, <3>2, RefusalsExcused
  <2>2. ASSUME response \in {"gc_in_progress", "invalid"}, Refuse(p, req, create_error[response])
        PROVE  RetriesGranted'
    <3>1. ASSUME NEW x \in granted, x.req = req PROVE FALSE
      <4>1. sessState[s] # "none" /\ RF <= Cardinality(req.placement)
        BY <1>1, <1>a, <3>1 DEF Promise
      <4>2. ~(RF > Cardinality(req.placement))
        <5>1. IsFiniteSet(req.placement)
          BY <1>1, PlacementAssumption, FS_Subset
        <5>2. Cardinality(req.placement) \in Nat /\ RF \in Nat
          BY <5>1, FS_CardinalityType, RepositoryAssumption
        <5> QED
          BY <4>1, <5>2
      <4> QED
        BY <2>2, <4>1, <4>2 DEF create_upload_session_response
    <3>2. \/ Refuse(p, req, Error(409, "gc_in_progress"))
          \/ Refuse(p, req, Error(400, "invalid_request"))
      BY <2>2 DEF create_error
    <3> QED
      BY <1>a, <3>1, <3>2, RefusalsExcused
  <2> QED
    BY <1>1, <1>b, <1>c, <2>1, <2>2 DEF handle_create_upload_session, create_error
<1>2. CASE req.op = "abort_upload_session" /\ handle_abort_upload_session(p, req)
  <2>1. ASSUME sessState[s] # "aborted" PROVE \A x \in granted : x.req # req
    BY <1>2, <1>a, <2>1 DEF Promise
  <2> QED
    BY <1>2, <1>a, <1>b, <1>c, <2>1, RefusalsExcused DEF handle_abort_upload_session
<1>3. CASE req.op = "finalize_upload" /\ handle_finalize_upload_session(p, req)
  <2> DEFINE l == req.layout  outcome == finalize_upload_outcome(s, l)
  <2>1. ASSUME NEW x \in granted, x.req = req PROVE outcome \in {"ok", "version_retired"}
    <3>1. /\ sessState[s] = "committed" /\ sessVersion[s] = version_of(s, l)
          /\ is_version_retired(version_of(s, l)) \/ /\ sessLayout[s] = l /\ l \in layouts
                                                     /\ LayoutObject[l] \in objects
      BY <1>3, <1>a, <2>1 DEF Promise
    <3> QED
      BY <3>1 DEF finalize_upload_outcome, committed_retry_outcome
  <2>2. ASSUME outcome = "version_retired", Refuse(p, req, finalize_error["version_retired"])
        PROVE  RetriesGranted'
    <3>1. Refuse(p, req, Error(410, "artifact_version_retired"))
      BY <2>2 DEF finalize_error
    <3> QED
      BY <1>3, <1>a, <3>1, RefusalsExcused
  <2>3. ASSUME outcome \in DOMAIN finalize_error, outcome # "version_retired",
               Refuse(p, req, finalize_error[outcome])
        PROVE  RetriesGranted'
    <3>1. \A x \in granted : x.req # req
      BY <2>1, <2>3 DEF finalize_error
    <3>2. \E code : \/ Refuse(p, req, Error(404, code))
                    \/ Refuse(p, req, Error(409, code))
      BY <2>3 DEF finalize_error
    <3> QED
      BY <1>a, <3>1, <3>2, RefusalsExcused
  <2> QED
    BY <1>3, <1>b, <1>c, <2>2, <2>3 DEF handle_finalize_upload_session
<1> QED
    BY <1>1, <1>2, <1>3

LEMMA RunRetries ==
    ASSUME GrantInv, RepositoryTypeOK, NEW p, NEW req \in Calls,
           \/ req.op = "start_gc_run" /\ handle_start_gc_run(p, req)
           \/ req.op = "complete_gc_run" /\ handle_complete_gc_run(p, req)
           \/ req.op = "start_replication_run" /\ handle_start_replication_run(p, req)
           \/ req.op = "complete_replication_run" /\ handle_complete_replication_run(p, req)
    PROVE  RetriesGranted'
<1> USE RequestTypes
<1> DEFINE g == req.run  First == \A x \in granted : x.req # req
<1>a. RetriesGranted /\ \A x \in granted : x.req = req => Promise(req, x.body)
    BY DEF GrantInv
<1>b. ASSUME \E b : Grant(p, req, b) \/ Query(p, req, b) PROVE RetriesGranted'
    BY <1>a, <1>b, RefusalsExcused DEF Query
<1>c. ASSUME First, NEW status, status # 200, NEW code, Refuse(p, req, Error(status, code))
      PROVE  RetriesGranted'
    BY <1>a, <1>c, RefusalsExcused
<1>d. ASSUME First, \E outcome \in DOMAIN gc_error : Refuse(p, req, gc_error[outcome])
      PROVE  RetriesGranted'
  <2>1. \E code : Refuse(p, req, Error(404, code)) \/ Refuse(p, req, Error(409, code))
    BY <1>d DEF gc_error
  <2> QED
    BY <1>c, <1>d, <2>1
<1>e. ASSUME First,
             \E outcome \in DOMAIN replication_error : Refuse(p, req, replication_error[outcome])
      PROVE  RetriesGranted'
  <2>1. \E code : \/ Refuse(p, req, Error(404, code))
                  \/ Refuse(p, req, Error(409, code))
                  \/ Refuse(p, req, Error(410, code))
    BY <1>e DEF replication_error
  <2> QED
    BY <1>c, <1>e, <2>1
<1>1. CASE req.op = "start_gc_run" /\ handle_start_gc_run(p, req)
  <2>1. ~First => start_gc_run_outcome(g, req.node, req.mode) \in {"open", "completed"}
    BY <1>1, <1>a DEF Promise, start_gc_run_outcome
  <2>2. CASE First
    BY <1>1, <1>b, <1>d, <2>2 DEF handle_start_gc_run
  <2>3. CASE ~First
    BY <1>1, <1>b, <2>1, <2>3 DEF handle_start_gc_run, gc_error
  <2> QED
    BY <2>2, <2>3
<1>2. CASE req.op = "complete_gc_run" /\ handle_complete_gc_run(p, req)
  <2>1. ~First => complete_gc_run_outcome(g) = "completed"
    BY <1>2, <1>a DEF Promise, complete_gc_run_outcome
  <2>2. CASE First
    <3>1. ASSUME Refuse(p, req, InternalError) PROVE RetriesGranted'
      <4>1. retracted' = retracted
        BY <2>2, <3>1 DEF Refuse, Respond
      <4> QED
        BY <1>a, <4>1 DEF RetriesGranted
    <3> QED
      BY <1>2, <1>b, <1>d, <2>2, <3>1 DEF handle_complete_gc_run
  <2>3. CASE ~First
    BY <1>2, <1>b, <2>1, <2>3 DEF handle_complete_gc_run, gc_error
  <2> QED
    BY <2>2, <2>3
<1>3. CASE req.op = "start_replication_run" /\ handle_start_replication_run(p, req)
  <2>1. ~First => start_replication_run_outcome(g, req.version) \in
                        {"gc_in_progress", "open", "completed"}
    BY <1>3, <1>a DEF Promise, start_replication_run_outcome
  <2>2. CASE First
    BY <1>3, <1>b, <1>e, <2>2 DEF handle_start_replication_run
  <2>3. ASSUME Refuse(p, req, replication_error["gc_in_progress"]) PROVE RetriesGranted'
    <3> DEFINE code == "gc_in_progress"
    <3>1. Refuse(p, req, Error(409, code))
      BY <2>3 DEF replication_error
    <3>2. [op |-> req.op, error |-> code] = [op |-> "start_replication_run", error |-> code]
      BY <1>3
    <3> QED
      BY <1>a, <3>1, <3>2, RefusalsExcused
  <2>4. CASE ~First
    BY <1>3, <1>b, <2>1, <2>3, <2>4 DEF handle_start_replication_run, replication_error
  <2> QED
    BY <2>2, <2>4
<1>4. CASE req.op = "complete_replication_run" /\ handle_complete_replication_run(p, req)
  <2>1. ~First => complete_replication_run_outcome(g) = "completed"
    BY <1>4, <1>a DEF Promise, complete_replication_run_outcome
  <2>2. CASE First
    BY <1>4, <1>b, <1>e, <2>2 DEF handle_complete_replication_run
  <2>3. CASE ~First
    BY <1>4, <1>b, <2>1, <2>3 DEF handle_complete_replication_run, replication_error
  <2> QED
    BY <2>2, <2>3
<1> QED
    BY <1>1, <1>2, <1>3, <1>4

LEMMA ServeRetries ==
    ASSUME GrantInv, RepositoryTypeOK, NEW p, NEW req \in Calls, Serve(p, req)
    PROVE  RetriesGranted'
<1>1. CASE req.op \notin Committing
  <2>1. PICK a : Respond(p, req, a)
    BY ServeResponds
  <2>2. \A x \in granted : x.req # req
    BY <1>1 DEF GrantInv, Promise, Committing
  <2>3. retracted' = retracted
    BY <2>1, <2>2 DEF Respond
  <2> QED
    BY <2>3 DEF GrantInv, RetriesGranted
<1>2. CASE req.op \in Committing
    BY <1>2, SessionRetries, RunRetries
       DEF Committing, Serve, handle_request, try_handle_m8_routes
<1> QED
    BY <1>1, <1>2

-----------------------------------------------------------------------------
(* The invariant of the history, and what it says of the grants.           *)

LEMMA GrantInit == Init => GrantInv
BY DEF Init, RepositoryInit, GrantInv, VersionsRecorded, RetriesGranted

LEMMA GrantNext ==
    ASSUME ServiceInv, GrantInv, [Next]_vars PROVE GrantInv'
<1>a. ServiceStep /\ RepositoryStep
    BY ServiceNext, ServiceIsRepository
<1>b. VersionsRecorded'
    BY <1>a, SessionsAdvance DEF ServiceInv, GrantInv
<1>c. ASSUME NEW x \in granted PROVE x.req \in Calls /\ Promise(x.req, x.body)'
    BY <1>a, PromisesKept DEF ServiceInv, GrantInv
<1>d. ASSUME UNCHANGED <<granted, retracted>> PROVE GrantInv'
  <2>1. RetriesGranted'
    BY <1>d DEF GrantInv, RetriesGranted
  <2> QED
    BY <1>b, <1>c, <1>d, <2>1 DEF GrantInv
<1>e. ASSUME NEW p, NEW req \in Calls, Serve(p, req) PROVE GrantInv'
  <2>1. RetriesGranted' /\ NewGrantsPromised(req)
    BY <1>e, ServeRetries, ServeGrants DEF ServiceInv, GrantInv
  <2> QED
    BY <1>b, <1>c, <2>1 DEF GrantInv, NewGrantsPromised
<1>1. ASSUME NEW p \in Clients, Handle(p) PROVE GrantInv'
  <2>1. call[p] \in Calls /\ Serve(p, call[p])
    BY <1>1 DEF Handle, ServiceInv, CallTypeOK
  <2> QED
    BY <1>e, <2>1
<1>2. ASSUME NEW req \in late, HandleLate(req) PROVE GrantInv'
    BY <1>2, <1>e DEF HandleLate, ServiceInv, CallTypeOK
<1> QED
    BY <1>d, <1>1, <1>2 DEF Next, Request, Receive, Timeout, Retire

LEMMA GrantsAlways == Spec => []GrantInv
<1>1. Spec => [](ServiceInv)
    BY ServiceInit, ServiceNext, PTL DEF Spec
<1> QED
    BY <1>1, GrantInit, GrantNext, PTL DEF Spec

(* What a granted request promised its caller stays true in the tables for *)
(* good: the session with its placement, the abort, the version, the run   *)
(* with its target or its plan; requests handled late or twice included.   *)
THEOREM GrantsKeptHolds == Spec => []GrantsKept
<1>1. GrantInv => GrantsKept
  <2> SUFFICES ASSUME GrantInv, NEW x \in granted PROVE Kept(x.req, x.body)
    BY DEF GrantsKept
  <2> DEFINE req == x.req  body == x.body
  <2> SUFFICES Kept(req, body)
    OBVIOUS
  <2>1. Promise(req, body)
    BY DEF GrantInv
  <2> HIDE DEF req, body
  <2>2. CASE req.op \in {"create_upload_session", "abort_upload_session", "finalize_upload"}
    BY <2>1, <2>2 DEF Promise, Kept
  <2>3. CASE req.op \in {"start_gc_run", "start_replication_run"}
    BY <2>1, <2>3 DEF Promise, Kept
  <2>4. CASE req.op = "complete_gc_run"
    <3>1. gcState[req.run] = "completed" /\ body = gc_run_body(req.run)
      BY <2>1, <2>4 DEF Promise
    <3>2. /\ body.target = gcTarget[req.run] /\ body.mode = gcMode[req.run]
          /\ body.state = "completed"
      BY <3>1 DEF gc_run_body
    <3> QED
      BY <2>4, <3>1, <3>2 DEF Kept
  <2>5. CASE req.op = "complete_replication_run"
    <3>1. replState[req.run] = "completed" /\ body = replication_run_body(req.run)
      BY <2>1, <2>5 DEF Promise
    <3>2. /\ body.version = replVersion[req.run] /\ body.layout = replLayout[req.run]
          /\ body.placement = replPlacement[req.run] /\ body.state = "completed"
      BY <3>1 DEF replication_run_body
    <3> QED
      BY <2>5, <3>1, <3>2 DEF Kept
  <2> QED
    BY <2>1, <2>2, <2>3, <2>4, <2>5 DEF Promise
<1> QED
    BY <1>1, GrantsAlways, PTL

(* All callers that completed one run were told the statistics of the one  *)
(* that completed it, whatever statistics of their own they sent.          *)
THEOREM CompletionsAgreeHolds == Spec => []CompletionsAgree
<1>1. GrantInv => CompletionsAgree
    BY DEF GrantInv, CompletionsAgree, Promise
<1> QED
    BY <1>1, GrantsAlways, PTL

(* A request that was granted and is sent again is granted again, but for  *)
(* a session past "open", a retired version and a repair beside a GC run.  *)
THEOREM RetriesGrantedHolds == Spec => []RetriesGranted
<1>1. GrantInv => RetriesGranted
    BY DEF GrantInv
<1> QED
    BY <1>1, GrantsAlways, PTL

=============================================================================
