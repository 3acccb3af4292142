-------------------------- MODULE Lifecycle_proofs --------------------------
(***************************************************************************)
(* Machine-checked proofs about module Lifecycle, for every number of      *)
(* versions, policies, lifecycle runs and GC runs.                         *)
(***************************************************************************)
EXTENDS Lifecycle, MetadataRepository_proofs

USE DEF nodeVars, chunkVars, catalogVars, sessVars, gcVars, replVars, dbVars,
        protectionVars, lifeVars

(* Every step of a lifecycle is at most one transaction of the repository. *)
LEMMA LifecycleIsRepositoryStep ==
    ASSUME RepositoryTypeOK, [Next]_vars
    PROVE  RepositoryStep
<1> USE RepositoryAssumption
<1>1. ASSUME NEW s \in Sessions, Upload(s) PROVE RepositoryStep
  <2>1. active_nodes \in SUBSET Nodes
    BY DEF active_nodes
  <2>2. \A l \in SessionLayouts[s] : l \in Layouts /\ LayoutChunks[l] \in SUBSET Chunks
    OBVIOUS
  <2>3. CASE \E l \in SessionLayouts[s] : finalize_version(s, l)
    BY <2>2, <2>3 DEF finalize_version, RepositoryStep
  <2>4. CASE \E l \in SessionLayouts[s] : negotiate_chunks(s, LayoutChunks[l])
    BY <2>2, <2>4 DEF RepositoryStep
  <2> QED
    BY <1>1, <2>1, <2>3, <2>4 DEF Upload, RepositoryStep
<1>2. ASSUME NEW g \in GcRuns, Collect(g) PROVE RepositoryStep
  <2>1. "apply" \in GcModes
    BY DEF GcModes
  <2> QED
    BY <1>2, <2>1 DEF Collect, RepositoryStep
<1>3. ASSUME NEW r \in LifecycleRuns, NEW p \in Policies, NEW mode \in LifecycleModes,
             run_lifecycle_policy(r, p, mode)
      PROVE RepositoryStep
  <2> DEFINE R == IF mode = "apply" THEN retire_candidates(p) ELSE {}
  <2>1. R \in SUBSET versions
    BY DEF retire_candidates, candidates
  <2>2. run_lifecycle(R)
    BY <1>3 DEF run_lifecycle_policy
  <2> HIDE DEF R
  <2> QED
    BY <2>1, <2>2 DEF RepositoryStep
<1> QED
    BY <1>1, <1>2, <1>3
       DEF Next, vars, pin_version, unpin_version, set_tag, register_manifest,
           register_lifecycle_policy, Tick, RepositoryStep

-----------------------------------------------------------------------------
(* Types.                                                                  *)

LEMMA InitTypes == Init => LifecycleTypeOK
<1> SUFFICES ASSUME Init PROVE LifecycleTypeOK
    OBVIOUS
<1>1. (CHOOSE n \in Nodes : TRUE) \in Nodes
    BY PlacementAssumption
<1>2. RepositoryTypeOK
    BY <1>1 DEF Init, RepositoryInit, RepositoryTypeOK, NodeStates, SessionStates, RunStates, GcModes
<1> QED
    BY <1>2, LifecycleAssumption DEF Init, RepositoryInit, LifecycleTypeOK

(* The row a lifecycle run inserts.                                        *)
LEMMA RunRow ==
    ASSUME LifecycleTypeOK, NEW p \in Policies, NEW mode \in LifecycleModes
    PROVE  [policy |-> p, mode |-> mode, reason |-> [v \in candidates |-> decision(p, v)]]
              \in LifecycleRunRows
<1>1. \A v \in candidates : decision(p, v) \in Reasons
    BY DEF decision, Reasons
<1>2. candidates \in SUBSET Versions
    BY DEF candidates, LifecycleTypeOK, RepositoryTypeOK
<1> DEFINE f == [v \in candidates |-> decision(p, v)]
<1>3. f \in [candidates -> Reasons]
    BY <1>1
<1>4. f \in UNION {[S -> Reasons] : S \in SUBSET Versions}
    BY <1>2, <1>3
<1> HIDE DEF f
<1>5. [policy |-> p, mode |-> mode, reason |-> f] \in LifecycleRunRows
    BY <1>4 DEF LifecycleRunRows
<1> QED
    BY <1>5 DEF f

LEMMA NextTypes == LifecycleTypeOK /\ [Next]_vars => LifecycleTypeOK'
<1> SUFFICES ASSUME LifecycleTypeOK, [Next]_vars PROVE LifecycleTypeOK'
    OBVIOUS
<1> USE LifecycleAssumption DEF LifecycleTypeOK
<1>1. RepositoryTypeOK'
    BY LifecycleIsRepositoryStep, RepositoryTypes
<1>2. versions \subseteq Versions
    BY DEF RepositoryTypeOK
<1>3. ASSUME NEW s \in Sessions, NEW l \in SessionLayouts[s], finalize_version(s, l)
      PROVE LifecycleTypeOK'
  <2>1. versions \subseteq versions'
    BY <1>3 DEF finalize_version, finalize_upload
  <2>2. createdAt' \in [Versions -> 0..MaxTime]
    BY <1>3 DEF finalize_version
  <2> QED
    BY <1>1, <1>3, <2>1, <2>2 DEF finalize_version
<1>4. ASSUME NEW v \in versions, pin_version(v) \/ unpin_version(v) PROVE LifecycleTypeOK'
    BY <1>1, <1>4 DEF pin_version, unpin_version
<1>5. ASSUME NEW t \in TagKeys, NEW v \in versions, set_tag(t, v) PROVE LifecycleTypeOK'
    BY <1>1, <1>5 DEF set_tag
<1>6. ASSUME NEW m \in Manifests, register_manifest(m) PROVE LifecycleTypeOK'
    BY <1>1, <1>6 DEF register_manifest
<1>7. ASSUME NEW p \in Policies, register_lifecycle_policy(p) PROVE LifecycleTypeOK'
    BY <1>1, <1>7 DEF register_lifecycle_policy
<1>8. ASSUME NEW r \in LifecycleRuns, NEW p \in Policies, NEW mode \in LifecycleModes,
             run_lifecycle_policy(r, p, mode)
      PROVE LifecycleTypeOK'
  <2> DEFINE row == [policy |-> p, mode |-> mode, reason |-> [v \in candidates |-> decision(p, v)]]
  <2>1. row \in LifecycleRunRows
    BY RunRow
  <2>2. row.policy = p /\ DOMAIN row.reason \subseteq versions
    BY DEF candidates
  <2>3. p \in policies
    BY <1>8 DEF run_lifecycle_policy, run_lifecycle_outcome
  <2>4. lifeRuns' = [lifeRuns EXCEPT ![r] = row] /\ UNCHANGED versions
    BY <1>8 DEF run_lifecycle_policy, run_lifecycle
  <2> HIDE DEF row
  <2> QED
    BY <1>1, <1>8, <2>1, <2>2, <2>3, <2>4 DEF run_lifecycle_policy
<1>9. CASE Tick
    BY <1>1, <1>9 DEF Tick
<1>10. ASSUME UNCHANGED <<versions, lifeVars>> PROVE LifecycleTypeOK'
    BY <1>1, <1>10
<1>11. ASSUME NEW s \in Sessions, Upload(s) PROVE LifecycleTypeOK'
    BY <1>3, <1>10, <1>11
       DEF Upload, create_upload_session, negotiate_chunks, register_storage_location,
           abort_upload_session
<1>12. ASSUME NEW g \in GcRuns, Collect(g) PROVE LifecycleTypeOK'
    BY <1>10, <1>12 DEF Collect, start_gc_run, complete_gc_run
<1>13. CASE UNCHANGED vars
    BY <1>10, <1>13 DEF vars
<1> QED
    BY <1>4, <1>5, <1>6, <1>7, <1>8, <1>9, <1>11, <1>12, <1>13 DEF Next

(* Type correctness of the lifecycle tables: pins, tags and decisions name *)
(* versions that exist, and a run's policy is registered.                  *)
THEOREM LifecycleTypesHold == Spec => []LifecycleTypeOK
<1> QED
    BY InitTypes, NextTypes, PTL DEF Spec

-----------------------------------------------------------------------------
(* What is protected can be restored.                                      *)

ProtectedLive == protected_versions \subseteq candidates

(* Of some layout of v's object every chunk has a location. *)
Restorable(v) ==
    \E l \in layouts : /\ LayoutObject[l] = v[2]
                       /\ \A c \in LayoutChunks[l] : \E n \in Nodes : <<c, n>> \in locations

CandidatesRestorable == \A v \in candidates : Restorable(v)

PlacementsUsable ==
    \A s \in Sessions : sessState[s] = "open" => sessPlacement[s] # {}

LifecycleInvariant ==
    /\ LifecycleTypeOK
    /\ ProtectedLive /\ CandidatesRestorable /\ PlacementsUsable

LEMMA ProtectedLiveStep ==
    ASSUME LifecycleInvariant, [Next]_vars
    PROVE  ProtectedLive'
<1> USE DEF LifecycleInvariant, LifecycleTypeOK, ProtectedLive, protected_versions, candidates, tagged,
            manifest_referenced, is_version_retired
<1>1. ASSUME NEW r \in LifecycleRuns, NEW p \in Policies, NEW mode \in LifecycleModes,
             run_lifecycle_policy(r, p, mode)
      PROVE ProtectedLive'
  <2> DEFINE R == IF mode = "apply" THEN retire_candidates(p) ELSE {}
  <2>1. /\ UNCHANGED <<pins, tags, manifests, versions>> /\ retired' = retired \cup R
    BY <1>1 DEF run_lifecycle_policy, run_lifecycle
  <2>2. \A v \in R : v \notin protected_versions
    BY DEF retire_candidates, decision
  <2> HIDE DEF R
  <2> QED
    BY <2>1, <2>2
<1>2. ASSUME NEW v \in versions, pin_version(v) PROVE ProtectedLive'
    BY <1>2 DEF pin_version
<1>3. ASSUME NEW v \in versions, unpin_version(v) PROVE ProtectedLive'
    BY <1>3 DEF unpin_version
<1>4. ASSUME NEW t \in TagKeys, NEW v \in versions, set_tag(t, v) PROVE ProtectedLive'
  <2>1. \A u \in TagKeys : tags'[u] = v \/ tags'[u] = tags[u]
    BY <1>4 DEF set_tag
  <2> QED
    BY <1>4, <2>1 DEF set_tag
<1>5. ASSUME NEW m \in Manifests, register_manifest(m) PROVE ProtectedLive'
    BY <1>5 DEF register_manifest
<1>6. ASSUME UNCHANGED protectionVars, versions \subseteq versions', retired' = retired
      PROVE ProtectedLive'
    BY <1>6
<1>7. ASSUME NEW s \in Sessions, Upload(s) PROVE ProtectedLive'
    BY <1>6, <1>7
       DEF Upload, create_upload_session, negotiate_chunks, register_storage_location,
           abort_upload_session, finalize_version, finalize_upload
<1>8. ASSUME NEW g \in GcRuns, Collect(g) PROVE ProtectedLive'
    BY <1>6, <1>8 DEF Collect, start_gc_run, complete_gc_run
<1> QED
    BY <1>1, <1>2, <1>3, <1>4, <1>5, <1>6, <1>7, <1>8
       DEF Next, vars, register_lifecycle_policy, Tick

(* A session is open only with a placement that is not empty, because the  *)
(* replication factor does not exceed its size.                            *)
LEMMA PlacementsUsableStep ==
    ASSUME LifecycleInvariant, [Next]_vars
    PROVE  PlacementsUsable'
<1> USE RepositoryAssumption
    DEF LifecycleInvariant, LifecycleTypeOK, RepositoryTypeOK, PlacementsUsable
<1>1. RepositoryStep
    BY LifecycleIsRepositoryStep
<1>2. ASSUME NEW s \in Sessions, NEW P \in SUBSET Nodes, create_upload_session(s, P)
      PROVE PlacementsUsable'
  <2>1. P # {}
    <3> SUFFICES ASSUME P = {} PROVE FALSE
      OBVIOUS
    <3>1. ~(RF > Cardinality({}))
      BY <1>2 DEF create_upload_session, create_upload_session_outcome
    <3> QED
      BY <3>1, FS_EmptySet
  <2> QED
    BY <1>2, <2>1 DEF create_upload_session
<1>3. ASSUME NEW s \in Sessions, abort_upload_session(s) PROVE PlacementsUsable'
    BY <1>3 DEF abort_upload_session
<1>4. ASSUME NEW s \in Sessions, NEW l \in Layouts, finalize_upload(s, l) PROVE PlacementsUsable'
    BY <1>4 DEF finalize_upload
<1> QED
    BY <1>1, <1>2, <1>3, <1>4
       DEF RepositoryStep, register_storage_node, negotiate_chunks, register_storage_location,
           start_gc_run, complete_gc_run, start_replication_run, complete_replication_run,
           run_lifecycle

(* finalize_upload finds a location of every chunk it commits.             *)
LEMMA FinalizedRestorable ==
    ASSUME LifecycleInvariant, NEW s \in Sessions, NEW l \in Layouts, finalize_upload(s, l)
    PROVE  \A c \in LayoutChunks[l] : \E n \in Nodes : <<c, n>> \in locations
<1> USE RepositoryAssumption
    DEF LifecycleInvariant, LifecycleTypeOK, RepositoryTypeOK, PlacementsUsable
<1>1. /\ sessState[s] = "open"
      /\ \A c \in LayoutChunks[l] : \A n \in session_replicas(s, c) : <<c, n>> \in locations
    BY DEF finalize_upload, finalize_upload_outcome, committed_retry_outcome, open_finalize_outcome,
           SessionStates
<1> SUFFICES ASSUME NEW c \in LayoutChunks[l]
             PROVE  \E n \in Nodes : <<c, n>> \in locations
    OBVIOUS
<1>2. sessPlacement[s] \in SUBSET Nodes /\ sessPlacement[s] # {} /\ c \in Chunks
    BY <1>1
<1>3. session_replicas(s, c) # {} /\ session_replicas(s, c) \subseteq Nodes
    BY <1>2, SelectNonEmpty, SelectSubset DEF session_replicas
<1> QED
    BY <1>1, <1>3

LEMMA CandidatesRestorableStep ==
    ASSUME LifecycleInvariant, [Next]_vars
    PROVE  CandidatesRestorable'
<1> USE RepositoryAssumption
    DEF LifecycleInvariant, LifecycleTypeOK, RepositoryTypeOK, CandidatesRestorable, Restorable,
        candidates, is_version_retired
<1>1. RepositoryStep
    BY LifecycleIsRepositoryStep
<1>2. ASSUME NEW s \in Sessions, NEW l \in Layouts, finalize_upload(s, l)
      PROVE CandidatesRestorable'
  <2>1. \A c \in LayoutChunks[l] : \E n \in Nodes : <<c, n>> \in locations
    BY <1>2, FinalizedRestorable
  <2>2. version_of(s, l)[2] = LayoutObject[l]
    BY DEF version_of
  <2> QED
    BY <1>2, <2>1, <2>2 DEF finalize_upload
<1>3. ASSUME NEW g \in GcRuns, complete_gc_run(g) PROVE CandidatesRestorable'
  <2>1. /\ \A l \in live_layouts : l \in layouts'
        /\ \A x \in locations : live_chunk(x[1]) => x \in locations'
        /\ UNCHANGED <<versions, retired>>
    BY <1>3 DEF complete_gc_run, sweep_gc_metadata, live_layouts
  <2>2. ASSUME NEW v \in candidates, NEW l \in layouts, LayoutObject[l] = v[2]
        PROVE l \in live_layouts /\ \A c \in LayoutChunks[l] : live_chunk(c)
    BY <2>2 DEF live_layouts, live_layout, live_chunk
  <2>3. ASSUME NEW v \in candidates PROVE Restorable(v)'
    <3>1. PICK l \in layouts : /\ LayoutObject[l] = v[2]
                               /\ \A c \in LayoutChunks[l] : \E n \in Nodes : <<c, n>> \in locations
      OBVIOUS
    <3>2. l \in layouts' /\ \A c \in LayoutChunks[l] : live_chunk(c)
      BY <2>1, <2>2, <3>1
    <3>3. \A c \in LayoutChunks[l] : \E n \in Nodes : <<c, n>> \in locations'
      BY <2>1, <3>1, <3>2
    <3> QED
      BY <3>1, <3>2, <3>3
  <2> QED
    BY <2>1, <2>3
<1>4. ASSUME layouts' = layouts, versions' = versions, locations \subseteq locations',
             retired \subseteq retired'
      PROVE CandidatesRestorable'
  <2>1. candidates' \subseteq candidates
    BY <1>4
  <2> QED
    BY <1>4, <2>1
<1> QED
    BY <1>1, <1>2, <1>3, <1>4
       DEF RepositoryStep, register_storage_node, negotiate_chunks, register_storage_location,
           create_upload_session, abort_upload_session, start_gc_run, start_replication_run,
           complete_replication_run, run_lifecycle

LEMMA LifecycleInvariantHolds == Spec => []LifecycleInvariant
<1>1. Init => LifecycleInvariant
  <2> SUFFICES ASSUME Init PROVE LifecycleInvariant
    OBVIOUS
  <2>1. protected_versions = {}
    BY RepositoryAssumption DEF Init, protected_versions, tagged, manifest_referenced
  <2> QED
    BY InitTypes, <2>1
       DEF Init, RepositoryInit, LifecycleInvariant, ProtectedLive, CandidatesRestorable,
           candidates, PlacementsUsable
<1>2. LifecycleInvariant /\ [Next]_vars => LifecycleInvariant'
    BY NextTypes, ProtectedLiveStep, CandidatesRestorableStep, PlacementsUsableStep
       DEF LifecycleInvariant
<1> QED
    BY <1>1, <1>2, PTL DEF Spec

(* What is pinned, tagged or named by a manifest can be restored, whatever *)
(* lifecycle runs and GC runs went by (run_lifecycle, sweep_gc_metadata).  *)
THEOREM ProtectedRestorableHolds == Spec => []ProtectedRestorable
<1>1. LifecycleInvariant => ProtectedRestorable
    BY DEF LifecycleInvariant, ProtectedLive, CandidatesRestorable, Restorable,
           ProtectedRestorable, available_node_ids
<1> QED
    BY <1>1, LifecycleInvariantHolds, PTL

-----------------------------------------------------------------------------
(* The decisions of the runs explain what is retired.                      *)

LEMMA RetiringRun ==
    ASSUME LifecycleTypeOK, RetirementsExplained,
           NEW r \in LifecycleRuns, NEW p \in Policies, NEW mode \in LifecycleModes,
           run_lifecycle_policy(r, p, mode)
    PROVE  RetirementsExplained'
<1> DEFINE R == IF mode = "apply" THEN retire_candidates(p) ELSE {}
           row == [policy |-> p, mode |-> mode, reason |-> [v \in candidates |-> decision(p, v)]]
<1>1. lifeRuns[r] = NoRun /\ RetiredBy(r) = {}
    BY DEF run_lifecycle_policy, run_lifecycle_outcome, RetiredBy
<1>2. retired' = retired \cup R /\ lifeRuns' = [lifeRuns EXCEPT ![r] = row]
    BY DEF run_lifecycle_policy, run_lifecycle
<1>3. row # NoRun
    BY RunRow, LifecycleAssumption
<1>4. row.mode = mode /\ (mode = "apply" => {v \in DOMAIN row.reason : row.reason[v] = "policy-retire"} = R)
    BY DEF retire_candidates
<1> HIDE DEF row
<1>5. RetiredBy(r)' = R
    BY <1>2, <1>3, <1>4 DEF RetiredBy, LifecycleTypeOK
<1>6. \A q \in LifecycleRuns \ {r} : RetiredBy(q)' = RetiredBy(q)
    BY <1>2 DEF RetiredBy, LifecycleTypeOK
<1>7. R \cap retired = {}
    BY DEF retire_candidates, candidates, is_version_retired
<1> HIDE DEF R
<1>8. \A q \in LifecycleRuns : RetiredBy(q) \subseteq retired
    BY DEF RetirementsExplained
<1>9. retired' = UNION {RetiredBy(q)' : q \in LifecycleRuns}
    BY <1>1, <1>2, <1>5, <1>6 DEF RetirementsExplained
<1>10. \A q, z \in LifecycleRuns : q # z => RetiredBy(q)' \cap RetiredBy(z)' = {}
    BY <1>5, <1>6, <1>7, <1>8 DEF RetirementsExplained
<1> QED
    BY <1>9, <1>10 DEF RetirementsExplained

(* A version is retired if and only if an apply run recorded the decision, *)
(* and one run only (the decisions and retirements of run_lifecycle).      *)
THEOREM RetirementsExplainedHolds == Spec => []RetirementsExplained
<1>1. Init => RetirementsExplained
    BY DEF Init, RepositoryInit, RetirementsExplained, RetiredBy
<1>2. LifecycleTypeOK /\ RetirementsExplained /\ [Next]_vars => RetirementsExplained'
  <2> SUFFICES ASSUME LifecycleTypeOK, RetirementsExplained, [Next]_vars
               PROVE  RetirementsExplained'
    OBVIOUS
  <2>1. CASE UNCHANGED <<retired, lifeRuns>>
    BY <2>1 DEF RetirementsExplained, RetiredBy
  <2> QED
    BY <2>1, RetiringRun
       DEF Next, vars, Upload, create_upload_session, negotiate_chunks, register_storage_location,
           abort_upload_session, finalize_version, finalize_upload, Collect, start_gc_run,
           complete_gc_run, pin_version, unpin_version, set_tag, register_manifest,
           register_lifecycle_policy, Tick
<1> QED
    BY <1>1, <1>2, LifecycleTypesHold, PTL DEF Spec

-----------------------------------------------------------------------------
(* The ranking of the versions of a partition.                             *)

(* The candidates that are ranked before v in its partition. *)
Before(v) == {u \in candidates : partition(u) = partition(v) /\ RankedBefore(u, v)}

RankInvariant ==
    /\ LifecycleInvariant
    /\ IsFiniteSet(versions)

LEMMA RankedBeforeOrder ==
    ASSUME LifecycleTypeOK,
           NEW t \in Versions, NEW u \in Versions, NEW v \in Versions
    PROVE  /\ ~RankedBefore(u, u)
           /\ RankedBefore(t, u) /\ RankedBefore(u, v) => RankedBefore(t, v)
<1>1. /\ createdAt[t] \in Int /\ createdAt[u] \in Int /\ createdAt[v] \in Int
      /\ VersionOrder[t] \in Int /\ VersionOrder[u] \in Int /\ VersionOrder[v] \in Int
    BY LifecycleAssumption DEF LifecycleTypeOK
<1> QED
    BY <1>1 DEF RankedBefore

(* Ranks are counted over finite sets, which grow along the order.         *)
LEMMA BeforeGrows ==
    ASSUME RankInvariant, NEW v \in candidates
    PROVE  /\ Before(v) \in SUBSET Versions /\ IsFiniteSet(Before(v))
           /\ Cardinality(Before(v)) \in Nat
           /\ rank_in_kind(v) = 1 + Cardinality(Before(v))
           /\ \A u \in Before(v) : Before(u) \subseteq Before(v) \ {u}
<1>0. candidates \subseteq versions /\ versions \subseteq Versions /\ LifecycleTypeOK
    BY DEF RankInvariant, LifecycleInvariant, LifecycleTypeOK, RepositoryTypeOK, candidates
<1>1. Before(v) \subseteq versions
    BY <1>0 DEF Before
<1>2. IsFiniteSet(Before(v))
    BY <1>1, FS_Subset DEF RankInvariant
<1>3. Cardinality(Before(v)) \in Nat
    BY <1>2, FS_CardinalityType
<1>4. ASSUME NEW u \in Before(v) PROVE Before(u) \subseteq Before(v) \ {u}
  <2>1. u \in candidates /\ partition(u) = partition(v) /\ RankedBefore(u, v)
    BY DEF Before
  <2>2. \A t \in Before(u) : t \in candidates /\ partition(t) = partition(u) /\ RankedBefore(t, u)
    BY DEF Before
  <2>3. \A t \in Before(u) : RankedBefore(t, v) /\ t # u
    BY <1>0, <2>1, <2>2, RankedBeforeOrder
  <2> QED
    BY <2>1, <2>2, <2>3 DEF Before
<1> QED
    BY <1>0, <1>1, <1>2, <1>3, <1>4 DEF rank_in_kind, Before

(* If one version of a partition ranks behind n, at least n rank up to n.  *)
LEMMA EnoughRankUpTo ==
    ASSUME RankInvariant, NEW g, NEW n \in Nat,
           NEW x \in candidates, partition(x) = g, rank_in_kind(x) > n
    PROVE  LET Top == {u \in candidates : partition(u) = g /\ rank_in_kind(u) <= n}
           IN  IsFiniteSet(Top) /\ Cardinality(Top) \in Nat /\ Cardinality(Top) >= n
<1> DEFINE Top == {u \in candidates : partition(u) = g /\ rank_in_kind(u) <= n}
           W == {u \in candidates : partition(u) = g /\ ~(rank_in_kind(u) <= n)}
           T == {Before(u) : u \in W}
<1>1. x \in W
    BY BeforeGrows
<1>2. T \subseteq FiniteSubsetsOf(Versions) /\ T # {}
    BY <1>1, BeforeGrows DEF FiniteSubsetsOf
<1>3. IsWellFoundedOn(StrictSubsetOrdering(Versions), FiniteSubsetsOf(Versions))
    BY FS_StrictSubsetOrderingWellFounded
<1> HIDE DEF T
<1>4. PICK D \in T : \A E \in T : ~ (<<E, D>> \in StrictSubsetOrdering(Versions))
    BY <1>2, <1>3, WFMin
<1>5. PICK w \in W : D = Before(w)
    BY <1>4 DEF T
<1>6. Before(w) \subseteq Top
  <2> SUFFICES ASSUME NEW u \in Before(w), u \notin Top PROVE FALSE
    OBVIOUS
  <2>1. u \in candidates /\ partition(u) = g
    BY DEF Before
  <2>2. u \in W
    BY <2>1
  <2>3. /\ Before(u) \in SUBSET Versions /\ Before(w) \in SUBSET Versions
        /\ Before(u) \subseteq Before(w) \ {u}
    BY <2>1, BeforeGrows
  <2>4. <<Before(u), Before(w)>> \in StrictSubsetOrdering(Versions)
    BY <2>3 DEF StrictSubsetOrdering
  <2> QED
    BY <1>4, <1>5, <2>2, <2>4 DEF T
<1>7. IsFiniteSet(Top)
  <2>1. Top \subseteq versions
    BY DEF candidates
  <2> HIDE DEF Top
  <2> QED
    BY <2>1, FS_Subset DEF RankInvariant
<1>8. /\ Cardinality(Before(w)) \in Nat /\ rank_in_kind(w) = 1 + Cardinality(Before(w))
      /\ ~(rank_in_kind(w) <= n)
    BY BeforeGrows
<1> HIDE DEF Top
<1>9. Cardinality(Before(w)) <= Cardinality(Top) /\ Cardinality(Top) \in Nat
    BY <1>6, <1>7, FS_Subset, FS_CardinalityType
<1>10. Cardinality(Top) >= n
    BY <1>8, <1>9
<1> QED
    BY <1>7, <1>9, <1>10 DEF Top

LEMMA KeepAtLeastIsLeast ==
    ASSUME NEW p \in Policies, NEW k \in ArtifactKinds
    PROVE  KeepAtLeast \in Nat /\ KeepAtLeast <= KeepLastN[p][k]
<1> DEFINE S == {KeepLastN[q][j] : q \in Policies, j \in ArtifactKinds}
           T == {0..n : n \in S}
<1>1. S \subseteq Nat /\ S # {}
  <2>1. \A q \in Policies, j \in ArtifactKinds : KeepLastN[q][j] \in Nat
    BY LifecycleAssumption
  <2>2. KeepLastN[p][k] \in S
    OBVIOUS
  <2>3. \A n \in S : n \in Nat
    BY <2>1
  <2> HIDE DEF S
  <2> QED
    BY <2>2, <2>3
<1> HIDE DEF S
<1>2. T \subseteq FiniteSubsetsOf(Nat) /\ T # {}
  <2>1. \A n \in S : 0..n \in SUBSET Nat /\ IsFiniteSet(0..n)
    BY <1>1, FS_Interval
  <2> QED
    BY <1>1, <2>1 DEF FiniteSubsetsOf
<1>3. IsWellFoundedOn(StrictSubsetOrdering(Nat), FiniteSubsetsOf(Nat))
    BY FS_StrictSubsetOrderingWellFounded
<1> HIDE DEF T
<1>4. PICK D \in T : \A E \in T : ~ (<<E, D>> \in StrictSubsetOrdering(Nat))
    BY <1>2, <1>3, WFMin
<1>5. PICK n \in S : D = 0..n
    BY <1>4 DEF T
<1>6. \A m \in S : n <= m
  <2> SUFFICES ASSUME NEW m \in S, m < n PROVE FALSE
    BY <1>1
  <2>1. 0..m \in T
    BY DEF T
  <2>2. n \in 0..n /\ n \notin 0..m /\ 0..m \subseteq 0..n /\ 0..n \in SUBSET Nat /\ 0..m \in SUBSET Nat
    BY <1>1
  <2>3. <<0..m, 0..n>> \in StrictSubsetOrdering(Nat)
    BY <2>2 DEF StrictSubsetOrdering
  <2> QED
    BY <1>4, <1>5, <2>1, <2>3
<1>7. KeepAtLeast = CHOOSE i \in S : \A q \in Policies, j \in ArtifactKinds : i <= KeepLastN[q][j]
    BY DEF KeepAtLeast, S
<1>8. \A q \in Policies, j \in ArtifactKinds : n <= KeepLastN[q][j]
    BY <1>6 DEF S
<1>9. KeepAtLeast \in S /\ \A q \in Policies, j \in ArtifactKinds : KeepAtLeast <= KeepLastN[q][j]
    BY <1>7, <1>8
<1> QED
    BY <1>1, <1>9

-----------------------------------------------------------------------------
(* The refinement.                                                         *)

(* The instance has its own copy of the operator of module FiniteSets. *)
LEMMA SameCardinality ==
    ASSUME NEW S
    PROVE  Retention!Cardinality(S) = Cardinality(S)
BY DEF Retention!Cardinality, Cardinality

LEMMA RetiringRunRefines ==
    ASSUME RankInvariant, NEW r \in LifecycleRuns, NEW p \in Policies,
           NEW mode \in LifecycleModes, run_lifecycle_policy(r, p, mode)
    PROVE  Retention!Retire
<1> DEFINE R == IF mode = "apply" THEN retire_candidates(p) ELSE {}
<1>0. /\ candidates \subseteq versions /\ versions \subseteq Versions /\ LifecycleTypeOK
      /\ ProtectedLive
    BY DEF RankInvariant, LifecycleInvariant, LifecycleTypeOK, RepositoryTypeOK, candidates
<1>1. /\ retired' = retired \cup R
      /\ UNCHANGED <<versions, pins, tags, manifests, createdAt, now>>
    BY DEF run_lifecycle_policy, run_lifecycle
<1>2. /\ p \in policies /\ \A v \in candidates : artifact_kind(v) \in ArtifactKinds
    BY DEF run_lifecycle_policy, run_lifecycle_outcome
<1>3. R \subseteq candidates /\ \A v \in R : decision(p, v) = "policy-retire"
    BY DEF retire_candidates
<1>4. \A v \in candidates \ R : mode = "apply" => decision(p, v) # "policy-retire"
    BY DEF retire_candidates
<1>5. R # {} => mode = "apply"
    OBVIOUS
<1> HIDE DEF R
<1>6. candidates' = candidates \ R /\ protected_versions' = protected_versions
    BY <1>1, <1>3 DEF candidates, is_version_retired, protected_versions, tagged, manifest_referenced
<1>7. candidates \ candidates' = R
    BY <1>3, <1>6
<1>8. \A v \in R : /\ v \notin protected_versions
                   /\ rank_in_kind(v) > KeepLastN[p][artifact_kind(v)]
                   /\ \/ MaxAge[p][artifact_kind(v)] = NoAge
                      \/ now - createdAt[v] >= MaxAge[p][artifact_kind(v)]
  <2> SUFFICES ASSUME NEW v \in R PROVE <1>8!(v)
    OBVIOUS
  <2>1. /\ v \in candidates /\ artifact_kind(v) \in ArtifactKinds /\ v \in Versions
    BY <1>0, <1>2, <1>3
  <2>2. KeepLastN[p][artifact_kind(v)] \in Nat /\ rank_in_kind(v) \in Int
    BY <2>1, BeforeGrows, LifecycleAssumption
  <2>3. /\ v \notin pins /\ ~tagged(v) /\ ~manifest_referenced(v)
        /\ ~(rank_in_kind(v) <= KeepLastN[p][artifact_kind(v)])
        /\ ~(/\ MaxAge[p][artifact_kind(v)] # NoAge
             /\ now - createdAt[v] < MaxAge[p][artifact_kind(v)])
    BY <1>3 DEF decision
  <2>4. now - createdAt[v] \in Int
    BY <1>0, <2>1, LifecycleAssumption DEF LifecycleTypeOK
  <2>5. MaxAge[p][artifact_kind(v)] # NoAge => now - createdAt[v] >= MaxAge[p][artifact_kind(v)]
    BY <2>1, <2>3, <2>4, LifecycleAssumption
  <2> QED
    BY <2>2, <2>3, <2>5 DEF protected_versions
<1>9. ASSUME NEW g, NEW v \in R, partition(v) = g
      PROVE  Cardinality({u \in candidates' : partition(u) = g}) >= KeepAtLeast
  <2> DEFINE N == KeepLastN[p][artifact_kind(v)]
             Top == {u \in candidates : partition(u) = g /\ rank_in_kind(u) <= N}
             Group == {u \in candidates' : partition(u) = g}
  <2>1. v \in candidates /\ artifact_kind(v) \in ArtifactKinds
    BY <1>2, <1>3
  <2>2. N \in Nat /\ KeepAtLeast \in Nat /\ KeepAtLeast <= N
    BY <2>1, KeepAtLeastIsLeast, LifecycleAssumption
  <2>3. rank_in_kind(v) > N
    BY <1>8
  <2> HIDE DEF N
  <2>4. IsFiniteSet(Top) /\ Cardinality(Top) \in Nat /\ Cardinality(Top) >= N
    BY <1>9, <2>1, <2>2, <2>3, EnoughRankUpTo
  <2>5. Top \subseteq Group
    <3> SUFFICES ASSUME NEW u \in Top, u \in R PROVE FALSE
      BY <1>6
    <3>1. artifact_kind(u) = artifact_kind(v)
      BY <1>9 DEF partition
    <3>2. rank_in_kind(u) > N
      BY <1>8, <3>1 DEF N
    <3>3. rank_in_kind(u) \in Int /\ rank_in_kind(u) <= N
      BY BeforeGrows
    <3> QED
      BY <2>2, <3>2, <3>3
  <2>6. IsFiniteSet(Group)
    <3>1. Group \subseteq versions
      BY <1>0, <1>6
    <3> HIDE DEF Group
    <3> QED
      BY <3>1, FS_Subset DEF RankInvariant
  <2> HIDE DEF Top, Group
  <2>7. Cardinality(Top) <= Cardinality(Group) /\ Cardinality(Group) \in Nat
    BY <2>5, <2>6, FS_Subset, FS_CardinalityType
  <2>8. Cardinality(Group) >= KeepAtLeast
    BY <2>2, <2>4, <2>7
  <2> QED
    BY <2>8 DEF Group
<1>10. ASSUME NEW v \in R, NEW w \in candidates' \ protected_versions, partition(v) = partition(w)
       PROVE  createdAt[w] >= createdAt[v]
  <2>1. /\ v \in candidates /\ w \in candidates /\ v \in Versions /\ w \in Versions
        /\ artifact_kind(v) \in ArtifactKinds /\ artifact_kind(w) = artifact_kind(v)
    BY <1>0, <1>2, <1>3, <1>6, <1>10 DEF partition
  <2>2. createdAt[v] \in Int /\ createdAt[w] \in Int /\ now \in Int
    BY <1>0, <2>1, LifecycleAssumption DEF LifecycleTypeOK
  <2> SUFFICES ASSUME createdAt[w] < createdAt[v] PROVE FALSE
    BY <2>2
  <2>3. v \in Before(w)
    BY <1>10, <2>1, <2>2 DEF Before, RankedBefore
  <2>4. rank_in_kind(w) > KeepLastN[p][artifact_kind(w)]
    <3>1. /\ Before(v) \subseteq Before(w)
          /\ IsFiniteSet(Before(w)) /\ Cardinality(Before(w)) \in Nat /\ Cardinality(Before(v)) \in Nat
          /\ rank_in_kind(v) = 1 + Cardinality(Before(v)) /\ rank_in_kind(w) = 1 + Cardinality(Before(w))
      BY <2>1, <2>3, BeforeGrows
    <3>2. Cardinality(Before(v)) <= Cardinality(Before(w))
      BY <3>1, FS_Subset
    <3>3. KeepLastN[p][artifact_kind(v)] \in Nat /\ rank_in_kind(v) > KeepLastN[p][artifact_kind(v)]
      BY <1>8, <2>1, LifecycleAssumption
    <3> QED
      BY <2>1, <3>1, <3>2, <3>3
  <2>5. KeepLastN[p][artifact_kind(w)] \in Nat /\ rank_in_kind(w) \in Int
    BY <2>1, BeforeGrows, LifecycleAssumption
  <2>6. ~(/\ MaxAge[p][artifact_kind(w)] # NoAge
          /\ now - createdAt[w] < MaxAge[p][artifact_kind(w)])
    <3>1. \/ MaxAge[p][artifact_kind(v)] = NoAge
          \/ /\ MaxAge[p][artifact_kind(v)] \in Nat
             /\ now - createdAt[v] >= MaxAge[p][artifact_kind(v)]
      BY <1>8, <2>1, LifecycleAssumption
    <3> QED
      BY <2>1, <2>2, <3>1
  <2>7. w \notin pins /\ ~tagged(w) /\ ~manifest_referenced(w)
    BY <2>1 DEF protected_versions
  <2>8. ~(rank_in_kind(w) <= KeepLastN[p][artifact_kind(w)])
    BY <2>4, <2>5
  <2>9. decision(p, w) = "policy-retire"
    BY <2>6, <2>7, <2>8 DEF decision
  <2> QED
    BY <1>4, <1>5, <1>6, <2>1, <2>9
<1> QED
  <2>1. candidates' \subseteq candidates /\ retired' = retired \cup R
    BY <1>1, <1>6
  <2>2. R \cap protected_versions = {}
    BY <1>8
  <2>3. \A g : \/ {v \in R : partition(v) = g} = {}
               \/ Cardinality({u \in candidates' : partition(u) = g}) >= KeepAtLeast
    BY <1>9
  <2>4. \A v \in R, w \in candidates' \ protected_versions :
           partition(v) = partition(w) => createdAt[w] >= createdAt[v]
    BY <1>10
  <2> QED
    BY <1>1, <1>6, <1>7, <2>1, <2>2, <2>3, <2>4, SameCardinality
       DEF Retention!Retire, Retention!InGroup

LEMMA CommitRefines ==
    ASSUME LifecycleTypeOK, NEW s \in Sessions, NEW l \in Layouts, finalize_version(s, l)
    PROVE  Retention!Commit \/ UNCHANGED Retention!retentionVars
<1> DEFINE v == version_of(s, l)
<1>1. /\ versions' = versions \cup {v} /\ v \notin retired
      /\ UNCHANGED <<retired, pins, tags, manifests>>
    BY DEF finalize_version, finalize_upload, finalize_upload_outcome, is_version_retired
<1>2. createdAt' = IF v \in versions THEN createdAt ELSE [createdAt EXCEPT ![v] = now]
    BY DEF finalize_version
<1>3. UNCHANGED protected_versions
    BY <1>1 DEF protected_versions, tagged, manifest_referenced
<1>4. candidates' = candidates \cup {v}
    BY <1>1 DEF candidates, is_version_retired
<1> HIDE DEF v
<1>5. CASE v \in versions
  <2>1. v \in candidates
    BY <1>1, <1>5 DEF candidates, is_version_retired
  <2> QED
    BY <1>1, <1>2, <1>3, <1>4, <1>5, <2>1 DEF Retention!retentionVars
<1>6. CASE v \notin versions
  <2>1. v \in candidates' \ candidates
    BY <1>4, <1>6 DEF candidates
  <2>2. \A w \in candidates : createdAt'[w] = createdAt[w]
    BY <1>2, <1>6 DEF candidates, LifecycleTypeOK, RepositoryTypeOK
  <2> QED
    BY <1>1, <1>3, <1>4, <2>1, <2>2 DEF Retention!Commit
<1> QED
    BY <1>5, <1>6

LEMMA NextRefines ==
    ASSUME RankInvariant, [Next]_vars
    PROVE  Retention!Commit \/ Retention!Protect \/ Retention!Retire
              \/ UNCHANGED Retention!retentionVars
<1> DEFINE Goal == Retention!Commit \/ Retention!Protect \/ Retention!Retire
                      \/ UNCHANGED Retention!retentionVars
<1>0. LifecycleTypeOK /\ ProtectedLive'
    BY ProtectedLiveStep DEF RankInvariant, LifecycleInvariant
<1>1. ASSUME UNCHANGED <<versions, retired, createdAt>> PROVE Goal
  <2>1. UNCHANGED candidates
    BY <1>1 DEF candidates, is_version_retired
  <2> QED
    BY <1>0, <1>1, <2>1 DEF Retention!Protect, ProtectedLive
<1>2. ASSUME NEW s \in Sessions, Upload(s) PROVE Goal
  <2>1. \A l \in SessionLayouts[s] : l \in Layouts
    BY RepositoryAssumption
  <2>2. CASE \E l \in SessionLayouts[s] : finalize_version(s, l)
    BY <1>0, <2>1, <2>2, CommitRefines
  <2> HIDE DEF Goal
  <2> QED
    BY <1>1, <1>2, <2>2
       DEF Upload, create_upload_session, negotiate_chunks, register_storage_location,
           abort_upload_session, Goal
<1>3. ASSUME NEW g \in GcRuns, Collect(g) PROVE Goal
  <2> HIDE DEF Goal
  <2> QED
    BY <1>1, <1>3 DEF Collect, start_gc_run, complete_gc_run
<1>4. ASSUME NEW r \in LifecycleRuns, NEW p \in Policies, NEW mode \in LifecycleModes,
             run_lifecycle_policy(r, p, mode)
      PROVE Goal
    BY <1>4, RetiringRunRefines
<1> HIDE DEF Goal
<1>5. Goal
    BY <1>1, <1>2, <1>3, <1>4
       DEF Next, vars, pin_version, unpin_version, set_tag, register_manifest,
           register_lifecycle_policy, Tick
<1> QED
    BY <1>5 DEF Goal

LEMMA RankInvariantHolds == Spec => []RankInvariant
<1>1. Init => IsFiniteSet(versions)
    BY FS_EmptySet DEF Init, RepositoryInit
<1>2. RankInvariant /\ [Next]_vars => IsFiniteSet(versions)'
  <2> SUFFICES ASSUME RankInvariant, [Next]_vars PROVE IsFiniteSet(versions)'
    OBVIOUS
  <2>1. RepositoryStep
    BY LifecycleIsRepositoryStep DEF RankInvariant, LifecycleInvariant, LifecycleTypeOK
  <2>2. versions' = versions \/ \E v : versions' = versions \cup {v}
    BY <2>1
       DEF RepositoryStep, register_storage_node, negotiate_chunks, register_storage_location,
           create_upload_session, abort_upload_session, finalize_upload, start_gc_run,
           complete_gc_run, start_replication_run, complete_replication_run, run_lifecycle
  <2> QED
    BY <2>2, FS_AddElement DEF RankInvariant
<1> QED
    BY <1>1, <1>2, LifecycleInvariantHolds, PTL DEF Spec, RankInvariant

(* The lifecycle implements retention: pushes, pins, tags, manifests, GC   *)
(* and lifecycle runs of whatever policies (run_lifecycle) retire only as  *)
(* module Retention allows.                                                *)
THEOREM LifecycleImplementsRetention == Spec => RetentionPromise
<1>1. Init => Retention!RetentionInit
  <2> SUFFICES ASSUME Init PROVE Retention!RetentionInit
    OBVIOUS
  <2>1. candidates = {} /\ retired = {}
    BY DEF Init, RepositoryInit, candidates
  <2>2. protected_versions = {}
    BY RepositoryAssumption DEF Init, protected_versions, tagged, manifest_referenced
  <2> QED
    BY <2>1, <2>2 DEF Retention!RetentionInit
<1>2. RankInvariant /\ [Next]_vars
      => [Retention!Commit \/ Retention!Protect \/ Retention!Retire]_(Retention!retentionVars)
    BY NextRefines
<1> QED
    BY <1>1, <1>2, RankInvariantHolds, PTL DEF Spec, RetentionPromise, Retention!RetentionSpec

=============================================================================
