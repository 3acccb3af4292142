------------------------------ MODULE Lifecycle ------------------------------
(***************************************************************************)
(* Lifecycle policies on top of the control plane: pins, tags, manifests,  *)
(* policies and lifecycle runs (PostgresMetadataRepository, migrations 004 *)
(* and 010), together with the transactions that create versions and the   *)
(* metadata half of garbage collection.  The node files are left out.      *)
(***************************************************************************)
EXTENDS MetadataRepository

CONSTANTS ArtifactKinds,    \* the kinds a policy has a rule for
          LineageArtifact,  \* the artifact of a lineage
          LineageKind,      \* its metadata value for "aistore.artifact_kind"
          VersionOrder,     \* VersionOrder[v]: the order of the version ids
          TagKeys,          \* (artifact, tag name) pairs
          ManifestVersions, \* ManifestVersions[m]: the entries of manifest m
          Policies,         \* lifecycle policy ids
          KeepLastN,        \* KeepLastN[p][kind]: keep_last_n
          MaxAge,           \* MaxAge[p][kind]: max_age_seconds
          NoAge,            \* SQL NULL in max_age_seconds
          LifecycleRuns,    \* lifecycle run ids
          NoRun,            \* no row in lifecycle_runs
          MaxTime           \* bound of the clock

Manifests == DOMAIN ManifestVersions
LifecycleModes == {"apply", "dry-run"}
Reasons == {"pinned", "tagged", "manifest-referenced", "keep-last-n", "age-not-reached",
            "policy-retire"}

(* A row of lifecycle_runs; its decisions are for the versions evaluated.  *)
LifecycleRunRows ==
    [policy : Policies, mode : LifecycleModes, reason : UNION {[S -> Reasons] : S \in SUBSET Versions}]

ASSUME LifecycleAssumption ==
    /\ VersionOrder \in [Versions -> Nat]
    /\ \A u, v \in Versions : VersionOrder[u] = VersionOrder[v] => u = v
    /\ KeepLastN \in [Policies -> [ArtifactKinds -> Nat]]
    /\ \A p \in Policies, k \in ArtifactKinds : MaxAge[p][k] # NoAge => MaxAge[p][k] \in Nat
    /\ MaxTime \in Nat
    /\ NoRun \notin LifecycleRunRows

VARIABLES now,        \* the database clock
          createdAt,  \* artifact_versions.created_at
          pins,       \* artifact_version_pins
          tags,       \* tags: the version a tag key names, or NoVersion
          manifests,  \* manifests, with their manifest_entries
          policies,   \* lifecycle_policies
          lifeRuns    \* lifecycle_runs, with their lifecycle_run_decisions

protectionVars == <<pins, tags, manifests>>
lifeVars == <<now, createdAt, protectionVars, policies, lifeRuns>>
vars == <<dbVars, lifeVars>>

Init ==
    /\ RepositoryInit({})
    /\ now = 0
    /\ createdAt = [v \in Versions |-> 0]
    /\ pins = {} /\ manifests = {} /\ policies = {}
    /\ tags = [t \in TagKeys |-> NoVersion]
    /\ lifeRuns = [r \in LifecycleRuns |-> NoRun]

-----------------------------------------------------------------------------
(* Protection of versions.                                                 *)

(* Mutant: a retired version is pinned. *)
pin_version_unchecked(v) ==
    /\ v \in versions
    /\ pins' = pins \cup {v}
    /\ UNCHANGED <<dbVars, now, createdAt, tags, manifests, policies, lifeRuns>>

(* pin_version is an upsert: pinning again changes the reason only. *)
pin_version(v) ==
    /\ v \in versions /\ ~is_version_retired(v)
    /\ pins' = pins \cup {v}
    /\ UNCHANGED <<dbVars, now, createdAt, tags, manifests, policies, lifeRuns>>

unpin_version(v) ==
    /\ pins' = pins \ {v}
    /\ UNCHANGED <<dbVars, now, createdAt, tags, manifests, policies, lifeRuns>>

(* An upsert, too: the tag moves from the version it named before.  The    *)
(* foreign key wants a version of the tag's artifact.                      *)
set_tag(t, v) ==
    /\ ~is_version_retired(v)
    /\ v \in versions /\ LineageArtifact[v[1]] = t[1]
    /\ tags' = [tags EXCEPT ![t] = v]
    /\ UNCHANGED <<dbVars, now, createdAt, pins, manifests, policies, lifeRuns>>

register_manifest(m) ==
    /\ \A v \in ManifestVersions[m] : v \in versions /\ ~is_version_retired(v)
    /\ manifests' = manifests \cup {m}
    /\ UNCHANGED <<dbVars, now, createdAt, pins, tags, policies, lifeRuns>>

tagged(v) == \E t \in TagKeys : tags[t] = v
manifest_referenced(v) == \E m \in manifests : v \in ManifestVersions[m]
protected_versions == {v \in Versions : v \in pins \/ tagged(v) \/ manifest_referenced(v)}

-----------------------------------------------------------------------------
(* Evaluation of a policy.                                                 *)

candidates == {v \in versions : ~is_version_retired(v)}

artifact_kind(v) == LineageKind[v[1]]
partition(v) == <<LineageArtifact[v[1]], artifact_kind(v)>>

(* The sort order within a partition: newest first, ties by version id. *)
RankedBefore(u, v) ==
    \/ createdAt[u] > createdAt[v]
    \/ createdAt[u] = createdAt[v] /\ VersionOrder[u] < VersionOrder[v]

(* Mutant: the rank is not started again with every partition. *)
rank_in_kind_across(v) == 1 + Cardinality({u \in candidates : RankedBefore(u, v)})

rank_in_kind(v) ==
    1 + Cardinality({u \in candidates : partition(u) = partition(v) /\ RankedBefore(u, v)})

(* Mutant: tags and manifests do not protect. *)
decision_pins_only(p, v) ==
    IF v \in pins THEN "pinned"
    ELSE IF rank_in_kind(v) <= KeepLastN[p][artifact_kind(v)] THEN "keep-last-n"
    ELSE IF /\ MaxAge[p][artifact_kind(v)] # NoAge
            /\ now - createdAt[v] < MaxAge[p][artifact_kind(v)]
         THEN "age-not-reached"
    ELSE "policy-retire"

(* Of all the reasons to retain v, the first one is recorded. *)
decision(p, v) ==
    IF v \in pins THEN "pinned"
    ELSE IF tagged(v) THEN "tagged"
    ELSE IF manifest_referenced(v) THEN "manifest-referenced"
    ELSE IF rank_in_kind(v) <= KeepLastN[p][artifact_kind(v)] THEN "keep-last-n"
    ELSE IF /\ MaxAge[p][artifact_kind(v)] # NoAge
            /\ now - createdAt[v] < MaxAge[p][artifact_kind(v)]
         THEN "age-not-reached"
    ELSE "policy-retire"

retire_candidates(p) == {v \in candidates : decision(p, v) = "policy-retire"}

(* A policy is immutable: registering it again compares and changes        *)
(* nothing.                                                                *)
register_lifecycle_policy(p) ==
    /\ policies' = policies \cup {p}
    /\ UNCHANGED <<dbVars, now, createdAt, protectionVars, lifeRuns>>

(* Mutant: the policy of the request is not looked up. *)
run_lifecycle_outcome_any_policy(r, p, mode) ==
    IF lifeRuns[r] # NoRun
    THEN IF lifeRuns[r].policy = p /\ lifeRuns[r].mode = mode THEN "existing" ELSE "run_conflict"
    ELSE IF open_upload_sessions_present THEN "blocked_by_open_upload_sessions"
    ELSE IF gc_in_progress THEN "blocked_by_gc"
    ELSE "done"

(* One version with a kind no rule is for makes every run fail.            *)
run_lifecycle_outcome(r, p, mode) ==
    IF lifeRuns[r] # NoRun
    THEN IF lifeRuns[r].policy = p /\ lifeRuns[r].mode = mode THEN "existing" ELSE "run_conflict"
    ELSE IF open_upload_sessions_present THEN "blocked_by_open_upload_sessions"
    ELSE IF gc_in_progress THEN "blocked_by_gc"
    ELSE IF replication_in_progress THEN "blocked_by_replication"
    ELSE IF p \notin policies THEN "policy_not_found"
    ELSE IF \E v \in candidates : artifact_kind(v) \notin ArtifactKinds THEN "invalid_artifact_kind"
    ELSE "done"

(* Mutant: a dry run retires, too. *)
run_lifecycle_policy_any_mode(r, p, mode) ==
    /\ run_lifecycle_outcome(r, p, mode) = "done"
    /\ run_lifecycle(retire_candidates(p))
    /\ lifeRuns' = [lifeRuns EXCEPT ![r] =
          [policy |-> p, mode |-> mode, reason |-> [v \in candidates |-> decision(p, v)]]]
    /\ UNCHANGED <<now, createdAt, protectionVars, policies>>

run_lifecycle_policy(r, p, mode) ==
    /\ run_lifecycle_outcome(r, p, mode) = "done"
    /\ run_lifecycle(IF mode = "apply" THEN retire_candidates(p) ELSE {})
    /\ lifeRuns' = [lifeRuns EXCEPT ![r] =
          [policy |-> p, mode |-> mode, reason |-> [v \in candidates |-> decision(p, v)]]]
    /\ UNCHANGED <<now, createdAt, protectionVars, policies>>

-----------------------------------------------------------------------------
(* The transactions of a push and of a GC run, and the clock.              *)

finalize_version(s, l) ==
    /\ finalize_upload(s, l)
    /\ createdAt' = IF version_of(s, l) \in versions THEN createdAt
                    ELSE [createdAt EXCEPT ![version_of(s, l)] = now]
    /\ UNCHANGED <<now, protectionVars, policies, lifeRuns>>

Upload(s) ==
    \/ /\ \/ create_upload_session(s, active_nodes)
          \/ \E l \in SessionLayouts[s] : negotiate_chunks(s, LayoutChunks[l])
          \/ \E l \in SessionLayouts[s], c \in Chunks, n \in Nodes :
                /\ sessState[s] = "open" /\ c \in LayoutChunks[l]
                /\ register_storage_location(c, n)
          \/ abort_upload_session(s)
       /\ UNCHANGED lifeVars
    \/ \E l \in SessionLayouts[s] : finalize_version(s, l)

Collect(g) ==
    /\ \/ \E n \in Nodes : start_gc_run(g, n, "apply")
       \/ complete_gc_run(g)
    /\ UNCHANGED lifeVars

Tick ==
    /\ now < MaxTime
    /\ now' = now + 1
    /\ UNCHANGED <<dbVars, createdAt, protectionVars, policies, lifeRuns>>

Next ==
    \/ \E s \in Sessions : Upload(s)
    \/ \E g \in GcRuns : Collect(g)
    \/ \E v \in versions : pin_version(v) \/ unpin_version(v)
    \/ \E t \in TagKeys, v \in versions : set_tag(t, v)
    \/ \E m \in Manifests : register_manifest(m)
    \/ \E p \in Policies : register_lifecycle_policy(p)
    \/ \E r \in LifecycleRuns, p \in Policies, mode \in LifecycleModes : run_lifecycle_policy(r, p, mode)
    \/ Tick

Spec == Init /\ [][Next]_vars

-----------------------------------------------------------------------------
(* Properties.                                                             *)

(* Types, and the foreign key of lifecycle_runs to lifecycle_policies. *)
LifecycleTypeOK ==
    /\ RepositoryTypeOK
    /\ now \in 0..MaxTime
    /\ createdAt \in [Versions -> 0..MaxTime]
    /\ pins \subseteq versions /\ manifests \subseteq Manifests
    /\ tags \in [TagKeys -> versions \cup {NoVersion}]
    /\ policies \subseteq Policies
    /\ lifeRuns \in [LifecycleRuns -> LifecycleRunRows \cup {NoRun}]
    /\ \A r \in LifecycleRuns : lifeRuns[r] # NoRun =>
          lifeRuns[r].policy \in policies /\ DOMAIN lifeRuns[r].reason \subseteq versions

RetiredBy(r) ==
    IF lifeRuns[r] = NoRun \/ lifeRuns[r].mode # "apply" THEN {}
    ELSE {v \in DOMAIN lifeRuns[r].reason : lifeRuns[r].reason[v] = "policy-retire"}

(* The decisions that were recorded explain the retirements: a version is  *)
(* retired if and only if an apply run decided so, and by one run only     *)
(* (the primary key of artifact_version_retirements).                      *)
RetirementsExplained ==
    /\ retired = UNION {RetiredBy(r) : r \in LifecycleRuns}
    /\ \A q, r \in LifecycleRuns : q # r => RetiredBy(q) \cap RetiredBy(r) = {}

(* What is pinned, tagged or named by a manifest can be restored: it is    *)
(* not retired, and of some layout of its object every chunk has a         *)
(* location, whatever lifecycle and GC apply runs went by.  "Retirement is *)
(* terminal: retired versions cannot be pinned, tagged, referenced by new  *)
(* manifests" (docs/cli.md).                                               *)
ProtectedRestorable ==
    \A v \in protected_versions :
        /\ v \in candidates
        /\ \E l \in layouts : /\ LayoutObject[l] = v[2]
                              /\ \A c \in LayoutChunks[l] : available_node_ids(c) # {}

(* The least number of versions that any policy keeps of a partition. *)
KeepAtLeast ==
    CHOOSE n \in {KeepLastN[p][k] : p \in Policies, k \in ArtifactKinds} :
        \A p \in Policies, k \in ArtifactKinds : n <= KeepLastN[p][k]

Retention == INSTANCE Retention WITH
    Groups <- {<<LineageArtifact[x], LineageKind[x]>> : x \in Lineages},
    GroupOf <- partition, held <- candidates, gone <- retired,
    protected <- protected_versions, born <- createdAt

(* Lifecycle runs, whatever the policies and however they interleave with  *)
(* pins, tags, manifests, pushes and collections, retire only as module    *)
(* Retention allows.                                                       *)
RetentionPromise == Retention!RetentionSpec

=============================================================================
