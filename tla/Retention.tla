------------------------------ MODULE Retention ------------------------------
(***************************************************************************)
(* What retention promises to the owners of versions, without policies,    *)
(* runs, sessions or collections: a version that is committed is held      *)
(* until it is retired, once and for ever; what is protected is never      *)
(* retired; of every group (an artifact and a kind) at least KeepAtLeast   *)
(* versions stay while there are so many; and retirement goes by age, so   *)
(* that nobody loses a version while an older one stays unprotected.       *)
(***************************************************************************)
EXTENDS Integers, FiniteSets

CONSTANTS Groups, GroupOf(_), KeepAtLeast

VARIABLES held,       \* committed versions that are not retired
          gone,       \* retired versions
          protected,  \* versions somebody relies on by name
          born        \* when a version was committed

retentionVars == <<held, gone, protected, born>>

InGroup(S, g) == {v \in S : GroupOf(v) = g}

RetentionInit == held = {} /\ gone = {} /\ protected = {}

Commit ==
    /\ \E v \in held' \ held : held' = held \cup {v} /\ v \notin gone
    /\ \A v \in held : born'[v] = born[v]
    /\ UNCHANGED <<gone, protected>>

Protect ==
    /\ protected' \subseteq held
    /\ UNCHANGED <<held, gone, born>>

Retire ==
    LET R == held \ held' IN
    /\ held' \subseteq held
    /\ R \cap protected = {}
    /\ gone' = gone \cup R
    /\ \A g \in Groups :
          \/ InGroup(R, g) = {}
          \/ Cardinality(InGroup(held', g)) >= KeepAtLeast
    /\ \A v \in R, w \in held' \ protected :
          GroupOf(v) = GroupOf(w) => born[w] >= born[v]
    /\ UNCHANGED <<protected, born>>

RetentionSpec == RetentionInit /\ [][Commit \/ Protect \/ Retire]_retentionVars

=============================================================================
