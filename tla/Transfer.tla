------------------------------ MODULE Transfer ------------------------------
(***************************************************************************)
(* What the data plane of a push promises: it writes replicas, in any order*)
(* and never after it has returned, and when it returns a layout every     *)
(* replica of every chunk of the file has been written.                    *)
(***************************************************************************)
CONSTANT Replicas    \* the replicas of the file's chunks

VARIABLES stored,    \* the replicas that were verified or written
          outcome    \* "running", "prepared" or "failed"

Init == stored = {} /\ outcome = "running"

Store == /\ outcome = "running"
         /\ \E r \in Replicas \ stored : stored' = stored \cup {r}
         /\ UNCHANGED outcome

Prepare == /\ outcome = "running"
           /\ stored = Replicas
           /\ outcome' = "prepared"
           /\ UNCHANGED stored

Fail == /\ outcome = "running"
        /\ outcome' = "failed"
        /\ UNCHANGED stored

Next == Store \/ Prepare \/ Fail

Spec == Init /\ [][Next]_<<stored, outcome>>
=============================================================================
