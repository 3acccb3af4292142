----------------------------- MODULE Destination -----------------------------
(***************************************************************************)
(* What a pull promises the reader of its destination path: it names       *)
(* nothing or all the bytes of one version, it changes at once, and a file *)
(* that is there is replaced only by a pull that was told to overwrite.    *)
(* Other pulls to the same path are part of the picture.                   *)
(***************************************************************************)
CONSTANTS Versions, Nothing

VARIABLES published,    \* the version whose bytes the destination holds
          version,      \* the version the pull restores
          overwriting   \* whether the pull was told to overwrite

vars == <<published, version, overwriting>>

Init == published = Nothing /\ version \in Versions /\ overwriting \in BOOLEAN

Start == /\ version' \in Versions /\ overwriting' \in BOOLEAN
         /\ UNCHANGED published

Publish == /\ published = Nothing \/ overwriting
           /\ published' = version
           /\ UNCHANGED <<version, overwriting>>

PublishOther == /\ \E v \in Versions \ {version} : published' = v
                /\ UNCHANGED <<version, overwriting>>

Next == Start \/ Publish \/ PublishOther

Spec == Init /\ [][Next]_vars
=============================================================================
