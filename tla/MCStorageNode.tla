---------------------------- MODULE MCStorageNode ----------------------------
(* Two chunks on two pages; the collector and one more client, who keep    *)
(* both threads of the node busy.                                          *)
EXTENDS StorageNode

CONSTANTS k1, p1

=============================================================================
