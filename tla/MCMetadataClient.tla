--------------------------- MODULE MCMetadataClient ---------------------------
(* The calls of one push, one GC run and one repair of one version of one  *)
(* chunk, with the statistics two clients may report.                      *)
EXTENDS MetadataClient, TLC

CONSTANTS s1, g1, r1, st1, st2, c1, c2, nobody

MCScore == [c \in Chunks |-> [n \in Nodes |-> n]]
MCSymmetry == Permutations(Stats)

MCSessionLineage == [s \in Sessions |-> "lineage"]
MCSessionLayouts == [s \in Sessions |-> Layouts]
MCLayoutObject == [l \in Layouts |-> "object"]
MCLayoutChunks == [l \in Layouts |-> Chunks]

MCVersion == <<"lineage", "object">>

MCCalls ==
    [op : {"create_upload_session"}, session : Sessions, placement : {{n} : n \in Nodes} \cup {{}}]
    \cup [op : {"get_upload_session", "abort_upload_session"}, session : Sessions]
    \cup [op : {"finalize_upload"}, session : Sessions, layout : Layouts]
    \cup [op : {"negotiate_chunks"}, session : Sessions, chunks : {Chunks}]
    \cup [op : {"register_storage_location"}, chunk : Chunks, node : Nodes]
    \cup [op : {"start_gc_run"}, run : GcRuns, node : Nodes, mode : GcModes]
    \cup [op : {"get_gc_run"}, run : GcRuns]
    \cup [op : {"classify_gc_chunks"}, run : GcRuns, chunks : {Chunks}]
    \cup [op : {"complete_gc_run"}, run : GcRuns, stats : Stats]
    \cup [op : {"get_restore_plan"}, version : {MCVersion}, node : Nodes]
    \cup [op : {"get_multi_node_restore_plan"}, version : {MCVersion}]
    \cup [op : {"list_storage_nodes"}]
    \cup [op : {"get_storage_node"}, node : Nodes]
    \cup [op : {"register_storage_node"}, node : Nodes, state : {"active", "disabled"}]
    \cup [op : {"start_replication_run"}, run : ReplicationRuns, version : {MCVersion}]
    \cup [op : {"get_replication_run", "get_replication_plan"}, run : ReplicationRuns]
    \cup [op : {"complete_replication_run"}, run : ReplicationRuns, stats : Stats]

=============================================================================
