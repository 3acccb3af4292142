SPECIFICATION FairSpec
CONSTANTS
    c1 = c1  c2 = c2  c3 = c3  n1 = n1  n2 = n2
    Workers = {w1, w2, w3}
    Producer = producer
    Chunks = {c1, c2, c3}
    Nodes = {n1, n2}
    Desired <- MCDesired
    Reads <- MCReads
    Rest <- MCRest
    Capacity = 1
    BatchSize = 2
CHECK_DEADLOCK FALSE
INVARIANTS PipelineTypeOK RootCauseReported UploadsDisjoint
PROPERTIES TransferPromise PushEnds
