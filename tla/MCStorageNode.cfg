SPECIFICATION Spec
CONSTANTS
    k1 = k1  p1 = p1
    Chunks = {1, 2}
    Clients = {k1, p1}
    Collector = k1
    PageLimit = 1
CHECK_DEADLOCK FALSE
INVARIANTS StoreTypeOK AckedStored NoTornChunk AnswersUnderstood InventoryComplete
