\* The plain read index may move before the bytes are copied.
SPECIFICATION Spec
CONSTANTS
    Capacity = 4
    IndexModulus = 8
    DropModulus = 2
    Bytes = {0, 1}
    Chunks <- SmallChunks
    ReadSizes = {1, 5}
    ReaderOrders = {"copy_first", "index_first"}
INVARIANT ReadIntact
