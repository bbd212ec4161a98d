\* Program order: the bytes are copied before the read index moves.
SPECIFICATION Spec
CONSTANTS
    Capacity = 4
    IndexModulus = 8
    DropModulus = 2
    Bytes = {0, 1}
    Chunks <- SmallChunks
    ReadSizes = {1, 5}
    ReaderOrders = {"copy_first"}
INVARIANTS TypeOK ReadIntact
PROPERTY ImplementsChannel
