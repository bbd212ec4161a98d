\* Two threads, three stacks of two types, two frames.
SPECIFICATION Spec
CONSTANTS
    a = a
    b = b
    c = c
    Threads = {t1, t2}
    Stacks = {a, b, c}
    NoStack = NoStack
    NoType = NoType
    Types = {"serial", "arm"}
    TypeOf <- StackTypes
    PacketTypes <- Cmds
    Frames <- ArrivingCmds
    FrameBytes <- Sizes
    RingCapacity = 152
    ReadMax = 130
    ParserSize <- Buffers
    SureRoom <- Rooms
    MaxFrames = 2
SYMMETRY Symmetry
INVARIANTS TypeOK OwnPacketsOnly BindingHolds InOrder DrainsAll RoutedByRole
