\* Eight typed lines are a dialogue, two full buffers and one line more.
CONSTANTS
    Capacity = 2
    MaxTyped = 8
    MaxBcast = 3
SPECIFICATION FairSpec
INVARIANTS
    OneReader
    DescriptorOutlivesReceiver
    NothingMissed
PROPERTIES
    ProgramEnds
    ReceiverFollowsServer
    EndOfInputEnds
    TypedLinesGetThrough
