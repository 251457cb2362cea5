\* Two handlers and the main thread, the default level.
CONSTANTS
    Handler = {h1, h2}
    MainThread = main
    Nobody = nobody
    MinLevel = 2
    MaxCalls = 4
SPECIFICATION FairSpec
INVARIANTS
    NoWaitCycle
    LinesInOrder
PROPERTIES
    CallsReturn
