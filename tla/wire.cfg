\* Three connections over two descriptor numbers, two frames of two parts.
CONSTANTS
    Session = {1, 2, 3}
    Number = {0, 1}
    Parts = 2
    MaxSends = 2
SPECIFICATION FairSpec
INVARIANTS
    DescriptorOwned
    ReadsOwnConnection
    FramesKeepOrder
    OnlyClosedGoAstray
PROPERTIES
    LeavingCompletes
    ImplementsSessions
