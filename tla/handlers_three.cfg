\* Three sessions of one user, so the name goes from one to the next.
CONSTANTS
    Session = {s1, s2, s3}
    User = {u1}
    Room = {lobby}
    Lobby = lobby
    NoRoom = no_room
    NoSession = no_session
    Unauthenticated = unauthenticated
    MaxAuthAttempts = 1
SPECIFICATION Spec
SYMMETRY Symmetry
INVARIANTS
    RegisteredSessionsLive
PROPERTIES
    NameLeavesWithSession
