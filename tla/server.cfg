\* Two connections of one user, one SIGINT.
CONSTANTS
    Session = {s1, s2}
    User = {u1}
    Room = {lobby}
    Lobby = lobby
    NoRoom = no_room
    NoSession = no_session
    Unauthenticated = unauthenticated
    MaxAuthAttempts = 1
    MaxSignals = 1
SPECIFICATION LeavingServerSpec
INVARIANTS
    ChattersListed
    StoppedServerIsQuiet
    StoppedServerIsClean
PROPERTIES
    ShutdownCompletes
    ClosedSessionsReaped
