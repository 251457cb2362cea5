\* Two sessions.
CONSTANTS
    Session = {s1, s2}
    User = {u1, u2}
    Room = {lobby}
    Lobby = lobby
    NoRoom = no_room
    NoSession = no_session
    Unauthenticated = unauthenticated
    MaxAuthAttempts = 1
SPECIFICATION Spec
INVARIANTS
    NoUseAfterDelete
