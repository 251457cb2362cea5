\* Two sessions, two rooms, two attempts.
CONSTANTS
    Session = {s1, s2}
    User = {u1, u2}
    Room = {lobby, side}
    Lobby = lobby
    NoRoom = no_room
    NoSession = no_session
    Unauthenticated = unauthenticated
    MaxAuthAttempts = 2
SPECIFICATION Spec
SYMMETRY Symmetry
INVARIANTS
    MembershipAgrees
    NoEcho
    HandlerInv
PROPERTIES
    ImplementsChatService
    EachAuthenticates
    ClosedAdvances
