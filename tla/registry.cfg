\* Two threads, two names, two passwords; writes may fail, seen or unseen.
CONSTANTS
    Thread = {t1, t2}
    User = {u1, u2}
    Password = {p1, p2}
    Faults = {"write", "flush"}
    MaxLines = 1
SPECIFICATION FairSpec
INVARIANTS
    NamesUnique
    AcknowledgedUsersKept
PROPERTIES
    AccountsPermanent
    MutexReleased
    ImplementsUserStore
