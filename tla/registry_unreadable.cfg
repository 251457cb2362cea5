\* One thread; the file cannot always be opened.
CONSTANTS
    Thread = {t1}
    User = {u1, u2}
    Password = {p1}
    Faults = {"read"}
    MaxLines = 3
SPECIFICATION Spec
INVARIANTS
    RecordsPersist
