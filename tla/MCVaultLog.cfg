SPECIFICATION Spec
CONSTANTS
    p1 = p1
    p2 = p2
    r1 = r1
    r2 = r2
    r3 = r3
    w1 = w1
    w2 = w2
    Procs = {p1, p2}
    Roots = {r1, r2, r3}
    Foreign = r3
    Passphrases = {w1, w2}
    Machine = Machine
    MaxEvents = 3
    NoHeader = NoHeader
    None = None
SYMMETRY Symmetry
INVARIANTS
    TypeOK
    NoFalseAlarm
    OneRootKey
    LoggedChangesHappened
PROPERTY RootKeyIsForever
CHECK_DEADLOCK FALSE
