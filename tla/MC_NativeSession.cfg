\* Two threads, two objects whose sessions may live at once or share an address in turn.
CONSTANTS
    t1 = t1
    t2 = t2
    o1 = o1
    o2 = o2
    Threads = {t1, t2}
    Objects = {o1, o2}
    Addresses = {1, 2}
    OperationsMax = 3
    NULL = NULL
SPECIFICATION Spec
INVARIANTS
    UsesOwnSession
    OneThreadInSession
    SessionsAreOwned
PROPERTIES
    ImplementsSerial
    LockIsReleased
