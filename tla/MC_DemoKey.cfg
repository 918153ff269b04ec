CONSTANTS
    Allowed = {"a", "b"}
    Foreign = {"foreign"}
    KeyMax = 2
SPECIFICATION Spec
INVARIANT ShownAsTyped
