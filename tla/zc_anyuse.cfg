SPECIFICATION Spec
CONSTANTS
    Contexts = {c1, c2}
    Sockets = {s1, s2}
    NoContext = NoContext
    MaxDepth = 2
    Uses <- Shared
SYMMETRY Unordered
INVARIANTS ContextOutlivesSocket
CHECK_DEADLOCK FALSE
