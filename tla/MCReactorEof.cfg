SPECIFICATION Spec
CONSTANTS
    Slab = {1}
    Sock = {"a", "b"}
    Fd = {1, 2}
    Task = {"t1", "t2", "t3"}
    Token = {"k"}
    MaxNow = 2
    Plan <- Fin
CHECK_DEADLOCK FALSE
INVARIANT EndOfStreamIsSeen
