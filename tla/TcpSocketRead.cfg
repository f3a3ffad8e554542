CONSTANTS
    BufferSize = 1
    FdErrors = FALSE
    MaxConnects = 2
    MaxWrites = 1
    MaxSends = 1
SPECIFICATION Spec
INVARIANTS ReadAssertHolds
CHECK_DEADLOCK FALSE
