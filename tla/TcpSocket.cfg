CONSTANTS
    BufferSize = 2
    FdErrors = TRUE
    MaxConnects = 2
    MaxWrites = 2
    MaxSends = 1
SPECIFICATION LiveSpec
\* A behaviour ends when an assertion fails, and when the bounds are reached.
CHECK_DEADLOCK FALSE
INVARIANTS
    AttemptsSettled
    StreamIntact

    
