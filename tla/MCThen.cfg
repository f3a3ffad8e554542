CONSTANT Stages <- MCMixed
SPECIFICATION LiveSpec
\* A settled pipeline has nothing left to do.
CHECK_DEADLOCK FALSE
INVARIANTS
    Orderly
PROPERTIES
    Delivered
    EarlyFailureIsHeard
