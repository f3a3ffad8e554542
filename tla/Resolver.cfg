CONSTANTS
    Loops = {l1, l2}
    Fickle = {l1}
    MaxRequests = 2
    MaxFailures = 1
    None = none
SPECIFICATION LiveSpec
\* Everything may be answered and every loop destroyed.
CHECK_DEADLOCK FALSE
INVARIANT ResolverSafe
PROPERTIES
    AttemptsAreCurrent
    ResolverEnds
