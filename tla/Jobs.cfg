CONSTANTS
    MaxRequests = 4
    PoolSize = 2
SPECIFICATION LiveSpec
\* A behaviour ends when a dangling reference is used, and when all is answered.
CHECK_DEADLOCK FALSE
INVARIANTS
    OwnOutcome
    JobsSafe
PROPERTIES
    AnswerComes
