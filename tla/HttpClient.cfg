CONSTANTS
    Clients = {c1, c2}
    Post = {c1}
    Answered = {c1}
    Dropped = {c1}
    Sizes = {0, 2}
    MaxWrites = 2
    Nobody = nobody
SPECIFICATION LiveSpec
\* A behaviour ends when an assertion fails, and when everything is over.
CHECK_DEADLOCK FALSE
INVARIANTS
    UploadSafe
    ToldInOrder
    TransfersDriven
PROPERTIES
    UploadEnds
    OutcomeTold
