CONSTANTS
    Fds = {f1, f2, f3}
    WakeFd = wakefd
    Errors = TRUE
    MaxCalls = 4
SPECIFICATION Spec
\* Undefined behaviour ends a behaviour in the phase "crashed".
CHECK_DEADLOCK FALSE
INVARIANTS
    Intact
    ListsFlushed
