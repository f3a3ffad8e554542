CONSTANTS
    once = once
    every = every
    Timers <- MCTimers
    Flag <- MCFlag
    Threads = {th}
    NoTimer = none
    Timeouts <- MCTimeouts
    ExecTimeouts <- MCExec
    TicksPerMs = 2
    IntMax = 3
    MaxTime = 5
    MaxAdds = 2
SPECIFICATION LiveSpec
INVARIANTS
    ListIntact
    NoOversleep
PROPERTIES
    ExecuteInTime
    CollectsWhatIsDue
    DueIsCollected
