CONSTANTS
    Flights = 1
    MaxConnects = 2
    MaxWrites = 2
    MaxData = 2
    MaxOdd = 1
SPECIFICATION TlsLiveSpec
\* A behaviour ends when an assertion fails, and when the bounds are reached.
CHECK_DEADLOCK FALSE
INVARIANTS
    TlsSafe
    WritesKept
    

    
