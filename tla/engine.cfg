\* Two frontends connect, are slow, and go, in any order with main's life.
CONSTANTS
    Conns = {c1, c2}
    Numbers <- MCNumbers
    None = None
    Buf = 1
SPECIFICATION FairSpec
INVARIANTS
    TypeOK
    TelemetryReachesAll
    FreshKept
    ThreadsGoneFirst
PROPERTIES
    EveryClientServed
    ShutdownCompletes
