\* Does an idle screen record?
CONSTANTS
    Pairs = {"hi-en", "en-hi"}
    Pair0 = "hi-en"
    MaxCalls = 3
    MaxSaves = 0
SPECIFICATION Spec
INVARIANTS
    StandbyIsQuiet
\* A frontend nobody touches does nothing.
CHECK_DEADLOCK FALSE
