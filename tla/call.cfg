\* A user who taps at any time.
CONSTANTS
    Pairs = {"hi-en", "en-hi"}
    Pair0 = "hi-en"
    MaxCalls = 2
    MaxSaves = 2
SPECIFICATION FairSpec
INVARIANTS
    TypeOK
    ConnectingIsPending
    LiveIsCaptured
    ConnectedIsOpen
    LanguagesTold
    CaptureFollowsCall
PROPERTIES
    StatusSettles
\* A frontend nobody touches does nothing.
CHECK_DEADLOCK FALSE
