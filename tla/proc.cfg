\* Two engines, two frontends and two segments.
CONSTANTS
    Engines = {e1, e2}
    Conns = {c1, c2}
    None = None
    Buf = 1
    MaxSegments = 2
SPECIFICATION FairSpec
INVARIANTS
    TypeOK
    ServedIsListed
    SplitOnlyByUnlink
PROPERTIES
    MainProgresses
