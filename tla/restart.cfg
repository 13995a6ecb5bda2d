\* The transmission engine dies once while the processing engine reads.
CONSTANTS
    Cap = 7
    Hdr = 2
    Sizes <- MCSizes
    MaxPayload = 8
    Writer = "cpp"
    Reader = "py"
    MaxOffers = 4
    MaxCrashes = 0
    MaxRestarts = 1
SPECIFICATION RestartSpec
INVARIANTS
    RestartTypeOK
    NoRaceInOneLife
    CleanCallsSound
PROPERTIES
    StaysAligned
    FlushRealigns
