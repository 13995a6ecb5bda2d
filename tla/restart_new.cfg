\* Does Create give the reader new shared memory?
CONSTANTS
    Cap = 7
    Hdr = 2
    Sizes <- MCSizes
    MaxPayload = 8
    Writer = "cpp"
    Reader = "py"
    MaxOffers = 4
    MaxCrashes = 0
    MaxRestarts = 1
SPECIFICATION RestartSpec
INVARIANTS
    CreatedNew
