\* The TX ring: write_frame writes, Sender::workerLoop reads.
CONSTANTS
    Cap = 7
    Hdr = 2
    Sizes <- MCSizes
    MaxPayload = 8
    Writer = "py"
    Reader = "cpp"
    MaxOffers = 5
    MaxCrashes = 0
SPECIFICATION FairSpec
PROPERTIES
    ImplementsFairQueue
