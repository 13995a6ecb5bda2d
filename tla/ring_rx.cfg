\* The RX ring: Receiver::workerLoop writes, main.py reads and may crash.
CONSTANTS
    Cap = 7
    Hdr = 2
    Sizes <- MCSizes
    MaxPayload = 8
    Writer = "cpp"
    Reader = "py"
    MaxOffers = 5
    MaxCrashes = 2
SPECIFICATION Spec
INVARIANTS
    RingInv
    NoDataRace
    DeliveredIntact
PROPERTIES
    ImplementsFrameQueue
