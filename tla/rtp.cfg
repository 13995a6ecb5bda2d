\* Losses, failed sends, late packets and copies.
CONSTANTS
    SeqMod = 8
    TsMod = 5
    RtpHdr = 3
    RxBuf = 6
    Payloads = {3, 4}
    Unit = 1000
    Window = 3
    Seq0 = {5}
    MaxFrames = 5
    MaxReceived = 6
    MaxCopies = 1
SPECIFICATION Spec
INVARIANTS
    TypeOK
    LossExact
    LossCovered
    CountersAgree
    PacketsPlaced
