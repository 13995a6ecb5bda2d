\* Two client threads update the configuration while audio comes in.
CONSTANTS
    hi = hi
    en = en
    ta = ta
    None = None
    Updaters = {u1, u2}
    Langs <- MCLangs
    English <- MCEnglish
    Messages <- MCMixedMessages
    Sizes <- MCSizes
    Samples <- MCSamples
    Payloads <- MCPayloads
    Config0 <- MCConfig0
    MaxSamples = 3
    MaxFrames = 2
    MaxUpdates = 2
    MaxEvents = 3
SPECIFICATION FairSpec
INVARIANTS
    TypeOK
    ChunksInOrder
    LostOnlyByResize
    BufferDrained
    FinalIsEndOfUtterance
    LabelFitsText
    SizeSettles
PROPERTIES
    EveryFrameFinishes
