\* Is Mayura ever asked to translate into English?
CONSTANTS
    hi = hi
    en = en
    ta = ta
    None = None
    Updaters = {u1}
    Langs <- MCLangs
    English <- MCEnglish
    Messages <- MCMessages
    Sizes <- MCSizes
    Samples <- MCSamples
    Payloads <- MCFewPayloads
    Config0 <- MCConfig0
    MaxSamples = 3
    MaxFrames = 2
    MaxUpdates = 2
    MaxEvents = 1
SPECIFICATION Spec
INVARIANTS
    MayuraNeverToEnglish
