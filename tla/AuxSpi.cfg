SPECIFICATION AuxSpec
CONSTANTS
    Words = 2
    Depth = 1
    None = None
    Junk = Junk
INVARIANTS OwnWords
PROPERTIES WordsAreFramed EveryTransferReturns
