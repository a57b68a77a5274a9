SPECIFICATION MCSpec
CONSTANTS
    m = m
    a = a
    b = b
    r = r
    g = g
    Components = {"signal"}
    Sigs <- TwoSigs
    SaMask <- OneBlocksOther
    NoDefer <- OneNoDefer
    Masks <- SomeMasks
    MaxSends = 0
    MaxStops = 1
    MaxMasks = 0
    MaxDepth = 4
PROPERTY ContResumes
CHECK_DEADLOCK FALSE
