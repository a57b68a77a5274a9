SPECIFICATION MCSpec
CONSTANTS
    m = m
    a = a
    b = b
    r = r
    g = g
    Components = {"signal", "group", "process"}
    Sigs <- TwoSigs
    SaMask <- OneBlocksOther
    NoDefer <- OneNoDefer
    Masks <- SomeMasks
    MaxSends = 2
    MaxStops = 1
    MaxMasks = 1
    MaxDepth = 3
INVARIANTS Types InOrderOnce PendingExact MaskRestored
PROPERTIES SignalHandled ProcessEnds WaitsEnd
CHECK_DEADLOCK FALSE
