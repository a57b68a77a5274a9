SPECIFICATION FairSpec
CONSTANTS
    Readers = {r1}
    Writers = {w1, w2}
    FirstReader = r1
    FirstWriter = w1
    NoThread = NoThread
    Sizes = {1, 2}
    FirstSize = 2
    Counts = {1, 3}
    MaxCalls = 3
    MaxDups = 1
    MaxSignals = 1
    MaxSets = 1
INVARIANTS PipeExact
PROPERTIES PairNeverStuck
CHECK_DEADLOCK FALSE
