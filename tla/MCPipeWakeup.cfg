SPECIFICATION FairSpec
CONSTANTS
    Readers = {r1}
    Writers = {w1, w2}
    FirstReader = r1
    FirstWriter = w1
    NoThread = NoThread
    Sizes = {1, 2}
    FirstSize = 2
    Counts = {2}
    MaxCalls = 5
    MaxDups = 1
    MaxSignals = 0
    MaxSets = 0
PROPERTY ReaderWoken
CHECK_DEADLOCK FALSE
