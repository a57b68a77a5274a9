SPECIFICATION MCSpec
CONSTANTS
    end1 = end1
    end2 = end2
    t1 = t1
    t2 = t2
    t3 = t3
    Socks = {end1, end2}
    Threads = {t1, t2, t3}
    End <- MCEnd
    Calls <- MCCalls
    First = {t1, t2}
    NoThread = NoThread
    BufSize = 2
    Counts = {1, 3}
    MaxCalls = 3
    MaxDups = 1
    MaxSignals = 1
    MaxSets = 1
    MaxFailures = 1
INVARIANTS SocketsExact EventsExact StoresExact
PROPERTIES CredentialsExact CopiesExact PathsExact AnswersTrue
CHECK_DEADLOCK FALSE
