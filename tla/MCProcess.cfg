SPECIFICATION MCSpec
CONSTANTS
    Procs = {r, a, b}
    Root = r
    Groups = {r, g}
    Callers <- TwoCallers
    WaitArgs <- MixedArgs
    Causes <- BothCauses
    MaxGroups = 1
    MaxStops = 1
    Children = {"c1", "c2"}
    Depth = 3
    Far = 99
    Frames <- ThreeFrames
    MaxFailures = 2
    Threads = {1, 2}
    Stacks = {1, 2, 3}
    MaxUnmaps = 1
    Enosys = TRUE
    MaxDepth = 2
    MaxTime = 2
    MaxCalls = 4
    MaxSignals = 1
    Others = {1, 2}
    Mounts = 1
    MaxThreads = 1
    MaxForks = 2
SYMMETRY Symmetry
INVARIANTS TypeOK ListsExact StatusFaithful KernelExact
PROPERTIES WaitAnswersTrue
CHECK_DEADLOCK FALSE
