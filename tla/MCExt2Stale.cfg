SPECIFICATION Spec
CONSTANTS
    Handles = {h1, h2}
    Inodes = {1, 2}
    NumBlocks = 6
    Width = 2
    Direct = 1
    Offsets = {0}
    Counts = {3}
    Lengths = {1}
    MaxOps = 6
INVARIANT FreesOnlySet
CHECK_DEADLOCK FALSE
