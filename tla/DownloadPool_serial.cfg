SPECIFICATION FairSpec

CONSTANTS
    Threads = 1
    NFiles = 3
    BundleCounts = {0, 1, 2, 3}
    PipeCapacity = 1
    IndexBound = 5

INVARIANTS
    NoUndefined

PROPERTIES
    Termination
