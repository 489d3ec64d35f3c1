SPECIFICATION Spec

CONSTANTS
    Threads = 2
    NFiles = 2
    BundleCounts = {2}
    PipeCapacity = 1
    IndexBound = 5

INVARIANTS
    CleanupAssert
