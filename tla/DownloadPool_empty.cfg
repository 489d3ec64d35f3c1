SPECIFICATION Spec

CONSTANTS
    Threads = 1
    NFiles = 2
    BundleCounts = {0, 1}
    PipeCapacity = 1
    IndexBound = 5

INVARIANTS
    AllFilesFinished
