SPECIFICATION FairSpec

CONSTANTS
    Threads = 2
    NFiles = 3
    BundleCounts = {0, 1, 2, 3}
    PipeCapacity = 1
    IndexBound = 7

PROPERTIES
    NeverHangs
    OpenedIsFinished
