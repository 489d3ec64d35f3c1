SPECIFICATION Spec

CONSTANTS
    Threads = 3
    NFiles = 2
    BundleCounts = {0, 1, 2, 3}
    PipeCapacity = 1
    IndexBound = 6

INVARIANTS
    TypeOK
    BundleClaimedOnce
    NoWriteAfterClose
    ClosedIsComplete
    CreditsBalance
    DoneMeansDelivered

PROPERTIES
    DeliverySpec
