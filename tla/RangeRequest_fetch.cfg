SPECIFICATION Spec

CONSTANTS
    Bundles <- MCBundles
    MaxChunks = 4
    HeaderSize = 16
    RangeSize = 5
    PrefixLens = {2, 8}
    RangeLens = {1, 3}

INVARIANTS
    HeaderFits
    FetchedRight
    RequestExact
    NothingTwice
