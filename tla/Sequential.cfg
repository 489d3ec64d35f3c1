SPECIFICATION AnySpec
CONSTANTS
    Key = {1, 2, 3}
    InitialSize = 16
    MaxLength = 26
    SortLength = 7
    ChunkLists <- MCChunkLists
    Given <- MCGiven
    Dashed <- MCDashed
    Number <- MCNumber
    Lower <- MCLower
    Matches <- MCMatches
    NonEmpty <- MCNonEmpty
    Files <- MCFiles
    MaxLangs = 4
    IntSize = 16
    Block = 8
    Word = 16
    MaxMessage = 28
    MaxPiece = 15
INVARIANTS
    Sorted
    InBounds
    StablySorted
    Grouped
    OptionsMeant
    Digested
PROPERTIES
    CollectionSpec
    Returns
