SPECIFICATION FairSpec

CONSTANTS
    ChunkCounts = {0, 1, 2, 3}
    Options = {{}, {"verify_only"}, {"skip_existing"}, {"existing_only"}, {"verify_only", "existing_only"}, {"verify_only", "skip_existing"}, {"skip_existing", "existing_only"}, {"verify_only", "skip_existing", "existing_only"}}
    MaxMishaps = 2

INVARIANTS
    SizeImpliesComplete
    OutcomeTruthful

PROPERTIES
    GoodBytesKept
    OptionsHonoured
    Converges
