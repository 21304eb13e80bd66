SPECIFICATION Spec
CONSTANTS
    Publishers = {p1, p2}
    Nobody = Nobody
    Chunks = 2
    MaxRewrites = 1
    MaxMishaps = 2
INVARIANTS
    PublishedIsDurable
    PublishedIsOfOneVersion
    SuccessIsWhole
    PairIsExclusive
PROPERTIES
    ImplementsPairPublication
CHECK_DEADLOCK FALSE
