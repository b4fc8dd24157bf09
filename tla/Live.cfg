SPECIFICATION FairSpec
CONSTANTS
    Specs <- ConfSpecs
    TierNames <- OneTier
    MaxReplicas = 1
    Clock <- TwoClocks
    Limit <- EditFailCrash
    MaxMishaps = 1
    MaxLag = 1
    IntBits = 8
    Confs = {c1, c2}
INVARIANTS TypeOK PodsRunPublishedConfig
PROPERTIES EventuallyConverged
CHECK_DEADLOCK FALSE
