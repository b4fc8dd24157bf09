SPECIFICATION FairSpec
CONSTANTS
    Specs <- ConfSpecs
    TierNames <- OneTier
    MaxReplicas = 1
    Clock <- OneClock
    Limit <- DeleteOnce
    MaxMishaps = 1
    MaxLag = 1
    IntBits = 8
    Confs = {c1}
INVARIANTS NoLostWakeup StatusTruthful
PROPERTIES EventuallyConverged
CHECK_DEADLOCK FALSE
