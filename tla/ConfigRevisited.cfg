SPECIFICATION Spec
CONSTANTS
    Specs <- ConfSpecs
    TierNames <- OneTier
    MaxReplicas = 1
    Clock <- OneClock
    Limit <- EditTwice
    MaxMishaps = 1
    MaxLag = 1
    IntBits = 8
    Confs = {c1, c2}
INVARIANTS PodsRunPublishedConfig
CHECK_DEADLOCK FALSE
