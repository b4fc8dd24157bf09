SPECIFICATION Spec
CONSTANTS
    Specs <- TwoTierSpecs
    TierNames <- TwoTiers
    MaxReplicas = 1
    Clock <- OneClock
    Limit <- FailOrLose
    MaxMishaps = 1
    MaxLag = 1
    IntBits = 8
    Confs = {c1}
INVARIANTS NoLostWakeup StatusTruthful
PROPERTIES ImplementsLifecycle
CHECK_DEADLOCK FALSE
