SPECIFICATION Spec
CONSTANTS
    Specs <- ScaleSpecs
    TierNames <- OneTier
    MaxReplicas = 2
    Clock <- OneClock
    Limit <- EditAndFail
    MaxMishaps = 1
    MaxLag = 1
    IntBits = 8
    Confs = {c1}
INVARIANTS NoLostWakeup StsAfterDeps StatusTruthful
PROPERTIES ReplicasetKept ImplementsLifecycle
CHECK_DEADLOCK FALSE
