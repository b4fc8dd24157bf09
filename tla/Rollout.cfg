SPECIFICATION FairSpec
CONSTANTS
    Specs <- RolloutSpecs
    Broken = {"bad"}
    Limit = 2
    IntBits = 8
INVARIANTS RolloutTypeOK OneCluster ServiceKept
PROPERTIES RolloutCompletesOnceComplete
CHECK_DEADLOCK FALSE
