SPECIFICATION FairSpec
CONSTANTS
    Specs <- RolloutSpecs
    Broken = {"bad"}
    Limit = 1
    IntBits = 8
PROPERTIES RolloutCompletes
CHECK_DEADLOCK FALSE
