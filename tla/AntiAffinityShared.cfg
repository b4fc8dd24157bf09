SPECIFICATION Spec
CONSTANTS
    MaxReplicas = 3
    MaxPods = 2
    UserTerms <- Terms
    MaxEdits = 2
INVARIANTS NoOverConstraint
