SPECIFICATION Spec
CONSTANTS
    MaxMembers = 2
    MaxBudget = 1
    MaxPieces = 2
    None = None
INVARIANT OnlyConcreteModels
CHECK_DEADLOCK FALSE
