SPECIFICATION LiveSpec
CONSTANTS
    MaxMembers = 3
    MaxBudget = 2
    MaxPieces = 3
    None = None
INVARIANTS ContinuesWhatTheClientSaw SettledTruthfully
PROPERTY WalksTheMembers
CHECK_DEADLOCK FALSE
