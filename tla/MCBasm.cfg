SPECIFICATION MCSpec
CONSTANTS
    Forks = {forkA, forkB}
    Top = 1
    TxCount = 2
    MaxRange = 2
    MaxTxIDs = 2
    MaxAdmitted = 2
    MaxResponse = 10
    Kinds = {"tip", "range", "list", "proof", "raw"}
    MaxReorgs = 2
    MaxRewrites = 1
    Half = 16
    Values = {0, 1, 3, 16, 17, 64, 128, 255}
    Counts = {0, 1, 2, 4, 16, 64, 255}
    Topics = {1, 2, 15}
    MaxSteps = 2
    Off = Off
SYMMETRY Symmetry
INVARIANTS ProofsAreSound AnswersAreSound LimitsAreExact
CHECK_DEADLOCK FALSE
