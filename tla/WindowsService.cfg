SPECIFICATION FairSpec
CONSTANTS
    Commands = {c1, c2}
    MaxStarts = 3
INVARIANT RunningMeansListening
PROPERTIES ExitTruthful ServiceSettles
CHECK_DEADLOCK FALSE
