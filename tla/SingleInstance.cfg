SPECIFICATION FairSpec
CONSTANTS
    Procs = {p1, p2, p3}
    MaxEnds = 2
    Nobody = Nobody
INVARIANT PrimaryReachable
PROPERTY LaunchesArrive
CHECK_DEADLOCK FALSE
