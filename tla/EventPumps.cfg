SPECIFICATION FairSpec
CONSTANTS
    Streams = {state}
    Tasks = {t1, t2}
    Cap = 2
    MaxSends = 4
    LogName = NoName
    NoName = NoName
    NoTask = NoTask
PROPERTIES PumpsCatchUp
CHECK_DEADLOCK FALSE
INVARIANTS RunningPumpsOwned NoSilentKill
