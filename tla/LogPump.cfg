SPECIFICATION FairSpec
CONSTANTS
    Streams = {state, log}
    Tasks = {t1}
    Cap = 2
    MaxSends = 4
    LogName = log
    NoName = NoName
    NoTask = NoTask
PROPERTY PumpsCatchUp
CHECK_DEADLOCK FALSE
