SPECIFICATION Spec
CONSTANTS
    MaxDepth = 6
    Strong <- MCStrong
    Sound <- MCSound
    Acceptable <- MCAcceptable
    Sources <- MCSources
    Foreign = "foreign"
    MaxCommands = 4
    MaxFaults = 2
INVARIANTS
    ServedRequirementSound
    ReportsTruthful
CHECK_DEADLOCK FALSE
PROPERTIES
    LoadedJobServes
