SPECIFICATION Spec
CONSTANTS
    Service = service
    Foreground = foreground
    Clients = {app, root}
    Roots = {root}
    Admitted = {app}
    MaxStarts = 3
    MaxCommands = 2
    MaxFaults = 1
INVARIANTS
    LastBinderReachable
    UnitReports
PROPERTIES
    ListenerKeepsUp
CHECK_DEADLOCK FALSE
