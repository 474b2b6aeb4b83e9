SPECIFICATION FairSpec
CONSTANTS
    EndpointScheme <- MCEndpoints
    Versions = {1, 2, 3}
    Installed = 1
    AllowDowngrade = FALSE
    MaxRedirects = 1
    MaxBytes = 1
    HasTimeout = TRUE
    MaxAttempts = 2
    NoManifest = NoManifest
    Absent = Absent
    Torn = Torn
INVARIANTS InstallProvenance NoConnectionHeld WholeBundleKept
PROPERTIES OutcomeTruthful RunningNeverGoesBack FlowEnds
CHECK_DEADLOCK FALSE
