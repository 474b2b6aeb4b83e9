SPECIFICATION Spec
CONSTANTS
    Chords = {c1, c2}
    Names = {a, b}
    MaxCallables = 2
    MaxPresses = 2
    None = None
INVARIANTS
    RegistryAgrees
PROPERTIES
    ReleasedChordSilent
    PressesHandled
CHECK_DEADLOCK FALSE
