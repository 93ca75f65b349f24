SPECIFICATION Spec
CONSTANTS
    Shares = {s1}
    MaxRuns = 2
    MaxQuits = 1
    MaxInFlight = 2
    ExitsInTime = FALSE
    QuitsLate = TRUE
    StartsClear = TRUE
    Crashes = TRUE
    KeepsPids = TRUE
INVARIANTS PhaseFits ShowsTheGuest
PROPERTIES KeepsLifecycle ForceOffEnds
