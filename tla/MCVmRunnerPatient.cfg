SPECIFICATION SafeSpec
CONSTANTS
    Shares = {s1, s2}
    MaxRuns = 2
    MaxQuits = 1
    MaxInFlight = 1
    ExitsInTime = TRUE
    QuitsLate = TRUE
    StartsClear = TRUE
    Crashes = FALSE
    KeepsPids = FALSE
SYMMETRY SharesAlike
INVARIANTS
    OneKnownQemu
    SignalsWithCare
    NoStrandedHelper
PROPERTIES
    GoneWhenOver
