SPECIFICATION SafeSpec
CONSTANTS
    Shares = {}
    MaxRuns = 1
    MaxQuits = 1
    MaxInFlight = 1
    ExitsInTime = TRUE
    QuitsLate = FALSE
    StartsClear = TRUE
    Crashes = FALSE
    KeepsPids = TRUE
PROPERTIES PicksUpAgain
