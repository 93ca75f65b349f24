SPECIFICATION Spec
CONSTANTS
    Branches = {"master", "experiment"}
    Args = {"default", "custom"}
    Takes <- TakesPatches
    MaxBuilds = 3
    MaxNews = 1
    ConfigureLeftAlone = TRUE
    None = None
    Half = Half
INVARIANTS
    StampsTell
    BuiltAsAsked
PROPERTIES
    NothingTwice
