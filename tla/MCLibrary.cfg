SPECIFICATION Spec
CONSTANTS
    Ids = {"a", "b"}
    Vms = {"a"}
    NumDisks = 2
    MaxByHand = 1
    MaxRestarts = 1
    Started = {"a"}
    None = None
INVARIANTS ShowsTheFolders WholeOrGone ButtonsFit TellsWhy
PROPERTIES  NoLostEdits
CHECK_DEADLOCK FALSE
