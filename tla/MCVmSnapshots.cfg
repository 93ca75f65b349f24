SPECIFICATION FairSpec
CONSTANTS
    Names = {"daily"}
    MaxStarts = 1
    Conditions <- MCConditions
INVARIANTS WholeSnapshots RestoredTogether NoDoubles ListUpToDate
PROPERTIES EveryJobEnds
