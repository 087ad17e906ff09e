SPECIFICATION FairSpec
CONSTANTS
    Others = {"certificates"}
    Versions = {2, 3}
    MaxRestores = 1
    MaxAsks = 2
    MaxCrashes = 2
    MayRepeat = FALSE
CHECK_DEADLOCK FALSE
INVARIANT OneState
PROPERTIES StagedIsApplied RunsWhatIsInstalled
