SPECIFICATION PartsSpec
CONSTANTS
    N = 3
    MaxFaults = 4
    MaxHost = 2
    MaxHostLength = 4
    MaxValueLength = 2
    Files = {main, a, b}
    Main = main
    c1 = c1
    e1 = e1
    Commits <- MCCommits
    Envs <- MCEnvs
    None = None
    MaxArchives = 3
INVARIANTS
    
    ChoiceIsTrue
    SafeIsTrue
    NeverRefused
    ReadsBack
    HoldsForAll
    RefusedForReason
    OnlyGatewayReached
    NothingElseDropped
    TornChangesNothing
    PrintedIsRestorable
    PassedIsSound
    SoundPasses
CHECK_DEADLOCK FALSE
