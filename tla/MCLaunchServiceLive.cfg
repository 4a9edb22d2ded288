CONSTANTS
    Starters = {s1}
    Cancellers = {}
    Main = main
    Nobody = nobody
    MaxOps = 2
    WorkflowResults <- MCOneResult
SPECIFICATION FairSpec
PROPERTIES
    EveryOperationEnds
    EndIsAnnounced
    ShutdownEnds
    ShutdownDrains
