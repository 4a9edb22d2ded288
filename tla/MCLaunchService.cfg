CONSTANTS
    Starters = {s1}
    Cancellers = {c1}
    Main = main
    Nobody = nobody
    MaxOps = 2
    WorkflowResults <- MCResults
SPECIFICATION ProductSpec
INVARIANTS
    TypeOK
    OperationIsOwned
    LeftoverWorkflowIsSignalled
    TerminalStateIsExplained
    ShutdownLeavesNothingBehind
PROPERTIES
    WaitGroupIsNotRevived
    CancellationIsBinding
    EventsTellOneStory
    NoEventAfterShutdown
