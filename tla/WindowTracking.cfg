SPECIFICATION FairSpec
CONSTANTS
    Windows = {a, b, c}
    MaxSnapshots = 2
INVARIANTS
    ChosenWindowReplacedAnother
    OldWindowIsNotChosen
    WaitReleasesObservation
PROPERTIES
    LateLooksDecideNothing
    WaitEnds
    PollingFindsTheReplacement
