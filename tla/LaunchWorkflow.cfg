SPECIFICATION FairSpec
CONSTANTS
    Windows = {a, b}
    MaxSnapshots = 3
INVARIANTS
    TypeOK
    LateCallsMoveNothing
    RunReleasesObservation
    StrayMoveEndsPlacing
PROPERTIES
    KeepsTheContract
