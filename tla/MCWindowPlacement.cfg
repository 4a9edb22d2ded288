SPECIFICATION FairSpec
CONSTANTS
    small = small
    large = large
    elsewhere = elsewhere
    target = target
    shrunk = shrunk
    NoBounds = NoBounds
    Bounds <- MCBounds
    Settings <- MCSettings
    TargetSettings <- MCTargetSettings
    InitialTarget = small
    FinalBounds <- MCFinalBounds
    RequiredSamples = 3
    MaxSamples = 5
INVARIANT ChangeIsReported
INVARIANT SuccessMeansPlaced
INVARIANT AtMostOneLateStep
PROPERTY ResizedOnlyWhenSettled
PROPERTY PlaceEnds
\* A placement returns once.
CHECK_DEADLOCK FALSE
