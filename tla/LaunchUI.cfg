SPECIFICATION Spec
CONSTANTS
    MaxOps = 2
    MaxMounts = 2
    MaxPending = 2
    Ends = {"completed"}
CHECK_DEADLOCK FALSE
INVARIANTS
    TypeOK
    QuietScreenIsCurrent
PROPERTIES
    EventsAreNotTakenBack
