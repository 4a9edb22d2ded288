SPECIFICATION Spec
CONSTANTS
    Windows = {a, b}
    MaxSnapshots = 3
INVARIANTS
    LossIsReported
