SPECIFICATION Spec
CONSTANTS
    Windows = {a, b, c}
    MaxSnapshots = 3
PROPERTIES
    MovedWindowIsTheOnlyCandidate
