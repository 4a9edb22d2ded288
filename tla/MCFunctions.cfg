SPECIFICATION FunctionsSpec
CONSTANTS
    MaxInt <- MCMaxInt
    Inputs <- MCInputs
    WorkAreas <- MCWorkAreas
    Windows = {a, b, c}
    MaxHistory = 5
INVARIANTS
    PreparedExactlyWhenItFits
    ErrorsAreDeserved
    TrackerAgreesWithHistory
\* A call of Prepare returns once, and the history is bounded.
CHECK_DEADLOCK FALSE
