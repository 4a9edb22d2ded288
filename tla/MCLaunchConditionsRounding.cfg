SPECIFICATION Spec
CONSTANTS
    MaxInt <- MCMaxInt
    Inputs <- MCInputs
    WorkAreas <- MCWorkAreas
INVARIANT RoundedAwayFromZero
\* A call of Prepare returns once.
CHECK_DEADLOCK FALSE
