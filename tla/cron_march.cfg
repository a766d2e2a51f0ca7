SPECIFICATION Spec
CONSTANTS
    Hours = 2
    Minutes = 2
    Years <- MCYears
    Lines <- FirstAnd30Line
    Starts <- MCStarts
INVARIANT
    NoDaySkipped
CHECK_DEADLOCK FALSE
