SPECIFICATION Spec
CONSTANTS
    Hours = 2
    Minutes = 2
    Years <- MCYears
    Lines <- MCLines
    Starts <- MCStarts
INVARIANTS
    TypeOK
    NothingSkipped
    Yielded
PROPERTIES
    EndsOrStandsStill
    StillForever
CHECK_DEADLOCK FALSE
