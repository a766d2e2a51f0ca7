SPECIFICATION Spec
CONSTANTS
    Hours = 2
    Minutes = 2
    Years <- MCYears
    Lines <- EveryMinuteLine
    Starts <- MCStarts
INVARIANT
    EveryMinute
CHECK_DEADLOCK FALSE
