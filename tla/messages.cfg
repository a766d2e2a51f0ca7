SPECIFICATION Spec
CONSTANTS
    MaxText = 3
    MaxAround = 1
    MaxLegs = 3
    Room = 3
    Templates <- MCTemplates
    Others <- MCOthers
    Values <- MCValues
    Names <- MCNames
    QuotedNames <- MCQuotedNames
INVARIANTS
    TypeOK
    TripsChangeNothing
    NoTripKills
    NewTasksToldApart
CHECK_DEADLOCK FALSE
