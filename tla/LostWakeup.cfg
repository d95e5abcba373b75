\* A call waits forever once a late publication hides the one it needs.
SPECIFICATION FairSpec
CONSTANTS
    Callers = {c1, c2}
    Flights = {f1}
    NoFlight = NoFlight
    Removable = FALSE
PROPERTIES
    WaitersReturn
CHECK_DEADLOCK FALSE
