\* An account that is refreshed by three calls, removed, added, rolled back and retried while
\* calls and runners of its earlier life go on.
SPECIFICATION Spec
CONSTANTS
    Callers = {c1, c2, c3}
    Flights = {f1, f2}
    NoFlight = NoFlight
    Removable = TRUE
SYMMETRY CallAndFlightSymmetry
CONSTRAINT FewCallsAroundEdits
INVARIANTS
    SingleRunner
    EveryGenerationAccounted
    CallsAreServed
PROPERTY
    CardAgreesWithService
CHECK_DEADLOCK FALSE
