\* A five-minute interval, batches of up to seven minutes (a timed-out provider and its follow-ups);
\* two calls and the one life of a named account; three releases.
SPECIFICATION MCSpec
CONSTANTS
  RefreshInterval = 5
  RetryBackoff = 1
  MaxBatch = 7
  Callers = {c1, c2}
  Flights = {f1}
  NoFlight = NoFlight
  Removable = TRUE
  MaxVersion = 3
INVARIANTS
  CadenceKept
  FiguresKeptYoung
PROPERTIES
  FailuresAreRetried
  FlightsComeToRest
  OfferedIsInstalled
CHECK_DEADLOCK FALSE
