\* Two refreshes that ask for the prices of two sources, an interval of two ticks and a retry after
\* one, a new edition, an update and a second launch; a scan beside four seconds of two sessions;
\* four events of a message in three requests.
SPECIFICATION MCSpec
CONSTANTS
  All <- MCAll
  Dated = "supplement"
  Callers = {k1, k2}
  RefreshInterval = 2
  FailureRetryInterval = 1
  MaxTime = 3
  MaxEdition = 2
  MaxReleases = 1
  MaxLaunches = 2
  Scanners = {w1}
  MaxSessions = 2
  MaxSeconds = 4
  Messages = {m1}
  Requests = {q1, q2, q3}
  MaxTokens = 2
  MaxEvents = 4
SYMMETRY StorageSymmetry
INVARIANTS
  AnswersAreServed
  TurnsCountOnce
  OrderDoesNotCount
PROPERTIES
  FetchesAreSpaced
  PricesNeverOlder
CHECK_DEADLOCK FALSE
