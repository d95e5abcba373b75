\* Two accounts and three logins per provider; Claude's entry is also read by one probe; two files
\* of Codex and one lost answer or failed write. Accounts: two commands at a time, four in all, two
\* failures and a launch.
SPECIFICATION MCSpec
CONSTANTS
  Accounts = {a1, a2}
  Unresolved = Unresolved
  Probes = {p1}
  ClaudeLogins = 3
  Files = 2
  MaxLogins = 3
  MaxFaults = 1
  Names <- MCNames
  Ids <- MCIds
  Base <- MCBase
  Salts <- MCSalts
  Tasks = {t1, t2}
  None = None
  MaxCommands = 4
  MaxFailures = 2
  MaxLaunches = 1
SYMMETRY MCSymmetry
INVARIANTS
  FiguresBelongToCard
  OwnWriteIsSeen
  LoginsStayUsable
  CardsAgree
  KeysAreOwned
PROPERTIES
  SnapshotFitsLogin
  StaleProbeDiscarded
CHECK_DEADLOCK FALSE
