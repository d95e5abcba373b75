\* Reminders over eight hours; two claims and two request ids; two refresh tails with four readings
\* between them, of a window in one of three states, where two failures in a row make a metric sit
\* out a cycle; two shortcuts and two saves, of which one call to the desktop fails, one dismissal
\* that waits, and one launch or change from outside.
SPECIFICATION MCSpec
CONSTANTS
  c1 = c1
  c2 = c2
  c3 = c3
  mine = mine
  other = other
  Credits <- MCCredits
  ExpiryOf <- MCExpiryOf
  LeadTimes = {2, 8}
  RetrySoon = 1
  RetryLate = 3
  Horizon = 8
  Claims = {k1, k2}
  NoClaim = NoClaim
  MaxRequests = 2
  CacheLimit = 1
  ClaimExpiry <- MCClaimExpiry
  OwnerOf <- MCOwnerOf
  Logins <- MCLogins
  ClaimHorizon = 2
  Tails = {t1, t2}
  MaxTime = 2
  MaxReadings = 4
  Preferences = {{"AlmostOut", "CuttingItClose", "WillRunOut"}}
  Levels <- MCLevels
  DeliveryFailureThreshold = 2
  DeliverySkipCycles = 1
  Shortcuts = {s1, s2}
  NoShortcut = NoShortcut
  MaxSaves = 2
  MaxFaults = 1
  MaxOutside = 1
  MaxPending = 1
SYMMETRY AlertSymmetry
INVARIANTS
  RemindedOnce
  UseIsKnown
  StaysPending
  DesktopFollowsSettings
  DismissedIsPopup
PROPERTIES
  StaysDue
  ToldOnce
