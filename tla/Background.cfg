\* Two overlapping kickstart tasks, two reset times, limit 2 as in the code; a launch with one
\* account that has a key and one file besides the database.
SPECIFICATION MCSpec
CONSTANTS
  Tasks = {t1, t2}
  Resets = {r1, r2}
  NoReset = NoReset
  NoTimer = NoTimer
  IneffectiveKickLimit = 2
  None <- MCNone
  Garbage <- MCGarbage
  Accounts <- MCAccounts
  Items <- MCItems
  Schemas <- MCSchemas
SYMMETRY BackgroundSymmetry
INVARIANTS
  ArmedTimerIsLive
  OnePrompt
  BreakerHolds
  KeyFollowsUser
  SchemaComplete
PROPERTIES
  AdoptsAtomically
CHECK_DEADLOCK FALSE
