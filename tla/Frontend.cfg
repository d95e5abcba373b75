\* Settings: two edits, a change or a stamp, a focus read and a failure. Panel: two heights, three
\* gestures, a resize and a failure.
SPECIFICATION MCSpec
CONSTANTS
  MaxEdits = 2
  MaxChanges = 1
  MaxReads = 1
  SettingsFaults = 1
  MaxHeight = 2
  MaxGestures = 3
  MaxResizes = 1
  MaxFaults = 1
INVARIANTS
  Converged
  LastEditKept
  LastDecisionKept
  ModeIsShown
PROPERTIES
  LoneSaveKeepsChanges
  QueueDrains
CHECK_DEADLOCK FALSE
