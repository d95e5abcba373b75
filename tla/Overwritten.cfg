\* A save, its answer with a newer change in it, and a second save that waited behind it.
SPECIFICATION Spec
CONSTANTS
    MaxEdits = 2
    MaxChanges = 1
    MaxReads = 0
    MaxFaults = 0
PROPERTIES
    NothingOverwritten
CHECK_DEADLOCK FALSE
