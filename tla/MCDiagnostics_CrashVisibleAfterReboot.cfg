SPECIFICATION Spec
CONSTANTS
  TaskName <- MCTaskName
  MaxFatals = 2
  MaxBoots = 3
INVARIANT CrashVisibleAfterReboot
CHECK_DEADLOCK FALSE
