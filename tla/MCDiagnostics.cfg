SPECIFICATION Spec
CONSTANTS
  TaskName <- MCTaskName
  MaxFatals = 3
  MaxBoots = 3
INVARIANTS
  TypeOK
  CountsEachFatalOnce
  ClearSticks
  InitializedRecordComplete
  CapturedFatalKept
PROPERTIES
  ReportSurvivesInitialize
  DeliversInOrder
CHECK_DEADLOCK FALSE
