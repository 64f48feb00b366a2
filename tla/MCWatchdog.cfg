SPECIFICATION Spec
CONSTANTS
  Task <- MCTask
  TaskTimeout <- MCTaskTimeout
  Period = 1
  SlotCount = 2
  Timeout = 5
  Interval = 2
  Latency = 1
  StartTime = 1
  Hold = 1
  MaxTime = 8
INVARIANTS
  TypeOK
  OneOwnerPerSlot
  FeedChainUnbroken
  StuckTaskResets
  ReportsBounded
PROPERTIES
  BiteIsExplained
  PunctualTaskNeverReported
