SPECIFICATION Spec
CONSTANTS
  Key <- MCKey
  Segment <- MCSegment
  BadSegment <- MCBadSegment
  LongKey <- MCLongKey
  kMaxKeyDepth = 3
  MaxValueLength = 3
  Char <- MCChar
  Typed <- MCTyped
  CrashTexts <- MCCrashTexts
  Number <- MCNumber
  Counted <- MCCounted
  Described <- MCDescribed
  Errno <- MCErrno
  kRegistryCapacity = 2
  kInt32MaxValue = 12
  kInt32MinMagnitude = 13
  kUInt32MaxValue = 31
INVARIANTS
  TypeOK
  SavedReadsBack
  TypedReadsExact
  RegistrySound
PROPERTIES
  PreservedKept
  KeepsErasurePromise
