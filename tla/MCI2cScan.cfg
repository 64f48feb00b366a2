SPECIFICATION Spec
CONSTANTS
  Bus <- MCBus
  Ready <- MCReady
  Claimed <- MCClaimed
  Line <- MCLine
  AddressCount = 8
  FirstUsable = 1
  LastUsable = 6
  RowWidth = 4
  CounterSize = 16
INVARIANTS
  TypeOK
  ScanNeedsConsent
  ProbesOnlyFreeAddresses
  OpensNamedBus
  TableTellsTruth
PROPERTIES
  EveryStepCounts
  ScanEnds
