SPECIFICATION Spec
CONSTANTS
  Text <- MCText
  Entry <- MCEntry
  Tree <- MCTree
  Unit <- MCUnit
  NoName = "none"
  BadName = "9x"
INVARIANTS
  TypeOK
  PackagedIffSound
CHECK_DEADLOCK FALSE
