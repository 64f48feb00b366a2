SPECIFICATION Spec
CONSTANTS
  sample = sample
  first = first
  second = second
  old = old
  new = new
  Profile = {"production", "debug"}
  Dir <- MCDir
  Base <- MCBase
  Key <- MCKey
  SampleKey = sample
  MaxBuilds = 4
  MaxPackages = 0
  MaxFlashes = 0
SYMMETRY Symmetry
INVARIANTS
  OneBasePerDir
  ProductionKeysAreOwn
CHECK_DEADLOCK FALSE
