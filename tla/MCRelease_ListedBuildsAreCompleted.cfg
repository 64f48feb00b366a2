SPECIFICATION Spec
CONSTANTS
  sample = sample
  first = first
  second = second
  old = old
  new = new
  Profile = {"production", "debug"}
  Dir <- MCDir
  Base <- MCBase
  Key <- MCKey
  SampleKey = sample
  MaxBuilds = 2
  MaxPackages = 2
  MaxFlashes = 2
SYMMETRY Symmetry
INVARIANT ListedBuildsAreCompleted
CHECK_DEADLOCK FALSE
