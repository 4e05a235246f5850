SPECIFICATION Spec
CONSTANTS
  Key = {empty, long, short}
  Short = {short}
  Empty = empty
  WordOf <- CollidingWords
  Fold <- CrowdedFold
  Value = {v1, v2}
  NoValue = NoValue
  TimeBits = 2
  Times <- NearTimes
  Lifetimes = {{}, {1}}
  Capacities = {0, 2}
  Reserved = 3
SYMMETRY ValueSymmetry
PROPERTIES ImplementsCache
VIEW State
