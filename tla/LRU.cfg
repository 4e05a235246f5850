SPECIFICATION Spec
CONSTANTS
  Key = {empty, long, short}
  Short = {short}
  Empty = empty
  WordOf <- CollidingWords
  Fold <- CrowdedFold
  Value = {v1}
  NoValue = NoValue
  TimeBits = 2
  Times = {0}
  Lifetimes = {{}}
  Capacities = {0, 1, 2, 3}
  Reserved = 3
INVARIANTS ListAndTableAgree NoSlotLeaks
PROPERTIES ImplementsCache SlotsFollowEntries
VIEW State
