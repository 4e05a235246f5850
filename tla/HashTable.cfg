SPECIFICATION Spec
CONSTANTS
  Key = {empty, long, short}
  Short = {short}
  Empty = empty
  WordOf <- CollidingWords
  Fold <- CrowdedFold
  Value = {v1, v2}
  NoValue = NoValue
SYMMETRY ValueSymmetry
VIEW State
INVARIANTS HalfVacant EveryPairIsReached NoSlotLeaks
PROPERTIES ImplementsMap EntriesNeverMove
