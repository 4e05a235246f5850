SPECIFICATION Spec
CONSTANTS
  Key = {1, 2, 3, 4, 5}
  Value = {v1, v2}
  NoKey = NoKey
  NoValue = NoValue
  Limits = {5}
  MaxLimit = 2
  ValuesOf <- CursorValues
  Bounds <- NearBounds
VIEW State
INVARIANTS CursorStandsOnEntries
PROPERTIES ImplementsSortedRange
