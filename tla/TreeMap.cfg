SPECIFICATION MapAloneSpec
CONSTANTS
  Key = {1, 2, 3, 4, 5, 6, 7}
  Value = {v1, v2}
  NoKey = NoKey
  NoValue = NoValue
  Limits = {0, 2, 5}
  MaxLimit = 3
  ValuesOf <- MapValues
  Bounds <- NearBounds
VIEW State
INVARIANTS RedBlack SlotsAccounted
PROPERTIES ImplementsSortedMap
