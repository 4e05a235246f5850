SPECIFICATION Spec
CONSTANTS
  Value = {1, 2, 3}
  NoValue = NoValue
  Width = 4
  MaxSize = 9
  MaxList = 3
VIEW State
INVARIANT DepthIsBounded
