SPECIFICATION IterSpec
CONSTANTS
  Value = {v1, v2}
  NoValue = NoValue
  NoCursor = NoCursor
  Tag = 1
  ForeignTag = 2
  MaxGen = 2
  MaxSlots = 3
SYMMETRY ValueSymmetry
VIEW IteratorState
INVARIANTS CursorIsAGap
PROPERTIES ImplementsListIterator HandlesOutliveIterations
