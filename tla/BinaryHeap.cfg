SPECIFICATION Spec
CONSTANTS
  Value = {1, 2, 3}
  NoValue = NoValue
  Width = 4
  MaxSize = 8
  MaxList = 3
VIEW State
INVARIANT HeapOrdered
PROPERTY ImplementsPriorityBag
