SPECIFICATION ListsSpec
CONSTANTS
  Node = {n1, n2, n3, n4}
  Root = {r1, r2}
  None = None
  MaxBound = 4
SYMMETRY NodeSymmetry
INVARIANTS LinksAgree PoolIsCounted
PROPERTIES BoundGoesOnSufficing ImplementsGroups
VIEW ListsState
