SPECIFICATION Spec
CONSTANTS
  Value = {v1, v2}
  NoValue = NoValue
  Tag = 1
  ForeignTag = 2
  MaxGen = 1
  MaxSlots = 4
SYMMETRY ValueSymmetry
VIEW ListState
INVARIANTS TypeOK LinksConsistent NoSlotLeaks
PROPERTIES ImplementsHandleList GrowsOnlyWhenFull StaleForever
