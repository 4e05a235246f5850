SPECIFICATION EachSpec
CONSTANTS
  Value = {v1, v2}
  Element = {e1, e2, e3, e4, e5}
  NoValue = NoValue
  MaxDepth = 3
  Limits = {0, 1, 2, 5}
  EndsLength = 6
  StackDepth = 2
  StackLength = 9
  WordBits = 2
  WordsDepth = 2
  BitLimits <- MCBitLimits
  Sizes = {0, 1, 2, 3, 5}
SYMMETRY ValueSymmetry
VIEW State
INVARIANTS ChunksAreFull BlocksArePacked BitsAreMasked EveryElementIsSomewhere
PROPERTIES EachImplementsSequence CallsAreAmortized
