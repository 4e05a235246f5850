SPECIFICATION ValuesSpec
CONSTANTS
  Chunks = {0, 1, 3, 4, 7, 8, 9, 55, 63, 64, 65, 136, 150}
  MaxMessage = 290
  GroupWords = 4
  KeyWords = 1
  WordSize = 8
  Seed = Seed
  ByteCounts = {0, 1, 3, 7, 8, 9, 20}
  WordCounts = {0, 2, 3, 5}
  MaxDrawn = 33
  WordBits = 4
  MostDraws = 3
  MaxItems = 4
  HalfBits = 2
  DigitBits <- MCDigitBits
  InverseSteps = 2
  LimbSteps = 1
  NibbleBits = 2
  Limbs = {0, 1, 8, 15}
  Moduli <- MCModuli
  WordsPerBlock = 2
  ChunkBlocks = 2
  Depths = {0, 1, 2, 3, 5, 6}
  ByteBits = 2
  BytePeriod = 3
  Multiplier = 177
  Seeds = {0, 5}
  Width = 6
  Fuel = 14
  SmallFrom = 4
  SmallBelow = 16
  Lists <- MCLists
  ModuliOf = {0, 1, 2, 7, 32, 36, 61, 63}
  Requests <- MCRequests
  IndexBits = 5
  Picks = {0, 1, 6, 13, 22, 31}
  AddressWords = 3
  MaxLevels = 5
  MaxLanes = 3
  MaxSize = 200
VIEW State
INVARIANT DrawsAreUniform
PROPERTIES DigestsAreStandard ImplementsStream AnswersAreExact
