SPECIFICATION LibrarySpec
CONSTANTS
  MicrosPerSecond = 3
  NsPerMicro = 2
  Operands <- MCOperands
  Delays = {0, 1, 2, 3, 4, 6, 7}
  MaxValue = 30
  MacOctets = 3
  Alphabet <- MCAlphabet
  MaxLength <- MCMaxLength
  Codes = {0, 1, 2, 4, 5, 6, 22, 24, 31, 38, 39, 41, 48, 49}
  Indexes = {1, 265}
  Components = {263}
  MaxParse = 7
  Hashes = {h1, h2}
  Keys = {k1, k2, k3}
  Values = {v1, v2}
  MaxEntries = 3
  Slots = {s1, s2, s3}
  Blocks = {1, 2, 3, 4, 5, 6}
  INT_MAX = 3
  Numbers <- MCNumbers
  Strings = {0, 1}
  Sizes = {0, 1, 3}
  Capacity = 2
  Inputs = {0, 1, 4, 5, 6}
  Answer = 3
  Chunks = 2
  Timeouts = {0, 2, 3}
  LastTick = 6
INVARIANTS
  ExactSum
  NormalForm
  ComparesRight
  SleepsEnough
  CodecsReverse
  PairsAsWritten
  ColorFollowsIntensity
  HashIsMap
  EveryBlockOwned
  CompareIsOrder
  DescriptorsSettled
  ReadsAll
  ExtractsVerified
  OpenHonest
