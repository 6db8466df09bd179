SPECIFICATION VariantSpec
CONSTANTS
  Slots = {s1, s2}
  Blocks = {1, 2, 3, 4}
  INT_MAX = 3
  Numbers = {0, 3}
  Strings = {0}
  Sizes = {0, 1, 5}
INVARIANT CompareIsOrder
