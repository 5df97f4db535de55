SPECIFICATION IterSpec
CONSTANTS
  k1 = k1
  k2 = k2
  Keys = {k1, k2}
  Values = {1}
  Garbage = Garbage
  Hash <- MCHash
  H7_WEIGHT = 16
  GROUP_SIZE = 4
  IND_MOD = 8
  MinSizes = {4}
SYMMETRY KeySymmetry
INVARIANTS
  CurrentReadable
  MeetsAll
PROPERTY
  MeetsOnce
