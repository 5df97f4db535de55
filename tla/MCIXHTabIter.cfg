SPECIFICATION IterSpec
CONSTANTS
  k1 = k1
  k2 = k2
  k3 = k3
  k4 = k4
  Keys = {k1, k2, k3, k4}
  Values = {1}
  Garbage = Garbage
  Hash <- MCHash
  HASH_BITS = 5
  H7_WEIGHT = 16
  GROUP_SIZE = 2
  IND_MOD = 8
  SWAR = TRUE
  V0 = TRUE
  MinSizes = {0}
  Deletable = {k2}
  MAX_BIN_SIZE = 8
  SplitsOnly = {"one entry", "both sides"}
SYMMETRY KeySymmetry
INVARIANTS
  CurrentReadable
  MeetsAll
  BinsSearchable
PROPERTY
  MeetsOnce
  RefinesMap
