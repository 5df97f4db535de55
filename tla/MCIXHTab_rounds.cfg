SPECIFICATION FairSpec
CONSTANTS
  k1 = k1
  k2 = k2
  k3 = k3
  k4 = k4
  k5 = k5
  Keys = {k1, k2, k3, k4, k5}
  Values = {1}
  Garbage = Garbage
  Hash <- MCFarHash
  HASH_BITS = 4
  H7_WEIGHT = 16
  GROUP_SIZE = 2
  IND_MOD = 16
  SWAR = FALSE
  V0 = FALSE
  MinSizes = {8}
  Deletable = {}
  MAX_BIN_SIZE = 8
  SplitsOnly = {}
INVARIANTS
  ElementsAtHome
PROPERTY
  RefinesMap
  Returns
