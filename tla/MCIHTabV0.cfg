SPECIFICATION Spec
CONSTANTS
  k1 = k1
  k2 = k2
  k3 = k3
  k4 = k4
  Keys = {k1, k2, k3, k4}
  Values = {1, 2}
  Garbage = Garbage
  Hash <- MCHash
  H7_WEIGHT = 16
  GROUP_SIZE = 2
  IND_MOD = 4
  SWAR = TRUE
  MinSizes = {0, 2}
INVARIANTS
  V0Searchable
  IndexNotReserved
  SwarHarmless
  CountExact
PROPERTY
  RefinesMap
