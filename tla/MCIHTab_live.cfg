SPECIFICATION FairSpec
CONSTANTS
  k1 = k1
  k2 = k2
  k3 = k3
  Keys = {k1, k2}
  Values = {1, 2}
  Garbage = Garbage
  Hash <- MCTwoHash
  H7_WEIGHT = 16
  GROUP_SIZE = 2
  IND_MOD = 4
  MinSizes = {0, 2}
PROPERTY
  RefinesMap
  Returns
