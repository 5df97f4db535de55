SPECIFICATION Spec
CONSTANTS
  k1 = k1
  k2 = k2
  k3 = k3
  Keys = {k1, k2, k3}
  Values = {1}
  Garbage = Garbage
  Hash <- MCSameHash
  H7_WEIGHT = 16
  GROUP_SIZE = 2
  IND_MOD = 8
  MinSizes = {0, 3}
SYMMETRY KeySymmetry
INVARIANTS
  TypeOK
  NoStaleIndex
  NoElementLost
  CountExact
  HalfLoad
  RebuildFaithful
  ProbeSound
  IInv
