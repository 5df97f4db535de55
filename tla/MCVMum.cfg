SPECIFICATION FairSpec
CONSTANTS
  BYTE = 2
  BitXor <- MCXor
  Mem <- MCMem
  MaxLen = 2049
  Keys = {1}
  Lens <- MCLens
  Seeds = {251}
  Ints = {0, 1, 127, 128, 254, 255}
  FactorSets <- MCFactorSets
  Builds <- MCBuilds
  Configs <- MCConfigs
INVARIANTS
  ReadsInside
  EveryByteOnce
  FactorsFresh
  BuildsAgree
  SameKeySameHash
PROPERTY
  HashReturns
