SPECIFICATION Spec
CONSTANTS
  BYTE = 2
  BitXor <- MCXor
  Mem <- MCMem
  MaxLen = 2049
  Keys = {1}
  Lens = {0, 9}
  Seeds = {251}
  Ints = {0, 1, 127, 128, 254, 255}
  FactorSets <- MCFactorSets
  Builds <- MCBuilds
  Configs <- MCDefault
INVARIANTS
  Hash64AnyTarget
