\* Get after a put that created an overflow block (expected violation).
CONSTANTS
  k1 = k1  k2 = k2  k3 = k3  v1 = v1  v2 = v2  c1 = c1  c2 = c2
  Keys <- MCKeys
  Vals <- MCVals
  E = 2
  HashBits = 2
  MaxKeys = 4
  LoadNum = 7
  LoadDen = 10
  Empty = Empty
  Nil = Nil
  HashSeed = 305419896
  FreelistOff = 70144
  Clients <- OneClient
  MaxFaults = 0
SYMMETRY Symmetry
SPECIFICATION Spec
INVARIANT GetSeesIndex
