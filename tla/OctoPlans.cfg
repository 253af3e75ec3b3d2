SPECIFICATION Spec
CHECK_DEADLOCK FALSE
CONSTANTS
  k1 = k1
  k2 = k2
  k3 = k3
  k4 = k4
  Keys = {k1, k2, k3, k4}
  Digest <- MCDigest
  K = 3
  CellOrder <- MCCellOrder
  Bump <- MCBump
  RegisterOrder <- MCRegisterOrder
  Register <- MCRegister
  Rank <- MCRank
  HllTau = 2
  Lambda = 2
  BucketOrder <- MCBucketOrder
  BucketOf <- MCBucketOf
  LightOrder <- MCLightOrder
  LightOf <- MCLightOf
  NoFlow = NoFlow
  CocoOrder <- MCCocoOrder
  CocoRows <- MCCocoRows
  NoHolder = NoHolder
  Workers <- MCWorkers
  Plans = {"Count", "CmTopK", "CountTopK", "Dd", "Hll", "UnivMon", "Coco", "Elastic"}
  KeysOf <- MCKeysOf
  MaxInputs <- MCMaxInputs
  TauRange <- MCTauRange
  MaxMoves <- MCMaxMoves
  MaxQueue = 2
  MaxCalls = 2
  Followed = 0
  Nobody = Nobody
INVARIANTS
  HeapSound
  NothingLost
  HeaviestKept
  NeverUnder
  CompleteMeansAll
