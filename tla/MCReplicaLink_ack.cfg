CONSTANTS
  MasterId = MasterId
  NoId = NoId
  RandomId = RandomId
  PeerKinds <- MCPeerKinds
  MasterAuth = TRUE
  MasterHangs = FALSE
  ClearDB = TRUE
  MaxWrites = 2
  SnapChunks = 2
  MaxFaults = 1
  MaxDepth = 2
SPECIFICATION SafetySpec
INVARIANT
  AckTruthful
