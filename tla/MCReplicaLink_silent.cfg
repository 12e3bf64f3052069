CONSTANTS
  MasterId = MasterId
  NoId = NoId
  RandomId = RandomId
  PeerKinds <- MCPeerKinds
  MasterAuth = TRUE
  MasterHangs = TRUE
  ClearDB = TRUE
  MaxWrites = 4
  SnapChunks = 2
  MaxFaults = 3
  MaxDepth = 2
SPECIFICATION Spec
PROPERTY
  CaughtUp
