CONSTANTS
  MasterId = MasterId
  NoId = NoId
  RandomId = RandomId
  PeerKinds <- MCPeerKinds
  MasterAuth = TRUE
  MasterHangs = TRUE
  ClearDB = TRUE
  MaxWrites = 5
  SnapChunks = 2
  MaxFaults = 4
  MaxDepth = 3
SPECIFICATION SafetySpec
INVARIANTS
  TypeOK
  ReplicaConsistent
  ResumeConsistent
PROPERTY
  Refines
