SPECIFICATION FairSpec
CONSTANTS
  Peers = {"peer1", "peer2"}
  PeerOf <- OnePeer
  AllRequests = {"all"}
  ServiceRequests = {"service"}
  TrunkRequests = {"trunk"}
  Rebuilds = {"rebuild"}
  MaxFailures = 1
INVARIANTS
  TypeOK
  RestsWithServices
  OkMeansUpdated
PROPERTY OutcomeIsAnnounced
CHECK_DEADLOCK FALSE
