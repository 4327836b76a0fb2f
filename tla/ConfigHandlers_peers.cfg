SPECIFICATION Spec
CONSTANTS
  Peers = {"peer1", "peer2"}
  PeerOf <- TwoPeers
  AllRequests = {}
  ServiceRequests = {"service"}
  TrunkRequests = {}
  Rebuilds = {}
  MaxFailures = 0
INVARIANT UpdatesOnlyItsPeer
CHECK_DEADLOCK FALSE
