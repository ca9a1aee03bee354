SPECIFICATION FairSpec
CONSTANTS
  Peers = {"leader", "follower"}
  Sessions = {"s", "t"}
  Conns = {"l1", "l2", "f1"}
  PeerOf <- MCPeerOf
  SessionOf <- MCSessionOf
  Kinds = {"offer"}
  Heartbeaters = {"follower"}
  NoConn = NoConn
INVARIANTS
  TypeOK
  NoGhosts
  SoleIsReachable
  Rendezvous
PROPERTIES
  FarewellIsHeard
CHECK_DEADLOCK FALSE
