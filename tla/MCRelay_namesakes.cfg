SPECIFICATION Spec
CONSTANTS
  Peers = {"leader", "follower"}
  Sessions = {"s", "t"}
  Conns = {"l1", "f1", "g1"}
  PeerOf <- MCPeerOf
  SessionOf <- MCSessionOf
  Kinds = {"pub"}
  Heartbeaters = {"leader", "follower"}
  NoConn = NoConn
INVARIANTS
  PublishStaysInSession
CHECK_DEADLOCK FALSE
