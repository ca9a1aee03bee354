SPECIFICATION Spec
CONSTANTS
  Peers = {"leader", "follower"}
  Sessions = {"s", "t"}
  Conns = {"l1", "l2", "f1"}
  PeerOf <- MCPeerOf
  SessionOf <- MCSessionOf
  Kinds = {"pub"}
  Heartbeaters = {"leader", "follower"}
  NoConn = NoConn
INVARIANTS
  LivePeerReachable
CHECK_DEADLOCK FALSE
