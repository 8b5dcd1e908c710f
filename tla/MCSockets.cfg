CONSTANTS
  m1 = m1
  atAlice = atAlice  atBob = atBob
  NoSocket = NoSocket  NoFd = NoFd  NoConn = NoConn  NoAddr = NoAddr
  Conns = {1, 2}
  OtherSockets = {m1}
  PeerAddrs = {atAlice, atBob}
  Fds = {3, 4}
CHECK_DEADLOCK FALSE
SPECIFICATION FairSpec
INVARIANTS
  TypeOK
  SendsReachPeer
  ReadsOwnConnection
PROPERTIES
  GoneIsClosed
  StopReturns
  ProcessReturns
