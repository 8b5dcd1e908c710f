CONSTANTS
  p1 = p1  p2 = p2  p3 = p3
  w1 = w1  w2 = w2
  NoItem = NoItem
  Packets = {p1, p2, p3}
  Workers = {w1, w2}
  TcpEnabled = TRUE
SPECIFICATION FairSpec
INVARIANTS
  TypeOK
  InOrder
  NoIdleWorker
PROPERTIES
  ServiceKept
  AllHandled
  StopReturns
