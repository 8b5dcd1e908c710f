CONSTANTS
  dialed = dialed  offered = offered
  NoCall = NoCall
  Outgoing = {dialed}
  Incoming = {offered}
  MaxAttempts = 2
  MaxPackets = 4
SPECIFICATION FairSpec
INVARIANTS
  TypeOK
  SnapshotAgrees
  ButtonsCatchUp
PROPERTIES
  RegisterReturns
  RegisterButtonReturns
