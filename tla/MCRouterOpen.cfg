CONSTANTS
  w1 = w1  w2 = w2
  alice = alice  bob = bob
  call1 = call1
  atAlice = atAlice  atBob = atBob  atOther = atOther
  NoAddr = NoAddr  NoContext = NoContext  NoPacket = NoPacket
  Workers = {w1, w2}
  Users = {alice, bob}
  CallIds = {call1}
  Addrs = {atAlice, atBob, atOther}
  Transport <- MCTransport
  Traffic <- MCAllTraffic
  MaxPackets = 5
SYMMETRY WorkerSymmetry
CHECK_DEADLOCK FALSE
SPECIFICATION Spec
INVARIANTS
  TypeOK
  GaugeFloor
  RelayToParties
  InitIsTransient
PROPERTIES
  SessionsMoveForward
