CONSTANTS
  w1 = w1  w2 = w2
  alice = alice  bob = bob  carol = carol
  call1 = call1  call2 = call2
  atAlice = atAlice  atBob = atBob  atCarol = atCarol
  NoAddr = NoAddr  NoContext = NoContext  NoPacket = NoPacket  NoCall = NoCall
  Workers = {w1, w2}
  Users = {alice, bob}
  CallIds = {call1}
  Addrs = {atAlice, atBob}
  Transport <- AllUdp
  Traffic <- MCTraffic
  MaxPackets = 100
  Caller <- MCCaller
  Callee <- MCCallee
  Home <- MCHome
  Distracted = {}
  MaxRegisters <- MCOneRegister
  MaxDups = 0
  Lossy = FALSE
SYMMETRY WorkerSymmetry
CHECK_DEADLOCK FALSE
SPECIFICATION CallsSpec
INVARIANT
  ResponsesGoBack
