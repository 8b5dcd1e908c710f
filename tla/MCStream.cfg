CONSTANTS
  Calls = {"c1", "c2"}
  Streams <- MCStreams
  ChunkSizes = {11, 100}
  Lower <- MCLower
  CallerTypes <- MCCallerTypes
  CalleeTypes <- MCCalleeTypes
  Datagrams <- MCDatagrams
  Tokens = {}
  MaxNumber = 9
  MaxPackets = 2
CHECK_DEADLOCK FALSE
SPECIFICATION FairSpec
INVARIANTS
  JourneyTypeOK
  CalleeSeesWhatWasTyped
  CallerSeesTheAnswer
  LengthIsAccurate
PROPERTIES
  StreamsAreChannels
  EveryCallAnswered
