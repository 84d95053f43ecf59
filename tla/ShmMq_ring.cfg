SPECIFICATION MCFairSpec
CONSTANTS
  RingSize = 8
  Length = {1, 6}
  MaxMsgs = 2
INVARIANTS
  UnreadIntact
  NoLostWakeup
PROPERTIES
  ChannelSpec
  CallsReturn
