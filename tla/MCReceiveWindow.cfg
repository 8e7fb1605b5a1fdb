CONSTANTS
  MAX_PACKETS_IDOFFSET = 6
  NONFRAGMENTED_PACKETS_IDOFFSET = 4
  MAX_FRAGMENTS_PER_PACKET = 2
  MAX_RECEIVED_PACKET_QUEUE = 4
SPECIFICATION Spec
INVARIANT NoIDTwice
PROPERTY RecentSpec
