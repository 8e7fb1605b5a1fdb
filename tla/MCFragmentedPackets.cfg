CONSTANTS
  MAX_PACKETS_IDOFFSET = 11
  NONFRAGMENTED_PACKETS_IDOFFSET = 9
  MAX_FRAGMENTS_PER_PACKET = 3
  MAX_RECEIVED_PACKET_QUEUE = 4
  Body = {a}
  NoPiece = NoPiece
  FRAGMENTATION_MAX_WAIT = 2
  MAX_INCOMPLETE_FRAGMENTED_LIST = 2
  MaxArrivals = 5
SPECIFICATION Spec
INVARIANTS CountIsExact OneListPerGroup KeptListsLackAPiece PostedIsOneMessage
PROPERTIES NoMessageLostOtherwise EventuallyEmpty
