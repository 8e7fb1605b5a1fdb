CONSTANTS
  MAX_PACKETS_IDOFFSET = 8
  NONFRAGMENTED_PACKETS_IDOFFSET = 4
  MAX_FRAGMENTS_PER_PACKET = 2
  MAX_RECEIVED_PACKET_QUEUE = 4
  Body <- MCBody
  NoPiece = NoPiece
  FRAGMENTATION_MAX_WAIT = 2
  MAX_INCOMPLETE_FRAGMENTED_LIST = 1
  MAX_PACKET_PENDING_LIST = 2
  DWORD_MOD = 64
  Endpoint = {"A", "B"}
  Msg = {"m0", "m1", "m2"}
  MsgFrom <- From
  MsgPieces <- FirstTwoCut
  MsgMaxAck <- NoneSafe
  AckDelay = 1
  PACKET_BACKLOG_TIMEOUT = 3
  MaxTransit = 1
  NetworkDuplicates = FALSE
  MaxLosses = 1
  SendAges = {0, 1, 2, 3, 4, 5}
SPECIFICATION Spec
INVARIANT OnlySentMessages
CHECK_DEADLOCK FALSE
