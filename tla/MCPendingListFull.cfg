CONSTANTS
  MAX_PACKET_PENDING_LIST = 2
  DWORD_MOD = 64
  PacketNr = {1, 2, 3}
  AckDelay = 2
  MaxAck = 3
  StartTime = {0}
  MaintenancePeriod = 2
  MaxTicks = 9
SPECIFICATION Spec
INVARIANT UnansweredIsPending
