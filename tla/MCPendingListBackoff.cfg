CONSTANTS
  MAX_PACKET_PENDING_LIST = 2
  DWORD_MOD = 64
  PacketNr = {1}
  AckDelay = 2
  MaxAck = 4
  StartTime = {0}
  MaintenancePeriod = 1
  MaxTicks = 11
SPECIFICATION Spec
INVARIANT BackoffGrows
