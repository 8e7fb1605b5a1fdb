CONSTANTS
  MAX_PACKET_PENDING_LIST = 2
  DWORD_MOD = 16
  PacketNr = {1, 2, 3}
  AckDelay = 2
  MaxAck = 3
  StartTime = {14}
  MaintenancePeriod = 2
  MaxTicks = 11
SPECIFICATION Spec
INVARIANT DelayIsKept
