CONSTANTS
  MAX_PACKETS_IDOFFSET = 6
  NONFRAGMENTED_PACKETS_IDOFFSET = 4
  MAX_FRAGMENTS_PER_PACKET = 2
  MAX_RECEIVED_PACKET_QUEUE = 2
  Handler = {handler}
  Maintenance = maintenance
  Sender = {ui, callback}
  UI = ui
  Nobody = Nobody
  Last = 1
  Conn = {c1, c2, c3}
  Null = Null
  Absent = Absent
  MaxSends = 2
  MaxExpired = 1
SPECIFICATION Spec
INVARIANT UsedIsLive
CHECK_DEADLOCK FALSE
