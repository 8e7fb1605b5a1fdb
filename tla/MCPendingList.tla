---------------------------- MODULE MCPendingList ----------------------------
(* Three safe packets, two places in the list, three transmissions each.     *)
EXTENDS PendingList
=============================================================================
