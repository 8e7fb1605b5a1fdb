------------------------- MODULE MCFragmentedPackets -------------------------
(* Three groups compete for two places; up to three pieces per message.      *)
EXTENDS FragmentedPackets
=============================================================================
