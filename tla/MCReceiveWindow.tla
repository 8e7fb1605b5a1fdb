--------------------------- MODULE MCReceiveWindow ---------------------------
(* ReceiveWindow with a ring of four slots and seven identifiers.           *)
EXTENDS ReceiveWindow
=============================================================================
