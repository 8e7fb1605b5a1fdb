----------------------------- MODULE MCCommThreads -----------------------------
(* Instances of CommThreads. *)
EXTENDS CommThreads, TLC

=============================================================================
