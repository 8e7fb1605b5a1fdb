---------------------------- MODULE MCLoginSession ----------------------------
(* Two sessions, up to three replies in each.                                *)
EXTENDS LoginSession
=============================================================================
