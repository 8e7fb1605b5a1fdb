--------------------------- MODULE MCCompletionPort ---------------------------
(* Two posters with two events each, two getters.                            *)
EXTENDS CompletionPort
=============================================================================
