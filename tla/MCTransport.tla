----------------------------- MODULE MCTransport -----------------------------
(* Two endpoints.  Which messages there are is chosen by each configuration. *)
EXTENDS Transport

MCBody == [msg : Msg, piece : PieceIndex]

\* m1 and m2 go from "A" to "B", m3 comes back.
From == [m \in Msg |-> IF m = "m3" THEN "B" ELSE "A"]

AllWhole == [m \in Msg |-> 1]
FirstCut == [m \in Msg |-> IF m = "m1" THEN 2 ELSE 1]
FirstTwoCut == [m \in Msg |-> IF m \in {"m1", "m2"} THEN 2 ELSE 1]

NoneSafe == [m \in Msg |-> 0]
AllTwice == [m \in Msg |-> 2]
FirstManyTimes == [m \in Msg |-> IF m = "m1" THEN 6 ELSE 0]
AllCut == [m \in Msg |-> 2]
TwoSafe == [m \in Msg |-> IF m = "m1" THEN 2 ELSE IF m = "m2" THEN 1 ELSE 0]
FirstTwice == [m \in Msg |-> IF m = "m1" THEN 2 ELSE 0]
=============================================================================
