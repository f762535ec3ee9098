--------------------------- MODULE MCUploadSystem ----------------------------
(***************************************************************************)
(* Two boots and three connections: the second boot reconnects an old      *)
(* session beside its lingering connection and then opens its own.  A      *)
(* third connection with one point per session, fewer with up to three     *)
(* points in all, so that a pass can fail between two messages.  Old       *)
(* sessions are finished without a shutdown, which Tracker's own runs      *)
(* cover, as they do a fix in the middle of the steps of connecting.       *)
(***************************************************************************)
EXTENDS UploadSystemInv

NoShutdown == phase \in {"off", "run"}
FixesBetween == gnss \in {"off", "loop"} \/ upload \in {"off", "wait", "data"}
FewPoints ==
    IF opens = MaxOpens THEN \A b \in 1..boots : points[b] <= 1
    ELSE points[1] + points[2] <= 3

MisreadFiles == {<< [local |-> 1, remote |-> 3, uploaded |-> MaxPoints] >>}

Interesting == ~torn /\ NoShutdown /\ FixesBetween /\ FewPoints
=============================================================================
