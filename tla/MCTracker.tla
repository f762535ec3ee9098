----------------------------- MODULE MCTracker ------------------------------
(***************************************************************************)
(* Three boots (so up to two unfinished sessions of earlier boots and the  *)
(* active one), two points per session, one point per message (so that a   *)
(* session needs two messages and can fail between them), two passes after *)
(* stop.  A cut save is read back as a session that counts more points     *)
(* than its file has.                                                      *)
(***************************************************************************)
EXTENDS Tracker, TLC

CONSTANTS r1, r2

MisreadFiles == {<< [local |-> 1, remote |-> NoRemote, uploaded |-> MaxPoints + 1] >>}

RemoteSymmetry == Permutations({r1, r2})
=============================================================================
