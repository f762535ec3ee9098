----------------------------- MODULE TripStore ------------------------------
(***************************************************************************)
(* What the server's data manager promises the connections: track sessions *)
(* numbered in the order they are registered, to which points are only     *)
(* ever appended, and which end once.  Every operation is one step.        *)
(* SessionStore implements it with a database, a map of buffers and their  *)
(* files, as long as nothing disturbs it.                                  *)
(***************************************************************************)
EXTENDS Naturals, SequencesExt

CONSTANT Batches        \* the sequences of points one message can bring

VARIABLES
    sessions,
    disturbed       \* from then on nothing is promised here

vars == <<sessions, disturbed>>

Init == sessions = <<>> /\ disturbed = FALSE

Register == sessions' = Append(sessions, [live |-> TRUE, points |-> <<>>])

\* The CLI adds a session that has ended, with the points of others.
Import ==
    /\ Len(sessions') = Len(sessions) + 1
    /\ IsPrefix(sessions, sessions')
    /\ ~Last(sessions').live

AppendPoints(id, batch) ==
    /\ id \in DOMAIN sessions
    /\ sessions' = [sessions EXCEPT ![id].points = @ \o batch]

End(id) ==
    /\ id \in DOMAIN sessions /\ sessions[id].live
    /\ sessions' = [sessions EXCEPT ![id].live = FALSE]

Operation ==
    \/ Register \/ Import
    \/ \E id \in DOMAIN sessions :
        End(id) \/ \E batch \in Batches : AppendPoints(id, batch)

Next ==
    \/ disturbed' = TRUE
    \/ UNCHANGED disturbed /\ Operation

Spec == Init /\ [][Next]_vars
=============================================================================
