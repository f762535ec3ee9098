--------------------------- MODULE MCSessionStore ---------------------------
(***************************************************************************)
(* Two tracker connections, one web request and the CLI at once on two     *)
(* sessions.  The points alternate between two countries, so a list that   *)
(* was overwritten can be completed again.                                 *)
(***************************************************************************)
EXTENDS SessionStoreInv

CONSTANTS h1, h2, w1, dk, tr

HandlerSymmetry == Permutations({h1, h2})

\* What goes wrong and what is commanded, together
FewEvents == faults + commands <= 2

\* A reader changes nothing, and once something disturbs it is promised nothing.
QuietReaders == disturbed => \A r \in Readers : At(r, "idle")

CountryOfPoint == [p \in 1..MaxPoints |-> IF p % 2 = 1 THEN dk ELSE tr]
=============================================================================
