------------------------------ MODULE LiveView ------------------------------
(***************************************************************************)
(* The page that shows a trip (frontend/src/main.rs): it loads the trip's  *)
(* sessions once, all at the same time, and then asks every six seconds    *)
(* for the sessions it does not have and, one after the other, for what is *)
(* new in the active ones.  The server (server/src/main.rs) thins both out *)
(* to one point in six.                                                    *)
(*                                                                         *)
(* The store is TripStore, which SessionStore implements: get_session is   *)
(* one read of it or fails (ReadComplete), get_session_update reads twice. *)
(* A point is its time in half seconds, the half for any fraction; its     *)
(* second is also its place.  The fraction is that of the handler: none on *)
(* a fresh connection, which has the tracker's start, and that of the      *)
(* registration on every later one.  Left out are the other errors of a    *)
(* time (TrackTime), restarts of the server among them, titles, the trip,  *)
(* hidden sessions, and a page that never loads.                           *)
(***************************************************************************)
EXTENDS Naturals, SequencesExt

CONSTANTS
    Step,           \* 6 of step_by
    MaxSessions,    \* bound: sessions of the trip
    MaxTime,        \* bound: seconds of points
    MaxReconnects,  \* bound: times the tracker reconnects
    MaxShown        \* bound: points of a session for which the page still asks

ASSUME StepAssumption == Step \in Nat \ {0}
ASSUME BoundsAssumption == {MaxSessions, MaxTime, MaxReconnects, MaxShown} \subseteq Nat

VARIABLES
    sessions,       \* the store's
    next,           \* the second of the point the tracker sends next
    fraction,       \* of the handler the tracker is connected to
    reconnects,
    atEnd,          \* points a session had when it ended
    round,          \* "start", then "load", then "poll"
    todo,           \* sessions the loop has yet to ask for
    requests,       \* requests under way, by session
    page            \* trip_data.sessions, by session

trackerVars == <<next, fraction, reconnects>>
storeVars == <<sessions, trackerVars, atEnd>>
pageVars == <<round, todo, requests, page>>
vars == <<storeVars, pageVars>>

-----------------------------------------------------------------------------
Store == INSTANCE TripStore WITH Batches <- {}, disturbed <- FALSE

Ids == 1..MaxSessions

\* A time without its fraction
Whole(time) == 2 * (time \div 2)

\* A row has whole seconds (write_tsf).  The first point never has a fraction that a
\* later one has not, so no time loses more than its own.
RowTimes(points) == [i \in DOMAIN points |-> Whole(points[i])]

\* What a reader gets: the points of the buffer, or those of the row
Read(id) == IF sessions[id].live THEN sessions[id].points ELSE RowTimes(sessions[id].points)

\* Mutant: the last point of every Step, not the first.
MutThinned(points) == [i \in 1..(Len(points) \div Step) |-> points[i * Step]]

\* step_by(Step)
Thinned(points) ==
    [i \in 1..((Len(points) + Step - 1) \div Step) |-> points[(i - 1) * Step + 1]]

\* Mutant: the point the page has is not skipped.
MutSince(points, time) ==
    LET first == SelectInSeq(points, LAMBDA point : point >= time)
    IN IF first = 0 THEN <<>> ELSE SubSeq(points, first, Len(points))

\* skip_while: from the first point that is later
Since(points, time) ==
    LET first == SelectInSeq(points, LAMBDA point : point > time)
    IN IF first = 0 THEN <<>> ELSE SubSeq(points, first, Len(points))

\* The points of some indices, in their order
At(points, indices) ==
    LET place(i) == Cardinality({j \in indices : j <= i})
    IN [n \in 1..Cardinality(indices) |-> points[CHOOSE i \in indices : place(i) = n]]

\* filter_anomalies: never the first and the last point, no place twice, and of the
\* others those that the geometry keeps.
Filtered(points) ==
    IF Len(points) < 3 THEN {points}
    ELSE {Thinned(kept) :
            kept \in {At(points, indices) : indices \in
                        {I \in SUBSET (2..(Len(points) - 1)) :
                            IsInjective(At(RowTimes(points), I))}}}

\* The time the page asks from: timestamp() of its last point
LastTime(points) == IF points = <<>> THEN 0 ELSE Whole(Last(points))

-----------------------------------------------------------------------------
Init ==
    /\ Store!Init
    /\ next = [id \in Ids |-> 1] /\ fraction = [id \in Ids |-> 0] /\ reconnects = 0
    /\ atEnd = [id \in Ids |-> 0]
    /\ round = "start" /\ todo = {} /\ requests = <<>> /\ page = <<>>

Register ==
    /\ Len(sessions) < MaxSessions
    /\ Store!Register
    /\ UNCHANGED <<trackerVars, atEnd, pageVars>>

\* Also to a session that has ended: a handler may come late with its points.
AppendPoint(id) ==
    /\ next[id] <= MaxTime
    /\ Store!AppendPoints(id, <<2 * next[id] + fraction[id]>>)
    /\ next' = [next EXCEPT ![id] = @ + 1]
    /\ UNCHANGED <<fraction, reconnects, atEnd, pageVars>>

\* The tracker goes on, or starts again with points the server has, on a connection
\* whose handler counts from the registration.
Reconnect(id) ==
    /\ reconnects < MaxReconnects
    /\ reconnects' = reconnects + 1
    /\ \E second \in 1..next[id] : next' = [next EXCEPT ![id] = second]
    /\ fraction' = [fraction EXCEPT ![id] = 1]
    /\ UNCHANGED <<sessions, atEnd, pageVars>>

EndSession(id) ==
    /\ Store!End(id)
    /\ atEnd' = [atEnd EXCEPT ![id] = Len(sessions[id].points)]
    /\ UNCHANGED <<trackerVars, pageVars>>

-----------------------------------------------------------------------------
Asked(kind, since) ==
    [at |-> "asked", kind |-> kind, since |-> since, active |-> FALSE,
     points |-> <<>>]

Answered(id, active, points) ==
    requests' = [requests EXCEPT ![id] =
        [@ EXCEPT !.at = "answered", !.active = active, !.points = points]]

Waiting(id, at) == id \in DOMAIN requests /\ requests[id].at = at

\* load_trip_data: all sessions at once
Load ==
    /\ round = "start"
    /\ round' = "load"
    /\ requests' = [id \in DOMAIN sessions |-> Asked("session", 0)]
    /\ UNCHANGED <<storeVars, todo, page>>

\* get_session, on the server
GetSession(id) ==
    /\ Waiting(id, "asked") /\ requests[id].kind = "session"
    /\ \E points \in Filtered(Read(id)) :
           Answered(id, sessions[id].live, points)
    /\ UNCHANGED <<storeVars, round, todo, page>>

\* get_session_update first reads the session, but keeps only whether it is active,
GetUpdate(id) ==
    /\ Waiting(id, "asked") /\ requests[id].kind = "update"
    /\ requests' = [requests EXCEPT ![id].at = "checked", ![id].active = sessions[id].live]
    /\ UNCHANGED <<storeVars, round, todo, page>>

\* and then the points of its buffer or of its row.
ReadSince(id) ==
    /\ Waiting(id, "checked")
    /\ requests[id].active => sessions[id].live
    /\ Answered(id, requests[id].active,
                Thinned(Since(Read(id), requests[id].since)))
    /\ UNCHANGED <<storeVars, round, todo, page>>

Drop(id) == requests' = [other \in DOMAIN requests \ {id} |-> requests[other]]

\* The buffer is gone: the answer is NOT_FOUND, and the page waits for the next round.
NoBuffer(id) ==
    /\ Waiting(id, "checked") /\ requests[id].active /\ ~sessions[id].live
    /\ Drop(id)
    /\ UNCHANGED <<storeVars, round, todo, page>>

\* A request fails on the network or in the database.
Fail(id) ==
    /\ id \in DOMAIN requests
    /\ Drop(id)
    /\ UNCHANGED <<storeVars, round, todo, page>>

\* The page shows what of the first round was answered; its own filter_anomalies
\* (frontend/src/util.rs) returns a session as it is.
Loaded ==
    /\ round = "load" /\ \A id \in DOMAIN requests : requests[id].at = "answered"
    /\ round' = "poll" /\ requests' = <<>>
    /\ page' = [id \in DOMAIN requests |->
                   [points |-> requests[id].points, again |-> {},
                    active |-> requests[id].active]]
    /\ UNCHANGED <<storeVars, todo>>

\* The loop wakes up and fetches the list; it asks for the sessions the page does
\* not have and for those it takes for active.
Poll ==
    /\ round = "poll" /\ todo = {} /\ requests = <<>>
    /\ todo' = {id \in DOMAIN sessions :
                   id \in DOMAIN page =>
                       page[id].active /\ Len(page[id].points) < MaxShown}
    /\ UNCHANGED <<storeVars, round, requests, page>>

Ask(id) ==
    /\ round = "poll" /\ requests = <<>> /\ id \in todo
    /\ todo' = todo \ {id}
    /\ requests' = [asked \in {id} |->
           IF id \in DOMAIN page THEN Asked("update", LastTime(page[id].points))
                                ELSE Asked("session", 0)]
    /\ UNCHANGED <<storeVars, round, page>>

\* A session of the page with the points of an answer behind its own.  A last point
\* that comes again, as it may at every poll, is kept apart: the page stays finite.
Extended(shown, points, active) ==
    IF shown.points # <<>> /\ points # <<>> /\ Head(points) = Last(shown.points)
    THEN [points |-> shown.points \o Tail(points),
          again |-> shown.again \cup {Head(points)}, active |-> active]
    ELSE [points |-> shown.points \o points, again |-> shown.again, active |-> active]

Update(id, active) ==
    LET old == IF id \in DOMAIN page THEN page[id]
               ELSE [points |-> <<>>, again |-> {}, active |-> FALSE]
    IN page' = [other \in DOMAIN page \cup {id} |->
                   IF other = id THEN Extended(old, requests[id].points, active)
                   ELSE page[other]]

\* Mutant: whether the session is active is asked after its points are read.
MutShow(id) ==
    /\ round = "poll" /\ Waiting(id, "answered")
    /\ Update(id, sessions[id].live)
    /\ requests' = <<>>
    /\ UNCHANGED <<storeVars, round, todo>>

\* The page appends an update to what it has; a new session is shown as it is.
Show(id) ==
    /\ round = "poll" /\ Waiting(id, "answered")
    /\ Update(id, requests[id].active)
    /\ requests' = <<>>
    /\ UNCHANGED <<storeVars, round, todo>>

Server(id) == GetSession(id) \/ GetUpdate(id) \/ ReadSince(id) \/ NoBuffer(id)

Next ==
    \/ Register \/ Load \/ Loaded \/ Poll
    \/ \E id \in Ids :
        \/ AppendPoint(id) \/ Reconnect(id) \/ EndSession(id)
        \/ Server(id) \/ Fail(id) \/ Ask(id) \/ Show(id)

Spec == Init /\ [][Next]_vars

\* The page's loop goes on, and a request that is made again and again succeeds in
\* the end at each of its stages, for the loop has no other way out of a failure.
\* Nothing is assumed of the tracker.
FairSpec ==
    /\ Spec
    /\ WF_vars(Load) /\ WF_vars(Loaded) /\ WF_vars(Poll)
    /\ \A id \in Ids :
        /\ WF_vars(NoBuffer(id))
        /\ SF_vars(Ask(id)) /\ SF_vars(Show(id))
        /\ SF_vars(GetSession(id)) /\ SF_vars(GetUpdate(id)) /\ SF_vars(ReadSince(id))

-----------------------------------------------------------------------------
\* Properties

Ascends(points) == \A i, j \in DOMAIN points : i < j => points[i] < points[j]
InOrder(id) == id \in DOMAIN sessions => Ascends(RowTimes(sessions[id].points))
Fractional(time) == time # Whole(time)

\* The points, of the first n stored, of later seconds than the last of those shown.
Missing(id, n, shown) == {i \in 1..n : Whole(sessions[id].points[i]) > LastTime(shown)}

\* While a session's points come in the order of their seconds, the page shows none
\* out of order, and none again but its last one, if that has the fraction of a
\* reconnected handler: it is later than the whole second the page asks from.  This
\* is so whatever is loaded, thinned out, asked for again and appended between the two
\* reads of an update.
ShownOnce ==
    \A id \in DOMAIN page : InOrder(id) =>
        /\ Ascends(page[id].points)
        /\ \A time \in page[id].again : Fractional(time)

\* The update after which the page no longer asks for a session leaves out the points
\* of fewer than Step seconds at its end: the page never takes a session for ended and
\* misses what was stored before it ended.
EndedTail ==
    [][\A id \in DOMAIN page :
        page[id].active /\ ~page'[id].active /\ InOrder(id)
            => Cardinality(Missing(id, atEnd[id], page'[id].points)) < Step]_vars

\* Thinning does not keep the page behind: once no more points come, polling gets it
\* to the last point of a session that stays active, or to a point with a fraction and
\* fewer than Step points behind it, for then the update is that point alone; and the
\* page learns of the end of a session that does not stay active.
CatchesUp ==
    \A id \in Ids :
        [](InOrder(id)) =>
            <>[](id \in DOMAIN sessions =>
                    /\ id \in DOMAIN page
                    /\ page[id].active = sessions[id].live
                    /\ page[id].active =>
                        LET shown == page[id].points
                            missing == Missing(id, Len(sessions[id].points), shown)
                        IN \/ missing = {}
                           \/ /\ shown # <<>> /\ Fractional(Last(shown))
                              /\ Cardinality(missing) < Step)
=============================================================================
