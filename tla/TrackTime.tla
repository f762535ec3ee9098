------------------------------ MODULE TrackTime ------------------------------
(***************************************************************************)
(* The time of a track point on its way from the GNSS fix to the server's  *)
(* row.  Everywhere but in memory a point has a 3 byte offset, and each    *)
(* place has a start of its own to count from: the card the first fix, a   *)
(* connection the start it was opened with, the buffer file the time of    *)
(* the registration, the row its first point                               *)
(* (trip_tracker_lib/src/track_point.rs).  A time has a fraction of a      *)
(* second, a written start and an offset have none.                        *)
(*                                                                         *)
(* One session of the device and its server session.  The clocks agree:    *)
(* the server's at the registration is not behind the first fix.  A point  *)
(* is its number on the card; its position and speed are left out.  A      *)
(* message is one point.  What a connection loses is what its handler      *)
(* never reads, so there is no action for it.                              *)
(***************************************************************************)
EXTENDS Integers, Sequences

CONSTANTS
    Offsets,        \* 2^24, the values of 3 bytes
    Fractions,      \* of a second, by size: the code has 10^9
    MaxTime,        \* bound: seconds
    MaxFixes,       \* bound: points on the card
    MaxPoints,      \* bound: points stored by the server
    MaxConns,       \* bound: connections between two restarts of the server
    MaxRestarts     \* bound: restarts of the server

ASSUME OffsetsAssumption == Offsets \in Nat \ {0}
ASSUME FractionsAssumption == Fractions \subseteq Nat /\ 0 \in Fractions
ASSUME BoundsAssumption == {MaxTime, MaxFixes, MaxPoints, MaxConns, MaxRestarts} \subseteq Nat

VARIABLES
    now,
    fixes,          \* the times of the points on the card
    card,           \* StorageService.start_time, and the offsets in SESSION.TSF
    uploaded,       \* points counted as uploaded
    goal,           \* track_point_count of the visit the upload actor is in
    sent,           \* points up to which it has sent
    conns,          \* connections: the handler's timestamp and the unread messages
    registered,     \* start_time of the server session's row, Never before
    active,         \* the row's flag
    memory,         \* Buffer.track_points
    bufferStart,    \* Buffer.start_time
    file,           \* the offsets in the buffer file
    row,            \* the row's TSF blob
    restarts

cardVars == <<fixes, card>>
uploadVars == <<uploaded, goal, sent>>
storeVars == <<active, memory, bufferStart, file, row>>
vars == <<now, cardVars, uploadVars, conns, registered, storeVars, restarts>>

-----------------------------------------------------------------------------
\* Times

Time(sec, frac) == [sec |-> sec, frac |-> frac]
Never == Time(-1, 0)
Moments == [sec : 0..MaxTime, frac : Fractions]
Earlier(a, b) == a.sec < b.sec \/ (a.sec = b.sec /\ a.frac < b.frac)

\* timestamp(): what is written of a start
Whole(time) == Time(time.sec, 0)

\* (a - b).num_seconds(), towards zero
NumSeconds(a, b) ==
    CASE a.sec > b.sec /\ a.frac < b.frac -> a.sec - b.sec - 1
      [] a.sec < b.sec /\ a.frac > b.frac -> a.sec - b.sec + 1
      [] OTHER -> a.sec - b.sec

-----------------------------------------------------------------------------
\* The codec

\* The low three bytes of the difference, and the bytes taken as unsigned.
ToBytes(time, start) == NumSeconds(time, start) % Offsets
FromBytes(offset, start) == Time(start.sec + offset, start.frac)

\* Points as [point, time], bytes as [point, offset].
Encode(points, start) ==
    [i \in DOMAIN points |->
        [point |-> points[i].point, offset |-> ToBytes(points[i].time, start)]]
Decode(bytes, start) ==
    [i \in DOMAIN bytes |->
        [point |-> bytes[i].point, time |-> FromBytes(bytes[i].offset, start)]]

\* A row holds nothing or a TSF; without points the start does not matter.
NoRow == [start |-> Time(0, 0), bytes |-> <<>>]
WriteTsf(points) ==
    IF points = <<>> THEN NoRow
    ELSE [start |-> Whole(points[1].time), bytes |-> Encode(points, points[1].time)]
ParseTsf(tsf) == Decode(tsf.bytes, tsf.start)

-----------------------------------------------------------------------------
Init ==
    /\ now = Time(0, 0)
    /\ fixes = <<>> /\ card = [start |-> now, bytes |-> <<>>]
    /\ uploaded = 0 /\ goal = 0 /\ sent = 0
    /\ conns = <<>> /\ registered = Never
    /\ active = FALSE /\ memory = <<>> /\ bufferStart = Never /\ file = <<>>
    /\ row = NoRow
    /\ restarts = 0

Tick ==
    /\ now' \in Moments /\ Earlier(now, now')
    /\ UNCHANGED <<cardVars, uploadVars, conns, registered, storeVars, restarts>>

\* A fix with a new timestamp: the first one sets the start, each is appended.  The
\* offsets count from the start with its fraction.
Fix ==
    /\ \A i \in DOMAIN fixes : fixes[i] # now
    /\ Len(fixes) < MaxFixes
    /\ fixes' = Append(fixes, now)
    /\ LET start == IF fixes = <<>> THEN now ELSE card.start
       IN card' = [start |-> start,
                   bytes |-> Append(card.bytes, [point |-> Len(fixes'),
                                                 offset |-> ToBytes(now, start)])]
    /\ UNCHANGED <<now, uploadVars, conns, registered, storeVars, restarts>>

\* A connection whose handler counts from timestamp, and the visit that opens it.
Open(timestamp) ==
    /\ Len(conns) < MaxConns
    /\ conns' = Append(conns, [timestamp |-> timestamp, unread |-> <<>>])
    /\ goal' = Len(fixes) /\ sent' = uploaded

\* A fresh session: the handler keeps the start as the tracker sends it, the row and
\* the buffer the server's time.
ConnectFresh ==
    /\ registered = Never /\ fixes # <<>>
    /\ Open(Whole(card.start))
    /\ registered' = now /\ bufferStart' = now /\ active' = TRUE
    /\ UNCHANGED <<now, cardVars, uploaded, memory, file, row, restarts>>

\* A reconnect, after an error or in a later pass: the handler takes start_time from
\* the session.  What was sent but not counted is sent again.
Reconnect ==
    /\ registered # Never
    /\ Open(registered)
    /\ UNCHANGED <<now, cardVars, uploaded, registered, storeVars, restarts>>

\* upload_data: the next message of the visit, on the newest connection
Send ==
    /\ conns # <<>> /\ sent < goal
    /\ conns' = [conns EXCEPT ![Len(conns)].unread = Append(@, card.bytes[sent + 1])]
    /\ sent' = sent + 1
    /\ UNCHANGED <<now, cardVars, uploaded, goal, registered, storeVars, restarts>>

\* add_uploaded: a visit counts when its last message is sent.
Count ==
    /\ conns # <<>> /\ sent = goal /\ uploaded # goal
    /\ uploaded' = goal
    /\ UNCHANGED <<now, cardVars, goal, sent, conns, registered, storeVars, restarts>>

\* The next visit finds the session connected.
Visit ==
    /\ conns # <<>> /\ uploaded = goal /\ goal < Len(fixes)
    /\ goal' = Len(fixes)
    /\ UNCHANGED <<now, cardVars, uploaded, sent, conns, registered, storeVars, restarts>>

\* The handler of a connection, be it the newest or not, reads and stores a message.
Store(c) ==
    LET tp == Decode(<<Head(conns[c].unread)>>, conns[c].timestamp)
    IN /\ conns[c].unread # <<>>
       /\ Len(memory) + Len(row.bytes) < MaxPoints
       /\ IF active
          THEN /\ memory' = memory \o tp
               /\ file' = file \o Encode(tp, bufferStart)
               /\ UNCHANGED row
          ELSE /\ row' = WriteTsf(ParseTsf(row) \o tp)
               /\ UNCHANGED <<memory, file>>
       /\ conns' = [conns EXCEPT ![c].unread = Tail(@)]
       /\ UNCHANGED <<now, cardVars, uploadVars, registered, active, bufferStart, restarts>>

\* Mutant: the row counts from the registration, as the buffer file does.
MutEndSession ==
    /\ active
    /\ row' = [start |-> Whole(registered), bytes |-> Encode(memory, registered)]
    /\ memory' = <<>> /\ file' = <<>> /\ active' = FALSE
    /\ UNCHANGED <<now, cardVars, uploadVars, conns, registered, bufferStart, restarts>>

\* close_session, set_session_track_points and set_session_active
EndSession ==
    /\ active
    /\ row' = WriteTsf(memory)
    /\ memory' = <<>> /\ file' = <<>> /\ active' = FALSE
    /\ UNCHANGED <<now, cardVars, uploadVars, conns, registered, bufferStart, restarts>>

\* Mutant: the first offset is taken for the start.
MutRestart ==
    /\ restarts < MaxRestarts
    /\ restarts' = restarts + 1
    /\ conns' = <<>>
    /\ bufferStart' = FromBytes(1, Whole(registered)) /\ memory' = Decode(file, bufferStart')
    /\ UNCHANGED <<now, cardVars, uploadVars, registered, active, file, row>>

\* The server starts again, without its connections, and loads the buffer files,
\* whose header has no fraction.
Restart ==
    /\ restarts < MaxRestarts
    /\ restarts' = restarts + 1
    /\ conns' = <<>>
    /\ bufferStart' = Whole(registered) /\ memory' = Decode(file, bufferStart')
    /\ UNCHANGED <<now, cardVars, uploadVars, registered, active, file, row>>

Next ==
    \/ Tick \/ Fix \/ ConnectFresh \/ Reconnect
    \/ Send \/ Count \/ Visit
    \/ (\E c \in DOMAIN conns : Store(c))
    \/ EndSession \/ Restart

Spec == Init /\ [][Next]_vars

-----------------------------------------------------------------------------
\* Properties

\* What a reader of the session gets
Points == IF active THEN memory ELSE ParseTsf(row)

\* What a reconnect adds to the times, and by how many seconds a stored time is off
Drift == registered.sec - card.start.sec
Error(p) == p.time.sec - fixes[p.point].sec

\* Whatever is reconnected, sent again, read late, ended and restarted, a stored time
\* is off by at most two seconds that are lost with fractions, one on the card and one
\* in the buffer file or the row, or by the seconds between first fix and registration
\* and at most one beside them, up to whole ranges of the offset: no two reconnects,
\* restarts or messages add up.
Errors == {-2, -1, 0} \cup {Drift - 1, Drift, Drift + 1}
KnownErrors ==
    \A i \in DOMAIN Points : \E e \in Errors : Error(Points[i]) % Offsets = e % Offsets

\* What an offset keeps of a time that is not before the start it counts from: whole
\* seconds, one less if the start is later in its second.
Kept(time, start) ==
    Time(IF time.frac < start.frac THEN time.sec - 1 ELSE time.sec, 0)

\* Ending a session before any restart takes their fraction from its points, and a
\* second from those with a smaller one than the first point's, and moves no point
\* otherwise that is not before the first one, which a late handler can store.
EndKeepsLater ==
    [][active /\ ~active' /\ restarts = 0 =>
        /\ Len(Points') = Len(Points)
        /\ \A i \in DOMAIN Points :
              LET p == Points[i]
                  first == Points[1].time
              IN ~Earlier(p.time, first) =>
                    Points'[i] = [point |-> p.point, time |-> Kept(p.time, first)]]_vars

\* "3 byte timestamp (seconds since session start). Up to ~200 days"
\* (track_point.rs:38): a point of a session of less than that has the time of its
\* fix, but for the fractions.  Violated by a reconnect, whose handler counts from the
\* registration.
TimesTrue == \A i \in DOMAIN Points : Error(Points[i]) \in -2..0
=============================================================================
