---------------------------- MODULE SessionStore ----------------------------
(***************************************************************************)
(* The data management of the server: the TrackSessions table, the map of  *)
(* buffers of the live sessions and the buffer files, and the operations   *)
(* of DataManager that several tokio tasks run at once.  An operation is   *)
(* cut at its awaits: each database query is a step, and so is each        *)
(* critical section of the buffer map's mutex.  The CLI works on the table *)
(* from a process of its own.                                              *)
(*                                                                         *)
(* A point is a number, given out in the order the points arrive.          *)
(***************************************************************************)
EXTENDS Integers, Sequences, Functions, SequencesExt, TLC

CONSTANTS
    Handlers,       \* tasks that serve a tracker connection
    Readers,        \* tasks that serve a web request
    Cli,            \* the process of the CLI
    Country,        \* get_country(): a function from the points
    NoCountry,
    MaxSessions,    \* bound: sessions the trackers register
    MaxPoints,      \* bound: points that arrive
    MaxFaults,      \* bound: restarts of the server and failed accesses
    MaxCommands     \* bound: commands of the CLI

ASSUME StoreAssumption ==
    /\ {MaxSessions, MaxPoints, MaxFaults, MaxCommands} \subseteq Nat
    /\ Handlers \cap Readers = {} /\ Cli \notin Handlers \cup Readers
    /\ DOMAIN Country = 1..MaxPoints

Tasks == Handlers \cup Readers \cup {Cli}

VARIABLES
    rows,           \* TrackSessions, indexed by session_id
    countries,      \* country_list of the trip
    buffers,        \* buffer_map: session_id -> track_points
    files,          \* the points in the buffer files, by session_id
    torn,           \* the files whose length is not that of a header and points
    up,             \* does the server run?
    task,           \* where each task is in its operation
    known,          \* the session ids that were sent to a tracker
    stored,         \* the points whose append returned Ok, by session_id
    lastPoint, faults, commands,
    disturbed,      \* has one of the things happened that the properties name?
    overlapped      \* have two writes of the country list overlapped?

tableVars == <<rows, countries>>
bufferVars == <<buffers, files, torn, up>>
boundVars == <<lastPoint, faults, commands>>
ghostVars == <<stored, disturbed, overlapped>>
vars == <<tableVars, bufferVars, task, known, boundVars, ghostVars>>

Idle == [pc |-> "idle", id |-> 0, points |-> <<>>, noted |-> {},
         active |-> FALSE, list |-> {}]

At(t, pc) == task[t].pc = pc
Id(t) == task[t].id
GoTo(t, pc, id, points) ==
    task' = [task EXCEPT ![t] = [@ EXCEPT !.pc = pc, !.id = id, !.points = points]]
Step(t, pc) == task' = [task EXCEPT ![t].pc = pc]
Return(t) == task' = [task EXCEPT ![t] = Idle]

SessionIds == DOMAIN rows

\* A handler begins an operation on the session.  Another may be at it: a tracker's
\* new connection does not wait for the end of its old one.
Enter(h, id) ==
    /\ up /\ At(h, "idle") /\ id \in known
    /\ disturbed' = (disturbed \/ \E other \in Handlers : Id(other) = id)

NewBatches == {batch \in {<<lastPoint + 1>>, <<lastPoint + 1, lastPoint + 2>>} :
                    Last(batch) <= MaxPoints}

CountriesOf(points) == {Country[p] : p \in points} \ {NoCountry}

Init ==
    /\ rows = <<>> /\ countries = {}
    /\ buffers = <<>> /\ files = <<>> /\ torn = {} /\ up = TRUE
    /\ task = [t \in Tasks |-> Idle] /\ known = {}
    /\ stored = <<>> /\ disturbed = FALSE /\ overlapped = FALSE
    /\ lastPoint = 0 /\ faults = 0 /\ commands = 0

-----------------------------------------------------------------------------
\* register_new_live_session: the row first, then the buffer and its file.

InsertRow(active) ==
    /\ rows' = Append(rows, [active |-> active, points |-> <<>>])
    /\ stored' = Append(stored, {})

RegisterRow(h) ==
    /\ up /\ At(h, "idle") /\ Len(rows) < MaxSessions
    /\ InsertRow(TRUE)
    /\ GoTo(h, "start", Len(rows) + 1, <<>>)
    /\ UNCHANGED <<known, countries, bufferVars, boundVars, disturbed, overlapped>>

\* A map with an empty entry for the session
WithNew(map, id) == [i \in DOMAIN map \cup {id} |-> IF i = id THEN <<>> ELSE map[i]]

NewFile(id) == files' = WithNew(files, id)

\* Mutant: the buffer is in memory only.
MutStartBuffer(h) ==
    /\ At(h, "start")
    /\ buffers' = WithNew(buffers, Id(h))
    /\ Return(h) /\ known' = known \cup {Id(h)}
    /\ UNCHANGED <<tableVars, files, torn, up, boundVars, ghostVars>>

StartBuffer(h) ==
    /\ At(h, "start")
    /\ buffers' = WithNew(buffers, Id(h))
    /\ NewFile(Id(h))
    /\ Return(h) /\ known' = known \cup {Id(h)}
    /\ UNCHANGED <<tableVars, torn, up, boundVars, ghostVars>>

-----------------------------------------------------------------------------
\* append_gps_points: the row says where the points go, then the trip's country
\* list is read, and written back if they bring a new country.

Arrive(t, id, active) ==
    \E batch \in NewBatches :
        /\ task' = [task EXCEPT ![t] = [Idle EXCEPT !.pc = "trip", !.id = id,
                            !.points = batch, !.active = active]]
        /\ lastPoint' = Last(batch)

AppendLookup(h, id) ==
    /\ Enter(h, id)
    /\ Arrive(h, id, rows[id].active)
    /\ UNCHANGED <<known, tableVars, bufferVars, faults, commands, stored, overlapped>>

Destination(h) == IF task[h].active THEN "append" ELSE "dbRead"

ReadTrip(h) ==
    /\ At(h, "trip")
    /\ LET new == CountriesOf(Range(task[h].points)) \ countries
       IN  IF new = {} THEN Step(h, Destination(h))
           ELSE task' = [task EXCEPT ![h].pc = "countries", ![h].list = countries \cup new]
    /\ UNCHANGED <<known, tableVars, bufferVars, boundVars, ghostVars>>

SetCountries(h, list) ==
    /\ At(h, "countries")
    /\ countries' = list
    /\ task' = [task EXCEPT ![h].pc = Destination(h), ![h].list = {}]
    /\ overlapped' = (overlapped \/ \E other \in Tasks \ {h} : At(other, "countries"))
    /\ UNCHANGED <<known, rows, bufferVars, boundVars, stored, disturbed>>

\* Mutant: only the countries of these points are written.
MutWriteCountries(h) == SetCountries(h, CountriesOf(Range(task[h].points)))

WriteCountries(h) == SetCountries(h, task[h].list)

AddToBuffer(id, points) == buffers' = [buffers EXCEPT ![id] = @ \o points]
AddToFile(id, points) == files' = [files EXCEPT ![id] = @ \o points]

AddStored(h, points) == stored' = [stored EXCEPT ![Id(h)] = @ \cup points]

\* Mutant: the points are not written to the file.
MutAppendBuffer(h) ==
    /\ At(h, "append") /\ Id(h) \in DOMAIN buffers
    /\ AddToBuffer(Id(h), task[h].points)
    /\ AddStored(h, Range(task[h].points))
    /\ Return(h)
    /\ UNCHANGED <<known, tableVars, files, torn, up, boundVars, disturbed, overlapped>>

AppendBuffer(h) ==
    /\ At(h, "append") /\ Id(h) \in DOMAIN buffers
    /\ AddToBuffer(Id(h), task[h].points) /\ AddToFile(Id(h), task[h].points)
    /\ AddStored(h, Range(task[h].points))
    /\ Return(h)
    /\ UNCHANGED <<known, tableVars, torn, up, boundVars, disturbed, overlapped>>

\* The session was closed meanwhile: "No buffer file for session", an Err.
AppendNoBuffer(h) ==
    /\ At(h, "append") /\ Id(h) \notin DOMAIN buffers
    /\ Return(h)
    /\ UNCHANGED <<known, tableVars, bufferVars, boundVars, ghostVars>>

\* TripDatabase::append_track_points reads the blob, and writes it back longer.
DbRead(h) ==
    /\ At(h, "dbRead")
    /\ task' = [task EXCEPT ![h].pc = "dbWrite", ![h].noted = Range(task[h].points),
                            ![h].points = rows[Id(h)].points \o @]
    /\ UNCHANGED <<known, tableVars, bufferVars, boundVars, ghostVars>>

SetPoints(id, points) == rows' = [rows EXCEPT ![id].points = points]

DbWriteOf(h, points) ==
    /\ At(h, "dbWrite")
    /\ SetPoints(Id(h), points)
    /\ AddStored(h, task[h].noted)
    /\ Return(h)
    /\ UNCHANGED <<known, countries, bufferVars, boundVars, disturbed, overlapped>>

\* Mutant: the blob is replaced by the new points.
MutDbWrite(h) ==
    DbWriteOf(h, SelectSeq(task[h].points, LAMBDA p : p \in task[h].noted))

DbWrite(h) == DbWriteOf(h, task[h].points)

-----------------------------------------------------------------------------
\* end_session: close the buffer and delete its file, write its points to the
\* row, clear active.  Without a buffer it is an Err and changes nothing.

EndClose(h, id) ==
    /\ Enter(h, id) /\ id \in DOMAIN buffers
    /\ GoTo(h, "endPoints", id, buffers[id])
    /\ buffers' = Restrict(buffers, DOMAIN buffers \ {id})
    /\ files' = Restrict(files, DOMAIN files \ {id})
    /\ torn' = torn \ {id}
    /\ UNCHANGED <<known, tableVars, up, boundVars, stored, overlapped>>

\* Mutant: the closed buffer's points are not written.
MutEndPoints(h) ==
    /\ At(h, "endPoints")
    /\ GoTo(h, "endActive", Id(h), <<>>)
    /\ UNCHANGED <<known, tableVars, bufferVars, boundVars, ghostVars>>

EndPoints(h) ==
    /\ At(h, "endPoints")
    /\ SetPoints(Id(h), task[h].points)
    /\ GoTo(h, "endActive", Id(h), <<>>)
    /\ UNCHANGED <<known, countries, bufferVars, boundVars, ghostVars>>

\* Mutant: the row stays active.
MutEndActive(h) ==
    /\ At(h, "endActive")
    /\ Return(h)
    /\ UNCHANGED <<known, tableVars, bufferVars, boundVars, ghostVars>>

EndActive(h) ==
    /\ At(h, "endActive")
    /\ rows' = [rows EXCEPT ![Id(h)].active = FALSE]
    /\ Return(h)
    /\ UNCHANGED <<known, countries, bufferVars, boundVars, ghostVars>>

-----------------------------------------------------------------------------
\* get_session: the row, and the buffer in place of its points if it is active.
\* `noted` remembers what had been stored when the request came.

ReadOf(r, id, next) ==
    /\ up /\ At(r, "idle")
    /\ task' = [task EXCEPT ![r] = [Idle EXCEPT !.pc = next, !.id = id,
                     !.points = rows[id].points, !.noted = stored[id]]]
    /\ UNCHANGED <<known, tableVars, bufferVars, boundVars, ghostVars>>

\* Mutant: the row is the answer, active or not.
MutReadRow(r, id) == ReadOf(r, id, "answer")

ReadRow(r, id) == ReadOf(r, id, IF rows[id].active THEN "readBuffer" ELSE "answer")

ReadBuffer(r) ==
    /\ At(r, "readBuffer") /\ Id(r) \in DOMAIN buffers
    /\ GoTo(r, "answer", Id(r), buffers[Id(r)])
    /\ UNCHANGED <<known, tableVars, bufferVars, boundVars, ghostVars>>

\* The request fails with an Err (and the whole list of a trip's sessions with it).
ReadNoBuffer(r) ==
    /\ At(r, "readBuffer") /\ Id(r) \notin DOMAIN buffers
    /\ Return(r)
    /\ UNCHANGED <<known, tableVars, bufferVars, boundVars, ghostVars>>

Answer(r) ==
    /\ At(r, "answer")
    /\ Return(r)
    /\ UNCHANGED <<known, tableVars, bufferVars, boundVars, ghostVars>>

-----------------------------------------------------------------------------
\* The CLI, one command at a time on the table alone.  The flag `hidden` and the
\* texts it sets are left out: nothing here reads them.

Command == At(Cli, "idle") /\ commands < MaxCommands /\ commands' = commands + 1

\* "Force end a session. BE CAREFUL": the buffer stays.
Ends(id) ==
    /\ Command
    /\ rows' = [rows EXCEPT ![id].active = FALSE]
    /\ disturbed' = TRUE
    /\ UNCHANGED <<known, countries, bufferVars, task, lastPoint, faults, stored, overlapped>>

CliTakes(id, pc) ==
    task' = [task EXCEPT ![Cli] = [Idle EXCEPT !.pc = pc, !.id = id,
                !.active = rows[id].active, !.noted = stored[id],
                !.points = rows[id].points]]

\* FixTime copies a session with other times; track_points[0] panics without points.
FixTime(id) ==
    /\ Command /\ rows[id].points # <<>>
    /\ CliTakes(id, "insert")
    /\ UNCHANGED <<known, tableVars, bufferVars, lastPoint, faults, ghostVars>>

\* Combine reads two ended sessions, the one that started first comes first.
Combine(id) ==
    /\ Command /\ ~rows[id].active
    /\ CliTakes(id, "second")
    /\ UNCHANGED <<known, tableVars, bufferVars, lastPoint, faults, ghostVars>>

CombineWith(id) ==
    /\ At(Cli, "second") /\ ~rows[id].active
    /\ task' = [task EXCEPT
            ![Cli].pc = "insert", ![Cli].noted = @ \cup stored[id],
            ![Cli].points = IF Id(Cli) < id THEN @ \o rows[id].points ELSE rows[id].points \o @]
    /\ UNCHANGED <<known, tableVars, bufferVars, boundVars, ghostVars>>

\* "Both sessions must be inactive to combine!"
CombinePanics(id) ==
    /\ At(Cli, "second") /\ rows[id].active
    /\ Return(Cli)
    /\ UNCHANGED <<known, tableVars, bufferVars, boundVars, ghostVars>>

\* insert_track_session with the flag of the session that was read
CopyRow ==
    /\ At(Cli, "insert")
    /\ InsertRow(task[Cli].active)
    /\ GoTo(Cli, "copy", Len(rows) + 1, task[Cli].points)
    /\ disturbed' = (disturbed \/ task[Cli].active)
    /\ UNCHANGED <<known, countries, bufferVars, boundVars, overlapped>>

CopyPoints ==
    /\ At(Cli, "copy")
    /\ SetPoints(Id(Cli), task[Cli].points)
    /\ Return(Cli)
    /\ UNCHANGED <<known, countries, bufferVars, boundVars, ghostVars>>

\* AddGpx starts a DataManager of its own, which loads the buffer files too, and
\* registers an ended session with the points of a GPX file.
AddGpx ==
    /\ Command /\ torn = {}
    /\ InsertRow(FALSE)
    /\ Arrive(Cli, Len(rows) + 1, FALSE)
    /\ UNCHANGED <<known, countries, bufferVars, faults, disturbed, overlapped>>

-----------------------------------------------------------------------------
\* What fails: a query, an access to a buffer file, the server as a whole.

Fault == faults < MaxFaults /\ faults' = faults + 1 /\ disturbed' = TRUE

\* The `?` of a query: the operation ends where it is, the connection with it.
QueryFails(h) ==
    /\ Fault
    /\ task[h].pc \in {"trip", "countries", "dbRead", "dbWrite", "endPoints", "endActive"}
    /\ Return(h)
    /\ UNCHANGED <<known, tableVars, bufferVars, lastPoint, commands, stored, overlapped>>

\* The file cannot be opened, or is created and its header not written.
StartFails(h) ==
    /\ Fault /\ At(h, "start")
    /\ \/ UNCHANGED <<files, torn>>
       \/ NewFile(Id(h)) /\ torn' = torn \cup {Id(h)}
    /\ Return(h)
    /\ UNCHANGED <<known, tableVars, buffers, up, lastPoint, commands, stored, overlapped>>

\* add_points extends the vector before it writes the file.
AppendFails(h) ==
    /\ Fault /\ At(h, "append") /\ Id(h) \in DOMAIN buffers
    /\ AddToBuffer(Id(h), task[h].points)
    /\ torn' \in {torn, torn \cup {Id(h)}}
    /\ Return(h)
    /\ UNCHANGED <<known, tableVars, files, up, lastPoint, commands, stored, overlapped>>

\* close_session takes the buffer from the map and cannot delete its file.
CloseFails(h, id) ==
    /\ Fault /\ up /\ At(h, "idle") /\ id \in known \cap DOMAIN buffers
    /\ buffers' = Restrict(buffers, DOMAIN buffers \ {id})
    /\ UNCHANGED <<task, known, tableVars, files, torn, up, lastPoint, commands,
                   stored, overlapped>>

\* A file that was being written when the server died, by whoever had the mutex.
CutWrite ==
    \/ UNCHANGED <<files, torn>>
    \/ \E h \in Handlers :
        /\ \/ At(h, "start") /\ NewFile(Id(h))
           \/ /\ At(h, "append") /\ Id(h) \in DOMAIN buffers
              /\ \E n \in 0..Len(task[h].points) :
                    AddToFile(Id(h), SubSeq(task[h].points, 1, n))
        /\ torn' \in {torn, torn \cup {Id(h)}}

RestartWith(kept) ==
    /\ Fault /\ up
    /\ CutWrite
    /\ up' = (torn' = {})
    /\ buffers' = IF up' THEN kept ELSE <<>>
    /\ task' = [t \in Tasks |-> IF t = Cli THEN task[t] ELSE Idle]
    /\ UNCHANGED <<known, tableVars, lastPoint, commands, stored, overlapped>>

\* Mutant: the server starts with an empty map.
MutCrash == RestartWith(<<>>)

\* The server dies, its tasks with it, and starts again: BufferManager::start loads
\* a buffer for every file, and refuses to start if one is torn.
Crash == RestartWith(files')

Handle(h) ==
    \/ RegisterRow(h) \/ StartBuffer(h)
    \/ ReadTrip(h) \/ WriteCountries(h)
    \/ AppendBuffer(h) \/ AppendNoBuffer(h) \/ DbRead(h) \/ DbWrite(h)
    \/ EndPoints(h) \/ EndActive(h)
    \/ QueryFails(h) \/ StartFails(h) \/ AppendFails(h)
    \/ \E id \in SessionIds : AppendLookup(h, id) \/ EndClose(h, id) \/ CloseFails(h, id)

Serve(r) ==
    \/ ReadBuffer(r) \/ ReadNoBuffer(r) \/ Answer(r)
    \/ \E id \in SessionIds : ReadRow(r, id)

Edit ==
    \/ CopyRow \/ CopyPoints
    \/ AddGpx \/ ReadTrip(Cli) \/ WriteCountries(Cli) \/ DbRead(Cli) \/ DbWrite(Cli)
    \/ \E id \in SessionIds :
        Ends(id) \/ FixTime(id) \/ Combine(id) \/ CombineWith(id) \/ CombinePanics(id)

Next ==
    \/ \E h \in Handlers : Handle(h)
    \/ \E r \in Readers : Serve(r)
    \/ Edit \/ Crash

Spec == Init /\ [][Next]_vars

-----------------------------------------------------------------------------
\* Properties

Points == 1..MaxPoints

TypeOK ==
    /\ \A id \in SessionIds : rows[id] \in [active : BOOLEAN, points : Seq(Points)]
    /\ DOMAIN buffers \subseteq DOMAIN files /\ DOMAIN files \subseteq SessionIds
    /\ torn \subseteq DOMAIN files
    /\ up \/ (torn # {} /\ buffers = <<>>)
    /\ \A id \in DOMAIN buffers : buffers[id] \in Seq(Points)
    /\ \A t \in Tasks : Id(t) \in SessionIds \cup {0} /\ task[t].points \in Seq(Points)
    /\ stored \in Seq(SUBSET Points) /\ known \subseteq SessionIds
    /\ lastPoint \in 0..MaxPoints /\ faults \in 0..MaxFaults /\ commands \in 0..MaxCommands

\* What the buffers hold, or what is left of them while the server is down
Held == IF up THEN buffers ELSE files

Closing(id) == {t \in Tasks : task[t].pc \in {"endPoints", "copy"} /\ Id(t) = id}
Opening(id) == {h \in Handlers : At(h, "start") /\ Id(h) = id}

\* The points of a session: of its buffer while it is live, in the hands of
\* end_session while that closes it, of its row afterwards.
PointsOf(id) ==
    IF id \in DOMAIN Held THEN Held[id]
    ELSE IF Closing(id) # {} THEN task[CHOOSE t \in Closing(id) : TRUE].points
    ELSE rows[id].points

\* Until something disturbs (a fault, a command of the CLI, two handlers on one
\* session), a point whose append returned Ok stays in its session: not lost by the
\* move from the buffer to the row, nor by the appends that go to the row later.
PointsKept ==
    disturbed \/ \A id \in SessionIds : stored[id] \subseteq Range(PointsOf(id))

\* An answer has every point stored before its request came, also when the session
\* ends between the two reads of get_session: end_session writes the points to the
\* row before it clears active.  So have the sessions the CLI copies.
ReadComplete ==
    disturbed \/ \A t \in Readers \cup {Cli} :
        task[t].pc \in {"answer", "insert"} => task[t].noted \subseteq Range(task[t].points)

\* Between the two writes of register_new_live_session or the three of end_session.
Changing(id) ==
    \E h \in Handlers : Id(h) = id /\ task[h].pc \in {"start", "endPoints", "endActive"}

\* A row is active exactly while its session has a buffer, except inside
\* register_new_live_session and end_session.
ActiveHasBuffer ==
    disturbed \/ \A id \in SessionIds :
        Changing(id) \/ (rows[id].active <=> id \in DOMAIN buffers)

\* Every country a stored point lies in is in the trip's list, unless two appends
\* that both brought a new country read the list before either wrote it.
CountriesListed ==
    overlapped \/ \A id \in SessionIds : CountriesOf(stored[id]) \subseteq countries

\* A session without its buffer whose row stays active: every request for it, and
\* for the session list of its trip, fails from now on.
Orphan(id) ==
    id \in SessionIds /\ rows[id].active /\ id \notin DOMAIN Held /\ ~Changing(id)

\* Whatever fails, however often the server restarts or cannot, and whoever appends
\* and ends at once: a session that is active and no orphan has every stored point,
\* and while it is live has it in its file too.
LiveSessionsKeep ==
    \A id \in SessionIds :
        rows[id].active /\ ~Orphan(id) =>
            /\ stored[id] \subseteq Range(PointsOf(id))
            /\ id \in DOMAIN Held => stored[id] \subseteq Range(files[id])

CloseFailed(id) == \E h \in Handlers : CloseFails(h, id)

\* An orphan is made by a fault that hits a session being registered or ended, or it
\* is a copy FixTime took of a row that was still active.
OrphanOrigins ==
    [][\A id \in SessionIds' : Orphan(id)' /\ ~Orphan(id) =>
        \/ faults' = faults + 1 /\ (Changing(id) \/ CloseFailed(id))
        \/ id \notin SessionIds /\ At(Cli, "insert") /\ disturbed']_vars

\* A fault takes stored points only from a session whose buffer had been closed and
\* not yet written to its row, and for as long as the server runs from one whose file
\* could not be deleted: the next start brings it back (LiveSessionsKeep).  A server
\* that does not start any more because a file is torn has the others in their files.
FaultsLoseOnlyClosing ==
    [][faults' = faults + 1 =>
        \A id \in SessionIds :
            \/ stored[id] \cap Range(PointsOf(id)) \subseteq
                    Range(PointsOf(id)') \cup Range(rows'[id].points)
            \/ Closing(id) # {} \/ CloseFailed(id)]_vars

\* Until it is disturbed (a fault, a forced end, two handlers at one session, a copy
\* of an active row) the data manager is the abstract store: close_session is where a
\* session ends, the buffer's or the row's write where points are appended.
Abstract == INSTANCE TripStore WITH
        sessions <- [id \in SessionIds |->
                        [live |-> id \in DOMAIN Held \/ Opening(id) # {},
                         points |-> PointsOf(id)]],
        Batches <- {<<p>> : p \in Points} \cup {<<p, p + 1>> : p \in Points}

ImplementsTripStore == Abstract!Spec
=============================================================================
