-------------------------- MODULE SessionStoreInv --------------------------
(***************************************************************************)
(* What the properties of SessionStore rest on: which task is at which     *)
(* session, where the stored points are, from which appends a point can    *)
(* come, and what holds besides while nothing is disturbed.  The           *)
(* conjunction, StoreInv, is inductive.                                    *)
(***************************************************************************)
EXTENDS SessionStore

-----------------------------------------------------------------------------
\* Types

HandlerPcs == {"idle", "start", "trip", "countries", "append", "dbRead", "dbWrite",
               "endPoints", "endActive"}
ReaderPcs == {"idle", "readBuffer", "answer"}
CliPcs == {"idle", "second", "insert", "copy", "trip", "countries", "dbRead", "dbWrite"}

Rows == [active : BOOLEAN, points : Seq(Points)]
TaskRecords ==
    [pc : HandlerPcs \cup ReaderPcs \cup CliPcs, id : Nat, points : Seq(Points),
     noted : SUBSET Points, active : BOOLEAN, list : SUBSET Range(Country)]

TableTypeOK ==
    /\ rows \in Seq(Rows) /\ countries \subseteq Range(Country)
    /\ stored \in Seq(SUBSET Points) /\ Len(stored) = Len(rows)
    /\ known \subseteq SessionIds
    /\ lastPoint \in 0..MaxPoints /\ faults \in 0..MaxFaults /\ commands \in 0..MaxCommands
    /\ disturbed \in BOOLEAN /\ overlapped \in BOOLEAN

BufferTypeOK ==
    /\ buffers \in [DOMAIN buffers -> Seq(Points)] /\ DOMAIN buffers \subseteq DOMAIN files
    /\ files \in [DOMAIN files -> Seq(Points)] /\ DOMAIN files \subseteq SessionIds
    /\ torn \subseteq DOMAIN files
    /\ up \in BOOLEAN /\ (up \/ (torn # {} /\ buffers = <<>>))

TasksTypeOK ==
    /\ task \in [Tasks -> TaskRecords]
    /\ \A t \in Tasks : (At(t, "idle") <=> Id(t) = 0) /\ Id(t) \in {0} \cup SessionIds
    /\ \A h \in Handlers : task[h].pc \in HandlerPcs
    /\ \A r \in Readers : task[r].pc \in ReaderPcs
    /\ task[Cli].pc \in CliPcs

StoreTypes == TableTypeOK /\ BufferTypeOK /\ TasksTypeOK

-----------------------------------------------------------------------------
\* Which task is at which session

Ending(h) == task[h].pc \in {"endPoints", "endActive"}

\* A session that is being registered is nobody else's, and one that is being ended has
\* no file, so that nobody else ends it; the rows of the CLI are unknown to trackers.
\* A server that does not run has no tasks.
PlaceInv ==
    /\ up \/ \A t \in Handlers \cup Readers : At(t, "idle")
    /\ \A h \in Handlers :
        /\ task[h].pc \notin {"idle", "start"} => Id(h) \in known
        /\ At(h, "start") =>
            /\ Id(h) \notin known \cup DOMAIN files
            /\ stored[Id(h)] = {} /\ rows[Id(h)].points = <<>>
            /\ \A other \in Handlers : Id(other) = Id(h) => other = h
        /\ Ending(h) =>
            /\ Id(h) \notin DOMAIN files
            /\ \A other \in Handlers : Ending(other) /\ Id(other) = Id(h) => other = h
    /\ task[Cli].pc \notin {"idle", "second", "insert"} =>
        /\ Id(Cli) \notin known \cup DOMAIN files /\ stored[Id(Cli)] = {}
        /\ \A h \in Handlers : Id(h) # Id(Cli)

Appending == {"trip", "countries", "append", "dbRead", "dbWrite"}

\* An append goes to the row only if the row was not active any more, which it never is
\* again.
InactiveInv ==
    \A t \in Tasks :
        /\ task[t].pc \in Appending /\ ~task[t].active => ~rows[Id(t)].active
        /\ task[t].pc \in {"dbRead", "dbWrite"} => ~task[t].active
        /\ task[t].pc \in {"trip", "countries"} /\ t = Cli => ~task[t].active

-----------------------------------------------------------------------------
\* Where the stored points are

\* As long as its row is active, a session's points are in its file and its buffer, or
\* go with the handler that ends it.
KeepInv ==
    \A id \in SessionIds : rows[id].active =>
        /\ id \in DOMAIN files => stored[id] \subseteq Range(files[id])
        /\ id \in DOMAIN buffers => stored[id] \subseteq Range(buffers[id])
        /\ \A h \in Handlers : Id(h) = id =>
            /\ At(h, "endPoints") => stored[id] \subseteq Range(task[h].points)
            /\ At(h, "endActive") => stored[id] \subseteq Range(rows[id].points)

\* The points that the append of a task brings
Brings(t) ==
    IF At(t, "dbWrite") THEN task[t].noted
    ELSE IF task[t].pc \in Appending THEN Range(task[t].points) ELSE {}

\* The points that are stored, in a file or in a buffer
Stored == UNION {stored[id] : id \in SessionIds}
PointsIn(map) == UNION {Range(map[id]) : id \in DOMAIN map}
Placed == Stored \cup PointsIn(files) \cup PointsIn(buffers)

\* What an append brings is not anywhere yet, and of no other append.
FreshInv ==
    /\ Placed \subseteq 1..lastPoint
    /\ \A t \in Tasks : Brings(t) \subseteq (1..lastPoint) \ Placed
    /\ \A t, other \in Tasks : t # other => Brings(t) \cap Brings(other) = {}

\* What a buffer has and its file has not was never stored: its append failed.
FilesInv ==
    \A id \in DOMAIN buffers : stored[id] \cap Range(buffers[id]) \subseteq Range(files[id])

\* The country list that a task is about to write is the one it read, and more.
CountriesInv ==
    overlapped \/
    /\ CountriesListed
    /\ \A t \in Tasks :
        /\ At(t, "countries") =>
            countries \cup CountriesOf(Range(task[t].points)) \subseteq task[t].list
        /\ task[t].pc \in {"append", "dbRead"} =>
            CountriesOf(Range(task[t].points)) \subseteq countries
        /\ At(t, "dbWrite") => CountriesOf(task[t].noted) \subseteq countries

-----------------------------------------------------------------------------
\* While nothing is disturbed

Batches == {<<p>> : p \in Points} \cup {<<p, p + 1>> : p \in Points}

\* The server runs and every session has at most one handler.
AloneInv ==
    /\ up
    /\ \A h, other \in Handlers : Id(h) = Id(other) /\ Id(h) # 0 => h = other

\* A row is active until the last step of end_session, and has its points from then on.
RowInv ==
    /\ \A h \in Handlers : task[h].pc \in {"start", "endPoints", "endActive"} =>
        rows[Id(h)].active
    /\ At(Cli, "copy") => ~rows[Id(Cli)].active
    /\ \A id \in SessionIds :
        /\ Changing(id) \/ (rows[id].active <=> id \in DOMAIN buffers)
        /\ ~rows[id].active => stored[id] \subseteq Range(rows[id].points)
        /\ rows[id].active => \/ rows[id].points = <<>>
                              \/ \E h \in Handlers : At(h, "endActive") /\ Id(h) = id

\* What an append writes back is the row's points and its own.
BatchInv ==
    \A t \in Tasks :
        /\ task[t].pc \in Appending \ {"dbWrite"} => task[t].points \in Batches
        /\ At(t, "dbWrite") => \E batch \in Batches :
            /\ task[t].noted = Range(batch)
            /\ task[t].points = rows[Id(t)].points \o batch

\* What a reader noted it has read, or is still in the store.
ReadInv ==
    /\ \A r \in Readers : At(r, "readBuffer") => task[r].noted \subseteq stored[Id(r)]
    /\ \A t \in Readers \cup {Cli} : task[t].pc \in {"answer", "second", "insert"} =>
        task[t].noted \subseteq Range(task[t].points)

QuietInv == disturbed \/ (AloneInv /\ RowInv /\ BatchInv /\ ReadInv)

StoreInv == StoreTypes /\ PlaceInv /\ InactiveInv /\ KeepInv /\ FreshInv /\ FilesInv
            /\ CountriesInv /\ QuietInv
=============================================================================
