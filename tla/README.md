# Trip tracker: TLA+ specifications

A tracker (an ESP32-S3 with a SIM7670 modem) records GNSS points on an SD card
and brings them over a bad mobile network to a server, which keeps them in
buffers and a SQLite database and shows them on a map. What must be right is
spread over two cores, an SD card that may lose power at any moment, a network
that loses what it likes, and several tokio tasks on the server. This directory
holds TLA+ modules of those parts, the TLC runs that check them and proofs of
the most important results.

File names below are relative to `src/`; `E/` is
`embedded_tracker_esp32-s3/src/`, `DM/` is `data_management/src/`.

## 1. The system

| component | state | operations | talks to |
|---|---|---|---|
| upload status (`E/services/comms/upload_status.rs`) and STATE.CSV | a vector of (local id, remote id or none, uploaded) in memory, and on the card | add, set remote id, add uploaded, finish; parse and write | upload actor, GNSS actor, storage |
| storage service (`E/services/storage_service.rs`) | session directories 1..n, SESSION.TSF (8 byte start time, 15 byte points), STATE.CSV, logs | open a new session at boot, set start time, append a point, count, read points, read and write the status | everything, under one mutex |
| GNSS actor (`E/services/gnss_service.rs`) | first fix seen, session added, last timestamp, terminator | receive a fix, set the start time once, add the active session once, append | modem URCs, storage, upload service, state service |
| upload actor (`E/services/comms/upload_service.rs`, on core 1) | the status, the connected session, retries left, terminator | a pass every 6 s over all unfinished sessions: connect or reconnect, send what is missing, finish what gets no more | modem, storage, status, state service, server |
| system control (`E/system_control.rs`, `E/actor.rs`, `E/bin/async_main.rs`) | list of services, wake pin | boot in order, detect the pin, stop in reverse order, deep sleep | all services |
| modem service (`E/services/modem/`, `E/byte_buffer.rs`, `E/services/comms/connection_buffer.rs`) | response signal, URC subscribers, receive buffers | send an AT command with a timeout, wait for URCs, receive TCP data | UART |
| state service, log, configuration | switch, LEDs, battery; a queue of 10 messages | read the switch, set states; log | all |
| tracker endpoint (`server/src/tracker_endpoint.rs`) | a map of IP address to session, banned addresses | handshake (nonce, MAC), fresh session or reconnect, messages of points, end of session | data manager |
| data manager (`DM/data_manager.rs`, `DM/buffer/`, `DM/database/`) | TrackSessions rows, buffers of the live sessions and their files, trips, visits | register, append, end, read, update | tracker endpoint, web server, CLI |
| CLI (`DM/main.rs`, `DM/gpx_util.rs`) | - | force the end of a session (`Ends`), copy sessions (`Combine`, `FixTime`), import one (`AddGpx`), recompute countries, titles and hiding | the database, from another process, also while the server runs |
| web server (`server/src/main.rs`) and front end (`frontend/`) | load per address; the page's copy of the trip | serve sessions and updates; poll every 6 s | data manager |

What is hard here:

* **Interleaving.** Two cores and an async executor: the GNSS actor adds points
  and a session between any two awaits of the upload actor, which works on a
  clone of the status; on the server the flag that says where points go is read
  several awaits before they go there, and the trip's country list is read, extended
  and written back around awaits.
* **Locks.** The mutexes of the device are taken in different orders.
* **Power loss and restarts.** Every step of the device may be its last, each of the
  single writes of STATE.CSV included. The server moves a session from buffer to
  database in three steps, any of which may fail, and its buffer files may end in
  the middle of a point.
* **Unreliable network.** Every answer may be lost, messages are counted as
  uploaded when the modem has them.
* **Ending.** Going to sleep must end whatever the network does.

What makes each part right:

* *Device data*: no session is forgotten or sent to two server sessions once the
  server has named it; no more is counted as uploaded than was recorded (two
  unsigned subtractions depend on it); STATE.CSV agrees with memory except while
  a change is saved; a session is finished only when it is complete; oldest first.
* *Device tasks*: no deadlock, and the shutdown gets to sleep.
* *Store*: points that were accepted are there, in order, for every reader; a
  session that ends loses none on its way from the buffer to its row; a crash
  costs no more than what was in the hands of the crashed operation.

PROJECT.json lists the hazards with their lines and the properties aimed at them.

## 2. Modules

| module | models | actions and their code |
|---|---|---|
| `UploadStatus` | the status vector | operators, one per method of `UploadStatus` |
| `Tracker` | card, GNSS actor, upload actor, boot, shutdown, power loss | one action per stretch between two awaits at which another task can change what is read; the names follow the functions (`GnssJoin` is `add_active_session`, `SaveUploaded` the write of STATE.CSV after `add_uploaded`, ...); `PowerLoss` comes between the steps, `CutSave` inside a save |
| `StateFile` | STATE.CSV write by write: overwritten in place, padded with zeros, cut by power loss, parsed by the next boot | `BeginSave`, `WriteNext`, `Flush` are `write_upload_status`; `Parse` and `Readable` are `UploadStatus::parse` and its unwraps; `Save` and `SaveChange` are the changes of the upload actor and their saves, `Join` that of the GNSS actor; `Retain` is `finish_session` when a torn file has given two entries one id |
| `DeviceLocks` | the mutexes of the device and the order in which `main`, the GNSS actor, the upload actor, the log task and the power monitor take them; the panics of unwrapped modem answers | a task moves between labels, the sections of its code; `Acquire` takes the next mutex of a section, `Panic` ends in the panic handler |
| `ModemLink` | the AT command channel: one response signal, one-shot subscribers for result codes, timeouts, the prompt that swallows what stands behind it | `Send`, `InterrogateUrc` and `CipSend` start an operation, `Answer...` and `Urc...` are its waits, `Dispatch...`, `Swallow...` and `Discard` are `simcom_monitor`; the modem itself is external |
| `TripStore` | the abstract store: sessions with points, `Register`, `AppendPoints`, `End`, `Import` | what `DataManager` promises |
| `SessionStore` | the store as it is: rows, country list, buffers and files (whole or torn), the operations of tokio tasks cut at their awaits, the CLI's `Ends`, `FixTime`, `Combine` and `AddGpx`, restarts, queries and file accesses that fail | `EndClose`, `EndPoints`, `EndActive` are the three steps of `end_session`, `ReadTrip` and `WriteCountries` the two ends of the list's update; `QueryFails`, `StartFails`, `AppendFails` and `CloseFails` are the `?`s |
| `UploadSystem` | tracker and server: `Tracker`'s steps over TCP connections, the receive buffer that outlives them, one `handle_connection` per connection | a network step of `Tracker` is joined with `Send`, `Take` or `NoAnswer`; `Notice`, `Reset` and `Take` are the wait, the reset and the pop of `read_exact_block`, with `Arrive`, the modem monitor on the other core, between any two; `Serve...` are the stretches of `handle_connection` |
| `TrackTime` | the time of a point, with its fraction of a second, from the fix to the row: 3 byte offsets and the starts they count from (first fix, registration, first point of the row), each with its fraction in memory and without it where it is written | `Fix`, `Send`, `Count` on the device, `ConnectFresh`, `Reconnect`, `Store`, `EndSession`, `Restart` on the server; the codec as operators |
| `LiveView` | the page: load, poll, updates thinned to one point in six | `Load`, `Poll`, `Ask`, `Show` are the page, `GetSession`, `GetUpdate`, `ReadSince`, `NoBuffer` the server; `Reconnect` is the tracker sending again, and giving the times the fraction of the registration |
| `UploadSystemInv`, `SessionStoreInv` | the inductive invariants of `UploadSystem` and `SessionStore`, stated before they are proved, so that the instances below have them for TLC too | |
| `UploadSystemProofs`, `StateFileProofs`, `TrackTimeProofs`, `ModemLinkProofs`, `DeviceLocksProofs`, `SessionStoreProofs`, `TripStoreProofs`, `LiveViewProofs` | lemmas on the operators; theorems (`UploadSystemProofs` has those of `Tracker` too, `TripStoreProofs` those of `SessionStore`) | |
| `MCTracker`, `MCSessionStore`, `MCUploadSystem` | instances for TLC: symmetry sets, a constraint | |

How they fit. `Tracker` leaves the locks out and `DeviceLocks` the data. In
`Tracker` the network is an outcome: a step that talks to it succeeds or leaves
the pass by the `?` of the code (`LinkFails`). `ModemLink` says what is behind such
an outcome, as far as commands and their answers go. `UploadSystem` extends
`Tracker`: each of its steps is a step of `Tracker`, or of the link or the server
only, so that it implements `Tracker` (`ImplementsTracker`, proved). Its server is on
`TripStore`, and so is `LiveView`'s: that `SessionStore` implements `TripStore` is
checked and proved (`ImplementsTripStore`), and that a read is of one moment too
(`ReadComplete`).

What a step is. On the device, code without an await is one step, and so is code
that awaits only mutexes whose data nobody else changes meanwhile. In
`SessionStore` a database query is a step and a critical section of the buffer
map's mutex is a step. Memory, file and row are distinct variables, so a crash
keeps exactly what was written, and a write that is cut leaves a file that is torn.

How `StateFile` stands to `Tracker`. There a save of STATE.CSV is one step with two ways
to lose power: before or after it (`PowerLoss`), and inside it (`CutSave`), which leaves
any of `Misreads` on the card and sets `torn`. `StateFile` has the single writes, and its
`AtomicUnlessShifted` says which saves have no such moment inside: those that change one
field into one as long or only add a line to a file that is not padded, which is most
of them. The others, a count that gets a digit longer, the remote id of a session that is
not the last, a finished session, can be cut so that the next boot reads neither status,
or panics (section 4). `Tracker` ends with a torn file: what a boot makes of one is
`StateFile`'s, and a tracker that goes on from it is promised nothing. So `NoUnderflow`,
`ActiveLast`, `PersistedProgress` and the properties of `UploadSystem` on its data say
`~torn =>`: they hold as long as no save is cut. In the code a cut save can
break each of the first three, and what is stated on top of them.

Simplifications, all of them named in the modules: a track point of the device
is a count, of the server a number or its time; coordinates, the MAC and the text of
commands and messages are left out; a save of STATE.CSV is one step or cut except in
`StateFile`, and a point reaches the card whole; a time has a fraction of a second where
a property can tell (`TrackTime`, and `LiveView` in half seconds) and is left out
elsewhere; numbers are
unbounded except that `NoUnderflow` checks the unsigned subtractions and `TrackTime`
wraps the offsets (so `parse` does not fail for a number that does not fit into its
type, which takes a torn file that runs ten digits together).

## 3. Runs

| run | question | bounds |
|---|---|---|
| `tracker` | does the device ever forget, double or misread what it still has to upload? | 3 boots, 2 points per session, 1 point per message, 2 retries |
| `tracker_completed` | is a finished session complete? **No** (finding 1) | 2 boots, 2 points |
| `locks` | which deadlocks can the tasks get into, and does the device sleep without them? | 2 sessions per pass, 2 retries |
| `locks_stop` | does stopping always end? **No** (finding 2) | as above |
| `modem` | whose answer does a command get, and does every operation end? | 3 commands, 3 messages on the line |
| `store` | are rows, buffers and files one append-only store, and what do restarts, failures, two handlers on one session and the CLI cost? | 2 handlers, 1 reader, the CLI, 2 sessions, 2 points in 2 countries, at most 2 faults and commands together |
| `state_file` | what does a boot read of a STATE.CSV whose save was cut? | 8 old sessions and 3 boots, so ids of one and two digits; counts 1 and 9; 6 saves |
| `system` | does what the tracker counts, remembers and forgets agree with the server, and does a read of the receive buffer ever run past it? | 2 boots, 2 points, 3 connections, 1 retry |
| `system_ids` | is a remote id always one that this session was given? **No** (finding 3) | 1 boot, 1 point, 2 connections, no cut save |
| `time` | what can happen to the time of a point? | offsets 16, 2 fractions, times to 3 s, 2 fixes, 3 stored points, 2 connections, 2 restarts |
| `time_reconnect` | is a stored time that of the fix? **No** (finding 4) | as above, 1 restart |
| `live` | what does a page that polls end up showing? | one point in 3, 1 session, times to 5 s, 1 reconnect |

Why the bounds are enough.

* `tracker`: three boots give two leftover sessions, so a pass has a session
  before, at and after the one that fails, besides the active one; a session of two
  one-point messages can fail between its messages; two retries make a first and a
  last one. `Misreads` is here one file that counts more than was recorded, and in
  `system` one with an id nobody was given: a torn file ends the behaviour, so what it
  reads as does not matter further, and the proofs have any set of files.
* `store`: two handlers make every pair of server operations overlap; a third adds
  only more of the same pairs, as an operation works on one session. Two points in
  two countries make the shortest race of the country list, and a list that was
  overwritten. Two faults are a failure followed by a restart, a restart during
  what a restart left, and a fault beside a command of the CLI (`FewEvents` in
  `MCSessionStore`: faults and commands are at most two together). `QuietReaders` leaves
  out the reader once something has disturbed: it changes nothing, and what it is promised
  ends there.
* `state_file`: what can go wrong is that a number gets a digit longer and moves what
  stands behind it. The local ids cross from one digit to two, the remote ids have one
  and two, the counts cross with the ninth point; three sessions are one before, one at
  and one after the line that changes; six saves are a cut one between whole ones.
* `modem`: the answer of one command can be late by two and an operation of two
  commands (`cip_send_bytes`) can be the first or the last of three. Three messages on
  the line are enough for one to overtake the caller and replace what is in the signal,
  and for a prompt with an unrelated report and an answer behind it.
* `system`: three connections are the one that lingers, the one that reconnects
  beside it and the one of the next session. Lengths are scaled from 16, 8 and 1
  bytes to 4, 2 and 1 units, which keeps what matters: a nonce is two ids and more
  than the one byte. `Interesting` in `MCUploadSystem` leaves out states whose
  combinations are covered by `tracker`: the shutdown, a fix in the middle of
  connecting, and three connections with more than one point per session; and what
  the server does after a save was cut.
* `time`: the range of the offsets (16) is several times the longest duration
  (3), as it is in the program (194 days), and small enough for a point before its
  start to wrap. Two fractions give a time before, at and after another in the same
  second. The card, the buffer file and the row can take a second each from
  different pairs of times; every error that `KnownErrors` allows is reached, and the
  second restart shows that a restart's loss does not repeat.
* `live`: one session, as sessions share only the loop, and more points than two
  updates need with one point in three instead of six. One reconnect makes points
  without and with a fraction, the latter with the former sent again or not. The points
  of a session the page shows are bounded by the times and `MaxShown`; a last point that
  comes again at each poll is kept in a set, for the page would grow for ever.

What is bounded in the guards (boots, points, sessions, commands, connections,
crashes, times) is unbounded in the code, and nothing else is bounded.

Fairness. Three specifications have it. `DeviceLocks`: weak fairness of the tasks (an
executor polls what is ready; every modem command has a timeout and the card is
accessed without an await) and strong fairness for taking a mutex, as a release
wakes who waits and every holder soon releases; none for the wake pin. Nothing is
assumed of the modem: the answers that are unwrapped
(`E/services/gnss_service.rs:83`, `E/services/modem/modem_service.rs:95`) may be
errors, and the panic that follows stops the tasks of its core; the two liveness
properties name it as the other way a shutdown ends. `ModemLink`: weak fairness of the two
timeouts and of nothing else. `LiveView`: the page's loop goes on, and a request that
is made again and again succeeds in the end at each of its stages; nothing of the
tracker. The card is assumed not to fail (every access is unwrapped; a panic is, for
the data, a power loss).

Deadlock checking is off where the system really stops: in `locks` and `locks_stop`
the device ends in deep sleep, in the panic handler or in the deadlock that is being
classified; in `store` a server whose file is torn stays down; in `state_file` a boot
may panic; and in these and in `modem`, `system`, `system_ids`, `time` and
`time_reconnect` everything stops when the bounded commands, boots, saves, connections
or seconds are used up.

## 4. Findings

1. `tracker_completed`: `upload_actor` counts the points of a session
   (`upload_service.rs:165`), uploads them, and then reads the terminator (`:214`)
   under the comment "Missing is now 0" (`:212`). A point recorded in between is
   never sent: the session is finished and leaves STATE.CSV, and will "never be
   visited again" (`upload_status.rs:58`). Sessions of earlier boots are not
   affected (`OldSessionsComplete` holds).
2. `locks_stop`: `add_active_session` locks the status and then the storage
   (`upload_service.rs:74-76`), the saves of the upload actor the storage and then
   the status (`:188`, `:209`, `:289`). If the first fix meets a save, both actors
   wait for good, the log stops, and the shutdown waits for the GNSS actor for
   good, where "200 secs minutes max after stop" (`:111`) is promised.
   `OnlyCrossedLocks` shows that this is the only deadlock.
3. `system_ids`: nothing empties the receive buffer between connections. A
   nonce that comes after its read has timed out (3 s) and before the connection is
   closed is read by the next connection, whose own nonce is then read as the session
   id (`upload_service.rs:440`) and saved in STATE.CSV.
4. `time_reconnect`: the tracker encodes times against its first fix. A fresh
   handler decodes against that (`tracker_endpoint.rs:98`), a reconnected one against
   the registration (`:109`): its points are late by the time between the two.
   `KnownErrors` shows that this, up to two seconds lost with fractions, and whole ranges
   of the offset are all that can go wrong with a time. (`TimesTrue` allows for the
   fractions, so that what violates it is the reconnect.)

Not findings, as no text of the repository promises otherwise, but worth knowing:

* A session that the server refuses to end holds up all later ones (that is what
  `FinishInOrder` says the other way round). The server refuses to end a session
  twice, so a lost last answer is enough.
* STATE.CSV is overwritten in place. A save that is cut while a line gets longer or
  goes away leaves the head of the new text before the tail of the old one: a line
  whose fields `parse` unwraps is no number, and then every later boot panics; or two
  entries are merged into one (`1,5,9` and `2,7,3`, cut while the 9 becomes 10, read
  as `1,5,102,7,3`: session 1 with 102 points uploaded, more than it has, so that
  `upload_service.rs:166` underflows, and session 2 forgotten). A finish that is cut
  can leave a session with the remote id of another. `WrittenLinesAreRead` says what
  is safe even so, `SavedIsRead` that a save that completes mends the file.
  `Tracker`'s and `UploadSystem`'s properties except what follows such a cut.
* A restart of the server inside `end_session`, or a query of it that fails, can lose a
  session's points or leave an active row without a buffer; so can a failing
  registration leave one, and nothing else does (`OrphanOrigins`,
  `FaultsLoseOnlyClosing`) but `FixTime` of a session that is live. For as long as
  there is one the session list of its trip fails.
* A buffer file that was cut, or written in part, is refused by `Buffer::load`; the
  server then does not start (`start` is unwrapped in `server/src/main.rs`) until
  somebody removes the file. The points of all sessions are still in their files.
* When `close_session` cannot delete the file, the buffer is gone from the map: the
  session can be neither read nor ended until the next restart loads it again.
* The endpoint's check that nobody else sends on a session only warns; two handlers
  on one session can lose points only of a session that is being ended or has been
  (`LiveSessionsKeep`).
* Two connections that enter new countries at once can lose one of them from the trip's
  list until a later point lies there; `AddGpx` races the list in the same way. Of the
  operations modelled nothing else does (`CountriesListed` excludes the overlap), but
  `RedoCountries`, which is left out (section 6), drops countries too.
* Two handlers that append to one ended session at once can lose the points of one, as
  `append_track_points` reads the blob and writes it back. No property is about it:
  `PointsKept` holds until two handlers work on one session, `LiveSessionsKeep` is about
  active ones.
* The prompt `>` is known only when nothing stands behind it. If a fix or an answer
  follows before the monitor reads, everything up to the next `OK` is taken as one
  message: the prompt is never seen, and the fix is lost.
* `GNSSService::stop` and `ModemService::stop` unwrap what the modem answers. A modem
  that does not answer leaves the tracker in the panic handler, with the second core
  running, instead of in deep sleep.
* Points count as uploaded when the modem has taken them. `CountedAccounted`
  holds with the ghost `lost`, the points that died with a connection after that:
  those are never sent again.
* After one command has timed out, its late answer is taken for that of the next
  command, whose answer for that of the one after it, until an answer is lost or
  overwritten (`AnswersLate` bounds it): `Ok` then does not mean that this command
  succeeded.
* A point before the start it is encoded against comes back a whole range
  (2^24 s) later (`DecodedInRange`).
* Times with a fraction. The registration is `Utc::now()`, and every point of a
  reconnected handler has its fraction, but the buffer file's header has none
  (`buffer.rs:50`) and an offset is whole seconds (`track_point.rs:70`). So after a
  restart of the server, a point of a fresh connection that was fixed after the
  registration can be a second early, and the end of a session takes a
  second from a point whose fraction is smaller than that of the first one. The losses do
  not add up beyond two seconds (`KnownErrors`, `EndKeepsLater`).
* Behind a reconnect the last point of the page has such a fraction. The page asks from
  its whole second (`frontend/src/main.rs:114`) and the server skips what is not later
  (`buffer.rs:66`), so every poll brings that point again, and when fewer than six
  later ones are there nothing else: the page repeats its last point every six seconds
  and stays up to five points behind until more come or the session ends. `ShownOnce` and
  `CatchesUp` say that it is this point only, and no more behind than that.
* When points are sent again with times the page has passed, its updates bring points it
  has, as `skip_while` stops at the first later point: `ShownOnce` is about sessions
  whose seconds ascend. The page
  shows one point in six, and of a session that has ended up to five points at its end
  are missing (`EndedTail`). The front end's own `filter_anomalies` changes
  nothing, and the server's does not look at times, though its comment says so.

## 5. Proofs

Every state property and every action property of the passing runs is also a theorem,
for every value of the constants. The pattern is the same
everywhere: hardly one of the properties is inductive, so an invariant is stated that is
(named parts, each about one thing), every action has a lemma that it preserves it,
with a step per part the action can disturb, and the theorems follow. What is assumed
are the `ASSUME`s of the modules, which say that bounds are natural numbers, that
message size, retries, `Step` and the range of the offset are positive, that special
values are not ordinary ones, and no more; each theorem with a further hypothesis is
marked below. TLC finds each inductive invariant true
within the bounds of its module's run, except that of `StateFileProofs`: it says that
there is an old text that the file still has the end of, which TLC cannot enumerate.

`UploadSystemProofs`, first part (`Tracker`; nothing of what `UploadSystem` assumes is used).
- `TypeCorrect`, `NeverUnderflows`, `ActiveAlwaysLast`, the last two for as long as no save
  is cut (after a cut the memory is gone, `TornInv`). `NoUnderflow` needs to know
  that what is added to a session's count at the end of its upload is what was missing
  from it then: that the clone's entry still bounds the status's entry (`CloneInv`),
  which in turn needs the entries to be without duplicates (`ActiveLast`), which needs
  that the session of this boot is not in the status before `add_active_session`
  (`GnssInv`); the type of `retries` needs that an actor that goes on has some left
  (`RetriesInv`). `Inv` is their conjunction.
- `SavedAlwaysInSync`: `SavedInSync` is inductive as it stands, as every change of the
  status takes the actor to the step that saves it, and `add_active_session` changes both.
- `OldSessionsAlwaysComplete`, `AlwaysFinishesInOrder` rest on `PassInv`. A pass works
  from a clone and the GNSS actor may add a session to the status at any moment, so the
  invariant relates the two: what the pass has ahead of it and the active session are
  exactly what the status holds (`AheadInv`), until the pass comes to an entry it is
  the same in both (`SameInv`), and the count read at the head of the loop is still that
  of the file unless it is this boot's session (`CountInv`). That the session added
  under a pass is newer than all of the clone's makes the pass blind to it.
- `PersistedAlwaysProgresses`: with `CardInv`, the status is as far as STATE.CSV or
  further in every entry but the one whose finish is being saved. A step that cuts a save is
  excepted; that most saves cannot be torn is `AtomicUnlessShiftedAlways` below.

`StateFileProofs` (`StateFile`): what the code writes is what it reads, for numbers of any
length and any number of lines, and all state properties.
- The text and its reading are recursive, so this is induction over data. The library's
  induction theorems have an operator as parameter and cannot be used, but what it says of
  sets can: that finite sets are well founded by inclusion gives a least element to
  every set of numbers (`LeastNumber`), with that induction over the numbers that are in
  a set (`Induction`, `StrongInduction`), and with that the function a recursive
  definition describes (`Recursion`). So `Digits`, `Number`, `Lines` and `FlattenSeq` are
  known to satisfy their equations.
- `NumberOfDigits`: the digits of a number are read as the number. From it and from where
  the separators of a line can be, `TextReads`: a text, padded or not, is read as the
  status it was made of; and `TextReadsFirst`: whatever stands behind a text, its lines
  are read first.
- `Inductive`: `IInv` says what the card holds at every write of a save. There is a text
  `old` that was on the card when the save began, and the writes done so far overwrite
  its beginning (`Torn`); after a cut the rest is lost beyond the old length (`Kept`).
  If nothing had been cut before, `old` is the text of the last save, with zeros.
- `TypeCorrect`, `SavedIsReadAlways`, `WrittenLinesAreReadAlways` and
  `AtomicUnlessShiftedAlways` follow. The first needs that a boot reads entries
  even from a torn file; the second that a save writes at least as much as the file has; the
  last that every write but one puts back what is there, so that the file has the old text
  or the new one whichever write is the last; and that of an added line, which lies beyond the
  old length, nothing is kept before the flush.

`UploadSystemProofs`, second part (`UploadSystem`; assumption `SystemAssumption`: the
server's ids, and the number that misread bytes make, are ids a tracker can be given).
- `ImplementsTracker`: `SystemSpec => Spec`, so that all of the above holds with the link
  and the server in place.
- `PopsAlwaysInside`, from `ReaderInv`, `ChannelInv` and `RoomInv`. A notification may be
  out of date, as the monitor pushes and signals between the reset and the pop: what it
  promises is there or at least a nonce is (`Promised`), which is as long as any read. What
  can be on a link and in the receive buffer at which point of the conversation is the rest. The buffer is one sequence for all
  connections, so it has to be said what an earlier connection can leave there (only its
  nonce, `InboxInv`), that at most one answer is under way (`DownInv`) and that a question
  is the last thing said (`AskInv`).
- `SessionsAlwaysPure`, `OrphansAlwaysEmpty`, `CountedAlwaysAccounted`,
  `AlwaysForgetsOnlyEnded`, all for as long as no save is cut, from `DataInv`: a remote id in the status, the clone, STATE.CSV
  or a hello on its way is the server's own for that local session, or the misread number,
  which no session has (`OwnInv`); whom the actor talks to serves the session it
  talks about (`PartnerInv`); points under way are of the session that is served and
  STATE.CSV refers to it (`CarryInv`); what has been sent of a session is stored, under way
  or lost (`SentInv`).
- `AlwaysOncePerConnection`, from `OrderInv`, `SentBefore` and `OnceInv`: a connection
  brings points in the order of their numbers and none that it has brought.

`SessionStoreProofs` and `TripStoreProofs` (`SessionStore`): all its properties, from
`StoreInv` in `SessionStoreInv`. The first proves that every action keeps the parts that
hold whatever fails: which task is at which session (`PlaceInv`), that an append that
goes to the row found it ended (`InactiveInv`), that the points of an active row are in
its file and its buffer or with the handler that ends it (`KeepInv`), that what an append
brings is nowhere yet (`FreshInv`), that a buffer has no stored point its file has not
(`FilesInv`), and that the list being written is the one that was read and more
(`CountriesInv`). `TripStoreProofs` adds `QuietInv`, what holds until something
disturbs: one handler per session (`AloneInv`), how rows and buffers go together
(`RowInv`), what is written back (`BatchInv`) and what readers have (`ReadInv`). Then:
`TypesAlwaysOK`, `PointsAlwaysKept`, `ReadAlwaysComplete`, `ActiveAlwaysHasBuffer`,
`CountriesAlwaysListed`, `LiveSessionsAlwaysKeep`; the action properties
`OrphansOnlyFrom` and `FaultsAlwaysLoseOnlyClosing`; and the refinement
`ImplementsStore`, step by step: the append of a point to a live session happens when
the buffer has it, to an ended one when the row is written, the end of a session when
its buffer is closed, and every other step changes nothing of the abstract store.

`ModemLinkProofs` (`ModemLink`): all state properties. `Inv` adds to
`AnswersInOrder` that the answers not yet taken ascend as well, from the log through
the signal and the lines on the way to what the modem still owes (`AnswerInv`); to
`OwnUrcs` that a result code is in one place only, still to come, on a line or taken
(`UrcInv`); to `OneshotsRemoved` where in its operation the caller is (`OpInv`,
`SubscriberInv`). `AnswersLate` follows from `AnswersInOrder` by counting: of the
commands up to `c`, those answered have different answers, none above `c`'s own, so
there are at most that many, and the others have given up.

`DeviceLocksProofs` (`DeviceLocks`): `MutualExclusion` (no mutex has two holders) and
`TypeCorrect` from `LockInv`, and from them `AlwaysOnlyCrossed`. A set of tasks that is
deadlocked without the crossed order is refuted mutex by mutex: a task that waits while
it holds the storage is the upload actor in a save, which waits for the status, which
only `add_active_session` holds while it waits; without that no waiting task holds the
storage, then none the status, then none the modem or the state, so the upload actor
waits for nobody, and `main`, which waits for the actors, is left alone.

`TrackTimeProofs` (`TrackTime`).
- The codec, for any range and any fractions: of a time that lies in the range a written
  start gives back what `Kept` says, whole seconds, one less where the start was later in
  its second (`CodecRoundTrip`); what is decoded lies in the range whatever was encoded
  (`DecodedInRange`); and points none of which is before the first come back from a row
  so (`RowRoundTrip`).
- `ErrorsAlwaysKnown`, from `TimeInv`, for any range, however short. What is stored is
  raw, as a handler decoded it, with the start it counted from and at most one second lost
  on the card, or worn, when it has been through one more codec: then it has no fraction
  and can lose nothing more, which is why restarts and the row do not add up. The
  lemmas are on remainders: each codec keeps a time up to whole ranges.
- `EndAlwaysKeepsLater`, with the hypothesis `2 * MaxTime < Offsets`: a session shorter
  than half the range, 97 days, ended before any restart. Beyond that a time that a reconnect has moved (`Drift`)
  may lie more than a range after the first one and wraps in the row. `EarlyInv` says that
  before a restart nothing has wrapped.

`LiveViewProofs` (`LiveView`), from `ViewInv`. `AlwaysShownOnce` needs that a request
asks from the last second the page shows while it is under way (`AskInv`) and that its answer
is later than that second and in order (`AnswerInv`), so that it is later than what the page
has or begins with its last point, which then has a fraction; `AlwaysEndedTail` that an update that says the
session has ended was read after the end and reaches the last points (`EndInv`). The
lemmas say what `step_by`, `skip_while` and `filter_anomalies` return for every sequence and
every `Step`.

Only model-checked: liveness, `SleepsUnlessCrossed`, `OperationsEnd` and `CatchesUp`.
Fairness and ENABLED are beyond the prover.

## 6. Not modelled, and the plan

Not modelled because there is nothing to check: LEDs, battery, configuration, the
hash, rendering, the formats of GPX and TSF, the polygon lookup, routing and TLS. Not
modelled although it has state: the map of connections of the endpoint (it feeds only
a warning), the banned addresses (nothing fills them), visits, and the log's queue of
ten messages, which is cleared when it is full (what it loses is only text).
`RedoCountries` is left out too: it computes the list of every trip from the rows
alone, so that the countries only a live session has been in are dropped from it.

Planned, in this order:

1. The capacities of the receive buffers (256 and 1024 bytes) and what fills them.
2. `RedoCountries` beside live sessions.
3. A power loss inside the append of a point on the card.

Proof to add: that every pass after `terminate` uses up a retry or ends, the bound that
the liveness of `DeviceLocks` rests on.
