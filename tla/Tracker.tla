------------------------------ MODULE Tracker -------------------------------
(***************************************************************************)
(* The tracker device as its data sees it: the SD card (session files and  *)
(* STATE.CSV), the GNSS actor that appends points to the session of this   *)
(* boot, the upload actor that brings the points of all unfinished         *)
(* sessions to the server, the ordered shutdown before deep sleep and      *)
(* power loss at any moment.                                               *)
(*                                                                         *)
(* What the modem and the network do is an outcome of the step that talks  *)
(* to them: it returns Ok or the `?` of the code leaves the pass.          *)
(* UploadSystem gives those outcomes a TCP link and a server.              *)
(*                                                                         *)
(* A step is what a task does between two awaits at which another task     *)
(* can change what it reads.  The mutexes themselves are DeviceLocks'.     *)
(***************************************************************************)
EXTENDS UploadStatus

CONSTANTS
    MaxBoots,       \* bound: boots, so local sessions
    MaxPoints,      \* bound: points recorded per session
    Batch,          \* MAX_TRACK_POINTS_PER_MESSAGE
    Retries,        \* RETRIES_AFTER_STOP
    Misreads        \* what a boot may read back of a STATE.CSV cut in the saving

ASSUME BoundsAssumption ==
    MaxBoots \in Nat /\ MaxPoints \in Nat
ASSUME MisreadsAssumption == Misreads \subseteq Statuses
ASSUME CodeConstantsAssumption ==
    Batch \in Nat \ {0} /\ Retries \in Nat \ {0}

VARIABLES
    \* SD card, survives power loss
    boots,          \* directories under SESSIONS; the last one is this boot's
    started,        \* sessions whose file has its 8 byte start time
    points,         \* points in the file of each session
    stateFile,      \* STATE.CSV, as a boot reads it
    torn,           \* STATE.CSV was cut inside a save and has been neither text since
    \* system control
    phase,          \* "off", "run", "stopGnss", "stopUpload"
    uploadSwitch,   \* the upload dip switch
    \* gnss_monitor_actor
    gnss,           \* where it is
    hasFix,         \* has_recevied_data
    joined,         \* upload_initialized
    \* UploadService and upload_actor
    status,         \* upload_status
    upload,         \* where the actor is
    clone,          \* status_clone
    cur,            \* the session of the for loop, an index of clone
    count,          \* track_point_count
    sent,           \* points of this session the modem took in this upload_data
    connected,      \* connected_session_id, 0 for None
    retries,        \* finish_retries_left
    netState        \* DeviceState.is_net_connected: "none", "down", "up"

cardVars == <<boots, started, points, stateFile, torn>>
gnssVars == <<gnss, hasFix, joined>>
passVars == <<clone, cur, count, sent>>
uploadVars == <<status, upload, clone, cur, count, sent, connected, retries, netState>>
sysVars == <<phase, uploadSwitch>>
vars == <<cardVars, sysVars, gnssVars, uploadVars>>

-----------------------------------------------------------------------------

\* get_local_session_id()
Active == boots

Terminating == phase = "stopUpload"     \* of the upload actor's terminator

Session == clone[cur]

\* track_point_count - session.uploaded, a usize subtraction
Missing == count - Session.uploaded

IsLast == cur = Len(clone)

NoPass == /\ clone = <<>>
          /\ cur = 1
          /\ count = 0
          /\ sent = 0

Init ==
    /\ boots = 0
    /\ started = {}
    /\ points = [id \in 1..MaxBoots |-> 0]
    /\ stateFile = <<>> /\ torn = FALSE
    /\ phase = "off"
    /\ uploadSwitch \in BOOLEAN
    /\ gnss = "off" /\ hasFix = FALSE /\ joined = FALSE
    /\ status = <<>> /\ upload = "off"
    /\ NoPass
    /\ connected = 0 /\ retries = Retries /\ netState = "none"

-----------------------------------------------------------------------------
\* Power, boot and shutdown.

\* main and the start functions of the services: a new session directory with
\* the next free id, STATE.CSV read back, both actors spawned.  A torn STATE.CSV
\* is where this module ends: parse panics on it or makes up entries, which ones
\* is what StateFile computes, and a tracker that goes on from them is promised
\* nothing.
StartSession(id, entries) ==
    /\ phase = "off" /\ ~torn /\ boots < MaxBoots
    /\ boots' = id
    /\ phase' = "run"
    /\ gnss' = "loop" /\ hasFix' = FALSE /\ joined' = FALSE
    /\ status' = entries
    /\ upload' = "wait"
    /\ clone' = <<>> /\ cur' = 1 /\ count' = 0 /\ sent' = 0
    /\ connected' = 0 /\ retries' = Retries
    /\ netState' = IF uploadSwitch THEN "down" ELSE "none"
    /\ UNCHANGED <<started, points, stateFile, torn, uploadSwitch>>

\* Mutants: the newest directory is used again; STATE.CSV is not read back.
MutBootSameId == StartSession(IF boots = 0 THEN 1 ELSE boots, stateFile)
MutBootForgets == StartSession(boots + 1, <<>>)

Boot == StartSession(boots + 1, stateFile)

MemoryGone ==
    /\ phase' = "off"
    /\ gnss' = "off" /\ hasFix' = FALSE /\ joined' = FALSE
    /\ status' = <<>> /\ upload' = "off"
    /\ clone' = <<>> /\ cur' = 1 /\ count' = 0 /\ sent' = 0
    /\ connected' = 0 /\ retries' = Retries /\ netState' = "none"

\* Everything in memory is gone; what was flushed to the card is not.
LoseMemory ==
    /\ MemoryGone
    /\ UNCHANGED <<cardVars, uploadSwitch>>

PowerLoss == phase # "off" /\ LoseMemory

\* A task is in write_upload_status.
Saving == \/ upload \in {"saveId", "saveUploaded", "saveFinish"}
          \/ gnss = "join" /\ ~joined /\ uploadSwitch

\* Power is lost between two of the writes of a save, which is one step of the
\* actions below: before its first write the file is the old one and after its
\* last the new one (PowerLoss before or after the step), but in between it can
\* read as something else.  StateFile goes through a save write by write and says
\* which saves have no such moment; here any save may be cut, into any of Misreads.
CutSave ==
    /\ Saving
    /\ MemoryGone
    /\ torn' = TRUE
    /\ stateFile' \in Misreads
    /\ UNCHANGED <<boots, started, points, uploadSwitch>>

\* detect_sleep saw the wake pin low: stop_services, last service first, so
\* the GNSS service disables the receiver and terminates its actor.
StopGnss ==
    /\ phase = "run"
    /\ phase' = "stopGnss"
    /\ UNCHANGED <<cardVars, uploadSwitch, gnssVars, uploadVars>>

\* The GNSS actor has signalled; the upload service sets its terminator.
StopUpload ==
    /\ phase = "stopGnss" /\ gnss = "done"
    /\ phase' = "stopUpload"
    /\ UNCHANGED <<cardVars, uploadSwitch, gnssVars, uploadVars>>

\* The upload actor has signalled: NETCLOSE, the remaining services stop, the
\* session file is closed and the chip goes to deep sleep.
Sleep == phase = "stopUpload" /\ upload = "done" /\ LoseMemory

FlipSwitch ==
    /\ uploadSwitch' = ~uploadSwitch
    /\ UNCHANGED <<cardVars, phase, gnssVars, uploadVars>>

-----------------------------------------------------------------------------
\* gnss_monitor_actor

\* The head of the loop: terminate, or wait for the next +CGNSSINFO.
GnssTerminate ==
    /\ gnss = "loop" /\ phase = "stopGnss"
    /\ gnss' = "done"
    /\ UNCHANGED <<cardVars, sysVars, hasFix, joined, uploadVars>>

GnssReceive ==
    /\ gnss = "loop" /\ phase = "run"
    /\ gnss' = "receive"
    /\ UNCHANGED <<cardVars, sysVars, hasFix, joined, uploadVars>>

\* A 2 s timeout, no valid fix in the text, or the previous timestamp again.
GnssNothing ==
    /\ gnss = "receive"
    /\ gnss' = "loop"
    /\ UNCHANGED <<cardVars, sysVars, hasFix, joined, uploadVars>>

\* A fix with a new timestamp, which may be received after the terminator is set.
GnssFix ==
    /\ gnss = "receive"
    /\ points[Active] < MaxPoints
    /\ gnss' = IF hasFix THEN "join" ELSE "start"
    /\ UNCHANGED <<cardVars, sysVars, hasFix, joined, uploadVars>>

\* set_start_time on the first fix
GnssStart ==
    /\ gnss = "start"
    /\ started' = started \cup {Active}
    /\ hasFix' = TRUE
    /\ gnss' = "join"
    /\ UNCHANGED <<boots, points, stateFile, torn, sysVars, joined, uploadVars>>

\* add_active_session, once per boot and only with the switch on
GnssJoin ==
    /\ gnss = "join"
    /\ gnss' = "append"
    /\ IF ~joined /\ uploadSwitch
       THEN /\ status' = AddSession(status, Active)
            /\ stateFile' = status'
            /\ joined' = TRUE
       ELSE UNCHANGED <<status, stateFile, joined>>
    /\ UNCHANGED <<boots, started, points, torn, sysVars, hasFix, upload, passVars,
                   connected, retries, netState>>

\* append_track_point, flushed before the lock is released
GnssAppend ==
    /\ gnss = "append"
    /\ points' = [points EXCEPT ![Active] = @ + 1]
    /\ gnss' = "loop"
    /\ UNCHANGED <<boots, started, stateFile, torn, sysVars, hasFix, joined, uploadVars>>

Gnss ==
    \/ GnssTerminate \/ GnssReceive \/ GnssNothing
    \/ GnssFix \/ GnssStart \/ GnssJoin \/ GnssAppend

-----------------------------------------------------------------------------
\* upload_actor.  A pass goes over a clone of the status; Err(_) leaves it.

Outside == <<cardVars, sysVars, gnssVars>>

Fail == /\ upload' = "failed"
        /\ UNCHANGED <<Outside, status, passVars, connected, retries, netState>>

\* Switched off: NETCLOSE, and connected_session_id is left as it is.
UploadDisabled ==
    /\ upload = "wait" /\ ~uploadSwitch
    /\ IF Terminating
       THEN upload' = "done" /\ UNCHANGED netState
       ELSE upload' = "wait" /\ netState' = "none"
    /\ UNCHANGED <<Outside, status, passVars, connected, retries>>

UploadBegin ==
    /\ upload = "wait" /\ uploadSwitch
    /\ upload' = "next"
    /\ clone' = status /\ cur' = 1
    /\ UNCHANGED <<Outside, status, count, sent, connected, retries, netState>>

\* The head of the for loop: the count is read before anything is sent.
NextSession ==
    /\ upload = "next" /\ cur <= Len(clone)
    /\ count' = points[Session.local]
    /\ sent' = 0
    /\ upload' = IF connected = Session.local THEN "data" ELSE "open"
    /\ UNCHANGED <<Outside, status, clone, cur, connected, retries, netState>>

PassDone ==
    /\ upload = "next" /\ cur > Len(clone)
    /\ upload' = "passed"
    /\ netState' = "up"
    /\ UNCHANGED <<Outside, status, passVars, connected, retries>>

\* ensure_closed, then NETOPEN and CIPOPEN
OpenOk ==
    /\ upload = "open"
    /\ upload' = "hello"
    /\ UNCHANGED <<Outside, status, passVars, connected, retries, netState>>

\* The nonce came and the modem took the handshake: Reconnect(remote_id) expects
\* no answer, Connect(start_time) waits for the id of the new session.
HelloOk ==
    /\ upload = "hello"
    /\ IF Session.remote = NoRemote
       THEN upload' = "id" /\ UNCHANGED connected
       ELSE upload' = "data" /\ connected' = Session.local
    /\ UNCHANGED <<Outside, status, passVars, retries, netState>>

IdOk(remote) ==
    /\ upload = "id"
    /\ status' = SetRemoteSessionId(status, Session.local, remote)
    /\ upload' = "saveId"
    /\ UNCHANGED <<Outside, passVars, connected, retries, netState>>

\* Mutant: the new remote id is not written.
MutSaveId ==
    /\ upload = "saveId"
    /\ connected' = Session.local
    /\ upload' = "data"
    /\ UNCHANGED <<Outside, status, passVars, retries, netState>>

SaveId ==
    /\ upload = "saveId"
    /\ stateFile' = status
    /\ connected' = Session.local
    /\ upload' = "data"
    /\ UNCHANGED <<boots, started, points, torn, sysVars, gnssVars, status, passVars,
                   retries, netState>>

\* One message of upload_data: at most Batch points, counted as uploaded only
\* when the modem has taken them all.
ChunkSize == IF Missing - sent > Batch THEN Batch ELSE Missing - sent

ChunkOk ==
    /\ upload = "data" /\ sent < Missing
    /\ sent' = sent + ChunkSize
    /\ UNCHANGED <<Outside, status, upload, clone, cur, count, connected, retries, netState>>

CountUploaded(n) ==
    /\ upload = "data" /\ sent >= Missing
    /\ IF Missing > 0
       THEN /\ status' = AddUploaded(status, Session.local, n)
            /\ upload' = "saveUploaded"
       ELSE upload' = "settle" /\ UNCHANGED status
    /\ UNCHANGED <<Outside, passVars, connected, retries, netState>>

\* Mutant: all points of the file are added, not the missing ones.
MutDataDone == CountUploaded(count)

DataDone == CountUploaded(Missing)

SaveUploaded ==
    /\ upload = "saveUploaded"
    /\ stateFile' = status
    /\ upload' = "settle"
    /\ UNCHANGED <<boots, started, points, torn, sysVars, gnssVars, status, passVars,
                   connected, retries, netState>>

\* "Missing is now 0": finish the session if it gets no more points.
Settle ==
    /\ upload = "settle"
    /\ IF Terminating \/ Session.local # Active
       THEN upload' = "finish" /\ UNCHANGED cur
       ELSE upload' = "next" /\ cur' = cur + 1
    /\ UNCHANGED <<Outside, status, clone, count, sent, connected, retries, netState>>

\* finish_session: the 0 byte, the server's nonce and our signature, the answer 1.
FinishSent ==
    /\ upload = "finish"
    /\ upload' = "sign"
    /\ UNCHANGED <<Outside, status, passVars, connected, retries, netState>>

SignSent ==
    /\ upload = "sign"
    /\ upload' = "ack"
    /\ UNCHANGED <<Outside, status, passVars, connected, retries, netState>>

AckOk ==
    /\ upload = "ack"
    /\ status' = FinishSession(status, Session.local)
    /\ upload' = "saveFinish"
    /\ UNCHANGED <<Outside, passVars, connected, retries, netState>>

SaveFinish ==
    /\ upload = "saveFinish"
    /\ stateFile' = status
    /\ upload' = "next" /\ cur' = cur + 1
    /\ UNCHANGED <<boots, started, points, torn, sysVars, gnssVars, status, clone,
                   count, sent, connected, retries, netState>>

\* Mutants: a session that fails is skipped; a failed upload_data is not noticed.
MutSkipFailed ==
    /\ upload \in {"open", "hello", "id", "data", "finish", "sign", "ack"}
    /\ upload' = "next" /\ cur' = cur + 1
    /\ UNCHANGED <<Outside, status, clone, count, sent, connected, retries, netState>>
MutIgnoreFailed ==
    /\ upload = "data" /\ sent < Missing
    /\ upload' = "settle"
    /\ UNCHANGED <<Outside, status, passVars, connected, retries, netState>>

\* The modem, the network or the server let a step down: an AT error, CIPOPEN
\* refused, a read timeout, an answer other than 1.
LinkFails ==
    /\ \/ upload \in {"open", "hello", "id", "finish", "sign", "ack"}
       \/ upload = "data" /\ sent < Missing
    /\ Fail

\* Mutant: the connection is kept after a failure.
MutPassFailed ==
    /\ upload = "failed"
    /\ upload' = "passed"
    /\ netState' = "down"
    /\ UNCHANGED <<Outside, status, passVars, connected, retries>>

PassFailed ==
    /\ upload = "failed"
    /\ upload' = "passed"
    /\ connected' = 0 /\ netState' = "down"
    /\ UNCHANGED <<Outside, status, passVars, retries>>

EndPassWith(stop) ==
    /\ upload = "passed"
    /\ IF ~Terminating
       THEN upload' = "wait" /\ UNCHANGED <<retries, netState>>
       ELSE IF status = <<>>
            THEN upload' = "done" /\ netState' = "none" /\ UNCHANGED retries
            ELSE /\ retries' = retries - 1
                 /\ IF stop
                    THEN upload' = "done" /\ netState' = "none"
                    ELSE upload' = "wait" /\ UNCHANGED netState
    /\ UNCHANGED <<Outside, status, passVars, connected>>

\* Mutant: the last retry is not noticed.
MutEndPassNoLimit == EndPassWith(FALSE)

\* The end of the loop body; only a terminating actor counts its passes.
EndPass == EndPassWith(retries = 1)

Upload ==
    \/ UploadDisabled \/ UploadBegin \/ NextSession \/ PassDone
    \/ OpenOk \/ HelloOk \/ (\E remote \in RemoteIds : IdOk(remote)) \/ SaveId
    \/ ChunkOk \/ DataDone \/ SaveUploaded \/ Settle
    \/ FinishSent \/ SignSent \/ AckOk \/ SaveFinish
    \/ LinkFails \/ PassFailed \/ EndPass

-----------------------------------------------------------------------------

Next ==
    \/ Boot \/ PowerLoss \/ CutSave \/ StopGnss \/ StopUpload \/ Sleep \/ FlipSwitch
    \/ Gnss \/ Upload

Spec == Init /\ [][Next]_vars

-----------------------------------------------------------------------------
\* Properties

UploadPcs == {"off", "wait", "next", "open", "hello", "id", "saveId", "data",
              "saveUploaded", "settle", "finish", "sign", "ack", "saveFinish",
              "failed", "passed", "done"}

CardTypeOK ==
    /\ boots \in 0..MaxBoots
    /\ started \subseteq 1..MaxBoots
    /\ points \in [1..MaxBoots -> 0..MaxPoints]
    /\ stateFile \in Statuses /\ torn \in BOOLEAN

TasksTypeOK ==
    /\ phase \in {"off", "run", "stopGnss", "stopUpload"}
    /\ uploadSwitch \in BOOLEAN
    /\ gnss \in {"off", "loop", "receive", "start", "join", "append", "done"}
    /\ hasFix \in BOOLEAN /\ joined \in BOOLEAN
    /\ netState \in {"none", "down", "up"}

UploadTypeOK ==
    /\ status \in Statuses
    /\ upload \in UploadPcs
    /\ clone \in Statuses /\ cur \in Nat \ {0}
    /\ count \in Nat /\ sent \in Nat
    /\ connected \in 0..MaxBoots
    /\ retries \in 0..Retries

\* The variables have the types of the code; finish_retries_left, a usize, is
\* never counted below 0.
TypeOK == CardTypeOK /\ TasksTypeOK /\ UploadTypeOK

Stored(entries) ==
    \A i \in DOMAIN entries :
        /\ entries[i].local \in started
        /\ entries[i].uploaded <= points[entries[i].local]

\* The two subtractions on the upload path are unsigned: `size - 8` of a session
\* file (storage_service.rs:103) and `track_point_count - session.uploaded`
\* (upload_service.rs:166).  Neither underflows: in memory, in the pass's clone
\* and in what the next boot reads back, every session of the status has its
\* file holds, whatever gets lost on the link and whenever the power goes, unless
\* it goes inside a save and leaves STATE.CSV torn (a torn file may count more).
StatusStored == Stored(status) /\ Stored(stateFile) /\ Stored(clone)
NoUnderflow == ~torn => StatusStored

\* "The last line must be the active session, if any" (upload_status.rs:24): the
\* sessions are in the order of their ids without a duplicate, in memory and in
\* STATE.CSV, and none is newer than this boot's, so that the setters and retain
\* hit the one entry they mean.  A torn STATE.CSV is excepted.
StatusOrdered ==
    \A entries \in {status, stateFile} :
        Ascending(entries) /\ \A id \in LocalsOf(entries) : id <= boots
ActiveLast == ~torn => StatusOrdered

\* Between the saves of the upload actor the card agrees with memory, even though
\* the GNSS actor adds its session between any two of its steps: a power loss
\* between two saves costs nothing, and one before or after the writes of a save
\* at most the one change that is being saved.  (One among its writes can cost
\* more: CutSave.)
SavedInSync ==
    phase # "off" /\ upload \notin {"saveId", "saveUploaded", "saveFinish"}
        => stateFile = status

\* The entries of STATE.CSV are in `entries` too, as far or further, but for the one
\* whose finish has been acknowledged and is about to be saved.
AdvancesTo(entries) ==
    \A i \in DOMAIN stateFile :
        LET e == stateFile[i]
        IN \/ upload = "saveFinish" /\ e.local = Session.local
           \/ \E j \in DOMAIN entries :
                /\ entries[j].local = e.local
                /\ entries[j].uploaded >= e.uploaded
                /\ e.remote \in {NoRemote, entries[j].remote}

\* An entry of STATE.CSV is only ever advanced (its remote id set once and never
\* replaced, its count raised) until the session's finish is acknowledged: no
\* boot, failed pass or power loss forgets a session that was to be uploaded, or
\* opens a second server session for one that the file gives a remote id, but for
\* a power loss inside a save that leaves the file torn.
PersistedProgress == [][~torn' => AdvancesTo(stateFile')]_vars

\* Sessions are finished oldest first: a session leaves the status only when every
\* older one has left it.  (The price is that one session the server refuses to
\* end holds up all later ones.)
FinishInOrder ==
    [][upload = "ack" /\ upload' = "saveFinish" => Session.local = status[1].local]_vars

\* A session of an earlier boot is finished only after the modem has taken every
\* one of its points.
OldSessionsComplete ==
    upload \in {"finish", "sign", "ack"} /\ Session.local # Active =>
        \A i \in DOMAIN status :
            status[i].local = Session.local
                => status[i].uploaded = points[Session.local]

\* "Call this when a session has completed uploading. The session will never be
\* visited again." (upload_status.rs:58), called under "Missing is now 0"
\* (upload_service.rs:212): a session that leaves the status has all its points
\* counted as uploaded.  Violated: the count is read before the upload, and the
\* terminator that is read after it may have been set meanwhile.
CompletedUploading ==
    [][upload = "ack" /\ upload' = "saveFinish" =>
        \A i \in DOMAIN status :
            status[i].local = Session.local
                => status[i].uploaded = points[Session.local]]_vars

-----------------------------------------------------------------------------
\* What NoUnderflow and ActiveLast rest on, step by step: Inv is inductive as long
\* as no save is cut.

\* After a cut save the memory is gone and stays so.
TornInv == torn => phase = "off" /\ gnss = "off" /\ upload = "off"

InSession == upload \in {"open", "hello", "id", "saveId", "data", "saveUploaded",
                         "settle", "finish", "sign", "ack", "saveFinish"}
Counted == upload \in {"saveUploaded", "settle", "finish", "sign", "ack", "saveFinish"}

\* A session's file is started before its first point is, and this boot's session
\* is not in the status before add_active_session.
GnssInv ==
    /\ gnss # "off" => boots > 0
    /\ hasFix \/ gnss = "join" \/ gnss = "append" => boots \in started
    /\ gnss = "join" \/ gnss = "append" \/ gnss = "start" => points[boots] < MaxPoints
    /\ gnss # "off" /\ ~joined
        => \A entries \in {status, stateFile} : \A id \in LocalsOf(entries) : id < boots

\* The clone still describes what the pass has ahead of it: GNSS may have added
\* a session, but no entry the pass comes to has more uploaded than its clone.
CloneInv ==
    /\ Ascending(clone) /\ \A id \in LocalsOf(clone) : id <= boots
    /\ InSession => cur \in DOMAIN clone
    /\ InSession => Session.uploaded <= count /\ count <= points[Session.local]
    /\ InSession \/ upload = "next" =>
        \A i \in DOMAIN status, j \in DOMAIN clone :
            j >= cur /\ (j = cur => ~Counted) /\ status[i].local = clone[j].local
                => status[i].uploaded <= clone[j].uploaded

RetriesInv == upload # "done" => retries > 0

Inv == TypeOK /\ StatusStored /\ StatusOrdered /\ GnssInv /\ CloneInv /\ RetriesInv
-----------------------------------------------------------------------------
\* What OldSessionsComplete, FinishInOrder and PersistedProgress rest on besides:
\* PassInv is inductive together with Inv.

InPass == InSession \/ upload = "next"
Sent == upload \in {"saveUploaded", "settle", "finish", "sign", "ack"}
Unnamed == upload \in {"next", "open", "hello", "id"}

\* The clone's sessions the pass still has to finish.
Ahead(j) == j >= cur /\ (j = cur => upload # "saveFinish")

\* The status holds what the pass has ahead of it and the active session, nothing
\* else: what the pass has behind it is finished.
AheadInv ==
    /\ gnss # "off" /\ ~joined => \A id \in LocalsOf(clone) : id < boots
    /\ InPass =>
        /\ \A j \in DOMAIN clone : Ahead(j) => clone[j].local \in LocalsOf(status)
        /\ \A i \in DOMAIN status :
              \/ status[i].local = boots
              \/ \E j \in DOMAIN clone : Ahead(j) /\ status[i].local = clone[j].local

\* Until the pass comes to a session, its clone has the count and the remote id of
\* the status.
SameInv ==
    /\ InPass => \A i \in DOMAIN status, j \in DOMAIN clone :
        j >= cur /\ status[i].local = clone[j].local =>
            /\ (j = cur => ~Counted) => status[i].uploaded = clone[j].uploaded
            /\ (j = cur => Unnamed) => status[i].remote = clone[j].remote
    /\ upload = "id" => Session.remote = NoRemote

\* Only the file of this boot's session grows under the pass, and what was missing
\* of the session is in its count once the modem has it.
CountInv ==
    /\ InSession /\ Session.local # boots => count = points[Session.local]
    /\ Sent => \A i \in DOMAIN status :
        status[i].local = Session.local => status[i].uploaded = count

PassInv == AheadInv /\ SameInv /\ CountInv

\* A save advances the card.  (Where nothing is to be saved, SavedInSync says so.)
CardInv ==
    /\ phase = "off" => gnss = "off" /\ upload = "off"
    /\ phase # "off" => AdvancesTo(status)
=============================================================================
