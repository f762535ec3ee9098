---------------------------- MODULE UploadStatus ----------------------------
(***************************************************************************)
(* The upload status of the tracker: the vector of sessions that still     *)
(* have to be brought to the server, kept in memory behind a mutex and     *)
(* written to STATE.CSV, one line per session                              *)
(* (services/comms/upload_status.rs).  Local ids are positive integers,    *)
(* remote ids are the server's session ids; NoRemote is the "?" of the     *)
(* file, a session the server has not named yet.                           *)
(***************************************************************************)
EXTENDS Integers, Sequences

CONSTANTS
    RemoteIds,      \* session ids the server hands out
    NoRemote        \* Option::None

ASSUME NoRemoteAssumption == NoRemote \notin RemoteIds

LocalIds == Nat \ {0}

SessionUploadStatus ==
    [local : LocalIds, remote : RemoteIds \cup {NoRemote}, uploaded : Nat]

Statuses == Seq(SessionUploadStatus)

LocalsOf(status) == {status[i].local : i \in DOMAIN status}

\* The setters look for the first entry of a session and stop there.
IsFirst(status, id, i) ==
    /\ status[i].local = id
    /\ \A k \in 1..(i - 1) : status[k].local # id

AddSession(status, id) ==
    Append(status, [local |-> id, remote |-> NoRemote, uploaded |-> 0])

SetRemoteSessionId(status, id, remote) ==
    [i \in DOMAIN status |->
        IF IsFirst(status, id, i) THEN [status[i] EXCEPT !.remote = remote]
                                  ELSE status[i]]

AddUploaded(status, id, n) ==
    [i \in DOMAIN status |->
        IF IsFirst(status, id, i) THEN [status[i] EXCEPT !.uploaded = @ + n]
                                  ELSE status[i]]

RemoveAt(status, i) ==
    [j \in 1..(Len(status) - 1) |-> status[IF j < i THEN j ELSE j + 1]]

\* Vec::retain(|s| s.local_id != id).  No two entries share a local id
\* (Ascending, an invariant of Tracker), so there is at most one to drop.
FinishSession(status, id) ==
    IF id \in LocalsOf(status)
    THEN RemoveAt(status, CHOOSE i \in DOMAIN status : status[i].local = id)
    ELSE status

\* Every boot opens a session with a fresh, larger id and appends it, so the
\* lines of the file are in the order of the ids and the last one is the active
\* session, if it is there at all ("The last line must be the active session,
\* if any", upload_status.rs:24).
Ascending(status) ==
    \A i, j \in DOMAIN status : i < j => status[i].local < status[j].local
=============================================================================
