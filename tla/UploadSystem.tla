---------------------------- MODULE UploadSystem -----------------------------
(***************************************************************************)
(* The tracker and the server: the steps of Tracker that talk to the       *)
(* network, over TCP connections that delay, lose and break, with one      *)
(* handle_connection task per connection on the server's store             *)
(* (server/src/tracker_endpoint.rs, services/comms/).                      *)
(*                                                                         *)
(* What the server sends ends up in one ConnectionBuffer of the modem      *)
(* service, which outlives the connections and is emptied only by reading  *)
(* exact lengths.  Lengths are scaled, 16 bytes of a nonce to 4 units, 8   *)
(* of a session id to 2, the 1 of the final answer to 1; a message of the  *)
(* server arrives whole; the upload switch is on.                          *)
(***************************************************************************)
EXTENDS Tracker, FiniteSets

CONSTANT MaxOpens       \* bound: connections ever opened

\* The ids the server can give out, and one that it does not, are numbers that the
\* tracker may read as an id.
ASSUME SystemAssumption == MaxOpens \in Nat /\ 1..(MaxOpens + 1) \subseteq RemoteIds

VARIABLES
    opens,          \* connections opened so far
    attached,       \* the modem's connection 0, 0 for none
    inbox,          \* ConnectionBuffer.buffer, units
    notifier,       \* ConnectionBuffer.notifier, 0 for no signal
    reader,         \* where read_exact_block is: "wait", "reset", "pop"
    available,      \* its local of that name, 0 where it is not needed
    up,             \* messages on their way to the server, per connection
    down,           \* messages on their way to the modem
    handler,        \* handle_connection: where the task of a connection is
    serving,        \* its session_id, 0 before the handshake
    sessions,       \* the server's sessions, in the order of their ids
    startedBy,      \* the local session whose start time opened each of them
    lost            \* points of messages that never reached a handler

trackerVars == vars
bufferVars == <<inbox, notifier, reader, available>>
serverVars == <<handler, serving, sessions, startedBy>>
linkVars == <<opens, attached, bufferVars, up, down, serverVars, lost>>
sysVarsAll == <<trackerVars, linkVars>>

-----------------------------------------------------------------------------
Conns == 1..MaxOpens

Store == INSTANCE TripStore WITH Batches <- {}, disturbed <- FALSE

SystemInit ==
    /\ Init /\ uploadSwitch = TRUE
    /\ opens = 0 /\ attached = 0
    /\ inbox = <<>> /\ notifier = 0
    /\ reader = "wait" /\ available = 0
    /\ up = [c \in Conns |-> <<>>] /\ down = [c \in Conns |-> <<>>]
    /\ handler = [c \in Conns |-> "none"] /\ serving = [c \in Conns |-> 0]
    /\ Store!Init /\ startedBy = <<>>
    /\ lost = {}

\* What the server sends, as units.
Nonce(c, use) == [i \in 1..4 |-> <<use, c, i>>]
SessionId(id) == [i \in 1..2 |-> <<"id", id, i>>]
Confirmation == << <<"one", 0, 1>> >>

\* i64::from_be_bytes of two units; anything but an id is a number that the
\* server has not given out.
Garbage == MaxOpens + 1
IdIn(units) == IF \E id \in Conns : units = SessionId(id)
               THEN CHOOSE id \in Conns : units = SessionId(id)
               ELSE Garbage

-----------------------------------------------------------------------------
\* The tracker's side of the link

\* ConnectionBuffer::write by the modem monitor, which runs on the other core: at
\* any moment but while the reader has the lock of the buffer, which is in Take.
Arrive ==
    /\ attached # 0 /\ down[attached] # <<>>
    /\ inbox' = inbox \o Head(down[attached])
    /\ notifier' = Len(inbox')
    /\ down' = [down EXCEPT ![attached] = Tail(@)]
    /\ UNCHANGED <<trackerVars, opens, attached, reader, available, up, serverVars, lost>>

\* The end of read_exact_block(n), under the lock of the buffer.  What has arrived
\* since the notification it acts on has left one of its own.
Take(n) ==
    /\ reader = "pop" /\ reader' = "wait"
    /\ inbox' = SubSeq(inbox, n + 1, Len(inbox))
    /\ UNCHANGED <<notifier, available>>

Expected == CASE upload \in {"hello", "sign"} -> 4
              [] upload = "id" -> 2
              [] upload = "ack" -> 1
              [] OTHER -> 0

\* notifier.wait() returns the length that was signalled and takes the signal.
Notice ==
    /\ reader = "wait" /\ Expected > 0 /\ notifier > 0
    /\ available' = notifier /\ notifier' = 0
    /\ reader' = "reset"
    /\ UNCHANGED <<trackerVars, opens, attached, inbox, up, down, serverVars, lost>>

\* notifier.reset(), which takes a signal of meanwhile as well, and the length: too
\* few units, and the read waits on.
ResetNotifier(enough) ==
    /\ reader = "reset"
    /\ notifier' = 0 /\ available' = 0
    /\ reader' = IF enough THEN "pop" ELSE "wait"
    /\ UNCHANGED <<trackerVars, opens, attached, inbox, up, down, serverVars, lost>>

\* Mutant: any notification is taken for the whole answer.
MutReset == ResetNotifier(TRUE)

Reset == ResetNotifier(available >= Expected)

\* NETCLOSE: what the server still sends is not received any more.
Detach ==
    /\ attached' = 0
    /\ down' = IF attached = 0 THEN down ELSE [down EXCEPT ![attached] = <<>>]

Members(seq) == {seq[i] : i \in DOMAIN seq}
PointsIn(messages) == UNION {Members(messages[i].points) : i \in DOMAIN messages}

\* The message of each sending step; the signatures cover the nonce as read.
NextChunk == [i \in 1..ChunkSize |-> <<Session.local, Session.uploaded + sent + i>>]
Message ==
    CASE upload = "hello" -> [kind |-> "hello", nonce |-> SubSeq(inbox, 1, 4),
                              remote |-> Session.remote, local |-> Session.local,
                              points |-> <<>>]
      [] upload = "data" -> [kind |-> "data", points |-> NextChunk]
      [] upload = "finish" -> [kind |-> "finish", points |-> <<>>]
      [] upload = "sign" -> [kind |-> "sign", nonce |-> SubSeq(inbox, 1, 4),
                             points |-> <<>>]

\* cip_send_bytes, as far as the modem has the bytes: it takes them for as long
\* as it thinks the connection is open.
Send(m) ==
    IF attached = 0 \/ handler[attached] = "ended"
    THEN lost' = lost \cup PointsIn(<<m>>) /\ UNCHANGED up
    ELSE up' = [up EXCEPT ![attached] = Append(@, m)] /\ UNCHANGED lost

Sending == \/ upload \in {"hello", "finish", "sign"}
           \/ upload = "data" /\ sent < Missing

\* A step that reads a nonce, if it needs one, and sends its message.
SendOk ==
    /\ Sending
    /\ HelloOk \/ ChunkOk \/ FinishSent \/ SignSent
    /\ IF Expected > 0 THEN Take(Expected) ELSE UNCHANGED bufferVars
    /\ Send(Message)
    /\ UNCHANGED <<opens, attached, down, serverVars>>

\* Mutant: upload_data goes on after an error.
MutSendFails == ChunkOk /\ UNCHANGED linkVars

\* The same, but cip_send_bytes reports an error: the message went out or did not.
SendFails ==
    /\ Sending /\ LinkFails
    /\ IF Expected > 0 THEN Take(Expected) ELSE UNCHANGED bufferVars
    /\ Send(Message) \/ UNCHANGED <<up, lost>>
    /\ UNCHANGED <<opens, attached, down, serverVars>>

\* NETOPEN or CIPOPEN failed, or a read timed out, at one of its awaits: for the
\* signal or for the lock.
NoAnswer ==
    /\ LinkFails /\ upload # "data"
    /\ reader # "reset" /\ reader' = "wait"
    /\ UNCHANGED <<opens, attached, inbox, notifier, available, up, down, serverVars, lost>>

\* ensure_closed and CIPOPEN; the server accepts and sends its nonce.
Open ==
    /\ OpenOk /\ opens < MaxOpens
    /\ opens' = opens + 1 /\ attached' = opens'
    /\ down' = [c \in Conns |-> IF c = opens' THEN << Nonce(c, "hello") >>
                                ELSE IF c = attached THEN <<>> ELSE down[c]]
    /\ handler' = [handler EXCEPT ![opens'] = "handshake"]
    /\ UNCHANGED <<bufferVars, up, serving, sessions, startedBy, lost>>

IdRead ==
    /\ Take(2)
    /\ IdOk(IdIn(SubSeq(inbox, 1, 2)))
    /\ UNCHANGED <<opens, attached, up, down, serverVars, lost>>

\* The answer is 1, or finish_session is an Err.
AnswerRead ==
    /\ upload = "ack" /\ Take(1)
    /\ IF SubSeq(inbox, 1, 1) = Confirmation THEN AckOk ELSE LinkFails
    /\ UNCHANGED <<opens, attached, up, down, serverVars, lost>>

\* The saves of finish_session and the ensure_closed after it
Finished ==
    /\ SaveFinish /\ Detach
    /\ UNCHANGED <<opens, bufferVars, up, serverVars, lost>>

\* The end of a pass; a stopping actor closes the connection.
PassEnds ==
    /\ EndPass
    /\ IF upload' = "done" THEN Detach ELSE UNCHANGED <<attached, down>>
    /\ UNCHANGED <<opens, bufferVars, up, serverVars, lost>>

\* Nothing of this touches the link.
Local ==
    /\ \/ Boot \/ StopGnss \/ StopUpload \/ Gnss \/ UploadBegin \/ NextSession
       \/ PassDone \/ SaveId \/ DataDone \/ SaveUploaded \/ Settle \/ PassFailed
    /\ UNCHANGED linkVars

\* The receive buffer is memory; a connection that is still open just falls silent.
PowerOff ==
    /\ PowerLoss \/ CutSave \/ Sleep
    /\ Detach /\ inbox' = <<>> /\ notifier' = 0 /\ reader' = "wait" /\ available' = 0
    /\ UNCHANGED <<opens, up, serverVars, lost>>

-----------------------------------------------------------------------------
\* The network and the server

\* The task of connection c is over: what it has not read, nobody will.
End(c, ups) ==
    /\ handler' = [handler EXCEPT ![c] = "ended"]
    /\ up' = [up EXCEPT ![c] = <<>>]
    /\ lost' = lost \cup PointsIn(ups)

Reply(c, units) ==
    down' = IF c = attached THEN [down EXCEPT ![c] = Append(@, units)] ELSE down

\* The connection breaks and what is on its way is lost.
Cut(c) ==
    /\ handler[c] \notin {"none", "ended"}
    /\ End(c, up[c])
    /\ down' = [down EXCEPT ![c] = <<>>]
    /\ UNCHANGED <<trackerVars, opens, attached, bufferVars, serving, sessions, startedBy>>

\* read_exact fails: the tracker has closed, and everything before it is read.
PeerClosed(c) ==
    /\ handler[c] \notin {"none", "ended"} /\ c # attached /\ up[c] = <<>>
    /\ End(c, <<>>)
    /\ UNCHANGED <<trackerVars, opens, attached, bufferVars, down, serving,
                   sessions, startedBy>>

Receives(c, pc) ==
    /\ handler[c] = pc /\ up[c] # <<>>
    /\ UNCHANGED <<trackerVars, opens, attached, bufferVars>>

Goes(c, pc) ==
    /\ handler' = [handler EXCEPT ![c] = pc]
    /\ up' = [up EXCEPT ![c] = Tail(@)]
    /\ UNCHANGED lost

Rejects(c) == End(c, Tail(up[c])) /\ UNCHANGED <<down, serving, sessions, startedBy>>

\* The handshake of a fresh session: register, and send its id.
ServeFresh(c) ==
    LET m == Head(up[c])
    IN /\ Receives(c, "handshake")
       /\ m.nonce = Nonce(c, "hello") /\ m.remote = NoRemote
       /\ Store!Register
       /\ startedBy' = Append(startedBy, m.local)
       /\ serving' = [serving EXCEPT ![c] = Len(sessions')]
       /\ Reply(c, SessionId(Len(sessions')))
       /\ Goes(c, "serve")

\* A reconnect gets no answer.
ServeReconnect(c) ==
    LET m == Head(up[c])
    IN /\ Receives(c, "handshake")
       /\ m.nonce = Nonce(c, "hello") /\ m.remote \in DOMAIN sessions
       /\ serving' = [serving EXCEPT ![c] = m.remote]
       /\ Goes(c, "serve")
       /\ UNCHANGED <<down, sessions, startedBy>>

\* A wrong signature, or get_session finds nothing.
RefuseHandshake(c) ==
    LET m == Head(up[c])
    IN /\ Receives(c, "handshake")
       /\ ~(m.nonce = Nonce(c, "hello") /\ m.remote \in {NoRemote} \cup DOMAIN sessions)
       /\ Rejects(c)

\* Mutant: the points go to the newest session.
MutServeData(c) ==
    /\ Receives(c, "serve") /\ Head(up[c]).kind = "data"
    /\ Store!AppendPoints(Len(sessions), Head(up[c]).points)
    /\ Goes(c, "serve")
    /\ UNCHANGED <<down, serving, startedBy>>

ServeData(c) ==
    LET m == Head(up[c])
    IN /\ Receives(c, "serve") /\ m.kind = "data"
       /\ Store!AppendPoints(serving[c], m.points)
       /\ Goes(c, "serve")
       /\ UNCHANGED <<down, serving, startedBy>>

ServeFinish(c) ==
    LET m == Head(up[c])
    IN /\ Receives(c, "serve") /\ m.kind = "finish"
       /\ Reply(c, Nonce(c, "finish"))
       /\ Goes(c, "finish")
       /\ UNCHANGED <<serving, sessions, startedBy>>

\* Mutant: confirmed, but the session is not ended.
MutServeSign(c) ==
    /\ Receives(c, "finish") /\ Head(up[c]).nonce = Nonce(c, "finish")
    /\ Reply(c, Confirmation)
    /\ End(c, Tail(up[c]))
    /\ UNCHANGED <<serving, sessions, startedBy>>

\* end_session, then the confirmation
ServeSign(c) ==
    LET m == Head(up[c])
    IN /\ Receives(c, "finish")
       /\ m.nonce = Nonce(c, "finish")
       /\ Store!End(serving[c])
       /\ Reply(c, Confirmation)
       /\ End(c, Tail(up[c]))
       /\ UNCHANGED <<serving, startedBy>>

\* A wrong signature, or a session that has been ended before: no answer.
RefuseSign(c) ==
    LET m == Head(up[c])
    IN /\ Receives(c, "finish")
       /\ ~(m.nonce = Nonce(c, "finish") /\ sessions[serving[c]].live)
       /\ Rejects(c)

Serve(c) ==
    \/ ServeFresh(c) \/ ServeReconnect(c) \/ RefuseHandshake(c)
    \/ ServeData(c) \/ ServeFinish(c) \/ ServeSign(c) \/ RefuseSign(c)

-----------------------------------------------------------------------------
SystemNext ==
    \/ Local \/ PowerOff
    \/ Arrive \/ Notice \/ Reset \/ SendOk \/ SendFails \/ NoAnswer
    \/ Open \/ IdRead \/ AnswerRead \/ Finished \/ PassEnds
    \/ \E c \in Conns : Cut(c) \/ PeerClosed(c) \/ Serve(c)

SystemSpec == SystemInit /\ [][SystemNext]_sysVarsAll

-----------------------------------------------------------------------------
\* Properties

PointsOf(id) == IF id \in DOMAIN sessions THEN Members(sessions[id].points) ELSE {}
InFlight == UNION {PointsIn(up[c]) : c \in Conns}

\* Whenever read_exact_block pops, the buffer holds what it pops (byte_buffer.rs:37;
\* beyond that it would hand out old bytes, and shift_back underflow), although
\* the length it acts on may be out of date by then, in either direction: a write
\* between the reset and the lock leaves a notification for units that the pop
\* takes, earlier connections and reads given up leave units and notifications.
PopsInside == reader = "pop" => Expected <= Len(inbox)

\* The properties below are those of a tracker whose saves are not cut: what one
\* does that goes on from a torn STATE.CSV is not modelled, and it could break
\* each of them.

\* A server session has points of one local session only, the one that opened it,
\* whichever connections and boots brought them.
OneOwner ==
    \A id \in DOMAIN sessions :
        PointsOf(id) \subseteq {startedBy[id]} \X (1..MaxPoints)
SessionsPure == ~torn => OneOwner

\* A lost answer or a power loss between the server's registration and the save of
\* the id leaves a server session behind that nobody will ever end, but never one
\* with points in it: those are referred to by STATE.CSV until they are ended.
PointsReferred ==
    \A id \in DOMAIN sessions :
        sessions[id].live /\ sessions[id].points # <<>> =>
            \E i \in DOMAIN stateFile : stateFile[i].remote = id
OrphansEmpty == ~torn => PointsReferred

\* A point counted as uploaded is in the server session of its entry, on its way,
\* or was in a message that was lost after the modem had taken it: power losses,
\* failed passes and repeated messages lose none.
CountsAccounted ==
    \A entries \in {status, stateFile} : \A i \in DOMAIN entries :
        LET e == entries[i]
            counted == {e.local} \X (1..e.uploaded)
        IN counted \subseteq lost \cup InFlight \cup PointsOf(e.remote)
CountedAccounted == ~torn => CountsAccounted

\* STATE.CSV forgets a session only after the server has ended it, so no server
\* session with points stays active for ever because of the tracker.
ForgetsOnlyEnded ==
    [][~torn' => \A i \in DOMAIN stateFile :
        stateFile[i].local \in LocalsOf(stateFile') \/
        /\ stateFile[i].remote \in DOMAIN sessions
        /\ ~sessions[stateFile[i].remote].live]_sysVarsAll

\* The server stores a point at most once for each connection that served the
\* session: it is sent again only by a pass that opened another connection.
OncePerConnection ==
    ~torn => \A id \in DOMAIN sessions : \A p \in PointsOf(id) :
        Cardinality({i \in DOMAIN sessions[id].points : sessions[id].points[i] = p})
            <= Cardinality({c \in Conns : serving[c] = id})

\* "New session id should be sent to the tracker" (tracker_endpoint.rs:91), "If fresh
\* connection, read session id" (upload_service.rs:435): a remote id of the tracker
\* is the id of a server session that this very local session opened.  Violated: a
\* nonce that came after its read timed out is read by the next connection, whose
\* own nonce is then read as the session id.
RemoteIdsReal ==
    ~torn => \A entries \in {status, stateFile} : \A i \in DOMAIN entries :
        entries[i].remote # NoRemote =>
            /\ entries[i].remote \in DOMAIN sessions
            /\ startedBy[entries[i].remote] = entries[i].local
=============================================================================
