--------------------------- MODULE UploadSystemInv ---------------------------
(***************************************************************************)
(* What the properties of UploadSystem rest on: ChannelInv, what can be    *)
(* on a link and in the receive buffer at which point of the conversation, *)
(* DataInv, whose points and sessions they are, and OnceInv, how often a   *)
(* point can come.  Each is inductive with those before it and with the    *)
(* invariants of Tracker.                                                  *)
(***************************************************************************)
EXTENDS UploadSystem

\* What the properties rest on.  First the types of the link.

Handlers == {"none", "handshake", "serve", "finish", "ended"}
Units == {"hello", "finish", "id", "one"} \X Nat \X (1..4)
Points == LocalIds \X Nat
Messages ==
    [kind : {"hello"}, nonce : Seq(Units), remote : RemoteIds \cup {NoRemote},
     local : LocalIds, points : {<<>>}]
    \cup [kind : {"data"}, points : Seq(Points)]
    \cup [kind : {"finish"}, points : {<<>>}]
    \cup [kind : {"sign"}, nonce : Seq(Units), points : {<<>>}]

LinkTypeOK ==
    /\ opens \in 0..MaxOpens /\ attached \in 0..opens
    /\ inbox \in Seq(Units) /\ notifier \in Nat
    /\ reader \in {"wait", "reset", "pop"} /\ available \in Nat
    /\ up \in [Conns -> Seq(Messages)]
    /\ down \in [Conns -> Seq(Seq(Units))]
    /\ handler \in [Conns -> Handlers]
    /\ serving \in [Conns -> {0} \cup DOMAIN sessions]
    /\ sessions \in Seq([live : BOOLEAN, points : Seq(Points)])
    /\ startedBy \in Seq(LocalIds) /\ Len(startedBy) = Len(sessions)

\* What a task has left to read agrees with where it is.
HandlerInv ==
    \A c \in Conns :
        /\ c > opens => handler[c] = "none"
        /\ serving[c] # 0 => handler[c] \in {"serve", "finish", "ended"}
        /\ handler[c] \in {"serve", "finish"} => serving[c] # 0
        /\ handler[c] \in {"none", "ended"} => up[c] = <<>>
        /\ \A i \in DOMAIN up[c] :
            up[c][i].kind = "hello" <=> i = 1 /\ handler[c] = "handshake"
        /\ handler[c] = "finish" => \A i \in DOMAIN up[c] : up[c][i].kind = "sign"

\* The server accepts the connection, or would: its nonce was signed.
Genuine(c) ==
    \/ serving[c] # 0
    \/ /\ handler[c] = "handshake" /\ up[c] # <<>>
       /\ up[c][1].nonce = Nonce(c, "hello")

\* The server session that takes its points, and the local session they are of.
Target(c) == IF serving[c] # 0 THEN serving[c] ELSE up[c][1].remote
Owner(c) == IF serving[c] # 0 THEN startedBy[serving[c]] ELSE up[c][1].local

\* The upload actor has an open connection and said hello on it.
InTalk == upload \in {"id", "saveId", "data", "saveUploaded", "settle",
                      "finish", "sign", "ack", "saveFinish"}
Talking == InTalk \/ (upload \in {"wait", "next", "passed"} /\ connected # 0)
Partner == IF InTalk THEN Session.local ELSE connected

Closed(id) == id \in DOMAIN sessions /\ ~sessions[id].live

\* The answer the actor waits for, and nothing else of the kind, can come.
Awaits(u) ==
    /\ attached # 0 /\ serving[attached] # 0
    /\ \/ upload = "id" /\ u \in Members(SessionId(serving[attached]))
       \/ upload = "sign" /\ u \in Members(Nonce(attached, "finish"))
       \/ upload = "ack" /\ u = Confirmation[1] /\ Closed(serving[attached])

InboxInv ==
    \A i \in DOMAIN inbox :
        /\ inbox[i][1] = "hello" => inbox[i][2] \in 1..opens
        /\ inbox[i][1] # "hello" => inbox[i][3] = i
        /\ attached # 0 /\ Genuine(attached) => inbox[i][1] # "hello"
        /\ Talking /\ inbox[i][1] # "hello" => Awaits(inbox[i])

\* At most one answer is under way, and to an accepted tracker that has read all
\* before it.
Coming(c) ==
    \/ /\ down[c] = << Nonce(c, "hello") >> /\ ~Genuine(c)
       /\ \A i \in DOMAIN inbox : inbox[i][1] = "hello" => inbox[i][2] # c
    \/ /\ serving[c] # 0 /\ inbox = <<>>
       /\ \/ down[c] = << SessionId(serving[c]) >> /\ (Talking => upload = "id")
          \/ down[c] = << Nonce(c, "finish") >> /\ (Talking => upload = "sign")
          \/ /\ down[c] = << Confirmation >> /\ (Talking => upload = "ack")
             /\ Closed(serving[c])
DownInv == \A c \in Conns : down[c] # <<>> => c = attached /\ Coming(c)

\* A question to an accepting server is the last thing said.
Asks(m) == m.kind \in {"finish", "sign"} \/ (m.kind = "hello" /\ m.remote = NoRemote)
AnswerPc(m) == CASE m.kind = "hello" -> "id" [] m.kind = "finish" -> "sign" [] OTHER -> "ack"
AskInv ==
    \A c \in Conns : \A i \in DOMAIN up[c] :
        Genuine(c) /\ Asks(up[c][i]) =>
            /\ i = Len(up[c])
            /\ c = attached => /\ inbox = <<>> /\ down[c] = <<>>
                               /\ Talking => upload = AnswerPc(up[c][i])

\* Before the hello only the nonce of the connection can come, once.
HelloInv ==
    upload = "hello" =>
        /\ attached # 0
        /\ handler[attached] \in {"handshake", "ended"} /\ serving[attached] = 0
        /\ up[attached] = <<>>
        /\ inbox # <<>> /\ inbox[1][1] = "hello" /\ inbox[1][2] = attached =>
               Len(inbox) = 4

TalkInv ==
    Talking /\ attached # 0 =>
        /\ handler[attached] # "none"
        /\ handler[attached] = "handshake" => up[attached] # <<>>
        /\ handler[attached] = "finish" => upload \in {"sign", "ack", "saveFinish"}

\* Each read is of at most 4 units and what arrives beside units that are there is
\* a nonce of 4, so a notification for units that a pop takes is out of date only
\* where there are enough others.
Promised(n) == n <= Len(inbox) \/ Len(inbox) >= 4
ReaderInv ==
    /\ Promised(notifier)
    /\ reader = "reset" => Promised(available)
    /\ reader # "wait" => Expected > 0
    /\ reader = "pop" /\ notifier > 0 => Len(inbox) >= Expected + 4
    /\ PopsInside

ChannelInv == LinkTypeOK /\ HandlerInv /\ InboxInv /\ DownInv /\ AskInv /\ HelloInv
           /\ TalkInv /\ ReaderInv

\* No connection that has not registered a session can bring more than MaxOpens.
Waiting == {c \in Conns : handler[c] \in {"none", "handshake"}}
RoomInv == Len(sessions) + Cardinality(Waiting) <= MaxOpens

-----------------------------------------------------------------------------
\* Whose sessions and points they are

\* A remote id is the server's for this local session, or the misread number.
Own(remote, local) ==
    \/ remote \in {NoRemote, Garbage}
    \/ remote \in DOMAIN sessions /\ startedBy[remote] = local
OwnInv ==
    /\ \A entries \in {status, stateFile, clone} : \A i \in DOMAIN entries :
        Own(entries[i].remote, entries[i].local)
    /\ \A c \in Conns : handler[c] = "handshake" /\ up[c] # <<>> =>
        Own(up[c][1].remote, up[c][1].local)

\* connected_session_id is the session of the pass once its hello is out.
ConnectedInv ==
    /\ upload \in {"data", "saveUploaded", "settle", "finish", "sign", "ack", "saveFinish"}
        => connected = Session.local
    /\ gnss # "off" /\ ~joined => connected < boots

\* The one the actor talks to serves the session it talks about.
PartnerInv ==
    Talking /\ attached # 0 /\ Genuine(attached) =>
        /\ Owner(attached) = Partner
        /\ upload = "id" /\ serving[attached] = 0 => Target(attached) = NoRemote
        /\ upload # "id" =>
            /\ Target(attached) # NoRemote
            /\ \A i \in DOMAIN status :
                status[i].local = Partner => status[i].remote = Target(attached)

\* STATE.CSV refers to the session until it is ended.
Referred(id) == Closed(id) \/ \E i \in DOMAIN stateFile : stateFile[i].remote = id

\* Points under way to an accepting server are of the session that it serves.
CarryInv ==
    \A c \in Conns : \A i \in DOMAIN up[c] :
        Genuine(c) /\ up[c][i].kind = "data" =>
            /\ Members(up[c][i].points) \subseteq {Owner(c)} \X (1..MaxPoints)
            /\ Target(c) # NoRemote /\ Referred(Target(c))
            /\ \A entries \in {status, stateFile} : \A k \in DOMAIN entries :
                entries[k].local = Owner(c) => entries[k].remote = Target(c)
            /\ Owner(c) <= boots
            /\ gnss # "off" /\ ~joined => Owner(c) < boots

\* The acknowledged session is ended.
FinishedInv ==
    upload = "saveFinish" =>
        \A i \in DOMAIN stateFile :
            stateFile[i].local = Session.local => Closed(stateFile[i].remote)

StoredInv == \A id \in DOMAIN sessions : sessions[id].points # <<>> => Referred(id)

\* What this upload_data has sent is accounted for as what is counted.
SentInv ==
    /\ InSession => Session.uploaded + sent <= count
    /\ upload \in {"open", "hello", "id", "saveId", "data"} =>
        \A i \in DOMAIN status :
            status[i].local = Session.local =>
                {Session.local} \X (1..(Session.uploaded + sent))
                    \subseteq lost \cup InFlight \cup PointsOf(status[i].remote)

DataInv == OwnInv /\ ConnectedInv /\ PartnerInv /\ FinishedInv /\ CarryInv /\ StoredInv
           /\ SentInv /\ OneOwner /\ PointsReferred /\ CountsAccounted

-----------------------------------------------------------------------------
\* How often a point can come

\* The points of a connection come in the order of their numbers.
OrderInv ==
    \A c \in Conns : \A i, j \in DOMAIN up[c] :
        \A a \in DOMAIN up[c][i].points, b \in DOMAIN up[c][j].points :
            i < j \/ (i = j /\ a < b) => up[c][i].points[a][2] < up[c][j].points[b][2]

\* The number up to which the actor has sent on the connection it talks on.
Beyond(n) == IF InTalk THEN n > Session.uploaded + sent
             ELSE \A i \in DOMAIN status : status[i].local = connected => n > status[i].uploaded

SentBefore ==
    Talking /\ attached # 0 =>
        \A p \in PointsIn(up[attached]) : ~Beyond(p[2])

\* The connection may bring the point yet.
StillBrings(c, p) == p \in PointsIn(up[c]) \/ (c = attached /\ Talking /\ Beyond(p[2]))

Occurrences(id, p) == {i \in DOMAIN sessions[id].points : sessions[id].points[i] = p}
OnceInv ==
    \A id \in DOMAIN sessions : \A p \in PointsOf(id) :
        Cardinality(Occurrences(id, p))
            <= Cardinality({c \in Conns : serving[c] = id /\ ~StillBrings(c, p)})
=============================================================================
