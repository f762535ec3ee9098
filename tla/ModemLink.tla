----------------------------- MODULE ModemLink -----------------------------
(***************************************************************************)
(* The AT command channel to the modem (services/modem/modem_service.rs,   *)
(* urc_subscriber_set.rs).  A caller holds the modem's mutex for a whole   *)
(* operation: a plain command, a command whose result comes as an          *)
(* unsolicited result code (interrogate_urc), or data to be sent           *)
(* (cip_send_bytes).  simcom_monitor reads what the modem says, puts an    *)
(* answer into the one response signal and a result code into the channel  *)
(* of its subscribers.  Nothing says which command an answer is for, and   *)
(* every wait has a timeout after which the answer may still come.         *)
(*                                                                         *)
(* Text is left out: a command is its number, an answer the number of the  *)
(* command it answers.  Of what goes to others, +CGNSSINFO and +RECEIVE,   *)
(* only that it stands between them on the line.                           *)
(***************************************************************************)
EXTENDS Naturals, FiniteSets, Sequences

CONSTANTS
    Urcs,           \* commands with a result code of the same name
    MaxCommands,    \* bound: commands written
    MaxUnread       \* bound: messages on the line

ASSUME UrcsAssumption == Urcs \cap {"send", "cipsend", "data"} = {}
ASSUME BoundsAssumption == {MaxCommands, MaxUnread} \subseteq Nat

VARIABLES
    op,             \* the operation under way
    oneshots,       \* urc_oneshot_subscribers, each with its channel
    signal,         \* response_signal: at most one answer
    line,           \* what the modem has said and simcom_monitor has not read
    swallowing,     \* is there a prompt at the head of the buffer that was not alone?
    owed,           \* commands the modem has not answered
    coming,         \* commands whose result code the modem has not sent
    log             \* all commands, with the answer and the result code taken

callerVars == <<op, oneshots>>
modemVars == <<owed, coming>>
monitorVars == <<line, swallowing>>
vars == <<callerVars, signal, monitorVars, modemVars, log>>

-----------------------------------------------------------------------------
None == [to |-> 0, says |-> "nothing"]
Idle == [kind |-> "none", at |-> "idle", sub |-> 0]

\* Commands whose result comes as a result code, and its name
HasUrc(what) == what \in Urcs \cup {"data"}

Init ==
    /\ op = Idle /\ oneshots = {}
    /\ signal = None /\ line = <<>> /\ swallowing = FALSE /\ owed = <<>> /\ coming = {} /\ log = <<>>

Current == Len(log)

\* Mutant: the command is written twice.
MutWrite(entries, what) ==
    /\ Len(entries) < MaxCommands
    /\ log' = Append(entries, [what |-> what, answer |-> 0, urc |-> 0])
    /\ owed' = owed \o <<Len(entries) + 1, Len(entries) + 2>>
    /\ UNCHANGED coming

\* inner_send writes the command and waits; the signal is not reset before.
Write(entries, what) ==
    /\ Len(entries) < MaxCommands
    /\ log' = Append(entries, [what |-> what, answer |-> 0, urc |-> 0])
    /\ owed' = Append(owed, Len(entries) + 1)
    /\ coming' = coming \cup (IF HasUrc(what) THEN {Len(entries) + 1} ELSE {})

\* send, send_timeout and interrogate
Send ==
    /\ op = Idle
    /\ Write(log, "send")
    /\ op' = [kind |-> "send", at |-> "answer", sub |-> 0]
    /\ UNCHANGED <<oneshots, signal, monitorVars>>

Subscribe(urc) ==
    oneshots' = oneshots \cup {[id |-> Current + 1, urc |-> urc, channel |-> 0]}

\* interrogate_urc subscribes first, so that no result code is missed.
InterrogateUrc(what) ==
    /\ op = Idle
    /\ Write(log, what) /\ Subscribe(what)
    /\ op' = [kind |-> "urc", at |-> "answer", sub |-> Current + 1]
    /\ UNCHANGED <<signal, monitorVars>>

CipSend ==
    /\ op = Idle
    /\ Write(log, "cipsend") /\ Subscribe("data")
    /\ op' = [kind |-> "cip", at |-> "answer", sub |-> Current + 1]
    /\ UNCHANGED <<signal, monitorVars>>

\* Mutant: remove_oneshot is forgotten.
MutRemove(id) == UNCHANGED oneshots

\* remove_oneshot
Remove(id) == oneshots' = {sub \in oneshots : sub.id # id}

Return == op' = Idle /\ Remove(op.sub)

\* receive, whatever the answer was
AwaitUrc == op' = [op EXCEPT !.at = "urc"] /\ UNCHANGED oneshots

\* Mutant: the answer stays in the signal.
MutTake ==
    /\ op.at = "answer" /\ signal # None
    /\ UNCHANGED signal

\* response_signal.wait()
Take ==
    /\ op.at = "answer" /\ signal # None
    /\ signal' = None

Answered == [log EXCEPT ![Current].answer = signal.to]

\* A plain command, or one that failed, is over.
AnswerLast ==
    /\ Take
    /\ op.kind = "send" \/ (op.kind = "urc" /\ signal.says = "error")
    /\ log' = Answered
    /\ Return
    /\ UNCHANGED <<monitorVars, modemVars>>

\* interrogate_urc, and cip_send_bytes after anything but ReadyForInput
AnswerThenUrc ==
    /\ Take
    /\ \/ op.kind = "urc" /\ signal.says # "error"
       \/ op.kind = "cip" /\ (log[Current].what = "data" \/ signal.says # "ready")
    /\ log' = Answered
    /\ AwaitUrc
    /\ UNCHANGED <<monitorVars, modemVars>>

\* cip_send_bytes goes on with the data.
AnswerReady ==
    /\ Take
    /\ op.kind = "cip" /\ log[Current].what = "cipsend" /\ signal.says = "ready"
    /\ Write(Answered, "data")
    /\ UNCHANGED <<callerVars, monitorVars>>

\* The timeout of inner_send; cip_send_bytes waits for the result code even so.
AnswerTimeout ==
    /\ op.at = "answer"
    /\ IF op.kind = "cip" THEN AwaitUrc ELSE Return
    /\ UNCHANGED <<signal, monitorVars, modemVars, log>>

\* What is in the channel of the operation's subscriber; cip_send_bytes drops it.
UrcReceived ==
    /\ op.at = "urc"
    /\ \E sub \in oneshots :
        /\ sub.id = op.sub /\ sub.channel # 0
        /\ log' = IF op.kind = "urc" THEN [log EXCEPT ![op.sub].urc = sub.channel] ELSE log
    /\ Return
    /\ UNCHANGED <<signal, monitorVars, modemVars>>

\* Mutant: the channel's receive has no timeout.
MutUrcTimeout == FALSE /\ UNCHANGED vars

UrcTimeout ==
    /\ op.at = "urc"
    /\ Return
    /\ UNCHANGED <<signal, monitorVars, modemVars, log>>

-----------------------------------------------------------------------------
\* simcom_monitor reads what has come and pops one message after the other.

Read == line # <<>> /\ line' = Tail(line)
Message == Head(line)

\* Mutant: the answer is not taken out of the receive buffer.
MutDispatchAnswer ==
    /\ line # <<>> /\ Message.says \in {"ok", "error"}
    /\ signal' = Message /\ swallowing' = FALSE
    /\ UNCHANGED <<callerVars, line, modemVars, log>>

\* An answer replaces what is in the signal.  The end of a result, OK or ERROR, is
\* found whatever stands before it.
DispatchAnswer ==
    /\ Read
    /\ Message.says \in {"ok", "error"} \/ (Message.says = "ready" /\ ~swallowing)
    /\ signal' = Message /\ swallowing' = FALSE
    /\ UNCHANGED <<callerVars, modemVars, log>>

\* try_pop_message knows the prompt ">" only when nothing stands behind it: if more
\* has come by the time of the read, all of it up to the next OK is one message.
SwallowPrompt ==
    /\ Read /\ Message.says = "ready" /\ Len(line) > 1
    /\ swallowing' = TRUE
    /\ UNCHANGED <<callerVars, signal, modemVars, log>>

\* An error can be a +CME ERROR, which does not end it.
Swallow ==
    /\ Read /\ Message.says # "ok" /\ swallowing
    /\ UNCHANGED <<callerVars, signal, swallowing, modemVars, log>>

\* Mutant: every subscriber gets every result code.
MutListens(sub, to) == sub.channel = 0

\* try_send to the subscribers of that name; a full channel drops it.
Listens(sub, to) == sub.urc = log[to].what /\ sub.channel = 0

DispatchUrc ==
    /\ Read /\ Message.says = "urc" /\ ~swallowing
    /\ oneshots' = {[sub EXCEPT !.channel = IF Listens(sub, Message.to)
                                            THEN Message.to ELSE @] : sub \in oneshots}
    /\ UNCHANGED <<op, signal, swallowing, modemVars, log>>

\* +CGNSSINFO and +RECEIVE go to places of their own.
DispatchOther ==
    /\ Read /\ Message.says = "other" /\ ~swallowing
    /\ UNCHANGED <<callerVars, signal, swallowing, modemVars, log>>

\* A receive error costs a message, a full buffer the line at its head.
Discard ==
    /\ \/ Read /\ UNCHANGED swallowing
       \/ swallowing /\ swallowing' = FALSE /\ UNCHANGED line
    /\ UNCHANGED <<callerVars, signal, modemVars, log>>

-----------------------------------------------------------------------------
\* The modem: it answers commands in their order, or not, late or not, and sends
\* result codes before or after the answer.

Says(command) ==
    {"error", IF log[command].what = "cipsend" THEN "ready" ELSE "ok"}

Answer ==
    /\ owed # <<>> /\ Len(line) < MaxUnread
    /\ \E says \in Says(Head(owed)) :
           line' = Append(line, [to |-> Head(owed), says |-> says])
    /\ owed' = Tail(owed)
    /\ UNCHANGED <<callerVars, signal, swallowing, coming, log>>

Announce ==
    /\ Len(line) < MaxUnread
    /\ \E command \in coming :
        /\ line' = Append(line, [to |-> command, says |-> "urc"])
        /\ coming' = coming \ {command}
    /\ UNCHANGED <<callerVars, signal, swallowing, owed, log>>

\* A fix, or data from the server
Report ==
    /\ Len(line) < MaxUnread
    /\ line' = Append(line, [to |-> 0, says |-> "other"])
    /\ UNCHANGED <<callerVars, signal, swallowing, modemVars, log>>

Begin == Send \/ CipSend \/ \E what \in Urcs : InterrogateUrc(what)
Wait == AnswerLast \/ AnswerThenUrc \/ AnswerReady \/ UrcReceived
Timeout == AnswerTimeout \/ UrcTimeout
Monitor == DispatchAnswer \/ DispatchUrc \/ DispatchOther \/ SwallowPrompt \/ Swallow \/ Discard
Modem == Answer \/ Announce \/ Report

Next == Begin \/ Wait \/ Timeout \/ Monitor \/ Modem

Spec == Init /\ [][Next]_vars

\* Timers fire; nothing is assumed of the modem or of who calls.
FairSpec == Spec /\ WF_vars(AnswerTimeout) /\ WF_vars(UrcTimeout)

-----------------------------------------------------------------------------
\* Properties

Commands == 1..Current

Words == {"nothing", "ok", "error", "ready", "urc", "other"}
Command ==
    [what : Urcs \cup {"send", "cipsend", "data"}, answer : 0..Current, urc : 0..Current]

TypeOK ==
    /\ op \in [kind : {"none", "send", "urc", "cip"}, at : {"idle", "answer", "urc"},
               sub : 0..Current]
    /\ oneshots \subseteq [id : Commands, urc : Urcs \cup {"data"}, channel : 0..Current]
    /\ signal \in [to : 0..Current, says : Words]
    /\ line \in Seq([to : 0..Current, says : Words]) /\ swallowing \in BOOLEAN
    /\ owed \in Seq(Commands) /\ coming \subseteq Commands
    /\ log \in Seq(Command) /\ Current <= MaxCommands
    /\ \A c \in Commands : log[c].answer <= c /\ log[c].urc <= c

\* No answer is taken for that of two commands, and none before an older one, although
\* nothing in the signal says whose it is.
AnswersInOrder ==
    \A c, d \in Commands :
        c < d /\ log[c].answer # 0 /\ log[d].answer # 0 => log[c].answer < log[d].answer

GaveUp(c) == {d \in 1..(c - 1) : log[d].answer = 0}

\* An answer is late by at most as many commands as have timed out before: until
\* the first timeout each command gets its own.  After one it need not, and nothing
\* resets the signal: the answer that came late is taken for that of the next
\* command, its answer for that of the one after it, and so on.
AnswersLate ==
    \A c \in Commands :
        log[c].answer # 0 => c <= log[c].answer + Cardinality(GaveUp(c))

\* A result code is never that of another kind of command, and it is that of an
\* earlier one only if that one has returned without it.
OwnUrcs ==
    \A c \in Commands :
        LET d == log[c].urc
        IN d # 0 => log[d].what = log[c].what /\ (d # c => d < c /\ log[d].urc # d)

\* "Important cleanup step": between operations nobody is subscribed, whichever of the
\* waits has failed, so the eight places of urc_oneshot_subscribers are enough.
OneshotsRemoved == op = Idle => oneshots = {}

\* Every operation ends and gives the modem back, if the modem never says a word.
OperationsEnd == op # Idle ~> op = Idle

-----------------------------------------------------------------------------
\* What holds in every state and makes the invariants inductive

OpInv ==
    /\ op.kind = "none" \/ op.at = "idle" => op = Idle
    /\ op # Idle => Current > 0
    /\ op.kind = "urc" => op.sub = Current

\* Only the operation under way is subscribed, and its channel has codes of its name.
SubscriberInv ==
    \A sub \in oneshots :
        /\ op # Idle /\ sub.id = op.sub
        /\ op.kind = "urc" => sub.urc = log[Current].what
        /\ sub.channel # 0 => log[sub.channel].what = sub.urc

\* Later than every answer that has been taken, and than the one in the signal
Later(n) == n > signal.to /\ \A c \in Commands : n > log[c].answer

IsAnswer(message) == message.says \in {"ok", "error", "ready"}

\* From the log through the signal and the line to the commands the modem has not
\* answered, each answer is that of a later command.
AnswerInv ==
    /\ signal.to # 0 => \A c \in Commands : signal.to > log[c].answer
    /\ \A i \in DOMAIN line : IsAnswer(line[i]) =>
        /\ Later(line[i].to)
        /\ \A j \in DOMAIN line : i < j /\ IsAnswer(line[j]) => line[i].to < line[j].to
    /\ \A k \in DOMAIN owed :
        /\ Later(owed[k])
        /\ \A i \in DOMAIN line : IsAnswer(line[i]) => line[i].to < owed[k]
        /\ \A l \in DOMAIN owed : k < l => owed[k] < owed[l]

IsUrc(message) == message.says = "urc"

\* A result code is in one place: to come, on the line, in a channel or taken.
UrcInv ==
    /\ \A d \in coming :
        /\ \A i \in DOMAIN line : IsUrc(line[i]) => line[i].to # d
        /\ \A sub \in oneshots : sub.channel # d
        /\ \A c \in Commands : log[c].urc # d
    /\ \A i \in DOMAIN line : IsUrc(line[i]) =>
        /\ line[i].to # 0
        /\ \A j \in DOMAIN line : IsUrc(line[j]) /\ line[i].to = line[j].to => i = j
        /\ \A sub \in oneshots : sub.channel # line[i].to
        /\ \A c \in Commands : log[c].urc # line[i].to
    /\ \A sub \in oneshots : \A c \in Commands :
        sub.channel # 0 => log[c].urc # sub.channel
    /\ \A c, d \in Commands : log[c].urc # 0 /\ log[c].urc = log[d].urc => c = d

Inv ==
    /\ TypeOK /\ OpInv /\ SubscriberInv
    /\ AnswersInOrder /\ AnswerInv
    /\ OwnUrcs /\ UrcInv
=============================================================================
