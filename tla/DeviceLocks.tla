---------------------------- MODULE DeviceLocks -----------------------------
(***************************************************************************)
(* The mutexes of the tracker and the tasks that take them.  Tracker cuts  *)
(* the actors at their awaits and leaves the locks out; here the data is   *)
(* left out.  A task is at a label, a section of its code; Locks gives the *)
(* mutexes the section takes, in the order it takes them, and it releases  *)
(* them together at its end.                                               *)
(*                                                                         *)
(* Left out are the mutexes that no task holds while it waits for another: *)
(* DeviceState, the modem's subscriber lists, the MAC provider (only the   *)
(* upload actor's) and the GNSS service (only main's).  Left out is the    *)
(* task that drives the LEDs, which waits for nobody.                      *)
(***************************************************************************)
EXTENDS Integers, Sequences

CONSTANTS
    MaxSessions,    \* bound: sessions in one pass of the upload actor
    Retries         \* RETRIES_AFTER_STOP

ASSUME LocksAssumption == MaxSessions \in Nat /\ Retries \in Nat \ {0}

Tasks == {"main", "gnss", "upload", "log", "power"}

VARIABLES
    at,         \* the label of each task
    held,       \* how many mutexes of its section it holds
    did,        \* the sections the GNSS actor runs once a boot: "start", "join"
    left,       \* sessions the upload actor's pass still has ahead
    retries     \* finish_retries_left

vars == <<at, held, did, left, retries>>

-----------------------------------------------------------------------------
\* The mutexes: ModemService, StorageService, StateService, UploadService
\* ("service") and the UploadStatus inside it ("status").

MainLabels == {"setup", "enableGnss", "watch", "disableGnss", "sleepGnss", "awaitGnss",
    "awaitUpload", "netClose", "stopModem", "stopState", "stopStorage", "asleep", "panicked"}

MainLocksWith(whileStopping) ==
    [label \in MainLabels |->
        CASE label \in {"watch", "awaitGnss", "asleep"} -> <<>>
          [] label = "setup" -> <<"modem", "storage">>
          [] label = "awaitUpload" -> whileStopping
          [] label = "netClose" -> <<"service", "modem">>
          [] label = "stopState" -> <<"state">>
          [] label = "stopStorage" -> <<"storage">>
          [] OTHER -> <<"modem">>]

\* Mutant: UploadService::stop takes the modem before it waits for its actor.
MutMainLocks == MainLocksWith(<<"service", "modem">>)

MainLocks == MainLocksWith(<<"service">>)

GnssLabels == {"unborn", "subscribe", "loop", "noFix", "start", "isEnabled", "localId",
    "join", "append", "fix", "bye", "done", "panicked"}

GnssLocks ==
    [label \in GnssLabels |->
        CASE label \in {"subscribe", "panicked"} -> <<"modem">>
          [] label \in {"noFix", "isEnabled", "fix", "bye"} -> <<"state">>
          [] label \in {"start", "localId", "append"} -> <<"storage">>
          [] label = "join" -> <<"service", "status", "storage">>
          [] OTHER -> <<>>]

\* A save locks the storage, then reads the status.
Saves == {"saveRemote", "saveUploaded", "saveFinish"}

WithState == {"announce", "isEnabled", "noNet", "failed", "passed", "giveUp"}
WithModem == {"disabled", "reconnect", "connect", "send", "finish", "sign", "close",
    "lastClose"}
WithStorage == {"config", "count", "startTime", "read", "key"}
WithStatus == {"clone", "setRemote", "addUploaded", "remove", "sessions"}

UploadLocks ==
    [label \in {"wait", "done"} \cup Saves \cup WithState \cup WithModem
              \cup WithStorage \cup WithStatus |->
        CASE label \in Saves -> <<"storage", "status">>
          [] label \in WithState -> <<"state">>
          [] label \in WithModem -> <<"modem">>
          [] label \in WithStorage -> <<"storage">>
          [] label \in WithStatus -> <<"status">>
          [] OTHER -> <<>>]

LogLocks == [label \in {"receive", "write"} |->
                IF label = "write" THEN <<"storage">> ELSE <<>>]

PowerLocks == [label \in {"nap", "done"} |-> <<>>]

Locks == [main |-> MainLocks, gnss |-> GnssLocks, upload |-> UploadLocks,
          log |-> LogLocks, power |-> PowerLocks]

Section(t) == Locks[t][at[t]]

HeldBy(t) == {Section(t)[i] : i \in 1..held[t]}

\* The mutex a task needs before its section can go on.
Wanted(t) == IF held[t] < Len(Section(t)) THEN {Section(t)[held[t] + 1]} ELSE {}

Acquire(t) ==
    /\ \E m \in Wanted(t) : \A u \in Tasks : m \notin HeldBy(u)
    /\ held' = [held EXCEPT ![t] = @ + 1]
    /\ UNCHANGED <<at, did, left, retries>>

\* The task has run the section `from` and goes on to another, keeping the first
\* `kept` of its mutexes.
GoKeeping(t, from, to, kept) ==
    /\ at[t] = from /\ Wanted(t) = {}
    /\ at' = [at EXCEPT ![t] = to]
    /\ held' = [held EXCEPT ![t] = kept]

Go(t, from, to) == GoKeeping(t, from, to, 0)

\* The flow of a task where nothing but the outcome of the section decides.
Follow(t, flow) == \E next \in flow : Go(t, next[1], next[2])

\* terminate() has set the flag of the actor
UploadTerminating ==
    \/ at["main"] = "awaitUpload" /\ Wanted("main") = {}
    \/ at["main"] \in {"netClose", "stopModem", "stopState", "stopStorage"}
PowerTerminating ==
    \/ at["main"] = "stopState" /\ Wanted("main") = {}
    \/ at["main"] = "stopStorage"
GnssTerminating == at["main"] \in {"awaitGnss", "awaitUpload"} \/ UploadTerminating

Init ==
    /\ at = [main |-> "setup", gnss |-> "unborn", upload |-> "config",
             log |-> "receive", power |-> "nap"]
    /\ held = [t \in Tasks |-> 0]
    /\ did = {} /\ left = 0 /\ retries = Retries

-----------------------------------------------------------------------------
\* main: the network is set up, the GNSS actor spawned and the receiver enabled;
\* when the wake pin is low stop_services stops the services in reverse order.

Spawn ==
    /\ at["main"] = "setup" /\ Wanted("main") = {}
    /\ at' = [at EXCEPT !["main"] = "enableGnss", !["gnss"] = "subscribe"]
    /\ held' = [held EXCEPT !["main"] = 0]
    /\ UNCHANGED <<did, left, retries>>

Watch == Go("main", "enableGnss", "watch") /\ UNCHANGED <<did, left, retries>>

DetectSleep == Go("main", "watch", "disableGnss") /\ UNCHANGED <<did, left, retries>>

\* Three of the stop functions wait for their actors' signals.
StopServices ==
    /\ \/ at["gnss"] = "done" /\ Go("main", "awaitGnss", "awaitUpload")
       \/ at["upload"] = "done" /\ GoKeeping("main", "awaitUpload", "netClose", 1)
       \/ at["power"] = "done" /\ Go("main", "stopState", "stopStorage")
       \/ Follow("main", {<<"disableGnss", "sleepGnss">>, <<"sleepGnss", "awaitGnss">>,
                          <<"netClose", "stopModem">>, <<"stopModem", "stopState">>,
                          <<"stopStorage", "asleep">>})
    /\ UNCHANGED <<did, left, retries>>

Main == Spawn \/ Watch \/ StopServices

\* Where a command's result is unwrapped.  The modem answers with an error or not at
\* all, and the panic handler keeps the first core, and the modem's mutex, to itself
\* until somebody resets the device.
Unwraps == [main |-> {"enableGnss", "disableGnss", "sleepGnss", "stopModem"},
            gnss |-> {"subscribe"}]

Panic ==
    /\ \E t \in DOMAIN Unwraps : \E from \in Unwraps[t] : GoKeeping(t, from, "panicked", 1)
    /\ UNCHANGED <<did, left, retries>>

-----------------------------------------------------------------------------
\* gnss_monitor_actor

GnssLoop ==
    /\ \/ GnssTerminating /\ Go("gnss", "loop", "bye")
       \/ ~GnssTerminating /\ Go("gnss", "loop", "noFix")
       \/ ~GnssTerminating /\ Go("gnss", "loop",
            CASE "start" \notin did -> "start"
              [] "start" \in did /\ "join" \notin did -> "isEnabled"
              [] OTHER -> "append")
       \/ Follow("gnss", {<<"subscribe", "loop">>, <<"noFix", "loop">>, <<"bye", "done">>,
                          <<"isEnabled", "localId">>, <<"isEnabled", "append">>,
                          <<"localId", "join">>, <<"append", "fix">>, <<"fix", "loop">>})
    /\ UNCHANGED <<did, left, retries>>

GnssOnce ==
    /\ \/ Go("gnss", "start", "isEnabled") /\ did' = did \cup {"start"}
       \/ Go("gnss", "join", "append") /\ did' = did \cup {"join"}
    /\ UNCHANGED <<left, retries>>

Gnss == GnssLoop \/ GnssOnce

-----------------------------------------------------------------------------
\* upload_actor and the functions it calls

\* Straight through a session.  A step that needs the network may fail the pass;
\* a session may be connected already, have nothing to send, or not be finished yet.
PassFlow ==
    {<<"count", "reconnect">>, <<"count", "startTime">>, <<"count", "read">>,
     <<"count", "finish">>, <<"startTime", "connect">>, <<"connect", "setRemote">>,
     <<"setRemote", "saveRemote">>, <<"read", "send">>, <<"send", "addUploaded">>,
     <<"addUploaded", "saveUploaded">>, <<"finish", "key">>, <<"key", "sign">>,
     <<"sign", "remove">>, <<"remove", "saveFinish">>, <<"saveFinish", "close">>}
    \cup {"reconnect", "saveRemote"} \X {"read", "finish"}
    \cup {<<"saveUploaded", "finish">>}
    \cup {"reconnect", "connect", "send", "finish", "sign"} \X {"failed"}

UploadFlow ==
    {<<"config", "announce">>, <<"config", "wait">>, <<"announce", "wait">>,
     <<"wait", "isEnabled">>, <<"isEnabled", "clone">>, <<"disabled", "noNet">>,
     <<"noNet", "wait">>, <<"giveUp", "lastClose">>, <<"lastClose", "done">>}

UploadActorWith(whenOff) ==
    /\ \/ Follow("upload", PassFlow \cup UploadFlow)
       \/ Go("upload", "isEnabled", whenOff)
       \/ \E from \in {"failed", "passed"} :
            Go("upload", from, IF UploadTerminating THEN "sessions" ELSE "wait")
       \/ Go("upload", "sessions", "giveUp")    \* no session is left
    /\ UNCHANGED <<did, left, retries>>

\* Mutant: an actor that is switched off does not look at its terminator.
MutUploadActor == UploadActorWith("disabled")

UploadActor == UploadActorWith(IF UploadTerminating THEN "done" ELSE "disabled")

\* The for loop: over a clone of the status, from one session to the next.
NextSession ==
    /\ \/ \E n \in 0..MaxSessions :
            /\ Go("upload", "clone", IF n = 0 THEN "passed" ELSE "count")
            /\ left' = n
       \/ \E from \in {"count", "reconnect", "saveRemote", "saveUploaded", "close"} :
            /\ Go("upload", from, IF left = 1 THEN "passed" ELSE "count")
            /\ left' = left - 1
    /\ UNCHANGED <<did, retries>>

\* Mutant: the last retry is not noticed.
MutRetry ==
    /\ Go("upload", "sessions", "wait")
    /\ retries' = retries - 1
    /\ UNCHANGED <<did, left>>

\* A pass after stop that left sessions
Retry ==
    /\ Go("upload", "sessions", IF retries = 1 THEN "giveUp" ELSE "wait")
    /\ retries' = retries - 1
    /\ UNCHANGED <<did, left>>

Upload == UploadActor \/ NextSession \/ Retry

-----------------------------------------------------------------------------

Log == Follow("log", {<<"receive", "write">>, <<"write", "receive">>})
        /\ UNCHANGED <<did, left, retries>>

\* power_monitor measures and naps, and ends when a nap ends early.
Power ==
    /\ PowerTerminating /\ Go("power", "nap", "done")
    /\ UNCHANGED <<did, left, retries>>

Panicked == "panicked" \in {at["main"], at["gnss"]}

\* In deep sleep nothing runs, in the panic handler only the second core.
Awake(t) == at["main"] # "asleep" /\ (Panicked => t = "upload")

Next ==
    \/ \E t \in Tasks : Awake(t) /\ Acquire(t)
    \/ Awake("main") /\ (Main \/ DetectSleep \/ Panic)
    \/ Awake("gnss") /\ Gnss
    \/ Awake("upload") /\ Upload
    \/ Awake("log") /\ Log
    \/ Awake("power") /\ Power

Spec == Init /\ [][Next]_vars

\* The executors poll every task that can go on.  A mutex that is released wakes
\* who waits for it, and every holder soon releases: the modem's commands have
\* timeouts and the card is accessed without an await.  The wake pin is free, and
\* the modem need not answer.
FairSpec ==
    /\ Spec
    /\ WF_vars(Awake("main") /\ Main)
    /\ WF_vars(Awake("gnss") /\ Gnss)
    /\ WF_vars(Awake("upload") /\ Upload)
    /\ WF_vars(Awake("log") /\ Log)
    /\ WF_vars(Awake("power") /\ Power)
    /\ \A t \in Tasks : SF_vars(Awake(t) /\ Acquire(t))

-----------------------------------------------------------------------------
\* Properties

TypeOK ==
    /\ DOMAIN at = Tasks /\ \A t \in Tasks : at[t] \in DOMAIN Locks[t]
    /\ \A t \in Tasks : held[t] \in 0..Len(Section(t))
    /\ did \subseteq {"start", "join"}
    /\ left \in 0..MaxSessions /\ retries \in 0..Retries

\* t cannot go on before u does: u has the mutex it wants, or the signal it awaits.
WaitsFor(t, u) ==
    \/ Wanted(t) \cap HeldBy(u) # {}
    \/ t = "main" /\ at[t] = "awaitGnss" /\ u = "gnss" /\ at[u] # "done"
    \/ t = "main" /\ at[t] = "awaitUpload" /\ Wanted(t) = {} /\ u = "upload" /\ at[u] # "done"
    \/ t = "main" /\ at[t] = "stopState" /\ Wanted(t) = {} /\ u = "power" /\ at[u] # "done"

Deadlocked(group) == group # {} /\ \A t \in group : \E u \in group : WaitsFor(t, u)

\* add_active_session has the status and wants the storage, a save of the upload
\* actor has the storage and wants the status.
CrossedLocks ==
    at["gnss"] = "join" /\ held["gnss"] = 2 /\ at["upload"] \in Saves /\ held["upload"] = 1

\* Of all the ways the tasks take their mutexes and wait for each other, the
\* crossed order of add_active_session and the saves is the only one that can end in
\* a deadlock.  The nested sections of setup_network (the storage inside the modem)
\* and of UploadService::stop (the modem inside the service) never close a cycle.
OnlyCrossedLocks ==
    (\E group \in SUBSET Tasks : Deadlocked(group)) => CrossedLocks

\* A tracker whose wake pin went low gets to deep sleep, unless those two meet or a
\* result that is unwrapped is an error: the modem's mutex is free in time for every
\* stop function, each actor sees its flag, and the state service, whose mutex the
\* shutdown holds while it waits for the power monitor, is not needed by that.
SleepsUnlessCrossed ==
    at["main"] = "disableGnss" ~> at["main"] = "asleep" \/ CrossedLocks \/ Panicked

\* "200 secs minutes max after stop" (upload_service.rs:111): stopping ends.
\* Violated, and not only by a modem that fails: the GNSS actor adds its session
\* while the upload actor saves, both wait for good, and so does stop_services for
\* the GNSS actor.
SleepsAfterStop == at["main"] = "disableGnss" ~> at["main"] = "asleep" \/ Panicked
=============================================================================
