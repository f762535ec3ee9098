-------------------------- MODULE DeviceLocksProofs --------------------------
(***************************************************************************)
(* The mutexes of DeviceLocks exclude each other's holders, and the        *)
(* crossed order of two sections is the only one that can end in a         *)
(* deadlock, for any number of sessions in a pass and any number of        *)
(* retries.                                                                *)
(***************************************************************************)
EXTENDS DeviceLocks, TLAPS

-----------------------------------------------------------------------------
\* The sections, task by task

Mutexes == {"modem", "storage", "state", "service", "status"}
Locking == {<<>>, <<"modem">>, <<"storage">>, <<"state">>, <<"service">>, <<"status">>,
            <<"modem", "storage">>, <<"service", "modem">>, <<"storage", "status">>,
            <<"service", "status", "storage">>}

LEMMA MainSections ==
    /\ DOMAIN MainLocks = MainLabels
    /\ \A label \in MainLabels :
        /\ label \in {"watch", "awaitGnss", "asleep"} => MainLocks[label] = <<>>
        /\ label \in {"enableGnss", "disableGnss", "sleepGnss", "stopModem", "panicked"} =>
              MainLocks[label] = <<"modem">>
    /\ MainLocks["setup"] = <<"modem", "storage">>
    /\ MainLocks["awaitUpload"] = <<"service">>
    /\ MainLocks["netClose"] = <<"service", "modem">>
    /\ MainLocks["stopState"] = <<"state">>
    /\ MainLocks["stopStorage"] = <<"storage">>
BY DEF MainLocks, MainLocksWith, MainLabels

LEMMA GnssSections ==
    /\ DOMAIN GnssLocks = GnssLabels
    /\ \A label \in GnssLabels :
        /\ label \in {"unborn", "loop", "done"} => GnssLocks[label] = <<>>
        /\ label \in {"subscribe", "panicked"} => GnssLocks[label] = <<"modem">>
        /\ label \in {"noFix", "isEnabled", "fix", "bye"} => GnssLocks[label] = <<"state">>
        /\ label \in {"start", "localId", "append"} => GnssLocks[label] = <<"storage">>
    /\ GnssLocks["join"] = <<"service", "status", "storage">>
BY DEF GnssLocks, GnssLabels

UploadLabels == {"wait", "done"} \cup Saves \cup WithState \cup WithModem
                    \cup WithStorage \cup WithStatus

LEMMA UploadSections ==
    /\ DOMAIN UploadLocks = UploadLabels
    /\ \A label \in {"wait", "done"} : UploadLocks[label] = <<>>
    /\ \A label \in WithState : UploadLocks[label] = <<"state">>
    /\ \A label \in WithModem : UploadLocks[label] = <<"modem">>
    /\ \A label \in WithStorage : UploadLocks[label] = <<"storage">>
    /\ \A label \in WithStatus : UploadLocks[label] = <<"status">>
    /\ \A label \in Saves : UploadLocks[label] = <<"storage", "status">>
BY DEF UploadLocks, UploadLabels, WithState, WithModem, WithStorage, WithStatus, Saves

LEMMA LogSections ==
    /\ DOMAIN LogLocks = {"receive", "write"}
    /\ LogLocks["receive"] = <<>> /\ LogLocks["write"] = <<"storage">>
BY DEF LogLocks

LEMMA PowerSections ==
    /\ DOMAIN PowerLocks = {"nap", "done"}
    /\ \A label \in {"nap", "done"} : PowerLocks[label] = <<>>
BY DEF PowerLocks

LEMMA TaskLocks ==
    /\ Locks["main"] = MainLocks /\ Locks["gnss"] = GnssLocks
    /\ Locks["upload"] = UploadLocks /\ Locks["log"] = LogLocks
    /\ Locks["power"] = PowerLocks
BY DEF Locks

\* No section takes a mutex twice.
LEMMA LockingTypes ==
    ASSUME NEW s \in Locking
    PROVE  /\ s \in Seq(Mutexes) /\ Len(s) \in 0..3
           /\ \A i, j \in 1..Len(s) : s[i] = s[j] => i = j
<1>1. CASE s = <<>>
  BY <1>1
<1>2. ASSUME NEW a \in Mutexes, s = <<a>>
      PROVE  s \in Seq(Mutexes) /\ Len(s) = 1
  BY <1>2
<1>3. ASSUME NEW a \in Mutexes, NEW b \in Mutexes, a # b, s = <<a, b>>
      PROVE  s \in Seq(Mutexes) /\ Len(s) = 2 /\ s[1] # s[2]
  BY <1>3
<1>4. CASE s = <<"service", "status", "storage">>
  <2>1. s \in Seq(Mutexes) /\ Len(s) = 3 /\ s[1] # s[2] /\ s[1] # s[3] /\ s[2] # s[3]
    BY <1>4 DEF Mutexes
  <2> QED BY <2>1
<1>5. \/ s = <<>> \/ s = <<"service", "status", "storage">>
      \/ \E a \in Mutexes : s = <<a>>
      \/ \E a, b \in Mutexes : a # b /\ s = <<a, b>>
  BY DEF Locking, Mutexes
<1> QED BY <1>1, <1>2, <1>3, <1>4, <1>5

LEMMA SectionTypes ==
    ASSUME NEW t \in Tasks, NEW label \in DOMAIN Locks[t]
    PROVE  Locks[t][label] \in Locking
<1>1. CASE t = "main"
  BY <1>1, MainSections, TaskLocks DEF MainLabels, Locking
<1>2. CASE t = "gnss"
  <2>1. label \in GnssLabels /\ Locks[t][label] = GnssLocks[label]
    BY <1>2, GnssSections, TaskLocks
  <2>2. label = "join" \/ label \in {"unborn", "loop", "done"}
            \cup {"subscribe", "panicked"} \cup {"noFix", "isEnabled", "fix", "bye"}
            \cup {"start", "localId", "append"}
    BY <2>1 DEF GnssLabels
  <2>3. GnssLocks[label] \in {<<>>, <<"modem">>, <<"state">>, <<"storage">>,
                              <<"service", "status", "storage">>}
    BY <2>1, <2>2, GnssSections
  <2> QED BY <2>1, <2>3 DEF Locking
<1>3. CASE t = "upload"
  BY <1>3, UploadSections, TaskLocks DEF UploadLabels, Locking
<1>4. CASE t = "log"
  BY <1>4, LogSections, TaskLocks DEF Locking
<1>5. CASE t = "power"
  BY <1>5, PowerSections, TaskLocks DEF Locking
<1> QED BY <1>1, <1>2, <1>3, <1>4, <1>5 DEF Tasks

-----------------------------------------------------------------------------
\* The inductive invariant

\* The upload actor is in its pass, or has given up.
InPass == {"count", "reconnect", "startTime", "connect", "setRemote", "saveRemote",
           "read", "send", "addUploaded", "saveUploaded", "finish", "key", "sign",
           "remove", "saveFinish", "close"}
GivenUp == {"giveUp", "lastClose", "done"}

PlaceInv ==
    /\ DOMAIN at = Tasks /\ DOMAIN held = Tasks
    /\ \A t \in Tasks : at[t] \in DOMAIN Locks[t] /\ held[t] \in 0..Len(Section(t))

CountInv ==
    /\ did \subseteq {"start", "join"}
    /\ left \in 0..MaxSessions /\ (at["upload"] \in InPass => left > 0)
    /\ retries \in 0..Retries /\ (at["upload"] \notin GivenUp => retries > 0)

\* No mutex has two holders.
Exclusion == \A t, u \in Tasks : t # u => HeldBy(t) \cap HeldBy(u) = {}

\* The GNSS actor is spawned by setup_network.
BornInv == at["main"] = "setup" => at["gnss"] = "unborn"

LockInv == PlaceInv /\ CountInv /\ BornInv /\ Exclusion

-----------------------------------------------------------------------------
\* Steps from label to label

\* A task that goes on has a section, and holds the first of its mutexes at most.
LEMMA Goes ==
    ASSUME PlaceInv, Exclusion, NEW t \in Tasks, NEW from, NEW to \in DOMAIN Locks[t],
           NEW kept \in 0..Len(Locks[t][to]), GoKeeping(t, from, to, kept),
           kept = 0 \/ /\ kept = 1 /\ Len(Locks[t][from]) > 0
                       /\ Locks[t][to][1] = Locks[t][from][1]
    PROVE  /\ PlaceInv' /\ Exclusion'
           /\ at'[t] = to /\ \A u \in Tasks \ {t} : at'[u] = at[u]
<1>1. /\ at[t] = from /\ Wanted(t) = {}
      /\ at' = [at EXCEPT ![t] = to] /\ held' = [held EXCEPT ![t] = kept]
      /\ DOMAIN at = Tasks /\ DOMAIN held = Tasks
  BY DEF GoKeeping, PlaceInv
<1>2. /\ at'[t] = to /\ held'[t] = kept
      /\ \A u \in Tasks \ {t} : at'[u] = at[u] /\ held'[u] = held[u]
      /\ DOMAIN at' = Tasks /\ DOMAIN held' = Tasks
  BY <1>1
<1>3. Section(t)' = Locks[t][to] /\ \A u \in Tasks \ {t} : Section(u)' = Section(u)
  BY <1>2 DEF Section
<1>4. PlaceInv'
  BY <1>2, <1>3 DEF PlaceInv
<1>5. \A u \in Tasks \ {t} : HeldBy(u)' = HeldBy(u)
  BY <1>2, <1>3 DEF HeldBy
<1>6. HeldBy(t)' \subseteq HeldBy(t)
  <2>1. HeldBy(t)' = {Locks[t][to][i] : i \in 1..kept}
    BY <1>2, <1>3 DEF HeldBy
  <2>2. CASE kept = 0
    BY <2>1, <2>2
  <2>3. CASE kept # 0
    <3>1. kept = 1 /\ Locks[t][to][1] = Section(t)[1]
      BY <1>1, <2>3 DEF Section
    <3>2. held[t] \in 0..Len(Section(t)) /\ Len(Section(t)) > 0 /\ Len(Section(t)) \in Nat
      <4>1. Section(t) \in Locking
        BY SectionTypes DEF PlaceInv, Section
      <4> QED BY <4>1, <1>1, <2>3, LockingTypes DEF PlaceInv, Section
    <3>3. held[t] >= 1
      BY <1>1, <3>2 DEF Wanted
    <3>4. Section(t)[1] \in HeldBy(t)
      BY <3>2, <3>3 DEF HeldBy
    <3> QED BY <2>1, <3>1, <3>4
  <2> QED BY <2>2, <2>3
<1>7. Exclusion'
  <2> SUFFICES ASSUME NEW u \in Tasks, NEW v \in Tasks, u # v
               PROVE  HeldBy(u)' \cap HeldBy(v)' = {}
    BY DEF Exclusion
  <2>1. HeldBy(u)' \subseteq HeldBy(u) /\ HeldBy(v)' \subseteq HeldBy(v)
    BY <1>5, <1>6
  <2> QED BY <2>1 DEF Exclusion
<1> QED BY <1>2, <1>4, <1>7

\* A step that lets go of everything.
LEMMA GoesFree ==
    ASSUME PlaceInv, Exclusion, NEW t \in Tasks, NEW from, NEW to \in DOMAIN Locks[t],
           Go(t, from, to)
    PROVE  /\ PlaceInv' /\ Exclusion'
           /\ at'[t] = to /\ \A u \in Tasks \ {t} : at'[u] = at[u]
<1>1. 0 \in 0..Len(Locks[t][to])
  BY SectionTypes, LockingTypes
<1> QED BY <1>1, Goes DEF Go

LEMMA AcquireKeeps ==
    ASSUME LockInv, NEW t \in Tasks, Acquire(t)
    PROVE  LockInv'
<1>1. PICK m \in Wanted(t) : \A u \in Tasks : m \notin HeldBy(u)
  BY DEF Acquire
<1>2. /\ held' = [held EXCEPT ![t] = @ + 1] /\ UNCHANGED <<at, did, left, retries>>
      /\ DOMAIN at = Tasks /\ DOMAIN held = Tasks
  BY DEF Acquire, LockInv, PlaceInv
<1>3. \A u \in Tasks : Section(u)' = Section(u) /\ (u # t => held'[u] = held[u])
  BY <1>2 DEF Section
<1>4. /\ held[t] \in 0..Len(Section(t)) /\ Len(Section(t)) \in Nat
      /\ held[t] < Len(Section(t)) /\ m = Section(t)[held[t] + 1]
      /\ held'[t] = held[t] + 1
  <2>1. Section(t) \in Locking
    BY SectionTypes DEF LockInv, PlaceInv, Section
  <2> QED BY <1>1, <1>2, <2>1, LockingTypes DEF Wanted, LockInv, PlaceInv
<1>5. PlaceInv'
  <2>1. \A u \in Tasks : held'[u] \in 0..Len(Section(u)')
    BY <1>3, <1>4 DEF LockInv, PlaceInv
  <2> QED BY <1>2, <2>1 DEF LockInv, PlaceInv
<1>6. HeldBy(t)' = HeldBy(t) \cup {m}
  <2>1. HeldBy(t)' = {Section(t)[i] : i \in 1..(held[t] + 1)}
    BY <1>3, <1>4 DEF HeldBy
  <2>2. 1..(held[t] + 1) = (1..held[t]) \cup {held[t] + 1}
    BY <1>4
  <2> QED BY <1>4, <2>1, <2>2 DEF HeldBy
<1>7. \A u \in Tasks \ {t} : HeldBy(u)' = HeldBy(u)
  BY <1>3 DEF HeldBy
<1>8. Exclusion'
  <2> SUFFICES ASSUME NEW u \in Tasks, NEW v \in Tasks, u # v
               PROVE  HeldBy(u)' \cap HeldBy(v)' = {}
    BY DEF Exclusion
  <2>1. HeldBy(u) \cap HeldBy(v) = {}
    BY DEF LockInv, Exclusion
  <2> QED BY <1>1, <1>6, <1>7, <2>1
<1>9. CountInv'
  BY <1>2 DEF LockInv, CountInv
<1>10. BornInv'
  BY <1>2 DEF LockInv, BornInv
<1> QED BY <1>5, <1>8, <1>9, <1>10 DEF LockInv

\* Of the tasks other than the upload actor
LEMMA SameCount ==
    ASSUME CountInv, at'["upload"] = at["upload"], did' \subseteq {"start", "join"},
           UNCHANGED <<left, retries>>
    PROVE  CountInv'
BY DEF CountInv

LEMMA SpawnKeeps ==
    ASSUME LockInv, Spawn
    PROVE  LockInv'
<1>1. /\ at["main"] = "setup"
      /\ at' = [at EXCEPT !["main"] = "enableGnss", !["gnss"] = "subscribe"]
      /\ held' = [held EXCEPT !["main"] = 0]
      /\ UNCHANGED <<did, left, retries>> /\ DOMAIN at = Tasks /\ DOMAIN held = Tasks
  BY DEF Spawn, LockInv, PlaceInv
<1>2. /\ DOMAIN at' = Tasks /\ DOMAIN held' = Tasks
      /\ at'["main"] = "enableGnss" /\ at'["gnss"] = "subscribe"
      /\ held'["main"] = 0 /\ held'["gnss"] = held["gnss"]
      /\ \A t \in Tasks \ {"main", "gnss"} : at'[t] = at[t] /\ held'[t] = held[t]
  BY <1>1 DEF Tasks
<1>3. held["gnss"] = 0
  <2>1. Section("gnss") = <<>>
    BY <1>1, GnssSections, TaskLocks DEF Section, LockInv, BornInv, GnssLabels
  <2> QED BY <2>1 DEF LockInv, PlaceInv, Tasks
<1>4. /\ "enableGnss" \in DOMAIN Locks["main"] /\ "subscribe" \in DOMAIN Locks["gnss"]
      /\ Section("main")' = <<"modem">> /\ Section("gnss")' = <<"modem">>
  BY <1>2, MainSections, GnssSections, TaskLocks DEF Section, MainLabels, GnssLabels
<1>5. \A t \in Tasks \ {"main", "gnss"} : Section(t)' = Section(t) /\ HeldBy(t)' = HeldBy(t)
  BY <1>2 DEF Section, HeldBy
<1>6. PlaceInv'
  <2>1. ASSUME NEW t \in Tasks
        PROVE  at'[t] \in DOMAIN Locks[t] /\ held'[t] \in 0..Len(Section(t)')
    <3>1. CASE t \in {"main", "gnss"}
      BY <3>1, <1>2, <1>3, <1>4
    <3>2. CASE t \notin {"main", "gnss"}
      BY <3>2, <1>2, <1>5 DEF LockInv, PlaceInv
    <3> QED BY <3>1, <3>2
  <2> QED BY <1>2, <2>1 DEF PlaceInv
<1>7. HeldBy("main")' = {} /\ HeldBy("gnss")' = {}
  BY <1>2, <1>3 DEF HeldBy
<1>8. Exclusion'
  BY <1>5, <1>7 DEF LockInv, Exclusion
<1>9. CountInv' /\ BornInv'
  BY <1>1, <1>2, SameCount DEF LockInv, BornInv, CountInv, Tasks
<1> QED BY <1>6, <1>8, <1>9 DEF LockInv

\* A step of main after the setup, or of the log or the power monitor.
LEMMA OtherGoes ==
    ASSUME LockInv, NEW t \in Tasks \ {"upload"}, NEW from, NEW to \in DOMAIN Locks[t],
           from # "setup", t = "main" => to # "setup", t = "gnss" => from # "unborn",
           NEW kept \in {0, 1}, GoKeeping(t, from, to, kept),
           kept = 1 => Locks[t][from] # <<>> /\ Locks[t][to] # <<>>
                       /\ Locks[t][to][1] = Locks[t][from][1],
           did' \subseteq {"start", "join"}, UNCHANGED <<left, retries>>
    PROVE  LockInv'
<1>1. at[t] = from /\ from \in DOMAIN Locks[t]
  BY DEF GoKeeping, LockInv, PlaceInv
<1>2. /\ Len(Locks[t][to]) \in Nat /\ Len(Locks[t][from]) \in Nat
      /\ Locks[t][to] # <<>> => Len(Locks[t][to]) > 0
      /\ Locks[t][from] # <<>> => Len(Locks[t][from]) > 0
  <2>1. Locks[t][to] \in Seq(Mutexes) /\ Locks[t][from] \in Seq(Mutexes)
    BY <1>1, SectionTypes, LockingTypes
  <2> QED BY <2>1
<1>3. /\ PlaceInv' /\ Exclusion'
      /\ at'[t] = to /\ \A u \in Tasks \ {t} : at'[u] = at[u]
  <2>1. kept \in 0..Len(Locks[t][to])
    BY <1>2
  <2>2. kept = 0 \/ /\ kept = 1 /\ Len(Locks[t][from]) > 0
                    /\ Locks[t][to][1] = Locks[t][from][1]
    BY <1>2
  <2>3. PlaceInv /\ Exclusion
    BY DEF LockInv
  <2> HIDE DEF PlaceInv, Exclusion
  <2> QED BY <2>1, <2>2, <2>3, Goes
<1>4. CountInv'
  BY <1>3, SameCount DEF LockInv, Tasks
<1>5. BornInv'
  BY <1>1, <1>3 DEF LockInv, BornInv, Tasks
<1> QED BY <1>3, <1>4, <1>5 DEF LockInv

LEMMA OtherGoesFree ==
    ASSUME LockInv, NEW t \in Tasks \ {"upload"}, NEW from, NEW to \in DOMAIN Locks[t],
           from # "setup", t = "main" => to # "setup", t = "gnss" => from # "unborn",
           GoKeeping(t, from, to, 0),
           did' \subseteq {"start", "join"}, UNCHANGED <<left, retries>>
    PROVE  LockInv'
<1>1. \E kept \in {0, 1} : kept = 0
  OBVIOUS
<1>2. PICK kept \in {0, 1} : kept = 0
  BY <1>1
<1> QED BY <1>2, OtherGoes

LEMMA MainKeeps ==
    ASSUME LockInv, Main \/ DetectSleep
    PROVE  LockInv'
<1> USE DEF Go
<1>1. CASE Spawn
  BY <1>1, SpawnKeeps
<1>2. CASE GoKeeping("main", "awaitUpload", "netClose", 1) /\ UNCHANGED <<did, left, retries>>
  <2>1. /\ Locks["main"]["awaitUpload"] = <<"service">>
        /\ Locks["main"]["netClose"] = <<"service", "modem">>
        /\ "netClose" \in DOMAIN Locks["main"]
    BY MainSections, TaskLocks DEF MainLabels
  <2>2. Locks["main"]["netClose"][1] = Locks["main"]["awaitUpload"][1]
        /\ Locks["main"]["netClose"] # <<>> /\ Locks["main"]["awaitUpload"] # <<>>
    BY <2>1
  <2> QED BY <1>2, <2>1, <2>2, OtherGoes DEF LockInv, CountInv, Tasks
<1>3. ASSUME NEW from \in MainLabels \ {"setup"}, NEW to \in MainLabels \ {"setup"},
             GoKeeping("main", from, to, 0), UNCHANGED <<did, left, retries>>
      PROVE  LockInv'
  <2>1. to \in DOMAIN Locks["main"]
    BY MainSections, TaskLocks
  <2> QED BY <1>3, <2>1, OtherGoesFree DEF LockInv, CountInv, Tasks
<1>4. CASE Watch \/ DetectSleep
  BY <1>3, <1>4 DEF Watch, DetectSleep, MainLabels
<1>5. CASE StopServices
  BY <1>2, <1>3, <1>5 DEF StopServices, Follow, MainLabels
<1> QED BY <1>1, <1>4, <1>5 DEF Main

LEMMA PanicKeeps ==
    ASSUME LockInv, Panic
    PROVE  LockInv'
<1>0. PICK t \in DOMAIN Unwraps : \E from \in Unwraps[t] : GoKeeping(t, from, "panicked", 1)
  BY DEF Panic
<1>1. PICK from \in Unwraps[t] : GoKeeping(t, from, "panicked", 1)
  BY <1>0
<1>2. /\ t \in {"main", "gnss"}
      /\ t = "main" => from \in {"enableGnss", "disableGnss", "sleepGnss", "stopModem"}
      /\ t = "gnss" => from = "subscribe"
  BY DEF Unwraps
<1>3. /\ "panicked" \in DOMAIN Locks[t] /\ Locks[t]["panicked"] = <<"modem">>
      /\ Locks[t][from] = <<"modem">>
  BY <1>2, MainSections, GnssSections, TaskLocks DEF MainLabels, GnssLabels
<1>4. Locks[t]["panicked"][1] = Locks[t][from][1] /\ Locks[t]["panicked"] # <<>>
      /\ Locks[t][from] # <<>>
  BY <1>3
<1> QED BY <1>1, <1>2, <1>3, <1>4, OtherGoes DEF Panic, LockInv, CountInv, Tasks

LEMMA GnssKeeps ==
    ASSUME LockInv, Gnss
    PROVE  LockInv'
<1> USE DEF Go
<1>1. ASSUME NEW from \in GnssLabels \ {"unborn"}, NEW to \in GnssLabels,
             GoKeeping("gnss", from, to, 0), did' \subseteq {"start", "join"},
             UNCHANGED <<left, retries>>
      PROVE  LockInv'
  <2>1. to \in DOMAIN Locks["gnss"]
    BY GnssSections, TaskLocks
  <2>2. from # "setup"
    BY DEF GnssLabels
  <2> QED BY <1>1, <2>1, <2>2, OtherGoesFree DEF LockInv, CountInv, Tasks
<1>2. did \subseteq {"start", "join"}
  BY DEF LockInv, CountInv
<1>3. CASE GnssOnce
  BY <1>1, <1>2, <1>3 DEF GnssOnce, GnssLabels
<1>4. CASE GnssLoop
  <2>1. \A next \in {<<"subscribe", "loop">>, <<"noFix", "loop">>, <<"bye", "done">>,
                     <<"isEnabled", "localId">>, <<"isEnabled", "append">>,
                     <<"localId", "join">>, <<"append", "fix">>, <<"fix", "loop">>} :
            next[1] \in GnssLabels \ {"unborn"} /\ next[2] \in GnssLabels
    BY DEF GnssLabels
  <2>2. \A to \in {"bye", "noFix", "start", "isEnabled", "append"} : to \in GnssLabels
    BY DEF GnssLabels
  <2>3. "loop" \in GnssLabels \ {"unborn"}
    BY DEF GnssLabels
  <2>4. (CASE "start" \notin did -> "start"
           [] "start" \in did /\ "join" \notin did -> "isEnabled"
           [] OTHER -> "append") \in {"start", "isEnabled", "append"}
    OBVIOUS
  <2> QED BY <1>1, <1>2, <1>4, <2>1, <2>2, <2>3, <2>4 DEF GnssLoop, Follow
<1> QED BY <1>3, <1>4 DEF Gnss

LEMMA LogPowerKeep ==
    ASSUME LockInv, Log \/ Power
    PROVE  LockInv'
<1>1. CASE Log
  <2>1. PICK from \in {"receive", "write"}, to \in {"receive", "write"} :
            GoKeeping("log", from, to, 0)
    BY <1>1 DEF Log, Follow, Go
  <2>2. to \in DOMAIN Locks["log"] /\ from # "setup"
    BY LogSections, TaskLocks
  <2> QED BY <1>1, <2>1, <2>2, OtherGoesFree DEF Log, LockInv, CountInv, Tasks
<1>2. CASE Power
  <2>1. "done" \in DOMAIN Locks["power"]
    BY PowerSections, TaskLocks
  <2> QED BY <1>2, <2>1, OtherGoesFree DEF Power, Go, LockInv, CountInv, Tasks
<1> QED BY <1>1, <1>2

-----------------------------------------------------------------------------
\* The upload actor

LEMMA UploadGoes ==
    ASSUME LockInv, NEW from, NEW to \in UploadLabels, Go("upload", from, to),
           did' = did, left' \in 0..MaxSessions, to \in InPass => left' > 0,
           retries' \in 0..Retries, to \notin GivenUp => retries' > 0
    PROVE  LockInv'
<1>1. to \in DOMAIN Locks["upload"]
  BY UploadSections, TaskLocks
<1>2. /\ PlaceInv' /\ Exclusion'
      /\ at'["upload"] = to /\ \A u \in Tasks \ {"upload"} : at'[u] = at[u]
  BY <1>1, GoesFree DEF LockInv, Tasks
<1> QED BY <1>2 DEF LockInv, CountInv, BornInv, Tasks

LEMMA Flows ==
    ASSUME NEW next \in PassFlow \cup UploadFlow
    PROVE  /\ next[1] \in UploadLabels /\ next[2] \in UploadLabels
           /\ next[2] \in InPass => next[1] \in InPass
           /\ next[1] \in GivenUp => next[2] \in GivenUp
BY DEF PassFlow, UploadFlow, UploadLabels, Saves, WithState, WithModem, WithStorage,
       WithStatus, InPass, GivenUp

LEMMA UploadKeeps ==
    ASSUME LockInv, Upload
    PROVE  LockInv'
<1>0. /\ did' = did /\ left \in 0..MaxSessions /\ retries \in 0..Retries
      /\ MaxSessions \in Nat /\ Retries \in Nat
      /\ at["upload"] \in InPass => left > 0
      /\ at["upload"] \notin GivenUp => retries > 0
  BY LocksAssumption DEF LockInv, CountInv, Upload, UploadActor, UploadActorWith,
     NextSession, Retry
<1>1. ASSUME NEW from, NEW to \in UploadLabels, Go("upload", from, to),
             to \in InPass => from \in InPass, from \in GivenUp => to \in GivenUp,
             UNCHANGED <<did, left, retries>>
      PROVE  LockInv'
  <2>1. at["upload"] = from
    BY <1>1 DEF Go, GoKeeping
  <2> QED BY <1>0, <1>1, <2>1, UploadGoes
<1>2. CASE UploadActor
  <2>1. UNCHANGED <<did, left, retries>>
    BY <1>2 DEF UploadActor, UploadActorWith
  <2>2. CASE Follow("upload", PassFlow \cup UploadFlow)
    BY <1>1, <2>1, <2>2, Flows DEF Follow
  <2>3. ASSUME NEW to \in {"done", "disabled"}, Go("upload", "isEnabled", to)
        PROVE  LockInv'
    BY <1>1, <2>1, <2>3 DEF UploadLabels, InPass, GivenUp, WithModem
  <2>4. ASSUME NEW from \in {"failed", "passed"}, NEW to \in {"sessions", "wait"},
               Go("upload", from, to)
        PROVE  LockInv'
    BY <1>1, <2>1, <2>4 DEF UploadLabels, InPass, GivenUp, WithStatus
  <2>5. CASE Go("upload", "sessions", "giveUp")
    BY <1>1, <2>1, <2>5 DEF UploadLabels, InPass, GivenUp, WithState
  <2> QED BY <1>2, <2>2, <2>3, <2>4, <2>5 DEF UploadActor, UploadActorWith
<1>3. CASE NextSession
  <2>1. "passed" \in UploadLabels \ InPass /\ "count" \in UploadLabels
        /\ {"passed", "count"} \cap GivenUp = {}
    BY DEF UploadLabels, WithState, WithStorage, InPass, GivenUp
  <2>2. ASSUME NEW n \in 0..MaxSessions,
               Go("upload", "clone", IF n = 0 THEN "passed" ELSE "count"), left' = n,
               UNCHANGED <<did, retries>>
        PROVE  LockInv'
    <3>1. retries > 0
      BY <1>0, <2>2 DEF Go, GoKeeping, GivenUp
    <3> QED BY <1>0, <2>1, <2>2, <3>1, UploadGoes
  <2>3. ASSUME NEW from \in {"count", "reconnect", "saveRemote", "saveUploaded", "close"},
               Go("upload", from, IF left = 1 THEN "passed" ELSE "count"),
               left' = left - 1, UNCHANGED <<did, retries>>
        PROVE  LockInv'
    <3>1. retries > 0 /\ left > 0
      BY <1>0, <2>3 DEF Go, GoKeeping, GivenUp, InPass
    <3>2. left' \in 0..MaxSessions /\ (left # 1 => left' > 0)
      BY <1>0, <2>3, <3>1
    <3> QED BY <1>0, <2>1, <2>3, <3>1, <3>2, UploadGoes
  <2> QED BY <1>3, <2>2, <2>3 DEF NextSession
<1>4. CASE Retry
  <2>1. /\ Go("upload", "sessions", IF retries = 1 THEN "giveUp" ELSE "wait")
        /\ retries' = retries - 1 /\ UNCHANGED <<did, left>>
    BY <1>4 DEF Retry
  <2>2. retries > 0
    BY <1>0, <2>1 DEF Go, GoKeeping, GivenUp
  <2>3. retries' \in 0..Retries /\ (retries # 1 => retries' > 0)
    BY <1>0, <2>1, <2>2
  <2>4. {"giveUp", "wait"} \subseteq UploadLabels \ InPass /\ "giveUp" \in GivenUp
    BY DEF UploadLabels, WithState, InPass, GivenUp
  <2> QED BY <1>0, <2>1, <2>3, <2>4, UploadGoes
<1> QED BY <1>2, <1>3, <1>4 DEF Upload

-----------------------------------------------------------------------------

LEMMA LockInvInit ==
    ASSUME Init
    PROVE  LockInv
<1>1. /\ DOMAIN at = Tasks /\ DOMAIN held = Tasks
      /\ at["main"] = "setup" /\ at["gnss"] = "unborn" /\ at["upload"] = "config"
      /\ at["log"] = "receive" /\ at["power"] = "nap"
      /\ \A t \in Tasks : held[t] = 0
  BY DEF Init, Tasks
<1>2. \A t \in Tasks : at[t] \in DOMAIN Locks[t]
  BY <1>1, TaskLocks, MainSections, GnssSections, UploadSections, LogSections, PowerSections
     DEF Tasks, MainLabels, GnssLabels, UploadLabels, WithStorage
<1>3. PlaceInv
  <2>1. \A t \in Tasks : Len(Section(t)) \in Nat
    BY <1>2, SectionTypes, LockingTypes DEF Section
  <2> QED BY <1>1, <1>2, <2>1 DEF PlaceInv
<1>4. Exclusion
  BY <1>1 DEF Exclusion, HeldBy
<1>5. CountInv /\ BornInv
  BY <1>1, LocksAssumption DEF Init, CountInv, BornInv, InPass
<1> QED BY <1>3, <1>4, <1>5 DEF LockInv

LEMMA LockInvStep ==
    ASSUME LockInv, [Next]_vars
    PROVE  LockInv'
<1>1. CASE UNCHANGED vars
  <2>1. UNCHANGED <<at, held, did, left, retries>>
    BY <1>1 DEF vars
  <2>2. \A t : Section(t)' = Section(t) /\ HeldBy(t)' = HeldBy(t)
    BY <2>1 DEF Section, HeldBy
  <2> QED BY <2>1, <2>2 DEF LockInv, PlaceInv, CountInv, BornInv, Exclusion
<1>2. CASE Next
  BY <1>2, AcquireKeeps, MainKeeps, PanicKeeps, GnssKeeps, UploadKeeps, LogPowerKeep
     DEF Next
<1> QED BY <1>1, <1>2

\* A task is in a section of its own code, holds of its mutexes those it has taken, and
\* what the pass has ahead and the retries it has left are counted within their bounds.
THEOREM TypeCorrect ==
    Spec => []TypeOK
<1>1. LockInv => TypeOK
  BY DEF LockInv, PlaceInv, CountInv, TypeOK
<1> QED BY <1>1, LockInvInit, LockInvStep, PTL DEF Spec

\* No mutex is held by two tasks, be it kept from one section to the next
\* (UploadService::stop) or through a panic.
THEOREM MutualExclusion ==
    Spec => []Exclusion
<1>1. LockInv => Exclusion
  BY DEF LockInv
<1> QED BY <1>1, LockInvInit, LockInvStep, PTL DEF Spec

-----------------------------------------------------------------------------
\* Who waits for whom

\* What a task has of its section and what it wants next.
LEMMA Stages ==
    ASSUME PlaceInv, NEW t \in Tasks
    PROVE  /\ Section(t) = <<>> => HeldBy(t) = {} /\ Wanted(t) = {}
           /\ \A a : Section(t) = <<a>> =>
                 \/ HeldBy(t) = {} /\ Wanted(t) = {a}
                 \/ held[t] = 1 /\ HeldBy(t) = {a} /\ Wanted(t) = {}
           /\ \A a, b : Section(t) = <<a, b>> =>
                 \/ HeldBy(t) = {} /\ Wanted(t) = {a}
                 \/ held[t] = 1 /\ HeldBy(t) = {a} /\ Wanted(t) = {b}
                 \/ held[t] = 2 /\ HeldBy(t) = {a, b} /\ Wanted(t) = {}
           /\ \A a, b, c : Section(t) = <<a, b, c>> =>
                 \/ HeldBy(t) = {} /\ Wanted(t) = {a}
                 \/ held[t] = 1 /\ HeldBy(t) = {a} /\ Wanted(t) = {b}
                 \/ held[t] = 2 /\ HeldBy(t) = {a, b} /\ Wanted(t) = {c}
                 \/ held[t] = 3 /\ HeldBy(t) = {a, b, c} /\ Wanted(t) = {}
<1>1. held[t] \in 0..Len(Section(t))
  BY DEF PlaceInv
<1>2. /\ 1..0 = {} /\ 1..1 = {1} /\ 1..2 = {1, 2} /\ 1..3 = {1, 2, 3}
  OBVIOUS
<1>3. CASE Section(t) = <<>>
  <2>1. held[t] = 0 /\ Len(Section(t)) = 0
    BY <1>1, <1>3
  <2> QED BY <1>2, <1>3, <2>1 DEF HeldBy, Wanted
<1>4. ASSUME NEW a, Section(t) = <<a>>
      PROVE  \/ HeldBy(t) = {} /\ Wanted(t) = {a}
             \/ held[t] = 1 /\ HeldBy(t) = {a} /\ Wanted(t) = {}
  <2>1. Len(Section(t)) = 1 /\ Section(t)[1] = a /\ held[t] \in {0, 1}
    BY <1>1, <1>4
  <2>2. CASE held[t] = 0
    BY <1>2, <2>1, <2>2 DEF HeldBy, Wanted
  <2>3. CASE held[t] = 1
    BY <1>2, <2>1, <2>3 DEF HeldBy, Wanted
  <2> QED BY <2>1, <2>2, <2>3
<1>5. ASSUME NEW a, NEW b, Section(t) = <<a, b>>
      PROVE  \/ HeldBy(t) = {} /\ Wanted(t) = {a}
             \/ held[t] = 1 /\ HeldBy(t) = {a} /\ Wanted(t) = {b}
             \/ held[t] = 2 /\ HeldBy(t) = {a, b} /\ Wanted(t) = {}
  <2>1. /\ Len(Section(t)) = 2 /\ Section(t)[1] = a /\ Section(t)[2] = b
        /\ held[t] \in {0, 1, 2}
    BY <1>1, <1>5
  <2>2. CASE held[t] = 0
    BY <1>2, <2>1, <2>2 DEF HeldBy, Wanted
  <2>3. CASE held[t] = 1
    BY <1>2, <2>1, <2>3 DEF HeldBy, Wanted
  <2>4. CASE held[t] = 2
    BY <1>2, <2>1, <2>4 DEF HeldBy, Wanted
  <2> QED BY <2>1, <2>2, <2>3, <2>4
<1>6. ASSUME NEW a, NEW b, NEW c, Section(t) = <<a, b, c>>
      PROVE  \/ HeldBy(t) = {} /\ Wanted(t) = {a}
             \/ held[t] = 1 /\ HeldBy(t) = {a} /\ Wanted(t) = {b}
             \/ held[t] = 2 /\ HeldBy(t) = {a, b} /\ Wanted(t) = {c}
             \/ held[t] = 3 /\ HeldBy(t) = {a, b, c} /\ Wanted(t) = {}
  <2>1. /\ Len(Section(t)) = 3 /\ Section(t)[1] = a /\ Section(t)[2] = b /\ Section(t)[3] = c
        /\ held[t] \in {0, 1, 2, 3}
    BY <1>1, <1>6
  <2>2. CASE held[t] = 0
    BY <1>2, <2>1, <2>2 DEF HeldBy, Wanted
  <2>3. CASE held[t] = 1
    BY <1>2, <2>1, <2>3 DEF HeldBy, Wanted
  <2>4. CASE held[t] = 2
    BY <1>2, <2>1, <2>4 DEF HeldBy, Wanted
  <2>5. CASE held[t] = 3
    BY <1>2, <2>1, <2>5 DEF HeldBy, Wanted
  <2> QED BY <2>1, <2>2, <2>3, <2>4, <2>5
<1> QED BY <1>3, <1>4, <1>5, <1>6

\* Where a task waits with a mutex in its hands.
LEMMA GnssHolds ==
    ASSUME PlaceInv, HeldBy("gnss") # {}, Wanted("gnss") # {}
    PROVE  /\ at["gnss"] = "join"
           /\ \/ HeldBy("gnss") = {"service"} /\ Wanted("gnss") = {"status"}
              \/ /\ held["gnss"] = 2
                 /\ HeldBy("gnss") = {"service", "status"} /\ Wanted("gnss") = {"storage"}
<1>1. at["gnss"] \in GnssLabels /\ Section("gnss") = GnssLocks[at["gnss"]]
  BY TaskLocks, GnssSections DEF PlaceInv, Section, Tasks
<1>2. \/ Section("gnss") = <<>>
      \/ \E a \in {"modem", "state", "storage"} : Section("gnss") = <<a>>
      \/ at["gnss"] = "join" /\ Section("gnss") = <<"service", "status", "storage">>
  <2>1. at["gnss"] = "join" \/ at["gnss"] \in {"unborn", "loop", "done"}
            \cup {"subscribe", "panicked"} \cup {"noFix", "isEnabled", "fix", "bye"}
            \cup {"start", "localId", "append"}
    BY <1>1 DEF GnssLabels
  <2>2. CASE at["gnss"] = "join"
    BY <1>1, <2>2, GnssSections
  <2>3. CASE at["gnss"] # "join"
    <3>1. Section("gnss") \in {<<>>, <<"modem">>, <<"state">>, <<"storage">>}
      BY <1>1, <2>1, <2>3, GnssSections
    <3> QED BY <3>1
  <2> QED BY <2>2, <2>3
<1>3. "gnss" \in Tasks
  BY DEF Tasks
<1> QED BY <1>2, <1>3, Stages

LEMMA UploadHolds ==
    ASSUME PlaceInv, Wanted("upload") # {}
    PROVE  /\ Wanted("upload") \subseteq {"state", "modem", "storage", "status"}
           /\ HeldBy("upload") # {} =>
                /\ at["upload"] \in Saves /\ held["upload"] = 1
                /\ HeldBy("upload") = {"storage"} /\ Wanted("upload") = {"status"}
<1>1. at["upload"] \in UploadLabels /\ Section("upload") = UploadLocks[at["upload"]]
  BY TaskLocks, UploadSections DEF PlaceInv, Section, Tasks
<1>2. \/ Section("upload") = <<>>
      \/ \E a \in {"state", "modem", "storage", "status"} : Section("upload") = <<a>>
      \/ at["upload"] \in Saves /\ Section("upload") = <<"storage", "status">>
  BY <1>1, UploadSections DEF UploadLabels
<1>3. "upload" \in Tasks
  BY DEF Tasks
<1> QED BY <1>2, <1>3, Stages

LEMMA LogHolds ==
    ASSUME PlaceInv, Wanted("log") # {}
    PROVE  HeldBy("log") = {}
<1>1. Section("log") \in {<<>>, <<"storage">>} /\ "log" \in Tasks
  BY TaskLocks, LogSections DEF PlaceInv, Section, Tasks
<1> QED BY <1>1, Stages

LEMMA PowerHolds ==
    ASSUME PlaceInv
    PROVE  Wanted("power") = {}
<1>1. Section("power") = <<>> /\ "power" \in Tasks
  BY TaskLocks, PowerSections DEF PlaceInv, Section, Tasks
<1> QED BY <1>1, Stages

LEMMA MainHolds ==
    ASSUME PlaceInv
    PROVE  /\ at["main"] = "awaitGnss" => HeldBy("main") = {} /\ Wanted("main") = {}
           /\ HeldBy("main") # {} /\ Wanted("main") # {} =>
                \/ HeldBy("main") = {"modem"} /\ Wanted("main") = {"storage"}
                \/ HeldBy("main") = {"service"} /\ Wanted("main") = {"modem"}
           /\ at["main"] = "awaitUpload" => HeldBy("main") \subseteq {"service"}
<1>1. at["main"] \in MainLabels /\ Section("main") = MainLocks[at["main"]] /\ "main" \in Tasks
  BY TaskLocks, MainSections DEF PlaceInv, Section, Tasks
<1>2. \/ Section("main") = <<>> \/ \E a : Section("main") = <<a>>
      \/ Section("main") = <<"modem", "storage">> \/ Section("main") = <<"service", "modem">>
  BY <1>1, MainSections DEF MainLabels
<1>3. at["main"] = "awaitGnss" => Section("main") = <<>>
  BY <1>1, MainSections
<1>4. at["main"] = "awaitUpload" => Section("main") = <<"service">>
  BY <1>1, MainSections
<1>5. at["main"] = "awaitGnss" => HeldBy("main") = {} /\ Wanted("main") = {}
  BY <1>1, <1>3, Stages
<1>6. at["main"] = "awaitUpload" => HeldBy("main") \subseteq {"service"}
  BY <1>1, <1>4, Stages
<1>7. HeldBy("main") # {} /\ Wanted("main") # {} =>
        \/ HeldBy("main") = {"modem"} /\ Wanted("main") = {"storage"}
        \/ HeldBy("main") = {"service"} /\ Wanted("main") = {"modem"}
  BY <1>1, <1>2, Stages
<1> QED BY <1>5, <1>6, <1>7

LEMMA OnlyCrossed ==
    ASSUME PlaceInv
    PROVE  OnlyCrossedLocks
<1> SUFFICES ASSUME NEW group \in SUBSET Tasks, Deadlocked(group), ~CrossedLocks
             PROVE  FALSE
  BY DEF OnlyCrossedLocks
<1> DEFINE Has(m) == \E u \in group : m \in HeldBy(u)
<1>1. group # {} /\ \A t \in group : \E u \in group : WaitsFor(t, u)
  BY DEF Deadlocked
\* A task other than main waits for a mutex of another in the group.
<1>2. ASSUME NEW t \in group \ {"main"}
      PROVE  \E m \in Wanted(t) : Has(m)
  BY <1>1, <1>2 DEF WaitsFor
<1>3. "power" \notin group
  BY <1>2, PowerHolds
\* So does main, or it waits for a signal.
<1>4. "main" \in group =>
        \/ \E m \in Wanted("main") : Has(m)
        \/ at["main"] = "awaitGnss" /\ "gnss" \in group
        \/ at["main"] = "awaitUpload" /\ Wanted("main") = {} /\ "upload" \in group
  BY <1>1, <1>3 DEF WaitsFor
<1>5. \A t \in group \ {"main"} : Wanted(t) # {}
  BY <1>2
<1>6. group \subseteq {"main", "gnss", "upload", "log"}
  BY <1>3 DEF Tasks
\* The storage is held by a save of the upload actor only, which wants the status; and
\* that is held by add_active_session only.
<1>7. "upload" \in group => HeldBy("upload") = {}
  <2> SUFFICES ASSUME "upload" \in group, HeldBy("upload") # {}
               PROVE  FALSE
    OBVIOUS
  <2>1. /\ at["upload"] \in Saves /\ held["upload"] = 1
        /\ HeldBy("upload") = {"storage"} /\ Wanted("upload") = {"status"}
    BY <1>5, UploadHolds
  <2>2. PICK u \in group : "status" \in HeldBy(u)
    BY <1>2, <2>1
  <2>3. u # "upload" /\ u # "log"
    BY <1>5, <2>1, <2>2, LogHolds
  <2>4. u # "main"
    BY <1>4, <2>2, MainHolds
  <2>5. u = "gnss"
    BY <1>6, <2>3, <2>4
  <2>6. at["gnss"] = "join" /\ held["gnss"] = 2
    BY <1>5, <2>2, <2>5, GnssHolds
  <2> QED BY <2>1, <2>6 DEF CrossedLocks
<1>8. "log" \in group => HeldBy("log") = {}
  BY <1>5, LogHolds
<1>9. ~Has("storage")
  <2> SUFFICES ASSUME NEW u \in group, "storage" \in HeldBy(u)
               PROVE  FALSE
    OBVIOUS
  <2>1. u \in {"main", "gnss"}
    BY <1>6, <1>7, <1>8
  <2>2. u # "gnss"
    BY <1>5, GnssHolds
  <2>3. u # "main"
    BY <1>4, MainHolds
  <2> QED BY <2>1, <2>2, <2>3
<1>10. ~Has("status")
  <2> SUFFICES ASSUME NEW u \in group, "status" \in HeldBy(u)
               PROVE  FALSE
    OBVIOUS
  <2>1. u # "gnss"
    BY <1>2, <1>5, <1>9, GnssHolds
  <2>2. u # "main"
    BY <1>4, MainHolds
  <2> QED BY <1>6, <1>7, <1>8, <2>1, <2>2
<1>11. ~Has("modem") /\ ~Has("state")
  <2> SUFFICES ASSUME NEW u \in group, HeldBy(u) \cap {"modem", "state"} # {}
               PROVE  FALSE
    OBVIOUS
  <2>1. u # "gnss"
    BY <1>5, GnssHolds
  <2>2. u # "main"
    BY <1>4, <1>9, MainHolds
  <2> QED BY <1>6, <1>7, <1>8, <2>1, <2>2
\* What is left is the service, which the upload actor never waits for.
<1>12. "upload" \notin group
  BY <1>2, <1>5, <1>9, <1>10, <1>11, UploadHolds
<1>13. "gnss" \in group => HeldBy("gnss") = {}
  BY <1>2, <1>5, <1>9, <1>10, GnssHolds
<1>14. "main" \in group => HeldBy("main") = {}
  BY <1>4, <1>9, <1>11, <1>12, MainHolds
<1>15. \A m : ~Has(m)
  BY <1>6, <1>8, <1>12, <1>13, <1>14
<1>16. group = {"main"}
  <2> HIDE DEF Has
  <2>1. \A t \in group : t = "main"
    BY <1>2, <1>15
  <2> QED BY <1>1, <2>1
<1> QED BY <1>4, <1>12, <1>15, <1>16

\* The crossed order of add_active_session and the saves is the only deadlock the
\* mutexes and the signals of the tasks can end in.
THEOREM AlwaysOnlyCrossed ==
    Spec => []OnlyCrossedLocks
<1>1. LockInv => OnlyCrossedLocks
  BY OnlyCrossed DEF LockInv
<1> QED BY <1>1, LockInvInit, LockInvStep, PTL DEF Spec
=============================================================================
