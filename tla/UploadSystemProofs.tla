------------------------- MODULE UploadSystemProofs --------------------------
(***************************************************************************)
(* The tracker alone, and the tracker with the link and the server.        *)
(*                                                                         *)
(* First Tracker, without any use of what UploadSystem assumes.  Inv is    *)
(* inductive, and so the tracker is type correct, never underflows an      *)
(* unsigned subtraction on the upload path and keeps its sessions in       *)
(* order, for every number of boots, points and retries, every message     *)
(* size and every set of remote ids, as long as no save of STATE.CSV is    *)
(* cut (torn): the device that goes on from a torn file is not modelled    *)
(* beyond its types and a boot that starts nothing (TornInv), so that      *)
(* TrackerSafe is the invariant of all behaviours, and every other one     *)
(* is that of the states before.  PassInv says how the clone of a pass     *)
(* lies to the status while the GNSS actor adds to both; it is inductive   *)
(* together with Inv, and with it the card agrees with memory between its  *)
(* saves, sessions of earlier boots are finished only when they are        *)
(* complete, oldest first, and no entry of STATE.CSV goes back.            *)
(*                                                                         *)
(* Then UploadSystem, whose tracker is that of Tracker, so that all of     *)
(* this holds there too.  ChannelInv is inductive: what the link, the      *)
(* receive buffer and the connections of the server may hold at each point *)
(* of the conversation, for every number of connections.  DataInv is       *)
(* inductive together with it: whose sessions the server has, whose points *)
(* are under way and what STATE.CSV still refers to.  From it follow what  *)
(* the server keeps of a session and what the tracker forgets.             *)
(***************************************************************************)
EXTENDS UploadSystemInv, SequenceTheorems, FiniteSetTheorems, TLAPS

-----------------------------------------------------------------------------
\* The tracker

(* What the operations of UploadStatus return, for every status. *)

\* A status indexes its entries by 1..Len, and each is an entry.
LEMMA StatusElements ==
    ASSUME NEW s \in Statuses
    PROVE  /\ Len(s) \in Nat
           /\ DOMAIN s = 1..Len(s)
           /\ \A i \in DOMAIN s : /\ s[i] \in SessionUploadStatus
                                  /\ s[i].local \in LocalIds
                                  /\ s[i].remote \in RemoteIds \cup {NoRemote}
                                  /\ s[i].uploaded \in Nat
  <1>1. Len(s) \in Nat /\ DOMAIN s = 1..Len(s)
    BY LenProperties DEF Statuses
  <1>2. \A i \in DOMAIN s : s[i] \in SessionUploadStatus
    BY <1>1, ElementOfSeq DEF Statuses
  <1> QED BY <1>1, <1>2 DEF SessionUploadStatus

\* add_session appends one entry with nothing uploaded.
LEMMA AddSessionResult ==
    ASSUME NEW s \in Statuses, NEW id \in LocalIds
    PROVE  LET r == AddSession(s, id)
           IN /\ r \in Statuses
              /\ Len(r) = Len(s) + 1
              /\ DOMAIN r = 1..(Len(s) + 1)
              /\ \A i \in DOMAIN s : r[i] = s[i]
              /\ r[Len(s) + 1].local = id
              /\ r[Len(s) + 1].uploaded = 0
  <1> DEFINE e == [local |-> id, remote |-> NoRemote, uploaded |-> 0]
             r == AddSession(s, id)
  <1>1. e \in SessionUploadStatus
    BY DEF SessionUploadStatus
  <1>2. r = Append(s, e)
    BY DEF AddSession
  <1>3. r \in Statuses /\ Len(r) = Len(s) + 1 /\ r[Len(s) + 1] = e
        /\ \A i \in 1..Len(s) : r[i] = s[i]
    BY <1>1, <1>2, AppendProperties DEF Statuses
  <1>4. Len(s) \in Nat /\ DOMAIN s = 1..Len(s) /\ DOMAIN r = 1..Len(r)
    BY <1>3, StatusElements
  <1> QED BY <1>3, <1>4

\* set_remote_session_id changes remote ids only.
LEMMA SetRemoteResult ==
    ASSUME NEW s \in Statuses, NEW id, NEW remote \in RemoteIds
    PROVE  LET r == SetRemoteSessionId(s, id, remote)
           IN /\ r \in Statuses
              /\ DOMAIN r = DOMAIN s
              /\ \A i \in DOMAIN s : /\ r[i].local = s[i].local
                                     /\ r[i].uploaded = s[i].uploaded
  <1> DEFINE r == SetRemoteSessionId(s, id, remote)
  <1>1. Len(s) \in Nat /\ DOMAIN s = 1..Len(s)
    BY StatusElements
  <1>2. \A i \in DOMAIN s : s[i] \in SessionUploadStatus
    BY StatusElements
  <1>3. DOMAIN r = DOMAIN s
    BY DEF SetRemoteSessionId
  <1>4. ASSUME NEW i \in DOMAIN s
        PROVE  /\ r[i] \in SessionUploadStatus
               /\ r[i].local = s[i].local
               /\ r[i].uploaded = s[i].uploaded
    <2>1. CASE IsFirst(s, id, i)
      <3>1. r[i] = [s[i] EXCEPT !.remote = remote]
        BY <2>1 DEF SetRemoteSessionId
      <3> QED BY <3>1, <1>2 DEF SessionUploadStatus
    <2>2. CASE ~IsFirst(s, id, i)
      BY <2>2, <1>2 DEF SetRemoteSessionId
    <2> QED BY <2>1, <2>2
  <1>5. r = [i \in 1..Len(s) |-> r[i]]
    BY <1>1 DEF SetRemoteSessionId
  <1>6. r \in Statuses
    BY <1>1, <1>3, <1>4, <1>5, IsASeq DEF Statuses
  <1> QED BY <1>3, <1>4, <1>6

\* add_uploaded raises the count of the session's first entry and nothing else.
LEMMA AddUploadedResult ==
    ASSUME NEW s \in Statuses, NEW id, NEW n \in Nat
    PROVE  LET r == AddUploaded(s, id, n)
           IN /\ r \in Statuses
              /\ DOMAIN r = DOMAIN s
              /\ \A i \in DOMAIN s :
                    /\ r[i].local = s[i].local
                    /\ \/ r[i].uploaded = s[i].uploaded
                       \/ r[i].local = id /\ r[i].uploaded = s[i].uploaded + n
  <1> DEFINE r == AddUploaded(s, id, n)
  <1>1. Len(s) \in Nat /\ DOMAIN s = 1..Len(s)
    BY StatusElements
  <1>2. \A i \in DOMAIN s : s[i] \in SessionUploadStatus
    BY StatusElements
  <1>3. DOMAIN r = DOMAIN s
    BY DEF AddUploaded
  <1>4. ASSUME NEW i \in DOMAIN s
        PROVE  /\ r[i] \in SessionUploadStatus
               /\ r[i].local = s[i].local
               /\ \/ r[i].uploaded = s[i].uploaded
                  \/ r[i].local = id /\ r[i].uploaded = s[i].uploaded + n
    <2>1. CASE IsFirst(s, id, i)
      <3>1. r[i] = [s[i] EXCEPT !.uploaded = s[i].uploaded + n]
        BY <2>1 DEF AddUploaded
      <3>2. s[i].local = id
        BY <2>1 DEF IsFirst
      <3> QED BY <3>1, <3>2, <1>2 DEF SessionUploadStatus
    <2>2. CASE ~IsFirst(s, id, i)
      <3>1. r[i] = s[i]
        BY <2>2, Zenon DEF AddUploaded
      <3> QED BY <3>1, <1>2
    <2> QED BY <2>1, <2>2
  <1>5. r = [i \in 1..Len(s) |-> r[i]]
    BY <1>1 DEF AddUploaded
  <1>6. r \in Statuses
    BY <1>1, <1>3, <1>4, <1>5, IsASeq DEF Statuses
  <1> QED BY <1>3, <1>4, <1>6

\* finish_session drops an entry: what is left are entries of s, in their order.
LEMMA FinishSessionResult ==
    ASSUME NEW s \in Statuses, NEW id
    PROVE  LET r == FinishSession(s, id)
           IN /\ r \in Statuses
              /\ \A j \in DOMAIN r : \E i \in DOMAIN s : r[j] = s[i]
              /\ Ascending(s) => Ascending(r)
  <1> DEFINE r == FinishSession(s, id)
             at == CHOOSE i \in DOMAIN s : s[i].local = id
             old(j) == IF j < at THEN j ELSE j + 1
  <1>1. Len(s) \in Nat /\ DOMAIN s = 1..Len(s)
    BY StatusElements
  <1>2. CASE id \notin LocalsOf(s)
    <2>1. r = s
      BY <1>2 DEF FinishSession
    <2> QED BY <2>1
  <1>3. CASE id \in LocalsOf(s)
    <2>1. at \in DOMAIN s
      BY <1>3 DEF LocalsOf
    <2>2. r = RemoveAt(s, at)
      BY <1>3 DEF FinishSession
    <2>3. Len(s) - 1 \in Nat
      BY <1>1, <2>1
    <2>4. r = [j \in 1..(Len(s) - 1) |-> s[old(j)]]
      BY <2>2 DEF RemoveAt
    <2>5. \A j \in 1..(Len(s) - 1) : old(j) \in DOMAIN s
      BY <1>1, <2>1
    <2>6. \A j \in 1..(Len(s) - 1) : s[old(j)] \in SessionUploadStatus
      BY <2>5, StatusElements
    <2>7. r \in Statuses
      <3> HIDE DEF old, r
      <3> QED BY <2>3, <2>4, <2>6, IsASeq DEF Statuses
    <2>8. DOMAIN r = 1..(Len(s) - 1)
      BY <2>4
    <2>9. \A j \in DOMAIN r : r[j] = s[old(j)]
      BY <2>4, <2>8
    <2>10. ASSUME Ascending(s), NEW j \in DOMAIN r, NEW k \in DOMAIN r, j < k
           PROVE  r[j].local < r[k].local
      <3>1. old(j) < old(k)
        BY <1>1, <2>1, <2>8, <2>10
      <3>2. s[old(j)].local < s[old(k)].local
        BY <2>10, <3>1, <2>5, <2>8 DEF Ascending
      <3> QED BY <3>2, <2>9
    <2> QED BY <2>5, <2>7, <2>8, <2>9, <2>10 DEF Ascending
  <1> QED BY <1>2, <1>3

\* In an ascending status an id names one entry at most.
LEMMA OneEntry ==
    ASSUME NEW s \in Statuses, Ascending(s), NEW i \in DOMAIN s, NEW j \in DOMAIN s,
           s[i].local = s[j].local
    PROVE  i = j
  <1>1. i \in Nat /\ j \in Nat /\ s[i].local \in Nat /\ s[j].local \in Nat
    BY StatusElements DEF LocalIds
  <1> QED BY <1>1 DEF Ascending

\* There the setters find the entry they look for, and change no other.
LEMMA FirstIsIt ==
    ASSUME NEW s \in Statuses, Ascending(s), NEW i \in DOMAIN s, NEW id
    PROVE  IsFirst(s, id, i) <=> s[i].local = id
  <1>1. /\ DOMAIN s = 1..Len(s) /\ Len(s) \in Nat
        /\ \A k \in DOMAIN s : s[k].local \in Nat
    BY StatusElements DEF LocalIds
  <1>2. \A k \in 1..(i - 1) : k \in DOMAIN s /\ s[k].local < s[i].local
    BY <1>1 DEF Ascending
  <1> QED BY <1>1, <1>2 DEF IsFirst

\* add_uploaded adds to the session's entry.
LEMMA AddUploadedExact ==
    ASSUME NEW s \in Statuses, Ascending(s), NEW id, NEW n \in Nat, NEW i \in DOMAIN s
    PROVE  LET r == AddUploaded(s, id, n)
           IN /\ r[i].remote = s[i].remote
              /\ s[i].local = id => r[i].uploaded = s[i].uploaded + n
              /\ s[i].local # id => r[i] = s[i]
  <1> DEFINE r == AddUploaded(s, id, n)
  <1>1. s[i] \in SessionUploadStatus
    BY StatusElements
  <1>2. CASE s[i].local = id
    <2>1. IsFirst(s, id, i)
      BY <1>2, FirstIsIt
    <2>2. r[i] = [s[i] EXCEPT !.uploaded = s[i].uploaded + n]
      BY <2>1 DEF AddUploaded
    <2> QED BY <1>1, <1>2, <2>2 DEF SessionUploadStatus
  <1>3. CASE s[i].local # id
    <2>1. ~IsFirst(s, id, i)
      BY <1>3, FirstIsIt
    <2>2. r[i] = s[i]
      BY <2>1, Zenon DEF AddUploaded
    <2> QED BY <1>3, <2>2
  <1> QED BY <1>2, <1>3

\* set_remote_session_id leaves the other sessions' entries alone.
LEMMA SetRemoteExact ==
    ASSUME NEW s \in Statuses, Ascending(s), NEW id, NEW remote, NEW i \in DOMAIN s
    PROVE  LET r == SetRemoteSessionId(s, id, remote)
           IN s[i].local # id => r[i] = s[i]
  <1> SUFFICES ASSUME s[i].local # id PROVE SetRemoteSessionId(s, id, remote)[i] = s[i]
    OBVIOUS
  <1>1. ~IsFirst(s, id, i)
    BY FirstIsIt
  <1> QED BY <1>1, Zenon DEF SetRemoteSessionId

\* finish_session drops the session it is given and no other.
LEMMA FinishSessionExact ==
    ASSUME NEW s \in Statuses, Ascending(s), NEW id
    PROVE  LET r == FinishSession(s, id)
           IN /\ \A j \in DOMAIN r : r[j].local # id
              /\ \A i \in DOMAIN s : s[i].local # id => \E j \in DOMAIN r : r[j] = s[i]
  <1> DEFINE r == FinishSession(s, id)
             at == CHOOSE i \in DOMAIN s : s[i].local = id
             old(j) == IF j < at THEN j ELSE j + 1
  <1>1. Len(s) \in Nat /\ DOMAIN s = 1..Len(s)
    BY StatusElements
  <1>2. CASE id \notin LocalsOf(s)
    BY <1>2 DEF FinishSession, LocalsOf
  <1>3. CASE id \in LocalsOf(s)
    <2>1. at \in DOMAIN s /\ s[at].local = id
      BY <1>3 DEF LocalsOf
    <2>2. r = [j \in 1..(Len(s) - 1) |-> s[old(j)]]
      BY <1>3 DEF FinishSession, RemoveAt
    <2>3. DOMAIN r = 1..(Len(s) - 1) /\ \A j \in DOMAIN r : r[j] = s[old(j)]
      BY <2>2
    <2>4. ASSUME NEW j \in DOMAIN r PROVE r[j].local # id
      <3>1. old(j) \in DOMAIN s /\ old(j) # at
        <4> HIDE DEF r, at
        <4>1. at \in Nat /\ j \in Nat
          BY <1>1, <2>1, <2>3
        <4> QED BY <1>1, <2>1, <2>3, <4>1
      <3>2. s[old(j)].local # id
        BY <2>1, <3>1, OneEntry
      <3> QED BY <2>3, <3>2
    <2>5. ASSUME NEW i \in DOMAIN s, s[i].local # id PROVE \E j \in DOMAIN r : r[j] = s[i]
      <3>1. i # at
        BY <2>1, <2>5
      <3>2. CASE i < at
        <4>1. i \in DOMAIN r /\ old(i) = i
          BY <1>1, <2>1, <2>3, <3>2
        <4> QED BY <2>3, <4>1
      <3>3. CASE at < i
        <4>1. i - 1 \in DOMAIN r /\ old(i - 1) = i
          BY <1>1, <2>1, <2>3, <3>3
        <4> QED BY <2>3, <4>1
      <3> QED BY <1>1, <2>1, <3>1, <3>2, <3>3
    <2> QED BY <2>4, <2>5
  <1> QED BY <1>2, <1>3

-----------------------------------------------------------------------------

(* The tracker. *)

LEMMA EmptyStatus == <<>> \in Statuses /\ DOMAIN <<>> = {}
  BY EmptySeq DEF Statuses

\* The ids of a status are positive.
LEMMA LocalsPositive ==
    ASSUME NEW s \in Statuses PROVE LocalsOf(s) \subseteq Nat \ {0}
  BY StatusElements DEF LocalsOf, LocalIds

THEOREM InitInv == Init => Inv
  <1> SUFFICES ASSUME Init PROVE Inv
    OBVIOUS
  <1> USE BoundsAssumption, CodeConstantsAssumption
  <1>1. CardTypeOK
    <2>1. torn \in BOOLEAN
      BY DEF Init
    <2>2. /\ boots \in 0..MaxBoots /\ started \subseteq 1..MaxBoots /\ stateFile \in Statuses
          /\ points \in [1..MaxBoots -> 0..MaxPoints]
      BY EmptyStatus DEF Init
    <2> QED BY <2>1, <2>2 DEF CardTypeOK
  <1>2. TasksTypeOK
    BY DEF Init, TasksTypeOK
  <1>3. UploadTypeOK
    BY EmptyStatus DEF Init, UploadTypeOK, NoPass, UploadPcs
  <1>4. StatusStored /\ StatusOrdered
    BY EmptyStatus DEF Init, NoPass, StatusStored, Stored, StatusOrdered, Ascending, LocalsOf
  <1>5. GnssInv
    BY DEF Init, GnssInv
  <1>6. CloneInv /\ RetriesInv
    BY EmptyStatus DEF Init, NoPass, CloneInv, RetriesInv, InSession, Counted, Ascending, LocalsOf
  <1> QED BY <1>1, <1>2, <1>3, <1>4, <1>5, <1>6 DEF Inv, TypeOK

-----------------------------------------------------------------------------
\* Power, boot and shutdown

\* Boot reads back what the last save wrote, and its id is above every id in it.
LEMMA BootInv ==
    ASSUME Inv, Boot PROVE Inv'
  <1> USE BoundsAssumption, CodeConstantsAssumption DEF Inv
  <1>1. CardTypeOK'
    BY DEF TypeOK, CardTypeOK, Boot, StartSession
  <1>2. TasksTypeOK'
    BY DEF TypeOK, TasksTypeOK, Boot, StartSession
  <1>3. UploadTypeOK'
    BY EmptyStatus DEF TypeOK, CardTypeOK, UploadTypeOK, Boot, StartSession, UploadPcs
  <1>4. StatusStored'
    BY EmptyStatus DEF StatusStored, Stored, Boot, StartSession
  <1>5. \A id \in LocalsOf(stateFile) : id \in Nat /\ id <= boots
    BY LocalsPositive DEF TypeOK, CardTypeOK, StatusOrdered
  <1>6. boots' = boots + 1 /\ boots \in Nat /\ status' = stateFile /\ stateFile' = stateFile
        /\ gnss' = "loop" /\ hasFix' = FALSE
    BY DEF TypeOK, CardTypeOK, Boot, StartSession
  <1>7. StatusOrdered'
    BY <1>5, <1>6 DEF StatusOrdered
  <1>8. GnssInv'
    BY <1>5, <1>6 DEF GnssInv
  <1>9. CloneInv' /\ RetriesInv'
    BY EmptyStatus DEF Boot, StartSession, CloneInv, RetriesInv, InSession, Counted, Ascending, LocalsOf
  <1> QED BY <1>1, <1>2, <1>3, <1>4, <1>7, <1>8, <1>9 DEF TypeOK

\* Losing memory leaves an empty status, an empty clone and the card as it was.
LEMMA LoseMemoryInv ==
    ASSUME Inv, LoseMemory PROVE Inv'
  <1> USE BoundsAssumption, CodeConstantsAssumption DEF Inv
  <1>1. CardTypeOK'
    BY DEF TypeOK, CardTypeOK, LoseMemory, MemoryGone, cardVars
  <1>2. TasksTypeOK'
    BY DEF TypeOK, TasksTypeOK, LoseMemory, MemoryGone
  <1>3. UploadTypeOK'
    BY EmptyStatus DEF TypeOK, UploadTypeOK, LoseMemory, MemoryGone, UploadPcs
  <1>4. StatusStored' /\ StatusOrdered' /\ GnssInv'
    BY EmptyStatus DEF LoseMemory, MemoryGone, cardVars, StatusStored, Stored, StatusOrdered, GnssInv, Ascending, LocalsOf
  <1>5. CloneInv' /\ RetriesInv'
    BY EmptyStatus DEF LoseMemory, MemoryGone, CloneInv, RetriesInv, InSession, Counted, Ascending, LocalsOf
  <1> QED BY <1>1, <1>2, <1>3, <1>4, <1>5 DEF TypeOK

\* The steps of stop_services and the switch change nothing Inv is about.
LEMMA ShutdownInv ==
    ASSUME Inv, StopGnss \/ StopUpload \/ FlipSwitch PROVE Inv'
  <1> USE DEF Inv
  <1>1. UNCHANGED <<boots, started, points, stateFile, torn, gnss, hasFix, joined, status, upload,
                    clone, cur, count, sent, connected, retries, netState>>
    BY DEF StopGnss, StopUpload, FlipSwitch, cardVars, gnssVars, uploadVars
  <1>2. TasksTypeOK'
    BY DEF TypeOK, TasksTypeOK, StopGnss, StopUpload, FlipSwitch, gnssVars, uploadVars
  <1>3. CardTypeOK' /\ UploadTypeOK'
    BY <1>1 DEF TypeOK, CardTypeOK, UploadTypeOK
  <1>4. StatusStored' /\ StatusOrdered'
    BY <1>1 DEF StatusStored, Stored, StatusOrdered
  <1>5. GnssInv' /\ RetriesInv'
    BY <1>1 DEF GnssInv, RetriesInv
  <1>6. CloneInv'
    BY <1>1 DEF CloneInv, InSession, Counted, Session
  <1> QED BY <1>2, <1>3, <1>4, <1>5, <1>6 DEF TypeOK

-----------------------------------------------------------------------------
\* gnss_monitor_actor

\* The waiting steps move the actor only; a fix leaves room for its point.
LEMMA GnssWaitInv ==
    ASSUME Inv, GnssTerminate \/ GnssReceive \/ GnssNothing \/ GnssFix PROVE Inv'
  <1> USE DEF Inv
  <1>1. UNCHANGED <<boots, started, points, stateFile, torn, phase, uploadSwitch, hasFix, joined,
                    status, upload, clone, cur, count, sent, connected, retries, netState>>
    BY DEF GnssTerminate, GnssReceive, GnssNothing, GnssFix, cardVars, sysVars, uploadVars
  <1>2. TasksTypeOK'
    BY <1>1 DEF TypeOK, TasksTypeOK, GnssTerminate, GnssReceive, GnssNothing, GnssFix
  <1>3. CardTypeOK' /\ UploadTypeOK'
    BY <1>1 DEF TypeOK, CardTypeOK, UploadTypeOK
  <1>4. StatusStored' /\ StatusOrdered' /\ RetriesInv'
    BY <1>1 DEF StatusStored, Stored, StatusOrdered, RetriesInv
  <1>5. GnssInv'
    BY <1>1 DEF GnssInv, GnssTerminate, GnssReceive, GnssNothing, GnssFix, Active
  <1>6. CloneInv'
    BY <1>1 DEF CloneInv, InSession, Counted, Session
  <1> QED BY <1>2, <1>3, <1>4, <1>5, <1>6 DEF TypeOK

\* set_start_time
LEMMA GnssStartInv ==
    ASSUME Inv, GnssStart PROVE Inv'
  <1> USE DEF Inv
  <1>1. /\ UNCHANGED <<boots, points, stateFile, torn, phase, uploadSwitch, joined, status,
                       upload, clone, cur, count, sent, connected, retries, netState>>
        /\ gnss = "start" /\ gnss' = "join"
        /\ started' = started \cup {boots}
    BY DEF GnssStart, Active, sysVars, uploadVars
  <1>2. boots > 0
    BY <1>1 DEF GnssInv
  <1>3. TasksTypeOK'
    BY <1>1 DEF TypeOK, TasksTypeOK, GnssStart
  <1>4. CardTypeOK' /\ UploadTypeOK'
    BY <1>1, <1>2, BoundsAssumption DEF TypeOK, CardTypeOK, UploadTypeOK
  <1>5. StatusStored' /\ StatusOrdered' /\ RetriesInv'
    BY <1>1 DEF StatusStored, Stored, StatusOrdered, RetriesInv
  <1>6. GnssInv'
    BY <1>1 DEF GnssInv
  <1>7. CloneInv'
    BY <1>1 DEF CloneInv, InSession, Counted, Session
  <1> QED BY <1>3, <1>4, <1>5, <1>6, <1>7 DEF TypeOK

\* add_active_session appends a session with a started file, nothing uploaded and
\* the largest id.
LEMMA GnssJoinInv ==
    ASSUME Inv, GnssJoin PROVE Inv'
  <1> USE DEF Inv
  <1>1. /\ UNCHANGED <<boots, started, points, torn, phase, uploadSwitch, hasFix,
                       upload, clone, cur, count, sent, connected, retries, netState>>
        /\ gnss = "join" /\ gnss' = "append"
    BY DEF GnssJoin, sysVars, passVars
  <1>2. CASE ~(~joined /\ uploadSwitch)
    <2>1. UNCHANGED <<status, stateFile, joined>>
      BY <1>2 DEF GnssJoin
    <2>2. TypeOK'
      BY <1>1, <2>1 DEF TypeOK, CardTypeOK, TasksTypeOK, UploadTypeOK
    <2>3. StatusStored' /\ StatusOrdered' /\ RetriesInv' /\ GnssInv'
      BY <1>1, <2>1 DEF StatusStored, Stored, StatusOrdered, RetriesInv, GnssInv
    <2>4. CloneInv'
      BY <1>1, <2>1 DEF CloneInv, InSession, Counted, Session
    <2> QED BY <2>2, <2>3, <2>4
  <1>3. CASE ~joined /\ uploadSwitch
    <2> DEFINE new == AddSession(status, boots)
    <2>1. status' = new /\ stateFile' = new /\ joined' = TRUE
      BY <1>3 DEF GnssJoin, Active
    <2>2. boots \in LocalIds /\ boots <= MaxBoots /\ status \in Statuses
          /\ points \in [1..MaxBoots -> Nat] /\ boots \in 1..MaxBoots
      BY <1>1, BoundsAssumption DEF GnssInv, TypeOK, CardTypeOK, UploadTypeOK, LocalIds
    <2>3. /\ new \in Statuses
          /\ Len(status) \in Nat /\ DOMAIN status = 1..Len(status)
          /\ DOMAIN new = 1..(Len(status) + 1)
          /\ \A i \in DOMAIN status : new[i] = status[i]
          /\ new[Len(status) + 1].local = boots
          /\ new[Len(status) + 1].uploaded = 0
      BY <2>2, AddSessionResult, StatusElements
    <2> HIDE DEF new
    <2>4. \A i \in DOMAIN new : i \in DOMAIN status \/ i = Len(status) + 1
      BY <2>3
    <2>5. TasksTypeOK'
      BY <1>1, <2>1 DEF TypeOK, TasksTypeOK
    <2>6. CardTypeOK' /\ UploadTypeOK'
      BY <1>1, <2>1, <2>3 DEF TypeOK, CardTypeOK, UploadTypeOK
    <2>7. Stored(new)
      BY <1>1, <2>1, <2>2, <2>3, <2>4 DEF Stored, StatusStored, GnssInv
    <2>8. StatusStored'
      BY <1>1, <2>1, <2>7 DEF StatusStored, Stored
    <2>9. \A i \in DOMAIN status : status[i].local < boots
      BY <1>1, <1>3 DEF GnssInv, LocalsOf
    <2>10. Ascending(new) /\ \A id \in LocalsOf(new) : id <= boots
      BY <2>2, <2>3, <2>4, <2>9 DEF StatusOrdered, Ascending, LocalsOf, LocalIds
    <2>11. StatusOrdered' /\ RetriesInv'
      BY <1>1, <2>1, <2>10 DEF StatusOrdered, RetriesInv
    <2>12. GnssInv'
      BY <1>1, <2>1 DEF GnssInv
    <2>13. \A j \in DOMAIN clone : clone[j].uploaded \in Nat
      BY StatusElements DEF TypeOK, UploadTypeOK
    <2>14. CloneInv'
      BY <1>1, <2>1, <2>3, <2>4, <2>13 DEF CloneInv, InSession, Counted, Session
    <2> QED BY <2>5, <2>6, <2>8, <2>11, <2>12, <2>14 DEF TypeOK
  <1> QED BY <1>2, <1>3

\* append_track_point: the file of the active session grows.
LEMMA GnssAppendInv ==
    ASSUME Inv, GnssAppend PROVE Inv'
  <1> USE DEF Inv
  <1>1. /\ UNCHANGED <<boots, started, stateFile, torn, phase, uploadSwitch, hasFix, joined, status,
                       upload, clone, cur, count, sent, connected, retries, netState>>
        /\ gnss = "append" /\ gnss' = "loop"
        /\ points' = [points EXCEPT ![boots] = @ + 1]
    BY DEF GnssAppend, Active, sysVars, uploadVars
  <1>2. /\ boots \in 1..MaxBoots /\ points \in [1..MaxBoots -> 0..MaxPoints]
        /\ points[boots] < MaxPoints /\ started \subseteq 1..MaxBoots
    BY <1>1, BoundsAssumption DEF GnssInv, TypeOK, CardTypeOK
  <1>3. /\ points' \in [1..MaxBoots -> 0..MaxPoints]
        /\ \A id \in 1..MaxBoots : points[id] \in Nat /\ points'[id] \in Nat
                                   /\ points[id] <= points'[id]
    BY <1>1, <1>2, BoundsAssumption
  <1>4. TasksTypeOK'
    BY <1>1 DEF TypeOK, TasksTypeOK
  <1>5. CardTypeOK' /\ UploadTypeOK'
    BY <1>1, <1>3 DEF TypeOK, CardTypeOK, UploadTypeOK
  <1>6. ASSUME NEW s \in Statuses, Stored(s)
        PROVE  \A i \in DOMAIN s : /\ s[i].local \in started
                                   /\ s[i].local \in 1..MaxBoots
                                   /\ s[i].uploaded <= points'[s[i].local]
    <2> TAKE i \in DOMAIN s
    <2>1. s[i].local \in started /\ s[i].uploaded <= points[s[i].local]
      BY <1>6 DEF Stored
    <2>2. s[i].uploaded \in Nat
      BY <1>6, StatusElements
    <2>3. s[i].local \in 1..MaxBoots
      BY <1>2, <2>1
    <2> QED BY <1>3, <2>1, <2>2, <2>3
  <1>7. StatusStored'
    BY <1>1, <1>6 DEF StatusStored, Stored, TypeOK, CardTypeOK, UploadTypeOK
  <1>8. StatusOrdered' /\ RetriesInv' /\ GnssInv'
    BY <1>1 DEF StatusOrdered, RetriesInv, GnssInv
  <1>9. InSession => Session.local \in 1..MaxBoots
    BY <1>6 DEF CloneInv, StatusStored, TypeOK, UploadTypeOK, Session
  <1>10. CloneInv'
    BY <1>1, <1>3, <1>9 DEF CloneInv, InSession, Counted, Session, TypeOK, UploadTypeOK
  <1> QED BY <1>4, <1>5, <1>7, <1>8, <1>10 DEF TypeOK

-----------------------------------------------------------------------------
\* upload_actor

\* A step that moves the actor within a session, or out of it, and changes
\* neither the card nor the status, the clone or the count.
LEMMA MoveInv ==
    ASSUME Inv, UNCHANGED <<Outside, status, clone, cur, count>>,
           InSession' => InSession, InSession' /\ Counted => Counted',
           upload' # "next", TasksTypeOK', UploadTypeOK', RetriesInv'
    PROVE  Inv'
  <1> USE DEF Inv
  <1>1. UNCHANGED <<boots, started, points, stateFile, torn, gnss, hasFix, joined, status,
                    clone, cur, count>>
    BY DEF Outside, cardVars, gnssVars
  <1>2. CardTypeOK'
    BY <1>1 DEF TypeOK, CardTypeOK
  <1>3. StatusStored' /\ StatusOrdered' /\ GnssInv'
    BY <1>1 DEF StatusStored, Stored, StatusOrdered, GnssInv
  <1>4. Session' = Session
    BY <1>1 DEF Session
  <1>5. CloneInv'
    <2>1. InSession' => cur' \in DOMAIN clone' /\ Session'.uploaded <= count'
                        /\ count' <= points'[Session'.local]
      BY <1>1, <1>4 DEF CloneInv
    <2>2. ASSUME InSession' \/ upload' = "next",
                 NEW k \in DOMAIN status', NEW j \in DOMAIN clone',
                 j >= cur' /\ (j = cur' => ~Counted') /\ status'[k].local = clone'[j].local
          PROVE  status'[k].uploaded <= clone'[j].uploaded
      BY <1>1, <2>2 DEF CloneInv
    <2> QED BY <1>1, <2>1, <2>2 DEF CloneInv
  <1> QED BY <1>2, <1>3, <1>5 DEF TypeOK

\* The steps that wait for the switch, for the link, or for the next pass.
LEMMA LinkInv ==
    ASSUME Inv, UploadDisabled \/ OpenOk \/ HelloOk \/ FinishSent \/ SignSent \/ LinkFails
    PROVE  Inv'
  <1>1. /\ UNCHANGED <<Outside, status, clone, cur, count, sent, retries>>
        /\ upload # "done" /\ upload # "off"
    BY DEF UploadDisabled, OpenOk, HelloOk, FinishSent, SignSent, LinkFails, Fail, passVars
  <1>2. /\ InSession' => InSession
        /\ InSession' /\ Counted => Counted'
        /\ upload' # "next"
        /\ upload' \in UploadPcs
    BY DEF UploadDisabled, OpenOk, HelloOk, FinishSent, SignSent, LinkFails, Fail,
           InSession, Counted, UploadPcs
  <1>3. connected' \in 0..MaxBoots
    <2>1. CASE HelloOk
      <3>1. InSession
        BY <2>1 DEF HelloOk, InSession
      <3>2. /\ cur \in DOMAIN clone /\ clone \in Statuses /\ boots \in 0..MaxBoots
            /\ \A id \in LocalsOf(clone) : id <= boots
        BY <3>1 DEF Inv, TypeOK, CardTypeOK, UploadTypeOK, CloneInv
      <3>3. Session.local \in Nat /\ Session.local <= boots
        BY <3>2, LocalsPositive DEF Session, LocalsOf
      <3> QED BY <2>1, <3>2, <3>3, BoundsAssumption DEF HelloOk, Inv, TypeOK, UploadTypeOK
    <2>2. CASE ~HelloOk
      BY <2>2 DEF UploadDisabled, OpenOk, FinishSent, SignSent, LinkFails, Fail,
                  Inv, TypeOK, UploadTypeOK
    <2> QED BY <2>1, <2>2
  <1>4. TasksTypeOK'
    BY <1>1 DEF UploadDisabled, OpenOk, HelloOk, FinishSent, SignSent, LinkFails, Fail,
                Inv, TypeOK, TasksTypeOK, Outside, sysVars, gnssVars
  <1>5. UploadTypeOK' /\ RetriesInv'
    BY <1>1, <1>2, <1>3 DEF Inv, TypeOK, UploadTypeOK, RetriesInv
  <1> QED BY <1>1, <1>2, <1>4, <1>5, MoveInv

\* One more message of the session is out.
LEMMA ChunkInv ==
    ASSUME Inv, ChunkOk PROVE Inv'
  <1>1. /\ UNCHANGED <<Outside, status, upload, clone, cur, count, connected, retries, netState>>
        /\ upload = "data" /\ sent < Missing /\ sent' = sent + ChunkSize
    BY DEF ChunkOk
  <1>2. InSession /\ cur \in DOMAIN clone /\ clone \in Statuses
    BY <1>1 DEF Inv, TypeOK, UploadTypeOK, CloneInv, InSession
  <1>3. Missing \in Int /\ sent \in Nat
    <2>1. Session.uploaded \in Nat
      BY <1>2, StatusElements DEF Session
    <2> QED BY <2>1 DEF Missing, Inv, TypeOK, UploadTypeOK
  <1>4. sent' \in Nat
    BY <1>1, <1>3, CodeConstantsAssumption DEF ChunkSize
  <1>5. TasksTypeOK'
    BY <1>1 DEF Inv, TypeOK, TasksTypeOK, Outside, sysVars, gnssVars
  <1>6. UploadTypeOK' /\ RetriesInv'
    BY <1>1, <1>4 DEF Inv, TypeOK, UploadTypeOK, RetriesInv
  <1>7. InSession' = InSession /\ Counted' = Counted /\ upload' # "next"
    BY <1>1 DEF InSession, Counted
  <1> QED BY <1>1, <1>5, <1>6, <1>7, MoveInv

\* The end of a pass: a failed one forgets its connection, and the passes after
\* stop are counted down to 0 at most.
LEMMA PassEndInv ==
    ASSUME Inv, PassDone \/ PassFailed \/ EndPass PROVE Inv'
  <1>1. UNCHANGED <<Outside, status, clone, cur, count, sent>> /\ upload # "done"
    BY DEF PassDone, PassFailed, EndPass, EndPassWith, passVars
  <1>2. ~InSession' /\ upload' # "next" /\ upload' \in UploadPcs
    BY DEF PassDone, PassFailed, EndPass, EndPassWith, InSession, UploadPcs
  <1>3. connected' \in 0..MaxBoots
    BY BoundsAssumption DEF PassDone, PassFailed, EndPass, EndPassWith, Inv, TypeOK, UploadTypeOK
  <1>4. retries \in 1..Retries
    BY <1>1, CodeConstantsAssumption DEF Inv, TypeOK, UploadTypeOK, RetriesInv
  <1>5. retries' \in 0..Retries /\ RetriesInv'
    BY <1>4, CodeConstantsAssumption DEF PassDone, PassFailed, EndPass, EndPassWith, RetriesInv
  <1>6. TasksTypeOK'
    BY <1>1 DEF PassDone, PassFailed, EndPass, EndPassWith,
                Inv, TypeOK, TasksTypeOK, Outside, sysVars, gnssVars
  <1>7. UploadTypeOK'
    BY <1>1, <1>2, <1>3, <1>5 DEF Inv, TypeOK, UploadTypeOK
  <1> QED BY <1>1, <1>2, <1>5, <1>6, <1>7, MoveInv

\* A pass begins with a clone of the status.
LEMMA BeginInv ==
    ASSUME Inv, UploadBegin PROVE Inv'
  <1> USE DEF Inv
  <1>1. /\ UNCHANGED <<boots, started, points, stateFile, torn, phase, uploadSwitch, gnss, hasFix, joined,
                       status, count, sent, connected, retries, netState>>
        /\ upload = "wait" /\ upload' = "next" /\ clone' = status /\ cur' = 1
    BY DEF UploadBegin, Outside, cardVars, sysVars, gnssVars
  <1>2. TypeOK'
    BY <1>1 DEF TypeOK, CardTypeOK, TasksTypeOK, UploadTypeOK, UploadPcs
  <1>3. StatusStored' /\ StatusOrdered' /\ GnssInv' /\ RetriesInv'
    BY <1>1 DEF StatusStored, Stored, StatusOrdered, GnssInv, RetriesInv
  <1>4. Ascending(status) /\ \A id \in LocalsOf(status) : id <= boots
    BY DEF StatusOrdered
  <1>5. ASSUME NEW k \in DOMAIN status, NEW j \in DOMAIN status, status[k].local = status[j].local
        PROVE  status[k].uploaded <= status[j].uploaded
    <2>1. /\ k \in Nat /\ j \in Nat
          /\ status[k].local \in Nat /\ status[j].local \in Nat /\ status[k].uploaded \in Nat
      BY StatusElements DEF TypeOK, UploadTypeOK, LocalIds
    <2>2. k = j
      BY <1>4, <1>5, <2>1 DEF Ascending
    <2> QED BY <2>1, <2>2
  <1>6. CloneInv'
    BY <1>1, <1>4, <1>5 DEF CloneInv, InSession
  <1> QED BY <1>2, <1>3, <1>6

\* The head of the for loop: the count covers what is counted as uploaded.
LEMMA NextSessionInv ==
    ASSUME Inv, NextSession PROVE Inv'
  <1> USE DEF Inv
  <1>1. /\ UNCHANGED <<boots, started, points, stateFile, torn, phase, uploadSwitch, gnss, hasFix, joined,
                       status, clone, cur, connected, retries, netState>>
        /\ upload = "next" /\ upload' \in {"data", "open"} /\ cur <= Len(clone)
        /\ count' = points[Session.local] /\ sent' = 0
    BY DEF NextSession, Outside, cardVars, sysVars, gnssVars
  <1>2. cur \in DOMAIN clone /\ Session' = Session
    BY <1>1, StatusElements DEF TypeOK, UploadTypeOK, Session
  <1>3. Session.local \in started /\ Session.uploaded <= points[Session.local]
    BY <1>2 DEF StatusStored, Stored, Session
  <1>4. count' \in Nat
    <2>1. Session.local \in 1..MaxBoots
      BY <1>3 DEF TypeOK, CardTypeOK
    <2>2. points[Session.local] \in 0..MaxPoints
      BY <2>1 DEF TypeOK, CardTypeOK
    <2> QED BY <1>1, <2>2, BoundsAssumption
  <1>5. TasksTypeOK' /\ CardTypeOK'
    BY <1>1 DEF TypeOK, CardTypeOK, TasksTypeOK
  <1>6. UploadTypeOK'
    BY <1>1, <1>4 DEF TypeOK, UploadTypeOK, UploadPcs
  <1>7. StatusStored' /\ StatusOrdered' /\ GnssInv' /\ RetriesInv'
    BY <1>1 DEF StatusStored, Stored, StatusOrdered, GnssInv, RetriesInv
  <1>8. count' <= points[Session.local]
    BY <1>1, <1>4
  <1>9. CloneInv'
    BY <1>1, <1>2, <1>3, <1>8 DEF CloneInv, InSession, Counted
  <1> QED BY <1>5, <1>6, <1>7, <1>9 DEF TypeOK

\* set_remote_session_id leaves ids and counts alone.
LEMMA IdInv ==
    ASSUME Inv, NEW remote \in RemoteIds, IdOk(remote) PROVE Inv'
  <1> USE DEF Inv
  <1> DEFINE new == SetRemoteSessionId(status, Session.local, remote)
  <1>1. /\ UNCHANGED <<boots, started, points, stateFile, torn, phase, uploadSwitch, gnss, hasFix, joined,
                       clone, cur, count, sent, connected, retries, netState>>
        /\ upload = "id" /\ upload' = "saveId" /\ status' = new
    BY DEF IdOk, Outside, cardVars, sysVars, gnssVars, passVars
  <1>2. /\ new \in Statuses /\ DOMAIN new = DOMAIN status
        /\ \A i \in DOMAIN status : new[i].local = status[i].local
                                    /\ new[i].uploaded = status[i].uploaded
    BY SetRemoteResult DEF TypeOK, UploadTypeOK
  <1> HIDE DEF new
  <1>3. TypeOK'
    BY <1>1, <1>2 DEF TypeOK, CardTypeOK, TasksTypeOK, UploadTypeOK, UploadPcs
  <1>4. StatusStored'
    BY <1>1, <1>2 DEF StatusStored, Stored
  <1>5. LocalsOf(new) = LocalsOf(status) /\ (Ascending(status) => Ascending(new))
    BY <1>2 DEF LocalsOf, Ascending
  <1>6. StatusOrdered' /\ GnssInv' /\ RetriesInv'
    BY <1>1, <1>5 DEF StatusOrdered, GnssInv, RetriesInv
  <1>7. Session' = Session
    BY <1>1 DEF Session
  <1>8. CloneInv'
    BY <1>1, <1>2, <1>7 DEF CloneInv, InSession, Counted
  <1> QED BY <1>3, <1>4, <1>6, <1>8

\* A save brings STATE.CSV to the status, and keeps the pass where it is or takes
\* it past a finished session.
LEMMA SaveInv ==
    ASSUME Inv, SaveId \/ SaveUploaded \/ SaveFinish PROVE Inv'
  <1> USE DEF Inv
  <1>1. /\ UNCHANGED <<boots, started, points, torn, phase, uploadSwitch, gnss, hasFix, joined,
                       status, clone, count, sent, retries, netState>>
        /\ stateFile' = status
        /\ InSession
    BY DEF SaveId, SaveUploaded, SaveFinish, sysVars, gnssVars, passVars, InSession
  <1>2. /\ cur \in DOMAIN clone /\ clone \in Statuses /\ boots \in 0..MaxBoots
        /\ Session.local \in Nat /\ Session.local <= boots
    <2>1. cur \in DOMAIN clone /\ clone \in Statuses /\ boots \in 0..MaxBoots
      BY <1>1 DEF TypeOK, CardTypeOK, UploadTypeOK, CloneInv
    <2>2. Session.local \in LocalsOf(clone)
      BY <2>1 DEF Session, LocalsOf
    <2> QED BY <2>1, <2>2, LocalsPositive DEF CloneInv
  <1>3. /\ connected' \in 0..MaxBoots
        /\ cur' \in Nat \ {0}
        /\ upload' \in UploadPcs
    BY <1>2, BoundsAssumption DEF SaveId, SaveUploaded, SaveFinish, passVars, TypeOK, UploadTypeOK, UploadPcs
  <1>4. CardTypeOK' /\ TasksTypeOK'
    BY <1>1 DEF TypeOK, CardTypeOK, TasksTypeOK, UploadTypeOK
  <1>5. UploadTypeOK'
    BY <1>1, <1>3 DEF TypeOK, UploadTypeOK
  <1>6. StatusStored' /\ StatusOrdered' /\ GnssInv'
    BY <1>1 DEF StatusStored, Stored, StatusOrdered, GnssInv
  <1>7. RetriesInv'
    BY <1>1 DEF SaveId, SaveUploaded, SaveFinish, RetriesInv
  <1>8. \/ upload' \in {"data", "settle"} /\ cur' = cur /\ (Counted => Counted')
        \/ upload' = "next" /\ cur' = cur + 1 /\ cur \in Nat
    BY <1>2 DEF SaveId, SaveUploaded, SaveFinish, Counted, passVars, TypeOK, UploadTypeOK
  <1>9. CASE upload' \in {"data", "settle"} /\ cur' = cur /\ (Counted => Counted')
    <2>1. Session' = Session
      BY <1>1, <1>9 DEF Session
    <2>2. CloneInv'
      BY <1>1, <1>9, <2>1 DEF CloneInv, InSession
    <2> QED BY <2>2, <1>4, <1>5, <1>6, <1>7 DEF TypeOK
  <1>10. CASE upload' = "next" /\ cur' = cur + 1 /\ cur \in Nat
    <2>1. ~InSession'
      BY <1>10 DEF InSession
    <2>2. \A j \in DOMAIN clone : j \in Nat
      BY <1>2, StatusElements
    <2>3. CloneInv'
      BY <1>1, <1>10, <2>1, <2>2 DEF CloneInv
    <2> QED BY <2>3, <1>4, <1>5, <1>6, <1>7 DEF TypeOK
  <1> QED BY <1>8, <1>9, <1>10

\* add_uploaded brings the session's entry to the count at most: what the clone
\* has plus what was missing of it.
LEMMA DataDoneInv ==
    ASSUME Inv, DataDone PROVE Inv'
  <1>1. /\ UNCHANGED <<Outside, clone, cur, count, sent, connected, retries, netState>>
        /\ upload = "data" /\ InSession /\ ~Counted
    BY DEF DataDone, CountUploaded, passVars, InSession, Counted
  <1>2. UNCHANGED <<boots, started, points, stateFile, torn, phase, uploadSwitch, gnss, hasFix, joined>>
    BY <1>1 DEF Outside, cardVars, sysVars, gnssVars
  <1>3. TasksTypeOK' /\ RetriesInv'
    BY <1>1, <1>2 DEF Inv, TypeOK, TasksTypeOK, RetriesInv, DataDone, CountUploaded
  <1>4. CASE ~(Missing > 0)
    <2>1. upload' = "settle" /\ status' = status
      BY <1>4 DEF DataDone, CountUploaded
    <2>2. UploadTypeOK' /\ RetriesInv'
      BY <1>1, <2>1 DEF Inv, TypeOK, UploadTypeOK, UploadPcs, RetriesInv
    <2>3. InSession' /\ upload' # "next"
      BY <2>1 DEF InSession
    <2> QED BY <1>1, <1>3, <2>1, <2>2, <2>3, MoveInv
  <1>5. CASE Missing > 0
    <2> DEFINE new == AddUploaded(status, Session.local, Missing)
    <2>1. status' = new /\ upload' = "saveUploaded"
      BY <1>5 DEF DataDone, CountUploaded
    <2>2. /\ cur \in DOMAIN clone /\ clone \in Statuses /\ status \in Statuses
          /\ Session.uploaded <= count /\ count <= points[Session.local]
      BY <1>1 DEF Inv, TypeOK, UploadTypeOK, CloneInv
    <2>3. /\ Session.uploaded \in Nat /\ Session.local \in Nat
          /\ cur \in Nat /\ count \in Nat
      BY <2>2, StatusElements DEF Session, LocalIds, Inv, TypeOK, UploadTypeOK
    <2>4. Missing \in Nat /\ Session.uploaded + Missing = count
      BY <1>5, <2>2, <2>3 DEF Missing
    <2>5. /\ new \in Statuses /\ DOMAIN new = DOMAIN status
          /\ \A i \in DOMAIN status :
                /\ new[i].local = status[i].local
                /\ \/ new[i].uploaded = status[i].uploaded
                   \/ /\ new[i].local = Session.local
                      /\ new[i].uploaded = status[i].uploaded + Missing
      BY <2>2, <2>4, AddUploadedResult
    <2> HIDE DEF new
    <2>6. \A i \in DOMAIN status : status[i].uploaded \in Nat
      BY <2>2, StatusElements
    <2>7. \A i \in DOMAIN status : status[i].local = Session.local
                                    => status[i].uploaded <= Session.uploaded
      BY <1>1, <2>2, <2>3 DEF Inv, CloneInv, Session
    <2>8. points[Session.local] \in Nat
      <3>1. Session.local \in started
        BY <2>2 DEF Inv, StatusStored, Stored, Session
      <3>2. points[Session.local] \in 0..MaxPoints
        BY <3>1 DEF Inv, TypeOK, CardTypeOK
      <3> QED BY <3>2, BoundsAssumption
    <2>9. CardTypeOK' /\ UploadTypeOK'
      BY <1>1, <1>2, <2>1, <2>5 DEF Inv, TypeOK, CardTypeOK, UploadTypeOK, UploadPcs
    <2>10. ASSUME NEW i \in DOMAIN status
           PROVE  new[i].local \in started /\ new[i].uploaded <= points[new[i].local]
      <3>1. status[i].local \in started /\ status[i].uploaded <= points[status[i].local]
        BY DEF Inv, StatusStored, Stored
      <3>2. CASE new[i].uploaded = status[i].uploaded
        BY <2>5, <3>1, <3>2
      <3>3. CASE new[i].local = Session.local /\ new[i].uploaded = status[i].uploaded + Missing
        BY <2>2, <2>3, <2>4, <2>5, <2>6, <2>7, <2>8, <3>1, <3>3
      <3> QED BY <2>5, <3>2, <3>3
    <2>11. StatusStored'
      BY <1>2, <1>1, <2>1, <2>5, <2>10 DEF Inv, StatusStored, Stored
    <2>12. LocalsOf(new) = LocalsOf(status) /\ (Ascending(status) => Ascending(new))
      BY <2>5 DEF LocalsOf, Ascending
    <2>13. StatusOrdered' /\ GnssInv'
      BY <1>2, <2>1, <2>12 DEF Inv, StatusOrdered, GnssInv
    <2>14. Session' = Session
      BY <1>1 DEF Session
    <2>15. ASSUME NEW k \in DOMAIN status, NEW j \in DOMAIN clone, j > cur,
                  status[k].local = clone[j].local
           PROVE  new[k].uploaded = status[k].uploaded /\ status[k].uploaded <= clone[j].uploaded
      <3>1. j \in Nat
        BY <2>2, StatusElements
      <3>2. clone[j].local \in Nat /\ Session.local < clone[j].local
        BY <2>2, <2>15, StatusElements DEF Inv, CloneInv, Ascending, Session, LocalIds
      <3>3. new[k].uploaded = status[k].uploaded
        BY <2>3, <2>5, <2>15, <3>2
      <3>4. status[k].uploaded <= clone[j].uploaded
        BY <1>1, <2>3, <2>15, <3>1 DEF Inv, CloneInv
      <3> QED BY <3>3, <3>4
    <2>16. Counted' /\ InSession'
      BY <2>1 DEF Counted, InSession
    <2>17. \A j \in DOMAIN clone : j \in Nat
      BY <2>2, StatusElements
    <2>18. CloneInv'
      BY <1>1, <1>2, <2>1, <2>2, <2>3, <2>5, <2>14, <2>15, <2>16, <2>17 DEF Inv, CloneInv
    <2> QED BY <1>3, <2>9, <2>11, <2>13, <2>18 DEF Inv, TypeOK
  <1> QED BY <1>4, <1>5

\* The session gets no more points and is finished, or the loop goes on.
LEMMA SettleInv ==
    ASSUME Inv, Settle PROVE Inv'
  <1>1. /\ UNCHANGED <<Outside, status, clone, count, sent, connected, retries, netState>>
        /\ upload = "settle" /\ InSession /\ Counted
    BY DEF Settle, InSession, Counted
  <1>2. TasksTypeOK' /\ RetriesInv'
    BY <1>1 DEF Settle, Inv, TypeOK, TasksTypeOK, RetriesInv, Outside, sysVars, gnssVars
  <1>3. CASE upload' = "finish" /\ cur' = cur
    <2>1. UploadTypeOK'
      BY <1>1, <1>3 DEF Inv, TypeOK, UploadTypeOK, UploadPcs
    <2>2. InSession' /\ Counted' /\ upload' # "next"
      BY <1>3 DEF InSession, Counted
    <2> QED BY <1>1, <1>2, <1>3, <2>1, <2>2, MoveInv
  <1>4. CASE upload' = "next" /\ cur' = cur + 1
    <2>1. UNCHANGED <<boots, started, points, stateFile, torn, gnss, hasFix, joined>>
      BY <1>1 DEF Outside, cardVars, gnssVars
    <2>2. CardTypeOK' /\ UploadTypeOK'
      BY <1>1, <1>4, <2>1 DEF Inv, TypeOK, CardTypeOK, UploadTypeOK, UploadPcs
    <2>3. StatusStored' /\ StatusOrdered' /\ GnssInv'
      BY <1>1, <2>1 DEF Inv, StatusStored, Stored, StatusOrdered, GnssInv
    <2>4. ~InSession'
      BY <1>4 DEF InSession
    <2>5. cur \in Nat /\ \A j \in DOMAIN clone : j \in Nat
      BY StatusElements DEF Inv, TypeOK, UploadTypeOK
    <2>6. CloneInv'
      BY <1>1, <1>4, <2>1, <2>4, <2>5 DEF Inv, CloneInv
    <2> QED BY <1>2, <2>2, <2>3, <2>6 DEF Inv, TypeOK
  <1> QED BY <1>3, <1>4 DEF Settle

\* The acknowledged session leaves the status; the others stay as they are.
LEMMA AckInv ==
    ASSUME Inv, AckOk PROVE Inv'
  <1> DEFINE new == FinishSession(status, Session.local)
  <1>1. /\ UNCHANGED <<boots, started, points, stateFile, torn, phase, uploadSwitch, gnss, hasFix, joined,
                       clone, cur, count, sent, connected, retries, netState>>
        /\ upload = "ack" /\ upload' = "saveFinish" /\ status' = new
    BY DEF AckOk, Outside, cardVars, sysVars, gnssVars, passVars
  <1>2. /\ new \in Statuses
        /\ \A k \in DOMAIN new : \E i \in DOMAIN status : new[k] = status[i]
        /\ Ascending(status) => Ascending(new)
    BY FinishSessionResult DEF Inv, TypeOK, UploadTypeOK
  <1> HIDE DEF new
  <1>3. TypeOK'
    BY <1>1, <1>2 DEF Inv, TypeOK, CardTypeOK, TasksTypeOK, UploadTypeOK, UploadPcs
  <1>4. StatusStored'
    BY <1>1, <1>2 DEF Inv, StatusStored, Stored
  <1>5. LocalsOf(new) \subseteq LocalsOf(status)
    BY <1>2 DEF LocalsOf
  <1>6. StatusOrdered' /\ GnssInv' /\ RetriesInv'
    BY <1>1, <1>2, <1>5 DEF Inv, StatusOrdered, GnssInv, RetriesInv
  <1>7. Session' = Session /\ InSession /\ Counted /\ Counted'
    BY <1>1 DEF Session, InSession, Counted
  <1>8. CloneInv'
    BY <1>1, <1>2, <1>7 DEF Inv, CloneInv
  <1> QED BY <1>3, <1>4, <1>6, <1>8 DEF Inv

-----------------------------------------------------------------------------

\* Every step keeps Inv, but a cut save.
THEOREM NextInv == Inv /\ ~torn' /\ [Next]_vars => Inv'
  <1> SUFFICES ASSUME Inv, ~torn', [Next]_vars PROVE Inv'
    OBVIOUS
  <1>1. CASE Boot
    BY <1>1, BootInv
  <1>2. CASE PowerLoss \/ Sleep
    BY <1>2, LoseMemoryInv DEF PowerLoss, Sleep
  <1>3. CASE StopGnss \/ StopUpload \/ FlipSwitch
    BY <1>3, ShutdownInv
  <1>4. CASE Gnss
    BY <1>4, GnssWaitInv, GnssStartInv, GnssJoinInv, GnssAppendInv DEF Gnss
  <1>5. CASE Upload
    BY <1>5, LinkInv, ChunkInv, PassEndInv, BeginInv, NextSessionInv, IdInv, SaveInv,
       DataDoneInv, SettleInv, AckInv DEF Upload
  <1>6. CASE UNCHANGED vars
    BY <1>6 DEF Inv, vars, cardVars, sysVars, gnssVars, uploadVars, TypeOK, CardTypeOK,
       TasksTypeOK, UploadTypeOK, StatusStored, Stored, StatusOrdered, GnssInv, CloneInv,
       RetriesInv, InSession, Counted, Session
  <1>7. ~CutSave
    BY DEF CutSave
  <1> QED BY <1>1, <1>2, <1>3, <1>4, <1>5, <1>6, <1>7 DEF Next

\* Only a cut save tears the file.
LEMMA TornStep == [Next]_vars => torn' = torn \/ CutSave
  BY DEF Next, Boot, StartSession, PowerLoss, Sleep, LoseMemory, StopGnss, StopUpload,
     FlipSwitch, Gnss, GnssTerminate, GnssReceive, GnssNothing, GnssFix, GnssStart, GnssJoin,
     GnssAppend, Upload, UploadDisabled, UploadBegin, NextSession, PassDone, OpenOk, HelloOk,
     IdOk, SaveId, ChunkOk, DataDone, CountUploaded, SaveUploaded, Settle, FinishSent,
     SignSent, AckOk, SaveFinish, LinkFails, Fail, PassFailed, EndPass, EndPassWith, Outside,
     cardVars, vars

\* A cut save leaves a tracker that is off, with nothing in memory.
LEMMA CutTypeOK == TypeOK /\ CutSave => TypeOK' /\ TornInv'
  <1> SUFFICES ASSUME TypeOK, CutSave PROVE TypeOK' /\ TornInv'
    OBVIOUS
  <1> USE BoundsAssumption, CodeConstantsAssumption, MisreadsAssumption DEF CutSave, MemoryGone
  <1>1. CardTypeOK' /\ TornInv'
    BY DEF TypeOK, CardTypeOK, TornInv
  <1>2. TasksTypeOK'
    BY DEF TypeOK, TasksTypeOK
  <1>3. UploadTypeOK'
    BY EmptyStatus DEF TypeOK, UploadTypeOK, UploadPcs
  <1> QED BY <1>1, <1>2, <1>3 DEF TypeOK

\* With a torn file the tracker stays off; only the switch can still be moved.
LEMMA StaysTorn == TypeOK /\ TornInv /\ torn /\ [Next]_vars => TypeOK' /\ TornInv' /\ torn'
  <1> SUFFICES ASSUME TypeOK, TornInv, torn, [Next]_vars PROVE TypeOK' /\ TornInv' /\ torn'
    OBVIOUS
  <1>1. phase = "off" /\ gnss = "off" /\ upload = "off"
    BY DEF TornInv
  <1>2. FlipSwitch \/ UNCHANGED vars
    BY <1>1 DEF Next, Boot, StartSession, PowerLoss, CutSave, Saving, Sleep, StopGnss,
       StopUpload, Gnss, GnssTerminate, GnssReceive, GnssNothing, GnssFix, GnssStart, GnssJoin,
       GnssAppend, Upload, UploadDisabled, UploadBegin, NextSession, PassDone, OpenOk, HelloOk,
       IdOk, SaveId, ChunkOk, DataDone, CountUploaded, SaveUploaded, Settle, FinishSent,
       SignSent, AckOk, SaveFinish, LinkFails, Fail, PassFailed, EndPass, EndPassWith
  <1>3. /\ UNCHANGED <<cardVars, phase, gnssVars, uploadVars>>
        /\ uploadSwitch' \in {uploadSwitch, ~uploadSwitch}
    BY <1>2 DEF FlipSwitch, vars, sysVars
  <1>4. CardTypeOK' /\ UploadTypeOK' /\ TornInv' /\ torn'
    BY <1>3 DEF TypeOK, CardTypeOK, UploadTypeOK, TornInv, cardVars, gnssVars, uploadVars
  <1>5. TasksTypeOK'
    BY <1>3 DEF TypeOK, TasksTypeOK, gnssVars, uploadVars
  <1> QED BY <1>4, <1>5 DEF TypeOK

\* Inv holds as long as no save is cut, and the types in any case.
TrackerSafe == TypeOK /\ TornInv /\ (~torn => Inv)

LEMMA NextSafe == TrackerSafe /\ [Next]_vars => TrackerSafe' /\ (~torn' => ~torn)
  <1> SUFFICES ASSUME TrackerSafe, [Next]_vars PROVE TrackerSafe' /\ (~torn' => ~torn)
    OBVIOUS
  <1>1. CASE torn
    BY <1>1, StaysTorn DEF TrackerSafe
  <1>2. CASE ~torn /\ torn'
    BY <1>2, TornStep, CutTypeOK DEF TrackerSafe
  <1>3. CASE ~torn /\ ~torn'
    <2>1. Inv'
      BY <1>3, NextInv DEF TrackerSafe
    <2> QED BY <1>3, <2>1 DEF TrackerSafe, Inv, TornInv
  <1> QED BY <1>1, <1>2, <1>3

THEOREM SafeAlways == Spec => []TrackerSafe
  <1>1. Init => TrackerSafe
    BY InitInv DEF TrackerSafe, TornInv, Inv, Init
  <1> QED BY <1>1, NextSafe, PTL DEF Spec

\* TypeOK holds of every state of the tracker, for all values of the constants.
THEOREM TypeCorrect == Spec => []TypeOK
  <1>1. TrackerSafe => TypeOK
    BY DEF TrackerSafe
  <1> QED BY <1>1, SafeAlways, PTL

\* No unsigned subtraction of the upload path underflows (NoUnderflow), whatever
\* the network and the switch do and whenever the power goes, for as long as no
\* power loss has cut a save of STATE.CSV among its writes.
THEOREM NeverUnderflows == Spec => []NoUnderflow
  <1>1. TrackerSafe => NoUnderflow
    BY DEF TrackerSafe, Inv, NoUnderflow
  <1> QED BY <1>1, SafeAlways, PTL

\* The sessions of the status and of STATE.CSV are in order, without a duplicate,
\* and this boot's is the last (ActiveLast), for as long as no save was cut.
THEOREM ActiveAlwaysLast == Spec => []ActiveLast
  <1>1. TrackerSafe => ActiveLast
    BY DEF TrackerSafe, Inv, ActiveLast
  <1> QED BY <1>1, SafeAlways, PTL

-----------------------------------------------------------------------------
\* What a pass does to the sessions

\* Each save writes the whole status and each change of it is saved by the next
\* step.
LEMMA NextSaved == SavedInSync /\ [Next]_vars => SavedInSync'
  <1> SUFFICES ASSUME SavedInSync, [Next]_vars PROVE SavedInSync'
    OBVIOUS
  <1> USE DEF SavedInSync
  <1>1. CASE Boot
    BY <1>1 DEF Boot, StartSession
  <1>2. CASE PowerLoss \/ Sleep \/ CutSave
    BY <1>2 DEF PowerLoss, Sleep, LoseMemory, CutSave, MemoryGone
  <1>3. CASE StopGnss \/ StopUpload \/ FlipSwitch
    BY <1>3 DEF StopGnss, StopUpload, FlipSwitch, cardVars, uploadVars
  <1>4. CASE Gnss
    <2>1. CASE GnssJoin
      BY <2>1 DEF GnssJoin, sysVars
    <2>2. CASE ~GnssJoin
      BY <1>4, <2>2 DEF Gnss, GnssTerminate, GnssReceive, GnssNothing, GnssFix, GnssStart,
                        GnssAppend, cardVars, sysVars, uploadVars
    <2> QED BY <2>1, <2>2
  <1>5. CASE Upload
    <2>1. phase' = phase
      BY <1>5 DEF Upload, UploadDisabled, UploadBegin, NextSession, PassDone, OpenOk, HelloOk,
           IdOk, SaveId, ChunkOk, DataDone, CountUploaded, SaveUploaded, Settle, FinishSent,
           SignSent, AckOk, SaveFinish, LinkFails, Fail, PassFailed, EndPass, EndPassWith,
           Outside, sysVars
    <2>2. CASE SaveId \/ SaveUploaded \/ SaveFinish
      BY <2>2 DEF SaveId, SaveUploaded, SaveFinish
    <2>3. CASE (\E remote \in RemoteIds : IdOk(remote)) \/ AckOk
      BY <2>3 DEF IdOk, AckOk
    <2>4. CASE DataDone
      BY <2>1, <2>4 DEF DataDone, CountUploaded, Outside, cardVars
    <2>5. CASE UploadDisabled \/ UploadBegin \/ NextSession \/ PassDone \/ OpenOk \/ HelloOk
               \/ ChunkOk \/ Settle \/ FinishSent \/ SignSent \/ LinkFails \/ PassFailed \/ EndPass
      BY <2>1, <2>5 DEF UploadDisabled, UploadBegin, NextSession, PassDone, OpenOk, HelloOk,
           ChunkOk, Settle, FinishSent, SignSent, LinkFails, Fail, PassFailed, EndPass,
           EndPassWith, Outside, cardVars
    <2> QED BY <1>5, <2>2, <2>3, <2>4, <2>5 DEF Upload
  <1>6. CASE UNCHANGED vars
    BY <1>6 DEF vars, cardVars, sysVars, uploadVars
  <1> QED BY <1>1, <1>2, <1>3, <1>4, <1>5, <1>6 DEF Next

\* Between the saves of the upload actor the card agrees with memory (SavedInSync),
\* which is inductive as it stands.
THEOREM SavedAlwaysInSync == Spec => []SavedInSync
  <1>1. Init => SavedInSync
    BY DEF Init, SavedInSync
  <1> QED BY <1>1, NextSaved, PTL DEF Spec

-----------------------------------------------------------------------------
\* PassInv

\* Without a pass there is only the clone of the last one to speak of.
LEMMA OutsidePassInv ==
    ASSUME ~InPass', gnss' # "off" /\ ~joined' => \A id \in LocalsOf(clone)' : id < boots'
    PROVE  PassInv'
  BY DEF PassInv, AheadInv, SameInv, CountInv, InPass, InSession, Sent

\* Power: the clone is empty and there is no pass.
LEMMA PowerPassInv ==
    ASSUME Boot \/ MemoryGone PROVE PassInv'
  <1>1. ~InPass' /\ clone' = <<>>
    BY DEF Boot, StartSession, MemoryGone, InPass, InSession
  <1>2. LocalsOf(clone)' = {}
    BY <1>1, EmptyStatus DEF LocalsOf
  <1> QED BY <1>1, <1>2, OutsidePassInv

\* A step that moves an actor and changes neither the status nor the pass.
LEMMA MovePassInv ==
    ASSUME PassInv, UNCHANGED <<boots, points, joined, status, clone, cur, count>>,
           gnss' # "off" => gnss # "off", InPass' => InPass, InSession' => InSession,
           Sent' => Sent, InPass' /\ ~Counted' => ~Counted, InPass' /\ Unnamed' => Unnamed,
           InPass' => (upload' = "saveFinish") = (upload = "saveFinish"),
           upload' = "id" => upload = "id" \/ Session.remote = NoRemote
    PROVE  PassInv'
  <1>1. Session' = Session
    BY DEF Session
  <1>2. AheadInv'
    <2>1. InPass' => \A j : Ahead(j)' <=> Ahead(j)
      BY DEF Ahead
    <2>2. LocalsOf(clone)' = LocalsOf(clone) /\ LocalsOf(status)' = LocalsOf(status)
      BY DEF LocalsOf
    <2> QED BY <2>1, <2>2 DEF PassInv, AheadInv
  <1>3. SameInv'
    BY <1>1 DEF PassInv, SameInv
  <1>4. CountInv'
    BY <1>1 DEF PassInv, CountInv
  <1> QED BY <1>2, <1>3, <1>4 DEF PassInv

\* The steps of the shutdown and of the GNSS actor that leave status and points
\* alone.
LEMMA QuietPassInv ==
    ASSUME PassInv, StopGnss \/ StopUpload \/ FlipSwitch \/ GnssTerminate \/ GnssReceive
                    \/ GnssNothing \/ GnssFix \/ GnssStart
    PROVE  PassInv'
  <1>1. /\ UNCHANGED <<boots, points, joined, status, upload, clone, cur, count>>
        /\ gnss' # "off" => gnss # "off"
    BY DEF StopGnss, StopUpload, FlipSwitch, GnssTerminate, GnssReceive, GnssNothing, GnssFix,
           GnssStart, cardVars, gnssVars, sysVars, uploadVars
  <1>2. /\ InPass' = InPass /\ InSession' = InSession /\ Sent' = Sent
        /\ Counted' = Counted /\ Unnamed' = Unnamed
    BY <1>1 DEF InPass, InSession, Sent, Counted, Unnamed
  <1> QED BY <1>1, <1>2, MovePassInv

\* The steps of the upload actor that talk to the link, save a change of the
\* session or leave the pass.
LEMMA LinkPassInv ==
    ASSUME PassInv, UploadDisabled \/ PassDone \/ OpenOk \/ HelloOk \/ SaveId \/ ChunkOk
                    \/ SaveUploaded \/ FinishSent \/ SignSent \/ LinkFails \/ PassFailed
                    \/ EndPass
    PROVE  PassInv'
  <1>1. UNCHANGED <<boots, points, gnss, joined, status, clone, cur, count>>
    BY DEF UploadDisabled, PassDone, OpenOk, HelloOk, SaveId, ChunkOk, SaveUploaded, FinishSent,
           SignSent, LinkFails, Fail, PassFailed, EndPass, EndPassWith, Outside, cardVars,
           gnssVars, passVars
  <1>2. /\ InPass' => InPass
        /\ InSession' => InSession
        /\ Sent' => Sent
        /\ InPass' /\ ~Counted' => ~Counted
        /\ InPass' /\ Unnamed' => Unnamed
        /\ InPass' => (upload' = "saveFinish") = (upload = "saveFinish")
        /\ upload' = "id" => upload = "id" \/ Session.remote = NoRemote
    BY DEF UploadDisabled, PassDone, OpenOk, HelloOk, SaveId, ChunkOk, SaveUploaded, FinishSent,
           SignSent, LinkFails, Fail, PassFailed, EndPass, EndPassWith,
           InPass, InSession, Sent, Counted, Unnamed
  <1> QED BY <1>1, <1>2, MovePassInv

\* add_active_session under a pass: the new session is newer than all of the
\* clone's, so the pass does not come to it.
LEMMA JoinPassInv ==
    ASSUME Inv, PassInv, GnssJoin PROVE PassInv'
  <1>1. /\ UNCHANGED <<boots, points, upload, clone, cur, count>>
        /\ gnss = "join"
    BY DEF GnssJoin, sysVars, passVars
  <1>2. /\ InPass' = InPass /\ InSession' = InSession /\ Sent' = Sent
        /\ Counted' = Counted /\ Unnamed' = Unnamed
    BY <1>1 DEF InPass, InSession, Sent, Counted, Unnamed
  <1>3. CASE ~(~joined /\ uploadSwitch)
    <2>1. UNCHANGED <<status, joined>>
      BY <1>3 DEF GnssJoin
    <2> QED BY <1>1, <1>2, <2>1, MovePassInv
  <1>4. CASE ~joined /\ uploadSwitch
    <2> DEFINE new == AddSession(status, boots)
    <2>1. status' = new /\ joined' = TRUE
      BY <1>4 DEF GnssJoin, Active
    <2>2. boots \in LocalIds /\ status \in Statuses /\ clone \in Statuses /\ boots \in Nat
      BY <1>1 DEF Inv, GnssInv, TypeOK, CardTypeOK, UploadTypeOK, LocalIds
    <2>3. /\ Len(status) \in Nat /\ DOMAIN status = 1..Len(status)
          /\ DOMAIN new = 1..(Len(status) + 1)
          /\ \A i \in DOMAIN status : new[i] = status[i]
          /\ new[Len(status) + 1].local = boots
      BY <2>2, AddSessionResult, StatusElements
    <2> HIDE DEF new
    <2>4. \A i \in DOMAIN new : \/ i \in DOMAIN status /\ new[i] = status[i]
                                \/ new[i].local = boots
      BY <2>3
    <2>5. \A j \in DOMAIN clone : clone[j].local \in Nat /\ clone[j].local < boots
      BY <1>1, <1>4, <2>2, StatusElements DEF PassInv, AheadInv, LocalsOf, LocalIds
    <2>6. LocalsOf(status) \subseteq LocalsOf(new)
      BY <2>3 DEF LocalsOf
    <2>7. Session' = Session /\ \A j : Ahead(j)' <=> Ahead(j)
      BY <1>1 DEF Session, Ahead
    <2>8. AheadInv'
      BY <1>1, <1>2, <2>1, <2>4, <2>6, <2>7 DEF PassInv, AheadInv
    <2>9. SameInv'
      <3>1. ASSUME NEW i \in DOMAIN new, NEW j \in DOMAIN clone, new[i].local = clone[j].local
            PROVE  i \in DOMAIN status /\ new[i] = status[i]
        BY <2>2, <2>4, <2>5, <3>1
      <3> QED BY <1>1, <1>2, <2>1, <2>7, <3>1 DEF PassInv, SameInv
    <2>10. CountInv'
      <3>1. ASSUME Sent, NEW i \in DOMAIN new, new[i].local = Session.local
            PROVE  new[i].uploaded = count
        <4>1. cur \in DOMAIN clone
          BY <3>1 DEF Inv, CloneInv, InSession, Sent
        <4>2. Session.local # boots
          BY <2>2, <2>5, <4>1 DEF Session
        <4> QED BY <2>4, <3>1, <4>2 DEF PassInv, CountInv
      <3> QED BY <1>1, <1>2, <2>1, <2>7, <3>1 DEF PassInv, CountInv
    <2> QED BY <2>8, <2>9, <2>10 DEF PassInv
  <1> QED BY <1>3, <1>4

\* append_track_point: no file but the active session's grows.
LEMMA AppendPassInv ==
    ASSUME Inv, PassInv, GnssAppend PROVE PassInv'
  <1>1. /\ UNCHANGED <<boots, joined, status, upload, clone, cur, count>>
        /\ gnss = "append"
        /\ points' = [points EXCEPT ![boots] = @ + 1]
    BY DEF GnssAppend, Active, uploadVars
  <1>2. /\ InPass' = InPass /\ InSession' = InSession /\ Sent' = Sent
        /\ Counted' = Counted /\ Unnamed' = Unnamed
        /\ Session' = Session /\ \A j : Ahead(j)' <=> Ahead(j)
    BY <1>1 DEF InPass, InSession, Sent, Counted, Unnamed, Session, Ahead
  <1>3. LocalsOf(clone)' = LocalsOf(clone) /\ LocalsOf(status)' = LocalsOf(status)
    BY <1>1 DEF LocalsOf
  <1>4. AheadInv' /\ SameInv'
    BY <1>1, <1>2, <1>3 DEF PassInv, AheadInv, SameInv
  <1>5. InSession => Session.local \in DOMAIN points
    BY DEF Inv, CloneInv, StatusStored, Stored, TypeOK, CardTypeOK, Session
  <1>6. InSession /\ Session.local # boots => points'[Session.local] = points[Session.local]
    BY <1>1, <1>5
  <1>7. CountInv'
    BY <1>1, <1>2, <1>6 DEF PassInv, CountInv
  <1> QED BY <1>4, <1>7 DEF PassInv

\* A pass has everything ahead of it when it begins.
LEMMA BeginPassInv ==
    ASSUME Inv, PassInv, UploadBegin PROVE PassInv'
  <1>1. /\ UNCHANGED <<boots, gnss, joined, status>>
        /\ upload' = "next" /\ clone' = status /\ cur' = 1
    BY DEF UploadBegin, Outside, cardVars, gnssVars
  <1>2. ~InSession' /\ ~Sent'
    BY <1>1 DEF InSession, Sent
  <1>3. status \in Statuses /\ Ascending(status)
    BY DEF Inv, TypeOK, UploadTypeOK, StatusOrdered
  <1>4. \A j \in DOMAIN status : Ahead(j)'
    BY <1>1, <1>3, StatusElements DEF Ahead
  <1>5. LocalsOf(clone)' = LocalsOf(status) /\ LocalsOf(status)' = LocalsOf(status)
    BY <1>1 DEF LocalsOf
  <1>6. AheadInv'
    <2>1. gnss' # "off" /\ ~joined' => \A id \in LocalsOf(clone)' : id < boots'
      BY <1>1, <1>5 DEF Inv, GnssInv
    <2>2. \A j \in DOMAIN clone' : clone'[j].local \in LocalsOf(status)'
      BY <1>1, <1>5 DEF LocalsOf
    <2>3. \A k \in DOMAIN status' : \E j \in DOMAIN clone' :
             Ahead(j)' /\ status'[k].local = clone'[j].local
      BY <1>1, <1>4
    <2> QED BY <2>1, <2>2, <2>3 DEF AheadInv
  <1>7. SameInv'
    <2>1. ASSUME NEW k \in DOMAIN status, NEW j \in DOMAIN status, status[k].local = status[j].local
          PROVE  status[k] = status[j]
      BY <1>3, <2>1, OneEntry
    <2> QED BY <1>1, <2>1 DEF SameInv
  <1> QED BY <1>2, <1>6, <1>7 DEF PassInv, CountInv

\* The count is read, and of an old session it stays what the file has.
LEMMA NextSessionPassInv ==
    ASSUME PassInv, NextSession PROVE PassInv'
  <1>1. /\ UNCHANGED <<boots, points, gnss, joined, status, clone, cur>>
        /\ upload = "next" /\ upload' \in {"data", "open"}
        /\ count' = points[Session.local]
    BY DEF NextSession, Outside, cardVars, gnssVars
  <1>2. /\ InPass /\ InPass' /\ ~Sent' /\ ~Counted /\ ~Counted' /\ Unnamed /\ upload' # "id"
        /\ Session' = Session /\ \A j : Ahead(j)' <=> Ahead(j)
    BY <1>1 DEF InPass, InSession, Sent, Counted, Unnamed, Session, Ahead
  <1>3. LocalsOf(clone)' = LocalsOf(clone) /\ LocalsOf(status)' = LocalsOf(status)
    BY <1>1 DEF LocalsOf
  <1>4. AheadInv'
    BY <1>1, <1>2, <1>3 DEF PassInv, AheadInv
  <1>5. SameInv'
    BY <1>1, <1>2 DEF PassInv, SameInv
  <1>6. CountInv'
    BY <1>1, <1>2 DEF CountInv
  <1> QED BY <1>4, <1>5, <1>6 DEF PassInv

\* The remote id of the session the pass is at is no longer the clone's; nothing
\* else of the status changes.
LEMMA IdPassInv ==
    ASSUME Inv, PassInv, NEW remote \in RemoteIds, IdOk(remote) PROVE PassInv'
  <1> DEFINE new == SetRemoteSessionId(status, Session.local, remote)
  <1>1. /\ UNCHANGED <<boots, points, gnss, joined, clone, cur, count>>
        /\ upload = "id" /\ upload' = "saveId" /\ status' = new
    BY DEF IdOk, Outside, cardVars, gnssVars, passVars
  <1>2. status \in Statuses /\ clone \in Statuses /\ Ascending(status) /\ Ascending(clone)
        /\ cur \in DOMAIN clone
    BY <1>1 DEF Inv, TypeOK, UploadTypeOK, StatusOrdered, CloneInv, InSession
  <1>3. /\ new \in Statuses /\ DOMAIN new = DOMAIN status
        /\ \A k \in DOMAIN status : new[k].local = status[k].local
                                    /\ new[k].uploaded = status[k].uploaded
    BY <1>2, SetRemoteResult
  <1>4. \A k \in DOMAIN status : status[k].local # Session.local => new[k] = status[k]
    BY <1>2, SetRemoteExact
  <1> HIDE DEF new
  <1>5. /\ InPass /\ InSession /\ ~Sent' /\ ~Counted /\ ~Unnamed'
        /\ upload' # "id" /\ Session' = Session /\ \A j : Ahead(j)' <=> Ahead(j)
    BY <1>1 DEF InPass, InSession, Sent, Counted, Unnamed, Session, Ahead
  <1>6. LocalsOf(clone)' = LocalsOf(clone) /\ LocalsOf(status)' = LocalsOf(status)
    BY <1>1, <1>3 DEF LocalsOf
  <1>7. AheadInv'
    BY <1>1, <1>3, <1>5, <1>6 DEF PassInv, AheadInv
  <1>8. SameInv'
    <2>1. ASSUME NEW k \in DOMAIN status, NEW j \in DOMAIN clone, j >= cur,
                 status[k].local = clone[j].local
          PROVE  /\ new[k].uploaded = clone[j].uploaded
                 /\ j # cur => new[k].remote = clone[j].remote
      <3>1. status[k].uploaded = clone[j].uploaded
        BY <1>5, <2>1 DEF PassInv, SameInv
      <3>2. CASE j # cur
        <4>1. status[k].local # Session.local
          BY <1>2, <2>1, <3>2, OneEntry DEF Session
        <4>2. status[k].remote = clone[j].remote
          BY <1>5, <2>1, <3>2 DEF PassInv, SameInv
        <4> QED BY <1>3, <1>4, <3>1, <4>1, <4>2
      <3> QED BY <1>3, <3>1, <3>2
    <2> QED BY <1>1, <1>3, <1>5, <2>1 DEF SameInv
  <1>9. CountInv'
    BY <1>1, <1>5 DEF PassInv, CountInv
  <1> QED BY <1>7, <1>8, <1>9 DEF PassInv

\* What was missing is added: the session's entry has the count, whether or not
\* anything was.
LEMMA DataDonePassInv ==
    ASSUME Inv, PassInv, DataDone PROVE PassInv'
  <1>1. /\ UNCHANGED <<boots, points, gnss, joined, clone, cur, count>>
        /\ upload = "data" /\ upload' \in {"saveUploaded", "settle"}
    BY DEF DataDone, CountUploaded, Outside, cardVars, gnssVars, passVars
  <1>2. status \in Statuses /\ clone \in Statuses /\ Ascending(status) /\ Ascending(clone)
        /\ cur \in DOMAIN clone /\ Session.uploaded <= count
    BY <1>1 DEF Inv, TypeOK, UploadTypeOK, StatusOrdered, CloneInv, InSession
  <1>3. Session.uploaded \in Nat /\ count \in Nat
    BY <1>2, StatusElements DEF Session, Inv, TypeOK, UploadTypeOK
  <1>4. /\ InPass /\ InSession /\ ~Counted /\ Counted' /\ ~Unnamed' /\ upload' # "id"
        /\ Session' = Session /\ \A j : Ahead(j)' <=> Ahead(j)
    BY <1>1 DEF InPass, InSession, Counted, Unnamed, Session, Ahead
  <1>5. \A k \in DOMAIN status : status[k].local = Session.local
                                  => status[k].uploaded = Session.uploaded
    BY <1>2, <1>4, StatusElements DEF PassInv, SameInv, Session
  <1>6. /\ DOMAIN status' = DOMAIN status
        /\ \A k \in DOMAIN status :
              /\ status'[k].local = status[k].local
              /\ status[k].local = Session.local => status'[k].uploaded = count
              /\ status[k].local # Session.local => status'[k] = status[k]
    <2>1. CASE ~(Missing > 0)
      <3>1. status' = status
        BY <2>1 DEF DataDone, CountUploaded
      <3>2. count = Session.uploaded
        BY <1>2, <1>3, <2>1 DEF Missing
      <3> QED BY <1>5, <3>1, <3>2
    <2>2. CASE Missing > 0
      <3> DEFINE new == AddUploaded(status, Session.local, Missing)
      <3>1. status' = new
        BY <2>2 DEF DataDone, CountUploaded
      <3>2. Missing \in Nat /\ Session.uploaded + Missing = count
        BY <1>2, <1>3, <2>2 DEF Missing
      <3>3. DOMAIN new = DOMAIN status /\ \A k \in DOMAIN status : new[k].local = status[k].local
        BY <1>2, <3>2, AddUploadedResult
      <3>4. \A k \in DOMAIN status :
              /\ status[k].local = Session.local => new[k].uploaded = status[k].uploaded + Missing
              /\ status[k].local # Session.local => new[k] = status[k]
        BY <1>2, <3>2, AddUploadedExact
      <3> QED BY <1>5, <3>1, <3>2, <3>3, <3>4
    <2> QED BY <2>1, <2>2
  <1>7. LocalsOf(clone)' = LocalsOf(clone) /\ LocalsOf(status)' = LocalsOf(status)
    BY <1>1, <1>6 DEF LocalsOf
  <1>8. AheadInv'
    BY <1>1, <1>4, <1>6, <1>7 DEF PassInv, AheadInv
  <1>9. SameInv'
    <2>1. ASSUME NEW k \in DOMAIN status, NEW j \in DOMAIN clone, j >= cur, j # cur,
                 status[k].local = clone[j].local
          PROVE  status'[k].uploaded = clone[j].uploaded /\ status'[k].remote = clone[j].remote
      <3>1. status[k].local # Session.local
        BY <1>2, <2>1, OneEntry DEF Session
      <3>2. status[k].uploaded = clone[j].uploaded /\ status[k].remote = clone[j].remote
        BY <1>4, <2>1 DEF PassInv, SameInv
      <3> QED BY <1>6, <3>1, <3>2
    <2> QED BY <1>1, <1>4, <1>6, <2>1 DEF SameInv
  <1>10. CountInv'
    BY <1>1, <1>4, <1>6 DEF PassInv, CountInv
  <1> QED BY <1>8, <1>9, <1>10 DEF PassInv

\* The loop goes on to the next session: the one it leaves is this boot's, or
\* finished.
LEMMA AdvancePassInv ==
    ASSUME Inv, PassInv, UNCHANGED <<boots, points, gnss, joined, status, clone>>,
           upload' = "next", cur' = cur + 1,
           upload = "saveFinish" \/ (upload = "settle" /\ Session.local = boots)
    PROVE  PassInv'
  <1>1. InPass /\ ~InSession' /\ ~Sent' /\ upload' # "id"
    BY DEF InPass, InSession, Sent
  <1>2. cur \in Nat /\ cur \in DOMAIN clone /\ \A j \in DOMAIN clone : j \in Nat
    BY <1>1, StatusElements DEF Inv, TypeOK, UploadTypeOK, CloneInv, InSession
  <1>3. \A j \in DOMAIN clone : j >= cur' <=> j >= cur /\ j # cur
    BY <1>2
  <1>4. \A j \in DOMAIN clone : /\ j >= cur' => Ahead(j)
                                /\ Ahead(j) => j >= cur' \/ clone[j].local = boots
    BY <1>2, <1>3 DEF Ahead, Session
  <1>5. LocalsOf(clone)' = LocalsOf(clone) /\ LocalsOf(status)' = LocalsOf(status)
    BY DEF LocalsOf
  <1>6. AheadInv'
    <2>1. ASSUME NEW j \in DOMAIN clone, j >= cur'
          PROVE  clone[j].local \in LocalsOf(status)
      <3>1. Ahead(j)
        BY <1>3, <2>1 DEF Ahead
      <3> QED BY <1>1, <3>1 DEF PassInv, AheadInv
    <2>2. ASSUME NEW k \in DOMAIN status, status[k].local # boots
          PROVE  \E j \in DOMAIN clone : j >= cur' /\ status[k].local = clone[j].local
      <3>1. PICK j \in DOMAIN clone : Ahead(j) /\ status[k].local = clone[j].local
        BY <1>1, <2>2 DEF PassInv, AheadInv
      <3>2. j >= cur'
        BY <1>4, <2>2, <3>1
      <3> QED BY <3>1, <3>2
    <2>3. gnss' # "off" /\ ~joined' => \A id \in LocalsOf(clone)' : id < boots'
      BY <1>5 DEF PassInv, AheadInv
    <2> QED BY <1>5, <2>1, <2>2, <2>3 DEF AheadInv, Ahead
  <1>7. SameInv'
    <2>1. \A j \in DOMAIN clone : j >= cur' => j >= cur /\ j # cur
      BY <1>2
    <2> QED BY <1>1, <2>1 DEF PassInv, SameInv
  <1> QED BY <1>1, <1>6, <1>7 DEF PassInv, CountInv

LEMMA SettlePassInv ==
    ASSUME Inv, PassInv, Settle \/ SaveFinish PROVE PassInv'
  <1>1. UNCHANGED <<boots, points, gnss, joined, status, clone, count>>
    BY DEF Settle, SaveFinish, Outside, cardVars, gnssVars
  <1>2. CASE upload' = "next"
    <2>1. /\ cur' = cur + 1
          /\ upload = "saveFinish" \/ (upload = "settle" /\ Session.local = boots)
      BY <1>2 DEF Settle, SaveFinish, Active
    <2> QED BY <1>1, <1>2, <2>1, AdvancePassInv
  <1>3. CASE upload' # "next"
    <2>1. upload = "settle" /\ upload' = "finish" /\ cur' = cur
      BY <1>3 DEF Settle, SaveFinish
    <2>2. InPass /\ InSession /\ Sent /\ Counted' /\ ~Unnamed'
      BY <2>1 DEF InPass, InSession, Sent, Counted, Unnamed
    <2> QED BY <1>1, <2>1, <2>2, MovePassInv
  <1> QED BY <1>2, <1>3

\* The acknowledged session is neither in the status nor ahead of the pass any
\* more.
LEMMA AckPassInv ==
    ASSUME Inv, PassInv, AckOk PROVE PassInv'
  <1> DEFINE new == FinishSession(status, Session.local)
  <1>1. /\ UNCHANGED <<boots, points, gnss, joined, clone, cur, count>>
        /\ upload = "ack" /\ upload' = "saveFinish" /\ status' = new
    BY DEF AckOk, Outside, cardVars, gnssVars, passVars
  <1>2. status \in Statuses /\ clone \in Statuses /\ Ascending(status) /\ Ascending(clone)
        /\ cur \in DOMAIN clone
    BY <1>1 DEF Inv, TypeOK, UploadTypeOK, StatusOrdered, CloneInv, InSession
  <1>3. \A k \in DOMAIN new : \E m \in DOMAIN status : new[k] = status[m]
    BY <1>2, FinishSessionResult
  <1>4. /\ \A k \in DOMAIN new : new[k].local # Session.local
        /\ \A m \in DOMAIN status : status[m].local # Session.local
                                    => \E k \in DOMAIN new : new[k] = status[m]
    BY <1>2, FinishSessionExact
  <1> HIDE DEF new
  <1>5. /\ InPass /\ ~Sent' /\ Counted' /\ ~Unnamed' /\ upload' # "id"
        /\ Session' = Session
        /\ \A j : Ahead(j) <=> j >= cur
    BY <1>1 DEF InPass, InSession, Sent, Counted, Unnamed, Session, Ahead
  <1>6. LocalsOf(clone)' = LocalsOf(clone)
    BY <1>1 DEF LocalsOf
  <1>7. AheadInv'
    <2>1. ASSUME NEW j \in DOMAIN clone, Ahead(j), j # cur
          PROVE  clone[j].local \in LocalsOf(new)
      <3>1. clone[j].local # Session.local
        BY <1>2, <2>1, OneEntry DEF Session
      <3>2. PICK m \in DOMAIN status : status[m].local = clone[j].local
        BY <1>5, <2>1 DEF PassInv, AheadInv, LocalsOf
      <3> QED BY <1>4, <3>1, <3>2 DEF LocalsOf
    <2>2. ASSUME NEW k \in DOMAIN new, new[k].local # boots
          PROVE  \E j \in DOMAIN clone : Ahead(j) /\ j # cur /\ new[k].local = clone[j].local
      <3>1. PICK m \in DOMAIN status : new[k] = status[m]
        BY <1>3
      <3>2. PICK j \in DOMAIN clone : Ahead(j) /\ status[m].local = clone[j].local
        BY <1>5, <2>2, <3>1 DEF PassInv, AheadInv
      <3>3. j # cur
        BY <1>4, <3>1, <3>2 DEF Session
      <3> QED BY <3>1, <3>2, <3>3
    <2>3. LocalsOf(status)' = LocalsOf(new)
      BY <1>1
    <2>4. gnss' # "off" /\ ~joined' => \A id \in LocalsOf(clone)' : id < boots'
      BY <1>1, <1>6 DEF PassInv, AheadInv
    <2>5. \A j \in DOMAIN clone' : Ahead(j)' => clone'[j].local \in LocalsOf(status)'
      BY <1>1, <1>5, <2>1, <2>3 DEF Ahead
    <2>6. \A k \in DOMAIN status' :
             \/ status'[k].local = boots'
             \/ \E j \in DOMAIN clone' : Ahead(j)' /\ status'[k].local = clone'[j].local
      BY <1>1, <1>5, <2>2 DEF Ahead
    <2> QED BY <2>4, <2>5, <2>6 DEF AheadInv
  <1>8. SameInv'
    <2>1. ASSUME NEW k \in DOMAIN new, NEW j \in DOMAIN clone, j >= cur, j # cur,
                 new[k].local = clone[j].local
          PROVE  new[k].uploaded = clone[j].uploaded /\ new[k].remote = clone[j].remote
      <3>1. PICK m \in DOMAIN status : new[k] = status[m]
        BY <1>3
      <3> QED BY <1>5, <2>1, <3>1 DEF PassInv, SameInv
    <2> QED BY <1>1, <1>5, <2>1 DEF SameInv
  <1>9. CountInv'
    <2>1. InSession
      BY <1>1 DEF InSession
    <2> QED BY <1>1, <1>5, <2>1 DEF PassInv, CountInv
  <1> QED BY <1>7, <1>8, <1>9 DEF PassInv

-----------------------------------------------------------------------------

\* Every step keeps PassInv.
THEOREM NextPassInv == Inv /\ PassInv /\ [Next]_vars => PassInv'
  <1> SUFFICES ASSUME Inv, PassInv, [Next]_vars PROVE PassInv'
    OBVIOUS
  <1>1. CASE Boot \/ PowerLoss \/ Sleep \/ CutSave
    BY <1>1, PowerPassInv DEF PowerLoss, Sleep, LoseMemory, CutSave
  <1>2. CASE StopGnss \/ StopUpload \/ FlipSwitch
    BY <1>2, QuietPassInv
  <1>3. CASE Gnss
    BY <1>3, QuietPassInv, JoinPassInv, AppendPassInv DEF Gnss
  <1>4. CASE Upload
    BY <1>4, LinkPassInv, BeginPassInv, NextSessionPassInv, IdPassInv, DataDonePassInv,
       SettlePassInv, AckPassInv DEF Upload
  <1>5. CASE UNCHANGED vars
    <2>1. UNCHANGED <<boots, points, gnss, joined, status, upload, clone, cur, count>>
      BY <1>5 DEF vars, cardVars, gnssVars, uploadVars
    <2>2. /\ InPass' = InPass /\ InSession' = InSession /\ Sent' = Sent
          /\ Counted' = Counted /\ Unnamed' = Unnamed
      BY <2>1 DEF InPass, InSession, Sent, Counted, Unnamed
    <2> QED BY <2>1, <2>2, MovePassInv
  <1> QED BY <1>1, <1>2, <1>3, <1>4, <1>5 DEF Next

\* PassInv holds as long as no save is cut.
THEOREM PassInvAlways == Spec => [](~torn => PassInv)
  <1>1. Init => PassInv
    <2> SUFFICES ASSUME Init PROVE PassInv
      OBVIOUS
    <2> QED BY EmptyStatus DEF Init, NoPass, PassInv, AheadInv, SameInv, CountInv, InPass,
                               InSession, Sent, LocalsOf
  <1>2. TrackerSafe /\ (~torn => PassInv) /\ [Next]_vars => (~torn => PassInv)'
    BY NextSafe, NextPassInv DEF TrackerSafe
  <1> QED BY <1>1, <1>2, SafeAlways, PTL DEF Spec

\* A session of an earlier boot is finished only when all its points are counted
\* as uploaded (OldSessionsComplete), however the GNSS actor, the shutdown and the
\* link interleave with the pass.
THEOREM OldSessionsAlwaysComplete == Spec => []OldSessionsComplete
  <1>1. TrackerSafe /\ (~torn => PassInv) => OldSessionsComplete
    BY DEF TrackerSafe, TornInv, PassInv, CountInv, OldSessionsComplete, InSession, Sent, Active
  <1> QED BY <1>1, SafeAlways, PassInvAlways, PTL

\* Sessions are finished oldest first (FinishInOrder).
THEOREM AlwaysFinishesInOrder == Spec => FinishInOrder
  <1>1. Inv /\ PassInv /\ upload = "ack" => Session.local = status[1].local
    <2> SUFFICES ASSUME Inv, PassInv, upload = "ack" PROVE Session.local = status[1].local
      OBVIOUS
    <2>1. /\ status \in Statuses /\ clone \in Statuses /\ Ascending(status) /\ Ascending(clone)
          /\ cur \in DOMAIN clone /\ InPass /\ Ahead(cur)
          /\ \A id \in LocalsOf(clone) : id <= boots
      BY StatusElements DEF Inv, TypeOK, UploadTypeOK, StatusOrdered, CloneInv, InPass, InSession, Ahead
    <2>2. PICK m \in DOMAIN status : status[m].local = Session.local
      BY <2>1 DEF PassInv, AheadInv, LocalsOf, Session
    <2>3. /\ DOMAIN status = 1..Len(status) /\ Len(status) \in Nat
          /\ \A k \in DOMAIN status : status[k].local \in Nat
          /\ DOMAIN clone = 1..Len(clone) /\ Len(clone) \in Nat
          /\ \A k \in DOMAIN clone : clone[k].local \in Nat
          /\ boots \in Nat
      BY <2>1, StatusElements DEF LocalIds, Inv, TypeOK, CardTypeOK
    <2>4. 1 \in DOMAIN status /\ status[1].local <= Session.local
      BY <2>1, <2>2, <2>3 DEF Ascending
    <2>5. Session.local <= status[1].local
      <3>1. CASE status[1].local = boots
        BY <2>1, <3>1 DEF LocalsOf, Session
      <3>2. CASE \E j \in DOMAIN clone : Ahead(j) /\ status[1].local = clone[j].local
        <4>1. PICK j \in DOMAIN clone : Ahead(j) /\ status[1].local = clone[j].local
          BY <3>2
        <4>2. j = cur \/ cur < j
          BY <2>1, <2>3, <4>1 DEF Ahead
        <4> QED BY <2>1, <2>3, <4>1, <4>2 DEF Ascending, Session
      <3> QED BY <2>1, <2>4, <3>1, <3>2 DEF PassInv, AheadInv
    <2>6. Session.local \in Nat /\ status[1].local \in Nat
      BY <2>1, <2>3, <2>4 DEF Session
    <2> QED BY <2>4, <2>5, <2>6
  <1>2. TrackerSafe /\ (~torn => PassInv)
            => [upload = "ack" /\ upload' = "saveFinish" => Session.local = status[1].local]_vars
    BY <1>1 DEF TrackerSafe, TornInv
  <1> QED BY <1>2, SafeAlways, PassInvAlways, PTL DEF FinishInOrder

-----------------------------------------------------------------------------
\* The card

\* A status is as far as itself.
LEMMA SyncedAdvances ==
    ASSUME stateFile \in Statuses PROVE AdvancesTo(stateFile)
  BY StatusElements DEF AdvancesTo

\* add_active_session takes nothing back.
LEMMA JoinAdvances ==
    ASSUME status \in Statuses, NEW id \in LocalIds, AdvancesTo(status)
    PROVE  AdvancesTo(AddSession(status, id))
  <1> DEFINE new == AddSession(status, id)
  <1>1. DOMAIN status \subseteq DOMAIN new /\ \A k \in DOMAIN status : new[k] = status[k]
    BY AddSessionResult, StatusElements
  <1> HIDE DEF new
  <1>2. AdvancesTo(new)
    BY <1>1 DEF AdvancesTo
  <1> QED BY <1>2 DEF new

\* What the upload actor changes in the status it advances, or finishes.
LEMMA ChangeAdvances ==
    ASSUME Inv, PassInv, stateFile = status,
           (\E remote \in RemoteIds : IdOk(remote)) \/ DataDone \/ AckOk
    PROVE  AdvancesTo(status)'
  <1>1. stateFile' = stateFile /\ clone' = clone /\ cur' = cur /\ Session' = Session
    BY DEF IdOk, DataDone, CountUploaded, AckOk, Outside, cardVars, passVars, Session
  <1>2. status \in Statuses /\ Ascending(status)
    BY DEF Inv, TypeOK, UploadTypeOK, StatusOrdered
  <1>3. \A k \in DOMAIN status : status[k].uploaded \in Nat
    BY <1>2, StatusElements
  <1>4. CASE \E remote \in RemoteIds : IdOk(remote)
    <2>1. PICK remote \in RemoteIds : IdOk(remote)
      BY <1>4
    <2> DEFINE new == SetRemoteSessionId(status, Session.local, remote)
    <2>2. upload = "id" /\ status' = new
      BY <2>1 DEF IdOk
    <2>3. /\ DOMAIN new = DOMAIN status
          /\ \A k \in DOMAIN status : /\ new[k].local = status[k].local
                                      /\ new[k].uploaded = status[k].uploaded
      BY <1>2, SetRemoteResult
    <2>4. \A k \in DOMAIN status : status[k].local # Session.local => new[k] = status[k]
      BY <1>2, SetRemoteExact
    <2> HIDE DEF new
    <2>5. \A k \in DOMAIN status : status[k].local = Session.local => status[k].remote = NoRemote
      <3>1. /\ InPass /\ Unnamed /\ cur \in DOMAIN clone /\ cur \in Nat
            /\ Session.remote = NoRemote
        BY <2>2 DEF InPass, InSession, Unnamed, Inv, CloneInv, TypeOK, UploadTypeOK, PassInv, SameInv
      <3> QED BY <3>1 DEF PassInv, SameInv, Session
    <2> QED BY <1>1, <1>3, <2>2, <2>3, <2>4, <2>5 DEF AdvancesTo
  <1>5. CASE DataDone
    <2>1. CASE status' = status
      BY <1>1, <1>3, <2>1 DEF AdvancesTo
    <2>2. CASE status' # status
      <3> DEFINE new == AddUploaded(status, Session.local, Missing)
      <3>1. status' = new /\ Missing > 0
        BY <1>5, <2>2 DEF DataDone, CountUploaded
      <3>2. Missing \in Nat
        <4>1. cur \in DOMAIN clone /\ clone \in Statuses /\ count \in Nat
          BY <1>5 DEF DataDone, CountUploaded, Inv, CloneInv, InSession, TypeOK, UploadTypeOK
        <4>2. Session.uploaded \in Nat
          BY <4>1, StatusElements DEF Session
        <4> QED BY <3>1, <4>1, <4>2 DEF Missing
      <3>3. /\ DOMAIN new = DOMAIN status
            /\ \A k \in DOMAIN status :
                 /\ new[k].local = status[k].local
                 /\ new[k].uploaded = status[k].uploaded
                    \/ new[k].uploaded = status[k].uploaded + Missing
        BY <1>2, <3>2, AddUploadedResult
      <3>4. \A k \in DOMAIN status : new[k].remote = status[k].remote
        BY <1>2, <3>2, AddUploadedExact
      <3>5. \A k \in DOMAIN status : new[k].uploaded >= status[k].uploaded
        BY <1>3, <3>2, <3>3
      <3> HIDE DEF new
      <3> QED BY <1>1, <3>1, <3>3, <3>4, <3>5 DEF AdvancesTo
    <2> QED BY <2>1, <2>2
  <1>6. CASE AckOk
    <2> DEFINE new == FinishSession(status, Session.local)
    <2>1. status' = new /\ upload' = "saveFinish"
      BY <1>6 DEF AckOk
    <2>2. \A m \in DOMAIN status : status[m].local # Session.local
                                  => \E k \in DOMAIN new : new[k] = status[m]
      BY <1>2, FinishSessionExact
    <2> HIDE DEF new
    <2> QED BY <1>1, <1>3, <2>1, <2>2 DEF AdvancesTo
  <1> QED BY <1>4, <1>5, <1>6

\* Every step keeps CardInv, but a cut save.
THEOREM NextCardInv ==
    Inv /\ PassInv /\ SavedInSync /\ CardInv /\ ~torn' /\ [Next]_vars => CardInv'
  <1> SUFFICES ASSUME Inv, PassInv, SavedInSync, CardInv, ~torn', [Next]_vars PROVE CardInv'
    OBVIOUS
  <1>1. Inv' /\ SavedInSync' /\ stateFile' \in Statuses
    BY NextInv, NextSaved DEF Inv, TypeOK, CardTypeOK
  <1>2. ASSUME stateFile' = status' PROVE AdvancesTo(status)'
    <2>1. \A k \in DOMAIN stateFile' : stateFile'[k].uploaded \in Nat
      BY <1>1, StatusElements
    <2> QED BY <1>2, <2>1 DEF AdvancesTo
  <1>3. CASE Boot \/ PowerLoss \/ Sleep
    BY <1>2, <1>3 DEF Boot, StartSession, PowerLoss, Sleep, LoseMemory, MemoryGone, CardInv
  <1>4. CASE GnssJoin /\ stateFile' = status'
    BY <1>2, <1>4 DEF GnssJoin, sysVars, CardInv
  <1>5. CASE /\ UNCHANGED <<stateFile, status, upload, clone, cur>>
             /\ (phase' = "off" <=> phase = "off") /\ (gnss = "off" => gnss' = "off")
    BY <1>5 DEF CardInv, AdvancesTo, Session
  <1>6. CASE Upload
    <2>1. phase' = phase /\ upload # "off"
      BY <1>6 DEF Upload, UploadDisabled, UploadBegin, NextSession, PassDone, OpenOk, HelloOk,
           IdOk, SaveId, ChunkOk, DataDone, CountUploaded, SaveUploaded, Settle, FinishSent,
           SignSent, AckOk, SaveFinish, LinkFails, Fail, PassFailed, EndPass, EndPassWith,
           Outside, sysVars
    <2>2. phase # "off"
      BY <2>1 DEF CardInv
    <2>3. CASE (\E remote \in RemoteIds : IdOk(remote)) \/ DataDone \/ AckOk
      <3>1. stateFile = status
        BY <2>2, <2>3 DEF SavedInSync, IdOk, DataDone, CountUploaded, AckOk
      <3> QED BY <2>1, <2>2, <2>3, <3>1, ChangeAdvances DEF CardInv
    <2>4. CASE ~((\E remote \in RemoteIds : IdOk(remote)) \/ DataDone \/ AckOk)
      <3>1. upload' \notin {"saveId", "saveUploaded", "saveFinish"}
        BY <1>6, <2>4 DEF Upload, UploadDisabled, UploadBegin, NextSession, PassDone, OpenOk,
             HelloOk, SaveId, ChunkOk, SaveUploaded, Settle, FinishSent, SignSent, SaveFinish,
             LinkFails, Fail, PassFailed, EndPass, EndPassWith
      <3>2. stateFile' = status'
        BY <1>1, <2>1, <2>2, <3>1 DEF SavedInSync
      <3> QED BY <1>2, <2>1, <2>2, <3>2 DEF CardInv
    <2> QED BY <2>3, <2>4
  <1>7. StopGnss \/ StopUpload \/ FlipSwitch \/ (Gnss /\ ~(GnssJoin /\ stateFile' = status'))
          => /\ UNCHANGED <<stateFile, status, upload, clone, cur>>
             /\ (phase' = "off" <=> phase = "off") /\ (gnss = "off" => gnss' = "off")
    BY DEF StopGnss, StopUpload, FlipSwitch, Gnss, GnssTerminate, GnssReceive, GnssNothing,
           GnssFix, GnssStart, GnssJoin, GnssAppend, cardVars, sysVars, gnssVars, passVars,
           uploadVars
  <1>8. CASE UNCHANGED vars
    BY <1>5, <1>8 DEF vars, cardVars, sysVars, gnssVars, uploadVars
  <1> QED BY <1>3, <1>4, <1>5, <1>6, <1>7, <1>8 DEF Next, CutSave

\* The only steps that write STATE.CSV are the saves and add_active_session, and both
\* write what is as far or further.
LEMMA AdvancesStep ==
    ASSUME Inv, CardInv, ~torn', [Next]_vars PROVE AdvancesTo(stateFile')
  <1>1. stateFile \in Statuses /\ status \in Statuses
    BY DEF Inv, TypeOK, CardTypeOK, UploadTypeOK
  <1>2. CASE stateFile' = stateFile
    BY <1>1, <1>2, SyncedAdvances
  <1>3. CASE SaveId \/ SaveUploaded \/ SaveFinish
    <2>1. stateFile' = status /\ phase # "off"
      BY <1>3 DEF SaveId, SaveUploaded, SaveFinish, CardInv
    <2> QED BY <2>1 DEF CardInv
  <1>4. CASE GnssJoin /\ stateFile' # stateFile
    <2>1. stateFile' = AddSession(status, boots)
      BY <1>4 DEF GnssJoin, Active
    <2>2. boots \in LocalIds
      BY <1>4 DEF GnssJoin, Inv, GnssInv, TypeOK, CardTypeOK, LocalIds
    <2>3. AdvancesTo(status)
      BY <1>4 DEF GnssJoin, CardInv
    <2> QED BY <1>1, <2>1, <2>2, <2>3, JoinAdvances
  <1>5. stateFile' # stateFile => SaveId \/ SaveUploaded \/ SaveFinish \/ GnssJoin
    BY DEF vars, Next, Boot, StartSession, PowerLoss, Sleep, LoseMemory, CutSave, StopGnss, StopUpload,
           FlipSwitch, Gnss, GnssTerminate, GnssReceive, GnssNothing, GnssFix, GnssStart,
           GnssAppend, Upload, UploadDisabled, UploadBegin, NextSession, PassDone, OpenOk,
           HelloOk, IdOk, ChunkOk, DataDone, CountUploaded, Settle, FinishSent, SignSent,
           AckOk, LinkFails, Fail, PassFailed, EndPass, EndPassWith, Outside, cardVars
  <1> QED BY <1>2, <1>3, <1>4, <1>5

\* No step takes back what STATE.CSV has (PersistedProgress), whichever passes fail
\* and whenever the power goes, but a power loss that cuts a save.
THEOREM PersistedAlwaysProgresses == Spec => PersistedProgress
  <1>1. Init => CardInv
    BY EmptyStatus DEF Init, CardInv
  <1>2. TrackerSafe /\ (~torn => PassInv) /\ SavedInSync /\ (~torn => CardInv) /\ [Next]_vars
            => (~torn => CardInv)'
    BY NextSafe, NextCardInv DEF TrackerSafe
  <1>3. Spec => [](~torn => CardInv)
    BY <1>1, <1>2, SafeAlways, PassInvAlways, SavedAlwaysInSync, PTL DEF Spec
  <1>4. TrackerSafe /\ (~torn => CardInv) /\ [Next]_vars => [~torn' => AdvancesTo(stateFile')]_vars
    BY NextSafe, AdvancesStep DEF TrackerSafe
  <1> QED BY <1>3, <1>4, SafeAlways, PTL DEF Spec, PersistedProgress

-----------------------------------------------------------------------------
\* The tracker, the link and the server

\* Every number read as an id is one that a tracker can be given.
LEMMA IdInType == ASSUME NEW units PROVE IdIn(units) \in 1..(MaxOpens + 1) /\ IdIn(units) \in RemoteIds
  BY SystemAssumption DEF IdIn, Conns, Garbage

\* A step of the system is a step of the tracker, or none of its steps: the link
\* and the server only choose among the outcomes that Tracker leaves open.
LEMMA SystemStep == [SystemNext]_sysVarsAll => [Next]_vars
  <1> SUFFICES ASSUME [SystemNext]_sysVarsAll PROVE [Next]_vars
    OBVIOUS
  <1>1. CASE Local \/ PowerOff
    BY <1>1 DEF Local, PowerOff, Next, Upload
  <1>2. CASE SendOk \/ SendFails \/ NoAnswer
    BY <1>2 DEF SendOk, SendFails, NoAnswer, Next, Upload
  <1>3. CASE Open \/ AnswerRead \/ Finished \/ PassEnds
    BY <1>3 DEF Open, AnswerRead, Finished, PassEnds, Next, Upload
  <1>4. CASE IdRead
    BY <1>4, IdInType DEF IdRead, Next, Upload
  <1>5. CASE Arrive \/ Notice \/ Reset
    BY <1>5 DEF Arrive, Notice, Reset, ResetNotifier, trackerVars
  <1>6. CASE \E c \in Conns : Cut(c) \/ PeerClosed(c) \/ Serve(c)
    BY <1>6 DEF Cut, PeerClosed, Serve, ServeFresh, ServeReconnect, RefuseHandshake,
         ServeData, ServeFinish, ServeSign, RefuseSign, Receives, trackerVars
  <1>7. CASE UNCHANGED sysVarsAll
    BY <1>7 DEF sysVarsAll, trackerVars
  <1> QED BY <1>1, <1>2, <1>3, <1>4, <1>5, <1>6, <1>7 DEF SystemNext

\* UploadSystem implements Tracker: whatever the link and the server do, the tracker
\* behaves as Tracker says.
THEOREM ImplementsTracker == SystemSpec => Spec
  <1>1. SystemInit => Init
    BY DEF SystemInit
  <1> QED BY <1>1, SystemStep, PTL DEF SystemSpec, Spec

\* All that is known of the tracker alone.
TrackerInv == Inv /\ PassInv /\ SavedInSync /\ CardInv

LEMMA InitTracker == SystemInit => TrackerInv
  <1>1. Init => PassInv /\ SavedInSync /\ CardInv
    BY EmptyStatus DEF Init, NoPass, PassInv, AheadInv, SameInv, CountInv, InPass, InSession, Sent,
         LocalsOf, SavedInSync, CardInv
  <1> QED BY <1>1, InitInv DEF SystemInit, TrackerInv

LEMMA NextTracker == TrackerInv /\ ~torn' /\ [SystemNext]_sysVarsAll => TrackerInv'
  BY SystemStep, NextInv, NextPassInv, NextSaved, NextCardInv DEF TrackerInv

-----------------------------------------------------------------------------
\* Steps that do not touch the link

\* A buffer that is left alone by an actor that goes on reading, or did not read.
LEMMA ReaderKept ==
    ASSUME ReaderInv, UNCHANGED <<inbox, notifier, reader, available>>,
           reader # "wait" => upload' = upload
    PROVE  ReaderInv'
  BY DEF ReaderInv, PopsInside, Promised, Expected

\* What the actor does by itself neither begins to talk nor leaves a question open.
LEMMA QuietChannel ==
    ASSUME ChannelInv, UNCHANGED <<opens, attached, inbox, up, down, serverVars>>,
           notifier' \in Nat, available' \in Nat, reader' \in {"wait", "reset", "pop"},
           ReaderInv', Talking' => Talking,
           \/ upload' = upload
           \/ upload' # "hello" /\ (Talking' => upload \notin {"id", "sign", "ack", "saveFinish"})
    PROVE  ChannelInv'
  <1> USE DEF ChannelInv
  <1>1. UNCHANGED <<opens, attached, inbox, up, down, handler, serving, sessions, startedBy>>
    BY DEF serverVars
  <1>2. \A c : Genuine(c)' <=> Genuine(c)
    BY <1>1 DEF Genuine
  <1>3. LinkTypeOK' /\ HandlerInv'
    BY <1>1 DEF LinkTypeOK, HandlerInv
  <1>4. ASSUME NEW u, Talking', Awaits(u) PROVE Awaits(u)'
    BY <1>1, <1>4 DEF Awaits, Closed
  <1>5. InboxInv'
    BY <1>1, <1>2, <1>4 DEF InboxInv
  <1>6. DownInv'
    BY <1>1, <1>2 DEF DownInv, Coming, Closed
  <1>7. AskInv'
    BY <1>1, <1>2 DEF AskInv, AnswerPc
  <1>8. HelloInv' /\ TalkInv'
    BY <1>1 DEF HelloInv, TalkInv
  <1> QED BY <1>3, <1>5, <1>6, <1>7, <1>8

\* Connections are numbered from 1; 0 is none.
LEMMA ConnTypes ==
    ASSUME LinkTypeOK
    PROVE  /\ Conns \subseteq Nat \ {0} /\ opens \in Nat /\ opens <= MaxOpens
           /\ attached \in {0} \cup Conns /\ attached <= opens
           /\ DOMAIN up = Conns /\ DOMAIN down = Conns /\ DOMAIN handler = Conns
           /\ DOMAIN serving = Conns
  BY SystemAssumption DEF LinkTypeOK, Conns

\* The local session of the pass is one of the clone.
LEMMA SessionTyped ==
    ASSUME Inv, cur \in DOMAIN clone
    PROVE  /\ Session \in SessionUploadStatus
           /\ Session.local \in LocalIds /\ Session.uploaded \in Nat
           /\ Session.remote \in RemoteIds \cup {NoRemote}
  BY StatusElements DEF Session, Inv, TypeOK, UploadTypeOK

\* The actor's own steps, none of which it takes in the middle of a read.
LEMMA LocalChannel ==
    ASSUME TrackerInv, ChannelInv, Local PROVE ChannelInv'
  <1> USE DEF Talking, InTalk
  <1>1. UNCHANGED <<opens, attached, inbox, notifier, reader, available, up, down, serverVars>>
    BY DEF Local, linkVars, bufferVars
  <1>2. \/ UNCHANGED <<upload, connected>>
        \/ upload \in {"off", "wait", "next", "saveId", "data", "saveUploaded", "settle", "failed"}
           /\ upload' # "hello"
    <2>1. CASE StopGnss \/ StopUpload \/ Gnss
      BY <2>1 DEF StopGnss, StopUpload, Gnss, GnssTerminate, GnssReceive, GnssNothing, GnssFix,
                  GnssStart, GnssJoin, GnssAppend, uploadVars
    <2>2. CASE Boot
      BY <2>2 DEF Boot, StartSession, TrackerInv, CardInv
    <2>3. CASE ~(StopGnss \/ StopUpload \/ Gnss \/ Boot)
      BY <2>3 DEF Local, UploadBegin, NextSession, PassDone, SaveId, DataDone, CountUploaded,
                  SaveUploaded, Settle, PassFailed
    <2> QED BY <2>1, <2>2, <2>3
  <1>3. reader # "wait" => upload' = upload
    BY <1>2 DEF ChannelInv, ReaderInv, Expected
  <1>4. /\ ReaderInv' /\ notifier' \in Nat /\ available' \in Nat
        /\ reader' \in {"wait", "reset", "pop"}
    BY <1>1, <1>3, ReaderKept DEF ChannelInv, LinkTypeOK
  <1>5. Talking' => Talking
    <2>1. CASE NextSession
      <3>1. Session.local # 0
        <4>1. cur \in DOMAIN clone
          BY <2>1, StatusElements DEF NextSession, TrackerInv, Inv, TypeOK, UploadTypeOK
        <4> QED BY <4>1, SessionTyped DEF TrackerInv, LocalIds
      <3> QED BY <2>1, <3>1 DEF NextSession
    <2>2. CASE Boot \/ PassFailed
      BY <2>2 DEF Boot, StartSession, PassFailed
    <2>3. CASE StopGnss \/ StopUpload \/ Gnss
      BY <2>3 DEF StopGnss, StopUpload, Gnss, GnssTerminate, GnssReceive, GnssNothing, GnssFix,
                  GnssStart, GnssJoin, GnssAppend, uploadVars
    <2>4. CASE UploadBegin \/ PassDone \/ SaveId \/ DataDone \/ SaveUploaded \/ Settle
      BY <2>4 DEF UploadBegin, PassDone, SaveId, DataDone, CountUploaded, SaveUploaded, Settle
    <2> QED BY <2>1, <2>2, <2>3, <2>4 DEF Local
  <1> QED BY <1>1, <1>2, <1>4, <1>5, QuietChannel

\* A read that is given up leaves units and notification as they are.
LEMMA NoAnswerChannel ==
    ASSUME ChannelInv, NoAnswer PROVE ChannelInv'
  <1> USE DEF Talking, InTalk
  <1>1. /\ UNCHANGED <<opens, attached, inbox, notifier, available, up, down, serverVars>>
        /\ reader' = "wait" /\ upload' = "failed"
    BY DEF NoAnswer, LinkFails, Fail
  <1>2. ReaderInv'
    BY <1>1 DEF ChannelInv, ReaderInv, Promised, PopsInside
  <1> QED BY <1>1, <1>2, QuietChannel DEF ChannelInv, LinkTypeOK

\* Without a connection and with an empty buffer there is nothing to say.
LEMMA PowerOffChannel ==
    ASSUME TrackerInv, ChannelInv, PowerOff PROVE ChannelInv'
  <1> USE DEF ChannelInv
  <1>1. /\ attached' = 0 /\ inbox' = <<>> /\ notifier' = 0 /\ upload' = "off"
        /\ reader' = "wait" /\ available' = 0
        /\ UNCHANGED <<opens, up, handler, serving, sessions, startedBy>>
        /\ down' = IF attached = 0 THEN down ELSE [down EXCEPT ![attached] = <<>>]
    BY DEF PowerOff, PowerLoss, Sleep, LoseMemory, MemoryGone, CutSave, Detach, serverVars
  <1>2. \A c \in Conns : down'[c] = <<>>
    BY <1>1, ConnTypes DEF DownInv
  <1>3. LinkTypeOK'
    <2>1. <<>> \in Seq(Units) /\ <<>> \in Seq(Seq(Units))
      BY EmptySeq
    <2>2. down' \in [Conns -> Seq(Seq(Units))]
      BY <1>1, <2>1, ConnTypes, Zenon DEF LinkTypeOK
    <2> QED BY <1>1, <2>1, <2>2, ConnTypes DEF LinkTypeOK
  <1>4. HandlerInv' /\ ReaderInv'
    BY <1>1, EmptySeq DEF HandlerInv, ReaderInv, Promised, PopsInside
  <1>5. \A c : Genuine(c)' <=> Genuine(c)
    BY <1>1 DEF Genuine
  <1>6. InboxInv'
    BY <1>1, EmptySeq DEF InboxInv
  <1>7. AskInv'
    <2>1. ~Talking'
      BY <1>1 DEF Talking, InTalk
    <2> QED BY <1>1, <1>2, <1>5, <2>1 DEF AskInv, LinkTypeOK
  <1>8. DownInv' /\ HelloInv' /\ TalkInv'
    BY <1>1, <1>2 DEF DownInv, HelloInv, TalkInv
  <1> QED BY <1>3, <1>4, <1>6, <1>7, <1>8

-----------------------------------------------------------------------------
\* The receive buffer

\* A function on 1..n into S is a sequence of S.
LEMMA FunctionIsSeq ==
    ASSUME NEW S, NEW n \in Nat, NEW f, f \in [1..n -> S]
    PROVE  f \in Seq(S) /\ Len(f) = n
  <1>1. f = [i \in 1..n |-> f[i]] /\ \A i \in 1..n : f[i] \in S
    OBVIOUS
  <1>2. f \in Seq(S)
    BY <1>1, IsASeq
  <1> QED BY <1>1, <1>2, LenProperties

LEMMA NonceProperties ==
    ASSUME NEW c \in Nat, NEW use \in {"hello", "finish"}
    PROVE  /\ Nonce(c, use) \in Seq(Units) /\ Len(Nonce(c, use)) = 4
           /\ \A i \in 1..4 : Nonce(c, use)[i] = <<use, c, i>>
  <1>1. Nonce(c, use) \in [1..4 -> Units]
    BY DEF Nonce, Units
  <1> QED BY <1>1, FunctionIsSeq DEF Nonce

LEMMA SessionIdProperties ==
    ASSUME NEW id \in Nat
    PROVE  /\ SessionId(id) \in Seq(Units) /\ Len(SessionId(id)) = 2
           /\ \A i \in 1..2 : SessionId(id)[i] = <<"id", id, i>>
  <1>1. SessionId(id) \in [1..2 -> Units]
    BY DEF SessionId, Units
  <1> QED BY <1>1, FunctionIsSeq DEF SessionId

LEMMA ConfirmationProperties ==
    /\ Confirmation \in Seq(Units) /\ Len(Confirmation) = 1
    /\ Confirmation[1] = <<"one", 0, 1>>
  <1>1. Confirmation = [i \in 1..1 |-> <<"one", 0, 1>>]
    BY DEF Confirmation
  <1>2. Confirmation \in [1..1 -> Units]
    BY <1>1 DEF Units
  <1> QED BY <1>1, <1>2, FunctionIsSeq

\* What is under way, when something is.
LEMMA ComingUnits ==
    ASSUME ChannelInv, attached # 0, down[attached] # <<>>
    PROVE  \E units \in Seq(Units) :
             /\ down[attached] = <<units>>
             /\ \/ /\ units = Nonce(attached, "hello") /\ ~Genuine(attached)
                   /\ \A i \in DOMAIN inbox : inbox[i][1] = "hello" => inbox[i][2] # attached
                \/ /\ inbox = <<>> /\ Genuine(attached) /\ serving[attached] # 0
                   /\ \A i \in 1..Len(units) :
                        units[i][1] # "hello" /\ units[i][3] = i /\ (Talking => Awaits(units[i]))
  <1> USE DEF ChannelInv
  <1>1. attached \in Conns /\ attached \in Nat /\ Coming(attached)
    BY ConnTypes DEF DownInv
  <1>2. serving[attached] # 0 => Genuine(attached) /\ serving[attached] \in Nat
    <2>1. Len(sessions) \in Nat /\ DOMAIN sessions = 1..Len(sessions)
      BY LenProperties DEF LinkTypeOK
    <2> QED BY <1>1, <2>1 DEF Genuine, LinkTypeOK
  <1>3. CASE /\ down[attached] = << Nonce(attached, "hello") >> /\ ~Genuine(attached)
             /\ \A i \in DOMAIN inbox : inbox[i][1] = "hello" => inbox[i][2] # attached
    BY <1>1, <1>3, NonceProperties
  <1>4. CASE /\ serving[attached] # 0 /\ inbox = <<>>
             /\ down[attached] = << SessionId(serving[attached]) >> /\ (Talking => upload = "id")
    <2> DEFINE units == SessionId(serving[attached])
    <2>1. units \in Seq(Units) /\ Len(units) = 2 /\ \A i \in 1..2 : units[i] = <<"id", serving[attached], i>>
      BY <1>2, <1>4, SessionIdProperties
    <2>2. \A i \in 1..2 : units[i] \in Members(units)
      BY <2>1, LenProperties DEF Members
    <2>3. \A i \in 1..Len(units) :
             units[i][1] # "hello" /\ units[i][3] = i /\ (Talking => Awaits(units[i]))
      BY <1>4, <2>1, <2>2 DEF Awaits
    <2> HIDE DEF units
    <2> QED BY <1>2, <1>4, <2>1, <2>3 DEF units
  <1>5. CASE /\ serving[attached] # 0 /\ inbox = <<>>
             /\ down[attached] = << Nonce(attached, "finish") >> /\ (Talking => upload = "sign")
    <2> DEFINE units == Nonce(attached, "finish")
    <2>1. units \in Seq(Units) /\ Len(units) = 4 /\ \A i \in 1..4 : units[i] = <<"finish", attached, i>>
      BY <1>1, NonceProperties
    <2>2. \A i \in 1..4 : units[i] \in Members(units)
      BY <2>1, LenProperties DEF Members
    <2>3. \A i \in 1..Len(units) :
             units[i][1] # "hello" /\ units[i][3] = i /\ (Talking => Awaits(units[i]))
      BY <1>5, <2>1, <2>2 DEF Awaits
    <2> HIDE DEF units
    <2> QED BY <1>2, <1>5, <2>1, <2>3 DEF units
  <1>6. CASE /\ serving[attached] # 0 /\ inbox = <<>> /\ down[attached] = << Confirmation >>
             /\ (Talking => upload = "ack") /\ Closed(serving[attached])
    <2>1. \A i \in 1..Len(Confirmation) :
             /\ Confirmation[i][1] # "hello" /\ Confirmation[i][3] = i
             /\ Talking => Awaits(Confirmation[i])
      BY <1>6, ConfirmationProperties DEF Awaits
    <2> QED BY <1>2, <1>6, <2>1, ConfirmationProperties
  <1> QED BY <1>1, <1>3, <1>4, <1>5, <1>6 DEF Coming

\* What every unit of the buffer satisfies.
LEMMA UnitTypes ==
    ASSUME NEW units \in Seq(Units), NEW i \in 1..Len(units)
    PROVE  units[i][1] \in {"hello", "finish", "id", "one"} /\ units[i][2] \in Nat
           /\ units[i][3] \in 1..4
  BY ElementOfSeq DEF Units

\* ConnectionBuffer::write: the buffer gets the one message under way behind what
\* it holds.
LEMMA ArriveChannel ==
    ASSUME ChannelInv, Arrive PROVE ChannelInv'
  <1> USE DEF ChannelInv
  <1>1. PICK units \in Seq(Units) :
             /\ down[attached] = <<units>>
             /\ \/ /\ units = Nonce(attached, "hello") /\ ~Genuine(attached)
                   /\ \A i \in DOMAIN inbox : inbox[i][1] = "hello" => inbox[i][2] # attached
                \/ /\ inbox = <<>> /\ Genuine(attached) /\ serving[attached] # 0
                   /\ \A i \in 1..Len(units) :
                        units[i][1] # "hello" /\ units[i][3] = i /\ (Talking => Awaits(units[i]))
    BY ComingUnits DEF Arrive
  <1>2. /\ attached # 0 /\ attached \in Conns /\ attached \in 1..opens /\ attached \in Nat
        /\ inbox' = inbox \o units /\ notifier' = Len(inbox')
        /\ reader' = reader /\ available' = available
        /\ down' = [down EXCEPT ![attached] = <<>>]
        /\ UNCHANGED <<opens, attached, up, handler, serving, sessions, startedBy, upload,
                       connected>>
    BY <1>1, ConnTypes DEF Arrive, serverVars, trackerVars, vars, uploadVars
  <1>3. /\ inbox \in Seq(Units) /\ Len(inbox) \in Nat /\ DOMAIN inbox = 1..Len(inbox)
        /\ Len(units) \in Nat
        /\ inbox' \in Seq(Units) /\ Len(inbox') = Len(inbox) + Len(units)
        /\ DOMAIN inbox' = 1..(Len(inbox) + Len(units))
        /\ \A i \in DOMAIN inbox' :
             inbox'[i] = IF i <= Len(inbox) THEN inbox[i] ELSE units[i - Len(inbox)]
    BY <1>2, ConcatProperties, LenProperties DEF LinkTypeOK
  <1>4. \A c \in Conns : down'[c] = <<>>
    BY <1>2, ConnTypes DEF DownInv
  <1>5. \A c : Genuine(c)' <=> Genuine(c)
    BY <1>2 DEF Genuine
  <1>6. Talking' <=> Talking
    BY <1>2 DEF Talking, InTalk
  <1>7. \A u : Awaits(u)' <=> Awaits(u)
    BY <1>2 DEF Awaits, Closed
  <1>8. LinkTypeOK'
    <2>1. down' \in [Conns -> Seq(Seq(Units))]
      <3>1. <<>> \in Seq(Seq(Units))
        BY EmptySeq
      <3> QED BY <1>2, <3>1, ConnTypes, Zenon DEF LinkTypeOK
    <2> QED BY <1>2, <1>3, <2>1 DEF LinkTypeOK
  <1>9. HandlerInv' /\ TalkInv'
    BY <1>2, <1>6 DEF HandlerInv, TalkInv
  <1>10. InboxInv'
    <2> SUFFICES ASSUME NEW i \in DOMAIN inbox'
                 PROVE  /\ inbox'[i][1] = "hello" => inbox'[i][2] \in 1..opens
                        /\ inbox'[i][1] # "hello" => inbox'[i][3] = i
                        /\ Genuine(attached) => inbox'[i][1] # "hello"
                        /\ Talking /\ inbox'[i][1] # "hello" => Awaits(inbox'[i])
      BY <1>2, <1>5, <1>6, <1>7 DEF InboxInv
    <2>1. CASE i <= Len(inbox)
      <3>1. i \in DOMAIN inbox /\ inbox'[i] = inbox[i]
        BY <1>3, <2>1
      <3> QED BY <1>2, <3>1 DEF InboxInv
    <2>2. CASE i > Len(inbox)
      <3>1. i - Len(inbox) \in 1..Len(units) /\ inbox'[i] = units[i - Len(inbox)]
        BY <1>3, <2>2
      <3>2. CASE units = Nonce(attached, "hello") /\ ~Genuine(attached)
        <4>1. inbox'[i] = <<"hello", attached, i - Len(inbox)>>
          BY <1>2, <3>1, <3>2, NonceProperties
        <4> QED BY <1>2, <3>2, <4>1
      <3>3. CASE /\ inbox = <<>>
                 /\ \A k \in 1..Len(units) :
                      units[k][1] # "hello" /\ units[k][3] = k /\ (Talking => Awaits(units[k]))
        <4>1. i \in 1..Len(units) /\ inbox'[i] = units[i]
          BY <1>3, <3>1, <3>3, EmptySeq
        <4> QED BY <3>3, <4>1
      <3> QED BY <1>1, <3>2, <3>3
    <2> QED BY <1>3, <2>1, <2>2
  <1>11. DownInv'
    BY <1>4 DEF DownInv
  <1>12. AskInv'
    <2> SUFFICES ASSUME NEW c \in Conns, NEW i \in DOMAIN up[c], Genuine(c), Asks(up[c][i])
                 PROVE  i = Len(up[c]) /\ c # attached
      BY <1>2, <1>5 DEF AskInv
    <2> QED BY <1>1 DEF AskInv
  <1>13. HelloInv'
    <2> SUFFICES ASSUME upload = "hello", inbox' # <<>>, inbox'[1][1] = "hello",
                        inbox'[1][2] = attached
                 PROVE  Len(inbox') = 4
      BY <1>2 DEF HelloInv
    <2>1. units = Nonce(attached, "hello")
          /\ \A i \in DOMAIN inbox : inbox[i][1] = "hello" => inbox[i][2] # attached
      BY <1>1 DEF HelloInv
    <2>2. Len(units) = 4
      BY <1>2, <2>1, NonceProperties
    <2>3. Len(inbox) = 0
      <3>1. SUFFICES ASSUME Len(inbox) > 0 PROVE FALSE
        BY <1>3
      <3>2. 1 \in DOMAIN inbox /\ inbox'[1] = inbox[1]
        BY <1>3, <3>1
      <3> QED BY <2>1, <3>2
    <2> QED BY <1>3, <2>2, <2>3
  <1>14. ReaderInv'
    <2>1. Expected' = Expected /\ Expected \in Nat
      BY <1>2 DEF Expected
    <2>2. reader = "pop" => Len(units) = 4
      <3> SUFFICES ASSUME reader = "pop" PROVE Len(units) = 4
        OBVIOUS
      <3>1. inbox # <<>>
        BY <1>3, <2>1, EmptySeq DEF ReaderInv, PopsInside
      <3> QED BY <1>1, <1>2, <3>1, NonceProperties
    <2> DEFINE had == Len(inbox)
               got == Len(units)
    <2>3. /\ had \in Nat /\ got \in Nat /\ Len(inbox') = had + got /\ notifier' = had + got
          /\ reader = "reset" => available <= had \/ had >= 4
          /\ reader = "pop" => Expected <= had /\ got = 4
          /\ reader # "wait" => Expected > 0
          /\ available \in Nat
      BY <1>2, <1>3, <2>2 DEF ReaderInv, Promised, PopsInside, LinkTypeOK
    <2> HIDE DEF had, got
    <2> QED BY <1>2, <2>1, <2>3 DEF ReaderInv, Promised, PopsInside
  <1> QED BY <1>8, <1>9, <1>10, <1>11, <1>12, <1>13, <1>14

\* The steps of a read before it pops: what was promised is there, or enough else.
LEMMA ReadingChannel ==
    ASSUME ChannelInv, Notice \/ Reset PROVE ChannelInv'
  <1>1. UNCHANGED <<opens, attached, inbox, up, down, serverVars, upload, connected>>
    BY DEF Notice, Reset, ResetNotifier, trackerVars, vars, uploadVars
  <1>2. /\ notifier' \in Nat /\ available' \in Nat /\ reader' \in {"wait", "reset", "pop"}
    BY DEF Notice, Reset, ResetNotifier, ChannelInv, LinkTypeOK
  <1>3. ReaderInv'
    <2>1. Expected' = Expected /\ Expected \in 0..4
      BY <1>1 DEF Expected
    <2>2. Len(inbox) \in Nat /\ available \in Nat /\ notifier \in Nat
      BY LenProperties DEF ChannelInv, LinkTypeOK
    <2>3. CASE Notice
      BY <1>1, <2>1, <2>2, <2>3 DEF Notice, ChannelInv, ReaderInv, Promised, PopsInside
    <2>4. CASE Reset
      BY <1>1, <2>1, <2>2, <2>4 DEF Reset, ResetNotifier, ChannelInv, ReaderInv, Promised, PopsInside
    <2> QED BY <2>3, <2>4
  <1>4. Talking' <=> Talking
    BY <1>1 DEF Talking, InTalk
  <1> QED BY <1>1, <1>2, <1>3, <1>4, QuietChannel

-----------------------------------------------------------------------------
\* Connections begin and end

\* A new connection is the only one whose nonce comes, and none of its units are
\* in the buffer yet.
LEMMA OpenChannel ==
    ASSUME ChannelInv, Open PROVE ChannelInv'
  <1> USE DEF ChannelInv
  <1>0. opens + 1 \in Conns
    BY SystemAssumption, ConnTypes DEF Open, Conns
  <1> PICK new \in Conns : new = opens + 1
    BY <1>0
  <1>1. /\ new \in Conns /\ new \in Nat /\ opens' = new /\ attached' = new /\ new <= MaxOpens
        /\ down' = [c \in Conns |-> IF c = new THEN << Nonce(c, "hello") >>
                                    ELSE IF c = attached THEN <<>> ELSE down[c]]
        /\ handler' = [handler EXCEPT ![new] = "handshake"]
        /\ upload' = "hello"
        /\ UNCHANGED <<inbox, notifier, reader, available, up, serving, sessions, startedBy>>
    BY SystemAssumption, ConnTypes DEF Open, OpenOk, Conns, bufferVars
  <1>2. handler[new] = "none" /\ serving[new] = 0 /\ up[new] = <<>>
    BY <1>1, ConnTypes DEF HandlerInv
  <1>3. \A c \in Conns : /\ c # new => down'[c] = <<>> /\ handler'[c] = handler[c]
                         /\ c = new => down'[c] = << Nonce(new, "hello") >>
                                       /\ handler'[c] = "handshake"
    BY <1>1, ConnTypes DEF DownInv
  <1>4. ~Talking'
    BY <1>1 DEF Talking, InTalk
  <1>5. \A c \in Conns : Genuine(c)' <=> Genuine(c) /\ c # new
    BY <1>1, <1>2, <1>3 DEF Genuine
  <1>6. LinkTypeOK'
    <2>1. down' \in [Conns -> Seq(Seq(Units))]
      <3>1. \A c \in Conns : down'[c] \in Seq(Seq(Units))
        <4>1. <<>> \in Seq(Seq(Units))
          BY EmptySeq
        <4>2. << Nonce(new, "hello") >> \in Seq(Seq(Units))
          BY <1>1, NonceProperties
        <4> QED BY <1>3, <4>1, <4>2
          <3> QED BY <1>1, <3>1
    <2>2. handler' \in [Conns -> Handlers]
      BY <1>1 DEF LinkTypeOK, Handlers
    <2> QED BY <1>1, <2>1, <2>2 DEF LinkTypeOK
  <1>7. HandlerInv' /\ ReaderInv'
    <2>1. ASSUME NEW c \in Conns, c > new PROVE handler'[c] = "none"
      BY <1>1, <1>3, <2>1, ConnTypes DEF HandlerInv
    <2>2. ReaderInv'
      <3>1. reader = "wait"
        BY DEF Open, OpenOk, ReaderInv, Expected
      <3> QED BY <1>1, <3>1, ReaderKept
    <2>3. \A c \in Conns : up[c] = up'[c] /\ serving[c] = serving'[c]
      BY <1>1
    <2>4. ASSUME NEW c \in Conns, c = new
          PROVE  /\ serving'[c] = 0 /\ handler'[c] = "handshake" /\ DOMAIN up'[c] = {}
      BY <1>2, <1>3, <2>3, <2>4
    <2> QED BY <1>1, <1>3, <2>1, <2>2, <2>3, <2>4 DEF HandlerInv
  <1>8. InboxInv'
    <2>1. \A i \in DOMAIN inbox : inbox[i][1] = "hello" => inbox[i][2] \in 1..new
      BY <1>1, ConnTypes DEF InboxInv
    <2> QED BY <1>1, <1>4, <1>5, <2>1 DEF InboxInv
  <1>9. DownInv'
    <2>1. \A i \in DOMAIN inbox : inbox[i][1] = "hello" => inbox[i][2] # new
      BY ConnTypes DEF InboxInv
    <2>2. Coming(new)'
      BY <1>1, <1>3, <1>5, <2>1 DEF Coming
    <2> QED BY <1>1, <1>3, <2>2 DEF DownInv
  <1>10. AskInv'
    <2>1. \A c \in Conns : Genuine(c)' => Genuine(c) /\ c # attached'
      BY <1>1, <1>5
    <2>2. \A c \in Conns : up'[c] = up[c]
      BY <1>1
    <2> QED BY <2>1, <2>2 DEF AskInv
  <1>11. HelloInv' /\ TalkInv'
    <2>1. inbox # <<>> /\ inbox[1][1] = "hello" => inbox[1][2] # new
      <3>1. inbox # <<>> => 1 \in DOMAIN inbox
        BY EmptySeq, LenProperties DEF LinkTypeOK
      <3> QED BY <3>1, ConnTypes DEF InboxInv
    <2>2. TalkInv'
      BY <1>4 DEF TalkInv
    <2>3. /\ attached' # 0 /\ handler'[attached'] = "handshake" /\ serving'[attached'] = 0
          /\ up'[attached'] = <<>>
      <3>1. new # 0 /\ attached' = new
        BY <1>1, ConnTypes
      <3>2. handler'[new] = "handshake"
        BY <1>3
      <3>3. serving'[new] = 0 /\ up'[new] = <<>>
        BY <1>1, <1>2
      <3> QED BY <3>1, <3>2, <3>3
    <2> QED BY <1>1, <2>1, <2>2, <2>3 DEF HelloInv
  <1> QED BY <1>6, <1>7, <1>8, <1>9, <1>10, <1>11

\* A task of the server that is over leaves what was read and what is under way.
LEMMA EndChannel ==
    ASSUME ChannelInv, NEW c \in Conns, handler[c] \notin {"none", "ended"},
           handler' = [handler EXCEPT ![c] = "ended"], up' = [up EXCEPT ![c] = <<>>],
           down' \in {down, [down EXCEPT ![c] = <<>>]},
           UNCHANGED <<opens, attached, inbox, notifier, reader, available, serving, sessions, startedBy,
                       upload, connected>>
    PROVE  ChannelInv'
  <1> USE DEF ChannelInv
  <1>1. \A d \in Conns : /\ d # c => up'[d] = up[d] /\ handler'[d] = handler[d]
                         /\ d = c => up'[d] = <<>> /\ handler'[d] = "ended"
                         /\ down'[d] \in {down[d], <<>>}
    BY ConnTypes
  <1>2. \A d \in Conns : Genuine(d)' => Genuine(d)
    BY <1>1 DEF Genuine
  <1>3. Talking' <=> Talking
    BY DEF Talking, InTalk
  <1>4. LinkTypeOK'
    <2>1. <<>> \in Seq(Messages) /\ <<>> \in Seq(Seq(Units))
      BY EmptySeq
    <2>2. up' \in [Conns -> Seq(Messages)]
      BY <2>1, Zenon DEF LinkTypeOK
    <2>3. down' \in [Conns -> Seq(Seq(Units))]
      BY <2>1, Zenon DEF LinkTypeOK
    <2>4. handler' \in [Conns -> Handlers]
      BY DEF LinkTypeOK, Handlers
    <2> QED BY <2>2, <2>3, <2>4 DEF LinkTypeOK
  <1>5. HandlerInv' /\ ReaderInv'
    <2>1. DOMAIN up'[c] = {} /\ handler'[c] = "ended"
      BY <1>1
    <2>2. c <= opens
      BY ConnTypes DEF HandlerInv
    <2> QED BY <1>1, <2>1, <2>2, ConnTypes, ReaderKept DEF HandlerInv
  <1>6. InboxInv'
    <2>1. \A u : Awaits(u)' <=> Awaits(u)
      BY DEF Awaits, Closed
    <2> QED BY <1>2, <1>3, <2>1, ConnTypes DEF InboxInv
  <1>7. DownInv'
    <2> SUFFICES ASSUME NEW d \in Conns, down'[d] # <<>> PROVE d = attached /\ Coming(d)'
      BY DEF DownInv
    <2>1. down'[d] = down[d] /\ d = attached /\ Coming(d)
      BY <1>1 DEF DownInv
    <2> QED BY <1>2, <1>3, <2>1 DEF Coming, Closed
  <1>8. AskInv'
    <2> SUFFICES ASSUME NEW d \in Conns, NEW i \in DOMAIN up'[d], Genuine(d)', Asks(up'[d][i])
                 PROVE  /\ i = Len(up'[d])
                        /\ d = attached => /\ inbox = <<>> /\ down'[d] = <<>>
                                           /\ Talking => upload = AnswerPc(up'[d][i])
      BY <1>3 DEF AskInv
    <2>1. d # c /\ up'[d] = up[d] /\ down'[d] \in {down[d], <<>>}
      BY <1>1
    <2> QED BY <1>2, <2>1 DEF AskInv
  <1>9. HelloInv' /\ TalkInv'
    BY <1>1, <1>3, ConnTypes DEF HelloInv, TalkInv
  <1> QED BY <1>4, <1>5, <1>6, <1>7, <1>8, <1>9

\* The connection breaks, the tracker has closed it, or the task returns an Err.
LEMMA LostChannel ==
    ASSUME ChannelInv, NEW c \in Conns,
           Cut(c) \/ PeerClosed(c) \/ RefuseHandshake(c) \/ RefuseSign(c)
    PROVE  ChannelInv'
  <1>1. UNCHANGED <<opens, attached, inbox, notifier, reader, available, serving, sessions, startedBy, upload,
                    connected>>
    BY DEF Cut, PeerClosed, RefuseHandshake, RefuseSign, Receives, Rejects, bufferVars,
           trackerVars, vars, uploadVars
  <1>2. CASE Cut(c) \/ PeerClosed(c)
    BY <1>1, <1>2, EndChannel DEF Cut, PeerClosed, End
  <1>3. CASE RefuseHandshake(c) \/ RefuseSign(c)
    BY <1>1, <1>3, EndChannel DEF RefuseHandshake, RefuseSign, Rejects, Receives, End
  <1> QED BY <1>2, <1>3

-----------------------------------------------------------------------------
\* The tracker reads and sends

\* read_exact_block: what was behind the units read moves up.  No answer is left
\* behind the four units of a nonce.
LEMMA TakeUnits ==
    ASSUME ChannelInv, NEW n \in {1, 2, 4}, n = Expected, Take(n)
    PROVE  /\ inbox \in Seq(Units) /\ DOMAIN inbox = 1..Len(inbox) /\ Len(inbox) \in Nat
           /\ Len(inbox) >= n /\ notifier' = notifier /\ available' = available
           /\ reader' = "wait" /\ ReaderInv'
           /\ SubSeq(inbox, 1, n) \in Seq(Units) /\ Len(SubSeq(inbox, 1, n)) = n
           /\ \A i \in 1..n : SubSeq(inbox, 1, n)[i] = inbox[i]
           /\ inbox' \in Seq(Units) /\ Len(inbox') = Len(inbox) - n
           /\ DOMAIN inbox' = 1..(Len(inbox) - n)
           /\ \A i \in DOMAIN inbox' : i + n \in DOMAIN inbox /\ inbox'[i] = inbox[i + n]
           /\ inbox' = <<>> <=> Len(inbox) = n
           /\ n = 4 => \A i \in DOMAIN inbox' : inbox'[i][1] = "hello"
  <1>1. /\ inbox \in Seq(Units) /\ DOMAIN inbox = 1..Len(inbox) /\ Len(inbox) \in Nat
        /\ \A i \in 1..Len(inbox) : inbox[i] \in Units
    BY LenProperties, ElementOfSeq DEF ChannelInv, LinkTypeOK
  <1>2. /\ notifier \in Nat /\ notifier' = notifier /\ available' = available
        /\ reader = "pop" /\ reader' = "wait" /\ Len(inbox) >= n
        /\ inbox' = SubSeq(inbox, n + 1, Len(inbox))
    BY <1>1 DEF Take, ChannelInv, LinkTypeOK, ReaderInv, PopsInside
  <1>3. /\ SubSeq(inbox, 1, n) \in Seq(Units) /\ Len(SubSeq(inbox, 1, n)) = n
        /\ \A i \in 1..n : SubSeq(inbox, 1, n)[i] = inbox[i]
    <2>1. \A i \in 1..n : inbox[i] \in Units
      BY <1>1, <1>2
    <2> QED BY <2>1, SubSeqProperties
  <1>4. /\ inbox' \in Seq(Units) /\ Len(inbox') = Len(inbox) - n
        /\ \A i \in 1..(Len(inbox) - n) : inbox'[i] = inbox[i + n]
    <2>1. \A i \in (n + 1)..Len(inbox) : inbox[i] \in Units
      BY <1>1
    <2>2. /\ SubSeq(inbox, n + 1, Len(inbox)) \in Seq(Units)
          /\ Len(SubSeq(inbox, n + 1, Len(inbox)))
                = IF n + 1 <= Len(inbox) THEN Len(inbox) - (n + 1) + 1 ELSE 0
          /\ \A i \in 1..(Len(inbox) - (n + 1) + 1) :
                SubSeq(inbox, n + 1, Len(inbox))[i] = inbox[n + 1 + i - 1]
      BY <1>1, <2>1, SubSeqProperties
    <2>3. \A i \in 1..(Len(inbox) - n) : inbox'[i] = inbox[i + n]
      <3> TAKE i \in 1..(Len(inbox) - n)
      <3>1. i \in 1..(Len(inbox) - (n + 1) + 1) /\ n + 1 + i - 1 = i + n
        BY <1>1
      <3> QED BY <1>2, <2>2, <3>1
    <2>4. inbox' \in Seq(Units) /\ Len(inbox') = Len(inbox) - n
      <3> DEFINE length == Len(inbox)
      <3>1. length \in Nat /\ length >= n /\ n \in Nat
        BY <1>1, <1>2
      <3>2. inbox' \in Seq(Units)
            /\ Len(inbox') = IF n + 1 <= length THEN length - (n + 1) + 1 ELSE 0
        BY <1>2, <2>2
      <3> HIDE DEF length
      <3>3. (IF n + 1 <= length THEN length - (n + 1) + 1 ELSE 0) = length - n
        BY <3>1
      <3> QED BY <3>2, <3>3 DEF length
    <2> QED BY <2>3, <2>4
  <1>5. DOMAIN inbox' = 1..(Len(inbox) - n)
    BY <1>4, LenProperties
  <1>6. inbox' = <<>> <=> Len(inbox) = n
    <2>1. \A s \in Seq(Units) : s = <<>> <=> Len(s) = 0
      BY EmptySeq
    <2>2. inbox' = <<>> <=> Len(inbox') = 0
      BY <1>4, <2>1
    <2> DEFINE length == Len(inbox)
               rest == Len(inbox')
    <2>3. length \in Nat /\ n \in Nat /\ rest = length - n
      BY <1>1, <1>4
    <2> HIDE DEF length, rest
    <2>4. rest = 0 <=> length = n
      BY <2>3
    <2> QED BY <2>2, <2>4 DEF length, rest
  <1>7. \A i \in DOMAIN inbox' : i + n \in DOMAIN inbox /\ inbox'[i] = inbox[i + n]
    BY <1>1, <1>4, <1>5
  <1>8. ASSUME n = 4, NEW i \in DOMAIN inbox' PROVE inbox'[i][1] = "hello"
    <2>1. i + 4 \in DOMAIN inbox /\ inbox'[i] = inbox[i + 4] /\ i \in Nat /\ i > 0
      BY <1>5, <1>7, <1>8
    <2>2. inbox[i + 4][3] \in 1..4
      BY <1>1, <2>1 DEF Units
    <2> QED BY <2>1, <2>2 DEF ChannelInv, InboxInv
  <1>9. ReaderInv'
    <2>1. notifier > 0 => Len(inbox) >= n + 4
      BY <1>2 DEF ChannelInv, ReaderInv
    <2> DEFINE had == Len(inbox)
               has == Len(inbox')
    <2>2. had \in Nat /\ has = had - n /\ had >= n /\ (notifier > 0 => had >= n + 4)
      BY <1>1, <1>2, <1>4, <2>1
    <2> HIDE DEF had, has
    <2>3. notifier <= has \/ has >= 4
      BY <1>2, <2>2
    <2> QED BY <1>2, <2>3 DEF ReaderInv, Promised, PopsInside, has
  <1> QED BY <1>1, <1>2, <1>3, <1>4, <1>5, <1>6, <1>7, <1>8, <1>9

\* The points of the next message of upload_data.
LEMMA ChunkProperties ==
    ASSUME Inv, upload = "data", sent < Missing
    PROVE  /\ ChunkSize \in Nat \ {0} /\ sent + ChunkSize <= Missing
           /\ NextChunk \in Seq(Points) /\ Len(NextChunk) = ChunkSize
           /\ \A i \in 1..ChunkSize : NextChunk[i] = <<Session.local, Session.uploaded + sent + i>>
  <1>1. Session.local \in LocalIds /\ Session.uploaded \in Nat
    BY SessionTyped DEF Inv, CloneInv, InSession
  <1>2. count \in Nat /\ sent \in Nat
    BY DEF Inv, TypeOK, UploadTypeOK
  <1>3. ChunkSize \in Nat \ {0} /\ sent + ChunkSize <= Missing
    BY <1>1, <1>2, CodeConstantsAssumption DEF ChunkSize, Missing
  <1>4. NextChunk \in [1..ChunkSize -> Points]
    <2>1. \A i \in 1..ChunkSize : <<Session.local, Session.uploaded + sent + i>> \in Points
      BY <1>1, <1>2, <1>3 DEF Points
    <2> QED BY <2>1 DEF NextChunk
  <1> QED BY <1>3, <1>4, FunctionIsSeq DEF NextChunk

Saying == upload \in {"hello", "data", "finish", "sign"}

\* The message of each sending step is one a server can read.
LEMMA MessageTyped ==
    ASSUME TrackerInv, ChannelInv, Sending, Expected > 0 => Take(Expected)
    PROVE  /\ Saying /\ Message \in Messages
           /\ upload = "hello" => /\ Message.kind = "hello" /\ Message.nonce = SubSeq(inbox, 1, 4)
                                  /\ Message.remote = Session.remote
                                  /\ Message.local = Session.local
           /\ upload = "data" => Message.kind = "data" /\ Message.points = NextChunk
           /\ upload = "finish" => Message.kind = "finish"
           /\ upload = "sign" => Message.kind = "sign" /\ Message.nonce = SubSeq(inbox, 1, 4)
           /\ upload # "data" => Message.points = <<>>
  <1>1. upload \in {"hello", "sign"} => SubSeq(inbox, 1, 4) \in Seq(Units)
    BY TakeUnits DEF Expected
  <1>2. Session.local \in LocalIds /\ Session.remote \in RemoteIds \cup {NoRemote}
    BY SessionTyped DEF TrackerInv, Inv, CloneInv, InSession, Sending
  <1>3. CASE upload = "hello"
    BY <1>1, <1>2, <1>3 DEF Message, Messages, Saying
  <1>4. CASE upload = "data" /\ sent < Missing
    BY <1>4, ChunkProperties DEF Message, Messages, Saying, TrackerInv
  <1>5. CASE upload = "finish"
    BY <1>5 DEF Message, Messages, Saying
  <1>6. CASE upload = "sign"
    BY <1>1, <1>6 DEF Message, Messages, Saying
  <1> QED BY <1>3, <1>4, <1>5, <1>6 DEF Sending

\* What a sending step does to the link: it takes the nonce it signs, and its
\* message is behind the others or nowhere.
LEMMA SayEffect ==
    ASSUME TrackerInv, ChannelInv, SendOk \/ SendFails
    PROVE  /\ Sending /\ (Expected > 0 => Take(Expected))
           /\ UNCHANGED <<opens, attached, down, handler, serving, sessions, startedBy>>
           /\ upload \in {"data", "finish"} => UNCHANGED <<inbox, notifier, reader, available>>
           /\ \/ up' = up /\ (attached = 0 \/ handler[attached] = "ended" \/ upload' = "failed")
              \/ /\ attached # 0 /\ handler[attached] # "ended"
                 /\ up' = [up EXCEPT ![attached] = Append(up[attached], Message)]
           /\ upload' # "failed" =>
                /\ upload = "hello" => upload' = IF Session.remote = NoRemote THEN "id" ELSE "data"
                /\ upload = "data" => upload' = "data"
                /\ upload = "finish" => upload' = "sign"
                /\ upload = "sign" => upload' = "ack"
  <1>1. /\ Sending /\ (Expected > 0 => Take(Expected))
        /\ UNCHANGED <<opens, attached, down, handler, serving, sessions, startedBy>>
        /\ upload \in {"data", "finish"} => UNCHANGED <<inbox, notifier, reader, available>>
    BY DEF SendOk, SendFails, serverVars, bufferVars, Expected
  <1>2. CASE SendOk
    BY <1>1, <1>2 DEF SendOk, Send, HelloOk, ChunkOk, FinishSent, SignSent
  <1>3. CASE SendFails
    BY <1>1, <1>3 DEF SendFails, Send, LinkFails, Fail
  <1> QED BY <1>1, <1>2, <1>3

\* The queue of a connection after a sending step.
LEMMA SayQueue ==
    ASSUME TrackerInv, ChannelInv, SendOk \/ SendFails
    PROVE  /\ \A c \in Conns : \/ up'[c] = up[c]
                               \/ /\ c = attached /\ handler[c] # "ended"
                                  /\ up'[c] = Append(up[c], Message)
                                  /\ Len(up'[c]) = Len(up[c]) + 1
                                  /\ up[c] # <<>> => up'[c][1] = up[c][1]
           /\ \A c \in Conns :
                /\ DOMAIN up[c] = 1..Len(up[c]) /\ DOMAIN up'[c] = 1..Len(up'[c])
                /\ Len(up[c]) \in Nat /\ Len(up'[c]) \in Nat
                /\ up[c] = <<>> <=> Len(up[c]) = 0
                /\ \A i \in DOMAIN up'[c] :
                     \/ i \in DOMAIN up[c] /\ up'[c][i] = up[c][i]
                     \/ i = Len(up[c]) + 1 /\ i = Len(up'[c]) /\ up'[c][i] = Message
                        /\ c = attached /\ up'[c] # up[c]
           /\ LinkTypeOK' /\ ReaderInv'
  <1> USE DEF ChannelInv
  <1>1. Message \in Messages
    BY MessageTyped, SayEffect
  <1>2. \A c \in Conns : \/ up'[c] = up[c]
                         \/ /\ c = attached /\ handler[c] # "ended"
                            /\ up'[c] = Append(up[c], Message)
    BY SayEffect, ConnTypes
  <1>3. \A c \in Conns : up[c] \in Seq(Messages)
    BY DEF LinkTypeOK
  <1>4. \A c \in Conns : up'[c] \in Seq(Messages)
    BY <1>1, <1>2, <1>3, AppendProperties
  <1>5. \A c \in Conns :
          /\ DOMAIN up[c] = 1..Len(up[c]) /\ DOMAIN up'[c] = 1..Len(up'[c])
          /\ Len(up[c]) \in Nat /\ Len(up'[c]) \in Nat
          /\ up[c] = <<>> <=> Len(up[c]) = 0
    BY <1>3, <1>4, LenProperties, EmptySeq
  <1>6. ASSUME NEW c \in Conns, up'[c] = Append(up[c], Message)
        PROVE  /\ Len(up'[c]) = Len(up[c]) + 1
               /\ \A i \in 1..Len(up[c]) : up'[c][i] = up[c][i]
               /\ up'[c][Len(up[c]) + 1] = Message
    BY <1>1, <1>3, <1>6, AppendProperties
  <1>7. \A c \in Conns : up'[c] = Append(up[c], Message) => Len(up'[c]) = Len(up[c]) + 1
                           /\ (up[c] # <<>> => up'[c][1] = up[c][1])
    <2> TAKE c \in Conns
    <2> HAVE up'[c] = Append(up[c], Message)
    <2>1. up[c] # <<>> => 1 \in 1..Len(up[c])
      BY <1>5
    <2> QED BY <1>6, <2>1
  <1>8. ASSUME NEW c \in Conns, NEW i \in DOMAIN up'[c]
        PROVE  \/ i \in DOMAIN up[c] /\ up'[c][i] = up[c][i]
               \/ i = Len(up[c]) + 1 /\ i = Len(up'[c]) /\ up'[c][i] = Message
                  /\ c = attached /\ up'[c] # up[c]
    <2>1. CASE up'[c] = up[c]
      BY <2>1
    <2>2. CASE c = attached /\ up'[c] = Append(up[c], Message)
      <3>1. /\ Len(up'[c]) = Len(up[c]) + 1
            /\ \A k \in 1..Len(up[c]) : up'[c][k] = up[c][k]
            /\ up'[c][Len(up[c]) + 1] = Message
        BY <1>6, <2>2
      <3> DEFINE n == Len(up[c])
                 m == Len(up'[c])
      <3>2. /\ n \in Nat /\ m = n + 1 /\ DOMAIN up[c] = 1..n /\ DOMAIN up'[c] = 1..m
            /\ \A k \in 1..n : up'[c][k] = up[c][k]
            /\ up'[c][n + 1] = Message /\ up'[c] # up[c]
        BY <1>5, <3>1
      <3> HIDE DEF n, m
      <3>3. i \in 1..n \/ (i = n + 1 /\ i = m)
        BY <3>2
      <3>4. CASE i \in 1..n
        BY <3>2, <3>4
      <3>5. CASE i = n + 1 /\ i = m
        BY <2>2, <3>2, <3>5 DEF n, m
      <3> QED BY <3>3, <3>4, <3>5
    <2> QED BY <1>2, <2>1, <2>2
  <1>9. LinkTypeOK' /\ ReaderInv'
    <2>1. /\ inbox' \in Seq(Units) /\ notifier' \in Nat /\ available' \in Nat
          /\ reader' \in {"wait", "reset", "pop"} /\ ReaderInv'
      <3>1. CASE upload \in {"hello", "sign"}
        <4>1. Expected = 4 /\ Take(4)
          BY <3>1, SayEffect DEF Expected
        <4> QED BY <4>1, TakeUnits DEF LinkTypeOK
      <3>2. CASE upload \in {"data", "finish"}
        <4>1. UNCHANGED <<inbox, notifier, reader, available>> /\ reader = "wait"
          BY <3>2, SayEffect DEF ReaderInv, Expected
        <4> QED BY <4>1, ReaderKept DEF LinkTypeOK
      <3> QED BY <3>1, <3>2, SayEffect DEF Sending
    <2>2. up' \in [Conns -> Seq(Messages)]
      <3>1. up' = up \/ \E m \in Seq(Messages) : up' = [up EXCEPT ![attached] = m]
        <4>1. CASE up' = [up EXCEPT ![attached] = Append(up[attached], Message)] /\ attached # 0
          <5>1. Append(up[attached], Message) \in Seq(Messages)
            BY <1>1, <1>3, <4>1, ConnTypes, AppendProperties
          <5> QED BY <4>1, <5>1
        <4> QED BY <4>1, SayEffect
      <3> QED BY <3>1, ConnTypes, Zenon DEF LinkTypeOK
    <2> QED BY <2>1, <2>2, SayEffect DEF LinkTypeOK
  <1> QED BY <1>2, <1>5, <1>7, <1>8, <1>9

\* A nonce that is signed rightly was alone in the buffer, so nothing else can come
\* to the connection before the server's next answer.
LEMMA HelloChannel ==
    ASSUME TrackerInv, ChannelInv, SendOk \/ SendFails, upload = "hello" PROVE ChannelInv'
  <1> USE DEF ChannelInv
  <1>1. /\ UNCHANGED <<opens, attached, down, handler, serving, sessions, startedBy>>
        /\ \/ up' = up /\ (attached = 0 \/ handler[attached] = "ended" \/ upload' = "failed")
           \/ /\ attached # 0 /\ handler[attached] # "ended"
              /\ up' = [up EXCEPT ![attached] = Append(up[attached], Message)]
        /\ upload' # "failed" => upload' = IF Session.remote = NoRemote THEN "id" ELSE "data"
    BY SayEffect
  <1>2. /\ attached # 0 /\ attached \in Conns /\ attached \in Nat
        /\ handler[attached] \in {"handshake", "ended"}
        /\ serving[attached] = 0 /\ up[attached] = <<>>
        /\ inbox # <<>> /\ inbox[1][1] = "hello" /\ inbox[1][2] = attached => Len(inbox) = 4
    BY ConnTypes DEF HelloInv
  <1>3. /\ Len(inbox) \in Nat /\ Len(inbox) >= 4 /\ DOMAIN inbox = 1..Len(inbox)
        /\ Len(SubSeq(inbox, 1, 4)) = 4
        /\ \A i \in 1..4 : SubSeq(inbox, 1, 4)[i] = inbox[i]
        /\ DOMAIN inbox' = 1..(Len(inbox) - 4)
        /\ \A i \in DOMAIN inbox' : i + 4 \in DOMAIN inbox /\ inbox'[i] = inbox[i + 4]
        /\ inbox' = <<>> <=> Len(inbox) = 4
        /\ \A i \in DOMAIN inbox' : inbox'[i][1] = "hello"
    <2>1. Expected = 4 /\ Take(4)
      BY SayEffect DEF Expected
    <2> QED BY <2>1, TakeUnits
  <1>4. Message.kind = "hello" /\ Message.nonce = SubSeq(inbox, 1, 4)
        /\ Message.remote = Session.remote
    BY MessageTyped, SayEffect
  <1>5. \A c \in Conns : c # attached => up'[c] = up[c]
    BY SayQueue
  <1>6. \/ up'[attached] = <<>> /\ (handler[attached] = "ended" \/ upload' = "failed")
        \/ /\ handler[attached] = "handshake" /\ Len(up'[attached]) = 1
           /\ DOMAIN up'[attached] = {1} /\ up'[attached] # <<>> /\ up'[attached][1] = Message
    <2>1. CASE up'[attached] = up[attached]
      <3>1. attached = 0 \/ handler[attached] = "ended" \/ upload' = "failed"
        <4>1. CASE up' = [up EXCEPT ![attached] = Append(up[attached], Message)]
          <5>1. up'[attached] = Append(up[attached], Message)
            BY <1>2, <4>1, ConnTypes
          <5>2. Message \in Messages /\ <<>> \in Seq(Messages)
            BY MessageTyped, SayEffect, EmptySeq
          <5>3. Append(<<>>, Message) # <<>>
            BY <5>2, AppendProperties
          <5> QED BY <1>2, <2>1, <5>1, <5>3
        <4> QED BY <1>1, <4>1
      <3> QED BY <1>2, <2>1, <3>1
    <2>2. CASE /\ handler[attached] # "ended" /\ up'[attached] = Append(up[attached], Message)
               /\ Len(up'[attached]) = Len(up[attached]) + 1
      <3>1. Len(up'[attached]) = 1 /\ DOMAIN up'[attached] = 1..1
        BY <1>2, <2>2, SayQueue
      <3>2. up'[attached][1] = Message /\ up'[attached] # <<>>
        BY <1>2, <2>2, <3>1, SayQueue
      <3> QED BY <1>2, <2>2, <3>1, <3>2
    <2> QED BY <1>2, <2>1, <2>2, SayQueue
  <1>7. \A c \in Conns : c # attached => (Genuine(c)' <=> Genuine(c))
    BY <1>1, <1>5 DEF Genuine
  <1>8. ASSUME Genuine(attached)'
        PROVE  /\ inbox' = <<>> /\ down[attached] = <<>> /\ up'[attached] # <<>>
               /\ handler[attached] = "handshake"
    <2>1. handler[attached] = "handshake" /\ up'[attached] # <<>>
          /\ up'[attached][1].nonce = Nonce(attached, "hello")
      BY <1>1, <1>2, <1>8 DEF Genuine
    <2>2. inbox[1] = <<"hello", attached, 1>>
      <3>1. up'[attached][1] = Message
        BY <1>6, <2>1
      <3>2. SubSeq(inbox, 1, 4) = Nonce(attached, "hello")
        BY <1>4, <2>1, <3>1
      <3>3. attached \in Nat /\ Nonce(attached, "hello")[1] = <<"hello", attached, 1>>
        BY <1>2, NonceProperties
      <3>4. SubSeq(inbox, 1, 4)[1] = inbox[1]
        BY <1>3
      <3> QED BY <3>2, <3>3, <3>4
    <2>3. inbox # <<>> /\ 1 \in DOMAIN inbox
      BY <1>3, EmptySeq
    <2>4. down[attached] = <<>>
      BY <1>2, <2>2, <2>3 DEF DownInv, Coming
    <2> QED BY <1>2, <1>3, <2>1, <2>2, <2>3, <2>4
  <1>9. LinkTypeOK' /\ ReaderInv'
    BY SayQueue
  <1>10. HandlerInv'
    <2>1. \A c \in Conns : c = attached =>
            /\ \A i \in DOMAIN up'[c] : i = 1 /\ up'[c][i].kind = "hello"
                                        /\ handler[c] = "handshake"
            /\ handler[c] \in {"none", "ended"} => up'[c] = <<>>
      BY <1>2, <1>4, <1>6
    <2> QED BY <1>1, <1>2, <1>5, <2>1 DEF HandlerInv
  <1>11. InboxInv'
    <2>1. \A i \in DOMAIN inbox' : inbox'[i][1] = "hello" /\ inbox'[i][2] \in 1..opens
      BY <1>3 DEF InboxInv
    <2>2. Genuine(attached)' => DOMAIN inbox' = {}
      BY <1>8
    <2> QED BY <1>1, <2>1, <2>2 DEF InboxInv
  <1>12. DownInv'
    <2> SUFFICES ASSUME NEW c \in Conns, down[c] # <<>> PROVE c = attached /\ Coming(c)'
      BY <1>1 DEF DownInv
    <2>1. c = attached /\ Coming(c)
      BY DEF DownInv
    <2>2. /\ down[c] = << Nonce(c, "hello") >> /\ ~Genuine(c)
          /\ \A i \in DOMAIN inbox : inbox[i][1] = "hello" => inbox[i][2] # c
      BY <1>2, <2>1 DEF Coming
    <2>3. \A i \in DOMAIN inbox' : inbox'[i][1] = "hello" => inbox'[i][2] # c
      BY <1>3, <2>2
    <2>4. ~Genuine(c)' /\ down'[c] = << Nonce(c, "hello") >>
      BY <1>1, <1>8, <2>1, <2>2
    <2> QED BY <2>1, <2>3, <2>4 DEF Coming
  <1>13. AskInv'
    <2> SUFFICES ASSUME NEW c \in Conns, NEW i \in DOMAIN up'[c], Genuine(c)', Asks(up'[c][i])
                 PROVE  /\ i = Len(up'[c])
                        /\ c = attached => /\ inbox' = <<>> /\ down[c] = <<>>
                                           /\ Talking' => upload' = AnswerPc(up'[c][i])
      BY <1>1 DEF AskInv, AnswerPc
    <2>1. CASE c # attached
      BY <1>5, <1>7, <2>1 DEF AskInv
    <2>2. CASE c = attached
      <3>1. i = 1 /\ Len(up'[c]) = 1 /\ up'[c][i] = Message
        BY <1>6, <1>8, <2>2
      <3>2. Talking' => upload' = "id"
        BY <1>1, <1>4, <3>1 DEF Asks, Talking, InTalk
      <3>3. AnswerPc(up'[c][i]) = "id"
        BY <1>4, <3>1 DEF AnswerPc
      <3> QED BY <1>1, <1>8, <2>2, <3>1, <3>2, <3>3
    <2> QED BY <2>1, <2>2
  <1>14. HelloInv' /\ TalkInv'
    <2>1. upload' # "hello" /\ (Talking' => upload' # "failed")
      BY <1>1 DEF Talking, InTalk
    <2> QED BY <1>1, <1>2, <1>6, <2>1 DEF HelloInv, TalkInv
  <1> QED BY <1>9, <1>10, <1>11, <1>12, <1>13, <1>14

\* Once it talks, the actor has read every answer before it sends again: the buffer
\* is empty when the server of an accepted connection is asked something.
LEMMA SayChannel ==
    ASSUME TrackerInv, ChannelInv, SendOk \/ SendFails, upload \in {"data", "finish", "sign"}
    PROVE  ChannelInv'
  <1> USE DEF ChannelInv
  <1>1. /\ UNCHANGED <<opens, attached, down, handler, serving, sessions, startedBy>>
        /\ upload' # "failed" =>
             /\ upload = "data" => upload' = "data"
             /\ upload = "finish" => upload' = "sign"
             /\ upload = "sign" => upload' = "ack"
    BY SayEffect
  <1>2. Talking /\ (Talking' => upload' # "failed") /\ upload' # "hello"
    BY <1>1 DEF Talking, InTalk
  <1>3. attached # 0 =>
          /\ attached \in Conns /\ handler[attached] # "none"
          /\ handler[attached] = "handshake" => up[attached] # <<>>
          /\ handler[attached] = "finish" => upload = "sign"
    BY <1>2, ConnTypes DEF TalkInv
  <1>4. /\ Message.kind = upload
        /\ \A c \in Conns : c # attached => up'[c] = up[c]
    BY MessageTyped, SayEffect, SayQueue DEF Sending
  <1>5. \A i \in DOMAIN inbox' :
          /\ inbox'[i][1] = "hello" /\ inbox'[i][2] \in 1..opens
          /\ attached # 0 => ~Genuine(attached)
          /\ \E k \in DOMAIN inbox : inbox'[i] = inbox[k]
    <2>1. CASE upload \in {"data", "finish"}
      <3>1. inbox' = inbox
        BY <2>1, SayEffect
      <3>2. \A u : ~Awaits(u)
        BY <2>1 DEF Awaits
      <3> QED BY <1>2, <3>1, <3>2 DEF InboxInv
    <2>2. CASE upload = "sign"
      <3>1. \A i \in DOMAIN inbox' : /\ i + 4 \in DOMAIN inbox /\ inbox'[i] = inbox[i + 4]
                                     /\ inbox'[i][1] = "hello"
        BY <2>2, TakeUnits, SayEffect DEF Expected
      <3> QED BY <3>1 DEF InboxInv
    <2> QED BY <2>1, <2>2
  <1>6. ASSUME attached # 0, Genuine(attached)
        PROVE  /\ inbox' = <<>> /\ down[attached] = <<>>
               /\ \A i \in DOMAIN up[attached] : ~Asks(up[attached][i])
    <2>1. inbox' = <<>>
      <3>1. inbox' \in Seq(Units)
        BY SayQueue DEF LinkTypeOK
      <3>2. inbox' # <<>> => 1 \in DOMAIN inbox'
        BY <3>1, EmptySeq, LenProperties
      <3> QED BY <1>5, <1>6, <3>2
    <2>2. upload = "sign" => inbox # <<>>
      <3>1. ASSUME upload = "sign" PROVE Len(inbox) >= 4 /\ Len(inbox) \in Nat
        BY <3>1, TakeUnits, SayEffect DEF Expected
      <3> QED BY <3>1, EmptySeq
    <2>3. down[attached] = <<>>
      BY <1>2, <1>3, <1>6, <2>2 DEF DownInv, Coming
    <2>4. ASSUME NEW i \in DOMAIN up[attached], Asks(up[attached][i]) PROVE FALSE
      <3>1. inbox = <<>> /\ upload = AnswerPc(up[attached][i])
        BY <1>2, <1>3, <1>6, <2>4 DEF AskInv
      <3> QED BY <2>2, <3>1 DEF AnswerPc
    <2> QED BY <2>1, <2>3, <2>4
  <1>7. \A c \in Conns : Genuine(c)' <=> Genuine(c)
    <2> TAKE c \in Conns
    <2>1. CASE up'[c] = up[c]
      BY <1>1, <2>1 DEF Genuine
    <2>2. CASE /\ c = attached /\ handler[c] # "ended" /\ Len(up'[c]) = Len(up[c]) + 1
               /\ up[c] # <<>> => up'[c][1] = up[c][1]
      <3>1. c # 0
        BY ConnTypes
      <3>2. up'[c] # <<>>
        <4>1. Len(up[c]) \in Nat
          BY SayQueue
        <4>2. Len(up'[c]) # 0
          BY <2>2, <4>1
        <4> QED BY <4>2, EmptySeq
      <3> QED BY <1>1, <1>3, <2>2, <3>1, <3>2 DEF Genuine
    <2> QED BY <2>1, <2>2, SayQueue
  <1>8. LinkTypeOK' /\ ReaderInv'
    BY SayQueue
  <1>9. HandlerInv'
    <2> SUFFICES ASSUME NEW c \in Conns
                 PROVE  /\ handler[c] \in {"none", "ended"} => up'[c] = <<>>
                        /\ \A i \in DOMAIN up'[c] :
                             up'[c][i].kind = "hello" <=> i = 1 /\ handler[c] = "handshake"
                        /\ handler[c] = "finish" =>
                             \A i \in DOMAIN up'[c] : up'[c][i].kind = "sign"
      BY <1>1 DEF HandlerInv
    <2>1. CASE up'[c] = up[c]
      BY <2>1 DEF HandlerInv
    <2>2. CASE up'[c] # up[c]
      <3>1. c = attached /\ handler[c] \notin {"none", "ended"} /\ c # 0
        BY <1>3, <2>2, SayQueue, ConnTypes
      <3>2. ASSUME NEW i \in DOMAIN up'[c]
            PROVE  /\ up'[c][i].kind = "hello" <=> i = 1 /\ handler[c] = "handshake"
                   /\ handler[c] = "finish" => up'[c][i].kind = "sign"
        <4>1. CASE i \in DOMAIN up[c] /\ up'[c][i] = up[c][i]
          BY <4>1 DEF HandlerInv
        <4>2. CASE i = Len(up[c]) + 1 /\ up'[c][i] = Message
          <5>1. up'[c][i].kind # "hello" /\ (handler[c] = "finish" => up'[c][i].kind = "sign")
            BY <1>3, <1>4, <3>1, <4>2
          <5>2. handler[c] = "handshake" => Len(up[c]) # 0 /\ Len(up[c]) \in Nat
            BY <1>3, <3>1, SayQueue
          <5> QED BY <4>2, <5>1, <5>2
        <4> QED BY <4>1, <4>2, SayQueue
      <3> QED BY <3>1, <3>2
    <2> QED BY <2>1, <2>2
  <1>10. InboxInv'
    BY <1>1, <1>5, <1>7, ConnTypes DEF InboxInv
  <1>11. DownInv'
    <2> SUFFICES ASSUME NEW c \in Conns, down[c] # <<>> PROVE c = attached /\ Coming(c)'
      BY <1>1 DEF DownInv
    <2>1. c = attached /\ Coming(c) /\ c # 0
      BY ConnTypes DEF DownInv
    <2>2. ~Genuine(c)
      BY <1>6, <2>1
    <2>3. /\ down[c] = << Nonce(c, "hello") >>
          /\ \A i \in DOMAIN inbox : inbox[i][1] = "hello" => inbox[i][2] # c
      BY <2>1, <2>2 DEF Coming, Genuine
    <2>4. \A i \in DOMAIN inbox' : inbox'[i][1] = "hello" => inbox'[i][2] # c
      BY <1>5, <2>3
    <2>5. ~Genuine(c)' /\ down'[c] = << Nonce(c, "hello") >>
      BY <1>1, <1>7, <2>2, <2>3
    <2> QED BY <2>1, <2>4, <2>5 DEF Coming
  <1>12. AskInv'
    <2> SUFFICES ASSUME NEW c \in Conns, NEW i \in DOMAIN up'[c], Genuine(c), Asks(up'[c][i])
                 PROVE  /\ i = Len(up'[c])
                        /\ c = attached => /\ inbox' = <<>> /\ down[c] = <<>>
                                           /\ Talking' => upload' = AnswerPc(up'[c][i])
      BY <1>1, <1>7 DEF AskInv, AnswerPc
    <2>1. CASE c # attached
      BY <1>4, <2>1 DEF AskInv
    <2>2. CASE c = attached
      <3>1. /\ c # 0 /\ inbox' = <<>> /\ down[c] = <<>>
            /\ \A k \in DOMAIN up[c] : ~Asks(up[c][k])
        BY <1>6, <2>2, ConnTypes
      <3>2. i = Len(up'[c]) /\ up'[c][i] = Message
        BY <3>1, SayQueue
      <3>3. Talking' => upload' = AnswerPc(Message)
        BY <1>1, <1>2, <1>4, <3>2 DEF AnswerPc, Asks
      <3> QED BY <3>1, <3>2, <3>3
    <2> QED BY <2>1, <2>2
  <1>13. HelloInv' /\ TalkInv'
    <2>1. HelloInv'
      BY <1>2 DEF HelloInv
    <2>2. attached # 0 /\ up[attached] # <<>> => up'[attached] # <<>>
      <3> SUFFICES ASSUME attached # 0, up[attached] # <<>> PROVE up'[attached] # <<>>
        OBVIOUS
      <3>1. Len(up[attached]) \in Nat \ {0} /\ Len(up'[attached]) \in Nat
        BY <1>3, SayQueue
      <3>2. Len(up'[attached]) # 0
        BY <1>3, <3>1, SayQueue
      <3> QED BY <3>2, EmptySeq
    <2>3. Talking' => upload' \in {"data", "sign", "ack"}
      BY <1>1, <1>2
    <2>4. handler[attached] = "finish" /\ attached # 0 /\ Talking' => upload' = "ack"
      BY <1>1, <1>2, <1>3
    <2> QED BY <1>1, <1>3, <2>1, <2>2, <2>3, <2>4 DEF TalkInv
  <1> QED BY <1>8, <1>9, <1>10, <1>11, <1>12, <1>13

\* The answer read is the one awaited: no other is behind it.
LEMMA ReadChannel ==
    ASSUME ChannelInv, NEW n \in {1, 2}, Take(n),
           \/ n = 2 /\ upload = "id" /\ upload' = "saveId"
           \/ n = 1 /\ upload = "ack" /\ upload' \in {"saveFinish", "failed"},
           UNCHANGED <<opens, attached, up, down, handler, serving, sessions, startedBy>>
    PROVE  ChannelInv'
  <1> USE DEF ChannelInv
  <1>1. Talking
    BY DEF Talking, InTalk
  <1>2. /\ inbox \in Seq(Units) /\ Len(inbox) \in Nat /\ Len(inbox) >= n
        /\ notifier' = notifier /\ available' = available /\ reader' = "wait" /\ ReaderInv'
        /\ inbox' \in Seq(Units) /\ Len(inbox') = Len(inbox) - n
        /\ DOMAIN inbox' = 1..(Len(inbox) - n)
        /\ \A i \in DOMAIN inbox' : i + n \in DOMAIN inbox /\ inbox'[i] = inbox[i + n]
        /\ inbox # <<>>
    <2>1. n = Expected
      BY DEF Expected
    <2> QED BY <2>1, TakeUnits, EmptySeq
  <1>3. \A i \in DOMAIN inbox' : inbox'[i][1] = "hello" /\ inbox'[i][2] \in 1..opens
                                 /\ (attached # 0 => ~Genuine(attached))
    <2> SUFFICES ASSUME NEW i \in DOMAIN inbox', inbox[i + n][1] # "hello" PROVE FALSE
      BY <1>2 DEF InboxInv
    <2>1. Awaits(inbox[i + n]) /\ inbox[i + n][3] = i + n /\ i > 0 /\ i \in Nat
      BY <1>1, <1>2 DEF InboxInv
    <2>2. CASE n = 2 /\ upload = "id"
      <3>1. attached \in Conns /\ inbox[i + n] \in Members(SessionId(serving[attached]))
        BY <2>1, <2>2, ConnTypes DEF Awaits
      <3>2. serving[attached] \in Nat
        BY <3>1, LenProperties DEF LinkTypeOK
      <3>3. DOMAIN SessionId(serving[attached]) = 1..2
        BY DEF SessionId
      <3>4. inbox[i + n][3] \in 1..2
        BY <3>1, <3>2, <3>3, SessionIdProperties DEF Members
      <3> QED BY <2>1, <2>2, <3>4
    <2>3. CASE n = 1 /\ upload = "ack"
      <3>1. inbox[i + n] = <<"one", 0, 1>>
        BY <2>1, <2>3, ConfirmationProperties DEF Awaits
      <3> QED BY <2>1, <2>3, <3>1
    <2> QED BY <2>2, <2>3
  <1>4. ASSUME attached # 0, Genuine(attached)
        PROVE  /\ inbox' = <<>> /\ down[attached] = <<>>
               /\ \A i \in DOMAIN up[attached] : ~Asks(up[attached][i])
    <2>1. inbox' # <<>> => 1 \in DOMAIN inbox'
      BY <1>2, EmptySeq, LenProperties
    <2>2. down[attached] = <<>>
      BY <1>2, <1>4, ConnTypes DEF DownInv, Coming
    <2> QED BY <1>2, <1>3, <1>4, <2>1, <2>2, ConnTypes DEF AskInv
  <1>5. \A c : Genuine(c)' <=> Genuine(c)
    BY DEF Genuine
  <1>6. LinkTypeOK' /\ HandlerInv' /\ ReaderInv'
    BY <1>2 DEF LinkTypeOK, HandlerInv
  <1>7. InboxInv'
    BY <1>3, <1>5 DEF InboxInv
  <1>8. DownInv'
    <2> SUFFICES ASSUME NEW c \in Conns, down[c] # <<>> PROVE c = attached /\ Coming(c)'
      BY DEF DownInv
    <2>1. c = attached /\ Coming(c) /\ c # 0
      BY ConnTypes DEF DownInv
    <2>2. /\ down[c] = << Nonce(c, "hello") >> /\ ~Genuine(c)
          /\ \A i \in DOMAIN inbox : inbox[i][1] = "hello" => inbox[i][2] # c
      BY <1>2, <2>1 DEF Coming
    <2>3. \A i \in DOMAIN inbox' : inbox'[i][1] = "hello" => inbox'[i][2] # c
      BY <1>2, <2>2
    <2> QED BY <1>5, <2>1, <2>2, <2>3 DEF Coming
  <1>9. AskInv'
    <2> SUFFICES ASSUME NEW c \in Conns, NEW i \in DOMAIN up[c], Genuine(c), Asks(up[c][i])
                 PROVE  i = Len(up[c]) /\ c # attached
      BY <1>5 DEF AskInv
    <2>1. c # 0
      BY ConnTypes
    <2> QED BY <1>4, <2>1 DEF AskInv
  <1>10. HelloInv' /\ TalkInv'
    BY <1>1 DEF HelloInv, TalkInv, Talking, InTalk
  <1> QED BY <1>6, <1>7, <1>8, <1>9, <1>10

\* The actor lets go of the connection, where it has nothing to wait for.
LEMMA DetachChannel ==
    ASSUME ChannelInv, Detach, upload \notin {"hello", "id", "sign", "ack"}, upload' # "hello",
           Talking' => Talking,
           UNCHANGED <<opens, inbox, notifier, reader, available, up, handler, serving, sessions, startedBy>>
    PROVE  ChannelInv'
  <1> USE DEF ChannelInv
  <1>1. attached' = 0 /\ \A c \in Conns : down'[c] = <<>>
    BY ConnTypes DEF Detach, DownInv
  <1>2. \A c : Genuine(c)' <=> Genuine(c)
    BY DEF Genuine
  <1>3. LinkTypeOK' /\ HandlerInv' /\ ReaderInv'
    <2>1. down' \in [Conns -> Seq(Seq(Units))]
      <3>1. <<>> \in Seq(Seq(Units))
        BY EmptySeq
      <3> QED BY <3>1, ConnTypes, Zenon DEF LinkTypeOK, Detach
    <2>2. ReaderInv'
      <3>1. reader = "wait"
        BY DEF ReaderInv, Expected
      <3> QED BY <3>1, ReaderKept
    <2> QED BY <1>1, <2>1, <2>2, ConnTypes DEF LinkTypeOK, HandlerInv
  <1>4. InboxInv'
    <2>1. \A u : ~Awaits(u)
      BY DEF Awaits
    <2> QED BY <1>1, <2>1 DEF InboxInv
  <1>5. DownInv' /\ HelloInv' /\ TalkInv'
    BY <1>1 DEF DownInv, HelloInv, TalkInv
  <1>6. AskInv'
    BY <1>1, <1>2, ConnTypes DEF AskInv
  <1> QED BY <1>3, <1>4, <1>5, <1>6

LEMMA AnswerChannel ==
    ASSUME ChannelInv, IdRead \/ AnswerRead \/ Finished \/ PassEnds PROVE ChannelInv'
  <1>1. CASE IdRead
    <2>1. Take(2) /\ upload = "id" /\ upload' = "saveId"
          /\ UNCHANGED <<opens, attached, up, down, handler, serving, sessions, startedBy>>
      BY <1>1 DEF IdRead, IdOk, serverVars
    <2> QED BY <2>1, ReadChannel
  <1>2. CASE AnswerRead
    <2>1. Take(1) /\ upload = "ack" /\ upload' \in {"saveFinish", "failed"}
          /\ UNCHANGED <<opens, attached, up, down, handler, serving, sessions, startedBy>>
      BY <1>2 DEF AnswerRead, AckOk, LinkFails, Fail, serverVars
    <2> QED BY <2>1, ReadChannel
  <1>3. CASE Finished
    <2>1. Detach /\ upload = "saveFinish" /\ upload' = "next" /\ Talking
          /\ UNCHANGED <<opens, inbox, notifier, reader, available, up, handler, serving, sessions, startedBy>>
      BY <1>3 DEF Finished, SaveFinish, bufferVars, serverVars, Talking, InTalk
    <2> QED BY <2>1, DetachChannel
  <1>4. CASE PassEnds
    <2>1. /\ upload = "passed" /\ upload' \in {"wait", "done"} /\ UNCHANGED connected
          /\ UNCHANGED <<opens, inbox, notifier, reader, available, up, handler, serving, sessions, startedBy>>
          /\ IF upload' = "done" THEN Detach ELSE UNCHANGED <<attached, down>>
      BY <1>4 DEF PassEnds, EndPass, EndPassWith, bufferVars, serverVars
    <2>2. Talking' => Talking
      BY <2>1 DEF Talking, InTalk
    <2>3. CASE Detach
      BY <2>1, <2>2, <2>3, DetachChannel
    <2>4. CASE UNCHANGED <<attached, down>>
      <3>1. reader = "wait"
        BY <2>1 DEF ChannelInv, ReaderInv, Expected
      <3>2. /\ ReaderInv' /\ notifier' \in Nat /\ available' \in Nat
            /\ reader' \in {"wait", "reset", "pop"}
        BY <2>1, <3>1, ReaderKept DEF ChannelInv, LinkTypeOK
      <3> QED BY <2>1, <2>2, <2>4, <3>2, QuietChannel DEF serverVars
    <2> QED BY <2>1, <2>3, <2>4
  <1> QED BY <1>1, <1>2, <1>3, <1>4

-----------------------------------------------------------------------------
\* The server serves

\* read_exact of one message: the rest moves up.
LEMMA HeadRead ==
    ASSUME LinkTypeOK, NEW c \in Conns, up[c] # <<>>
    PROVE  /\ up[c] \in Seq(Messages) /\ DOMAIN up[c] = 1..Len(up[c])
           /\ Len(up[c]) \in Nat \ {0} /\ 1 \in DOMAIN up[c]
           /\ Head(up[c]) = up[c][1] /\ up[c][1] \in Messages
           /\ Tail(up[c]) \in Seq(Messages)
           /\ DOMAIN Tail(up[c]) = 1..Len(Tail(up[c])) /\ Len(Tail(up[c])) = Len(up[c]) - 1
           /\ Len(up[c]) = 1 => Tail(up[c]) = <<>>
           /\ \A i \in DOMAIN Tail(up[c]) : /\ i + 1 \in DOMAIN up[c]
                                            /\ Tail(up[c])[i] = up[c][i + 1]
                                            /\ i + 1 = Len(up[c]) => i = Len(Tail(up[c]))
                                            /\ i \in Nat \ {0}
  <1>1. up[c] \in Seq(Messages)
    BY DEF LinkTypeOK
  <1>2. DOMAIN up[c] = 1..Len(up[c]) /\ Len(up[c]) \in Nat \ {0}
    BY <1>1, LenProperties, EmptySeq
  <1>3. /\ Tail(up[c]) \in Seq(Messages) /\ Head(up[c]) = up[c][1]
        /\ Len(Tail(up[c])) = Len(up[c]) - 1
        /\ \A i \in 1..Len(Tail(up[c])) : Tail(up[c])[i] = up[c][i + 1]
    BY <1>1, <1>2, HeadTailProperties
  <1>4. DOMAIN Tail(up[c]) = 1..Len(Tail(up[c]))
    BY <1>3, LenProperties
  <1>5. up[c][1] \in Messages /\ 1 \in DOMAIN up[c]
    BY <1>1, <1>2, ElementOfSeq
  <1>6. Len(up[c]) = 1 => Tail(up[c]) = <<>>
    <2>1. Tail(up[c]) = <<>> <=> Len(Tail(up[c])) = 0
      BY <1>3, EmptySeq
    <2> QED BY <1>2, <1>3, <2>1
  <1> DEFINE n == Len(up[c])
             m == Len(Tail(up[c]))
  <1>7. n \in Nat /\ m = n - 1 /\ DOMAIN up[c] = 1..n /\ DOMAIN Tail(up[c]) = 1..m
    BY <1>2, <1>3, <1>4
  <1> HIDE DEF n, m
  <1>8. \A i \in 1..m : i + 1 \in 1..n /\ (i + 1 = n => i = m) /\ i \in Nat \ {0}
    BY <1>7
  <1>9. \A i \in DOMAIN Tail(up[c]) : /\ i + 1 \in DOMAIN up[c]
                                      /\ i + 1 = Len(up[c]) => i = Len(Tail(up[c]))
                                      /\ i \in Nat \ {0}
    BY <1>7, <1>8 DEF n, m
  <1> QED BY <1>1, <1>2, <1>3, <1>4, <1>5, <1>6, <1>9

\* The answer that the server gives to a question.
Answers(c, m, answer) ==
    CASE m.kind = "hello" -> answer = SessionId(serving'[c])
      [] m.kind = "finish" -> answer = Nonce(c, "finish")
      [] OTHER -> answer = Confirmation /\ Closed(serving[c])'

\* An accepting server reads the next message.  If it is a question, then it was the
\* last thing the tracker has said, which waits with an empty buffer.
LEMMA GoesChannel ==
    ASSUME ChannelInv, NEW c \in Conns, NEW h \in {"serve", "finish", "ended"},
           NEW answer \in Seq(Units), up[c] # <<>>, Genuine(c),
           handler' = [handler EXCEPT ![c] = h], handler[c] # "none",
           up' = [up EXCEPT ![c] = Tail(up[c])],
           h = "serve" \/ Asks(Head(up[c])), h = "finish" <=> Head(up[c]).kind = "finish",
           serving' \in [Conns -> {0} \cup DOMAIN sessions'], serving'[c] # 0,
           serving[c] # 0 => serving'[c] = serving[c],
           \A d \in Conns : d # c => serving'[d] = serving[d],
           sessions' \in Seq([live : BOOLEAN, points : Seq(Points)]),
           startedBy' \in Seq(LocalIds), Len(startedBy') = Len(sessions'),
           \A id : Closed(id) => Closed(id)',
           IF Asks(Head(up[c])) /\ c = attached
           THEN /\ down' = [down EXCEPT ![c] = Append(down[c], answer)]
                /\ Answers(c, Head(up[c]), answer)
           ELSE down' = down,
           UNCHANGED <<opens, attached, inbox, notifier, reader, available, upload, connected>>
    PROVE  ChannelInv'
  <1> USE DEF ChannelInv
  <1>1. /\ up[c] \in Seq(Messages) /\ DOMAIN up[c] = 1..Len(up[c])
        /\ Len(up[c]) \in Nat \ {0} /\ 1 \in DOMAIN up[c]
        /\ Head(up[c]) = up[c][1] /\ up[c][1] \in Messages
        /\ Tail(up[c]) \in Seq(Messages)
        /\ DOMAIN Tail(up[c]) = 1..Len(Tail(up[c])) /\ Len(Tail(up[c])) = Len(up[c]) - 1
        /\ Len(up[c]) = 1 => Tail(up[c]) = <<>>
        /\ \A i \in DOMAIN Tail(up[c]) : /\ i + 1 \in DOMAIN up[c]
                                         /\ Tail(up[c])[i] = up[c][i + 1]
                                         /\ i + 1 = Len(up[c]) => i = Len(Tail(up[c]))
                                         /\ i \in Nat \ {0}
    BY HeadRead
  <1>2. /\ c \in Nat \ {0} /\ handler'[c] = h /\ up'[c] = Tail(up[c])
        /\ \A d \in Conns : d # c => /\ handler'[d] = handler[d] /\ up'[d] = up[d]
                                     /\ down'[d] = down[d]
        /\ c # attached => down' = down
    BY ConnTypes
  <1>3. Asks(Head(up[c])) =>
          /\ Len(up[c]) = 1 /\ up'[c] = <<>>
          /\ c = attached => /\ inbox = <<>> /\ down[c] = <<>>
                             /\ Talking => upload = AnswerPc(Head(up[c]))
    <2>1. Asks(up[c][1]) =>
            /\ 1 = Len(up[c])
            /\ c = attached => /\ inbox = <<>> /\ down[c] = <<>>
                               /\ Talking => upload = AnswerPc(up[c][1])
      BY <1>1 DEF AskInv
    <2> QED BY <1>1, <1>2, <2>1
  <1>4. \A d \in Conns : Genuine(d)' <=> Genuine(d)
    BY <1>2 DEF Genuine
  <1>5. Talking' <=> Talking
    BY DEF Talking, InTalk
  <1>6. ~Asks(Head(up[c])) \/ c # attached => down' = down
    OBVIOUS
  <1>7. Asks(Head(up[c])) /\ c = attached =>
          down'[c] = <<answer>> /\ Answers(c, Head(up[c]), answer)
    <2> SUFFICES ASSUME Asks(Head(up[c])), c = attached
                 PROVE  down'[c] = <<answer>> /\ Answers(c, Head(up[c]), answer)
      OBVIOUS
    <2>1. down'[c] = Append(down[c], answer) /\ Answers(c, Head(up[c]), answer)
      BY ConnTypes
    <2>2. down[c] = <<>>
      BY <1>3
    <2>3. Append(<<>>, answer) = <<answer>>
      OBVIOUS
    <2> QED BY <2>1, <2>2, <2>3
  <1>8. LinkTypeOK'
    <2>1. up' \in [Conns -> Seq(Messages)]
      BY <1>1, Zenon DEF LinkTypeOK
    <2>2. down' \in [Conns -> Seq(Seq(Units))]
      <3>1. Append(down[c], answer) \in Seq(Seq(Units))
        BY AppendProperties DEF LinkTypeOK
      <3> QED BY <3>1, Zenon DEF LinkTypeOK
    <2>3. handler' \in [Conns -> Handlers]
      BY DEF LinkTypeOK, Handlers
    <2> QED BY <2>1, <2>2, <2>3 DEF LinkTypeOK
  <1>9. HandlerInv' /\ ReaderInv'
    <2>1. c <= opens
      BY <1>2, ConnTypes DEF HandlerInv
    <2>2. ASSUME NEW i \in DOMAIN up'[c] PROVE up'[c][i].kind # "hello"
      <3>1. \A k \in DOMAIN up[c] : up[c][k].kind = "hello" => k = 1
        BY DEF HandlerInv
      <3>2. i + 1 \in DOMAIN up[c] /\ up'[c][i] = up[c][i + 1] /\ i \in Nat \ {0}
        BY <1>1, <1>2
      <3> QED BY <3>1, <3>2
    <2>3. h \in {"finish", "ended"} => up'[c] = <<>> /\ DOMAIN up'[c] = {}
      <3>1. Asks(Head(up[c])) => up'[c] = <<>> /\ DOMAIN up'[c] = {}
        BY <1>3
      <3> QED BY <3>1
    <2>4. ReaderInv'
      BY ReaderKept
    <2> QED BY <1>2, <2>1, <2>2, <2>3, <2>4, ConnTypes DEF HandlerInv
  <1>10. InboxInv'
    <2>1. ASSUME NEW u, Awaits(u) PROVE Awaits(u)'
      <3>1. attached \in Conns /\ serving'[attached] = serving[attached]
        BY <2>1, ConnTypes DEF Awaits
      <3> QED BY <2>1, <3>1 DEF Awaits
    <2> QED BY <1>4, <1>5, <2>1, ConnTypes DEF InboxInv
  <1>11. DownInv'
    <2> SUFFICES ASSUME NEW d \in Conns, down'[d] # <<>> PROVE d = attached /\ Coming(d)'
      BY DEF DownInv
    <2>1. CASE down'[d] = down[d] /\ serving'[d] = serving[d]
      <3>1. d = attached /\ Coming(d)
        BY <2>1 DEF DownInv
      <3> QED BY <1>4, <1>5, <2>1, <3>1 DEF Coming
    <2>2. CASE d = c /\ ~(Asks(Head(up[c])) /\ c = attached)
      <3>1. down'[d] = down[d] /\ c = attached /\ Coming(c)
        BY <2>2 DEF DownInv
      <3>2. serving[c] # 0
        BY <3>1 DEF Coming
      <3> QED BY <2>1, <2>2, <3>1, <3>2
    <2>3. CASE d = c /\ Asks(Head(up[c])) /\ c = attached
      BY <1>3, <1>5, <1>7, <2>3 DEF Coming, Answers, AnswerPc, Asks
    <2> QED BY <1>2, <2>1, <2>2, <2>3
  <1>12. AskInv'
    <2> SUFFICES ASSUME NEW d \in Conns, NEW i \in DOMAIN up'[d], Genuine(d), Asks(up'[d][i])
                 PROVE  /\ i = Len(up'[d])
                        /\ d = attached => /\ inbox = <<>> /\ down'[d] = <<>>
                                           /\ Talking => upload = AnswerPc(up'[d][i])
      BY <1>4, <1>5 DEF AskInv, AnswerPc
    <2>1. CASE d # c
      <3>1. up'[d] = up[d] /\ down'[d] = down[d]
        BY <1>2, <2>1
      <3> QED BY <3>1 DEF AskInv
    <2>2. CASE d = c
      <3>1. /\ i + 1 \in DOMAIN up[c] /\ up'[c][i] = up[c][i + 1]
            /\ i + 1 = Len(up[c]) => i = Len(up'[c])
        BY <1>1, <1>2, <2>2
      <3>2. ~Asks(Head(up[c]))
        BY <1>3, <2>2
      <3> QED BY <1>6, <2>2, <3>1, <3>2 DEF AskInv
    <2> QED BY <2>1, <2>2
  <1>13. HelloInv' /\ TalkInv'
    <2>1. HelloInv'
      BY <1>2, ConnTypes DEF HelloInv
    <2>2. h = "finish" /\ c = attached /\ Talking => upload = "sign"
      BY <1>3 DEF AnswerPc, Asks
    <2> QED BY <1>2, <1>5, <2>1, <2>2, ConnTypes DEF TalkInv
  <1> QED BY <1>8, <1>9, <1>10, <1>11, <1>12, <1>13

\* The message at the head belongs where the task is.
LEMMA HeadFits ==
    ASSUME ChannelInv, NEW c \in Conns, up[c] # <<>>
    PROVE  /\ Head(up[c]) \in Messages
           /\ Head(up[c]).kind = "hello" <=> handler[c] = "handshake"
           /\ handler[c] = "handshake" =>
                /\ serving[c] = 0 /\ Head(up[c]).local \in LocalIds
                /\ Genuine(c) <=> Head(up[c]).nonce = Nonce(c, "hello")
           /\ handler[c] = "finish" => Head(up[c]).kind = "sign"
           /\ handler[c] \in {"serve", "finish"} =>
                serving[c] \in DOMAIN sessions /\ serving[c] # 0 /\ Genuine(c)
           /\ Head(up[c]).kind = "data" => Head(up[c]).points \in Seq(Points)
  <1>1. Head(up[c]) = up[c][1] /\ up[c][1] \in Messages /\ 1 \in DOMAIN up[c]
    BY HeadRead DEF ChannelInv
  <1>2. /\ up[c][1].kind = "hello" <=> handler[c] = "handshake"
        /\ handler[c] = "finish" => up[c][1].kind = "sign"
        /\ serving[c] # 0 => handler[c] # "handshake"
        /\ handler[c] \in {"serve", "finish"} => serving[c] # 0
    BY <1>1 DEF ChannelInv, HandlerInv
  <1>3. /\ up[c][1].kind = "hello" => up[c][1].local \in LocalIds
        /\ up[c][1].kind = "data" => up[c][1].points \in Seq(Points)
    BY <1>1 DEF Messages
  <1>4. serving[c] \in {0} \cup DOMAIN sessions
    BY DEF ChannelInv, LinkTypeOK
  <1> QED BY <1>1, <1>2, <1>3, <1>4 DEF Genuine

\* What an operation of the store leaves: the types, and what has ended.
LEMMA StoreTyped ==
    ASSUME ChannelInv
    PROVE  /\ Len(sessions) \in Nat /\ DOMAIN sessions = 1..Len(sessions)
           /\ \A local \in LocalIds :
                Store!Register /\ startedBy' = Append(startedBy, local) =>
                /\ sessions' \in Seq([live : BOOLEAN, points : Seq(Points)])
                /\ Len(sessions') = Len(sessions) + 1 /\ Len(startedBy') = Len(sessions')
                /\ startedBy' \in Seq(LocalIds) /\ DOMAIN sessions' = 1..Len(sessions')
                /\ \A id \in DOMAIN sessions : /\ sessions'[id] = sessions[id]
                                               /\ startedBy'[id] = startedBy[id]
                /\ sessions'[Len(sessions')] = [live |-> TRUE, points |-> <<>>]
                /\ startedBy'[Len(sessions')] = local
           /\ \A id \in DOMAIN sessions, batch \in Seq(Points) :
                Store!AppendPoints(id, batch) =>
                /\ sessions' \in Seq([live : BOOLEAN, points : Seq(Points)])
                /\ Len(sessions') = Len(sessions) /\ DOMAIN sessions' = DOMAIN sessions
                /\ sessions[id].points \in Seq(Points)
                /\ sessions'[id].points = sessions[id].points \o batch
                /\ \A k \in DOMAIN sessions : /\ sessions'[k].live = sessions[k].live
                                              /\ k # id => sessions'[k] = sessions[k]
           /\ \A id \in DOMAIN sessions :
                Store!End(id) =>
                /\ sessions' \in Seq([live : BOOLEAN, points : Seq(Points)])
                /\ Len(sessions') = Len(sessions) /\ DOMAIN sessions' = DOMAIN sessions
                /\ ~sessions'[id].live
                /\ \A k \in DOMAIN sessions : /\ sessions'[k].points = sessions[k].points
                                              /\ k # id => sessions'[k] = sessions[k]
  <1> DEFINE Records == [live : BOOLEAN, points : Seq(Points)]
  <1>1. /\ sessions \in Seq(Records) /\ Len(sessions) \in Nat /\ DOMAIN sessions = 1..Len(sessions)
        /\ startedBy \in Seq(LocalIds) /\ Len(startedBy) = Len(sessions)
        /\ DOMAIN startedBy = 1..Len(startedBy)
    BY LenProperties DEF ChannelInv, LinkTypeOK
  <1>2. \A id \in DOMAIN sessions : sessions[id] \in Records
    BY <1>1, ElementOfSeq
  <1>3. ASSUME NEW local \in LocalIds, Store!Register, startedBy' = Append(startedBy, local)
        PROVE  /\ sessions' \in Seq(Records)
               /\ Len(sessions') = Len(sessions) + 1 /\ Len(startedBy') = Len(sessions')
               /\ startedBy' \in Seq(LocalIds) /\ DOMAIN sessions' = 1..Len(sessions')
               /\ \A id \in DOMAIN sessions : /\ sessions'[id] = sessions[id]
                                              /\ startedBy'[id] = startedBy[id]
               /\ sessions'[Len(sessions')] = [live |-> TRUE, points |-> <<>>]
               /\ startedBy'[Len(sessions')] = local
    <2> DEFINE new == [live |-> TRUE, points |-> <<>>]
    <2>1. sessions' = Append(sessions, new)
      BY <1>3 DEF Store!Register
    <2>2. new \in Records
      BY EmptySeq
    <2> HIDE DEF new, Records
    <2>3. /\ sessions' \in Seq(Records) /\ Len(sessions') = Len(sessions) + 1
          /\ \A id \in 1..Len(sessions) : sessions'[id] = sessions[id]
          /\ sessions'[Len(sessions) + 1] = new
      BY <1>1, <2>1, <2>2, AppendProperties
    <2>4. /\ startedBy' \in Seq(LocalIds) /\ Len(startedBy') = Len(startedBy) + 1
          /\ \A id \in 1..Len(startedBy) : startedBy'[id] = startedBy[id]
          /\ startedBy'[Len(startedBy) + 1] = local
      BY <1>1, <1>3, AppendProperties
    <2>5. DOMAIN sessions' = 1..Len(sessions')
      BY <2>3, LenProperties
    <2> QED BY <1>1, <2>3, <2>4, <2>5 DEF new
  <1>4. ASSUME NEW id \in DOMAIN sessions, NEW batch \in Seq(Points),
               Store!AppendPoints(id, batch)
        PROVE  /\ sessions' \in Seq(Records)
               /\ Len(sessions') = Len(sessions) /\ DOMAIN sessions' = DOMAIN sessions
               /\ sessions[id].points \in Seq(Points)
               /\ sessions'[id].points = sessions[id].points \o batch
               /\ \A k \in DOMAIN sessions : /\ sessions'[k].live = sessions[k].live
                                             /\ k # id => sessions'[k] = sessions[k]
    <2>1. sessions[id].points \in Seq(Points)
      BY <1>2
    <2>2. sessions' = [sessions EXCEPT ![id].points = sessions[id].points \o batch]
      BY <1>4 DEF Store!AppendPoints
    <2>3. sessions' = [sessions EXCEPT ![id] =
                          [sessions[id] EXCEPT !.points = sessions[id].points \o batch]]
      BY <2>2
    <2>4. sessions[id].points \o batch \in Seq(Points)
      BY <2>1, ConcatProperties
    <2> DEFINE record == [sessions[id] EXCEPT !.points = sessions[id].points \o batch]
    <2>5. /\ record \in Records /\ record.points = sessions[id].points \o batch
          /\ record.live = sessions[id].live
      BY <1>2, <2>4
    <2> HIDE DEF record, Records
    <2>6. sessions' \in Seq(Records) /\ Len(sessions') = Len(sessions)
      BY <1>1, <2>3, <2>5, ExceptSeq DEF record
    <2>7. sessions'[id] = record /\ \A k \in DOMAIN sessions : k # id => sessions'[k] = sessions[k]
      BY <2>3 DEF record
    <2>8. DOMAIN sessions' = DOMAIN sessions
      BY <2>3
    <2> QED BY <2>1, <2>5, <2>6, <2>7, <2>8
  <1>5. ASSUME NEW id \in DOMAIN sessions, Store!End(id)
        PROVE  /\ sessions' \in Seq(Records)
               /\ Len(sessions') = Len(sessions) /\ DOMAIN sessions' = DOMAIN sessions
               /\ ~sessions'[id].live
               /\ \A k \in DOMAIN sessions : /\ sessions'[k].points = sessions[k].points
                                             /\ k # id => sessions'[k] = sessions[k]
    <2>1. sessions' = [sessions EXCEPT ![id].live = FALSE]
      BY <1>5 DEF Store!End
    <2> DEFINE record == [sessions[id] EXCEPT !.live = FALSE]
    <2>2. sessions' = [sessions EXCEPT ![id] = record]
      BY <2>1
    <2>3. record \in Records /\ record.points = sessions[id].points /\ ~record.live
      BY <1>2
    <2> HIDE DEF record, Records
    <2>4. sessions' \in Seq(Records) /\ Len(sessions') = Len(sessions)
      BY <1>1, <2>2, <2>3, ExceptSeq
    <2>5. sessions'[id] = record /\ \A k \in DOMAIN sessions : k # id => sessions'[k] = sessions[k]
      BY <2>2
    <2>6. DOMAIN sessions' = DOMAIN sessions
      BY <2>2
    <2> QED BY <2>3, <2>4, <2>5, <2>6
  <1> QED BY <1>1, <1>3, <1>4, <1>5

\* The connections that may still register a session are among those there are.
LEMMA WaitingFinite ==
    IsFiniteSet(Waiting) /\ Cardinality(Waiting) \in Nat
  <1>1. IsFiniteSet(Conns)
    BY SystemAssumption, FS_Interval DEF Conns
  <1> QED BY <1>1, FS_Subset, FS_CardinalityType DEF Waiting

\* The server gives out no id that is not one of 1..MaxOpens: the number misread from
\* a nonce and NoRemote are none of its sessions.
LEMMA SessionIds ==
    ASSUME ChannelInv, RoomInv
    PROVE  /\ DOMAIN sessions \subseteq 1..MaxOpens
           /\ Garbage \notin DOMAIN sessions /\ NoRemote \notin DOMAIN sessions
  <1>1. /\ Len(sessions) \in Nat /\ DOMAIN sessions = 1..Len(sessions)
        /\ Cardinality(Waiting) \in Nat /\ MaxOpens \in Nat
    BY StoreTyped, WaitingFinite, SystemAssumption
  <1>2. Len(sessions) <= MaxOpens
    BY <1>1 DEF RoomInv
  <1>3. DOMAIN sessions \subseteq 1..MaxOpens
    BY <1>1, <1>2
  <1> QED BY <1>1, <1>3, SystemAssumption, NoRemoteAssumption DEF Garbage

LEMMA ServeHelloChannel ==
    ASSUME ChannelInv, RoomInv, NEW c \in Conns, ServeFresh(c) \/ ServeReconnect(c)
    PROVE  ChannelInv'
  <1>1. /\ handler[c] = "handshake" /\ up[c] # <<>> /\ Head(up[c]).nonce = Nonce(c, "hello")
        /\ handler' = [handler EXCEPT ![c] = "serve"] /\ up' = [up EXCEPT ![c] = Tail(up[c])]
        /\ UNCHANGED <<opens, attached, inbox, notifier, reader, available, upload, connected>>
    BY DEF ServeFresh, ServeReconnect, Receives, Goes, bufferVars, trackerVars, vars, uploadVars
  <1>2. /\ Head(up[c]).kind = "hello" /\ serving[c] = 0 /\ Head(up[c]).local \in LocalIds
        /\ Genuine(c)
    BY <1>1, HeadFits
  <1>3. CASE ServeFresh(c)
    <2>1. /\ Head(up[c]).remote = NoRemote
          /\ Store!Register /\ startedBy' = Append(startedBy, Head(up[c]).local)
          /\ serving' = [serving EXCEPT ![c] = Len(sessions')]
          /\ down' = IF c = attached
                     THEN [down EXCEPT ![c] = Append(down[c], SessionId(Len(sessions')))]
                     ELSE down
      BY <1>3 DEF ServeFresh, Reply
    <2>2. /\ Len(sessions) \in Nat /\ DOMAIN sessions = 1..Len(sessions)
          /\ sessions' \in Seq([live : BOOLEAN, points : Seq(Points)])
          /\ Len(sessions') = Len(sessions) + 1 /\ Len(startedBy') = Len(sessions')
          /\ startedBy' \in Seq(LocalIds) /\ DOMAIN sessions' = 1..Len(sessions')
          /\ \A id \in DOMAIN sessions : sessions'[id] = sessions[id]
      BY <1>2, <2>1, StoreTyped
    <2>3. Len(sessions') \in Nat \ {0} /\ Len(sessions') \in DOMAIN sessions'
          /\ DOMAIN sessions \subseteq DOMAIN sessions'
      BY <2>2
    <2>4. serving \in [Conns -> {0} \cup DOMAIN sessions]
      BY DEF ChannelInv, LinkTypeOK
    <2>5. /\ serving' \in [Conns -> {0} \cup DOMAIN sessions'] /\ serving'[c] = Len(sessions')
          /\ \A d \in Conns : d # c => serving'[d] = serving[d]
      BY <2>1, <2>3, <2>4
    <2>6. \A id : Closed(id) => Closed(id)'
      BY <2>2, <2>3 DEF Closed
    <2>7. SessionId(Len(sessions')) \in Seq(Units)
      BY <2>3, SessionIdProperties
    <2>8. Asks(Head(up[c])) /\ Answers(c, Head(up[c]), SessionId(Len(sessions')))
      BY <1>2, <2>1, <2>5 DEF Asks, Answers
    <2> DEFINE answer == SessionId(Len(sessions'))
    <2>9. /\ answer \in Seq(Units)
          /\ IF Asks(Head(up[c])) /\ c = attached
             THEN /\ down' = [down EXCEPT ![c] = Append(down[c], answer)]
                  /\ Answers(c, Head(up[c]), answer)
             ELSE down' = down
      BY <2>1, <2>7, <2>8
    <2> HIDE DEF answer
    <2> QED BY <1>1, <1>2, <2>2, <2>3, <2>5, <2>6, <2>9, GoesChannel
  <1>4. CASE ServeReconnect(c)
    <2>1. /\ Head(up[c]).remote \in DOMAIN sessions
          /\ serving' = [serving EXCEPT ![c] = Head(up[c]).remote]
          /\ UNCHANGED <<down, sessions, startedBy>>
      BY <1>4 DEF ServeReconnect
    <2>2. DOMAIN sessions \subseteq 1..MaxOpens
      BY SessionIds
    <2>3. Head(up[c]).remote # 0 /\ Head(up[c]).remote # NoRemote
      BY <2>1, <2>2, SystemAssumption, NoRemoteAssumption
    <2>4. /\ serving \in [Conns -> {0} \cup DOMAIN sessions]
          /\ sessions \in Seq([live : BOOLEAN, points : Seq(Points)])
          /\ startedBy \in Seq(LocalIds) /\ Len(startedBy) = Len(sessions)
      BY DEF ChannelInv, LinkTypeOK
    <2>5. /\ serving' \in [Conns -> {0} \cup DOMAIN sessions'] /\ serving'[c] # 0
          /\ \A d \in Conns : d # c => serving'[d] = serving[d]
      BY <2>1, <2>3, <2>4
    <2>6. \A id : Closed(id) => Closed(id)'
      BY <2>1 DEF Closed
    <2>7. c = attached /\ Asks(Head(up[c])) => FALSE
      BY <1>2, <2>3 DEF Asks
    <2>8. <<>> \in Seq(Units)
      BY EmptySeq
    <2> QED BY <1>1, <1>2, <2>1, <2>4, <2>5, <2>6, <2>7, <2>8, GoesChannel
  <1> QED BY <1>3, <1>4

LEMMA ServeDataChannel ==
    ASSUME ChannelInv, NEW c \in Conns, ServeData(c) \/ ServeFinish(c) PROVE ChannelInv'
  <1>1. /\ handler[c] = "serve" /\ up[c] # <<>> /\ up' = [up EXCEPT ![c] = Tail(up[c])]
        /\ UNCHANGED <<opens, attached, inbox, notifier, reader, available, upload, connected, serving, startedBy>>
    BY DEF ServeData, ServeFinish, Receives, Goes, bufferVars, trackerVars, vars, uploadVars
  <1>2. /\ serving[c] \in DOMAIN sessions /\ serving[c] # 0 /\ Genuine(c)
        /\ Head(up[c]).kind = "data" => Head(up[c]).points \in Seq(Points)
    BY <1>1, HeadFits
  <1>3. /\ serving \in [Conns -> {0} \cup DOMAIN sessions]
        /\ sessions \in Seq([live : BOOLEAN, points : Seq(Points)])
        /\ startedBy \in Seq(LocalIds) /\ Len(startedBy) = Len(sessions)
    BY DEF ChannelInv, LinkTypeOK
  <1>4. CASE ServeData(c)
    <2>1. /\ Head(up[c]).kind = "data" /\ Store!AppendPoints(serving[c], Head(up[c]).points)
          /\ handler' = [handler EXCEPT ![c] = "serve"] /\ down' = down
      BY <1>4 DEF ServeData, Goes
    <2>2. /\ sessions' \in Seq([live : BOOLEAN, points : Seq(Points)])
          /\ Len(sessions') = Len(sessions) /\ DOMAIN sessions' = DOMAIN sessions
          /\ \A k \in DOMAIN sessions : sessions'[k].live = sessions[k].live
      BY <1>2, <2>1, StoreTyped
    <2>3. \A id : Closed(id) => Closed(id)'
      BY <2>2 DEF Closed
    <2>4. ~Asks(Head(up[c])) /\ Head(up[c]).kind # "finish" /\ <<>> \in Seq(Units)
      BY <2>1, EmptySeq DEF Asks
    <2> QED BY <1>1, <1>2, <1>3, <2>1, <2>2, <2>3, <2>4, GoesChannel
  <1>5. CASE ServeFinish(c)
    <2>1. /\ Head(up[c]).kind = "finish" /\ handler' = [handler EXCEPT ![c] = "finish"]
          /\ sessions' = sessions
          /\ down' = IF c = attached
                     THEN [down EXCEPT ![c] = Append(down[c], Nonce(c, "finish"))] ELSE down
      BY <1>5 DEF ServeFinish, Goes, Reply
    <2>2. \A id : Closed(id) => Closed(id)'
      BY <2>1 DEF Closed
    <2>3. Asks(Head(up[c])) /\ Answers(c, Head(up[c]), Nonce(c, "finish"))
      BY <2>1 DEF Asks, Answers
    <2> DEFINE answer == Nonce(c, "finish")
    <2>4. /\ answer \in Seq(Units)
          /\ IF Asks(Head(up[c])) /\ c = attached
             THEN /\ down' = [down EXCEPT ![c] = Append(down[c], answer)]
                  /\ Answers(c, Head(up[c]), answer)
             ELSE down' = down
      BY <2>1, <2>3, NonceProperties, ConnTypes DEF ChannelInv
    <2> HIDE DEF answer
    <2> QED BY <1>1, <1>2, <1>3, <2>1, <2>2, <2>3, <2>4, GoesChannel
  <1> QED BY <1>4, <1>5

LEMMA ServeSignChannel ==
    ASSUME ChannelInv, NEW c \in Conns, ServeSign(c) PROVE ChannelInv'
  <1>1. /\ handler[c] = "finish" /\ up[c] # <<>> /\ Store!End(serving[c])
        /\ handler' = [handler EXCEPT ![c] = "ended"] /\ up' = [up EXCEPT ![c] = <<>>]
        /\ UNCHANGED <<opens, attached, inbox, notifier, reader, available, upload, connected, serving, startedBy>>
        /\ down' = IF c = attached THEN [down EXCEPT ![c] = Append(down[c], Confirmation)]
                   ELSE down
    BY DEF ServeSign, Receives, End, Reply, bufferVars, trackerVars, vars, uploadVars
  <1>2. /\ serving[c] \in DOMAIN sessions /\ serving[c] # 0 /\ Genuine(c)
        /\ Head(up[c]).kind = "sign"
    BY <1>1, HeadFits
  <1>3. /\ serving \in [Conns -> {0} \cup DOMAIN sessions]
        /\ startedBy \in Seq(LocalIds) /\ Len(startedBy) = Len(sessions)
    BY DEF ChannelInv, LinkTypeOK
  <1>4. /\ sessions' \in Seq([live : BOOLEAN, points : Seq(Points)])
        /\ Len(sessions') = Len(sessions) /\ DOMAIN sessions' = DOMAIN sessions
        /\ ~sessions'[serving[c]].live
        /\ \A k \in DOMAIN sessions : k # serving[c] => sessions'[k] = sessions[k]
    BY <1>1, <1>2, StoreTyped
  <1>5. (\A id : Closed(id) => Closed(id)') /\ Closed(serving[c])'
    BY <1>1, <1>2, <1>4 DEF Closed
  <1>6. Asks(Head(up[c])) /\ Answers(c, Head(up[c]), Confirmation)
    BY <1>2, <1>5 DEF Asks, Answers
  <1>7. up' = [up EXCEPT ![c] = Tail(up[c])]
    <2>1. 1 \in DOMAIN up[c] /\ Head(up[c]) = up[c][1]
          /\ (Len(up[c]) = 1 => Tail(up[c]) = <<>>)
      BY <1>1, HeadRead DEF ChannelInv
    <2>2. Len(up[c]) = 1
      BY <1>2, <1>6, <2>1 DEF ChannelInv, AskInv
    <2> QED BY <1>1, <2>1, <2>2
  <1> DEFINE answer == Confirmation
  <1>8. /\ answer \in Seq(Units)
        /\ IF Asks(Head(up[c])) /\ c = attached
           THEN /\ down' = [down EXCEPT ![c] = Append(down[c], answer)]
                /\ Answers(c, Head(up[c]), answer)
           ELSE down' = down
    BY <1>1, <1>6, ConfirmationProperties
  <1> HIDE DEF answer
  <1> QED BY <1>1, <1>2, <1>3, <1>4, <1>5, <1>6, <1>7, <1>8, GoesChannel

\* A connection registers one session at most: the sessions and the connections that
\* may still register one are never more than MaxOpens.
LEMMA NextRoom ==
    ASSUME ChannelInv, RoomInv, [SystemNext]_sysVarsAll, ~torn' PROVE RoomInv'
  <1>1. /\ Len(sessions) \in Nat /\ IsFiniteSet(Waiting) /\ Cardinality(Waiting) \in Nat
        /\ MaxOpens \in Nat
    BY StoreTyped, WaitingFinite, SystemAssumption
  <1>2. CASE \E c \in Conns : ServeFresh(c)
    <2>1. PICK c \in Conns : ServeFresh(c)
      BY <1>2
    <2>2. /\ handler[c] = "handshake" /\ handler' = [handler EXCEPT ![c] = "serve"]
          /\ sessions' = Append(sessions, [live |-> TRUE, points |-> <<>>])
      BY <2>1 DEF ServeFresh, Receives, Goes, Store!Register
    <2>3. Waiting' = Waiting \ {c} /\ c \in Waiting
      BY <2>2, ConnTypes DEF Waiting, ChannelInv
    <2>4. Cardinality(Waiting') = Cardinality(Waiting) - 1
      BY <1>1, <2>3, FS_RemoveElement
    <2>5. Len(sessions') = Len(sessions) + 1
      BY <2>2, AppendProperties DEF ChannelInv, LinkTypeOK
    <2> QED BY <1>1, <2>4, <2>5 DEF RoomInv
  <1>3. CASE Len(sessions') = Len(sessions) /\ Waiting' \subseteq Waiting
    <2>1. Cardinality(Waiting') <= Cardinality(Waiting) /\ Cardinality(Waiting') \in Nat
      BY <1>1, <1>3, FS_Subset, FS_CardinalityType
    <2> QED BY <1>1, <1>3, <2>1 DEF RoomInv
  <1>4. CASE Local \/ PowerOff \/ Arrive \/ Notice \/ Reset \/ SendOk \/ SendFails \/ NoAnswer \/ IdRead
             \/ AnswerRead \/ Finished \/ PassEnds \/ UNCHANGED sysVarsAll
    <2>1. UNCHANGED <<handler, sessions>>
      BY <1>4 DEF Local, PowerOff, Arrive, Notice, Reset, ResetNotifier, SendOk, SendFails, NoAnswer, IdRead,
           AnswerRead, Finished, PassEnds, sysVarsAll, linkVars, serverVars
    <2> QED BY <1>3, <2>1 DEF Waiting
  <1>5. CASE Open
    <2>1. PICK new : /\ new = opens + 1 /\ sessions' = sessions
                     /\ handler' = [handler EXCEPT ![new] = "handshake"]
      BY <1>5 DEF Open
    <2>2. \A c \in Conns : c = new => handler[c] = "none"
      BY <2>1, ConnTypes DEF ChannelInv, HandlerInv
    <2>3. Waiting' \subseteq Waiting
      BY <2>1, <2>2, ConnTypes DEF Waiting, ChannelInv
    <2> QED BY <1>3, <2>1, <2>3
  <1>6. CASE \E c \in Conns : Cut(c) \/ PeerClosed(c) \/ RefuseHandshake(c) \/ RefuseSign(c)
    <2>1. PICK c \in Conns : handler' = [handler EXCEPT ![c] = "ended"] /\ sessions' = sessions
      BY <1>6 DEF Cut, PeerClosed, RefuseHandshake, RefuseSign, Rejects, End
    <2> QED BY <1>3, <2>1, ConnTypes DEF Waiting, ChannelInv
  <1>7. CASE \E c \in Conns : ServeReconnect(c) \/ ServeData(c) \/ ServeFinish(c) \/ ServeSign(c)
    <2>1. PICK c \in Conns : ServeReconnect(c) \/ ServeData(c) \/ ServeFinish(c) \/ ServeSign(c)
      BY <1>7
    <2>2. /\ \E h \in {"serve", "finish", "ended"} : handler' = [handler EXCEPT ![c] = h]
          /\ up[c] # <<>>
      BY <2>1 DEF ServeReconnect, ServeData, ServeFinish, ServeSign, Goes, End, Receives
    <2>3. Len(sessions') = Len(sessions)
      <3>1. CASE ServeReconnect(c) \/ ServeFinish(c)
        BY <3>1 DEF ServeReconnect, ServeFinish
      <3>2. CASE ServeData(c)
        <4>1. serving[c] \in DOMAIN sessions /\ Head(up[c]).points \in Seq(Points)
              /\ Store!AppendPoints(serving[c], Head(up[c]).points)
          BY <2>2, <3>2, HeadFits DEF ServeData, Receives
        <4> QED BY <4>1, StoreTyped
      <3>3. CASE ServeSign(c)
        <4>1. serving[c] \in DOMAIN sessions /\ Store!End(serving[c])
          BY <2>2, <3>3, HeadFits DEF ServeSign, Receives
        <4> QED BY <4>1, StoreTyped
      <3> QED BY <2>1, <3>1, <3>2, <3>3
    <2>4. Waiting' \subseteq Waiting
      BY <2>2, ConnTypes DEF Waiting, ChannelInv
    <2> QED BY <1>3, <2>3, <2>4
  <1> QED BY <1>2, <1>4, <1>5, <1>6, <1>7 DEF SystemNext, Serve

-----------------------------------------------------------------------------
LEMMA InitChannel == SystemInit => ChannelInv /\ RoomInv
  <1> SUFFICES ASSUME SystemInit PROVE ChannelInv /\ RoomInv
    OBVIOUS
  <1> USE DEF SystemInit, Store!Init
  <1>1. MaxOpens \in Nat /\ Conns = 1..MaxOpens
    BY SystemAssumption DEF Conns
  <1>2. LinkTypeOK
    <2>1. \A S : <<>> \in Seq(S) /\ Len(<<>>) = 0
      BY EmptySeq
    <2> QED BY <1>1, <2>1 DEF LinkTypeOK, Handlers
  <1>3. \A c \in Conns : up[c] = <<>> /\ down[c] = <<>> /\ DOMAIN up[c] = {}
    OBVIOUS
  <1>4. HandlerInv /\ InboxInv /\ DownInv /\ AskInv /\ ReaderInv
    <2>1. Len(inbox) = 0
      BY EmptySeq
    <2> QED BY <1>1, <1>3, <2>1
            DEF HandlerInv, InboxInv, DownInv, AskInv, ReaderInv, Promised, PopsInside
  <1>5. HelloInv /\ TalkInv
    BY DEF HelloInv, TalkInv, Init, NoPass
  <1>6. RoomInv
    <2>1. Waiting = 1..MaxOpens
      BY <1>1 DEF Waiting
    <2>2. Cardinality(1..MaxOpens) = MaxOpens
      BY <1>1, FS_Interval
    <2> QED BY <1>1, <2>1, <2>2 DEF RoomInv
  <1> QED BY <1>2, <1>4, <1>5, <1>6 DEF ChannelInv

\* Every step keeps what is known of the link.
LEMMA NextChannel ==
    ASSUME TrackerInv, ChannelInv, RoomInv, [SystemNext]_sysVarsAll, ~torn' PROVE ChannelInv'
  <1>1. CASE Local \/ NoAnswer
    BY <1>1, LocalChannel, NoAnswerChannel
  <1>2. CASE PowerOff
    BY <1>2, PowerOffChannel
  <1>3. CASE Arrive
    BY <1>3, ArriveChannel
  <1>4. CASE Notice \/ Reset
    BY <1>4, ReadingChannel
  <1>5. CASE SendOk \/ SendFails
    <2>1. Saying
      BY <1>5, MessageTyped, SayEffect
    <2> QED BY <1>5, <2>1, HelloChannel, SayChannel DEF Saying
  <1>6. CASE Open
    BY <1>6, OpenChannel
  <1>7. CASE IdRead \/ AnswerRead \/ Finished \/ PassEnds
    BY <1>7, AnswerChannel
  <1>8. CASE \E c \in Conns : Cut(c) \/ PeerClosed(c) \/ RefuseHandshake(c) \/ RefuseSign(c)
    BY <1>8, LostChannel
  <1>9. CASE \E c \in Conns : \/ ServeFresh(c) \/ ServeReconnect(c) \/ ServeData(c)
                              \/ ServeFinish(c) \/ ServeSign(c)
    BY <1>9, ServeHelloChannel, ServeDataChannel, ServeSignChannel
  <1>10. CASE UNCHANGED sysVarsAll
    <2>1. UNCHANGED <<opens, attached, inbox, notifier, reader, available, up, down, serverVars,
                      upload, connected>>
      BY <1>10 DEF sysVarsAll, linkVars, trackerVars, vars, uploadVars, bufferVars, serverVars
    <2>2. /\ ReaderInv' /\ notifier' \in Nat /\ available' \in Nat
          /\ reader' \in {"wait", "reset", "pop"}
      BY <2>1, ReaderKept DEF ChannelInv, LinkTypeOK
    <2> QED BY <2>1, <2>2, QuietChannel DEF Talking, InTalk
  <1> QED BY <1>1, <1>2, <1>3, <1>4, <1>5, <1>6, <1>7, <1>8, <1>9, <1>10 DEF SystemNext, Serve

\* What is proved of the link holds as long as no save is cut, with any number of
\* connections.
THEOREM ChannelCorrect == SystemSpec => [](~torn => TrackerInv /\ ChannelInv /\ RoomInv)
  <1>1. SystemInit => TrackerInv /\ ChannelInv /\ RoomInv
    BY InitTracker, InitChannel
  <1>2. TrackerSafe /\ (~torn => TrackerInv /\ ChannelInv /\ RoomInv) /\ [SystemNext]_sysVarsAll
          => (~torn => TrackerInv /\ ChannelInv /\ RoomInv)'
    BY SystemStep, NextSafe, NextTracker, NextChannel, NextRoom
  <1>3. SystemSpec => []TrackerSafe
    BY ImplementsTracker, SafeAlways, PTL
  <1> QED BY <1>1, <1>2, <1>3, PTL DEF SystemSpec

\* Whenever a read pops, the receive buffer holds what it pops (PopsInside), so that
\* pop (byte_buffer.rs:37) never runs past it: whatever the monitor on the other
\* core writes between the steps of a read, however connections break and whenever
\* reads are given up.
THEOREM PopsAlwaysInside == SystemSpec => []PopsInside
  <1>1. SystemInit => reader = "wait"
    BY DEF SystemInit
  <1>2. TrackerSafe /\ (torn => reader = "wait") /\ [SystemNext]_sysVarsAll
          => (torn => reader = "wait")'
    <2> SUFFICES ASSUME TrackerSafe, torn => reader = "wait", [SystemNext]_sysVarsAll, torn'
                 PROVE  reader' = "wait"
      OBVIOUS
    <2>1. CASE torn
      <3>1. upload = "off" /\ reader = "wait"
        BY <2>1 DEF TrackerSafe, TornInv
      <3> QED BY <3>1 DEF SystemNext, Local, PowerOff, Arrive, Notice, Expected, Reset, ResetNotifier,
                 SendOk, SendFails, Sending, NoAnswer, Open, IdRead, AnswerRead, Finished, PassEnds,
                 Cut, PeerClosed, Serve, ServeFresh, ServeReconnect, RefuseHandshake, ServeData,
                 ServeFinish, ServeSign, RefuseSign, Receives, linkVars, bufferVars, sysVarsAll, Take
    <2>2. CASE ~torn
      <3>1. CutSave
        BY <2>2, SystemStep, TornStep
      <3>2. upload' = "off" /\ gnss' = "off" /\ phase' = "off" /\ stateFile' \in Misreads
        BY <3>1 DEF CutSave, MemoryGone
      <3>3. PowerOff
        <4>1. Local => torn' = torn
          BY DEF Local, Boot, StartSession, StopGnss, StopUpload, Gnss, GnssTerminate, GnssReceive,
             GnssNothing, GnssFix, GnssStart, GnssJoin, GnssAppend, UploadBegin, NextSession,
             PassDone, SaveId, DataDone, CountUploaded, SaveUploaded, Settle, PassFailed, EndPass,
             EndPassWith, Outside, cardVars
        <4>2. SendOk \/ SendFails \/ NoAnswer \/ Open => torn' = torn
          BY DEF SendOk, SendFails, NoAnswer, Open, HelloOk, ChunkOk, FinishSent, SignSent,
             LinkFails, Fail, OpenOk, Outside, cardVars
        <4>3. IdRead \/ AnswerRead \/ Finished \/ PassEnds => torn' = torn
          BY DEF IdRead, AnswerRead, Finished, PassEnds, IdOk, AckOk, LinkFails, Fail, SaveFinish,
             EndPass, EndPassWith, Outside, cardVars
        <4>4. Arrive \/ Notice \/ Reset \/ (\E c \in Conns : Cut(c) \/ PeerClosed(c) \/ Serve(c))
                \/ UNCHANGED sysVarsAll => torn' = torn
          BY DEF Arrive, Notice, Reset, ResetNotifier, Cut, PeerClosed, Serve, ServeFresh,
             ServeReconnect, RefuseHandshake, ServeData, ServeFinish, ServeSign, RefuseSign,
             Receives, sysVarsAll, trackerVars, vars, cardVars
        <4> QED BY <2>2, <4>1, <4>2, <4>3, <4>4 DEF SystemNext
      <3> QED BY <3>3 DEF PowerOff
    <2> QED BY <2>1, <2>2
  <1>3. (~torn => TrackerInv /\ ChannelInv /\ RoomInv) /\ (torn => reader = "wait") => PopsInside
    BY DEF ChannelInv, ReaderInv, PopsInside
  <1>4. SystemSpec => []TrackerSafe
    BY ImplementsTracker, SafeAlways, PTL
  <1> QED BY <1>1, <1>2, <1>3, <1>4, ChannelCorrect, PTL DEF SystemSpec

-----------------------------------------------------------------------------
(* The data: DataInv. *)

\* What is known of the tracker and of the link.
SystemInv == TrackerInv /\ ChannelInv /\ RoomInv

LEMMA NextSystem == SystemInv /\ ~torn' /\ [SystemNext]_sysVarsAll => SystemInv'
  BY NextTracker, NextChannel, NextRoom DEF SystemInv

\* The types that the steps below need.
LEMMA SystemTypes ==
    ASSUME SystemInv
    PROVE  /\ status \in Statuses /\ stateFile \in Statuses /\ clone \in Statuses
           /\ Ascending(status) /\ Ascending(stateFile) /\ Ascending(clone)
           /\ boots \in Nat /\ upload \in UploadPcs
           /\ DOMAIN sessions \subseteq 1..MaxOpens
           /\ Garbage \notin DOMAIN sessions /\ NoRemote \notin DOMAIN sessions
           /\ NoRemote # Garbage
           /\ Conns \subseteq Nat \ {0} /\ attached \in {0} \cup Conns
           /\ \A c \in Conns : serving[c] # 0 => serving[c] \in DOMAIN sessions
  <1>1. /\ status \in Statuses /\ stateFile \in Statuses /\ clone \in Statuses
        /\ Ascending(status) /\ Ascending(stateFile) /\ Ascending(clone)
        /\ upload \in UploadPcs /\ boots \in Nat
    BY BoundsAssumption DEF SystemInv, TrackerInv, Inv, TypeOK, CardTypeOK, UploadTypeOK, StatusOrdered,
         CloneInv
  <1>2. /\ DOMAIN sessions \subseteq 1..MaxOpens
        /\ Garbage \notin DOMAIN sessions /\ NoRemote \notin DOMAIN sessions
    BY SessionIds DEF SystemInv
  <1>3. NoRemote # Garbage
    BY SystemAssumption, NoRemoteAssumption DEF Garbage
  <1>4. Conns \subseteq Nat \ {0} /\ attached \in {0} \cup Conns
        /\ \A c \in Conns : serving[c] # 0 => serving[c] \in DOMAIN sessions
    BY ConnTypes DEF SystemInv, ChannelInv, LinkTypeOK
  <1> QED BY <1>1, <1>2, <1>3, <1>4

-----------------------------------------------------------------------------
\* What a step does to the entries

\* The steps that change the status or STATE.CSV.
LEMMA StatusStep ==
    ASSUME [SystemNext]_sysVarsAll, ~torn'
    PROVE  \/ UNCHANGED <<status, stateFile>>
           \/ stateFile' = status /\ status' = status /\ (SaveId \/ SaveUploaded \/ SaveFinish)
           \/ GnssJoin /\ ~joined /\ status' = AddSession(status, boots) /\ stateFile' = status'
           \/ /\ IdRead /\ stateFile' = stateFile
              /\ status' = SetRemoteSessionId(status, Session.local, IdIn(SubSeq(inbox, 1, 2)))
           \/ /\ DataDone /\ Missing > 0 /\ stateFile' = stateFile
              /\ status' = AddUploaded(status, Session.local, Missing)
           \/ AckOk /\ stateFile' = stateFile /\ status' = FinishSession(status, Session.local)
           \/ Boot /\ status' = stateFile /\ stateFile' = stateFile
           \/ PowerOff /\ status' = <<>> /\ stateFile' = stateFile /\ upload' = "off"
  <1> DEFINE Goal ==
           \/ UNCHANGED <<status, stateFile>>
           \/ stateFile' = status /\ status' = status /\ (SaveId \/ SaveUploaded \/ SaveFinish)
           \/ GnssJoin /\ ~joined /\ status' = AddSession(status, boots) /\ stateFile' = status'
           \/ /\ IdRead /\ stateFile' = stateFile
              /\ status' = SetRemoteSessionId(status, Session.local, IdIn(SubSeq(inbox, 1, 2)))
           \/ /\ DataDone /\ Missing > 0 /\ stateFile' = stateFile
              /\ status' = AddUploaded(status, Session.local, Missing)
           \/ AckOk /\ stateFile' = stateFile /\ status' = FinishSession(status, Session.local)
           \/ Boot /\ status' = stateFile /\ stateFile' = stateFile
           \/ PowerOff /\ status' = <<>> /\ stateFile' = stateFile /\ upload' = "off"
  <1> SUFFICES Goal
    OBVIOUS
  <1>1. CASE Gnss
    <2>1. CASE GnssJoin
      BY <2>1 DEF GnssJoin, Active
    <2>2. CASE ~GnssJoin
      BY <1>1, <2>2 DEF Gnss, GnssTerminate, GnssReceive, GnssNothing, GnssFix, GnssStart, GnssAppend,
           uploadVars, cardVars
    <2> QED BY <2>1, <2>2
  <1>2. CASE SaveId \/ SaveUploaded \/ SaveFinish
    BY <1>2 DEF SaveId, SaveUploaded, SaveFinish
  <1>3. CASE IdRead
    BY <1>3 DEF IdRead, IdOk, Outside, cardVars
  <1>4. CASE DataDone
    BY <1>4 DEF DataDone, CountUploaded, Outside, cardVars
  <1>5. CASE AckOk
    BY <1>5 DEF AckOk, Outside, cardVars
  <1>6. CASE Boot
    BY <1>6 DEF Boot, StartSession
  <1>7. CASE PowerOff
    BY <1>7 DEF PowerOff, PowerLoss, Sleep, LoseMemory, MemoryGone, CutSave, cardVars
  <1>8. CASE \/ StopGnss \/ StopUpload \/ UploadBegin \/ NextSession \/ PassDone \/ Settle
             \/ PassFailed \/ OpenOk \/ HelloOk \/ ChunkOk \/ FinishSent \/ SignSent \/ LinkFails
             \/ EndPass
    BY <1>8 DEF StopGnss, StopUpload, UploadBegin, NextSession, PassDone, Settle, PassFailed,
         OpenOk, HelloOk, ChunkOk, FinishSent, SignSent, LinkFails, Fail, EndPass, EndPassWith,
         Outside, cardVars, uploadVars
  <1>9. CASE UNCHANGED vars
    BY <1>9 DEF vars, cardVars, uploadVars
  <1> HIDE DEF Goal
  <1>10. CASE Local
    BY <1>1, <1>2, <1>4, <1>6, <1>8, <1>10 DEF Local
  <1>11. CASE Arrive \/ Notice \/ Reset \/ UNCHANGED sysVarsAll
              \/ \E c \in Conns : Cut(c) \/ PeerClosed(c) \/ Serve(c)
    <2>1. UNCHANGED vars
      BY <1>11 DEF Arrive, Notice, Reset, ResetNotifier, sysVarsAll, Cut, PeerClosed, Serve, ServeFresh, ServeReconnect,
           RefuseHandshake, ServeData, ServeFinish, ServeSign, RefuseSign, Receives, trackerVars
    <2> QED BY <1>9, <2>1
  <1>12. CASE SendOk \/ SendFails \/ NoAnswer \/ Open
    BY <1>8, <1>12 DEF SendOk, SendFails, NoAnswer, Open
  <1>13. CASE AnswerRead \/ Finished \/ PassEnds
    BY <1>2, <1>5, <1>8, <1>13 DEF AnswerRead, Finished, PassEnds
  <1> QED BY <1>3, <1>7, <1>10, <1>11, <1>12, <1>13 DEF SystemNext

\* The id that is read goes to the one entry of the session.
LEMMA IdReadEntry ==
    ASSUME SystemInv, IdRead, NEW i \in DOMAIN status'
    PROVE  /\ i \in DOMAIN status
           /\ IF status[i].local = Session.local
              THEN /\ status'[i].local = Session.local
                   /\ status'[i].uploaded = status[i].uploaded
                   /\ status'[i].remote = IdIn(SubSeq(inbox, 1, 2))
              ELSE status'[i] = status[i]
  <1>1. status \in Statuses /\ Ascending(status)
    BY SystemTypes
  <1>2. status' = SetRemoteSessionId(status, Session.local, IdIn(SubSeq(inbox, 1, 2)))
    BY DEF IdRead, IdOk
  <1>3. DOMAIN status' = DOMAIN status
    BY <1>2 DEF SetRemoteSessionId
  <1>4. IsFirst(status, Session.local, i) <=> status[i].local = Session.local
    BY <1>1, <1>3, FirstIsIt
  <1>5. status[i] \in SessionUploadStatus
    BY <1>1, <1>3, StatusElements
  <1>6. status'[i] = IF status[i].local = Session.local
                     THEN [status[i] EXCEPT !.remote = IdIn(SubSeq(inbox, 1, 2))] ELSE status[i]
    BY <1>2, <1>3, <1>4 DEF SetRemoteSessionId
  <1> QED BY <1>3, <1>5, <1>6 DEF SessionUploadStatus

\* So every entry of the status comes from one of the status or, at boot, of STATE.CSV,
\* or is the new session's.
LEMMA EntryStep ==
    ASSUME SystemInv, [SystemNext]_sysVarsAll, ~torn', NEW i \in DOMAIN status'
    PROVE  \/ \E k \in DOMAIN status : status'[i] = status[k]
           \/ Boot /\ \E k \in DOMAIN stateFile : status'[i] = stateFile[k]
           \/ /\ GnssJoin /\ ~joined /\ status'[i].local = boots
              /\ status'[i].remote = NoRemote /\ status'[i].uploaded = 0
           \/ /\ IdRead /\ status'[i].local = Session.local
              /\ i \in DOMAIN status /\ status[i].local = Session.local
              /\ status'[i].uploaded = status[i].uploaded
              /\ status'[i].remote = IdIn(SubSeq(inbox, 1, 2))
           \/ /\ DataDone /\ status'[i].local = Session.local
              /\ i \in DOMAIN status /\ status[i].local = Session.local
              /\ status'[i].uploaded = status[i].uploaded + Missing
              /\ status'[i].remote = status[i].remote
  <1>1. status \in Statuses /\ Ascending(status)
    BY SystemTypes
  <1>2. CASE status' = status
    BY <1>2
  <1>3. CASE GnssJoin /\ ~joined /\ status' = AddSession(status, boots)
    <2>1. boots \in LocalIds
      BY <1>3 DEF GnssJoin, SystemInv, TrackerInv, Inv, GnssInv, TypeOK, CardTypeOK, LocalIds
    <2> DEFINE e == [local |-> boots, remote |-> NoRemote, uploaded |-> 0]
    <2>2. /\ DOMAIN status' = 1..(Len(status) + 1) /\ \A k \in DOMAIN status : status'[k] = status[k]
          /\ DOMAIN status = 1..Len(status) /\ Len(status) \in Nat
      BY <1>1, <1>3, <2>1, AddSessionResult, StatusElements
    <2>3. status' = Append(status, e) /\ e \in SessionUploadStatus
      BY <1>3, <2>1 DEF AddSession, SessionUploadStatus
    <2>4. status'[Len(status) + 1] = e
      BY <1>1, <2>3, AppendProperties DEF Statuses
    <2>5. i \in DOMAIN status \/ i = Len(status) + 1
      BY <2>2
    <2> QED BY <1>3, <2>2, <2>4, <2>5
  <1>4. CASE IdRead
    BY <1>4, IdReadEntry
  <1>5. CASE DataDone /\ Missing > 0 /\ status' = AddUploaded(status, Session.local, Missing)
    <2>1. DOMAIN status' = DOMAIN status
      BY <1>5 DEF AddUploaded
    <2>2. IsFirst(status, Session.local, i) <=> status[i].local = Session.local
      BY <1>1, <2>1, FirstIsIt
    <2>3. status[i] \in SessionUploadStatus
      BY <1>1, <2>1, StatusElements
    <2>4. status'[i] = IF status[i].local = Session.local
                       THEN [status[i] EXCEPT !.uploaded = @ + Missing] ELSE status[i]
      BY <1>5, <2>1, <2>2 DEF AddUploaded
    <2> QED BY <1>5, <2>1, <2>3, <2>4 DEF SessionUploadStatus
  <1>6. CASE status' = FinishSession(status, Session.local)
    BY <1>1, <1>6, FinishSessionResult
  <1>7. CASE Boot /\ status' = stateFile
    BY <1>7
  <1>8. CASE status' = <<>>
    BY <1>8, EmptyStatus
  <1> QED BY <1>2, <1>3, <1>4, <1>5, <1>6, <1>7, <1>8, StatusStep

\* And every entry of STATE.CSV was there or is now in the status.
LEMMA SavedEntryStep ==
    ASSUME [SystemNext]_sysVarsAll, ~torn' PROVE stateFile' \in {stateFile, status'}
  BY StatusStep

-----------------------------------------------------------------------------
\* What a step does to the store

\* Only three of the server's steps change its sessions.
LEMMA StoreActions ==
    ASSUME [SystemNext]_sysVarsAll, ~torn'
    PROVE  \/ sessions' = sessions /\ startedBy' = startedBy
           \/ \E c \in Conns : ServeFresh(c) \/ ServeData(c) \/ ServeSign(c)
  <1>1. CASE Local \/ PowerOff \/ Arrive \/ Notice \/ Reset \/ SendOk \/ SendFails \/ NoAnswer \/ Open
             \/ IdRead \/ AnswerRead \/ Finished \/ PassEnds \/ UNCHANGED sysVarsAll
    BY <1>1 DEF Local, PowerOff, Arrive, Notice, Reset, ResetNotifier, SendOk, SendFails, NoAnswer, Open, IdRead,
         AnswerRead, Finished, PassEnds, sysVarsAll, linkVars, serverVars
  <1>2. CASE \E c \in Conns : Cut(c) \/ PeerClosed(c) \/ RefuseHandshake(c) \/ RefuseSign(c)
                              \/ ServeReconnect(c) \/ ServeFinish(c)
    BY <1>2 DEF Cut, PeerClosed, RefuseHandshake, RefuseSign, Rejects, ServeReconnect, ServeFinish
  <1>3. CASE \E c \in Conns : ServeFresh(c) \/ ServeData(c) \/ ServeSign(c)
    BY <1>3
  <1> QED BY <1>1, <1>2, <1>3 DEF SystemNext, Serve

\* A session keeps its opener, its end and its points, and gets only those of a message
\* on a connection that serves it.
LEMMA StoreStep ==
    ASSUME SystemInv, [SystemNext]_sysVarsAll, ~torn'
    PROVE  /\ \A id \in DOMAIN sessions :
                /\ id \in DOMAIN sessions' /\ startedBy'[id] = startedBy[id]
                /\ ~sessions[id].live => ~sessions'[id].live
                /\ \/ sessions'[id].points = sessions[id].points
                   \/ \E c \in Conns :
                        /\ ServeData(c) /\ serving[c] = id
                        /\ sessions'[id].points = sessions[id].points \o Head(up[c]).points
           /\ \A id \in DOMAIN sessions' : id \notin DOMAIN sessions => sessions'[id].points = <<>>
  <1>1. CASE sessions' = sessions /\ startedBy' = startedBy
    BY <1>1
  <1>2. ASSUME NEW c \in Conns, ServeFresh(c)
        PROVE  /\ \A id \in DOMAIN sessions : /\ id \in DOMAIN sessions'
                                              /\ startedBy'[id] = startedBy[id]
                                              /\ sessions'[id] = sessions[id]
               /\ \A id \in DOMAIN sessions' :
                    id \notin DOMAIN sessions => sessions'[id].points = <<>>
    <2>1. /\ Store!Register /\ startedBy' = Append(startedBy, Head(up[c]).local)
          /\ handler[c] = "handshake" /\ up[c] # <<>>
      BY <1>2 DEF ServeFresh, Receives
    <2>2. Head(up[c]).local \in LocalIds
      BY <2>1, HeadFits DEF SystemInv
    <2>3. /\ Len(sessions) \in Nat /\ DOMAIN sessions = 1..Len(sessions)
          /\ Len(sessions') = Len(sessions) + 1 /\ DOMAIN sessions' = 1..Len(sessions')
          /\ \A id \in DOMAIN sessions : /\ sessions'[id] = sessions[id]
                                         /\ startedBy'[id] = startedBy[id]
          /\ sessions'[Len(sessions')] = [live |-> TRUE, points |-> <<>>]
      BY <2>1, <2>2, StoreTyped DEF SystemInv
    <2>4. \A id \in DOMAIN sessions' : id \in DOMAIN sessions \/ id = Len(sessions')
      BY <2>3
    <2>5. DOMAIN sessions \subseteq DOMAIN sessions'
      BY <2>3
    <2> QED BY <2>3, <2>4, <2>5
  <1>3. ASSUME NEW c \in Conns, ServeData(c)
        PROVE  /\ DOMAIN sessions' = DOMAIN sessions /\ startedBy' = startedBy
               /\ \A id \in DOMAIN sessions : sessions'[id].live = sessions[id].live
               /\ \A id \in DOMAIN sessions :
                    IF id = serving[c]
                    THEN sessions'[id].points = sessions[id].points \o Head(up[c]).points
                    ELSE sessions'[id] = sessions[id]
    <2>1. /\ Store!AppendPoints(serving[c], Head(up[c]).points) /\ Head(up[c]).kind = "data"
          /\ handler[c] = "serve" /\ up[c] # <<>> /\ startedBy' = startedBy
      BY <1>3 DEF ServeData, Receives
    <2>2. Head(up[c]).points \in Seq(Points) /\ serving[c] \in DOMAIN sessions
      BY <2>1, HeadFits DEF SystemInv
    <2> QED BY <2>1, <2>2, StoreTyped DEF SystemInv
  <1>4. ASSUME NEW c \in Conns, ServeSign(c)
        PROVE  /\ DOMAIN sessions' = DOMAIN sessions /\ startedBy' = startedBy
               /\ \A id \in DOMAIN sessions : /\ sessions'[id].points = sessions[id].points
                                              /\ ~sessions[id].live => ~sessions'[id].live
    <2>1. /\ Store!End(serving[c]) /\ handler[c] = "finish" /\ up[c] # <<>>
          /\ startedBy' = startedBy
      BY <1>4 DEF ServeSign, Receives
    <2>2. serving[c] \in DOMAIN sessions
      BY <2>1, HeadFits DEF SystemInv
    <2>3. /\ DOMAIN sessions' = DOMAIN sessions /\ ~sessions'[serving[c]].live
          /\ \A k \in DOMAIN sessions : /\ sessions'[k].points = sessions[k].points
                                        /\ k # serving[c] => sessions'[k] = sessions[k]
      BY <2>1, <2>2, StoreTyped DEF SystemInv
    <2> QED BY <2>1, <2>3
  <1>5. CASE \E c \in Conns : ServeFresh(c)
    BY <1>2, <1>5
  <1>6. CASE \E c \in Conns : ServeData(c)
    BY <1>3, <1>6
  <1>7. CASE \E c \in Conns : ServeSign(c)
    BY <1>4, <1>7
  <1> QED BY <1>1, <1>5, <1>6, <1>7, StoreActions

\* The types of the points that are stored and sent.
LEMMA StoredTyped ==
    ASSUME SystemInv, NEW id \in DOMAIN sessions
    PROVE  sessions[id].points \in Seq(Points)
  <1> DEFINE Records == [live : BOOLEAN, points : Seq(Points)]
  <1>1. sessions \in Seq(Records)
    BY DEF SystemInv, ChannelInv, LinkTypeOK
  <1> HIDE DEF Records
  <1>2. sessions[id] \in Records
    BY <1>1, ElementOfSeq, LenProperties
  <1> QED BY <1>2 DEF Records

LEMMA MembersOfConcat ==
    ASSUME NEW S, NEW s \in Seq(S), NEW t \in Seq(S)
    PROVE  Members(s \o t) = Members(s) \cup Members(t)
  <1> DEFINE n == Len(s)
             m == Len(t)
  <1>1. /\ n \in Nat /\ m \in Nat /\ DOMAIN s = 1..n /\ DOMAIN t = 1..m
        /\ DOMAIN (s \o t) = 1..(n + m)
        /\ \A i \in 1..(n + m) : (s \o t)[i] = IF i <= n THEN s[i] ELSE t[i - n]
    BY ConcatProperties, LenProperties
  <1> HIDE DEF n, m
  <1>2. \A i \in 1..(n + m) : (i \in 1..n /\ (s \o t)[i] = s[i])
                              \/ (i - n \in 1..m /\ (s \o t)[i] = t[i - n])
    BY <1>1
  <1>3. \A i \in 1..n : i \in 1..(n + m) /\ (s \o t)[i] = s[i]
    BY <1>1
  <1>4. \A i \in 1..m : i + n \in 1..(n + m) /\ (s \o t)[i + n] = t[i]
    BY <1>1
  <1>5. ASSUME NEW x \in Members(s \o t) PROVE x \in Members(s) \cup Members(t)
    <2>1. PICK i \in 1..(n + m) : x = (s \o t)[i]
      BY <1>1, <1>5 DEF Members
    <2> QED BY <1>1, <1>2, <2>1 DEF Members
  <1>6. Members(s) \subseteq Members(s \o t)
    BY <1>1, <1>3 DEF Members
  <1>7. Members(t) \subseteq Members(s \o t)
    BY <1>1, <1>4 DEF Members
  <1> QED BY <1>5, <1>6, <1>7

\* What is stored stays stored, what has ended stays ended.
LEMMA StoreKeeps ==
    ASSUME SystemInv, [SystemNext]_sysVarsAll, ~torn'
    PROVE  \A id : /\ PointsOf(id) \subseteq PointsOf(id)'
                   /\ Closed(id) => Closed(id)'
                   /\ \A local : Own(id, local) => Own(id, local)'
  <1> TAKE id
  <1>1. CASE id \notin DOMAIN sessions
    BY <1>1 DEF PointsOf, Closed, Own, Garbage
  <1>2. CASE id \in DOMAIN sessions
    <2>1. id \in DOMAIN sessions' /\ startedBy'[id] = startedBy[id]
          /\ (~sessions[id].live => ~sessions'[id].live)
      BY <1>2, StoreStep
    <2>2. Members(sessions[id].points) \subseteq Members(sessions'[id].points)
      <3>1. CASE sessions'[id].points = sessions[id].points
        BY <3>1
      <3>2. CASE \E c \in Conns :
                    /\ ServeData(c) /\ serving[c] = id
                    /\ sessions'[id].points = sessions[id].points \o Head(up[c]).points
        <4>1. PICK c \in Conns :
                    /\ ServeData(c) /\ serving[c] = id
                    /\ sessions'[id].points = sessions[id].points \o Head(up[c]).points
          BY <3>2
        <4>2. Head(up[c]).points \in Seq(Points)
          BY <4>1, HeadFits DEF SystemInv, ServeData, Receives
        <4> QED BY <1>2, <4>1, <4>2, StoredTyped, MembersOfConcat
      <3> QED BY <1>2, <3>1, <3>2, StoreStep
    <2> QED BY <1>2, <2>1, <2>2 DEF PointsOf, Closed, Own, Garbage
  <1> QED BY <1>1, <1>2

\* STATE.CSV refers to a session of the server until it has ended.
LEMMA ReferredStep ==
    ASSUME SystemInv, FinishedInv, [SystemNext]_sysVarsAll, ~torn', NEW id, id # NoRemote, Referred(id)
    PROVE  Referred(id)'
  <1>1. CASE Closed(id)
    BY <1>1, StoreKeeps DEF Referred
  <1>2. CASE \E i \in DOMAIN stateFile : stateFile[i].remote = id
    <2>1. PICK i \in DOMAIN stateFile : stateFile[i].remote = id
      BY <1>2
    <2>2. AdvancesTo(stateFile')
      BY AdvancesStep, SystemStep DEF SystemInv, TrackerInv
    <2>3. CASE upload = "saveFinish" /\ stateFile[i].local = Session.local
      <3>1. Closed(id)
        BY <2>1, <2>3 DEF FinishedInv
      <3> QED BY <3>1, StoreKeeps DEF Referred
    <2>4. CASE \E j \in DOMAIN stateFile' : stateFile'[j].remote = id
      BY <2>4 DEF Referred
    <2> QED BY <2>1, <2>2, <2>3, <2>4 DEF AdvancesTo
  <1> QED BY <1>1, <1>2 DEF Referred

-----------------------------------------------------------------------------
\* What a step does to a connection

\* Steps that leave the connections of the server alone.
LEMMA ServerActions ==
    ASSUME [SystemNext]_sysVarsAll, ~torn'
    PROVE  \/ up' = up /\ handler' = handler /\ serving' = serving
           \/ Open \/ SendOk \/ SendFails
           \/ \E c \in Conns : Cut(c) \/ PeerClosed(c) \/ Serve(c)
  BY DEF SystemNext, Local, PowerOff, Arrive, Notice, Reset, ResetNotifier, NoAnswer, IdRead, AnswerRead, Finished,
         PassEnds, sysVarsAll, linkVars, serverVars

LEMMA QueueStep ==
    ASSUME SystemInv, [SystemNext]_sysVarsAll, ~torn', NEW c \in Conns
    PROVE  \/ up'[c] = up[c] /\ handler'[c] = handler[c] /\ serving'[c] = serving[c]
           \/ /\ Open /\ up'[c] = up[c] /\ up[c] = <<>> /\ handler[c] = "none"
              /\ handler'[c] = "handshake" /\ serving'[c] = 0 /\ serving[c] = 0
           \/ /\ SendOk \/ SendFails
              /\ c = attached /\ up'[c] = Append(up[c], Message)
              /\ handler'[c] = handler[c] /\ serving'[c] = serving[c] /\ handler[c] # "ended"
           \/ /\ Cut(c) \/ PeerClosed(c) \/ RefuseHandshake(c) \/ RefuseSign(c) \/ ServeSign(c)
              /\ up'[c] = <<>> /\ handler'[c] = "ended" /\ serving'[c] = serving[c]
           \/ /\ ServeFresh(c) \/ ServeReconnect(c) \/ ServeData(c) \/ ServeFinish(c)
              /\ up[c] # <<>> /\ up'[c] = Tail(up[c]) /\ handler'[c] \in {"serve", "finish"}
  <1> DEFINE Same == up'[c] = up[c] /\ handler'[c] = handler[c] /\ serving'[c] = serving[c]
  <1>1. DOMAIN up = Conns /\ DOMAIN handler = Conns /\ DOMAIN serving = Conns
    BY ConnTypes DEF SystemInv, ChannelInv
  <1>2. CASE up' = up /\ handler' = handler /\ serving' = serving
    BY <1>2
  <1>3. CASE Open
    <2>1. PICK new : /\ new = opens + 1 /\ handler' = [handler EXCEPT ![new] = "handshake"]
                     /\ up' = up /\ serving' = serving
      BY <1>3 DEF Open
    <2>2. c = new => handler[c] = "none" /\ up[c] = <<>> /\ serving[c] = 0
      BY <2>1, ConnTypes DEF SystemInv, ChannelInv, HandlerInv
    <2> QED BY <1>1, <1>3, <2>1, <2>2
  <1>4. CASE SendOk \/ SendFails
    <2>1. handler' = handler /\ serving' = serving
      BY <1>4, SayEffect DEF SystemInv
    <2> QED BY <1>4, <2>1, SayQueue DEF SystemInv
  <1>5. CASE \E d \in Conns : Cut(d) \/ PeerClosed(d) \/ RefuseHandshake(d) \/ RefuseSign(d)
                              \/ ServeSign(d)
    <2>1. PICK d \in Conns : Cut(d) \/ PeerClosed(d) \/ RefuseHandshake(d) \/ RefuseSign(d)
                              \/ ServeSign(d)
      BY <1>5
    <2>2. /\ handler' = [handler EXCEPT ![d] = "ended"] /\ up' = [up EXCEPT ![d] = <<>>]
          /\ serving' = serving
      BY <2>1 DEF Cut, PeerClosed, RefuseHandshake, RefuseSign, ServeSign, Rejects, End
    <2> QED BY <1>1, <2>1, <2>2
  <1>6. CASE \E d \in Conns : ServeFresh(d) \/ ServeReconnect(d) \/ ServeData(d) \/ ServeFinish(d)
    <2>1. PICK d \in Conns : ServeFresh(d) \/ ServeReconnect(d) \/ ServeData(d) \/ ServeFinish(d)
      BY <1>6
    <2>2. /\ \E h \in {"serve", "finish"} : handler' = [handler EXCEPT ![d] = h]
          /\ up' = [up EXCEPT ![d] = Tail(up[d])] /\ up[d] # <<>>
          /\ serving' = serving \/ \E id : serving' = [serving EXCEPT ![d] = id]
      BY <2>1 DEF ServeFresh, ServeReconnect, ServeData, ServeFinish, Goes, Receives
    <2>3. CASE c = d
      BY <1>1, <2>1, <2>2, <2>3
    <2>4. CASE c # d
      BY <1>1, <2>2, <2>4
    <2> QED BY <2>3, <2>4
  <1> QED BY <1>2, <1>3, <1>4, <1>5, <1>6, ServerActions DEF Serve

\* A connection that the server accepts had been accepted before, or its hello has just
\* been sent.  The session that it serves is the same, if it was known.
LEMMA AcceptedStep ==
    ASSUME SystemInv, OwnInv, [SystemNext]_sysVarsAll, ~torn', NEW c \in Conns, Genuine(c)'
    PROVE  \/ /\ Genuine(c) /\ Owner(c)' = Owner(c)
              /\ serving[c] # 0 => serving'[c] = serving[c]
              /\ \/ Target(c)' = Target(c) /\ (serving'[c] = serving[c] \/ Target(c) # NoRemote)
                 \/ Target(c) = NoRemote /\ serving[c] = 0 /\ serving'[c] # 0 /\ ServeFresh(c)
           \/ /\ SendOk \/ SendFails
              /\ upload = "hello" /\ c = attached /\ serving'[c] = 0 /\ serving[c] = 0
              /\ up'[c] = <<Message>>
  <1>1. /\ serving[c] \in {0} \cup DOMAIN sessions /\ c # 0
        /\ serving[c] # 0 => /\ handler[c] \in {"serve", "finish", "ended"}
                             /\ startedBy'[serving[c]] = startedBy[serving[c]]
        /\ handler[c] \in {"none", "ended"} => up[c] = <<>>
    BY ConnTypes, StoreStep DEF SystemInv, ChannelInv, LinkTypeOK, HandlerInv
  <1>2. CASE serving[c] # 0 /\ serving'[c] = serving[c]
    BY <1>1, <1>2 DEF Genuine, Owner, Target
  <1>3. CASE serving[c] = 0 /\ serving'[c] = 0 /\ up'[c] = up[c]
    <2>1. handler'[c] = "handshake" /\ up[c] # <<>> /\ up[c][1].nonce = Nonce(c, "hello")
      BY <1>3 DEF Genuine
    <2>2. handler[c] = "handshake"
      BY <1>3, <2>1, QueueStep
    <2> QED BY <1>3, <2>1, <2>2 DEF Genuine, Owner, Target
  <1>4. CASE (SendOk \/ SendFails) /\ c = attached /\ up'[c] = Append(up[c], Message)
             /\ handler'[c] = handler[c] /\ serving'[c] = serving[c] /\ serving[c] = 0
    <2>1. handler[c] = "handshake" /\ up'[c][1].nonce = Nonce(c, "hello")
      BY <1>4 DEF Genuine
    <2>2. CASE up[c] = <<>>
      <3>1. up'[c] = <<Message>> /\ up'[c][1] = Message
        BY <1>4, <2>2
      <3>2. upload \in {"hello", "data", "finish", "sign"}
        BY <1>4, MessageTyped, SayEffect DEF SystemInv, Saying
      <3>3. upload = "hello"
        <4>1. upload \in {"data", "finish", "sign"} => Talking
          BY DEF Talking, InTalk
        <4> QED BY <1>1, <1>4, <2>1, <2>2, <3>2, <4>1 DEF SystemInv, ChannelInv, TalkInv
      <3> QED BY <1>4, <3>1, <3>3
    <2>3. CASE up[c] # <<>>
      <3>1. up'[c][1] = up[c][1] /\ up'[c] # <<>>
        <4>1. \/ up'[c] = up[c] \/ up'[c][1] = up[c][1]
          BY <1>4, <2>3, SayQueue DEF SystemInv
        <4>2. up'[c] # <<>>
          <5>1. Message \in Messages /\ up[c] \in Seq(Messages)
            BY <1>4, MessageTyped, SayEffect DEF SystemInv, ChannelInv, LinkTypeOK
          <5> QED BY <1>4, <5>1, AppendProperties
        <4> QED BY <4>1, <4>2
      <3> QED BY <1>4, <2>1, <2>3, <3>1 DEF Genuine, Owner, Target
    <2> QED BY <2>2, <2>3
  <1>5. CASE ServeFresh(c) \/ ServeReconnect(c)
    <2>1. /\ handler[c] = "handshake" /\ up[c] # <<>> /\ Head(up[c]).nonce = Nonce(c, "hello")
          /\ serving[c] = 0 /\ Head(up[c]) = up[c][1] /\ Head(up[c]).local \in LocalIds
      BY <1>5, HeadFits, HeadRead
         DEF SystemInv, ChannelInv, ServeFresh, ServeReconnect, Receives
    <2>2. Genuine(c)
      BY <2>1 DEF Genuine
    <2>3. CASE ServeFresh(c)
      <3>1. /\ Store!Register /\ startedBy' = Append(startedBy, Head(up[c]).local)
            /\ serving' = [serving EXCEPT ![c] = Len(sessions')] /\ Head(up[c]).remote = NoRemote
        BY <2>3 DEF ServeFresh
      <3>2. /\ startedBy'[Len(sessions')] = Head(up[c]).local
            /\ Len(sessions') = Len(sessions) + 1 /\ Len(sessions) \in Nat
        BY <2>1, <3>1, StoreTyped DEF SystemInv
      <3>3. serving'[c] = Len(sessions')
        BY <3>1, ConnTypes DEF SystemInv, ChannelInv
      <3>4. serving'[c] # 0 /\ startedBy'[serving'[c]] = up[c][1].local
        BY <2>1, <3>2, <3>3
      <3> QED BY <2>1, <2>2, <2>3, <3>1, <3>4 DEF Owner, Target
    <2>4. CASE ServeReconnect(c)
      <3>1. /\ serving' = [serving EXCEPT ![c] = Head(up[c]).remote]
            /\ Head(up[c]).remote \in DOMAIN sessions /\ startedBy' = startedBy
        BY <2>4 DEF ServeReconnect
      <3>2. serving'[c] = up[c][1].remote
        BY <2>1, <3>1, ConnTypes DEF SystemInv, ChannelInv
      <3>3. up[c][1].remote \notin {0, NoRemote, Garbage}
        BY <2>1, <3>1, SystemTypes
      <3>4. startedBy[up[c][1].remote] = up[c][1].local
        BY <2>1, <3>3 DEF OwnInv, Own
      <3> QED BY <2>1, <2>2, <3>1, <3>2, <3>3, <3>4 DEF Owner, Target
    <2> QED BY <1>5, <2>3, <2>4
  <1>6. CASE ServeData(c) \/ ServeFinish(c)
    <2>1. handler[c] = "serve" /\ up[c] # <<>> /\ serving' = serving
      BY <1>6 DEF ServeData, ServeFinish, Receives
    <2>2. serving[c] # 0
      BY <2>1, HeadFits DEF SystemInv
    <2> QED BY <1>2, <2>1, <2>2
  <1>7. CASE handler'[c] = "ended" /\ serving'[c] = serving[c]
    <2>1. serving'[c] # 0
      BY <1>7 DEF Genuine
    <2> QED BY <1>2, <1>7, <2>1
  <1> QED BY <1>2, <1>3, <1>4, <1>5, <1>6, <1>7, QueueStep

-----------------------------------------------------------------------------
\* What a step does to the conversation

\* Steps that are not the upload actor's leave it where it is.
LEMMA UploadActions ==
    ASSUME [SystemNext]_sysVarsAll, ~torn'
    PROVE  \/ UNCHANGED <<upload, clone, cur, count, sent, connected>>
           \/ Boot \/ PowerOff \/ UploadBegin \/ NextSession \/ PassDone \/ Open \/ IdRead \/ SaveId
           \/ DataDone \/ SaveUploaded \/ Settle \/ AnswerRead \/ Finished \/ PassFailed \/ PassEnds
           \/ SendOk \/ SendFails \/ NoAnswer
  <1>1. CASE StopGnss \/ StopUpload \/ Gnss
    BY <1>1 DEF StopGnss, StopUpload, Gnss, GnssTerminate, GnssReceive, GnssNothing, GnssFix, GnssStart,
         GnssJoin, GnssAppend, uploadVars, passVars
  <1>2. CASE Arrive \/ Notice \/ Reset \/ UNCHANGED sysVarsAll
             \/ \E c \in Conns : Cut(c) \/ PeerClosed(c) \/ Serve(c)
    <2>1. UNCHANGED vars
      BY <1>2 DEF Arrive, Notice, Reset, ResetNotifier, sysVarsAll, Cut, PeerClosed, Serve, ServeFresh, ServeReconnect,
           RefuseHandshake, ServeData, ServeFinish, ServeSign, RefuseSign, Receives, trackerVars
    <2> QED BY <2>1 DEF vars, uploadVars
  <1>3. CASE Local
    BY <1>1, <1>3 DEF Local
  <1> QED BY <1>2, <1>3 DEF SystemNext

\* The local session of the pass, while there is one.
LEMMA SessionKnown ==
    ASSUME SystemInv, InSession
    PROVE  /\ cur \in DOMAIN clone /\ Session = clone[cur]
           /\ Session.local \in LocalIds /\ Session.uploaded \in Nat /\ Session.local # 0
           /\ Session.local <= boots /\ boots \in Nat
           /\ gnss # "off" /\ ~joined => Session.local < boots
           /\ count \in Nat /\ sent \in Nat /\ Session.uploaded <= count /\ count <= MaxPoints
           /\ MaxPoints \in Nat
  <1>1. cur \in DOMAIN clone /\ Session.uploaded <= count /\ count <= points[Session.local]
        /\ \A id \in LocalsOf(clone) : id <= boots
    BY DEF SystemInv, TrackerInv, Inv, CloneInv
  <1>2. Session.local \in LocalIds /\ Session.uploaded \in Nat
    BY <1>1, SessionTyped DEF SystemInv, TrackerInv
  <1>3. Session.local \in LocalsOf(clone)
    BY <1>1 DEF LocalsOf, Session
  <1>4. gnss # "off" /\ ~joined => Session.local < boots
    BY <1>3 DEF SystemInv, TrackerInv, PassInv, AheadInv
  <1>5. boots \in Nat /\ boots <= MaxBoots /\ MaxBoots \in Nat /\ MaxPoints \in Nat
        /\ points \in [1..MaxBoots -> 0..MaxPoints] /\ count \in Nat /\ sent \in Nat
    BY BoundsAssumption DEF SystemInv, TrackerInv, Inv, TypeOK, CardTypeOK, UploadTypeOK
  <1>6. Session.local <= boots /\ Session.local \in 1..MaxBoots
    BY <1>1, <1>2, <1>3, <1>5 DEF LocalIds
  <1>7. count <= MaxPoints
    BY <1>1, <1>5, <1>6
  <1> QED BY <1>1, <1>2, <1>4, <1>5, <1>6, <1>7 DEF LocalIds, Session

\* Boots are counted up, and this boot's session joins once.
LEMMA BootsStep ==
    ASSUME [SystemNext]_sysVarsAll, ~torn'
    PROVE  \/ boots' = boots /\ (gnss' # "off" /\ ~joined' => gnss # "off" /\ ~joined)
           \/ Boot \/ PowerOff
  <1>1. CASE Gnss
    BY <1>1 DEF Gnss, GnssTerminate, GnssReceive, GnssNothing, GnssFix, GnssStart, GnssJoin,
         GnssAppend, cardVars
  <1>2. CASE UNCHANGED <<boots, gnss, joined>>
    BY <1>2
  <1>3. CASE Local /\ ~Gnss /\ ~Boot
    BY <1>2, <1>3 DEF Local, StopGnss, StopUpload, UploadBegin, NextSession, PassDone, SaveId,
         DataDone, CountUploaded, SaveUploaded, Settle, PassFailed, Outside, cardVars, gnssVars
  <1>4. CASE Arrive \/ Notice \/ Reset \/ UNCHANGED sysVarsAll
             \/ \E c \in Conns : Cut(c) \/ PeerClosed(c) \/ Serve(c)
    <2>1. UNCHANGED vars
      BY <1>4 DEF Arrive, Notice, Reset, ResetNotifier, sysVarsAll, Cut, PeerClosed, Serve, ServeFresh,
           ServeReconnect, RefuseHandshake, ServeData, ServeFinish, ServeSign, RefuseSign,
           Receives, trackerVars
    <2> QED BY <1>2, <2>1 DEF vars, cardVars, gnssVars
  <1>5. CASE SendOk \/ SendFails \/ NoAnswer \/ Open \/ IdRead \/ AnswerRead \/ Finished \/ PassEnds
    BY <1>2, <1>5 DEF SendOk, SendFails, NoAnswer, Open, IdRead, AnswerRead, Finished, PassEnds,
         HelloOk, ChunkOk, FinishSent, SignSent, LinkFails, Fail, OpenOk, IdOk, AckOk,
         SaveFinish, EndPass, EndPassWith, Outside, cardVars, gnssVars
  <1> QED BY <1>1, <1>3, <1>4, <1>5 DEF SystemNext, Local

\* connected_session_id follows the conversation.
LEMMA NextConnected ==
    ASSUME SystemInv, ConnectedInv, [SystemNext]_sysVarsAll, ~torn' PROVE ConnectedInv'
  <1>1. \/ boots' = boots /\ (gnss' # "off" /\ ~joined' => gnss # "off" /\ ~joined)
        \/ Boot \/ PowerOff
    BY BootsStep
  <1>2. CASE Boot \/ PowerOff
    <2>1. boots \in Nat
      BY SystemTypes
    <2> QED BY <1>2, <2>1 DEF Boot, StartSession, PowerOff, PowerLoss, Sleep, LoseMemory, MemoryGone, CutSave, ConnectedInv
  <1>3. CASE connected' = connected /\ ~(Boot \/ PowerOff)
    <2>1. ConnectedInv!2'
      BY <1>1, <1>3 DEF ConnectedInv
    <2>2. ConnectedInv!1'
      <3>1. CASE UNCHANGED <<upload, clone, cur, count, sent, connected>>
        BY <3>1 DEF ConnectedInv, Session
      <3>2. CASE NextSession \/ DataDone \/ SaveUploaded \/ Settle \/ AnswerRead \/ SendOk
        BY <3>2 DEF NextSession, DataDone, CountUploaded, SaveUploaded, Settle, AnswerRead, AckOk,
             LinkFails, Fail, SendOk, HelloOk, ChunkOk, FinishSent, SignSent, passVars,
             ConnectedInv, Session
      <3>3. CASE UploadBegin \/ PassDone \/ Open \/ IdRead \/ Finished \/ PassFailed \/ PassEnds
                 \/ SendFails \/ NoAnswer
        BY <3>3 DEF UploadBegin, PassDone, Open, OpenOk, IdRead, IdOk, Finished, SaveFinish,
             PassFailed, PassEnds, EndPass, EndPassWith, SendFails, NoAnswer, LinkFails, Fail
      <3>4. CASE SaveId
        BY <3>4 DEF SaveId, passVars, Session
      <3> QED BY <1>3, <3>1, <3>2, <3>3, <3>4, UploadActions
    <2> QED BY <2>1, <2>2 DEF ConnectedInv
  <1>4. CASE connected' # connected /\ ~(Boot \/ PowerOff)
    <2>1. \/ SaveId \/ (SendOk /\ HelloOk) \/ PassFailed
      BY <1>4, UploadActions DEF UploadBegin, NextSession, PassDone, Open, OpenOk, IdRead, IdOk,
           DataDone, CountUploaded, SaveUploaded, Settle, AnswerRead, AckOk, LinkFails, Fail,
           Finished, SaveFinish, PassEnds, EndPass, EndPassWith, SendOk, SendFails, ChunkOk,
           FinishSent, SignSent, NoAnswer
    <2>2. CASE PassFailed
      <3>1. boots \in Nat /\ (gnss # "off" => boots > 0)
        BY SystemTypes DEF SystemInv, TrackerInv, Inv, GnssInv
      <3> QED BY <1>1, <1>4, <2>2, <3>1 DEF PassFailed, ConnectedInv
    <2>3. CASE SaveId \/ HelloOk
      <3>1. InSession /\ connected' = Session.local /\ Session' = Session
        BY <1>4, <2>3 DEF SaveId, HelloOk, InSession, Session, passVars
      <3> QED BY <1>1, <1>4, <3>1, SessionKnown DEF ConnectedInv
    <2> QED BY <2>1, <2>2, <2>3
  <1> QED BY <1>2, <1>3, <1>4

\* The conversation goes on with the same session, or begins with the hello that has
\* just been sent.
LEMMA TalkStep ==
    ASSUME SystemInv, ConnectedInv, [SystemNext]_sysVarsAll, ~torn', Talking'
    PROVE  \/ /\ Talking /\ Partner' = Partner
              /\ (upload' = "id") <=> (upload = "id" /\ ~IdRead)
           \/ /\ SendOk /\ upload = "hello" /\ Partner' = Session.local
              /\ upload' = IF Session.remote = NoRemote THEN "id" ELSE "data"
  <1>1. CASE UNCHANGED <<upload, clone, cur, count, sent, connected>>
    <2>1. ~IdRead
      BY <1>1 DEF IdRead, IdOk
    <2> QED BY <1>1, <2>1 DEF Talking, InTalk, Partner, Session
  <1>2. CASE Boot \/ PowerOff \/ PassFailed \/ SendFails \/ NoAnswer \/ Open
    BY <1>2 DEF Boot, StartSession, PowerOff, PowerLoss, Sleep, LoseMemory, MemoryGone, CutSave, PassFailed, SendFails,
         NoAnswer, LinkFails, Fail, Open, OpenOk, Talking, InTalk
  <1>3. CASE UploadBegin \/ PassDone \/ PassEnds
    BY <1>3 DEF UploadBegin, PassDone, PassEnds, EndPass, EndPassWith, Talking, InTalk, Partner, IdRead,
         IdOk
  <1>4. CASE NextSession
    <2>1. Session' = Session /\ connected = Session.local /\ upload = "next" /\ upload' = "data"
          /\ connected' = connected
      BY <1>4 DEF NextSession, Session, Talking, InTalk
    <2>2. connected # 0
      <3>1. cur \in DOMAIN clone
        BY <1>4, StatusElements DEF NextSession, SystemInv, TrackerInv, Inv, TypeOK, UploadTypeOK
      <3> QED BY <2>1, <3>1, SessionTyped DEF SystemInv, TrackerInv, LocalIds
    <2> QED BY <2>1, <2>2 DEF Talking, InTalk, Partner, IdRead, IdOk
  <1>5. CASE IdRead \/ SaveId \/ DataDone \/ SaveUploaded \/ AnswerRead
    <2>1. /\ Session' = Session
          /\ \/ upload = "id" /\ IdRead /\ upload' = "saveId"
             \/ upload = "saveId" /\ upload' = "data"
             \/ upload = "data" /\ upload' \in {"saveUploaded", "settle"}
             \/ upload = "saveUploaded" /\ upload' = "settle"
             \/ upload = "ack" /\ upload' \in {"saveFinish", "failed"}
      BY <1>5 DEF IdRead, IdOk, SaveId, DataDone, CountUploaded, SaveUploaded, AnswerRead, AckOk,
           LinkFails, Fail, passVars, Session
    <2> QED BY <2>1 DEF Talking, InTalk, Partner
  <1>6. CASE Settle \/ Finished
    <2>1. /\ upload = "settle" \/ upload = "saveFinish"
          /\ upload' = "next" \/ (upload' = "finish" /\ Session' = Session)
          /\ connected' = connected /\ ~IdRead
      BY <1>6 DEF Settle, Finished, SaveFinish, Session, IdRead, IdOk
    <2>2. connected = Session.local
      BY <2>1 DEF ConnectedInv
    <2> QED BY <2>1, <2>2 DEF Talking, InTalk, Partner
  <1>7. CASE SendOk
    <2>1. Session' = Session /\ ~IdRead
      BY <1>7 DEF SendOk, HelloOk, ChunkOk, FinishSent, SignSent, passVars, Session, IdRead, IdOk,
           Sending
    <2>2. upload' # "failed" /\ Sending
          /\ (upload = "hello" => upload' = IF Session.remote = NoRemote THEN "id" ELSE "data")
          /\ (upload = "data" => upload' = "data") /\ (upload = "finish" => upload' = "sign")
          /\ (upload = "sign" => upload' = "ack")
      BY <1>7 DEF SendOk, HelloOk, ChunkOk, FinishSent, SignSent
    <2> QED BY <1>7, <2>1, <2>2 DEF Talking, InTalk, Partner, Sending
  <1> QED BY <1>1, <1>2, <1>3, <1>4, <1>5, <1>6, <1>7, UploadActions

\* Only a new connection is attached, and only when nothing is said on it yet.
LEMMA AttachedStep ==
    ASSUME [SystemNext]_sysVarsAll, ~torn', attached' # 0, Talking' PROVE attached' = attached
  <1>1. ~Open
    BY DEF Open, OpenOk, Talking, InTalk
  <1>2. attached' = 0 \/ attached' = attached
    BY <1>1 DEF SystemNext, Local, PowerOff, Detach, Arrive, Notice, Reset, ResetNotifier, SendOk, SendFails, NoAnswer,
         IdRead, AnswerRead, Finished, PassEnds, Cut, PeerClosed, Serve, ServeFresh,
         ServeReconnect, RefuseHandshake, ServeData, ServeFinish, ServeSign, RefuseSign,
         Receives, sysVarsAll, linkVars
  <1> QED BY <1>2

\* The number that the actor reads as the id is the one of the session that the server
\* has registered for it, or none that the server has given out.
LEMMA IdReadIsOwn ==
    ASSUME SystemInv, PartnerInv, IdRead, NEW remote, remote = IdIn(SubSeq(inbox, 1, 2))
    PROVE  /\ Own(remote, Session.local)
           /\ attached # 0 /\ Genuine(attached) =>
                serving[attached] # 0 /\ remote = serving[attached]
  <1> DEFINE units == SubSeq(inbox, 1, 2)
  <1>1. /\ Talking /\ Partner = Session.local /\ upload = "id"
        /\ units \in Seq(Units) /\ Len(units) = 2 /\ units[1] = inbox[1] /\ units[2] = inbox[2]
        /\ 1 \in DOMAIN inbox /\ 2 \in DOMAIN inbox
    <2>1. Take(2) /\ upload = "id"
      BY DEF IdRead, IdOk
    <2>2. /\ units \in Seq(Units) /\ Len(units) = 2 /\ Len(inbox) >= 2 /\ Len(inbox) \in Nat
          /\ DOMAIN inbox = 1..Len(inbox) /\ \A i \in 1..2 : units[i] = inbox[i]
      <3>1. Expected = 2
        BY <2>1 DEF Expected
      <3> QED BY <2>1, <3>1, TakeUnits DEF SystemInv
    <2> QED BY <2>1, <2>2 DEF Talking, InTalk, Partner
  <1> HIDE DEF units
  <1>2. \A i \in 1..2 : inbox[i][1] # "hello" => Awaits(inbox[i]) /\ inbox[i][3] = i
    BY <1>1 DEF SystemInv, ChannelInv, InboxInv
  <1>3. ASSUME NEW i \in 1..2, Awaits(inbox[i]), inbox[i][3] = i
        PROVE  /\ attached # 0 /\ attached \in Conns /\ serving[attached] \in DOMAIN sessions
               /\ serving[attached] \in Conns /\ inbox[i] = <<"id", serving[attached], i>>
    <2>1. /\ attached # 0 /\ serving[attached] # 0 /\ inbox[i] \in Members(SessionId(serving[attached]))
      BY <1>1, <1>3 DEF Awaits
    <2>2. attached \in Conns /\ serving[attached] \in DOMAIN sessions
          /\ serving[attached] \in Conns
      BY <2>1, SystemTypes DEF Conns
    <2>3. DOMAIN SessionId(serving[attached]) = 1..2
      BY DEF SessionId
    <2>4. PICK k \in 1..2 : inbox[i] = SessionId(serving[attached])[k]
      BY <2>1, <2>3 DEF Members
    <2>5. inbox[i] = <<"id", serving[attached], k>>
      BY <2>4 DEF SessionId
    <2> QED BY <1>3, <2>1, <2>2, <2>5
  <1>4. ASSUME NEW id \in Conns, units = SessionId(id)
        PROVE  attached # 0 /\ id = serving[attached] /\ id \in DOMAIN sessions
    <2>1. units[1] = <<"id", id, 1>>
      BY <1>4 DEF SessionId
    <2>2. inbox[1] = <<"id", id, 1>>
      BY <1>1, <2>1
    <2>3. inbox[1][1] # "hello" /\ inbox[1][2] = id /\ 1 \in 1..2
      BY <2>2
    <2>4. Awaits(inbox[1]) /\ inbox[1][3] = 1
      BY <1>2, <2>3
    <2>5. /\ attached # 0 /\ serving[attached] \in DOMAIN sessions
          /\ inbox[1] = <<"id", serving[attached], 1>>
      BY <1>3, <2>3, <2>4
    <2> QED BY <2>2, <2>5
  <1>5. remote = Garbage \/ (remote \in Conns /\ units = SessionId(remote))
    <2>1. remote = IdIn(units)
      BY DEF units
    <2>2. CASE \E id \in Conns : units = SessionId(id)
      <3> DEFINE Is(id) == id \in Conns /\ units = SessionId(id)
      <3>1. remote = CHOOSE id : Is(id)
        BY <2>1, <2>2 DEF IdIn
      <3>2. \E id : Is(id)
        BY <2>2
      <3> HIDE DEF Is
      <3>3. Is(remote)
        BY <3>1, <3>2
      <3> QED BY <3>3 DEF Is
    <2>3. CASE ~\E id \in Conns : units = SessionId(id)
      BY <2>1, <2>3 DEF IdIn
    <2> QED BY <2>2, <2>3
  <1>6. CASE attached # 0 /\ Genuine(attached)
    <2>1. inbox[1][1] # "hello" /\ inbox[2][1] # "hello"
      BY <1>1, <1>6 DEF SystemInv, ChannelInv, InboxInv
    <2>2. /\ serving[attached] \in DOMAIN sessions /\ serving[attached] \in Conns
          /\ inbox[1] = <<"id", serving[attached], 1>> /\ inbox[2] = <<"id", serving[attached], 2>>
      BY <1>2, <1>3, <2>1
    <2>3. units = SessionId(serving[attached])
      <3>1. SessionId(serving[attached]) \in Seq(Units) /\ Len(SessionId(serving[attached])) = 2
            /\ \A i \in 1..2 : SessionId(serving[attached])[i] = <<"id", serving[attached], i>>
        BY <2>2, SessionIdProperties, SystemTypes
      <3>2. \A i \in 1..Len(units) : units[i] = SessionId(serving[attached])[i]
        <4>1. /\ units[1] = SessionId(serving[attached])[1]
              /\ units[2] = SessionId(serving[attached])[2]
          BY <1>1, <2>2, <3>1
        <4>2. \A i \in 1..Len(units) : i = 1 \/ i = 2
          BY <1>1
        <4> QED BY <4>1, <4>2
      <3> DEFINE t == SessionId(serving[attached])
      <3>3. t \in Seq(Units) /\ Len(units) = Len(t) /\ \A i \in 1..Len(units) : units[i] = t[i]
        BY <1>1, <3>1, <3>2
      <3>4. units \in Seq(Units)
        BY <1>1
      <3> HIDE DEF t
      <3>5. units = t
        BY <3>3, <3>4, SeqEqual
      <3> QED BY <3>5 DEF t
    <2>4. remote = serving[attached]
      BY <1>4, <2>2, <2>3 DEF IdIn, units
    <2>5. serving[attached] # 0
      BY <2>2, SystemTypes
    <2>6. startedBy[remote] = Session.local
      BY <1>1, <1>6, <2>4, <2>5 DEF PartnerInv, Owner
    <2> QED BY <2>2, <2>4, <2>5, <2>6 DEF Own
  <1>7. CASE ~(attached # 0 /\ Genuine(attached))
    <2>1. remote = Garbage
      <3>1. ASSUME remote \in Conns, units = SessionId(remote) PROVE FALSE
        <4>1. attached # 0 /\ remote = serving[attached] /\ remote \in DOMAIN sessions
          BY <1>4, <3>1
        <4>2. serving[attached] # 0
          BY <4>1, SystemTypes
        <4> QED BY <1>7, <4>1, <4>2 DEF Genuine
      <3> QED BY <1>5, <3>1
    <2> QED BY <1>7, <2>1 DEF Own
  <1> QED BY <1>6, <1>7

\* Remote ids stay those of the server's sessions.
LEMMA NextOwn ==
    ASSUME SystemInv, OwnInv, PartnerInv, [SystemNext]_sysVarsAll, ~torn' PROVE OwnInv'
  <1> DEFINE Owned(remote, local) ==
           \/ remote \in {NoRemote, Garbage}
           \/ remote \in DOMAIN sessions' /\ startedBy'[remote] = local
  <1>1. \A remote, local : Own(remote, local) => Owned(remote, local)
    BY StoreStep DEF Own
  <1>2. \A i \in DOMAIN status' : Owned(status'[i].remote, status'[i].local)
    <2> SUFFICES ASSUME NEW i \in DOMAIN status' PROVE Owned(status'[i].remote, status'[i].local)
      OBVIOUS
    <2>1. CASE \/ \E k \in DOMAIN status : status'[i] = status[k]
               \/ \E k \in DOMAIN stateFile : status'[i] = stateFile[k]
      <3>1. Own(status'[i].remote, status'[i].local)
        BY <2>1 DEF OwnInv
      <3> QED BY <1>1, <3>1
    <2>2. CASE status'[i].remote = NoRemote
      BY <2>2
    <2>3. CASE IdRead /\ status'[i].local = Session.local /\ status'[i].remote = IdIn(SubSeq(inbox, 1, 2))
      <3>1. Own(status'[i].remote, status'[i].local)
        BY <2>3, IdReadIsOwn
      <3> QED BY <1>1, <3>1
    <2>4. CASE i \in DOMAIN status /\ status[i].local = Session.local
               /\ status'[i].local = Session.local /\ status'[i].remote = status[i].remote
      <3>1. Own(status'[i].remote, status'[i].local)
        BY <2>4 DEF OwnInv
      <3> QED BY <1>1, <3>1
    <2> QED BY <2>1, <2>2, <2>3, <2>4, EntryStep
  <1>3. \A i \in DOMAIN stateFile' : Owned(stateFile'[i].remote, stateFile'[i].local)
    <2>1. CASE stateFile' = stateFile
      BY <1>1, <2>1 DEF OwnInv
    <2>2. CASE stateFile' = status'
      BY <1>2, <2>2
    <2> QED BY <2>1, <2>2, SavedEntryStep
  <1>4. \A i \in DOMAIN clone' : Owned(clone'[i].remote, clone'[i].local)
    <2>1. clone' \in {clone, status, <<>>}
      BY UploadActions DEF Boot, StartSession, PowerOff, PowerLoss, Sleep, LoseMemory, MemoryGone, CutSave, UploadBegin,
         NextSession, PassDone, Open, OpenOk, IdRead, IdOk, SaveId, DataDone, CountUploaded,
         SaveUploaded, Settle, AnswerRead, AckOk, LinkFails, Fail, Finished, SaveFinish,
         PassFailed, PassEnds, EndPass, EndPassWith, SendOk, HelloOk, ChunkOk, FinishSent,
         SignSent, SendFails, NoAnswer, passVars
    <2> QED BY <1>1, <2>1, EmptyStatus DEF OwnInv
  <1>5. ASSUME NEW c \in Conns, handler'[c] = "handshake", up'[c] # <<>>
        PROVE  Owned(up'[c][1].remote, up'[c][1].local)
    <2>1. CASE up'[c] = up[c] /\ handler'[c] = handler[c]
      <3>1. Own(up'[c][1].remote, up'[c][1].local)
        BY <1>5, <2>1 DEF OwnInv
      <3> QED BY <1>1, <3>1
    <2>2. CASE (SendOk \/ SendFails) /\ up'[c] = Append(up[c], Message) /\ handler'[c] = handler[c]
      <3>1. CASE up[c] = <<>>
        <4>1. up'[c] = <<Message>> /\ up'[c][1] = Message
          BY <2>2, <3>1
        <4>2. /\ Saying
              /\ upload = "hello" => /\ Message.remote = Session.remote
                                     /\ Message.local = Session.local
          BY <2>2, MessageTyped, SayEffect DEF SystemInv
        <4>3. upload = "hello"
          <5>1. 1 \in DOMAIN up'[c]
            BY <4>1
          <5>2. up'[c][1].kind = "hello"
            BY <1>5, <5>1, NextSystem DEF SystemInv, ChannelInv, HandlerInv
          <5> QED BY <2>2, <4>1, <4>2, <5>2, MessageTyped, SayEffect DEF SystemInv, Saying
        <4>4. cur \in DOMAIN clone
          BY <4>3, SessionKnown DEF InSession
        <4>5. Own(up'[c][1].remote, up'[c][1].local)
          BY <4>1, <4>2, <4>3, <4>4 DEF OwnInv, Session
        <4> QED BY <1>1, <4>5
      <3>2. CASE up[c] # <<>>
        <4>1. up'[c][1] = up[c][1] \/ up'[c] = up[c]
          BY <3>2, <2>2, SayQueue DEF SystemInv
        <4>2. Own(up'[c][1].remote, up'[c][1].local)
          BY <1>5, <2>2, <3>2, <4>1 DEF OwnInv
        <4> QED BY <1>1, <4>2
      <3> QED BY <3>1, <3>2
    <2> QED BY <1>5, <2>1, <2>2, QueueStep
  <1> QED BY <1>2, <1>3, <1>4, <1>5 DEF OwnInv, Own, Garbage

\* The actor and the server agree on the session they talk about.
LEMMA NextPartner ==
    ASSUME SystemInv, OwnInv, ConnectedInv, PartnerInv, [SystemNext]_sysVarsAll, ~torn'
    PROVE  PartnerInv'
  <1>1. SUFFICES ASSUME Talking', attached' # 0, Genuine(attached)'
                 PROVE  /\ Owner(attached)' = Partner'
                        /\ upload' = "id" /\ (serving[attached])' = 0 =>
                             Target(attached)' = NoRemote
                        /\ upload' # "id" =>
                             /\ Target(attached)' # NoRemote
                             /\ \A i \in DOMAIN status' : status'[i].local = Partner' =>
                                  status'[i].remote = Target(attached)'
    BY DEF PartnerInv
  <1>2. PICK c : c = attached
    OBVIOUS
  <1>3. c \in Conns /\ attached' = c
    BY <1>1, <1>2, AttachedStep, SystemTypes
  <1>4. Genuine(c)'
    BY <1>1, <1>3 DEF Genuine
  <1>5. Owner(attached)' = Owner(c)' /\ Target(attached)' = Target(c)'
    BY <1>3 DEF Owner, Target
  <1>6. upload = "hello" => ~Genuine(c)
    BY <1>2 DEF SystemInv, ChannelInv, HelloInv, Genuine
  <1>7. ASSUME Talking, Partner' = Partner, (upload' = "id") <=> (upload = "id" /\ ~IdRead)
        PROVE  /\ Owner(c)' = Partner'
               /\ upload' = "id" /\ serving'[c] = 0 => Target(c)' = NoRemote
               /\ upload' # "id" =>
                    /\ Target(c)' # NoRemote
                    /\ \A i \in DOMAIN status' : status'[i].local = Partner' =>
                         status'[i].remote = Target(c)'
    <2>1. upload # "hello"
      BY <1>7 DEF Talking, InTalk
    <2>2. /\ Genuine(c) /\ Owner(c)' = Owner(c)
          /\ serving[c] # 0 => serving'[c] = serving[c]
          /\ \/ Target(c)' = Target(c) /\ (serving'[c] = serving[c] \/ Target(c) # NoRemote)
             \/ Target(c) = NoRemote /\ serving[c] = 0 /\ serving'[c] # 0 /\ ServeFresh(c)
      BY <1>3, <1>4, <2>1, AcceptedStep
    <2>3. /\ Owner(c) = Partner
          /\ upload = "id" /\ serving[c] = 0 => Target(c) = NoRemote
          /\ upload # "id" => /\ Target(c) # NoRemote
                              /\ \A i \in DOMAIN status : status[i].local = Partner =>
                                   status[i].remote = Target(c)
      BY <1>2, <1>3, <1>7, <2>2, SystemTypes DEF PartnerInv
    <2>4. upload' = "id" /\ serving'[c] = 0 => Target(c)' = NoRemote
      BY <1>7, <2>2, <2>3
    <2>5. CASE upload' # "id" /\ upload # "id"
      <3>1. Target(c)' = Target(c) /\ Target(c) # NoRemote
        BY <2>2, <2>3, <2>5
      <3>2. ASSUME NEW i \in DOMAIN status', status'[i].local = Partner'
            PROVE  status'[i].remote = Target(c)
        <4>1. ~Boot
          BY <1>1 DEF Boot, StartSession, Talking, InTalk
        <4>2. GnssJoin /\ ~joined => Partner # boots
          <5>1. GnssJoin => gnss # "off"
            BY DEF GnssJoin
          <5>2. InTalk => InSession
            BY DEF InTalk, InSession
          <5>3. boots \in Nat /\ (InTalk /\ gnss # "off" /\ ~joined => Session.local < boots)
            BY <5>2, SystemTypes, SessionKnown
          <5>4. Session.local \in Nat \/ ~InTalk
            BY <5>2, SessionKnown DEF LocalIds
          <5>5. connected \in Nat
            BY BoundsAssumption DEF SystemInv, TrackerInv, Inv, TypeOK, UploadTypeOK
          <5> QED BY <5>1, <5>3, <5>4, <5>5 DEF Partner, ConnectedInv
        <4>3. ~IdRead
          BY <2>5 DEF IdRead, IdOk
        <4> QED BY <1>7, <2>3, <2>5, <3>2, <4>1, <4>2, <4>3, EntryStep
      <3> QED BY <1>7, <2>2, <2>3, <2>4, <2>5, <3>1, <3>2
    <2>6. CASE upload' # "id" /\ upload = "id"
      <3>1. IdRead /\ serving' = serving /\ up' = up
        BY <1>7, <2>6 DEF IdRead, serverVars
      <3>2. serving[c] # 0 /\ IdIn(SubSeq(inbox, 1, 2)) = serving[c]
        BY <1>2, <1>3, <2>2, <3>1, IdReadIsOwn, SystemTypes
      <3>3. Target(c)' = serving[c] /\ serving[c] # NoRemote
        BY <1>3, <3>1, <3>2, SystemTypes DEF Target
      <3>4. Partner = Session.local
        BY <2>6 DEF Partner, InTalk
      <3>5. \A i \in DOMAIN status' : status'[i].local = Session.local =>
              status'[i].remote = serving[c]
        BY <3>1, <3>2, IdReadEntry
      <3> QED BY <1>7, <2>2, <2>3, <2>4, <3>3, <3>4, <3>5
    <2>7. CASE upload' = "id"
      BY <2>2, <2>3, <2>4, <2>7, <1>7
    <2> QED BY <2>5, <2>6, <2>7
  <1>8. ASSUME SendOk, upload = "hello", Partner' = Session.local,
               upload' = IF Session.remote = NoRemote THEN "id" ELSE "data"
        PROVE  /\ Owner(c)' = Partner'
               /\ upload' = "id" /\ serving'[c] = 0 => Target(c)' = NoRemote
               /\ upload' # "id" =>
                    /\ Target(c)' # NoRemote
                    /\ \A i \in DOMAIN status' : status'[i].local = Partner' =>
                         status'[i].remote = Target(c)'
    <2>1. serving'[c] = 0 /\ up'[c] = <<Message>>
      BY <1>3, <1>4, <1>6, <1>8, AcceptedStep
    <2>2. Message.remote = Session.remote /\ Message.local = Session.local
      <3>1. Sending /\ (Expected > 0 => Take(Expected))
        BY <1>8, SayEffect DEF SystemInv
      <3> QED BY <1>8, <3>1, MessageTyped DEF SystemInv
    <2>3. Owner(c)' = Session.local /\ Target(c)' = Session.remote
      BY <2>1, <2>2 DEF Owner, Target
    <2>4. status' = status
      BY <1>8 DEF SendOk, HelloOk, ChunkOk, FinishSent, SignSent
    <2>5. \A i \in DOMAIN status : status[i].local = Session.local =>
            status[i].remote = Session.remote
      <3>1. InSession /\ InPass /\ Unnamed
        BY <1>8 DEF InSession, InPass, Unnamed
      <3>2. cur \in DOMAIN clone /\ Session = clone[cur] /\ cur >= cur
        BY <3>1, SessionKnown DEF SystemInv, TrackerInv, Inv, TypeOK, UploadTypeOK
      <3> QED BY <3>1, <3>2 DEF SystemInv, TrackerInv, PassInv, SameInv
    <2> QED BY <1>8, <2>3, <2>4, <2>5
  <1> QED BY <1>1, <1>3, <1>5, <1>7, <1>8, TalkStep

-----------------------------------------------------------------------------
\* What is under way

\* A message under way was under way, or has just been sent.
LEMMA MessageStep ==
    ASSUME SystemInv, [SystemNext]_sysVarsAll, ~torn', NEW c \in Conns, NEW i \in DOMAIN up'[c]
    PROVE  \/ \E j \in DOMAIN up[c] : up'[c][i] = up[c][j]
           \/ (SendOk \/ SendFails) /\ c = attached /\ up'[c][i] = Message
  <1>1. CASE up'[c] = up[c]
    BY <1>1
  <1>2. CASE SendOk \/ SendFails
    BY <1>2, SayQueue DEF SystemInv
  <1>3. CASE up'[c] = <<>>
    BY <1>3
  <1>4. CASE up[c] # <<>> /\ up'[c] = Tail(up[c])
    BY <1>4, HeadRead DEF SystemInv, ChannelInv
  <1> QED BY <1>1, <1>2, <1>3, <1>4, QueueStep

\* At the end of a session the card has it no more than the status does.
LEMMA NextFinished ==
    ASSUME SystemInv, PartnerInv, FinishedInv, [SystemNext]_sysVarsAll, ~torn' PROVE FinishedInv'
  <1>1. SUFFICES ASSUME upload' = "saveFinish", NEW i \in DOMAIN stateFile',
                        stateFile'[i].local = Session'.local
                 PROVE  \E id : id = stateFile'[i].remote /\ Closed(id)'
    BY DEF FinishedInv, Closed
  <1>2. CASE UNCHANGED <<upload, clone, cur, count, sent, connected>>
    <2>1. upload = "saveFinish" /\ Session' = Session /\ InSession /\ InPass
      BY <1>1, <1>2 DEF Session, InSession, InPass
    <2>2. CASE stateFile' = stateFile
      <3>1. Closed(stateFile[i].remote)
        BY <1>1, <2>1, <2>2 DEF FinishedInv
      <3> QED BY <2>2, <3>1, StoreKeeps
    <2>3. CASE GnssJoin /\ ~joined /\ status' = AddSession(status, boots) /\ stateFile' = status'
      <3>1. cur \in DOMAIN clone /\ Session = clone[cur] /\ Session.local < boots
            /\ Session.local \in LocalIds /\ boots \in Nat
        BY <2>1, <2>3, SessionKnown DEF GnssJoin
      <3>2. PICK k \in DOMAIN status : status'[i] = status[k]
        <4>1. ~Boot /\ ~IdRead /\ ~DataDone
          BY <2>1 DEF Boot, StartSession, SystemInv, TrackerInv, CardInv, IdRead, IdOk, DataDone,
               CountUploaded
        <4>2. status'[i].local # boots
          BY <1>1, <2>1, <2>3, <3>1 DEF LocalIds
        <4> QED BY <1>1, <2>3, <4>1, <4>2, EntryStep
      <3>3. status[k].local = Session.local
        BY <1>1, <2>1, <2>3, <3>2
      <3>4. PICK j \in DOMAIN clone : Ahead(j) /\ status[k].local = clone[j].local
        BY <2>1, <3>1, <3>3 DEF SystemInv, TrackerInv, PassInv, AheadInv, LocalIds
      <3>5. j = cur
        BY <3>1, <3>3, <3>4, OneEntry, SystemTypes
      <3> QED BY <2>1, <3>4, <3>5 DEF Ahead
    <2>4. stateFile' = stateFile \/ (GnssJoin /\ ~joined /\ status' = AddSession(status, boots)
                                      /\ stateFile' = status')
      <3>1. ~SaveId /\ ~SaveUploaded /\ ~SaveFinish
        BY <1>1, <2>1 DEF SaveId, SaveUploaded, SaveFinish
      <3> QED BY <3>1, StatusStep
    <2> QED BY <2>2, <2>3, <2>4
  <1>3. CASE AnswerRead
    <2>1. /\ upload = "ack" /\ Take(1) /\ SubSeq(inbox, 1, 1) = Confirmation
          /\ UNCHANGED <<stateFile, sessions>> /\ Session' = Session
      BY <1>1, <1>3 DEF AnswerRead, AckOk, LinkFails, Fail, Outside, cardVars, passVars, Session,
           serverVars
    <2>2. 1 \in DOMAIN inbox /\ inbox[1] = <<"one", 0, 1>>
      <3>1. Len(inbox) >= 1 /\ Len(inbox) \in Nat /\ DOMAIN inbox = 1..Len(inbox)
            /\ \A k \in 1..1 : SubSeq(inbox, 1, 1)[k] = inbox[k]
        <4>1. Expected = 1
          BY <2>1 DEF Expected
        <4> QED BY <2>1, <4>1, TakeUnits DEF SystemInv
      <3> QED BY <2>1, <3>1, ConfirmationProperties
    <2>3. Talking /\ Partner = Session.local
      BY <2>1 DEF Talking, InTalk, Partner
    <2>4. Awaits(inbox[1])
      BY <2>2, <2>3 DEF SystemInv, ChannelInv, InboxInv
    <2>5. attached # 0 /\ serving[attached] # 0 /\ Closed(serving[attached])
      BY <2>1, <2>4 DEF Awaits
    <2>6. stateFile[i].remote = serving[attached]
      <3>1. stateFile = status
        BY <2>1 DEF SystemInv, TrackerInv, CardInv, SavedInSync
      <3>2. Genuine(attached) /\ Target(attached) = serving[attached]
        BY <2>5 DEF Genuine, Target
      <3> QED BY <1>1, <2>1, <2>3, <2>5, <3>1, <3>2 DEF PartnerInv
    <2> QED BY <2>1, <2>5, <2>6 DEF Closed
  <1>4. CASE ~AnswerRead /\ ~UNCHANGED <<upload, clone, cur, count, sent, connected>>
    <2>1. upload' # "saveFinish"
      <3>1. CASE Boot \/ PowerOff \/ UploadBegin \/ NextSession \/ PassDone \/ Open \/ IdRead \/ SaveId
                 \/ DataDone \/ SaveUploaded \/ Settle
        BY <3>1 DEF Boot, StartSession, PowerOff, PowerLoss, Sleep, LoseMemory, MemoryGone, CutSave, UploadBegin,
             NextSession, PassDone, Open, OpenOk, IdRead, IdOk, SaveId, DataDone, CountUploaded,
             SaveUploaded, Settle
      <3>2. CASE Finished \/ PassFailed \/ PassEnds \/ SendFails \/ NoAnswer
        BY <3>2 DEF Finished, SaveFinish, PassFailed, PassEnds, EndPass, EndPassWith, SendFails,
             NoAnswer, LinkFails, Fail
      <3>3. CASE SendOk
        BY <3>3 DEF SendOk, HelloOk, ChunkOk, FinishSent, SignSent, Sending
      <3> QED BY <1>4, <3>1, <3>2, <3>3, UploadActions
    <2> QED BY <1>1, <2>1
  <1> QED BY <1>2, <1>3, <1>4

\* Points under way to a session that STATE.CSV refers to stay so.
LEMMA CarriedStep ==
    ASSUME SystemInv, OwnInv, FinishedInv, CarryInv, [SystemNext]_sysVarsAll, ~torn',
           NEW c \in Conns, Genuine(c)', NEW i \in DOMAIN up[c], up[c][i].kind = "data", Genuine(c)
    PROVE  /\ Owner(c)' = Owner(c) /\ Target(c)' = Target(c) /\ Target(c) # NoRemote
           /\ Referred(Target(c))'
           /\ \A k \in DOMAIN status' :
                status'[k].local = Owner(c) => status'[k].remote = Target(c)
           /\ \A k \in DOMAIN stateFile' :
                stateFile'[k].local = Owner(c) => stateFile'[k].remote = Target(c)
           /\ Owner(c) <= boots' /\ (gnss' # "off" /\ ~joined' => Owner(c) < boots')
  <1>1. /\ Target(c) # NoRemote /\ Referred(Target(c))
        /\ \A entries \in {status, stateFile} : \A k \in DOMAIN entries :
             entries[k].local = Owner(c) => entries[k].remote = Target(c)
        /\ Owner(c) <= boots /\ (gnss # "off" /\ ~joined => Owner(c) < boots)
    BY DEF CarryInv
  <1>2. up[c] # <<>>
    OBVIOUS
  <1>3. Owner(c)' = Owner(c) /\ Target(c)' = Target(c)
    <2>1. ~(upload = "hello" /\ c = attached)
      BY <1>2 DEF SystemInv, ChannelInv, HelloInv
    <2> QED BY <1>1, <2>1, AcceptedStep
  <1>4. Referred(Target(c))'
    <2>1. PICK id : id = Target(c)
      OBVIOUS
    <2>2. Referred(id)'
      BY <1>1, <2>1, ReferredStep
    <2> QED BY <1>3, <2>1, <2>2 DEF Referred, Closed
  <1>5. boots \in Nat /\ Owner(c) \in LocalIds
    <2>1. startedBy \in Seq(LocalIds) /\ Len(startedBy) = Len(sessions)
          /\ sessions \in Seq([live : BOOLEAN, points : Seq(Points)])
      BY DEF SystemInv, ChannelInv, LinkTypeOK
    <2>2. DOMAIN sessions = DOMAIN startedBy
      BY <2>1, LenProperties
    <2>3. serving[c] # 0 => startedBy[serving[c]] \in LocalIds
      BY <2>1, <2>2, SystemTypes, ElementOfSeq, LenProperties
    <2>4. serving[c] = 0 => up[c][1].local \in LocalIds
      BY <1>2, HeadFits, HeadRead DEF SystemInv, ChannelInv, Genuine
    <2> QED BY <2>3, <2>4, SystemTypes DEF Owner
  <1>6. ASSUME NEW k \in DOMAIN status', status'[k].local = Owner(c)
        PROVE  status'[k].remote = Target(c)
    <2>1. ~(GnssJoin /\ ~joined /\ status'[k].local = boots)
      BY <1>1, <1>5, <1>6 DEF GnssJoin, LocalIds
    <2>2. ~(IdRead /\ k \in DOMAIN status /\ status[k].local = Session.local
            /\ status'[k].local = Session.local)
      <3> SUFFICES ASSUME IdRead, k \in DOMAIN status, status[k].local = Session.local,
                          status'[k].local = Session.local
                   PROVE  FALSE
        OBVIOUS
      <3>1. upload = "id" /\ InSession /\ InPass /\ Unnamed
        BY DEF IdRead, IdOk, InSession, InPass, Unnamed
      <3>2. cur \in DOMAIN clone /\ Session = clone[cur] /\ cur >= cur
        BY <3>1, SessionKnown DEF SystemInv, TrackerInv, Inv, TypeOK, UploadTypeOK
      <3>3. status[k].remote = NoRemote
        BY <3>1, <3>2 DEF SystemInv, TrackerInv, PassInv, SameInv
      <3> QED BY <1>1, <1>6, <3>3
    <2> QED BY <1>1, <1>6, <2>1, <2>2, EntryStep
  <1>7. \A k \in DOMAIN stateFile' :
          stateFile'[k].local = Owner(c) => stateFile'[k].remote = Target(c)
    BY <1>1, <1>6, SavedEntryStep
  <1>8. Owner(c) <= boots' /\ (gnss' # "off" /\ ~joined' => Owner(c) < boots')
    <2>1. CASE Boot \/ PowerOff
      BY <1>1, <1>5, <2>1 DEF Boot, StartSession, PowerOff, PowerLoss, Sleep, LoseMemory, MemoryGone, CutSave, cardVars,
           LocalIds
    <2> QED BY <1>1, <2>1, BootsStep
  <1> QED BY <1>1, <1>3, <1>4, <1>6, <1>7, <1>8

\* The same holds of the points that are just sent.
LEMMA SentStep ==
    ASSUME SystemInv, ConnectedInv, PartnerInv, SendOk \/ SendFails, upload = "data",
           attached # 0, Genuine(attached)
    PROVE  /\ Members(Message.points) \subseteq {Owner(attached)} \X (1..MaxPoints)
           /\ Owner(attached) = Session.local /\ Target(attached) # NoRemote
           /\ \A k \in DOMAIN status :
                status[k].local = Owner(attached) => status[k].remote = Target(attached)
           /\ stateFile = status /\ UNCHANGED <<status, stateFile, boots, gnss, joined>>
           /\ \E k \in DOMAIN stateFile : stateFile[k].remote = Target(attached)
           /\ Owner(attached) <= boots /\ (gnss # "off" /\ ~joined => Owner(attached) < boots)
  <1>1. Talking /\ Partner = Session.local /\ InSession /\ InPass /\ upload # "id"
    BY DEF Talking, InTalk, Partner, InSession, InPass
  <1>2. /\ Owner(attached) = Session.local /\ Target(attached) # NoRemote
        /\ \A k \in DOMAIN status :
             status[k].local = Owner(attached) => status[k].remote = Target(attached)
    BY <1>1 DEF PartnerInv
  <1>3. Sending /\ (Expected > 0 => Take(Expected))
    BY SayEffect DEF SystemInv
  <1>4. Members(Message.points) \subseteq {Session.local} \X (1..MaxPoints)
    <2>1. Message.points = NextChunk
      BY <1>3, MessageTyped DEF SystemInv
    <2>2. /\ ChunkSize \in Nat \ {0} /\ sent + ChunkSize <= Missing
          /\ NextChunk \in Seq(Points) /\ Len(NextChunk) = ChunkSize
          /\ \A i \in 1..ChunkSize : NextChunk[i] = <<Session.local, Session.uploaded + sent + i>>
      BY <1>3, ChunkProperties DEF SystemInv, TrackerInv, Sending
    <2>3. DOMAIN NextChunk = 1..ChunkSize
      BY <2>2, LenProperties
    <2>4. /\ Session.uploaded \in Nat /\ count \in Nat /\ sent \in Nat /\ count <= MaxPoints
          /\ MaxPoints \in Nat /\ Missing = count - Session.uploaded
      BY <1>1, SessionKnown DEF Missing
    <2>5. \A i \in 1..ChunkSize : Session.uploaded + sent + i \in 1..MaxPoints
      BY <2>2, <2>4
    <2>6. ASSUME NEW p \in Members(NextChunk) PROVE p \in {Session.local} \X (1..MaxPoints)
      <3>1. PICK i \in 1..ChunkSize : p = NextChunk[i]
        BY <2>3 DEF Members
      <3>2. PICK n \in 1..MaxPoints : p = <<Session.local, n>>
        BY <2>2, <2>5, <3>1
      <3> QED BY <3>2
    <2> QED BY <2>1, <2>6
  <1>5. stateFile = status
    BY DEF SystemInv, TrackerInv, CardInv, SavedInSync
  <1>6. UNCHANGED <<status, stateFile, boots, gnss, joined>>
    BY DEF SendOk, SendFails, HelloOk, ChunkOk, FinishSent, SignSent, LinkFails, Fail, Outside,
         cardVars, gnssVars
  <1>7. \E k \in DOMAIN stateFile : stateFile[k].remote = Target(attached)
    <2>1. cur \in DOMAIN clone /\ Session = clone[cur] /\ Ahead(cur)
      BY <1>1, SessionKnown DEF Ahead, SystemInv, TrackerInv, Inv, TypeOK, UploadTypeOK
    <2>2. Session.local \in LocalsOf(status)
      BY <1>1, <2>1 DEF SystemInv, TrackerInv, PassInv, AheadInv
    <2>3. PICK k \in DOMAIN status : status[k].local = Session.local
      BY <2>2 DEF LocalsOf
    <2> QED BY <1>2, <1>5, <2>3
  <1>8. Owner(attached) <= boots /\ (gnss # "off" /\ ~joined => Owner(attached) < boots)
    BY <1>1, <1>2, SessionKnown
  <1> QED BY <1>2, <1>4, <1>5, <1>6, <1>7, <1>8

LEMMA NextCarry ==
    ASSUME SystemInv, OwnInv, ConnectedInv, PartnerInv, FinishedInv, CarryInv,
           [SystemNext]_sysVarsAll, ~torn'
    PROVE  CarryInv'
  <1> SUFFICES ASSUME NEW c \in Conns, NEW i \in DOMAIN up'[c], Genuine(c)',
                      up'[c][i].kind = "data"
               PROVE  /\ Members(up'[c][i].points) \subseteq {Owner(c)'} \X (1..MaxPoints)
                      /\ Target(c)' # NoRemote /\ Referred(Target(c))'
                      /\ \A entries \in {status', stateFile'} : \A k \in DOMAIN entries :
                            entries[k].local = Owner(c)' => entries[k].remote = Target(c)'
                      /\ Owner(c)' <= boots'
                      /\ gnss' # "off" /\ ~joined' => Owner(c)' < boots'
    BY DEF CarryInv
  <1>1. CASE \E j \in DOMAIN up[c] : up'[c][i] = up[c][j]
    <2>1. PICK j \in DOMAIN up[c] : up'[c][i] = up[c][j]
      BY <1>1
    <2>2. Genuine(c)
      <3>1. ~(upload = "hello" /\ c = attached)
        BY <2>1 DEF SystemInv, ChannelInv, HelloInv
      <3> QED BY <3>1, AcceptedStep
    <2>3. Members(up[c][j].points) \subseteq {Owner(c)} \X (1..MaxPoints)
      BY <2>1, <2>2 DEF CarryInv
    <2> QED BY <2>1, <2>2, <2>3, CarriedStep
  <1>2. CASE (SendOk \/ SendFails) /\ c = attached /\ up'[c][i] = Message
    <2>1. Sending /\ (Expected > 0 => Take(Expected))
      BY <1>2, SayEffect DEF SystemInv
    <2>2. upload = "data"
      BY <1>2, <2>1, MessageTyped DEF SystemInv, Saying
    <2>3. attached # 0
      BY <1>2, SystemTypes
    <2>4. Genuine(c) /\ Owner(c)' = Owner(c)
          /\ (Target(c)' = Target(c) \/ Target(c) = NoRemote)
      BY <2>2, AcceptedStep
    <2>5. /\ Members(Message.points) \subseteq {Owner(c)} \X (1..MaxPoints)
          /\ Target(c) # NoRemote
          /\ \A k \in DOMAIN status : status[k].local = Owner(c) => status[k].remote = Target(c)
          /\ stateFile = status /\ UNCHANGED <<status, stateFile, boots, gnss, joined>>
          /\ \E k \in DOMAIN stateFile : stateFile[k].remote = Target(c)
          /\ Owner(c) <= boots /\ (gnss # "off" /\ ~joined => Owner(c) < boots)
      BY <1>2, <2>2, <2>3, <2>4, SentStep
    <2>6. Referred(Target(c))'
      BY <2>4, <2>5 DEF Referred
    <2> QED BY <1>2, <2>4, <2>5, <2>6
  <1> QED BY <1>1, <1>2, MessageStep

-----------------------------------------------------------------------------
\* What the server has stored

\* A session that has points is one that STATE.CSV refers to until it has ended.
LEMMA NextStored ==
    ASSUME SystemInv, FinishedInv, CarryInv, StoredInv, [SystemNext]_sysVarsAll, ~torn'
    PROVE  StoredInv'
  <1> SUFFICES ASSUME NEW id, id \in DOMAIN sessions', sessions'[id].points # <<>>
               PROVE  Referred(id)'
    BY DEF StoredInv
  <1>1. id \in DOMAIN sessions /\ id # NoRemote
    BY StoreStep, SystemTypes
  <1>2. CASE sessions'[id].points = sessions[id].points
    <2>1. Referred(id)
      BY <1>1, <1>2 DEF StoredInv
    <2> QED BY <1>1, <2>1, ReferredStep
  <1>3. ASSUME NEW c \in Conns, ServeData(c), serving[c] = id PROVE Referred(id)'
    <2>1. /\ handler[c] = "serve" /\ up[c] # <<>> /\ Head(up[c]).kind = "data"
      BY <1>3 DEF ServeData, Receives
    <2>2. Genuine(c) /\ serving[c] # 0 /\ Head(up[c]) = up[c][1] /\ 1 \in DOMAIN up[c]
      BY <2>1, HeadFits, HeadRead DEF SystemInv, ChannelInv
    <2>3. Referred(Target(c)) /\ Target(c) = id
      BY <1>3, <2>1, <2>2 DEF CarryInv, Target
    <2> QED BY <1>1, <2>3, ReferredStep
  <1> QED BY <1>1, <1>2, <1>3, StoreStep

\* The points of a session are of the one that opened it.
LEMMA NextPure ==
    ASSUME SystemInv, CarryInv, OneOwner, [SystemNext]_sysVarsAll, ~torn'
    PROVE  OneOwner'
  <1> SUFFICES ASSUME NEW id \in DOMAIN sessions'
               PROVE  Members(sessions'[id].points) \subseteq {startedBy'[id]} \X (1..MaxPoints)
    BY DEF OneOwner, PointsOf
  <1>1. CASE id \notin DOMAIN sessions
    <2>1. sessions'[id].points = <<>>
      BY <1>1, StoreStep
    <2> QED BY <2>1 DEF Members
  <1>2. CASE id \in DOMAIN sessions
    <2>1. Members(sessions[id].points) \subseteq {startedBy[id]} \X (1..MaxPoints)
      BY <1>2 DEF OneOwner, PointsOf
    <2>2. startedBy'[id] = startedBy[id]
      BY <1>2, StoreStep
    <2>3. CASE sessions'[id].points = sessions[id].points
      BY <2>1, <2>2, <2>3
    <2>4. ASSUME NEW c \in Conns, ServeData(c), serving[c] = id,
                 sessions'[id].points = sessions[id].points \o Head(up[c]).points
          PROVE  Members(sessions'[id].points) \subseteq {startedBy'[id]} \X (1..MaxPoints)
      <3>1. /\ handler[c] = "serve" /\ up[c] # <<>> /\ Head(up[c]).kind = "data"
        BY <2>4 DEF ServeData, Receives
      <3>2. Genuine(c) /\ serving[c] # 0 /\ Head(up[c]) = up[c][1] /\ 1 \in DOMAIN up[c]
            /\ Head(up[c]).points \in Seq(Points)
        BY <3>1, HeadFits, HeadRead DEF SystemInv, ChannelInv
      <3>3. Members(Head(up[c]).points) \subseteq {startedBy[id]} \X (1..MaxPoints)
        BY <2>4, <3>1, <3>2 DEF CarryInv, Owner
      <3>4. Members(sessions'[id].points)
              = Members(sessions[id].points) \cup Members(Head(up[c]).points)
        BY <1>2, <2>4, <3>2, StoredTyped, MembersOfConcat
      <3> QED BY <2>1, <2>2, <3>3, <3>4
    <2> QED BY <1>2, <2>3, <2>4, StoreStep
  <1> QED BY <1>1, <1>2

-----------------------------------------------------------------------------
\* What is counted

\* Where a point that counts as uploaded can be.
Accounted(remote) == lost \cup InFlight \cup PointsOf(remote)
AccountedAfter(remote) ==
    lost' \cup InFlight'
    \cup (IF remote \in DOMAIN sessions' THEN Members(sessions'[remote].points) ELSE {})

LEMMA LostStep ==
    ASSUME [SystemNext]_sysVarsAll, ~torn' PROVE lost \subseteq lost'
  <1>1. CASE Local \/ PowerOff \/ Arrive \/ Notice \/ Reset \/ NoAnswer \/ Open \/ IdRead \/ AnswerRead
             \/ Finished \/ PassEnds \/ UNCHANGED sysVarsAll
    BY <1>1 DEF Local, PowerOff, Arrive, Notice, Reset, ResetNotifier, NoAnswer, Open, IdRead, AnswerRead, Finished,
         PassEnds, sysVarsAll, linkVars
  <1>2. CASE SendOk \/ SendFails
    BY <1>2 DEF SendOk, SendFails, Send
  <1>3. CASE \E c \in Conns : Cut(c) \/ PeerClosed(c) \/ Serve(c)
    BY <1>3 DEF Cut, PeerClosed, Serve, ServeFresh, ServeReconnect, RefuseHandshake, ServeData,
         ServeFinish, ServeSign, RefuseSign, Rejects, Goes, End
  <1> QED BY <1>1, <1>2, <1>3 DEF SystemNext

\* What goes to the server in pieces is lost or stays under way, but for the first
\* message, which its handler has read.
LEMMA InFlightStep ==
    ASSUME SystemInv, [SystemNext]_sysVarsAll, ~torn', NEW p \in InFlight
    PROVE  \/ p \in lost' \cup InFlight'
           \/ \E c \in Conns : ServeData(c) /\ p \in Members(Head(up[c]).points)
  <1>1. PICK c \in Conns : \E i \in DOMAIN up[c] : p \in Members(up[c][i].points)
    BY DEF InFlight, PointsIn
  <1>2. PICK i \in DOMAIN up[c] : p \in Members(up[c][i].points)
    BY <1>1
  <1>3. ASSUME NEW j \in DOMAIN up'[c], up'[c][j] = up[c][i] PROVE p \in InFlight'
    <2>1. p \in PointsIn(up[c])'
      BY <1>2, <1>3 DEF PointsIn, Members
    <2> QED BY <2>1 DEF InFlight
  <1>4. /\ up[c] # <<>> /\ up[c] \in Seq(Messages) /\ DOMAIN up[c] = 1..Len(up[c])
        /\ Len(up[c]) \in Nat \ {0} /\ Head(up[c]) = up[c][1] /\ 1 \in DOMAIN up[c]
    BY <1>2, HeadRead DEF SystemInv, ChannelInv
  <1>5. i # 1 => \E j \in DOMAIN Tail(up[c]) : Tail(up[c])[j] = up[c][i]
    <2> SUFFICES ASSUME i # 1 PROVE \E j \in DOMAIN Tail(up[c]) : Tail(up[c])[j] = up[c][i]
      OBVIOUS
    <2>1. /\ DOMAIN Tail(up[c]) = 1..Len(Tail(up[c])) /\ Len(Tail(up[c])) = Len(up[c]) - 1
          /\ \A k \in DOMAIN Tail(up[c]) : Tail(up[c])[k] = up[c][k + 1]
      BY <1>4, HeadRead DEF SystemInv, ChannelInv
    <2> DEFINE n == Len(up[c])
    <2>2. n \in Nat \ {0} /\ i \in 1..n /\ DOMAIN Tail(up[c]) = 1..(n - 1)
      BY <1>4, <2>1
    <2> HIDE DEF n
    <2>3. i - 1 \in 1..(n - 1) /\ (i - 1) + 1 = i
      BY <2>2
    <2> QED BY <2>1, <2>2, <2>3
  <1>6. p \in PointsIn(up[c]) /\ (i # 1 => p \in PointsIn(Tail(up[c])))
    BY <1>2, <1>5 DEF PointsIn
  <1>7. handler[c] \in {"handshake", "finish"} \/ Head(up[c]).kind = "finish" => i # 1
    <2>1. Head(up[c]) \in Messages /\ (handler[c] = "handshake" => Head(up[c]).kind = "hello")
          /\ (handler[c] = "finish" => Head(up[c]).kind = "sign")
      BY <1>4, HeadFits DEF SystemInv, ChannelInv
    <2>2. Head(up[c]).kind \in {"hello", "finish", "sign"} => Head(up[c]).points = <<>>
      BY <2>1 DEF Messages
    <2>3. Head(up[c]).points = <<>> => i # 1
      BY <1>2, <1>4 DEF Members
    <2> QED BY <2>1, <2>2, <2>3
  <1>8. CASE up'[c] = up[c]
    BY <1>3, <1>8
  <1>9. CASE SendOk \/ SendFails
    <2>1. i \in DOMAIN up'[c] /\ up'[c][i] = up[c][i]
      <3>1. CASE up'[c] = Append(up[c], Message)
        <4>1. Message \in Messages
          BY <1>9, SayEffect, MessageTyped DEF SystemInv
        <4> QED BY <1>4, <3>1, <4>1, AppendProperties
      <3>2. CASE up'[c] = up[c]
        BY <3>2
      <3> QED BY <1>9, <3>1, <3>2, SayQueue DEF SystemInv
    <2> QED BY <1>3, <2>1
  <1>10. CASE Cut(c) \/ PeerClosed(c)
    BY <1>4, <1>6, <1>10 DEF Cut, PeerClosed, End
  <1>11. CASE RefuseHandshake(c) \/ RefuseSign(c) \/ ServeSign(c)
    <2>1. handler[c] \in {"handshake", "finish"} /\ lost' = lost \cup PointsIn(Tail(up[c]))
      BY <1>11 DEF RefuseHandshake, RefuseSign, ServeSign, Receives, Rejects, End
    <2> QED BY <1>6, <1>7, <2>1
  <1>12. CASE (ServeFresh(c) \/ ServeReconnect(c) \/ ServeFinish(c)) /\ up'[c] = Tail(up[c])
    <2>1. handler[c] = "handshake" \/ Head(up[c]).kind = "finish"
      BY <1>12 DEF ServeFresh, ServeReconnect, ServeFinish, Receives
    <2> QED BY <1>3, <1>5, <1>7, <1>12, <2>1
  <1>13. CASE ServeData(c) /\ up'[c] = Tail(up[c])
    <2>1. CASE i = 1
      BY <1>2, <1>4, <1>13, <2>1
    <2>2. CASE i # 1
      BY <1>3, <1>5, <1>13, <2>2
    <2> QED BY <2>1, <2>2
  <1> QED BY <1>8, <1>9, <1>10, <1>11, <1>12, <1>13, QueueStep

\* A counted point stays accounted for where its entry says.
LEMMA AccountedStep ==
    ASSUME SystemInv, CarryInv, [SystemNext]_sysVarsAll, ~torn', NEW entries \in {status, stateFile},
           NEW k \in DOMAIN entries, NEW n, NEW remote, remote = entries[k].remote,
           <<entries[k].local, n>> \in Accounted(remote)
    PROVE  <<entries[k].local, n>> \in AccountedAfter(remote)
  <1> DEFINE p == <<entries[k].local, n>>
  <1> SUFFICES p \in lost' \cup InFlight' \cup PointsOf(remote)'
    BY DEF AccountedAfter, PointsOf
  <1>1. CASE p \in lost \/ p \in PointsOf(remote)
    BY <1>1, LostStep, StoreKeeps
  <1>2. CASE p \in InFlight
    <2>1. CASE p \in lost' \cup InFlight'
      BY <2>1
    <2>2. ASSUME NEW c \in Conns, ServeData(c), p \in Members(Head(up[c]).points)
          PROVE  p \in PointsOf(remote)'
      <3>1. /\ handler[c] = "serve" /\ up[c] # <<>> /\ Head(up[c]).kind = "data"
            /\ Store!AppendPoints(serving[c], Head(up[c]).points)
        BY <2>2 DEF ServeData, Receives
      <3>2. /\ Genuine(c) /\ serving[c] # 0 /\ serving[c] \in DOMAIN sessions
            /\ Head(up[c]) = up[c][1] /\ 1 \in DOMAIN up[c]
            /\ Head(up[c]).points \in Seq(Points)
        BY <3>1, HeadFits, HeadRead DEF SystemInv, ChannelInv
      <3>3. entries[k].local = Owner(c)
        <4>1. Members(Head(up[c]).points) \subseteq {Owner(c)} \X (1..MaxPoints)
          BY <3>1, <3>2 DEF CarryInv
        <4> QED BY <2>2, <4>1
      <3>4. remote = serving[c]
        BY <3>1, <3>2, <3>3 DEF CarryInv, Target
      <3>5. /\ DOMAIN sessions' = DOMAIN sessions /\ sessions[remote].points \in Seq(Points)
            /\ sessions'[remote].points = sessions[remote].points \o Head(up[c]).points
        BY <3>1, <3>2, <3>4, StoreTyped DEF SystemInv
      <3>6. p \in Members(sessions'[remote].points)
        BY <2>2, <3>2, <3>5, MembersOfConcat
      <3> QED BY <3>2, <3>4, <3>5, <3>6 DEF PointsOf
    <2> QED BY <1>2, <2>1, <2>2, InFlightStep
  <1> QED BY <1>1, <1>2 DEF Accounted

\* The entry that gets its remote id had none, so its points are not stored yet.
LEMMA NamedStep ==
    ASSUME SystemInv, IdRead, NEW i \in DOMAIN status, status[i].local = Session.local
    PROVE  /\ status[i].uploaded = Session.uploaded
           /\ Accounted(status[i].remote) = lost \cup InFlight
           /\ (lost \cup InFlight)' = lost \cup InFlight
  <1>1. upload = "id" /\ InSession /\ InPass /\ Unnamed /\ ~Counted
    BY DEF IdRead, IdOk, InSession, InPass, Unnamed, Counted
  <1>2. cur \in DOMAIN clone /\ Session = clone[cur] /\ cur >= cur
    BY <1>1, SessionKnown DEF SystemInv, TrackerInv, Inv, TypeOK, UploadTypeOK
  <1>3. status[i].remote = NoRemote /\ status[i].uploaded = Session.uploaded
    BY <1>1, <1>2 DEF SystemInv, TrackerInv, PassInv, SameInv
  <1>4. PointsOf(NoRemote) = {}
    BY SystemTypes DEF PointsOf
  <1>5. lost' = lost /\ up' = up
    BY DEF IdRead
  <1>6. InFlight' = InFlight
    BY <1>5 DEF InFlight, PointsIn, Members
  <1> QED BY <1>3, <1>4, <1>5, <1>6 DEF Accounted

\* Every point that is counted stays accounted for, and the points that become counted
\* are those that this upload_data has sent.
LEMMA NextCounted ==
    ASSUME SystemInv, CarryInv, SentInv, CountsAccounted, [SystemNext]_sysVarsAll, ~torn'
    PROVE  CountsAccounted'
  <1> DEFINE After(e) == \A n \in 1..e.uploaded : <<e.local, n>> \in AccountedAfter(e.remote)
  <1>1. ASSUME NEW entries \in {status, stateFile}, NEW k \in DOMAIN entries
        PROVE  After(entries[k])
    <2> SUFFICES ASSUME NEW n \in 1..entries[k].uploaded
                 PROVE  <<entries[k].local, n>> \in AccountedAfter(entries[k].remote)
      OBVIOUS
    <2>1. <<entries[k].local, n>> \in Accounted(entries[k].remote)
      BY DEF CountsAccounted, Accounted
    <2> QED BY <2>1, AccountedStep
  <1>2. ASSUME NEW i \in DOMAIN status' PROVE After(status'[i])
    <2>1. CASE \/ \E k \in DOMAIN status : status'[i] = status[k]
               \/ \E k \in DOMAIN stateFile : status'[i] = stateFile[k]
      BY <1>1, <2>1
    <2>2. CASE status'[i].uploaded = 0
      BY <2>2
    <2>3. CASE /\ IdRead /\ i \in DOMAIN status /\ status[i].local = Session.local
               /\ status'[i].local = Session.local /\ status'[i].uploaded = status[i].uploaded
      <3>1. \A n \in 1..status[i].uploaded : <<Session.local, n>> \in lost \cup InFlight
        <4>1. \A n \in 1..status[i].uploaded :
                <<Session.local, n>> \in Accounted(status[i].remote)
          BY <2>3 DEF CountsAccounted, Accounted
        <4> QED BY <2>3, <4>1, NamedStep
      <3>2. lost' \cup InFlight' = lost \cup InFlight
        BY <2>3, NamedStep
      <3> QED BY <2>3, <3>1, <3>2 DEF AccountedAfter
    <2>4. CASE /\ DataDone /\ i \in DOMAIN status /\ status[i].local = Session.local
               /\ status'[i].local = Session.local
               /\ status'[i].uploaded = status[i].uploaded + Missing
               /\ status'[i].remote = status[i].remote
      <3>1. upload = "data" /\ sent >= Missing /\ InSession /\ InPass /\ ~Counted
        BY <2>4 DEF DataDone, CountUploaded, InSession, InPass, Counted
      <3>2. /\ cur \in DOMAIN clone /\ Session = clone[cur] /\ cur >= cur
            /\ count \in Nat /\ sent \in Nat /\ Session.uploaded \in Nat
        BY <3>1, SessionKnown DEF SystemInv, TrackerInv, Inv, TypeOK, UploadTypeOK
      <3>3. status[i].uploaded = Session.uploaded
        BY <2>4, <3>1, <3>2 DEF SystemInv, TrackerInv, PassInv, SameInv
      <3>4. status'[i].uploaded = count /\ count <= Session.uploaded + sent
        BY <2>4, <3>1, <3>2, <3>3 DEF Missing
      <3>5. \A n \in 1..(Session.uploaded + sent) :
              <<Session.local, n>> \in Accounted(status[i].remote)
        BY <2>4, <3>1 DEF SentInv, Accounted
      <3>6. ASSUME NEW n \in 1..count
            PROVE  <<Session.local, n>> \in AccountedAfter(status[i].remote)
        <4>1. n \in 1..(Session.uploaded + sent)
          BY <3>2, <3>4
        <4>2. <<status[i].local, n>> \in Accounted(status[i].remote)
          BY <2>4, <3>5, <4>1
        <4> QED BY <2>4, <4>2, AccountedStep
      <3> QED BY <2>4, <3>4, <3>6
    <2> QED BY <2>1, <2>2, <2>3, <2>4, EntryStep
  <1>3. ASSUME NEW i \in DOMAIN stateFile' PROVE After(stateFile'[i])
    BY <1>1, <1>2, SavedEntryStep
  <1> QED
    <2> SUFFICES ASSUME NEW entries \in {status', stateFile'}, NEW i \in DOMAIN entries
                 PROVE  {entries[i].local} \X (1..entries[i].uploaded)
                            \subseteq AccountedAfter(entries[i].remote)
      BY DEF CountsAccounted, AccountedAfter, PointsOf
    <2>1. After(entries[i])
      BY <1>2, <1>3
    <2> QED BY <2>1

\* What this upload_data sends is lost or under way, and what it sent before stays
\* accounted for.
LEMMA NextSentCount ==
    ASSUME SystemInv, SentInv, [SystemNext]_sysVarsAll, ~torn', InSession'
    PROVE  Session'.uploaded + sent' <= count'
  <1>1. CASE UNCHANGED <<upload, clone, cur, count, sent, connected>>
    BY <1>1 DEF SentInv, InSession, Session
  <1>2. CASE NextSession
    <2>1. Inv'
      BY NextSystem DEF SystemInv, TrackerInv
    <2>2. sent' = 0
      BY <1>2 DEF NextSession
    <2>3. cur' \in DOMAIN clone'
      BY <2>1 DEF Inv, CloneInv
    <2>4. Session'.uploaded <= count' /\ Session'.uploaded \in Nat
      <3>1. Session' \in SessionUploadStatus
        BY <2>1, <2>3, StatusElements DEF Inv, TypeOK, UploadTypeOK, Session
      <3> QED BY <2>1, <3>1 DEF Inv, CloneInv, SessionUploadStatus
    <2> QED BY <2>2, <2>4
  <1>3. CASE SendOk
    <2>1. InSession /\ UNCHANGED <<clone, cur, count>> /\ Session' = Session
          /\ (sent' = sent \/ (ChunkOk /\ sent' = sent + ChunkSize))
      BY <1>3 DEF SendOk, HelloOk, ChunkOk, FinishSent, SignSent, passVars, InSession, Session
    <2>2. CASE ChunkOk /\ sent' = sent + ChunkSize
      <3>1. sent + ChunkSize <= Missing /\ ChunkSize \in Nat
        BY <2>2, ChunkProperties DEF ChunkOk, SystemInv, TrackerInv
      <3>2. count \in Nat /\ sent \in Nat /\ Session.uploaded \in Nat
        BY <2>1, SessionKnown
      <3> QED BY <2>1, <2>2, <3>1, <3>2 DEF Missing
    <2> QED BY <2>1, <2>2 DEF SentInv
  <1>4. CASE Open \/ IdRead \/ SaveId \/ DataDone \/ SaveUploaded \/ AnswerRead
    <2>1. InSession /\ UNCHANGED <<clone, cur, count, sent>> /\ Session' = Session
      BY <1>4 DEF Open, OpenOk, IdRead, IdOk, SaveId, DataDone, CountUploaded, SaveUploaded, AnswerRead,
           AckOk, LinkFails, Fail, passVars, InSession, Session
    <2> QED BY <2>1 DEF SentInv
  <1>5. CASE Settle
    <2>1. InSession /\ UNCHANGED <<clone, cur, count, sent>>
      BY <1>5 DEF Settle, InSession
    <2> QED BY <2>1 DEF SentInv, Session
  <1>6. CASE Boot \/ PowerOff \/ UploadBegin \/ PassDone \/ Finished \/ PassFailed \/ PassEnds
             \/ SendFails \/ NoAnswer
    <2>1. ~InSession'
      BY <1>6 DEF Boot, StartSession, PowerOff, PowerLoss, Sleep, LoseMemory, MemoryGone, CutSave, UploadBegin, PassDone,
           Finished, SaveFinish, PassFailed, PassEnds, EndPass, EndPassWith, SendFails, NoAnswer,
           LinkFails, Fail, InSession
    <2> QED BY <2>1
  <1> QED BY <1>1, <1>2, <1>3, <1>4, <1>5, <1>6, UploadActions

LEMMA NextSentInv ==
    ASSUME SystemInv, OwnInv, ConnectedInv, CarryInv, SentInv, CountsAccounted,
           [SystemNext]_sysVarsAll, ~torn'
    PROVE  SentInv'
  <1> SUFFICES ASSUME upload' \in {"open", "hello", "id", "saveId", "data"},
                      NEW i \in DOMAIN status', status'[i].local = Session'.local,
                      NEW n \in 1..(Session'.uploaded + sent')
               PROVE  <<Session'.local, n>> \in AccountedAfter(status'[i].remote)
    <2>1. InSession' => Session'.uploaded + sent' <= count'
      BY NextSentCount
    <2>2. SUFFICES ASSUME upload' \in {"open", "hello", "id", "saveId", "data"},
                          NEW i \in DOMAIN status', status'[i].local = Session'.local
                   PROVE  {Session'.local} \X (1..(Session'.uploaded + sent'))
                             \subseteq AccountedAfter(status'[i].remote)
      BY <2>1 DEF SentInv, AccountedAfter, PointsOf
    <2> QED BY <2>2
  <1> DEFINE Early == {"open", "hello", "id", "saveId", "data"}
  <1>1. CASE /\ upload \in Early /\ UNCHANGED <<clone, cur>> /\ sent' = sent
             /\ ~IdRead /\ ~DataDone /\ ~Boot /\ (upload = upload' \/ status' = status)
    <2>1. InSession /\ Session' = Session
      BY <1>1 DEF InSession, Session
    <2>2. PICK k \in DOMAIN status : status'[i] = status[k]
      <3>1. Session.local < boots \/ ~(GnssJoin /\ ~joined)
        BY <2>1, SessionKnown DEF GnssJoin
      <3>2. Session.local \in Nat /\ boots \in Nat
        BY <2>1, SessionKnown DEF LocalIds
      <3> QED BY <1>1, <2>1, <3>1, <3>2, EntryStep
    <2>3. <<status[k].local, n>> \in Accounted(status[k].remote)
      BY <1>1, <2>1, <2>2 DEF SentInv, Accounted
    <2> QED BY <2>1, <2>2, <2>3, AccountedStep
  <1>2. CASE NextSession
    <2>1. /\ sent' = 0 /\ Session' = Session /\ status' = status /\ upload = "next"
          /\ cur <= Len(clone)
      BY <1>2 DEF NextSession, Session
    <2>2. /\ cur \in DOMAIN clone /\ cur >= cur
      BY <2>1, StatusElements DEF SystemInv, TrackerInv, Inv, TypeOK, UploadTypeOK
    <2>3. Session.uploaded \in Nat
      BY <2>2, SessionTyped DEF SystemInv, TrackerInv
    <2>4. status[i].uploaded = Session.uploaded
      BY <2>1, <2>2 DEF SystemInv, TrackerInv, PassInv, SameInv, InPass, Counted, Session
    <2>5. <<status[i].local, n>> \in Accounted(status[i].remote)
      BY <2>1, <2>3, <2>4 DEF CountsAccounted, Accounted
    <2> QED BY <2>1, <2>5, AccountedStep
  <1>3. CASE SendOk /\ ChunkOk
    <2>1. /\ InSession /\ Session' = Session /\ status' = status /\ upload = "data"
          /\ sent' = sent + ChunkSize /\ sent < Missing
      BY <1>3 DEF ChunkOk, InSession, Session
    <2>2. /\ ChunkSize \in Nat \ {0} /\ NextChunk \in Seq(Points) /\ Len(NextChunk) = ChunkSize
          /\ \A k \in 1..ChunkSize :
                NextChunk[k] = <<Session.local, Session.uploaded + sent + k>>
      BY <2>1, ChunkProperties DEF SystemInv, TrackerInv
    <2>3. Session.uploaded \in Nat /\ sent \in Nat
      BY <2>1, SessionKnown
    <2>4. CASE n <= Session.uploaded + sent
      <3>1. n \in 1..(Session.uploaded + sent)
        BY <2>1, <2>2, <2>3, <2>4
      <3>2. <<status[i].local, n>> \in Accounted(status[i].remote)
        BY <2>1, <3>1 DEF SentInv, Accounted
      <3> QED BY <2>1, <3>2, AccountedStep
    <2>5. CASE n > Session.uploaded + sent
      <3>1. PICK k \in 1..ChunkSize : n = Session.uploaded + sent + k
        <4>1. n - (Session.uploaded + sent) \in 1..ChunkSize
          BY <2>1, <2>2, <2>3, <2>5
        <4> QED BY <2>1, <2>2, <2>3, <4>1
      <3>2. <<Session.local, n>> \in Members(NextChunk)
        <4>1. k \in DOMAIN NextChunk
          BY <2>2, LenProperties
        <4>2. NextChunk[k] = <<Session.local, n>>
          BY <2>2, <3>1
        <4> QED BY <4>1, <4>2 DEF Members
      <3>3. Message.points = NextChunk /\ Message \in Messages
        BY <1>3, <2>1, SayEffect, MessageTyped DEF SystemInv
      <3>4. CASE lost' = lost \cup PointsIn(<<Message>>)
        <4>1. <<Message>>[1] = Message /\ 1 \in DOMAIN <<Message>>
          OBVIOUS
        <4>2. <<Session.local, n>> \in PointsIn(<<Message>>)
          BY <3>2, <3>3, <4>1 DEF PointsIn
        <4> QED BY <2>1, <3>4, <4>2 DEF AccountedAfter
      <3>5. CASE /\ attached # 0 /\ up' = [up EXCEPT ![attached] = Append(@, Message)]
        <4>1. attached \in Conns /\ DOMAIN up = Conns /\ up[attached] \in Seq(Messages)
          BY <3>5, SystemTypes, ConnTypes DEF SystemInv, ChannelInv, LinkTypeOK
        <4>2. up'[attached] = Append(up[attached], Message)
          BY <3>5, <4>1
        <4>3. up'[attached][Len(up[attached]) + 1] = Message
              /\ Len(up[attached]) + 1 \in DOMAIN up'[attached]
          BY <3>3, <4>1, <4>2, AppendProperties, LenProperties
        <4>4. <<Session.local, n>> \in PointsIn(up'[attached])
          BY <3>2, <3>3, <4>3 DEF PointsIn
        <4>5. <<Session.local, n>> \in InFlight'
          BY <4>1, <4>4 DEF InFlight, PointsIn, Members
        <4> QED BY <2>1, <4>5 DEF AccountedAfter
      <3> QED BY <1>3, <3>4, <3>5 DEF SendOk, Send
    <2> QED BY <2>1, <2>2, <2>3, <2>4, <2>5
  <1>4. CASE IdRead
    <2>1. InSession /\ Session' = Session /\ sent' = sent /\ upload = "id"
      BY <1>4 DEF IdRead, IdOk, passVars, InSession, Session
    <2>2. i \in DOMAIN status /\ status[i].local = Session.local
      <3>1. i \in DOMAIN status /\ (status[i].local # Session.local => status'[i] = status[i])
        BY <1>4, IdReadEntry
      <3> QED BY <2>1, <3>1
    <2>3. <<Session.local, n>> \in Accounted(status[i].remote)
      BY <2>1, <2>2 DEF SentInv, Accounted
    <2> QED BY <1>4, <2>1, <2>2, <2>3, NamedStep DEF AccountedAfter
  <1>5. CASE UNCHANGED <<upload, clone, cur, count, sent, connected>>
    <2>1. ~IdRead /\ ~DataDone /\ ~Boot
      BY <1>5 DEF IdRead, IdOk, DataDone, CountUploaded, Boot, StartSession, SystemInv, TrackerInv,
           CardInv
    <2> QED BY <1>1, <1>5, <2>1
  <1>6. CASE Open \/ SaveId \/ (SendOk /\ HelloOk)
    <2>1. /\ upload \in Early /\ UNCHANGED <<clone, cur>> /\ sent' = sent /\ status' = status
          /\ ~IdRead /\ ~DataDone /\ ~Boot
      BY <1>6 DEF Open, OpenOk, SaveId, HelloOk, passVars, IdRead, IdOk, DataDone, CountUploaded,
           Boot, StartSession, SystemInv, TrackerInv, CardInv
    <2> QED BY <1>1, <2>1
  <1>7. CASE \/ Boot \/ PowerOff \/ UploadBegin \/ PassDone \/ DataDone \/ SaveUploaded \/ Settle
             \/ AnswerRead \/ Finished \/ PassFailed \/ PassEnds \/ SendFails \/ NoAnswer
             \/ SendOk /\ (FinishSent \/ SignSent)
    <2>1. upload' \notin Early
      BY <1>7 DEF Boot, StartSession, PowerOff, PowerLoss, Sleep, LoseMemory, MemoryGone, CutSave, UploadBegin, PassDone,
           DataDone, CountUploaded, SaveUploaded, Settle, AnswerRead, AckOk, Finished, SaveFinish,
           PassFailed, PassEnds, EndPass, EndPassWith, SendFails, NoAnswer, LinkFails, Fail,
           FinishSent, SignSent
    <2> QED BY <2>1
  <1>8. SendOk => HelloOk \/ ChunkOk \/ FinishSent \/ SignSent
    BY DEF SendOk
  <1> QED BY <1>2, <1>3, <1>4, <1>5, <1>6, <1>7, <1>8, UploadActions

-----------------------------------------------------------------------------
\* DataInv is inductive

LEMMA InitData == SystemInit => DataInv
  <1> SUFFICES ASSUME SystemInit PROVE DataInv
    OBVIOUS
  <1>1. /\ status = <<>> /\ stateFile = <<>> /\ clone = <<>> /\ upload = "off" /\ gnss = "off"
        /\ connected = 0 /\ sessions = <<>>
        /\ \A c \in Conns : up[c] = <<>> /\ handler[c] = "none"
    BY DEF SystemInit, Init, NoPass, Store!Init
  <1>2. ~Talking /\ ~InSession
    BY <1>1 DEF Talking, InTalk, InSession
  <1>3. /\ DOMAIN status = {} /\ DOMAIN stateFile = {} /\ DOMAIN clone = {} /\ DOMAIN sessions = {}
        /\ \A c \in Conns : DOMAIN up[c] = {}
    BY <1>1
  <1>4. OwnInv /\ ConnectedInv
    BY <1>1, <1>3 DEF OwnInv, ConnectedInv
  <1>5. PartnerInv /\ FinishedInv /\ CarryInv
    BY <1>1, <1>2, <1>3 DEF PartnerInv, FinishedInv, CarryInv
  <1>6. StoredInv /\ OneOwner /\ PointsReferred
    BY <1>3 DEF StoredInv, OneOwner, PointsReferred
  <1>7. SentInv /\ CountsAccounted
    BY <1>1, <1>2, <1>3 DEF SentInv, CountsAccounted
  <1> QED BY <1>4, <1>5, <1>6, <1>7 DEF DataInv

LEMMA NextData ==
    ASSUME SystemInv, DataInv, [SystemNext]_sysVarsAll, ~torn' PROVE DataInv'
  <1>1. OwnInv' /\ ConnectedInv' /\ PartnerInv'
    BY NextOwn, NextConnected, NextPartner DEF DataInv
  <1>2. FinishedInv' /\ CarryInv' /\ StoredInv'
    BY NextFinished, NextCarry, NextStored DEF DataInv
  <1>3. SentInv' /\ CountsAccounted' /\ OneOwner'
    BY NextSentInv, NextCounted, NextPure DEF DataInv
  <1>4. PointsReferred'
    BY <1>2 DEF StoredInv, PointsReferred, Referred, Closed
  <1> QED BY <1>1, <1>2, <1>3, <1>4 DEF DataInv

\* The inductive invariant: whose sessions and points the server has, what STATE.CSV
\* refers to and what is counted, together with what is known of the
\* tracker and of the link.  It holds as long as no save is cut.
THEOREM DataCorrect == SystemSpec => [](~torn => SystemInv /\ DataInv)
  <1>1. SystemInit => SystemInv /\ DataInv
    BY InitTracker, InitChannel, InitData DEF SystemInv
  <1>2. TrackerSafe /\ (~torn => SystemInv /\ DataInv) /\ [SystemNext]_sysVarsAll
          => (~torn => SystemInv /\ DataInv)'
    BY SystemStep, NextSafe, NextSystem, NextData
  <1>3. SystemSpec => []TrackerSafe
    BY ImplementsTracker, SafeAlways, PTL
  <1> QED BY <1>1, <1>2, <1>3, PTL DEF SystemSpec

\* As long as no save is cut, a server session has points only of the local session
\* that opened it.
THEOREM SessionsAlwaysPure == SystemSpec => []SessionsPure
  <1>1. (~torn => SystemInv /\ DataInv) => SessionsPure
    BY DEF DataInv, SessionsPure
  <1> QED BY <1>1, DataCorrect, PTL

\* As long as no save is cut, a server session that has points is referred to by
\* STATE.CSV until it has ended.
THEOREM OrphansAlwaysEmpty == SystemSpec => []OrphansEmpty
  <1>1. (~torn => SystemInv /\ DataInv) => OrphansEmpty
    BY DEF DataInv, OrphansEmpty
  <1> QED BY <1>1, DataCorrect, PTL

\* As long as no save is cut, a point counted as uploaded is stored, on its way or lost
\* after the modem took it.
THEOREM CountedAlwaysAccounted == SystemSpec => []CountedAccounted
  <1>1. (~torn => SystemInv /\ DataInv) => CountedAccounted
    BY DEF DataInv, CountedAccounted
  <1> QED BY <1>1, DataCorrect, PTL

\* As long as no save is cut, STATE.CSV forgets a session only when the server has ended
\* it.
THEOREM AlwaysForgetsOnlyEnded == SystemSpec => ForgetsOnlyEnded
  <1> DEFINE Forgets ==
        ~torn' => \A i \in DOMAIN stateFile :
            stateFile[i].local \in LocalsOf(stateFile') \/
            /\ stateFile[i].remote \in DOMAIN sessions
            /\ ~sessions[stateFile[i].remote].live
  <1>1. TrackerSafe /\ (~torn => SystemInv /\ DataInv) /\ [SystemNext]_sysVarsAll
          => [Forgets]_sysVarsAll
    <2> SUFFICES ASSUME TrackerSafe, ~torn => SystemInv /\ DataInv, [SystemNext]_sysVarsAll,
                        ~torn', NEW i \in DOMAIN stateFile
                 PROVE  \/ stateFile[i].local \in LocalsOf(stateFile')
                        \/ /\ stateFile[i].remote \in DOMAIN sessions
                           /\ ~sessions[stateFile[i].remote].live
      OBVIOUS
    <2> SystemInv /\ DataInv
      BY SystemStep, NextSafe
    <2>1. AdvancesTo(stateFile')
      BY AdvancesStep, SystemStep DEF SystemInv, TrackerInv
    <2>2. CASE upload = "saveFinish" /\ stateFile[i].local = Session.local
      BY <2>2 DEF DataInv, FinishedInv, Closed
    <2>3. CASE \E j \in DOMAIN stateFile' : stateFile'[j].local = stateFile[i].local
      BY <2>3 DEF LocalsOf
    <2> QED BY <2>1, <2>2, <2>3 DEF AdvancesTo
  <1>2. SystemSpec => []TrackerSafe
    BY ImplementsTracker, SafeAlways, PTL
  <1>3. SystemSpec => [][Forgets]_sysVarsAll
    BY <1>1, <1>2, DataCorrect, PTL DEF SystemSpec
  <1> QED BY <1>3 DEF ForgetsOnlyEnded

-----------------------------------------------------------------------------
\* How often a point comes

LEMMA PointTyped ==
    ASSUME SystemInv, NEW c \in Conns, NEW p \in PointsIn(up[c]) PROVE p \in Points /\ p[2] \in Nat
  <1>1. PICK i \in DOMAIN up[c] : p \in Members(up[c][i].points)
    BY DEF PointsIn
  <1>2. up[c][i] \in Messages
    BY HeadRead, ElementOfSeq DEF SystemInv, ChannelInv
  <1>3. up[c][i].points \in Seq(Points)
    <2>1. <<>> \in Seq(Points)
      OBVIOUS
    <2> QED BY <1>2, <2>1 DEF Messages
  <1>4. PICK a \in DOMAIN up[c][i].points : p = up[c][i].points[a]
    BY <1>1 DEF Members
  <1>5. p \in Points
    BY <1>3, <1>4, ElementOfSeq, LenProperties
  <1> QED BY <1>5 DEF Points

\* The points of a chunk are beyond what the actor has sent so far.
LEMMA ChunkBeyond ==
    ASSUME SystemInv, SendOk \/ SendFails, upload = "data"
    PROVE  /\ Message.points = NextChunk /\ DOMAIN NextChunk = 1..ChunkSize
           /\ Session.uploaded + sent \in Nat /\ ChunkSize \in Nat \ {0}
           /\ \A a \in 1..ChunkSize : NextChunk[a] = <<Session.local, Session.uploaded + sent + a>>
           /\ \A p \in Members(NextChunk) :
                /\ p[2] \in Nat /\ p[2] > Session.uploaded + sent
                /\ p[2] <= Session.uploaded + sent + ChunkSize
  <1>1. Sending /\ (Expected > 0 => Take(Expected))
    BY SayEffect DEF SystemInv
  <1>2. Message.points = NextChunk
    BY <1>1, MessageTyped DEF SystemInv
  <1>3. /\ ChunkSize \in Nat \ {0} /\ NextChunk \in Seq(Points) /\ Len(NextChunk) = ChunkSize
        /\ \A i \in 1..ChunkSize : NextChunk[i] = <<Session.local, Session.uploaded + sent + i>>
    BY <1>1, ChunkProperties DEF SystemInv, TrackerInv, Sending
  <1>4. DOMAIN NextChunk = 1..ChunkSize
    BY <1>3, LenProperties
  <1>5. Session.uploaded \in Nat /\ sent \in Nat
    BY SessionKnown DEF InSession
  <1> DEFINE k == Session.uploaded + sent
  <1>6. k \in Nat
    BY <1>5
  <1>7. ASSUME NEW p \in Members(NextChunk) PROVE p[2] \in Nat /\ p[2] > k /\ p[2] <= k + ChunkSize
    <2>1. PICK i \in 1..ChunkSize : p = NextChunk[i]
      BY <1>4 DEF Members
    <2>2. p[2] = k + i
      BY <1>3, <2>1
    <2> QED BY <1>3, <1>6, <2>2
  <1> QED BY <1>2, <1>3, <1>4, <1>6, <1>7

\* A point under way was so before or has just been sent.
LEMMA PointStep ==
    ASSUME SystemInv, [SystemNext]_sysVarsAll, ~torn', NEW c \in Conns, NEW p \in PointsIn(up'[c])
    PROVE  \/ p \in PointsIn(up[c])
           \/ /\ SendOk \/ SendFails
              /\ c = attached /\ upload = "data" /\ p \in Members(NextChunk)
  <1>1. PICK i \in DOMAIN up'[c] : p \in Members(up'[c][i].points)
    BY DEF PointsIn
  <1>2. CASE \E j \in DOMAIN up[c] : up'[c][i] = up[c][j]
    BY <1>1, <1>2 DEF PointsIn
  <1>3. CASE (SendOk \/ SendFails) /\ c = attached /\ up'[c][i] = Message
    <2>1. Sending /\ (Expected > 0 => Take(Expected))
      BY <1>3, SayEffect DEF SystemInv
    <2>2. upload = "data"
      <3>1. Members(<<>>) = {}
        BY DEF Members
      <3> QED BY <1>1, <1>3, <2>1, <3>1, MessageTyped DEF SystemInv
    <2> QED BY <1>1, <1>3, <2>2, ChunkBeyond
  <1> QED BY <1>2, <1>3, MessageStep

\* The number up to which the actor has sent never goes back on a connection.
LEMMA BeyondStep ==
    ASSUME SystemInv, ConnectedInv, SentInv, [SystemNext]_sysVarsAll, ~torn',
           Talking, Talking', Partner' = Partner, attached' # 0, NEW n \in Nat, Beyond(n)'
    PROVE  Beyond(n)
  <1>1. ~Boot /\ ~PowerOff
    BY DEF Boot, StartSession, PowerOff, PowerLoss, Sleep, LoseMemory, MemoryGone, CutSave, Talking, InTalk
  <1>2. InTalk => InSession
    BY DEF InTalk, InSession
  <1>3. CASE InTalk /\ InTalk'
    <2>1. clone' = clone /\ cur' = cur /\ (sent' = sent \/ (ChunkOk /\ sent' = sent + ChunkSize))
      <3>1. CASE UNCHANGED <<upload, clone, cur, count, sent, connected>>
        BY <3>1
      <3>2. CASE Open \/ IdRead \/ SaveId \/ DataDone \/ SaveUploaded \/ AnswerRead \/ SendOk
        BY <3>2 DEF Open, OpenOk, IdRead, IdOk, SaveId, DataDone, CountUploaded, SaveUploaded,
             AnswerRead, AckOk, LinkFails, Fail, SendOk, HelloOk, ChunkOk, FinishSent, SignSent,
             passVars
      <3>3. CASE Settle
        BY <1>3, <3>3 DEF Settle, InTalk
      <3>4. CASE \/ UploadBegin \/ NextSession \/ PassDone \/ Finished \/ PassFailed \/ PassEnds
                 \/ SendFails \/ NoAnswer
        BY <1>3, <3>4 DEF UploadBegin, NextSession, PassDone, Finished, SaveFinish, PassFailed,
             PassEnds, EndPass, EndPassWith, SendFails, NoAnswer, LinkFails, Fail, InTalk
      <3> QED BY <1>1, <3>1, <3>2, <3>3, <3>4, UploadActions
    <2>2. Session' = Session /\ n > Session.uploaded + sent'
      BY <1>3, <2>1 DEF Beyond, Session
    <2>3. Session.uploaded \in Nat /\ sent \in Nat
      BY <1>2, <1>3, SessionKnown
    <2>4. ChunkOk => ChunkSize \in Nat
      BY ChunkProperties DEF ChunkOk, SystemInv, TrackerInv
    <2> QED BY <1>3, <2>1, <2>2, <2>3, <2>4 DEF Beyond
  <1>4. CASE InTalk /\ ~InTalk'
    <2>1. Settle /\ upload = "settle" /\ upload' = "next" /\ status' = status
          /\ connected' = connected
      <3>1. CASE UNCHANGED <<upload, clone, cur, count, sent, connected>>
        BY <1>4, <3>1 DEF InTalk
      <3>2. CASE \/ Open \/ IdRead \/ SaveId \/ DataDone \/ SaveUploaded \/ AnswerRead \/ SendOk
                 \/ UploadBegin \/ NextSession \/ PassDone \/ PassFailed \/ PassEnds
                 \/ SendFails \/ NoAnswer
        BY <1>4, <3>2 DEF Open, OpenOk, IdRead, IdOk, SaveId, DataDone, CountUploaded, SaveUploaded,
             AnswerRead, AckOk, LinkFails, Fail, SendOk, HelloOk, ChunkOk, FinishSent, SignSent,
             UploadBegin, NextSession, PassDone, PassFailed, PassEnds, EndPass, EndPassWith,
             SendFails, NoAnswer, InTalk, Talking, Sending
      <3>3. CASE Finished
        BY <3>3 DEF Finished, Detach
      <3>4. CASE Settle
        BY <1>4, <3>4 DEF Settle, InTalk
      <3> QED BY <1>1, <3>1, <3>2, <3>3, <3>4, UploadActions
    <2>2. connected = Session.local
      BY <2>1 DEF ConnectedInv
    <2>3. /\ cur \in DOMAIN clone /\ Session = clone[cur] /\ Ahead(cur) /\ InPass /\ InSession /\ Sent
          /\ count \in Nat /\ sent \in Nat /\ Session.uploaded \in Nat
      BY <1>2, <1>4, <2>1, SessionKnown
         DEF Ahead, InPass, Sent, SystemInv, TrackerInv, Inv, TypeOK, UploadTypeOK
    <2>4. PICK i \in DOMAIN status : status[i].local = Session.local
      BY <2>3 DEF SystemInv, TrackerInv, PassInv, AheadInv, LocalsOf
    <2>5. status[i].uploaded = count /\ Session.uploaded + sent <= count
      BY <2>3, <2>4 DEF SystemInv, TrackerInv, PassInv, CountInv, SentInv
    <2>6. n > status[i].uploaded
      BY <1>4, <2>1, <2>2, <2>4 DEF Beyond
    <2> QED BY <1>4, <2>3, <2>5, <2>6 DEF Beyond
  <1>5. CASE ~InTalk /\ ~InTalk'
    <2>1. connected' = connected
      BY <1>5 DEF Partner
    <2>2. \A i \in DOMAIN status : i \in DOMAIN status' /\ status'[i] = status[i]
      <3>1. ~IdRead /\ ~DataDone /\ ~AckOk /\ ~SaveId /\ ~SaveUploaded /\ ~SaveFinish
        BY <1>5 DEF InTalk, IdRead, IdOk, DataDone, CountUploaded, AckOk, SaveId, SaveUploaded,
             SaveFinish
      <3>2. CASE GnssJoin /\ ~joined /\ status' = AddSession(status, boots)
        <4>1. boots \in LocalIds /\ status \in Statuses
          BY <3>2, SystemTypes DEF GnssJoin, SystemInv, TrackerInv, Inv, GnssInv, LocalIds
        <4> QED BY <3>2, <4>1, AddSessionResult, StatusElements
      <3> QED BY <1>1, <3>1, <3>2, StatusStep
    <2>3. \A i \in DOMAIN status' : status'[i].local = connected => n > status'[i].uploaded
      BY <1>5, <2>1 DEF Beyond
    <2> QED BY <1>5, <2>2, <2>3 DEF Beyond
  <1>6. CASE ~InTalk /\ InTalk'
    <2>1. NextSession
      <3>1. CASE UNCHANGED <<upload, clone, cur, count, sent, connected>>
        BY <1>6, <3>1 DEF InTalk
      <3>2. CASE \/ Open \/ IdRead \/ SaveId \/ DataDone \/ SaveUploaded \/ AnswerRead \/ SendOk
                 \/ UploadBegin \/ PassDone \/ PassFailed \/ PassEnds \/ Finished \/ Settle
                 \/ SendFails \/ NoAnswer
        BY <1>6, <3>2 DEF Open, OpenOk, IdRead, IdOk, SaveId, DataDone, CountUploaded, SaveUploaded,
             AnswerRead, AckOk, LinkFails, Fail, SendOk, UploadBegin, PassDone, PassFailed,
             PassEnds, EndPass, EndPassWith, Finished, SaveFinish, Settle, SendFails, NoAnswer,
             InTalk, Talking, Sending
      <3> QED BY <1>1, <3>1, <3>2, UploadActions
    <2>2. /\ sent' = 0 /\ Session' = Session /\ status' = status /\ upload = "next"
          /\ connected = Session.local /\ cur <= Len(clone)
      BY <1>6, <2>1 DEF NextSession, Session, InTalk
    <2>3. cur \in DOMAIN clone /\ cur >= cur
      BY <2>2, StatusElements DEF SystemInv, TrackerInv, Inv, TypeOK, UploadTypeOK
    <2>4. Session.uploaded \in Nat /\ n > Session.uploaded
      BY <1>6, <2>2, <2>3, SessionTyped DEF SystemInv, TrackerInv, Beyond
    <2>5. \A i \in DOMAIN status : status[i].local = connected =>
            status[i].uploaded = Session.uploaded
      BY <2>2, <2>3 DEF SystemInv, TrackerInv, PassInv, SameInv, InPass, Counted, Session
    <2> QED BY <1>6, <2>4, <2>5 DEF Beyond
  <1> QED BY <1>3, <1>4, <1>5, <1>6

LEMMA NextSentBefore ==
    ASSUME SystemInv, ConnectedInv, SentInv, SentBefore, [SystemNext]_sysVarsAll, ~torn'
    PROVE  SentBefore'
  <1>1. SUFFICES ASSUME Talking', attached' # 0, NEW p \in PointsIn(up'[attached'])
                 PROVE  ~Beyond(p[2])'
    BY DEF SentBefore
  <1>2. attached' = attached /\ attached # 0 /\ attached \in Conns
    BY <1>1, AttachedStep, SystemTypes
  <1>3. PICK q : q = p
    OBVIOUS
  <1>4. q \in PointsIn(up'[attached])
    BY <1>1, <1>2, <1>3
  <1> SUFFICES ~Beyond(q[2])'
    BY <1>3
  <1>5. CASE Talking /\ Partner' = Partner
    <2>1. CASE q \in PointsIn(up[attached])
      <3>1. ~Beyond(q[2]) /\ q[2] \in Nat
        BY <1>2, <1>5, <2>1, PointTyped DEF SentBefore
      <3>2. PICK n \in Nat : n = q[2]
        BY <3>1
      <3>3. ~Beyond(n)'
        BY <1>1, <1>5, <3>1, <3>2, BeyondStep
      <3> QED BY <3>2, <3>3
    <2>2. CASE /\ SendOk \/ SendFails
               /\ upload = "data" /\ q \in Members(NextChunk)
      <3>1. SendOk /\ ChunkOk
        BY <1>1, <2>2 DEF SendOk, SendFails, HelloOk, ChunkOk, FinishSent, SignSent, LinkFails, Fail,
             Talking, InTalk
      <3>2. InTalk' /\ Session' = Session /\ sent' = sent + ChunkSize
        BY <3>1 DEF ChunkOk, InTalk, Session
      <3>3. /\ q[2] \in Nat /\ q[2] <= Session.uploaded + sent + ChunkSize
            /\ Session.uploaded \in Nat /\ sent \in Nat /\ ChunkSize \in Nat
        BY <2>2, ChunkBeyond, SessionKnown DEF InSession
      <3> QED BY <3>2, <3>3 DEF Beyond
    <2> QED BY <1>2, <1>4, <2>1, <2>2, PointStep
  <1>6. CASE upload = "hello"
    <2>1. up[attached] = <<>>
      BY <1>6 DEF SystemInv, ChannelInv, HelloInv
    <2>2. PointsIn(<<>>) = {}
      BY DEF PointsIn
    <2> QED BY <1>2, <1>4, <1>6, <2>1, <2>2, PointStep
  <1> QED BY <1>1, <1>5, <1>6, TalkStep

LEMMA NextOrder ==
    ASSUME SystemInv, OrderInv, SentBefore, [SystemNext]_sysVarsAll, ~torn' PROVE OrderInv'
  <1> SUFFICES ASSUME NEW c \in Conns, NEW i \in DOMAIN up'[c], NEW j \in DOMAIN up'[c],
                      NEW a \in DOMAIN up'[c][i].points, NEW b \in DOMAIN up'[c][j].points,
                      i < j \/ (i = j /\ a < b)
               PROVE  up'[c][i].points[a][2] < up'[c][j].points[b][2]
    BY DEF OrderInv
  <1>1. CASE up'[c] = up[c]
    BY <1>1 DEF OrderInv
  <1>2. CASE SendOk \/ SendFails
    <2>1. /\ DOMAIN up[c] = 1..Len(up[c]) /\ Len(up[c]) \in Nat
          /\ \/ i \in DOMAIN up[c] /\ up'[c][i] = up[c][i]
             \/ i = Len(up[c]) + 1 /\ up'[c][i] = Message /\ c = attached
          /\ \/ j \in DOMAIN up[c] /\ up'[c][j] = up[c][j]
             \/ j = Len(up[c]) + 1 /\ up'[c][j] = Message /\ c = attached
      BY <1>2, SayQueue DEF SystemInv
    <2>2. Sending /\ (Expected > 0 => Take(Expected))
      BY <1>2, SayEffect DEF SystemInv
    <2>3. Saying /\ (upload # "data" => DOMAIN Message.points = {})
      BY <2>2, MessageTyped DEF SystemInv
    <2>4. CASE i \in DOMAIN up[c] /\ up'[c][i] = up[c][i] /\ j \in DOMAIN up[c] /\ up'[c][j] = up[c][j]
      BY <2>4 DEF OrderInv
    <2>5. CASE i = Len(up[c]) + 1 /\ up'[c][i] = Message
      <3>1. j = i /\ a < b /\ upload = "data"
        BY <2>1, <2>3, <2>5
      <3>2. a \in 1..ChunkSize /\ b \in 1..ChunkSize /\ up'[c][i].points = NextChunk
            /\ up'[c][j].points = NextChunk
        BY <1>2, <2>5, <3>1, ChunkBeyond
      <3>3. NextChunk[a][2] = Session.uploaded + sent + a /\ NextChunk[b][2] = Session.uploaded + sent + b
            /\ Session.uploaded + sent \in Nat
        BY <1>2, <3>1, <3>2, ChunkBeyond
      <3> DEFINE k == Session.uploaded + sent
      <3>4. k \in Nat /\ NextChunk[a][2] = k + a /\ NextChunk[b][2] = k + b
        BY <3>3
      <3> HIDE DEF k
      <3> QED BY <3>1, <3>2, <3>4
    <2>6. CASE /\ i \in DOMAIN up[c] /\ up'[c][i] = up[c][i]
               /\ j = Len(up[c]) + 1 /\ up'[c][j] = Message /\ c = attached
      <3>1. upload = "data"
        BY <2>3, <2>6
      <3>2. up[c][i].points[a] \in PointsIn(up[c])
        BY <2>6 DEF PointsIn, Members
      <3>3. Talking /\ InTalk /\ attached # 0
        BY <2>6, <3>1, SystemTypes DEF Talking, InTalk
      <3>4. ~Beyond(up[c][i].points[a][2]) /\ up[c][i].points[a][2] \in Nat
        BY <2>6, <3>2, <3>3, PointTyped DEF SentBefore
      <3>5. NextChunk[b] \in Members(NextChunk) /\ up'[c][j].points = NextChunk
        BY <1>2, <2>6, <3>1, ChunkBeyond DEF Members
      <3>6. NextChunk[b][2] \in Nat /\ NextChunk[b][2] > Session.uploaded + sent
            /\ Session.uploaded + sent \in Nat
        BY <1>2, <3>1, <3>5, ChunkBeyond
      <3> DEFINE k == Session.uploaded + sent
                 x == up[c][i].points[a][2]
                 y == NextChunk[b][2]
      <3>7. x \in Nat /\ y \in Nat /\ k \in Nat /\ y > k /\ ~(x > k)
        BY <3>3, <3>4, <3>6 DEF Beyond
      <3> HIDE DEF k, x, y
      <3>8. x < y
        BY <3>7
      <3> QED BY <2>6, <3>5, <3>8 DEF x, y
    <2> QED BY <2>1, <2>4, <2>5, <2>6
  <1>3. CASE up'[c] = <<>>
    BY <1>3
  <1>4. CASE up[c] # <<>> /\ up'[c] = Tail(up[c])
    <2>1. /\ i + 1 \in DOMAIN up[c] /\ up'[c][i] = up[c][i + 1] /\ i \in Nat
          /\ j + 1 \in DOMAIN up[c] /\ up'[c][j] = up[c][j + 1] /\ j \in Nat
      BY <1>4, HeadRead DEF SystemInv, ChannelInv
    <2>2. i + 1 < j + 1 \/ (i + 1 = j + 1 /\ a < b)
      BY <2>1
    <2> QED BY <2>1, <2>2 DEF OrderInv
  <1> QED BY <1>1, <1>2, <1>3, <1>4, QueueStep

-----------------------------------------------------------------------------
\* How often a point is stored

\* The connections that have brought what they can of the point.
Brought(id, p) == {c \in Conns : serving[c] = id /\ ~StillBrings(c, p)}

\* A connection that does not bring the point any more never does.
LEMMA BroughtStep ==
    ASSUME SystemInv, ConnectedInv, SentInv, [SystemNext]_sysVarsAll, ~torn',
           NEW id \in DOMAIN sessions, NEW p \in Points
    PROVE  Brought(id, p) \subseteq Brought(id, p)'
  <1> SUFFICES ASSUME NEW c \in Brought(id, p) PROVE c \in Brought(id, p)'
    OBVIOUS
  <1>1. /\ c \in Conns /\ serving[c] = id /\ id # 0 /\ p \notin PointsIn(up[c])
        /\ ~(c = attached /\ Talking /\ Beyond(p[2])) /\ p[2] \in Nat /\ c # 0
    BY SystemTypes DEF Brought, StillBrings, Points
  <1>2. serving'[c] = id
    <2>1. handler[c] # "handshake"
      BY <1>1 DEF SystemInv, ChannelInv, HandlerInv
    <2> QED BY <1>1, <2>1, QueueStep
       DEF ServeFresh, ServeReconnect, ServeData, ServeFinish, Receives
  <1>3. p \notin PointsIn(up'[c])
    <2> SUFFICES ASSUME c = attached, upload = "data", p \in Members(NextChunk),
                        SendOk \/ SendFails
                 PROVE  FALSE
      BY <1>1, PointStep
    <2>1. Talking /\ InTalk
      BY DEF Talking, InTalk
    <2>2. Beyond(p[2])
      BY <2>1, ChunkBeyond DEF Beyond
    <2> QED BY <1>1, <2>1, <2>2
  <1>4. ~(c = attached' /\ Talking' /\ Beyond(p[2])')
    <2> SUFFICES ASSUME c = attached', Talking', Beyond(p[2])' PROVE FALSE
      OBVIOUS
    <2>1. attached' = attached /\ attached' # 0 /\ c = attached
      BY <1>1, AttachedStep
    <2>2. upload # "hello"
      BY <1>1, <2>1 DEF SystemInv, ChannelInv, HelloInv
    <2>3. Talking /\ Partner' = Partner
      BY <2>2, TalkStep
    <2>4. PICK n \in Nat : n = p[2]
      BY <1>1
    <2>5. Beyond(n)'
      BY <2>4
    <2>6. Beyond(n)
      BY <2>1, <2>3, <2>5, BeyondStep
    <2> QED BY <1>1, <2>1, <2>3, <2>4, <2>6
  <1> QED BY <1>1, <1>2, <1>3, <1>4 DEF Brought, StillBrings

\* Where a point is in a sequence.
At(s, p) == {i \in DOMAIN s : s[i] = p}

LEMMA AtFinite ==
    ASSUME NEW S, NEW s \in Seq(S), NEW p
    PROVE  IsFiniteSet(At(s, p)) /\ Cardinality(At(s, p)) \in Nat
  <1>1. At(s, p) \subseteq 1..Len(s) /\ Len(s) \in Nat
    BY LenProperties DEF At
  <1>2. IsFiniteSet(1..Len(s))
    BY <1>1, FS_Interval
  <1>3. IsFiniteSet(At(s, p))
    BY <1>1, <1>2, FS_Subset
  <1> QED BY <1>3, FS_CardinalityType

\* Appending points of which each comes once adds at most one place.
LEMMA AtConcat ==
    ASSUME NEW S, NEW s \in Seq(S), NEW t \in Seq(S), NEW p
    PROVE  /\ p \notin Members(t) => At(s \o t, p) = At(s, p)
           /\ (\A a, b \in DOMAIN t : t[a] = p /\ t[b] = p => a = b) =>
                Cardinality(At(s \o t, p)) <= Cardinality(At(s, p)) + 1
  <1> DEFINE n == Len(s)
             m == Len(t)
  <1>1. /\ n \in Nat /\ m \in Nat /\ DOMAIN s = 1..n /\ DOMAIN t = 1..m
        /\ DOMAIN (s \o t) = 1..(n + m)
        /\ \A i \in 1..(n + m) : (s \o t)[i] = IF i <= n THEN s[i] ELSE t[i - n]
    BY ConcatProperties, LenProperties
  <1> HIDE DEF n, m
  <1>2. \A i \in 1..(n + m) : \/ i \in 1..n /\ (s \o t)[i] = s[i]
                              \/ i - n \in 1..m /\ (s \o t)[i] = t[i - n]
    BY <1>1
  <1>3. \A i \in 1..n : i \in 1..(n + m) /\ (s \o t)[i] = s[i]
    BY <1>1
  <1>4. At(s, p) \subseteq At(s \o t, p)
    BY <1>1, <1>3 DEF At
  <1>5. \A i \in At(s \o t, p) : i \in At(s, p) \/ (i - n \in DOMAIN t /\ t[i - n] = p)
    BY <1>1, <1>2 DEF At
  <1>6. ASSUME p \notin Members(t) PROVE At(s \o t, p) = At(s, p)
    BY <1>4, <1>5, <1>6 DEF Members
  <1>7. ASSUME \A a, b \in DOMAIN t : t[a] = p /\ t[b] = p => a = b
        PROVE  Cardinality(At(s \o t, p)) <= Cardinality(At(s, p)) + 1
    <2>1. IsFiniteSet(At(s, p)) /\ Cardinality(At(s, p)) \in Nat
      BY AtFinite
    <2>2. CASE p \notin Members(t)
      BY <1>6, <2>1, <2>2
    <2>3. CASE p \in Members(t)
      <3>1. PICK b \in DOMAIN t : t[b] = p
        BY <2>3 DEF Members
      <3>2. At(s \o t, p) \subseteq At(s, p) \cup {n + b}
        <4>1. ASSUME NEW i \in At(s \o t, p), i \notin At(s, p) PROVE i = n + b
          <5>1. i - n \in DOMAIN t /\ t[i - n] = p /\ i \in Nat
            BY <1>1, <1>5, <4>1 DEF At
          <5>2. i - n = b
            BY <1>7, <3>1, <5>1
          <5> QED BY <1>1, <5>1, <5>2
        <4> QED BY <4>1
      <3>3. /\ IsFiniteSet(At(s, p) \cup {n + b})
            /\ Cardinality(At(s, p) \cup {n + b}) <= Cardinality(At(s, p)) + 1
            /\ Cardinality(At(s, p) \cup {n + b}) \in Nat
        <4> DEFINE Before == At(s, p)
                   x == n + b
        <4>1. IsFiniteSet(Before) /\ Cardinality(Before) \in Nat
          BY <2>1
        <4> HIDE DEF Before, x
        <4>2. /\ IsFiniteSet(Before \cup {x})
              /\ Cardinality(Before \cup {x}) \in {Cardinality(Before), Cardinality(Before) + 1}
          BY <4>1, FS_AddElement
        <4>3. Cardinality(Before \cup {x}) <= Cardinality(Before) + 1
              /\ Cardinality(Before \cup {x}) \in Nat
          BY <4>1, <4>2
        <4> QED BY <4>2, <4>3 DEF Before, x
      <3>4. Cardinality(At(s \o t, p)) <= Cardinality(At(s, p) \cup {n + b})
            /\ Cardinality(At(s \o t, p)) \in Nat
        <4>1. s \o t \in Seq(S)
          BY ConcatProperties
        <4> QED BY <3>2, <3>3, <4>1, FS_Subset, AtFinite
      <3> QED BY <2>1, <3>3, <3>4
    <2> QED BY <2>2, <2>3
  <1> QED BY <1>6, <1>7

LEMMA BroughtFinite ==
    ASSUME NEW id, NEW p PROVE IsFiniteSet(Brought(id, p)) /\ Cardinality(Brought(id, p)) \in Nat
  <1>1. Brought(id, p) \subseteq Conns /\ IsFiniteSet(Conns)
    BY SystemAssumption, FS_Interval DEF Brought, Conns
  <1> QED BY <1>1, FS_Subset, FS_CardinalityType

\* A connection brings each point once, so that what it adds to the session it adds to
\* the connections that have brought the point.
LEMMA NextOnce ==
    ASSUME SystemInv, ConnectedInv, SentInv, OrderInv, SentBefore, OnceInv, OneOwner,
           [SystemNext]_sysVarsAll, ~torn'
    PROVE  OnceInv'
  <1> SUFFICES ASSUME NEW id \in DOMAIN sessions', NEW p \in Members(sessions'[id].points)
               PROVE  Cardinality(At(sessions'[id].points, p)) <= Cardinality(Brought(id, p)')
    BY DEF OnceInv, Occurrences, At, Brought, PointsOf
  <1>1. id \in DOMAIN sessions
    <2>1. Members(<<>>) = {}
      BY DEF Members
    <2> QED BY <2>1, StoreStep
  <1>2. sessions[id].points \in Seq(Points) /\ sessions'[id].points \in Seq(Points)
    <2>1. SystemInv'
      BY NextSystem
    <2> DEFINE Records == [live : BOOLEAN, points : Seq(Points)]
    <2>2. sessions' \in Seq(Records)
      BY <2>1 DEF SystemInv, ChannelInv, LinkTypeOK
    <2> HIDE DEF Records
    <2>3. sessions'[id] \in Records
      BY <2>2, ElementOfSeq, LenProperties
    <2> QED BY <1>1, <2>3, StoredTyped DEF Records
  <1>3. p \in Points
    BY <1>2, ElementOfSeq, LenProperties DEF Members
  <1>4. Brought(id, p) \subseteq Brought(id, p)'
    BY <1>1, <1>3, BroughtStep
  <1>5. /\ IsFiniteSet(Brought(id, p)') /\ Cardinality(Brought(id, p)') \in Nat
        /\ IsFiniteSet(Brought(id, p)) /\ Cardinality(Brought(id, p)) \in Nat
        /\ Cardinality(Brought(id, p)) <= Cardinality(Brought(id, p)')
    <2>1. Brought(id, p)' \subseteq Conns /\ IsFiniteSet(Conns)
      BY SystemAssumption, FS_Interval DEF Brought, Conns
    <2> QED BY <1>4, <2>1, FS_Subset, FS_CardinalityType, BroughtFinite
  <1>6. /\ Cardinality(At(sessions[id].points, p)) <= Cardinality(Brought(id, p))
        /\ Cardinality(At(sessions[id].points, p)) \in Nat
    <2>1. CASE p \in Members(sessions[id].points)
      BY <1>1, <1>2, <2>1, AtFinite DEF OnceInv, Occurrences, At, Brought, PointsOf
    <2>2. CASE p \notin Members(sessions[id].points)
      <3>1. At(sessions[id].points, p) = {}
        BY <2>2 DEF At, Members
      <3> QED BY <1>5, <3>1, FS_EmptySet
    <2> QED BY <2>1, <2>2
  <1>7. CASE sessions'[id].points = sessions[id].points
    BY <1>5, <1>6, <1>7
  <1>8. ASSUME NEW c \in Conns, ServeData(c), serving[c] = id,
               sessions'[id].points = sessions[id].points \o Head(up[c]).points
        PROVE  Cardinality(At(sessions'[id].points, p)) <= Cardinality(Brought(id, p)')
    <2> DEFINE batch == Head(up[c]).points
    <2>1. /\ up[c] # <<>> /\ batch \in Seq(Points) /\ batch = up[c][1].points /\ 1 \in DOMAIN up[c]
          /\ up' = [up EXCEPT ![c] = Tail(up[c])]
          /\ UNCHANGED <<vars, attached, serving>>
      BY <1>8, HeadFits, HeadRead
         DEF SystemInv, ChannelInv, ServeData, Receives, Goes, trackerVars
    <2>2. CASE p \notin Members(batch)
      <3>1. At(sessions'[id].points, p) = At(sessions[id].points, p)
        BY <1>2, <1>8, <2>1, <2>2, AtConcat
      <3> QED BY <1>5, <1>6, <3>1
    <2>3. CASE p \in Members(batch)
      <3>1. \A a, b \in DOMAIN batch : batch[a] = p /\ batch[b] = p => a = b
        <4> SUFFICES ASSUME NEW a \in DOMAIN batch, NEW b \in DOMAIN batch,
                            batch[a] = p, batch[b] = p, a # b
                     PROVE  FALSE
          OBVIOUS
        <4>1. DOMAIN batch \subseteq Nat
          BY <2>1, LenProperties
        <4>2. a < b \/ b < a
          BY <4>1
        <4>3. p[2] < p[2]
          BY <2>1, <4>2 DEF OrderInv
        <4> QED BY <1>3, <4>3 DEF Points
      <3>2. Cardinality(At(sessions'[id].points, p)) <= Cardinality(At(sessions[id].points, p)) + 1
        BY <1>2, <1>8, <2>1, <3>1, AtConcat
      <3>3. p \in PointsIn(up[c])
        BY <2>1, <2>3 DEF PointsIn
      <3>4. c \notin Brought(id, p)
        BY <3>3 DEF Brought, StillBrings
      <3>5. c \in Brought(id, p)'
        <4>1. serving'[c] = id /\ up'[c] = Tail(up[c])
          BY <1>8, <2>1, ConnTypes DEF SystemInv, ChannelInv
        <4>2. p \notin PointsIn(Tail(up[c]))
          <5> SUFFICES ASSUME NEW j \in DOMAIN Tail(up[c]),
                              p \in Members(Tail(up[c])[j].points)
                       PROVE  FALSE
            BY DEF PointsIn
          <5>1. /\ j + 1 \in DOMAIN up[c] /\ Tail(up[c])[j] = up[c][j + 1] /\ j \in Nat \ {0}
            BY <2>1, HeadRead DEF SystemInv, ChannelInv
          <5>2. PICK b \in DOMAIN up[c][j + 1].points : p = up[c][j + 1].points[b]
            BY <5>1 DEF Members
          <5>3. PICK a \in DOMAIN up[c][1].points : p = up[c][1].points[a]
            BY <2>1, <2>3 DEF Members
          <5>4. 1 < j + 1
            BY <5>1
          <5>5. p[2] < p[2]
            BY <2>1, <5>1, <5>2, <5>3, <5>4 DEF OrderInv
          <5> QED BY <1>3, <5>5 DEF Points
        <4>3. ~(c = attached' /\ Talking' /\ Beyond(p[2])')
          <5> SUFFICES ASSUME c = attached', Talking', Beyond(p[2])' PROVE FALSE
            OBVIOUS
          <5>1. c = attached /\ attached # 0 /\ Talking /\ Beyond(p[2])
            BY <2>1, SystemTypes DEF vars, uploadVars, passVars, Talking, InTalk, Beyond, Session
          <5> QED BY <3>3, <5>1 DEF SentBefore
        <4> QED BY <4>1, <4>2, <4>3 DEF Brought, StillBrings
      <3>6. Cardinality(Brought(id, p)) + 1 <= Cardinality(Brought(id, p)')
        <4>1. Cardinality(Brought(id, p) \cup {c}) = Cardinality(Brought(id, p)) + 1
          BY <1>5, <3>4, FS_AddElement
        <4>2. Brought(id, p) \cup {c} \subseteq Brought(id, p)'
          BY <1>4, <3>5
        <4>3. Cardinality(Brought(id, p) \cup {c}) <= Cardinality(Brought(id, p)')
          BY <1>5, <4>2, FS_Subset
        <4> QED BY <4>1, <4>3
      <3>7. Cardinality(At(sessions'[id].points, p)) \in Nat
        BY <1>2, AtFinite
      <3> QED BY <1>5, <1>6, <3>2, <3>6, <3>7
    <2> QED BY <2>2, <2>3
  <1> QED BY <1>1, <1>7, <1>8, StoreStep

\* The inductive invariant of how often a point comes.
CountingInv == OrderInv /\ SentBefore /\ OnceInv

THEOREM CountingCorrect == SystemSpec => [](~torn => CountingInv)
  <1>1. SystemInit => CountingInv
    <2> SUFFICES ASSUME SystemInit PROVE CountingInv
      OBVIOUS
    <2>1. /\ upload = "off" /\ sessions = <<>> /\ \A c \in Conns : up[c] = <<>>
      BY DEF SystemInit, Init, Store!Init
    <2>2. DOMAIN sessions = {} /\ \A c \in Conns : DOMAIN up[c] = {}
      BY <2>1
    <2>3. ~Talking
      BY <2>1 DEF Talking, InTalk
    <2> QED BY <2>2, <2>3 DEF CountingInv, OrderInv, SentBefore, OnceInv
  <1>2. SystemInv /\ DataInv /\ CountingInv /\ ~torn' /\ [SystemNext]_sysVarsAll => CountingInv'
    BY NextOrder, NextSentBefore, NextOnce DEF DataInv, CountingInv
  <1>3. TrackerSafe /\ (~torn => SystemInv /\ DataInv) /\ (~torn => CountingInv)
          /\ [SystemNext]_sysVarsAll => (~torn => CountingInv)'
    BY <1>2, SystemStep, NextSafe
  <1>4. SystemSpec => []TrackerSafe
    BY ImplementsTracker, SafeAlways, PTL
  <1> QED BY <1>1, <1>3, <1>4, DataCorrect, PTL DEF SystemSpec

\* As long as no save is cut, the server stores a point at most once for each connection
\* that served the session.
THEOREM AlwaysOncePerConnection == SystemSpec => []OncePerConnection
  <1>1. (~torn => SystemInv /\ DataInv) /\ (~torn => CountingInv) => OncePerConnection
    <2> SUFFICES ASSUME SystemInv, OnceInv, NEW id \in DOMAIN sessions, NEW p \in PointsOf(id)
                 PROVE  Cardinality(Occurrences(id, p))
                            <= Cardinality({c \in Conns : serving[c] = id})
      BY DEF CountingInv, OncePerConnection, Occurrences
    <2> DEFINE Served == {c \in Conns : serving[c] = id}
    <2>1. IsFiniteSet(Served) /\ Cardinality(Served) \in Nat
      <3>1. IsFiniteSet(Conns)
        BY SystemAssumption, FS_Interval DEF Conns
      <3> QED BY <3>1, FS_Subset, FS_CardinalityType
    <2>2. Cardinality(Brought(id, p)) <= Cardinality(Served)
      BY <2>1, FS_Subset DEF Brought
    <2>3. Cardinality(Occurrences(id, p)) <= Cardinality(Brought(id, p))
      BY DEF OnceInv, Brought
    <2>4. Cardinality(Occurrences(id, p)) \in Nat
      BY StoredTyped, AtFinite DEF Occurrences, At
    <2> QED BY <2>1, <2>2, <2>3, <2>4, BroughtFinite
  <1> QED BY <1>1, DataCorrect, CountingCorrect, PTL
=============================================================================
