-------------------------- MODULE TripStoreProofs ---------------------------
(***************************************************************************)
(* StoreInv of SessionStore is inductive: here the part that holds until   *)
(* something disturbs, a fault, a forced end or a second handler at a      *)
(* session.  From it follow the safety properties of SessionStore, what a  *)
(* fault can lose and can orphan, and that the data manager implements     *)
(* TripStore.                                                              *)
(***************************************************************************)
EXTENDS SessionStoreProofs

-----------------------------------------------------------------------------
\* While nothing disturbs

LEMMA QuietReturns ==
    ASSUME StoreTypes, Returns, ~disturbed'
    PROVE  /\ \E t \in Tasks : /\ Moves(t, Record("idle", 0, <<>>, {}, FALSE, {}))
                               /\ task[t].pc \in {"append", "readBuffer", "answer", "second"}
           /\ UNCHANGED <<rows, countries, stored, known, buffers, files, torn, up, lastPoint, faults,
                          commands, disturbed, overlapped>>
  <1>1. ASSUME NEW h \in Handlers, AppendNoBuffer(h)
        PROVE  /\ task[h].pc = "append" /\ h \in Tasks
               /\ Moves(h, Record("idle", 0, <<>>, {}, FALSE, {}))
               /\ UNCHANGED <<rows, countries, stored, known, buffers, files, torn, up, lastPoint, faults,
                              commands, disturbed, overlapped>>
    BY <1>1, TaskIds, AppendNoBufferDoes DEF At
  <1>2. ASSUME NEW h \in Handlers, QueryFails(h)
        PROVE  FALSE
    BY <1>2 DEF QueryFails, Fault
  <1>3. ASSUME NEW r \in Readers, ReadNoBuffer(r) \/ Answer(r)
        PROVE  /\ task[r].pc \in {"readBuffer", "answer"} /\ r \in Tasks
               /\ Moves(r, Record("idle", 0, <<>>, {}, FALSE, {}))
               /\ UNCHANGED <<rows, countries, stored, known, buffers, files, torn, up, lastPoint, faults,
                              commands, disturbed, overlapped>>
    <2>1. task[r].pc \in {"readBuffer", "answer"}
      BY <1>3 DEF ReadNoBuffer, Answer, At
    <2> QED BY <2>1, <1>3, TaskIds, ReaderReturns
  <1>4. ASSUME NEW id \in SessionIds, CombinePanics(id)
        PROVE  /\ task[Cli].pc = "second" /\ Cli \in Tasks
               /\ Moves(Cli, Record("idle", 0, <<>>, {}, FALSE, {}))
               /\ UNCHANGED <<rows, countries, stored, known, buffers, files, torn, up, lastPoint, faults,
                              commands, disturbed, overlapped>>
    <2>1. task[Cli].pc = "second"
      BY <1>4 DEF CombinePanics, At
    <2> QED BY <2>1, <1>4, TaskIds, CombinePanicsDoes
  <1> QED BY <1>1, <1>2, <1>3, <1>4 DEF Returns

LEMMA AloneMoves ==
    ASSUME AloneInv, UNCHANGED up, NEW t \in Tasks,
           NEW pc, NEW id, NEW points, NEW noted, NEW active, NEW list,
           Moves(t, Record(pc, id, points, noted, active, list)),
           t \in Handlers =>
                \/ id \in {0, Id(t)}
                \/ \A other \in Handlers : other # t => Id(other) # id
    PROVE  AloneInv'
  <1>1. task'[t].id = id /\ \A u \in Tasks : u # t => task'[u] = task[u]
    BY MovedFields
  <1>2. \A h, other \in Handlers : task[h].id = task[other].id /\ task[h].id # 0 => h = other
    BY DEF AloneInv, Id
  <1>3. Handlers \subseteq Tasks
    BY DEF Tasks
  <1>4. \A h, other \in Handlers : task'[h].id = task'[other].id /\ task'[h].id # 0 => h = other
    BY <1>1, <1>2, <1>3 DEF Id
  <1> QED BY <1>4 DEF AloneInv, Id

LEMMA NextAlone ==
    ASSUME StoreTypes, PlaceInv, AloneInv, [Next]_vars, ~disturbed, ~disturbed'
    PROVE  AloneInv'
  <1>1. ASSUME NEW h \in Handlers, RegisterRow(h)
        PROVE  AloneInv'
    <2>1. PICK points, noted, active, list : Moves(h, Record("start", Len(rows) + 1, points, noted, active, list))
      BY <1>1, RegisterRowDoes
    <2>2. UNCHANGED up /\ h \in Tasks
      BY <1>1, RegisterRowDoes, TaskIds
    <2>3. \A other \in Handlers : Id(other) # Len(rows) + 1
      <3>1. \A other \in Handlers : Id(other) \in {0} \cup SessionIds
        BY DEF StoreTypes, TasksTypeOK, Tasks
      <3> QED BY <3>1, Ids
    <2> QED BY <2>1, <2>2, <2>3, TaskIds, AloneMoves
  <1>2. ASSUME NEW h \in Handlers, StartBuffer(h)
        PROVE  AloneInv'
    <2>1. PICK points, noted, active, list : Moves(h, Record("idle", 0, points, noted, active, list))
      BY <1>2, StartBufferDoes
    <2>2. UNCHANGED up /\ h \in Tasks
      BY <1>2, StartBufferDoes, TaskIds
    <2> QED BY <2>1, <2>2, TaskIds, AloneMoves
  <1>3. ASSUME NEW h \in Handlers, NEW id \in SessionIds, AppendLookup(h, id)
        PROVE  AloneInv'
    <2>1. PICK points, noted, active, list : Moves(h, Record("trip", id, points, noted, active, list))
      BY <1>3, AppendLookupDoes
    <2>2. UNCHANGED up /\ h \in Tasks
      BY <1>3, AppendLookupDoes, TaskIds
    <2>3. \A other \in Handlers : Id(other) # id
      BY <1>3, AppendLookupDoes
    <2> QED BY <2>1, <2>2, <2>3, TaskIds, AloneMoves
  <1>4. ASSUME NEW t \in Handlers \cup {Cli}, ReadTrip(t)
        PROVE  AloneInv'
    <2>1. PICK pc, list :
                /\ pc \in {"countries", Destination(t)}
                /\ Moves(t, Record(pc, Id(t), task[t].points, task[t].noted, task[t].active, list))
      BY <1>4, ReadTripGoes
    <2>2. UNCHANGED up /\ t \in Tasks
      BY <1>4, ReadTripDoes, TaskIds
    <2> QED BY <2>1, <2>2, TaskIds, AloneMoves
  <1>5. ASSUME NEW t \in Handlers \cup {Cli}, WriteCountries(t)
        PROVE  AloneInv'
    <2>1. PICK pc, list :
                /\ pc = Destination(t)
                /\ Moves(t, Record(pc, Id(t), task[t].points, task[t].noted, task[t].active, list))
      BY <1>5, WriteCountriesDoes
    <2>2. UNCHANGED up /\ t \in Tasks
      BY <1>5, WriteCountriesDoes, TaskIds
    <2> QED BY <2>1, <2>2, TaskIds, AloneMoves
  <1>6. ASSUME NEW h \in Handlers, AppendBuffer(h)
        PROVE  AloneInv'
    <2>1. PICK points, noted, active, list : Moves(h, Record("idle", 0, points, noted, active, list))
      BY <1>6, AppendBufferDoes
    <2>2. UNCHANGED up /\ h \in Tasks
      BY <1>6, AppendBufferDoes, TaskIds
    <2> QED BY <2>1, <2>2, TaskIds, AloneMoves
  <1>7. ASSUME NEW t \in Handlers \cup {Cli}, DbRead(t)
        PROVE  AloneInv'
    <2>1. PICK points, noted, active, list : Moves(t, Record("dbWrite", Id(t), points, noted, active, list))
      BY <1>7, DbReadDoes
    <2>2. UNCHANGED up /\ t \in Tasks
      BY <1>7, DbReadDoes, TaskIds
    <2> QED BY <2>1, <2>2, TaskIds, AloneMoves
  <1>8. ASSUME NEW t \in Handlers \cup {Cli}, DbWrite(t)
        PROVE  AloneInv'
    <2>1. PICK points, noted, active, list : Moves(t, Record("idle", 0, points, noted, active, list))
      BY <1>8, DbWriteDoes
    <2>2. UNCHANGED up /\ t \in Tasks
      BY <1>8, DbWriteDoes, TaskIds
    <2> QED BY <2>1, <2>2, TaskIds, AloneMoves
  <1>9. ASSUME NEW h \in Handlers, NEW id \in SessionIds, EndClose(h, id)
        PROVE  AloneInv'
    <2>1. PICK points, noted, active, list : Moves(h, Record("endPoints", id, points, noted, active, list))
      BY <1>9, EndCloseDoes
    <2>2. UNCHANGED up /\ h \in Tasks
      BY <1>9, EndCloseDoes, TaskIds
    <2>3. \A other \in Handlers : Id(other) # id
      BY <1>9, EndCloseDoes
    <2> QED BY <2>1, <2>2, <2>3, TaskIds, AloneMoves
  <1>10. ASSUME NEW h \in Handlers, EndPoints(h)
        PROVE  AloneInv'
    <2>1. PICK points, noted, active, list : Moves(h, Record("endActive", Id(h), points, noted, active, list))
      BY <1>10, EndPointsDoes
    <2>2. UNCHANGED up /\ h \in Tasks
      BY <1>10, EndPointsDoes, TaskIds
    <2> QED BY <2>1, <2>2, TaskIds, AloneMoves
  <1>11. ASSUME NEW h \in Handlers, EndActive(h)
        PROVE  AloneInv'
    <2>1. PICK points, noted, active, list : Moves(h, Record("idle", 0, points, noted, active, list))
      BY <1>11, EndActiveDoes
    <2>2. UNCHANGED up /\ h \in Tasks
      BY <1>11, EndActiveDoes, TaskIds
    <2> QED BY <2>1, <2>2, TaskIds, AloneMoves
  <1>12. ASSUME NEW h \in Handlers, StartFails(h)
        PROVE  AloneInv'
    BY <1>12, StartFailsDoes DEF Fault
  <1>13. ASSUME NEW h \in Handlers, AppendFails(h)
        PROVE  AloneInv'
    BY <1>13, AppendFailsDoes DEF Fault
  <1>14. ASSUME NEW h \in Handlers, NEW id \in SessionIds, CloseFails(h, id)
        PROVE  AloneInv'
    BY <1>14, CloseFailsDoes DEF Fault
  <1>15. ASSUME NEW r \in Readers, NEW id \in SessionIds, ReadRow(r, id)
        PROVE  AloneInv'
    <2>1. PICK pc \in {"readBuffer", "answer"} :
                Moves(r, Record(pc, id, rows[id].points, stored[id], FALSE, {}))
      BY <1>15, ReadRowDoes
    <2>2. UNCHANGED up /\ r \in Tasks
      BY <1>15, ReadRowDoes, TaskIds
    <2> QED BY <2>1, <2>2, TaskIds, AloneMoves
  <1>16. ASSUME NEW r \in Readers, ReadBuffer(r)
        PROVE  AloneInv'
    <2>1. PICK points, noted, active, list : Moves(r, Record("answer", Id(r), points, noted, active, list))
      BY <1>16, ReadBufferDoes
    <2>2. UNCHANGED up /\ r \in Tasks
      BY <1>16, ReadBufferDoes, TaskIds
    <2> QED BY <2>1, <2>2, TaskIds, AloneMoves
  <1>17. ASSUME NEW id \in SessionIds, Ends(id)
        PROVE  AloneInv'
    BY <1>17, EndsDoes
  <1>18. ASSUME NEW id \in SessionIds, FixTime(id) \/ Combine(id)
        PROVE  AloneInv'
    <2>1. PICK pc, points, noted, active : pc \in {"insert", "second"} /\
                Moves(Cli, Record(pc, id, points, noted, active, {}))
      BY <1>18, TakeDoes
    <2>2. UNCHANGED up /\ Cli \in Tasks
      BY <1>18, TakeDoes, TaskIds
    <2> QED BY <2>1, <2>2, TaskIds, AloneMoves
  <1>19. ASSUME NEW id \in SessionIds, CombineWith(id)
        PROVE  AloneInv'
    <2>1. PICK points, noted, active, list : Moves(Cli, Record("insert", Id(Cli), points, noted, active, list))
      BY <1>19, CombineWithDoes
    <2>2. UNCHANGED up /\ Cli \in Tasks
      BY <1>19, CombineWithDoes, TaskIds
    <2> QED BY <2>1, <2>2, TaskIds, AloneMoves
  <1>20. ASSUME CopyRow
        PROVE  AloneInv'
    <2>1. PICK points, noted, active, list : Moves(Cli, Record("copy", Len(rows) + 1, points, noted, active, list))
      BY <1>20, CopyRowDoes
    <2>2. UNCHANGED up /\ Cli \in Tasks
      BY <1>20, CopyRowDoes, TaskIds
    <2> QED BY <2>1, <2>2, TaskIds, AloneMoves
  <1>21. ASSUME CopyPoints
        PROVE  AloneInv'
    <2>1. PICK points, noted, active, list : Moves(Cli, Record("idle", 0, points, noted, active, list))
      BY <1>21, CopyPointsDoes
    <2>2. UNCHANGED up /\ Cli \in Tasks
      BY <1>21, CopyPointsDoes, TaskIds
    <2> QED BY <2>1, <2>2, TaskIds, AloneMoves
  <1>22. ASSUME AddGpx
        PROVE  AloneInv'
    <2>1. PICK points, noted, active, list : Moves(Cli, Record("trip", Len(rows) + 1, points, noted, active, list))
      BY <1>22, AddGpxDoes
    <2>2. UNCHANGED up /\ Cli \in Tasks
      BY <1>22, AddGpxDoes, TaskIds
    <2> QED BY <2>1, <2>2, TaskIds, AloneMoves
  <1>23. ASSUME Crash
        PROVE  AloneInv'
    BY <1>23, CrashDoes DEF Fault
  <1>24. ASSUME Returns
        PROVE  AloneInv'
    <2>1. PICK t \in Tasks : Moves(t, Record("idle", 0, <<>>, {}, FALSE, {}))
      BY <1>24, ReturnsDoes
    <2>2. UNCHANGED up
      BY <1>24, ReturnsDoes
    <2>3. PICK points, noted, active, list : Moves(t, Record("idle", 0, points, noted, active, list))
      BY <2>1
    <2> QED BY <2>2, <2>3, AloneMoves
  <1>25. ASSUME UNCHANGED vars
        PROVE  AloneInv'
    BY <1>25 DEF vars, bufferVars, AloneInv, Id
  <1> QED BY StepCases, <1>1, <1>2, <1>3, <1>4, <1>5, <1>6, <1>7, <1>8, <1>9, <1>10, <1>11, <1>12,
         <1>13, <1>14, <1>15, <1>16, <1>17, <1>18, <1>19, <1>20, <1>21, <1>22, <1>23,
         <1>24, <1>25, Zenon

\* A task does nothing about the rows being active, and an ended row has what is stored.
LEMMA RowKept ==
    ASSUME StoreTypes, RowInv, NEW t \in Tasks,
           NEW pc, NEW id, NEW points, NEW noted, NEW active, NEW list,
           Moves(t, Record(pc, id, points, noted, active, list)),
           t \in Handlers => /\ task[t].pc \notin {"start", "endPoints", "endActive"}
                             /\ pc \notin {"start", "endPoints", "endActive"},
           t = Cli => pc # "copy",
           SessionIds' = SessionIds, DOMAIN buffers' = DOMAIN buffers,
           \A i \in SessionIds : /\ rows'[i].active = rows[i].active
                                 /\ rows[i].active => rows'[i].points = rows[i].points
                                 /\ ~rows[i].active => stored'[i] \subseteq Range(rows'[i].points)
    PROVE  RowInv'
  <1>1. task'[t].pc = pc /\ \A u \in Tasks : u # t => task'[u] = task[u]
    BY MovedFields
  <1>2. \A h \in Handlers :
            /\ task'[h].pc \in {"start", "endPoints", "endActive"}
                    <=> task[h].pc \in {"start", "endPoints", "endActive"}
            /\ task[h].pc \in {"start", "endPoints", "endActive"} =>
                    task'[h] = task[h] /\ task[h].id \in SessionIds
    BY <1>1, TaskIds DEF At, Id
  <1>3. task'[Cli].pc = "copy" => task'[Cli] = task[Cli] /\ task[Cli].id \in SessionIds
    BY <1>1, TaskIds DEF At, Id
  <1>4. \A h \in Handlers :
            task'[h].pc \in {"start", "endPoints", "endActive"} => rows'[task'[h].id].active
    BY <1>2 DEF RowInv, Id
  <1>5. task'[Cli].pc = "copy" => ~rows'[task'[Cli].id].active
    BY <1>3 DEF RowInv, Id, At
  <1>6. ASSUME NEW i \in SessionIds
        PROVE  /\ \/ \E h \in Handlers :
                        task'[h].id = i /\ task'[h].pc \in {"start", "endPoints", "endActive"}
                  \/ rows'[i].active <=> i \in DOMAIN buffers'
               /\ ~rows'[i].active => stored'[i] \subseteq Range(rows'[i].points)
               /\ rows'[i].active => \/ rows'[i].points = <<>>
                                     \/ \E h \in Handlers : task'[h].pc = "endActive" /\ task'[h].id = i
    BY <1>2 DEF RowInv, Changing, Id, At
  <1> QED BY <1>4, <1>5, <1>6 DEF RowInv, Changing, Id, At

-----------------------------------------------------------------------------
\* The rows while nothing disturbs

\* The same of a step that does not touch the store.
LEMMA RowSame ==
    ASSUME StoreTypes, RowInv, NEW t \in Tasks,
           NEW pc, NEW id, NEW points, NEW noted, NEW active, NEW list,
           Moves(t, Record(pc, id, points, noted, active, list)),
           t \in Handlers => /\ task[t].pc \notin {"start", "endPoints", "endActive"}
                             /\ pc \notin {"start", "endPoints", "endActive"},
           t = Cli => pc # "copy", UNCHANGED <<rows, stored, buffers>>
    PROVE  RowInv'
  <1>1. SessionIds' = SessionIds /\ DOMAIN buffers' = DOMAIN buffers
    BY DEF SessionIds
  <1>2. \A i \in SessionIds : /\ rows'[i].active = rows[i].active
                              /\ rows[i].active => rows'[i].points = rows[i].points
                              /\ ~rows[i].active => stored'[i] \subseteq Range(rows'[i].points)
    BY DEF RowInv
  <1> QED BY <1>1, <1>2, RowKept

LEMMA RowNew ==
    ASSUME StoreTypes, RowInv, NEW t \in Tasks,
           NEW pc, NEW points, NEW noted, NEW active, NEW list,
           Moves(t, Record(pc, Len(rows) + 1, points, noted, active, list)),
           NEW live \in BOOLEAN, InsertRow(live), UNCHANGED buffers,
           \/ t \in Handlers /\ task[t].pc = "idle" /\ pc = "start" /\ live
           \/ t = Cli /\ pc \in {"copy", "trip"} /\ ~live
    PROVE  RowInv'
  <1> DEFINE k == Len(rows) + 1
  <1>1. /\ SessionIds' = SessionIds \cup {k} /\ stored'[k] = {} /\ k \notin SessionIds
        /\ \A i \in SessionIds : rows'[i] = rows[i] /\ stored'[i] = stored[i]
        /\ rows'[k].active = live /\ rows'[k].points = <<>>
    BY RowInserted
  <1>2. /\ task'[t].pc = pc /\ task'[t].id = k /\ \A u \in Tasks : u # t => task'[u] = task[u]
    BY MovedFields
  <1> HIDE DEF k
  <1>3. \A i \in DOMAIN buffers : i \in SessionIds
    BY BufferFields
  <1>4. \A u \in Tasks : task[u].pc # "idle" => task[u].id \in SessionIds
    BY TaskIds DEF At, Id
  <1>5. Handlers \subseteq Tasks /\ Cli \in Tasks /\ Cli \notin Handlers
    BY TaskIds
  <1>6. ASSUME NEW h \in Handlers, task'[h].pc \in {"start", "endPoints", "endActive"}
        PROVE  rows'[task'[h].id].active
    <2>1. CASE h = t
      BY <1>1, <1>2, <1>5, <2>1
    <2>2. CASE h # t
      BY <1>1, <1>2, <1>4, <1>5, <1>6, <2>2 DEF RowInv, Id
    <2> QED BY <2>1, <2>2
  <1>7. ASSUME task'[Cli].pc = "copy"
        PROVE  ~rows'[task'[Cli].id].active
    <2>1. CASE t = Cli
      BY <1>1, <1>2, <1>5, <2>1
    <2>2. CASE t # Cli
      BY <1>1, <1>2, <1>4, <1>5, <1>7, <2>2 DEF RowInv, Id, At
    <2> QED BY <2>1, <2>2
  <1>8. \A h \in Handlers : task[h].pc \in {"start", "endPoints", "endActive"} => task'[h] = task[h]
    BY <1>2, <1>5
  <1>9. ASSUME NEW i \in SessionIds
        PROVE  /\ \/ \E h \in Handlers :
                        task'[h].id = i /\ task'[h].pc \in {"start", "endPoints", "endActive"}
                  \/ rows'[i].active <=> i \in DOMAIN buffers
               /\ ~rows'[i].active => stored'[i] \subseteq Range(rows'[i].points)
               /\ rows'[i].active => \/ rows'[i].points = <<>>
                                     \/ \E h \in Handlers : task'[h].pc = "endActive" /\ task'[h].id = i
    BY <1>1, <1>8 DEF RowInv, Changing, Id, At
  <1>10. /\ \/ \E h \in Handlers :
                  task'[h].id = k /\ task'[h].pc \in {"start", "endPoints", "endActive"}
            \/ rows'[k].active <=> k \in DOMAIN buffers
         /\ ~rows'[k].active => stored'[k] \subseteq Range(rows'[k].points)
         /\ rows'[k].active => rows'[k].points = <<>>
    BY <1>1, <1>2, <1>3
  <1> QED BY <1>1, <1>6, <1>7, <1>9, <1>10 DEF RowInv, Changing, Id, At

LEMMA RangeBatch ==
    ASSUME StoreTypes, NEW id \in SessionIds, NEW batch \in Batches
    PROVE  Range(rows[id].points \o batch) = Range(rows[id].points) \cup Range(batch)
  <1>1. PICK p \in Nat : batch = <<p>> \/ batch = <<p, p + 1>>
    BY StoreAssumption DEF Batches, Points
  <1>2. batch \in Seq(Nat)
    <2>1. p \in Nat /\ p + 1 \in Nat
      BY <1>1
    <2>2. <<p>> \in Seq(Nat) /\ <<p, p + 1>> \in Seq(Nat)
      BY <2>1
    <2> QED BY <1>1, <2>2
  <1>3. rows[id].points \in Seq(Points) /\ Points \subseteq Nat
    BY Ids, StoreAssumption DEF Points
  <1>4. rows[id].points \in Seq(Nat)
    BY <1>3, SeqMonotonic
  <1> QED BY <1>2, <1>4, RangeConcat

LEMMA NextRow ==
    ASSUME StoreTypes, PlaceInv, InactiveInv, KeepInv, AloneInv, RowInv, BatchInv, [Next]_vars,
           ~disturbed'
    PROVE  RowInv'
  <1>1. ASSUME NEW h \in Handlers, RegisterRow(h)
        PROVE  RowInv'
    <2>1. PICK points, noted, active, list : Moves(h, Record("start", Len(rows) + 1, points, noted, active, list))
      BY <1>1, RegisterRowDoes
    <2>2. InsertRow(TRUE) /\ UNCHANGED buffers /\ task[h].pc = "idle" /\ h \in Tasks
      BY <1>1, RegisterRowDoes, TaskIds DEF At
    <2> QED BY <2>1, <2>2, RowNew
  <1>2. ASSUME NEW h \in Handlers, StartBuffer(h)
        PROVE  RowInv'
    <2>1. UNCHANGED <<rows, stored>> /\ SessionIds' = SessionIds /\ task[h].pc = "start" /\ h \in Tasks
      BY <1>2, StartBufferDoes, TaskIds DEF SessionIds, At
    <2>2. /\ task'[h].pc = "idle" /\ \A u \in Tasks : u # h => task'[u] = task[u]
      <3>1. Moves(h, Record("idle", 0, <<>>, {}, FALSE, {}))
        BY <1>2, StartBufferDoes
      <3> QED
        BY <3>1, MovedFields, Zenon
    <2>3. DOMAIN buffers' = DOMAIN buffers \cup {Id(h)} /\ Id(h) \in SessionIds /\ rows[Id(h)].active
      BY <1>2, <2>1, StartBufferMakes DEF RowInv
    <2>4. \A u \in Handlers : task[u].pc \in {"start", "endPoints", "endActive"} /\ u # h => task'[u] = task[u]
      BY <2>2, TaskIds
    <2>6. ASSUME NEW u \in Handlers, task'[u].pc \in {"start", "endPoints", "endActive"}
          PROVE  rows'[task'[u].id].active
      BY <2>1, <2>2, <2>6, TaskIds DEF RowInv, Id
    <2>7. task'[Cli].pc = "copy" => ~rows'[task'[Cli].id].active
      BY <2>1, <2>2, TaskIds DEF RowInv, Id, At
    <2>8. ASSUME NEW i \in SessionIds
          PROVE  /\ \/ \E u \in Handlers :
                          task'[u].id = i /\ task'[u].pc \in {"start", "endPoints", "endActive"}
                    \/ rows'[i].active <=> i \in DOMAIN buffers'
                 /\ ~rows'[i].active => stored[i] \subseteq Range(rows'[i].points)
                 /\ rows'[i].active => \/ rows'[i].points = <<>>
                                       \/ \E u \in Handlers : task'[u].pc = "endActive" /\ task'[u].id = i
      <3>1. CASE i = Id(h)
        BY <3>1, <2>1, <2>3, <2>4 DEF RowInv, Id, At
      <3>2. CASE i # Id(h)
        BY <3>2, <2>1, <2>3, <2>4 DEF RowInv, Changing, Id, At
      <3> QED BY <3>1, <3>2
    <2> QED BY <2>1, <2>6, <2>7, <2>8 DEF RowInv, Changing, Id, At
  <1>3. ASSUME NEW h \in Handlers, NEW id \in SessionIds, AppendLookup(h, id)
        PROVE  RowInv'
    <2>1. PICK points, noted, active, list : Moves(h, Record("trip", id, points, noted, active, list))
      BY <1>3, AppendLookupDoes
    <2>2. UNCHANGED <<rows, stored, buffers>> /\ h \in Tasks /\ task[h].pc = "idle"
      BY <1>3, AppendLookupDoes, TaskIds DEF At
    <2> QED BY <2>1, <2>2, TaskIds, RowSame
  <1>4. ASSUME NEW t \in Handlers \cup {Cli}, ReadTrip(t)
        PROVE  RowInv'
    <2>1. PICK pc, list :
                /\ pc \in {"countries", Destination(t)}
                /\ Moves(t, Record(pc, Id(t), task[t].points, task[t].noted, task[t].active, list))
      BY <1>4, ReadTripGoes
    <2>2. UNCHANGED <<rows, stored, buffers>> /\ t \in Tasks /\ task[t].pc = "trip"
      BY <1>4, ReadTripDoes, TaskIds DEF At
    <2>3. pc \in {"countries", "append", "dbRead"}
      BY <2>1 DEF Destination
    <2> QED BY <2>1, <2>2, <2>3, TaskIds, RowSame
  <1>5. ASSUME NEW t \in Handlers \cup {Cli}, WriteCountries(t)
        PROVE  RowInv'
    <2>1. PICK pc, list :
                /\ pc = Destination(t)
                /\ Moves(t, Record(pc, Id(t), task[t].points, task[t].noted, task[t].active, list))
      BY <1>5, WriteCountriesDoes
    <2>2. UNCHANGED <<rows, stored, buffers>> /\ t \in Tasks /\ task[t].pc = "countries"
      BY <1>5, WriteCountriesDoes, TaskIds DEF At
    <2>3. pc \in {"countries", "append", "dbRead"}
      BY <2>1 DEF Destination
    <2> QED BY <2>1, <2>2, <2>3, TaskIds, RowSame
  <1>6. ASSUME NEW h \in Handlers, AppendBuffer(h)
        PROVE  RowInv'
    <2>1. PICK points, noted, active, list : Moves(h, Record("idle", 0, points, noted, active, list))
      BY <1>6, AppendBufferDoes
    <2>2. /\ h \in Tasks /\ task[h].pc = "append" /\ UNCHANGED rows /\ SessionIds' = SessionIds
          /\ Id(h) \in SessionIds /\ Id(h) \in DOMAIN buffers /\ DOMAIN buffers' = DOMAIN buffers
          /\ \A i \in SessionIds : i # Id(h) => stored'[i] = stored[i]
      BY <1>6, AppendBufferDoes, AppendBufferStores DEF At
    <2>3. ~Changing(Id(h))
      BY <2>2, TaskIds DEF Changing, AloneInv
    <2>4. rows[Id(h)].active
      BY <2>2, <2>3 DEF RowInv
    <2>5. \A i \in SessionIds : ~rows[i].active => stored'[i] \subseteq Range(rows'[i].points)
      BY <2>2, <2>4 DEF RowInv
    <2> QED BY <2>1, <2>2, <2>5, TaskIds, RowKept
  <1>7. ASSUME NEW t \in Handlers \cup {Cli}, DbRead(t)
        PROVE  RowInv'
    <2>1. PICK points, noted, active, list : Moves(t, Record("dbWrite", Id(t), points, noted, active, list))
      BY <1>7, DbReadDoes
    <2>2. UNCHANGED <<rows, stored, buffers>> /\ t \in Tasks /\ task[t].pc = "dbRead"
      BY <1>7, DbReadDoes, TaskIds DEF At
    <2> QED BY <2>1, <2>2, TaskIds, RowSame
  <1>8. ASSUME NEW t \in Handlers \cup {Cli}, DbWrite(t)
        PROVE  RowInv'
    <2>1. PICK points, noted, active, list : Moves(t, Record("idle", 0, points, noted, active, list))
      BY <1>8, DbWriteDoes
    <2>2. UNCHANGED buffers /\ t \in Tasks /\ task[t].pc = "dbWrite" /\ Id(t) \in SessionIds
      BY <1>8, DbWriteDoes, TaskIds DEF At
    <2>3. ~rows[Id(t)].active
      BY <2>2 DEF InactiveInv, Appending
    <2>4. PICK batch \in Batches : task[t].noted = Range(batch)
                                /\ task[t].points = rows[Id(t)].points \o batch
      BY <2>2 DEF BatchInv, At
    <2>5. Range(task[t].points) = Range(rows[Id(t)].points) \cup task[t].noted
      BY <2>2, <2>4, RangeBatch
    <2>6. stored[Id(t)] \subseteq Range(rows[Id(t)].points)
      BY <2>2, <2>3 DEF RowInv
    <2>7. /\ SessionIds' = SessionIds
          /\ \A i \in SessionIds : i # Id(t) => stored'[i] = stored[i] /\ rows'[i].points = rows[i].points
          /\ \A i \in SessionIds : rows'[i].active = rows[i].active
          /\ stored'[Id(t)] = stored[Id(t)] \cup task[t].noted /\ rows'[Id(t)].points = task[t].points
      BY <1>8, DbWriteStores
    <2>8. stored'[Id(t)] \subseteq Range(rows'[Id(t)].points)
      BY <2>5, <2>6, <2>7
    <2>9. \A i \in SessionIds :
                /\ rows'[i].active = rows[i].active
                /\ rows[i].active => rows'[i].points = rows[i].points
                /\ ~rows[i].active => stored'[i] \subseteq Range(rows'[i].points)
      BY <2>3, <2>7, <2>8 DEF RowInv
    <2>10. /\ SessionIds' = SessionIds /\ DOMAIN buffers' = DOMAIN buffers /\ t \in Tasks
           /\ task[t].pc = "dbWrite"
      BY <2>2, <2>7
    <2> QED BY <2>1, <2>9, <2>10, RowKept
  <1>9. ASSUME NEW h \in Handlers, NEW id \in SessionIds, EndClose(h, id)
        PROVE  RowInv'
    <2>1. UNCHANGED <<rows, stored>> /\ SessionIds' = SessionIds /\ task[h].pc = "idle" /\ h \in Tasks
          /\ id \in DOMAIN buffers /\ \A u \in Handlers : Id(u) # id
      BY <1>9, EndCloseDoes, TaskIds DEF SessionIds, At
    <2>2. /\ task'[h].pc = "endPoints" /\ task'[h].id = id /\ \A u \in Tasks : u # h => task'[u] = task[u]
      BY <1>9, EndCloseDoes, MovedFields
    <2>3. DOMAIN buffers' = DOMAIN buffers \ {id} /\ rows[id].active
      <3>1. ~Changing(id)
        BY <2>1 DEF Changing
      <3>2. rows[id].active
        BY <2>1, <3>1 DEF RowInv
      <3> QED BY <1>9, <3>2, EndCloseDrops
    <2>4. \A u \in Handlers : task[u].pc \in {"start", "endPoints", "endActive"} => task'[u] = task[u]
      BY <2>1, <2>2, TaskIds
    <2>6. ASSUME NEW u \in Handlers, task'[u].pc \in {"start", "endPoints", "endActive"}
          PROVE  rows'[task'[u].id].active
      BY <2>1, <2>2, <2>3, <2>6, TaskIds DEF RowInv, Id
    <2>7. task'[Cli].pc = "copy" => ~rows'[task'[Cli].id].active
      BY <2>1, <2>2, TaskIds DEF RowInv, Id, At
    <2>8. ASSUME NEW i \in SessionIds
          PROVE  /\ \/ \E u \in Handlers :
                          task'[u].id = i /\ task'[u].pc \in {"start", "endPoints", "endActive"}
                    \/ rows'[i].active <=> i \in DOMAIN buffers'
                 /\ ~rows'[i].active => stored[i] \subseteq Range(rows'[i].points)
                 /\ rows'[i].active => \/ rows'[i].points = <<>>
                                       \/ \E u \in Handlers : task'[u].pc = "endActive" /\ task'[u].id = i
      <3>1. CASE i = id
        BY <3>1, <2>1, <2>2, <2>3, <2>4 DEF RowInv, Id, At
      <3>2. CASE i # id
        BY <3>2, <2>1, <2>3, <2>4 DEF RowInv, Changing, Id, At
      <3> QED BY <3>1, <3>2
    <2> QED BY <2>1, <2>6, <2>7, <2>8 DEF RowInv, Changing, Id, At
  <1>10. ASSUME NEW h \in Handlers, EndPoints(h)
        PROVE  RowInv'
    <2>1. /\ UNCHANGED <<buffers, stored>> /\ task[h].pc = "endPoints" /\ h \in Tasks /\ Id(h) \in SessionIds
          /\ SessionIds' = SessionIds
          /\ \A i \in SessionIds : rows'[i].active = rows[i].active
          /\ \A i \in SessionIds : i # Id(h) => rows'[i].points = rows[i].points
      <3>1. /\ h \in Tasks /\ Id(h) \in SessionIds /\ task[h].points \in Seq(Points)
            /\ SetPoints(Id(h), task[h].points)
        BY <1>10, EndPointsDoes, TaskIds, TaskFields
      <3>2. /\ SessionIds' = SessionIds
            /\ \A i \in SessionIds : rows'[i].active = rows[i].active
            /\ \A i \in SessionIds : i # Id(h) => rows'[i].points = rows[i].points
        BY <3>1, PointsSet
      <3> QED BY <3>1, <3>2, <1>10, EndPointsDoes DEF At
    <2>2. /\ task'[h].pc = "endActive" /\ task'[h].id = Id(h) /\ \A u \in Tasks : u # h => task'[u] = task[u]
      BY <1>10, EndPointsDoes, MovedFields
    <2>3. rows[Id(h)].active /\ Handlers \subseteq Tasks /\ Cli \in Tasks /\ Cli # h
      BY <2>1, TaskIds DEF RowInv
    <2>4. \A u \in Tasks : task[u].pc # "idle" => task[u].id \in SessionIds
      BY TaskIds DEF At, Id
    <2>6. ASSUME NEW u \in Handlers, task'[u].pc \in {"start", "endPoints", "endActive"}
          PROVE  rows'[task'[u].id].active
      <3>1. task'[u].id = task[u].id /\ task[u].pc \in {"start", "endPoints", "endActive"}
        BY <2>1, <2>2, <2>3, <2>6 DEF Id
      <3>2. rows[task[u].id].active /\ task[u].id \in SessionIds
        BY <3>1, <2>3, <2>4 DEF RowInv, Id
      <3> QED BY <2>1, <3>1, <3>2
    <2>7. task'[Cli].pc = "copy" => ~rows'[task'[Cli].id].active
      <3>1. task'[Cli] = task[Cli] /\ Cli \in Tasks
        BY <2>1, <2>2, <2>3
      <3>2. task[Cli].pc = "copy" => ~rows[task[Cli].id].active /\ task[Cli].id \in SessionIds
        BY <2>4, <3>1 DEF RowInv, Id, At
      <3> QED BY <2>1, <3>1, <3>2
    <2>8. ASSUME NEW i \in SessionIds
          PROVE  /\ \/ \E u \in Handlers :
                          task'[u].id = i /\ task'[u].pc \in {"start", "endPoints", "endActive"}
                    \/ rows'[i].active <=> i \in DOMAIN buffers'
                 /\ ~rows'[i].active => stored[i] \subseteq Range(rows'[i].points)
                 /\ rows'[i].active => \/ rows'[i].points = <<>>
                                       \/ \E u \in Handlers : task'[u].pc = "endActive" /\ task'[u].id = i
      <3>1. CASE i = Id(h)
        BY <3>1, <2>1, <2>2, <2>3
      <3>2. CASE i # Id(h)
        <4>1. \A u \in Handlers : u # h => task'[u] = task[u]
          BY <2>2, <2>3
        <4>2. /\ \/ \E u \in Handlers : task[u].id = i /\ task[u].pc \in {"start", "endPoints", "endActive"}
                 \/ rows[i].active <=> i \in DOMAIN buffers
              /\ ~rows[i].active => stored[i] \subseteq Range(rows[i].points)
              /\ rows[i].active => \/ rows[i].points = <<>>
                                   \/ \E u \in Handlers : task[u].pc = "endActive" /\ task[u].id = i
          BY DEF RowInv, Changing, Id, At
        <4>3. rows'[i].active = rows[i].active /\ rows'[i].points = rows[i].points
          BY <3>2, <2>1
        <4>4. \A u \in Handlers : task[u].id = i => task'[u] = task[u]
          BY <3>2, <4>1 DEF Id
        <4> QED BY <2>1, <4>2, <4>3, <4>4
      <3> QED BY <3>1, <3>2
    <2> QED BY <2>1, <2>6, <2>7, <2>8 DEF RowInv, Changing, Id, At
  <1>11. ASSUME NEW h \in Handlers, EndActive(h)
        PROVE  RowInv'
    <2>1. /\ UNCHANGED <<buffers, stored>> /\ task[h].pc = "endActive" /\ h \in Tasks /\ Id(h) \in SessionIds
          /\ SessionIds' = SessionIds /\ Handlers \subseteq Tasks /\ Cli \in Tasks /\ Cli # h
          /\ \A i \in SessionIds :
                /\ rows'[i].active = IF i = Id(h) THEN FALSE ELSE rows[i].active
                /\ rows'[i].points = rows[i].points
      <3>1. Id(h) \in SessionIds /\ ClearActive(Id(h))
        BY <1>11, EndActiveDoes
      <3>2. /\ SessionIds' = SessionIds
            /\ \A i \in SessionIds :
                /\ rows'[i].active = IF i = Id(h) THEN FALSE ELSE rows[i].active
                /\ rows'[i].points = rows[i].points
        BY <3>1, ActiveCleared
      <3> QED BY <3>1, <3>2, <1>11, EndActiveDoes, TaskIds DEF At
    <2>2. /\ task'[h].pc = "idle" /\ \A u \in Tasks : u # h => task'[u] = task[u]
      BY <1>11, EndActiveDoes, MovedFields
    <2>3. rows[Id(h)].active /\ \A u \in Handlers : task[u].id = Id(h) => u = h
      BY <2>1, TaskIds DEF RowInv, AloneInv, Id, At
    <2>4. \A u \in Tasks : task[u].pc # "idle" => task[u].id \in SessionIds
      BY TaskIds DEF At, Id
    <2>5. Id(h) \notin DOMAIN buffers /\ stored[Id(h)] \subseteq Range(rows[Id(h)].points)
      <3>1. Id(h) \notin DOMAIN files
        BY <2>1 DEF PlaceInv, Ending
      <3>2. stored[Id(h)] \subseteq Range(rows[Id(h)].points)
        BY <2>1, <2>3 DEF KeepInv, At
      <3> QED BY <3>1, <3>2, BufferFields
    <2>6. ASSUME NEW u \in Handlers, task'[u].pc \in {"start", "endPoints", "endActive"}
          PROVE  rows'[task'[u].id].active
      <3>1. task'[u] = task[u] /\ task[u].id # Id(h)
        BY <2>1, <2>2, <2>3, <2>6
      <3>2. rows[task[u].id].active /\ task[u].id \in SessionIds
        BY <3>1, <2>1, <2>4, <2>6 DEF RowInv, Id
      <3> QED BY <2>1, <3>1, <3>2
    <2>7. task'[Cli].pc = "copy" => ~rows'[task'[Cli].id].active
      <3>1. task'[Cli] = task[Cli] /\ Cli \in Tasks
        BY <2>1, <2>2, <2>3
      <3>2. task[Cli].pc = "copy" => ~rows[task[Cli].id].active /\ task[Cli].id \in SessionIds
        BY <2>4, <3>1 DEF RowInv, Id, At
      <3> QED BY <2>1, <3>1, <3>2
    <2>8. ASSUME NEW i \in SessionIds
          PROVE  /\ \/ \E u \in Handlers :
                          task'[u].id = i /\ task'[u].pc \in {"start", "endPoints", "endActive"}
                    \/ rows'[i].active <=> i \in DOMAIN buffers'
                 /\ ~rows'[i].active => stored[i] \subseteq Range(rows'[i].points)
                 /\ rows'[i].active => \/ rows'[i].points = <<>>
                                       \/ \E u \in Handlers : task'[u].pc = "endActive" /\ task'[u].id = i
      <3>1. CASE i = Id(h)
        BY <3>1, <2>1, <2>5
      <3>2. CASE i # Id(h)
        <4>1. \A u \in Handlers : u # h => task'[u] = task[u]
          BY <2>1, <2>2
        <4>2. /\ \/ \E u \in Handlers : task[u].id = i /\ task[u].pc \in {"start", "endPoints", "endActive"}
                 \/ rows[i].active <=> i \in DOMAIN buffers
              /\ ~rows[i].active => stored[i] \subseteq Range(rows[i].points)
              /\ rows[i].active => \/ rows[i].points = <<>>
                                   \/ \E u \in Handlers : task[u].pc = "endActive" /\ task[u].id = i
          BY DEF RowInv, Changing, Id, At
        <4>3. rows'[i].active = rows[i].active /\ rows'[i].points = rows[i].points
          BY <3>2, <2>1
        <4>4. \A u \in Handlers : task[u].id = i => task'[u] = task[u]
          BY <3>2, <4>1 DEF Id
        <4> QED BY <2>1, <4>2, <4>3, <4>4
      <3> QED BY <3>1, <3>2
    <2> QED BY <2>1, <2>6, <2>7, <2>8 DEF RowInv, Changing, Id, At
  <1>12. ASSUME NEW h \in Handlers, StartFails(h)
        PROVE  RowInv'
    BY <1>12, StartFailsDoes DEF Fault
  <1>13. ASSUME NEW h \in Handlers, AppendFails(h)
        PROVE  RowInv'
    BY <1>13, AppendFailsDoes DEF Fault
  <1>14. ASSUME NEW h \in Handlers, NEW id \in SessionIds, CloseFails(h, id)
        PROVE  RowInv'
    BY <1>14, CloseFailsDoes DEF Fault
  <1>15. ASSUME NEW r \in Readers, NEW id \in SessionIds, ReadRow(r, id)
        PROVE  RowInv'
    <2>1. PICK pc \in {"readBuffer", "answer"} :
                Moves(r, Record(pc, id, rows[id].points, stored[id], FALSE, {}))
      BY <1>15, ReadRowDoes
    <2>2. UNCHANGED <<rows, stored, buffers>> /\ r \in Tasks /\ task[r].pc = "idle"
      BY <1>15, ReadRowDoes, TaskIds DEF At
    <2> QED BY <2>1, <2>2, TaskIds, RowSame
  <1>16. ASSUME NEW r \in Readers, ReadBuffer(r)
        PROVE  RowInv'
    <2>1. PICK points, noted, active, list : Moves(r, Record("answer", Id(r), points, noted, active, list))
      BY <1>16, ReadBufferDoes
    <2>2. UNCHANGED <<rows, stored, buffers>> /\ r \in Tasks /\ task[r].pc = "readBuffer"
      BY <1>16, ReadBufferDoes, TaskIds DEF At
    <2> QED BY <2>1, <2>2, TaskIds, RowSame
  <1>17. ASSUME NEW id \in SessionIds, Ends(id)
        PROVE  RowInv'
    BY <1>17, EndsDoes
  <1>18. ASSUME NEW id \in SessionIds, FixTime(id) \/ Combine(id)
        PROVE  RowInv'
    <2>1. PICK pc, points, noted, active : pc \in {"insert", "second"} /\
                Moves(Cli, Record(pc, id, points, noted, active, {}))
      BY <1>18, TakeDoes
    <2>2. UNCHANGED <<rows, stored, buffers>> /\ Cli \in Tasks /\ task[Cli].pc = "idle"
      BY <1>18, TakeDoes, TaskIds DEF At
    <2> QED BY <2>1, <2>2, TaskIds, RowSame
  <1>19. ASSUME NEW id \in SessionIds, CombineWith(id)
        PROVE  RowInv'
    <2>1. PICK points, noted, active, list : Moves(Cli, Record("insert", Id(Cli), points, noted, active, list))
      BY <1>19, CombineWithDoes
    <2>2. UNCHANGED <<rows, stored, buffers>> /\ Cli \in Tasks /\ task[Cli].pc = "second"
      BY <1>19, CombineWithDoes, TaskIds DEF At
    <2> QED BY <2>1, <2>2, TaskIds, RowSame
  <1>20. ASSUME CopyRow
        PROVE  RowInv'
    <2>1. PICK points, noted, active, list : Moves(Cli, Record("copy", Len(rows) + 1, points, noted, active, list))
      BY <1>20, CopyRowDoes
    <2>2. PICK live \in BOOLEAN : InsertRow(live) /\ ~live /\ UNCHANGED buffers
      BY <1>20, CopyRowDoes, TaskFields, TaskIds
    <2> QED BY <2>1, <2>2, TaskIds, RowNew
  <1>21. ASSUME CopyPoints
        PROVE  RowInv'
    <2>1. PICK points, noted, active, list : Moves(Cli, Record("idle", 0, points, noted, active, list))
      BY <1>21, CopyPointsDoes
    <2>2. UNCHANGED <<buffers, stored>> /\ Cli \in Tasks /\ Id(Cli) \in SessionIds /\ task[Cli].pc = "copy"
          /\ SetPoints(Id(Cli), task[Cli].points) /\ Cli \notin Handlers
      BY <1>21, CopyPointsDoes, TaskIds DEF At
    <2>3. ~rows[Id(Cli)].active /\ stored[Id(Cli)] = {}
      BY <2>2 DEF RowInv, PlaceInv, At
    <2>4. task[Cli].points \in Seq(Points)
      BY <2>2, TaskFields
    <2>5. /\ SessionIds' = SessionIds
          /\ \A i \in SessionIds :
                /\ rows'[i].active = rows[i].active
                /\ rows'[i].points = IF i = Id(Cli) THEN task[Cli].points ELSE rows[i].points
      BY <2>2, <2>4, PointsSet
    <2>6. \A i \in SessionIds :
                /\ rows'[i].active = rows[i].active
                /\ rows[i].active => rows'[i].points = rows[i].points
                /\ ~rows[i].active => stored'[i] \subseteq Range(rows'[i].points)
      BY <2>2, <2>3, <2>5 DEF RowInv
    <2>7. /\ SessionIds' = SessionIds /\ DOMAIN buffers' = DOMAIN buffers /\ Cli \in Tasks
          /\ Cli \notin Handlers
      BY <2>2, <2>5
    <2> QED BY <2>1, <2>6, <2>7, RowKept
  <1>22. ASSUME AddGpx
        PROVE  RowInv'
    <2>1. PICK points, noted, active, list : Moves(Cli, Record("trip", Len(rows) + 1, points, noted, active, list))
      BY <1>22, AddGpxDoes
    <2>2. PICK live \in BOOLEAN : InsertRow(live) /\ ~live /\ UNCHANGED buffers
      BY <1>22, AddGpxDoes
    <2> QED BY <2>1, <2>2, TaskIds, RowNew
  <1>23. ASSUME Crash
        PROVE  RowInv'
    BY <1>23, CrashDoes DEF Fault
  <1>24. ASSUME Returns
        PROVE  RowInv'
    <2>1. PICK t \in Tasks : /\ Moves(t, Record("idle", 0, <<>>, {}, FALSE, {}))
                            /\ task[t].pc \in {"append", "readBuffer", "answer", "second"}
      BY <1>24, QuietReturns
    <2>2. UNCHANGED <<rows, stored, buffers>>
      BY <1>24, ReturnsDoes
    <2>3. PICK points, noted, active, list : Moves(t, Record("idle", 0, points, noted, active, list))
      BY <2>1
    <2> QED BY <2>1, <2>2, <2>3, RowSame
  <1>25. ASSUME UNCHANGED vars
        PROVE  RowInv'
    BY <1>25 DEF vars, tableVars, ghostVars, bufferVars, RowInv, Changing, SessionIds, Id, At
  <1> QED BY StepCases, <1>1, <1>2, <1>3, <1>4, <1>5, <1>6, <1>7, <1>8, <1>9, <1>10, <1>11, <1>12,
         <1>13, <1>14, <1>15, <1>16, <1>17, <1>18, <1>19, <1>20, <1>21, <1>22, <1>23,
         <1>24, <1>25, Zenon

-----------------------------------------------------------------------------
\* What appends and readers hold while nothing disturbs

LEMMA BatchKept ==
    ASSUME StoreTypes, BatchInv, NEW t \in Tasks,
           NEW pc, NEW id, NEW points, NEW noted, NEW active, NEW list,
           Moves(t, Record(pc, id, points, noted, active, list)),
           pc # "dbWrite", pc \in Appending => points \in Batches,
           \A u \in Tasks : u # t /\ task[u].pc = "dbWrite" => rows'[task[u].id].points = rows[task[u].id].points
    PROVE  BatchInv'
  <1>1. /\ task'[t].pc = pc /\ task'[t].points = points /\ \A u \in Tasks : u # t => task'[u] = task[u]
    BY MovedFields
  <1>2. ASSUME NEW u \in Tasks, task'[u].pc \in Appending \ {"dbWrite"}
        PROVE  task'[u].points \in Batches
    BY <1>1, <1>2 DEF BatchInv
  <1>3. ASSUME NEW u \in Tasks, task'[u].pc = "dbWrite"
        PROVE  \E batch \in Batches : /\ task'[u].noted = Range(batch)
                                      /\ task'[u].points = rows'[task'[u].id].points \o batch
    <2>1. u # t /\ task'[u] = task[u] /\ task[u].pc = "dbWrite"
      BY <1>1, <1>3
    <2>2. PICK batch \in Batches : /\ task[u].noted = Range(batch)
                                   /\ task[u].points = rows[task[u].id].points \o batch
      BY <2>1 DEF BatchInv, At, Id
    <2> QED BY <2>1, <2>2
  <1> QED BY <1>2, <1>3 DEF BatchInv, At, Id

LEMMA BatchSame ==
    ASSUME StoreTypes, BatchInv, NEW t \in Tasks,
           NEW pc, NEW id, NEW points, NEW noted, NEW active, NEW list,
           Moves(t, Record(pc, id, points, noted, active, list)),
           pc # "dbWrite", pc \in Appending => points \in Batches, UNCHANGED rows
    PROVE  BatchInv'
  BY BatchKept

LEMMA BatchInserted ==
    ASSUME StoreTypes, BatchInv, NEW t \in Tasks,
           NEW pc, NEW id, NEW points, NEW noted, NEW active, NEW list,
           Moves(t, Record(pc, id, points, noted, active, list)),
           pc # "dbWrite", pc \in Appending => points \in Batches, NEW live \in BOOLEAN, InsertRow(live)
    PROVE  BatchInv'
  <1>1. \A i \in SessionIds : rows'[i] = rows[i]
    BY RowInserted
  <1>2. \A u \in Tasks : task[u].pc = "dbWrite" => rows'[task[u].id].points = rows[task[u].id].points
    BY <1>1, TaskIds DEF At, Id
  <1> QED BY <1>2, BatchKept

\* No other task writes the points of the row.
LEMMA OneWriter ==
    ASSUME StoreTypes, PlaceInv, AloneInv, NEW t \in Handlers \cup {Cli},
           task[t].pc \in {"dbWrite", "endPoints", "endActive", "copy"},
           NEW u \in Tasks, u # t, task[u].pc = "dbWrite"
    PROVE  task[u].id # task[t].id
  <1>1. u \in Handlers \cup {Cli}
    BY DEF StoreTypes, TasksTypeOK, ReaderPcs, Tasks
  <1>2. task[u].id # 0
    BY TaskIds DEF At, Id
  <1>3. CASE u \in Handlers /\ t \in Handlers
    BY <1>2, <1>3 DEF AloneInv, Id
  <1>4. CASE u = Cli
    BY <1>4 DEF PlaceInv, Id
  <1>5. CASE t = Cli
    BY <1>1, <1>5 DEF PlaceInv, Id
  <1> QED BY <1>1, <1>3, <1>4, <1>5

LEMMA NextBatches ==
    ASSUME StoreTypes, PlaceInv, AloneInv, BatchInv, [Next]_vars, ~disturbed'
    PROVE  BatchInv'
  <1>1. ASSUME NEW h \in Handlers, RegisterRow(h)
        PROVE  BatchInv'
    <2>1. PICK points, noted, active, list : Moves(h, Record("start", Len(rows) + 1, points, noted, active, list))
      BY <1>1, RegisterRowDoes
    <2>2. InsertRow(TRUE) /\ h \in Tasks
      BY <1>1, RegisterRowDoes, TaskIds
    <2> QED BY <2>1, <2>2, BatchInserted DEF Appending
  <1>2. ASSUME NEW h \in Handlers, StartBuffer(h)
        PROVE  BatchInv'
    <2>1. PICK points, noted, active, list : Moves(h, Record("idle", 0, points, noted, active, list))
      BY <1>2, StartBufferDoes
    <2>2. UNCHANGED rows /\ h \in Tasks
      BY <1>2, StartBufferDoes, TaskIds
    <2> QED BY <2>1, <2>2, BatchSame DEF Appending
  <1>3. ASSUME NEW h \in Handlers, NEW id \in SessionIds, AppendLookup(h, id)
        PROVE  BatchInv'
    <2>1. PICK points, noted, active, list :
                points \in Batches /\ Moves(h, Record("trip", id, points, noted, active, list))
      <3>1. PICK batch \in NewBatches : Moves(h, Record("trip", id, batch, {}, rows[id].active, {}))
        BY <1>3, AppendLookupDoes
      <3>2. batch \in Batches
        BY NewBatch DEF StoreTypes, TableTypeOK
      <3> QED BY <3>1, <3>2
    <2>2. UNCHANGED rows /\ h \in Tasks
      BY <1>3, AppendLookupDoes, TaskIds
    <2> QED BY <2>1, <2>2, BatchSame DEF Appending
  <1>4. ASSUME NEW t \in Handlers \cup {Cli}, ReadTrip(t)
        PROVE  BatchInv'
    <2>1. PICK pc, list :
                /\ pc \in {"countries", Destination(t)}
                /\ Moves(t, Record(pc, Id(t), task[t].points, task[t].noted, task[t].active, list))
      BY <1>4, ReadTripGoes
    <2>2. UNCHANGED rows /\ t \in Tasks
      BY <1>4, ReadTripDoes, TaskIds
    <2>3. pc \in {"countries", "append", "dbRead"}
      BY <2>1 DEF Destination
    <2>4. task[t].points \in Batches
      <3>1. task[t].pc = "trip"
        BY <1>4, ReadTripDoes DEF At
      <3> QED BY <2>2, <3>1 DEF BatchInv, Appending
    <2> QED BY <2>1, <2>2, <2>3, <2>4, BatchSame DEF Appending
  <1>5. ASSUME NEW t \in Handlers \cup {Cli}, WriteCountries(t)
        PROVE  BatchInv'
    <2>1. PICK pc, list :
                /\ pc = Destination(t)
                /\ Moves(t, Record(pc, Id(t), task[t].points, task[t].noted, task[t].active, list))
      BY <1>5, WriteCountriesDoes
    <2>2. UNCHANGED rows /\ t \in Tasks
      BY <1>5, WriteCountriesDoes, TaskIds
    <2>3. pc \in {"countries", "append", "dbRead"}
      BY <2>1 DEF Destination
    <2>4. task[t].points \in Batches
      <3>1. task[t].pc = "countries"
        BY <1>5, WriteCountriesDoes DEF At
      <3> QED BY <2>2, <3>1 DEF BatchInv, Appending
    <2> QED BY <2>1, <2>2, <2>3, <2>4, BatchSame DEF Appending
  <1>6. ASSUME NEW h \in Handlers, AppendBuffer(h)
        PROVE  BatchInv'
    <2>1. PICK points, noted, active, list : Moves(h, Record("idle", 0, points, noted, active, list))
      BY <1>6, AppendBufferDoes
    <2>2. UNCHANGED rows /\ h \in Tasks
      BY <1>6, AppendBufferDoes, TaskIds
    <2> QED BY <2>1, <2>2, BatchSame DEF Appending
  <1>7. ASSUME NEW t \in Handlers \cup {Cli}, DbRead(t)
        PROVE  BatchInv'
    <2>1. PICK points, noted, active, list :
                /\ Moves(t, Record("dbWrite", Id(t), points, noted, active, list))
                /\ points = rows[Id(t)].points \o task[t].points
                /\ noted = Range(task[t].points)
      BY <1>7, DbReadDoes
    <2>2. /\ task'[t].pc = "dbWrite" /\ task'[t].id = Id(t)
          /\ task'[t].points = rows[Id(t)].points \o task[t].points
          /\ task'[t].noted = Range(task[t].points)
          /\ \A u \in Tasks : u # t => task'[u] = task[u]
      <3>1. /\ task'[t].pc = "dbWrite" /\ task'[t].id = Id(t) /\ task'[t].points = points
            /\ task'[t].noted = noted /\ \A u \in Tasks : u # t => task'[u] = task[u]
        <4>1. Moves(t, Record("dbWrite", Id(t), points, noted, active, list))
          BY <2>1
        <4> QED BY <4>1, MovedFields
      <3> QED BY <2>1, <3>1
    <2>3. t \in Tasks /\ UNCHANGED rows /\ task[t].pc = "dbRead"
      BY <1>7, DbReadDoes, TaskIds DEF At
    <2>4. task[t].points \in Batches
      BY <2>3 DEF BatchInv, Appending
    <2>5. ASSUME NEW u \in Tasks, task'[u].pc \in Appending \ {"dbWrite"}
          PROVE  task'[u].points \in Batches
      BY <2>2, <2>5 DEF BatchInv
    <2>6. ASSUME NEW u \in Tasks, task'[u].pc = "dbWrite"
          PROVE  \E batch \in Batches : /\ task'[u].noted = Range(batch)
                                        /\ task'[u].points = rows'[task'[u].id].points \o batch
      <3>1. CASE u = t
        BY <2>2, <2>3, <2>4, <3>1
      <3>2. CASE u # t
        BY <2>2, <2>3, <2>6, <3>2 DEF BatchInv, At, Id
      <3> QED BY <3>1, <3>2
    <2> QED BY <2>5, <2>6 DEF BatchInv, At, Id
  <1>8. ASSUME NEW t \in Handlers \cup {Cli}, DbWrite(t)
        PROVE  BatchInv'
    <2>1. PICK points, noted, active, list : Moves(t, Record("idle", 0, points, noted, active, list))
      BY <1>8, DbWriteDoes
    <2>2. /\ t \in Tasks /\ task[t].pc = "dbWrite" /\ Id(t) \in SessionIds
          /\ SetPoints(Id(t), task[t].points)
      BY <1>8, DbWriteDoes, TaskIds DEF At
    <2>3. task[t].points \in Seq(Points)
      BY <2>2, TaskFields
    <2>4. \A i \in SessionIds : i # Id(t) => rows'[i].points = rows[i].points
      BY <2>2, <2>3, PointsSet
    <2>5. ASSUME NEW u \in Tasks, u # t, task[u].pc = "dbWrite"
          PROVE  rows'[task[u].id].points = rows[task[u].id].points
      <3>1. task[u].id # task[t].id
        BY <2>2, <2>5, OneWriter
      <3>2. task[u].id \in SessionIds
        BY <2>5, TaskIds DEF At, Id
      <3> QED BY <2>4, <3>1, <3>2 DEF Id
    <2> QED BY <2>1, <2>2, <2>5, BatchKept DEF Appending
  <1>9. ASSUME NEW h \in Handlers, NEW id \in SessionIds, EndClose(h, id)
        PROVE  BatchInv'
    <2>1. PICK points, noted, active, list : Moves(h, Record("endPoints", id, points, noted, active, list))
      BY <1>9, EndCloseDoes
    <2>2. UNCHANGED rows /\ h \in Tasks
      BY <1>9, EndCloseDoes, TaskIds
    <2> QED BY <2>1, <2>2, BatchSame DEF Appending
  <1>10. ASSUME NEW h \in Handlers, EndPoints(h)
        PROVE  BatchInv'
    <2>1. PICK points, noted, active, list : Moves(h, Record("endActive", Id(h), points, noted, active, list))
      BY <1>10, EndPointsDoes
    <2>2. /\ h \in Tasks /\ task[h].pc = "endPoints" /\ Id(h) \in SessionIds
          /\ SetPoints(Id(h), task[h].points)
      BY <1>10, EndPointsDoes, TaskIds DEF At
    <2>3. task[h].points \in Seq(Points)
      BY <2>2, TaskFields
    <2>4. \A i \in SessionIds : i # Id(h) => rows'[i].points = rows[i].points
      BY <2>2, <2>3, PointsSet
    <2>5. ASSUME NEW u \in Tasks, u # h, task[u].pc = "dbWrite"
          PROVE  rows'[task[u].id].points = rows[task[u].id].points
      <3>1. task[u].id # task[h].id
        BY <2>2, <2>5, OneWriter
      <3>2. task[u].id \in SessionIds
        BY <2>5, TaskIds DEF At, Id
      <3> QED BY <2>4, <3>1, <3>2 DEF Id
    <2> QED BY <2>1, <2>2, <2>5, BatchKept DEF Appending
  <1>11. ASSUME NEW h \in Handlers, EndActive(h)
        PROVE  BatchInv'
    <2>1. PICK points, noted, active, list : Moves(h, Record("idle", 0, points, noted, active, list))
      BY <1>11, EndActiveDoes
    <2>2. Id(h) \in SessionIds /\ ClearActive(Id(h)) /\ h \in Tasks
      BY <1>11, EndActiveDoes, TaskIds
    <2>3. \A i \in SessionIds : rows'[i].points = rows[i].points
      BY <2>2, ActiveCleared
    <2>4. \A u \in Tasks : task[u].pc = "dbWrite" => rows'[task[u].id].points = rows[task[u].id].points
      BY <2>3, TaskIds DEF At, Id
    <2> QED BY <2>1, <2>2, <2>4, BatchKept DEF Appending
  <1>12. ASSUME NEW h \in Handlers, StartFails(h)
        PROVE  BatchInv'
    BY <1>12, StartFailsDoes DEF Fault
  <1>13. ASSUME NEW h \in Handlers, AppendFails(h)
        PROVE  BatchInv'
    BY <1>13, AppendFailsDoes DEF Fault
  <1>14. ASSUME NEW h \in Handlers, NEW id \in SessionIds, CloseFails(h, id)
        PROVE  BatchInv'
    BY <1>14, CloseFailsDoes DEF Fault
  <1>15. ASSUME NEW r \in Readers, NEW id \in SessionIds, ReadRow(r, id)
        PROVE  BatchInv'
    <2>1. PICK pc \in {"readBuffer", "answer"} :
                Moves(r, Record(pc, id, rows[id].points, stored[id], FALSE, {}))
      BY <1>15, ReadRowDoes
    <2>2. UNCHANGED rows /\ r \in Tasks
      BY <1>15, ReadRowDoes, TaskIds
    <2> QED BY <2>1, <2>2, BatchSame DEF Appending
  <1>16. ASSUME NEW r \in Readers, ReadBuffer(r)
        PROVE  BatchInv'
    <2>1. PICK points, noted, active, list : Moves(r, Record("answer", Id(r), points, noted, active, list))
      BY <1>16, ReadBufferDoes
    <2>2. UNCHANGED rows /\ r \in Tasks
      BY <1>16, ReadBufferDoes, TaskIds
    <2> QED BY <2>1, <2>2, BatchSame DEF Appending
  <1>17. ASSUME NEW id \in SessionIds, Ends(id)
        PROVE  BatchInv'
    BY <1>17, EndsDoes
  <1>18. ASSUME NEW id \in SessionIds, FixTime(id) \/ Combine(id)
        PROVE  BatchInv'
    <2>1. PICK pc, points, noted, active : pc \in {"insert", "second"} /\
                Moves(Cli, Record(pc, id, points, noted, active, {}))
      BY <1>18, TakeDoes
    <2>2. UNCHANGED rows /\ Cli \in Tasks
      BY <1>18, TakeDoes, TaskIds
    <2> QED BY <2>1, <2>2, BatchSame DEF Appending
  <1>19. ASSUME NEW id \in SessionIds, CombineWith(id)
        PROVE  BatchInv'
    <2>1. PICK points, noted, active, list : Moves(Cli, Record("insert", Id(Cli), points, noted, active, list))
      BY <1>19, CombineWithDoes
    <2>2. UNCHANGED rows /\ Cli \in Tasks
      BY <1>19, CombineWithDoes, TaskIds
    <2> QED BY <2>1, <2>2, BatchSame DEF Appending
  <1>20. ASSUME CopyRow
        PROVE  BatchInv'
    <2>1. PICK points, noted, active, list : Moves(Cli, Record("copy", Len(rows) + 1, points, noted, active, list))
      BY <1>20, CopyRowDoes
    <2>2. PICK live \in BOOLEAN : InsertRow(live)
      BY <1>20, CopyRowDoes, TaskFields, TaskIds
    <2> QED BY <2>1, <2>2, TaskIds, BatchInserted DEF Appending
  <1>21. ASSUME CopyPoints
        PROVE  BatchInv'
    <2>1. PICK points, noted, active, list : Moves(Cli, Record("idle", 0, points, noted, active, list))
      BY <1>21, CopyPointsDoes
    <2>2. /\ Cli \in Tasks /\ task[Cli].pc = "copy" /\ Id(Cli) \in SessionIds
          /\ SetPoints(Id(Cli), task[Cli].points)
      BY <1>21, CopyPointsDoes, TaskIds DEF At
    <2>3. task[Cli].points \in Seq(Points)
      BY <2>2, TaskFields
    <2>4. \A i \in SessionIds : i # Id(Cli) => rows'[i].points = rows[i].points
      BY <2>2, <2>3, PointsSet
    <2>5. ASSUME NEW u \in Tasks, u # Cli, task[u].pc = "dbWrite"
          PROVE  rows'[task[u].id].points = rows[task[u].id].points
      <3>1. task[u].id # task[Cli].id
        BY <2>2, <2>5, OneWriter
      <3>2. task[u].id \in SessionIds
        BY <2>5, TaskIds DEF At, Id
      <3> QED BY <2>4, <3>1, <3>2 DEF Id
    <2> QED BY <2>1, <2>2, <2>5, BatchKept DEF Appending
  <1>22. ASSUME AddGpx
        PROVE  BatchInv'
    <2>1. PICK points, noted, active, list :
                points \in Batches /\ Moves(Cli, Record("trip", Len(rows) + 1, points, noted, active, list))
      <3>1. PICK batch \in NewBatches : Moves(Cli, Record("trip", Len(rows) + 1, batch, {}, FALSE, {}))
        BY <1>22, AddGpxDoes
      <3>2. batch \in Batches
        BY NewBatch DEF StoreTypes, TableTypeOK
      <3> QED BY <3>1, <3>2
    <2>2. InsertRow(FALSE) /\ Cli \in Tasks
      BY <1>22, AddGpxDoes, TaskIds
    <2> QED BY <2>1, <2>2, BatchInserted DEF Appending
  <1>23. ASSUME Crash
        PROVE  BatchInv'
    BY <1>23, CrashDoes DEF Fault
  <1>24. ASSUME Returns
        PROVE  BatchInv'
    <2>1. PICK t \in Tasks : Moves(t, Record("idle", 0, <<>>, {}, FALSE, {}))
      BY <1>24, ReturnsDoes
    <2>2. UNCHANGED rows
      BY <1>24, ReturnsDoes
    <2>3. PICK points, noted, active, list : Moves(t, Record("idle", 0, points, noted, active, list))
      BY <2>1
    <2> QED BY <2>2, <2>3, BatchSame DEF Appending
  <1>25. ASSUME UNCHANGED vars
        PROVE  BatchInv'
    BY <1>25 DEF vars, tableVars, BatchInv, Id, At
  <1> QED BY StepCases, <1>1, <1>2, <1>3, <1>4, <1>5, <1>6, <1>7, <1>8, <1>9, <1>10, <1>11, <1>12,
         <1>13, <1>14, <1>15, <1>16, <1>17, <1>18, <1>19, <1>20, <1>21, <1>22, <1>23,
         <1>24, <1>25, Zenon

LEMMA ReadKept ==
    ASSUME StoreTypes, ReadInv, NEW t \in Tasks,
           NEW pc, NEW id, NEW points, NEW noted, NEW active, NEW list,
           Moves(t, Record(pc, id, points, noted, active, list)),
           \A i \in SessionIds : stored[i] \subseteq stored'[i],
           t \in Readers /\ pc = "readBuffer" => noted \subseteq stored'[id],
           t \in Readers \cup {Cli} /\ pc \in {"answer", "second", "insert"} => noted \subseteq Range(points)
    PROVE  ReadInv'
  <1>1. /\ task'[t].pc = pc /\ task'[t].id = id /\ task'[t].points = points /\ task'[t].noted = noted
        /\ \A u \in Tasks : u # t => task'[u] = task[u]
    BY MovedFields
  <1>2. \A u \in Tasks : task[u].pc # "idle" => task[u].id \in SessionIds
    BY TaskIds DEF At, Id
  <1>3. ASSUME NEW r \in Readers, task'[r].pc = "readBuffer"
        PROVE  task'[r].noted \subseteq stored'[task'[r].id]
    <2>1. CASE r = t
      BY <1>1, <1>3, <2>1
    <2>2. CASE r # t
      <3>1. task'[r] = task[r]
        BY <1>1, <2>2, TaskIds
      <3>2. task[r].noted \subseteq stored[task[r].id] /\ task[r].id \in SessionIds
        BY <1>2, <1>3, <3>1, TaskIds DEF ReadInv, At, Id
      <3> QED BY <3>1, <3>2
    <2> QED BY <2>1, <2>2
  <1>4. ASSUME NEW u \in Readers \cup {Cli}, task'[u].pc \in {"answer", "second", "insert"}
        PROVE  task'[u].noted \subseteq Range(task'[u].points)
    <2>1. CASE u = t
      BY <1>1, <1>4, <2>1
    <2>2. CASE u # t
      <3>1. task'[u] = task[u]
        BY <1>1, <2>2, TaskIds
      <3> QED BY <1>4, <3>1 DEF ReadInv
    <2> QED BY <2>1, <2>2
  <1> QED BY <1>3, <1>4 DEF ReadInv, At, Id

\* A session with a buffer is neither being registered nor ended.
LEMMA NotChanging ==
    ASSUME StoreTypes, PlaceInv, NEW id \in DOMAIN buffers
    PROVE  ~Changing(id)
  <1>1. id \in DOMAIN files
    BY BufferFields
  <1> QED BY <1>1 DEF PlaceInv, Changing, Ending, At

\* A row that has points has all that is stored.
LEMMA RowHas ==
    ASSUME StoreTypes, KeepInv, RowInv, NEW id \in SessionIds,
           rows[id].active => rows[id].points # <<>>
    PROVE  stored[id] \subseteq Range(rows[id].points)
  <1>1. CASE ~rows[id].active
    BY <1>1 DEF RowInv
  <1>2. CASE rows[id].active
    <2>1. PICK h \in Handlers : At(h, "endActive") /\ Id(h) = id
      BY <1>2 DEF RowInv
    <2> QED BY <1>2, <2>1 DEF KeepInv
  <1> QED BY <1>1, <1>2, Ids

LEMMA NextRead ==
    ASSUME StoreTypes, PlaceInv, InactiveInv, KeepInv, RowInv, ReadInv, [Next]_vars, ~disturbed'
    PROVE  ReadInv'
  <1>0. \A i \in SessionIds : stored[i] \subseteq stored'[i]
    BY Monotone
  <1>1. ASSUME NEW h \in Handlers, RegisterRow(h)
        PROVE  ReadInv'
    <2>1. PICK points, noted, active, list : Moves(h, Record("start", Len(rows) + 1, points, noted, active, list))
      BY <1>1, RegisterRowDoes
    <2>2. h \in Tasks
      BY TaskIds
    <2> QED BY <1>0, <2>1, <2>2, TaskIds, ReadKept
  <1>2. ASSUME NEW h \in Handlers, StartBuffer(h)
        PROVE  ReadInv'
    <2>1. PICK points, noted, active, list : Moves(h, Record("idle", 0, points, noted, active, list))
      BY <1>2, StartBufferDoes
    <2>2. h \in Tasks
      BY TaskIds
    <2> QED BY <1>0, <2>1, <2>2, TaskIds, ReadKept
  <1>3. ASSUME NEW h \in Handlers, NEW id \in SessionIds, AppendLookup(h, id)
        PROVE  ReadInv'
    <2>1. PICK points, noted, active, list : Moves(h, Record("trip", id, points, noted, active, list))
      BY <1>3, AppendLookupDoes
    <2>2. h \in Tasks
      BY TaskIds
    <2> QED BY <1>0, <2>1, <2>2, TaskIds, ReadKept
  <1>4. ASSUME NEW t \in Handlers \cup {Cli}, ReadTrip(t)
        PROVE  ReadInv'
    <2>1. PICK pc, list :
                /\ pc \in {"countries", Destination(t)}
                /\ Moves(t, Record(pc, Id(t), task[t].points, task[t].noted, task[t].active, list))
      BY <1>4, ReadTripGoes
    <2>2. t \in Tasks
      BY TaskIds
    <2>3. pc \in {"countries", "append", "dbRead"}
      BY <2>1 DEF Destination
    <2> QED BY <1>0, <2>1, <2>2, <2>3, TaskIds, ReadKept
  <1>5. ASSUME NEW t \in Handlers \cup {Cli}, WriteCountries(t)
        PROVE  ReadInv'
    <2>1. PICK pc, list :
                /\ pc = Destination(t)
                /\ Moves(t, Record(pc, Id(t), task[t].points, task[t].noted, task[t].active, list))
      BY <1>5, WriteCountriesDoes
    <2>2. t \in Tasks
      BY TaskIds
    <2>3. pc \in {"countries", "append", "dbRead"}
      BY <2>1 DEF Destination
    <2> QED BY <1>0, <2>1, <2>2, <2>3, TaskIds, ReadKept
  <1>6. ASSUME NEW h \in Handlers, AppendBuffer(h)
        PROVE  ReadInv'
    <2>1. PICK points, noted, active, list : Moves(h, Record("idle", 0, points, noted, active, list))
      BY <1>6, AppendBufferDoes
    <2>2. h \in Tasks
      BY TaskIds
    <2> QED BY <1>0, <2>1, <2>2, TaskIds, ReadKept
  <1>7. ASSUME NEW t \in Handlers \cup {Cli}, DbRead(t)
        PROVE  ReadInv'
    <2>1. PICK points, noted, active, list : Moves(t, Record("dbWrite", Id(t), points, noted, active, list))
      BY <1>7, DbReadDoes
    <2>2. t \in Tasks
      BY TaskIds
    <2> QED BY <1>0, <2>1, <2>2, TaskIds, ReadKept
  <1>8. ASSUME NEW t \in Handlers \cup {Cli}, DbWrite(t)
        PROVE  ReadInv'
    <2>1. PICK points, noted, active, list : Moves(t, Record("idle", 0, points, noted, active, list))
      BY <1>8, DbWriteDoes
    <2>2. t \in Tasks
      BY TaskIds
    <2> QED BY <1>0, <2>1, <2>2, TaskIds, ReadKept
  <1>9. ASSUME NEW h \in Handlers, NEW id \in SessionIds, EndClose(h, id)
        PROVE  ReadInv'
    <2>1. PICK points, noted, active, list : Moves(h, Record("endPoints", id, points, noted, active, list))
      BY <1>9, EndCloseDoes
    <2>2. h \in Tasks
      BY TaskIds
    <2> QED BY <1>0, <2>1, <2>2, TaskIds, ReadKept
  <1>10. ASSUME NEW h \in Handlers, EndPoints(h)
        PROVE  ReadInv'
    <2>1. PICK points, noted, active, list : Moves(h, Record("endActive", Id(h), points, noted, active, list))
      BY <1>10, EndPointsDoes
    <2>2. h \in Tasks
      BY TaskIds
    <2> QED BY <1>0, <2>1, <2>2, TaskIds, ReadKept
  <1>11. ASSUME NEW h \in Handlers, EndActive(h)
        PROVE  ReadInv'
    <2>1. PICK points, noted, active, list : Moves(h, Record("idle", 0, points, noted, active, list))
      BY <1>11, EndActiveDoes
    <2>2. h \in Tasks
      BY TaskIds
    <2> QED BY <1>0, <2>1, <2>2, TaskIds, ReadKept
  <1>12. ASSUME NEW h \in Handlers, StartFails(h)
        PROVE  ReadInv'
    BY <1>12, StartFailsDoes DEF Fault
  <1>13. ASSUME NEW h \in Handlers, AppendFails(h)
        PROVE  ReadInv'
    BY <1>13, AppendFailsDoes DEF Fault
  <1>14. ASSUME NEW h \in Handlers, NEW id \in SessionIds, CloseFails(h, id)
        PROVE  ReadInv'
    BY <1>14, CloseFailsDoes DEF Fault
  <1>15. ASSUME NEW r \in Readers, NEW id \in SessionIds, ReadRow(r, id)
        PROVE  ReadInv'
    <2>1. PICK pc \in {"readBuffer", "answer"} :
                /\ Moves(r, Record(pc, id, rows[id].points, stored[id], FALSE, {}))
                /\ pc = "readBuffer" <=> rows[id].active
      BY <1>15, ReadRowDoes
    <2>2. PICK points, noted, active, list :
                /\ Moves(r, Record(pc, id, points, noted, active, list))
                /\ points = rows[id].points /\ noted = stored[id]
      BY <2>1
    <2>3. noted \subseteq stored'[id]
      BY <1>0, <2>2
    <2>4. pc = "answer" => noted \subseteq Range(points)
      BY <2>1, <2>2, RowHas
    <2> QED BY <1>0, <2>1, <2>2, <2>3, <2>4, TaskIds, ReadKept
  <1>16. ASSUME NEW r \in Readers, ReadBuffer(r)
        PROVE  ReadInv'
    <2>1. PICK points, noted, active, list :
                /\ Moves(r, Record("answer", Id(r), points, noted, active, list))
                /\ points = buffers[Id(r)] /\ noted = task[r].noted
      BY <1>16, ReadBufferDoes
    <2>2. At(r, "readBuffer") /\ Id(r) \in DOMAIN buffers
      BY <1>16, ReadBufferDoes
    <2>3. Id(r) \in SessionIds
      BY <2>2, BufferFields
    <2>4. rows[Id(r)].active
      BY <2>2, <2>3, NotChanging DEF RowInv
    <2>5. stored[Id(r)] \subseteq Range(buffers[Id(r)])
      BY <2>2, <2>3, <2>4 DEF KeepInv
    <2>6. noted \subseteq Range(points)
      BY <2>1, <2>2, <2>5 DEF ReadInv
    <2> QED BY <1>0, <2>1, <2>6, TaskIds, ReadKept
  <1>17. ASSUME NEW id \in SessionIds, Ends(id)
        PROVE  ReadInv'
    BY <1>17, EndsDoes
  <1>18. ASSUME NEW id \in SessionIds, FixTime(id) \/ Combine(id)
        PROVE  ReadInv'
    <2>1. PICK pc, points, noted, active :
                /\ Moves(Cli, Record(pc, id, points, noted, active, {}))
                /\ points = rows[id].points /\ noted = stored[id]
      BY <1>18, TakeDoes
    <2>2. rows[id].active => rows[id].points # <<>>
      BY <1>18 DEF FixTime, Combine
    <2>3. noted \subseteq Range(points)
      BY <2>1, <2>2, RowHas
    <2>4. PICK list : Moves(Cli, Record(pc, id, points, noted, active, list))
      BY <2>1
    <2> QED BY <1>0, <2>3, <2>4, TaskIds, ReadKept
  <1>19. ASSUME NEW id \in SessionIds, CombineWith(id)
        PROVE  ReadInv'
    <2>1. PICK points \in Seq(Points) :
                /\ Range(points) = Range(task[Cli].points) \cup Range(rows[id].points)
                /\ Moves(Cli, Record("insert", Id(Cli), points, task[Cli].noted \cup stored[id],
                                     task[Cli].active, task[Cli].list))
      BY <1>19, CombineWithDoes
    <2>2. PICK noted, active, list :
                /\ Moves(Cli, Record("insert", Id(Cli), points, noted, active, list))
                /\ noted = task[Cli].noted \cup stored[id]
      BY <2>1
    <2>3. task[Cli].pc = "second" /\ ~rows[id].active
      BY <1>19, CombineWithDoes DEF At
    <2>4. stored[id] \subseteq Range(rows[id].points)
      BY <2>3, RowHas
    <2>5. task[Cli].noted \subseteq Range(task[Cli].points)
      BY <2>3 DEF ReadInv
    <2>6. noted \subseteq Range(points)
      BY <2>1, <2>2, <2>4, <2>5
    <2> QED BY <1>0, <2>2, <2>6, TaskIds, ReadKept
  <1>20. ASSUME CopyRow
        PROVE  ReadInv'
    <2>1. PICK points, noted, active, list : Moves(Cli, Record("copy", Len(rows) + 1, points, noted, active, list))
      BY <1>20, CopyRowDoes
    <2>2. Cli \in Tasks
      BY TaskIds
    <2> QED BY <1>0, <2>1, <2>2, TaskIds, ReadKept
  <1>21. ASSUME CopyPoints
        PROVE  ReadInv'
    <2>1. PICK points, noted, active, list : Moves(Cli, Record("idle", 0, points, noted, active, list))
      BY <1>21, CopyPointsDoes
    <2>2. Cli \in Tasks
      BY TaskIds
    <2> QED BY <1>0, <2>1, <2>2, TaskIds, ReadKept
  <1>22. ASSUME AddGpx
        PROVE  ReadInv'
    <2>1. PICK points, noted, active, list : Moves(Cli, Record("trip", Len(rows) + 1, points, noted, active, list))
      BY <1>22, AddGpxDoes
    <2>2. Cli \in Tasks
      BY TaskIds
    <2> QED BY <1>0, <2>1, <2>2, TaskIds, ReadKept
  <1>23. ASSUME Crash
        PROVE  ReadInv'
    BY <1>23, CrashDoes DEF Fault
  <1>24. ASSUME Returns
        PROVE  ReadInv'
    <2>1. PICK t \in Tasks : Moves(t, Record("idle", 0, <<>>, {}, FALSE, {}))
      BY <1>24, ReturnsDoes
    <2>3. PICK points, noted, active, list : Moves(t, Record("idle", 0, points, noted, active, list))
      BY <2>1
    <2> QED BY <1>0, <2>3, ReadKept
  <1>25. ASSUME UNCHANGED vars
        PROVE  ReadInv'
    BY <1>25 DEF vars, ghostVars, ReadInv, Id, At
  <1> QED BY StepCases, <1>1, <1>2, <1>3, <1>4, <1>5, <1>6, <1>7, <1>8, <1>9, <1>10, <1>11, <1>12,
         <1>13, <1>14, <1>15, <1>16, <1>17, <1>18, <1>19, <1>20, <1>21, <1>22, <1>23,
         <1>24, <1>25, Zenon

-----------------------------------------------------------------------------
\* The invariant

LEMMA InitStore == Init => StoreInv
  <1> SUFFICES ASSUME Init
               PROVE  StoreInv
    OBVIOUS
  <1> USE DEF Init
  <1>1. /\ DOMAIN rows = {} /\ DOMAIN buffers = {} /\ DOMAIN files = {} /\ DOMAIN stored = {}
        /\ SessionIds = {}
    BY DEF SessionIds
  <1>2. \A t \in Tasks : /\ task[t].pc = "idle" /\ task[t].id = 0 /\ task[t].points = <<>>
                         /\ task[t].noted = {} /\ task[t].active = FALSE /\ task[t].list = {}
    BY DEF Idle
  <1>3. /\ Handlers \subseteq Tasks /\ Readers \subseteq Tasks /\ Cli \in Tasks
    BY DEF Tasks
  <1>4. TableTypeOK
    <2>1. rows \in Seq(Rows) /\ stored \in Seq(SUBSET Points) /\ Len(stored) = Len(rows)
      OBVIOUS
    <2>2. lastPoint \in 0..MaxPoints /\ faults \in 0..MaxFaults /\ commands \in 0..MaxCommands
      BY StoreAssumption
    <2>3. countries \subseteq Range(Country) /\ known \subseteq SessionIds
      OBVIOUS
    <2>4. disturbed \in BOOLEAN /\ overlapped \in BOOLEAN
      OBVIOUS
    <2> HIDE DEF Init
    <2> QED BY <2>1, <2>2, <2>3, <2>4 DEF TableTypeOK
  <1>5. BufferTypeOK
    BY <1>1 DEF BufferTypeOK
  <1>6. TasksTypeOK
    <2>1. Record("idle", 0, <<>>, {}, FALSE, {}) \in TaskRecords
      <3>1. PICK pc \in Pcs, points \in Seq(Points), noted \in SUBSET Points, active \in BOOLEAN,
                 list \in SUBSET Range(Country) :
                pc = "idle" /\ points = <<>> /\ noted = {} /\ active = FALSE /\ list = {}
        <4>1. "idle" \in Pcs /\ <<>> \in Seq(Points)
          BY DEF Pcs, HandlerPcs
        <4> QED BY <4>1
      <3> QED BY <3>1, RecordType
    <2>2. Idle = Record("idle", 0, <<>>, {}, FALSE, {})
      BY DEF Idle, Record
    <2>3. task \in [Tasks -> TaskRecords]
      BY <2>1, <2>2
    <2> QED BY <1>2, <1>3, <2>3 DEF TasksTypeOK, At, Id, HandlerPcs, ReaderPcs, CliPcs
  <1>7. PlaceInv
    BY <1>2, <1>3 DEF PlaceInv, At, Ending
  <1>8. InactiveInv
    BY <1>2 DEF InactiveInv, Appending
  <1>9. KeepInv
    BY <1>1 DEF KeepInv
  <1>10. FreshInv
    <2>1. \A t \in Tasks : Brings(t) = {}
      BY <1>2 DEF Brings, At, Appending
    <2>2. Placed = {}
      BY <1>1, PlacedIff
    <2> QED BY <2>1, <2>2 DEF FreshInv
  <1>11. FilesInv
    BY <1>1 DEF FilesInv
  <1>12. CountriesInv
    BY <1>1, <1>2 DEF CountriesInv, CountriesListed, At
  <1>13. AloneInv
    BY <1>2, <1>3 DEF AloneInv, Id
  <1>14. RowInv
    BY <1>1, <1>2, <1>3 DEF RowInv, At
  <1>15. BatchInv
    BY <1>2 DEF BatchInv, At, Appending
  <1>16. ReadInv
    BY <1>2, <1>3 DEF ReadInv, At
  <1> QED BY <1>4, <1>5, <1>6, <1>7, <1>8, <1>9, <1>10, <1>11, <1>12, <1>13, <1>14, <1>15, <1>16
          DEF StoreInv, StoreTypes, QuietInv

\* What is disturbed stays so.
LEMMA DisturbedStays ==
    ASSUME StoreTypes, PlaceInv, disturbed, [Next]_vars
    PROVE  disturbed'
  <1>1. ASSUME NEW h \in Handlers, RegisterRow(h)
        PROVE  disturbed'
    BY <1>1, RegisterRowDoes DEF Fault
  <1>2. ASSUME NEW h \in Handlers, StartBuffer(h)
        PROVE  disturbed'
    BY <1>2, StartBufferDoes DEF Fault
  <1>3. ASSUME NEW h \in Handlers, NEW id \in SessionIds, AppendLookup(h, id)
        PROVE  disturbed'
    BY <1>3, AppendLookupDoes DEF Fault
  <1>4. ASSUME NEW t \in Handlers \cup {Cli}, ReadTrip(t)
        PROVE  disturbed'
    BY <1>4, ReadTripDoes DEF Fault
  <1>5. ASSUME NEW t \in Handlers \cup {Cli}, WriteCountries(t)
        PROVE  disturbed'
    BY <1>5, WriteCountriesDoes DEF Fault
  <1>6. ASSUME NEW h \in Handlers, AppendBuffer(h)
        PROVE  disturbed'
    BY <1>6, AppendBufferDoes DEF Fault
  <1>7. ASSUME NEW t \in Handlers \cup {Cli}, DbRead(t)
        PROVE  disturbed'
    BY <1>7, DbReadDoes DEF Fault
  <1>8. ASSUME NEW t \in Handlers \cup {Cli}, DbWrite(t)
        PROVE  disturbed'
    BY <1>8, DbWriteDoes DEF Fault
  <1>9. ASSUME NEW h \in Handlers, NEW id \in SessionIds, EndClose(h, id)
        PROVE  disturbed'
    BY <1>9, EndCloseDoes DEF Fault
  <1>10. ASSUME NEW h \in Handlers, EndPoints(h)
        PROVE  disturbed'
    BY <1>10, EndPointsDoes DEF Fault
  <1>11. ASSUME NEW h \in Handlers, EndActive(h)
        PROVE  disturbed'
    BY <1>11, EndActiveDoes DEF Fault
  <1>12. ASSUME NEW h \in Handlers, StartFails(h)
        PROVE  disturbed'
    BY <1>12, StartFailsDoes DEF Fault
  <1>13. ASSUME NEW h \in Handlers, AppendFails(h)
        PROVE  disturbed'
    BY <1>13, AppendFailsDoes DEF Fault
  <1>14. ASSUME NEW h \in Handlers, NEW id \in SessionIds, CloseFails(h, id)
        PROVE  disturbed'
    BY <1>14, CloseFailsDoes DEF Fault
  <1>15. ASSUME NEW r \in Readers, NEW id \in SessionIds, ReadRow(r, id)
        PROVE  disturbed'
    BY <1>15, ReadRowDoes DEF Fault
  <1>16. ASSUME NEW r \in Readers, ReadBuffer(r)
        PROVE  disturbed'
    BY <1>16, ReadBufferDoes DEF Fault
  <1>17. ASSUME NEW id \in SessionIds, Ends(id)
        PROVE  disturbed'
    BY <1>17, EndsDoes DEF Fault
  <1>18. ASSUME NEW id \in SessionIds, FixTime(id) \/ Combine(id)
        PROVE  disturbed'
    BY <1>18, TakeDoes DEF Fault
  <1>19. ASSUME NEW id \in SessionIds, CombineWith(id)
        PROVE  disturbed'
    BY <1>19, CombineWithDoes DEF Fault
  <1>20. ASSUME CopyRow
        PROVE  disturbed'
    BY <1>20, CopyRowDoes DEF Fault
  <1>21. ASSUME CopyPoints
        PROVE  disturbed'
    BY <1>21, CopyPointsDoes DEF Fault
  <1>22. ASSUME AddGpx
        PROVE  disturbed'
    BY <1>22, AddGpxDoes DEF Fault
  <1>23. ASSUME Crash
        PROVE  disturbed'
    BY <1>23, CrashDoes DEF Fault
  <1>24. ASSUME Returns
        PROVE  disturbed'
    BY <1>24, ReturnsDoes DEF Fault
  <1>25. ASSUME UNCHANGED vars
        PROVE  disturbed'
    BY <1>25 DEF vars, ghostVars
  <1> QED BY StepCases, <1>1, <1>2, <1>3, <1>4, <1>5, <1>6, <1>7, <1>8, <1>9, <1>10, <1>11, <1>12,
         <1>13, <1>14, <1>15, <1>16, <1>17, <1>18, <1>19, <1>20, <1>21, <1>22, <1>23,
         <1>24, <1>25, Zenon

LEMMA NextStore == StoreInv /\ [Next]_vars => StoreInv'
  <1> SUFFICES ASSUME StoreInv, [Next]_vars
               PROVE  StoreInv'
    OBVIOUS
  <1> USE DEF StoreInv
  <1>1. StoreTypes' /\ PlaceInv' /\ InactiveInv'
    BY NextTypes, NextPlace, NextInactive
  <1>2. KeepInv' /\ FreshInv'
    BY NextKeep, NextFresh
  <1>3. FilesInv' /\ CountriesInv'
    BY NextFiles, NextCountries
  <1>4. ASSUME ~disturbed'
        PROVE  (AloneInv /\ RowInv /\ BatchInv /\ ReadInv)'
    <2>1. ~disturbed
      BY <1>4, DisturbedStays
    <2>2. AloneInv /\ RowInv /\ BatchInv /\ ReadInv
      BY <2>1 DEF QuietInv
    <2>3. AloneInv'
      BY <1>4, <2>1, <2>2, NextAlone
    <2>4. RowInv'
      BY <1>4, <2>2, NextRow
    <2>5. BatchInv'
      BY <1>4, <2>2, NextBatches
    <2>6. ReadInv'
      BY <1>4, <2>2, NextRead
    <2> QED BY <2>3, <2>4, <2>5, <2>6
  <1>5. QuietInv'
    BY <1>4 DEF QuietInv
  <1> QED BY <1>1, <1>2, <1>3, <1>5

\* The invariant holds always, with any handlers, readers and bounds.
THEOREM StoreCorrect == Spec => []StoreInv
  BY InitStore, NextStore, PTL DEF Spec

-----------------------------------------------------------------------------
\* What follows from it

\* Rows, buffers, files and tasks have their types: every buffer has its file, every file its
\* row, and a server that is down has no buffers and a torn file.
THEOREM TypesAlwaysOK == Spec => []TypeOK
  <1>1. StoreInv => TypeOK
    <2> SUFFICES ASSUME StoreTypes
                 PROVE  TypeOK
      BY DEF StoreInv
    <2>1. \A id \in SessionIds : rows[id] \in [active : BOOLEAN, points : Seq(Points)]
      BY Ids DEF Rows
    <2>2. \A id \in DOMAIN buffers : buffers[id] \in Seq(Points)
      BY BufferFields
    <2>3. \A t \in Tasks : Id(t) \in SessionIds \cup {0} /\ task[t].points \in Seq(Points)
      BY TaskFields DEF StoreTypes, TasksTypeOK
    <2> QED BY <2>1, <2>2, <2>3 DEF TypeOK, StoreTypes, TableTypeOK, BufferTypeOK
  <1> QED BY <1>1, StoreCorrect, PTL

\* Unless something disturbed, an active row has its buffer and an ended one has none, except
\* inside register_new_live_session and end_session.
THEOREM ActiveAlwaysHasBuffer == Spec => []ActiveHasBuffer
  <1>1. StoreInv => ActiveHasBuffer
    BY DEF StoreInv, QuietInv, RowInv, ActiveHasBuffer
  <1> QED BY <1>1, StoreCorrect, PTL

\* What get_session and the copies of the CLI answer has all that was stored when they began.
THEOREM ReadAlwaysComplete == Spec => []ReadComplete
  <1>1. StoreInv => ReadComplete
    BY DEF StoreInv, QuietInv, ReadInv, ReadComplete
  <1> QED BY <1>1, StoreCorrect, PTL

\* The trip's list has the country of every stored point, until two writes of it overlap.
THEOREM CountriesAlwaysListed == Spec => []CountriesListed
  <1>1. StoreInv => CountriesListed
    BY DEF StoreInv, CountriesInv, CountriesListed
  <1> QED BY <1>1, StoreCorrect, PTL

LEMMA ClosingIs ==
    ASSUME StoreTypes, PlaceInv, NEW id, NEW t \in Closing(id)
    PROVE  /\ Id(t) = id
           /\ \/ t \in Handlers /\ At(t, "endPoints")
              \/ stored[id] = {}
  <1>1. t \in Tasks /\ Id(t) = id /\ task[t].pc \in {"endPoints", "copy"}
    BY DEF Closing
  <1>2. CASE t \in Handlers
    <2>1. task[t].pc \in HandlerPcs
      BY <1>2 DEF StoreTypes, TasksTypeOK
    <2> QED BY <1>1, <1>2, <2>1 DEF HandlerPcs, At
  <1>3. CASE t \in Readers
    <2>1. task[t].pc \in ReaderPcs
      BY <1>3 DEF StoreTypes, TasksTypeOK
    <2> QED BY <1>1, <2>1 DEF ReaderPcs
  <1>4. CASE t = Cli
    <2>1. task[Cli].pc \in CliPcs
      BY DEF StoreTypes, TasksTypeOK
    <2> QED BY <1>1, <1>4, <2>1 DEF CliPcs, PlaceInv
  <1> QED BY <1>1, <1>2, <1>3, <1>4 DEF Tasks

\* An active session that is no orphan has all that is stored.
LEMMA ActiveHas ==
    ASSUME StoreTypes, PlaceInv, KeepInv, NEW id \in SessionIds, rows[id].active,
           id \in DOMAIN Held \/ Changing(id)
    PROVE  stored[id] \subseteq Range(PointsOf(id))
  <1>1. CASE id \in DOMAIN Held
    <2>1. stored[id] \subseteq Range(Held[id])
      BY <1>1 DEF KeepInv, Held
    <2> QED BY <1>1, <2>1 DEF PointsOf
  <1>2. CASE id \notin DOMAIN Held /\ Closing(id) # {}
    <2>1. PICK t \in Closing(id) : t = CHOOSE u \in Closing(id) : TRUE
      BY <1>2
    <2>2. stored[id] \subseteq Range(task[t].points)
      BY ClosingIs DEF KeepInv
    <2> QED BY <1>2, <2>1, <2>2 DEF PointsOf
  <1>3. CASE id \notin DOMAIN Held /\ Closing(id) = {}
    <2>1. PICK h \in Handlers : Id(h) = id /\ task[h].pc \in {"start", "endPoints", "endActive"}
      BY <1>3 DEF Changing
    <2>2. task[h].pc # "endPoints"
      BY <1>3, <2>1 DEF Closing, Tasks
    <2>3. stored[id] \subseteq Range(rows[id].points)
      BY <2>1, <2>2 DEF KeepInv, PlaceInv, At
    <2> QED BY <1>3, <2>3 DEF PointsOf
  <1> QED BY <1>1, <1>2, <1>3

\* Whatever fails, an active session that is no orphan has every stored point, and in its file
\* too while it is live.
THEOREM LiveSessionsAlwaysKeep == Spec => []LiveSessionsKeep
  <1>1. StoreInv => LiveSessionsKeep
    <2> SUFFICES ASSUME StoreInv, NEW id \in SessionIds, rows[id].active, ~Orphan(id)
                 PROVE  /\ stored[id] \subseteq Range(PointsOf(id))
                        /\ id \in DOMAIN Held => stored[id] \subseteq Range(files[id])
      BY DEF LiveSessionsKeep
    <2>1. id \in DOMAIN Held \/ Changing(id)
      BY DEF Orphan
    <2>2. stored[id] \subseteq Range(PointsOf(id))
      BY <2>1, ActiveHas DEF StoreInv
    <2>3. id \in DOMAIN Held => id \in DOMAIN files
      BY BufferFields DEF StoreInv, Held
    <2> QED BY <2>2, <2>3 DEF StoreInv, KeepInv
  <1> QED BY <1>1, StoreCorrect, PTL

LEMMA QuietKeeps ==
    ASSUME StoreInv, ~disturbed, NEW id \in SessionIds
    PROVE  stored[id] \subseteq Range(PointsOf(id))
  <1>1. AloneInv /\ RowInv /\ StoreTypes /\ PlaceInv /\ KeepInv
    BY DEF StoreInv, QuietInv
  <1>2. Held = buffers
    BY <1>1 DEF AloneInv, Held
  <1>3. CASE rows[id].active
    <2>1. id \in DOMAIN Held \/ Changing(id)
      BY <1>1, <1>2, <1>3 DEF RowInv
    <2> QED BY <1>1, <1>3, <2>1, ActiveHas
  <1>4. CASE ~rows[id].active
    <2>1. id \notin DOMAIN Held
      BY <1>1, <1>2, <1>4, NotChanging DEF RowInv
    <2>2. CASE Closing(id) # {}
      <3>1. PICK t \in Closing(id) : t = CHOOSE u \in Closing(id) : TRUE
        BY <2>2
      <3>2. stored[id] = {}
        BY <1>1, <1>4, ClosingIs DEF RowInv, At
      <3> QED BY <3>2
    <2>3. CASE Closing(id) = {}
      BY <1>1, <1>4, <2>1, <2>3 DEF PointsOf, RowInv
    <2> QED BY <2>2, <2>3
  <1> QED BY <1>1, <1>3, <1>4, Ids

\* A point whose append returned Ok stays in its session, through the buffer, end_session and
\* the row, until something disturbs.
THEOREM PointsAlwaysKept == Spec => []PointsKept
  <1>1. StoreInv => PointsKept
    BY QuietKeeps DEF PointsKept
  <1> QED BY <1>1, StoreCorrect, PTL

-----------------------------------------------------------------------------
\* What a step may never do

ChangingPcs == {"start", "endPoints", "endActive"}

\* A session that has a buffer, or is between the writes of a handler, is no orphan.
Minded(i) == i \in DOMAIN Held \/ Changing(i)

\* A move that neither drops an entry nor ends a registration or an end_session
LEMMA MindedKept ==
    ASSUME NEW t \in Tasks, NEW pc, NEW id, NEW points, NEW noted, NEW active, NEW list,
           Moves(t, Record(pc, id, points, noted, active, list)), UNCHANGED up,
           DOMAIN buffers \subseteq DOMAIN buffers', DOMAIN files \subseteq DOMAIN files',
           t \in Handlers => \/ task[t].pc \notin ChangingPcs
                             \/ pc \in ChangingPcs /\ id = Id(t)
    PROVE  \A i : Minded(i) => Minded(i)'
  <1>1. /\ task'[t].pc = pc /\ task'[t].id = id
        /\ \A u \in Tasks : u # t => task'[u] = task[u]
    BY MovedFields
  <1>2. ASSUME NEW i, i \in DOMAIN Held
        PROVE  i \in DOMAIN Held'
    BY <1>2 DEF Held
  <1>3. ASSUME NEW i, Changing(i)
        PROVE  Changing(i)'
    <2>1. PICK h \in Handlers : Id(h) = i /\ task[h].pc \in ChangingPcs
      BY <1>3 DEF Changing, ChangingPcs
    <2>2. Id(h)' = i /\ task'[h].pc \in ChangingPcs
      <3>1. CASE h = t
        BY <1>1, <2>1, <3>1 DEF Id
      <3>2. CASE h # t
        BY <1>1, <2>1, <3>2 DEF Id, Tasks
      <3> QED BY <3>1, <3>2
    <2> QED BY <2>2 DEF Changing, ChangingPcs
  <1> QED BY <1>2, <1>3 DEF Minded

\* With the mutex of the buffers held by a server that runs, the rest of a fault changes nothing.
LEMMA FaultMinded ==
    ASSUME Fault, NEW i, Minded(i), ~Minded(i)', i \in DOMAIN Held => i \in DOMAIN Held'
    PROVE  faults' = faults + 1 /\ Changing(i)
  BY DEF Fault, Minded

\* A step that takes what minds an active session is a fault.
LEMMA MindedLost ==
    ASSUME StoreTypes, PlaceInv, [Next]_vars, NEW i \in SessionIds, rows'[i].active,
           Minded(i), ~Minded(i)'
    PROVE  faults' = faults + 1 /\ (Changing(i) \/ CloseFailed(i))
  <1>1. ASSUME NEW h \in Handlers, RegisterRow(h)
        PROVE  faults' = faults + 1 /\ (Changing(i) \/ CloseFailed(i))
    <2>1. h \in Tasks /\ task[h].pc \notin ChangingPcs
      BY <1>1, RegisterRowDoes, TaskIds DEF At, ChangingPcs
    <2> QED BY <1>1, <2>1, RegisterRowDoes, MindedKept
  <1>2. ASSUME NEW h \in Handlers, StartBuffer(h)
        PROVE  faults' = faults + 1 /\ (Changing(i) \/ CloseFailed(i))
    <2>1. /\ h \in Tasks /\ up /\ up'
          /\ \A u \in Tasks : u # h => task'[u] = task[u]
      BY <1>2, StartBufferDoes, TaskIds, MovedFields DEF At, PlaceInv
    <2>2. DOMAIN Held' = DOMAIN Held \cup {Id(h)}
      BY <1>2, <2>1, StartBufferMakes DEF Held
    <2>3. ~Changing(i)' /\ i \notin DOMAIN Held'
      BY DEF Minded
    <2>4. PICK u \in Handlers : Id(u) = i /\ task[u].pc \in ChangingPcs
      BY <2>2, <2>3 DEF Minded, Changing, ChangingPcs
    <2>5. u # h
      BY <2>2, <2>3, <2>4
    <2>6. Changing(i)'
      BY <2>1, <2>4, <2>5 DEF Changing, ChangingPcs, Id, Tasks
    <2> QED BY <2>3, <2>6
  <1>3. ASSUME NEW h \in Handlers, NEW id \in SessionIds, AppendLookup(h, id)
        PROVE  faults' = faults + 1 /\ (Changing(i) \/ CloseFailed(i))
    <2>1. h \in Tasks /\ task[h].pc \notin ChangingPcs
      BY <1>3, AppendLookupDoes, TaskIds DEF At, ChangingPcs
    <2> QED BY <1>3, <2>1, AppendLookupDoes, MindedKept
  <1>4. ASSUME NEW t \in Handlers \cup {Cli}, ReadTrip(t)
        PROVE  faults' = faults + 1 /\ (Changing(i) \/ CloseFailed(i))
    <2>1. t \in Tasks /\ task[t].pc \notin ChangingPcs
      BY <1>4, ReadTripDoes, TaskIds DEF At, ChangingPcs
    <2> QED BY <1>4, <2>1, ReadTripDoes, ReadTripGoes, MindedKept
  <1>5. ASSUME NEW t \in Handlers \cup {Cli}, WriteCountries(t)
        PROVE  faults' = faults + 1 /\ (Changing(i) \/ CloseFailed(i))
    <2>1. t \in Tasks /\ task[t].pc \notin ChangingPcs
      BY <1>5, WriteCountriesDoes, TaskIds DEF At, ChangingPcs
    <2> QED BY <1>5, <2>1, WriteCountriesDoes, MindedKept
  <1>6. ASSUME NEW h \in Handlers, AppendBuffer(h)
        PROVE  faults' = faults + 1 /\ (Changing(i) \/ CloseFailed(i))
    <2>1. h \in Tasks /\ task[h].pc \notin ChangingPcs
      BY <1>6, AppendBufferDoes, TaskIds DEF At, ChangingPcs
    <2>2. DOMAIN buffers' = DOMAIN buffers /\ DOMAIN files' = DOMAIN files
      BY <1>6, AppendBufferStores
    <2> QED BY <1>6, <2>1, <2>2, AppendBufferDoes, MindedKept
  <1>7. ASSUME NEW t \in Handlers \cup {Cli}, DbRead(t)
        PROVE  faults' = faults + 1 /\ (Changing(i) \/ CloseFailed(i))
    <2>1. t \in Tasks /\ task[t].pc \notin ChangingPcs
      BY <1>7, DbReadDoes, TaskIds DEF At, ChangingPcs
    <2> QED BY <1>7, <2>1, DbReadDoes, MindedKept
  <1>8. ASSUME NEW t \in Handlers \cup {Cli}, DbWrite(t)
        PROVE  faults' = faults + 1 /\ (Changing(i) \/ CloseFailed(i))
    <2>1. t \in Tasks /\ task[t].pc \notin ChangingPcs
      BY <1>8, DbWriteDoes, TaskIds DEF At, ChangingPcs
    <2> QED BY <1>8, <2>1, DbWriteDoes, MindedKept
  <1>9. ASSUME NEW h \in Handlers, NEW id \in SessionIds, EndClose(h, id)
        PROVE  faults' = faults + 1 /\ (Changing(i) \/ CloseFailed(i))
    <2>1. /\ h \in Tasks /\ up /\ up' /\ task[h].pc = "idle"
          /\ task'[h].pc = "endPoints" /\ task'[h].id = id
          /\ \A u \in Tasks : u # h => task'[u] = task[u]
      BY <1>9, EndCloseDoes, TaskIds, MovedFields DEF At
    <2>2. DOMAIN Held' = DOMAIN Held \ {id}
      BY <1>9, <2>1, EndCloseDrops DEF Held
    <2>3. ~Changing(i)' /\ i \notin DOMAIN Held'
      BY DEF Minded
    <2>4. Changing(id)'
      BY <2>1 DEF Changing, Id
    <2>5. PICK u \in Handlers : Id(u) = i /\ task[u].pc \in ChangingPcs
      BY <2>2, <2>3, <2>4 DEF Minded, Changing, ChangingPcs
    <2>6. u # h
      BY <2>1, <2>5 DEF ChangingPcs
    <2>7. Changing(i)'
      BY <2>1, <2>5, <2>6 DEF Changing, ChangingPcs, Id, Tasks
    <2> QED BY <2>3, <2>7
  <1>10. ASSUME NEW h \in Handlers, EndPoints(h)
        PROVE  faults' = faults + 1 /\ (Changing(i) \/ CloseFailed(i))
    <2>1. h \in Tasks /\ "endActive" \in ChangingPcs
      BY TaskIds DEF ChangingPcs
    <2> QED BY <1>10, <2>1, EndPointsDoes, MindedKept
  <1>11. ASSUME NEW h \in Handlers, EndActive(h)
        PROVE  faults' = faults + 1 /\ (Changing(i) \/ CloseFailed(i))
    <2>1. /\ h \in Tasks /\ UNCHANGED <<buffers, files, up>>
          /\ \A u \in Tasks : u # h => task'[u] = task[u]
      BY <1>11, EndActiveDoes, TaskIds, MovedFields
    <2>2. Held' = Held
      BY <2>1 DEF Held
    <2>3. ~Changing(i)' /\ i \notin DOMAIN Held'
      BY DEF Minded
    <2>4. PICK u \in Handlers : Id(u) = i /\ task[u].pc \in ChangingPcs
      BY <2>2, <2>3 DEF Minded, Changing, ChangingPcs
    <2>5. u # h
      BY <1>11, <2>4, EndActiveDoes, ActiveCleared
    <2>6. Changing(i)'
      BY <2>1, <2>4, <2>5 DEF Changing, ChangingPcs, Id, Tasks
    <2> QED BY <2>3, <2>6
  <1>12. ASSUME NEW h \in Handlers, StartFails(h)
        PROVE  faults' = faults + 1 /\ (Changing(i) \/ CloseFailed(i))
    <2>1. Fault /\ up /\ UNCHANGED <<buffers, up>>
      BY <1>12, StartFailsDoes DEF PlaceInv, At
    <2>2. Held' = Held
      BY <2>1 DEF Held
    <2> QED BY <2>1, <2>2, FaultMinded
  <1>13. ASSUME NEW h \in Handlers, AppendFails(h)
        PROVE  faults' = faults + 1 /\ (Changing(i) \/ CloseFailed(i))
    <2>1. h \in Tasks /\ task[h].pc \notin ChangingPcs
      BY <1>13, AppendFailsDoes, TaskIds DEF At, ChangingPcs
    <2>2. DOMAIN buffers' = DOMAIN buffers
      BY <1>13, AppendFailsAdds
    <2> QED BY <1>13, <2>1, <2>2, AppendFailsDoes, MindedKept
  <1>14. ASSUME NEW h \in Handlers, NEW id \in SessionIds, CloseFails(h, id)
        PROVE  faults' = faults + 1 /\ (Changing(i) \/ CloseFailed(i))
    <2>1. Fault /\ up /\ up' /\ DOMAIN buffers' = DOMAIN buffers \ {id}
      BY <1>14, CloseFailsDoes, EntryDropped, BufferFields
    <2>2. CASE i = id
      BY <1>14, <2>1, <2>2 DEF CloseFailed, Fault
    <2>3. CASE i # id
      <3>1. i \in DOMAIN Held => i \in DOMAIN Held'
        BY <2>1, <2>3 DEF Held
      <3> QED BY <2>1, <3>1, FaultMinded
    <2> QED BY <2>2, <2>3
  <1>15. ASSUME NEW r \in Readers, NEW id \in SessionIds, ReadRow(r, id)
        PROVE  faults' = faults + 1 /\ (Changing(i) \/ CloseFailed(i))
    <2>1. r \in Tasks /\ r \notin Handlers
      BY TaskIds
    <2> QED BY <1>15, <2>1, ReadRowDoes, MindedKept
  <1>16. ASSUME NEW r \in Readers, ReadBuffer(r)
        PROVE  faults' = faults + 1 /\ (Changing(i) \/ CloseFailed(i))
    <2>1. r \in Tasks /\ r \notin Handlers
      BY TaskIds
    <2> QED BY <1>16, <2>1, ReadBufferDoes, MindedKept
  <1>17. ASSUME NEW id \in SessionIds, Ends(id)
        PROVE  faults' = faults + 1 /\ (Changing(i) \/ CloseFailed(i))
    <2>1. UNCHANGED <<buffers, files, up, task>>
      BY <1>17, EndsDoes
    <2> QED BY <2>1 DEF Minded, Held, Changing, Id
  <1>18. ASSUME NEW id \in SessionIds, FixTime(id) \/ Combine(id)
        PROVE  faults' = faults + 1 /\ (Changing(i) \/ CloseFailed(i))
    <2>1. Cli \in Tasks /\ Cli \notin Handlers
      BY TaskIds
    <2> QED BY <1>18, <2>1, TakeDoes, MindedKept
  <1>19. ASSUME NEW id \in SessionIds, CombineWith(id)
        PROVE  faults' = faults + 1 /\ (Changing(i) \/ CloseFailed(i))
    <2>1. Cli \in Tasks /\ Cli \notin Handlers
      BY TaskIds
    <2> QED BY <1>19, <2>1, CombineWithDoes, MindedKept
  <1>20. ASSUME CopyRow
        PROVE  faults' = faults + 1 /\ (Changing(i) \/ CloseFailed(i))
    <2>1. Cli \in Tasks /\ Cli \notin Handlers
      BY TaskIds
    <2> QED BY <1>20, <2>1, CopyRowDoes, MindedKept
  <1>21. ASSUME CopyPoints
        PROVE  faults' = faults + 1 /\ (Changing(i) \/ CloseFailed(i))
    <2>1. Cli \in Tasks /\ Cli \notin Handlers
      BY TaskIds
    <2> QED BY <1>21, <2>1, CopyPointsDoes, MindedKept
  <1>22. ASSUME AddGpx
        PROVE  faults' = faults + 1 /\ (Changing(i) \/ CloseFailed(i))
    <2>1. Cli \in Tasks /\ Cli \notin Handlers
      BY TaskIds
    <2> QED BY <1>22, <2>1, AddGpxDoes, MindedKept
  <1>23. ASSUME Crash
        PROVE  faults' = faults + 1 /\ (Changing(i) \/ CloseFailed(i))
    <2>1. Fault /\ up /\ DOMAIN files \subseteq DOMAIN files' /\ (up' => buffers' = files')
      BY <1>23, CrashDoes
    <2>2. DOMAIN Held' = DOMAIN files' /\ Held = buffers
      BY <2>1 DEF Held
    <2>3. i \in DOMAIN Held => i \in DOMAIN Held'
      BY <2>1, <2>2, BufferFields
    <2> QED BY <2>1, <2>3, FaultMinded
  <1>24. ASSUME Returns
        PROVE  faults' = faults + 1 /\ (Changing(i) \/ CloseFailed(i))
    <2>1. UNCHANGED <<buffers, files, up>>
      BY <1>24, ReturnsDoes
    <2>2. CASE \E h \in Handlers : QueryFails(h)
      BY <2>1, <2>2, QueryFailsDoes, FaultMinded DEF Held
    <2>3. CASE \E h \in Handlers : AppendNoBuffer(h)
      <3>1. PICK h \in Handlers : AppendNoBuffer(h)
        BY <2>3
      <3>2. h \in Tasks /\ task[h].pc \notin ChangingPcs
        BY <3>1, TaskIds, AppendNoBufferDoes DEF At, ChangingPcs
      <3> QED BY <3>1, <3>2, AppendNoBufferDoes, MindedKept
    <2>4. CASE \E r \in Readers : ReadNoBuffer(r) \/ Answer(r)
      BY <2>4, TaskIds, ReaderReturns, MindedKept
    <2>5. CASE \E id \in SessionIds : CombinePanics(id)
      BY <2>5, TaskIds, CombinePanicsDoes, MindedKept
    <2> QED BY <1>24, <2>2, <2>3, <2>4, <2>5 DEF Returns
  <1>25. ASSUME UNCHANGED vars
        PROVE  faults' = faults + 1 /\ (Changing(i) \/ CloseFailed(i))
    BY <1>25 DEF Minded, Held, Changing, Id, vars, bufferVars
  <1> QED BY StepCases, <1>1, <1>2, <1>3, <1>4, <1>5, <1>6, <1>7, <1>8, <1>9, <1>10, <1>11, <1>12,
         <1>13, <1>14, <1>15, <1>16, <1>17, <1>18, <1>19, <1>20, <1>21, <1>22, <1>23,
         <1>24, <1>25, Zenon

\* A row that is new and already an orphan is the copy of an active one.
LEMMA NewOrphan ==
    ASSUME StoreTypes, PlaceInv, [Next]_vars, NEW i \in SessionIds', i \notin SessionIds, Orphan(i)'
    PROVE  At(Cli, "insert") /\ disturbed'
  <1>1. ASSUME NEW h \in Handlers, RegisterRow(h)
        PROVE  At(Cli, "insert") /\ disturbed'
    <2>1. i = Len(rows) + 1
      BY <1>1, RegisterRowDoes, RowInserted
    <2>2. Changing(i)'
      <3>1. h \in Tasks /\ h \in Handlers
        BY TaskIds
      <3>2. task'[h].pc = "start" /\ task'[h].id = Len(rows) + 1
        <4>1. PICK points, noted, active, list :
                Moves(h, Record("start", Len(rows) + 1, points, noted, active, list))
          BY <1>1, RegisterRowDoes
        <4> QED BY <4>1, MovedFields
      <3> QED BY <2>1, <3>1, <3>2 DEF Changing, Id
    <2> QED BY <2>2 DEF Orphan
  <1>2. ASSUME NEW h \in Handlers, StartBuffer(h)
        PROVE  At(Cli, "insert") /\ disturbed'
    BY <1>2, StartBufferDoes DEF SessionIds
  <1>3. ASSUME NEW h \in Handlers, NEW id \in SessionIds, AppendLookup(h, id)
        PROVE  At(Cli, "insert") /\ disturbed'
    BY <1>3, AppendLookupDoes DEF SessionIds
  <1>4. ASSUME NEW t \in Handlers \cup {Cli}, ReadTrip(t)
        PROVE  At(Cli, "insert") /\ disturbed'
    BY <1>4, ReadTripDoes DEF SessionIds
  <1>5. ASSUME NEW t \in Handlers \cup {Cli}, WriteCountries(t)
        PROVE  At(Cli, "insert") /\ disturbed'
    BY <1>5, WriteCountriesDoes DEF SessionIds
  <1>6. ASSUME NEW h \in Handlers, AppendBuffer(h)
        PROVE  At(Cli, "insert") /\ disturbed'
    BY <1>6, AppendBufferDoes DEF SessionIds
  <1>7. ASSUME NEW t \in Handlers \cup {Cli}, DbRead(t)
        PROVE  At(Cli, "insert") /\ disturbed'
    BY <1>7, DbReadDoes DEF SessionIds
  <1>8. ASSUME NEW t \in Handlers \cup {Cli}, DbWrite(t)
        PROVE  At(Cli, "insert") /\ disturbed'
    BY <1>8, DbWriteStores
  <1>9. ASSUME NEW h \in Handlers, NEW id \in SessionIds, EndClose(h, id)
        PROVE  At(Cli, "insert") /\ disturbed'
    BY <1>9, EndCloseDoes DEF SessionIds
  <1>10. ASSUME NEW h \in Handlers, EndPoints(h)
        PROVE  At(Cli, "insert") /\ disturbed'
    BY <1>10, EndPointsDoes, TaskFields, TaskIds, PointsSet
  <1>11. ASSUME NEW h \in Handlers, EndActive(h)
        PROVE  At(Cli, "insert") /\ disturbed'
    BY <1>11, EndActiveDoes, ActiveCleared
  <1>12. ASSUME NEW h \in Handlers, StartFails(h)
        PROVE  At(Cli, "insert") /\ disturbed'
    BY <1>12, StartFailsDoes DEF SessionIds
  <1>13. ASSUME NEW h \in Handlers, AppendFails(h)
        PROVE  At(Cli, "insert") /\ disturbed'
    BY <1>13, AppendFailsDoes DEF SessionIds
  <1>14. ASSUME NEW h \in Handlers, NEW id \in SessionIds, CloseFails(h, id)
        PROVE  At(Cli, "insert") /\ disturbed'
    BY <1>14, CloseFailsDoes DEF SessionIds
  <1>15. ASSUME NEW r \in Readers, NEW id \in SessionIds, ReadRow(r, id)
        PROVE  At(Cli, "insert") /\ disturbed'
    BY <1>15, ReadRowDoes DEF SessionIds
  <1>16. ASSUME NEW r \in Readers, ReadBuffer(r)
        PROVE  At(Cli, "insert") /\ disturbed'
    BY <1>16, ReadBufferDoes DEF SessionIds
  <1>17. ASSUME NEW id \in SessionIds, Ends(id)
        PROVE  At(Cli, "insert") /\ disturbed'
    BY <1>17, EndsDoes, ActiveCleared
  <1>18. ASSUME NEW id \in SessionIds, FixTime(id) \/ Combine(id)
        PROVE  At(Cli, "insert") /\ disturbed'
    BY <1>18, TakeDoes DEF SessionIds
  <1>19. ASSUME NEW id \in SessionIds, CombineWith(id)
        PROVE  At(Cli, "insert") /\ disturbed'
    BY <1>19, CombineWithDoes DEF SessionIds
  <1>20. ASSUME CopyRow
        PROVE  At(Cli, "insert") /\ disturbed'
    <2>1. i = Len(rows) + 1 /\ rows'[i].active = task[Cli].active
      BY <1>20, CopyRowDoes, TaskIds, TaskFields, RowInserted
    <2> QED BY <1>20, <2>1, CopyRowDoes DEF Orphan
  <1>21. ASSUME CopyPoints
        PROVE  At(Cli, "insert") /\ disturbed'
    BY <1>21, CopyPointsDoes, TaskFields, TaskIds, PointsSet
  <1>22. ASSUME AddGpx
        PROVE  At(Cli, "insert") /\ disturbed'
    BY <1>22, AddGpxDoes, RowInserted DEF Orphan
  <1>23. ASSUME Crash
        PROVE  At(Cli, "insert") /\ disturbed'
    BY <1>23, CrashDoes DEF SessionIds
  <1>24. ASSUME Returns
        PROVE  At(Cli, "insert") /\ disturbed'
    BY <1>24, ReturnsDoes DEF SessionIds
  <1>25. ASSUME UNCHANGED vars
        PROVE  At(Cli, "insert") /\ disturbed'
    BY <1>25 DEF SessionIds, vars, tableVars
  <1> QED BY StepCases, <1>1, <1>2, <1>3, <1>4, <1>5, <1>6, <1>7, <1>8, <1>9, <1>10, <1>11, <1>12,
         <1>13, <1>14, <1>15, <1>16, <1>17, <1>18, <1>19, <1>20, <1>21, <1>22, <1>23,
         <1>24, <1>25, Zenon

\* An orphan is made by a fault that hits a session being registered or ended, or a file that
\* cannot be deleted, or it is the copy of a row that was still active.
THEOREM OrphansOnlyFrom == Spec => OrphanOrigins
  <1> DEFINE Origin ==
        \A id \in SessionIds' : Orphan(id)' /\ ~Orphan(id) =>
            \/ faults' = faults + 1 /\ (Changing(id) \/ CloseFailed(id))
            \/ id \notin SessionIds /\ At(Cli, "insert") /\ disturbed'
  <1>1. StoreInv /\ [Next]_vars => Origin
    <2> SUFFICES ASSUME StoreInv, [Next]_vars, NEW i \in SessionIds', Orphan(i)', ~Orphan(i)
                 PROVE  \/ faults' = faults + 1 /\ (Changing(i) \/ CloseFailed(i))
                        \/ i \notin SessionIds /\ At(Cli, "insert") /\ disturbed'
      OBVIOUS
    <2>1. StoreTypes /\ PlaceInv
      BY DEF StoreInv
    <2>2. CASE i \notin SessionIds
      BY <2>1, <2>2, NewOrphan
    <2>3. CASE i \in SessionIds
      <3>1. rows'[i].active /\ ~Minded(i)'
        BY DEF Orphan, Minded
      <3>2. rows[i].active
        BY <2>1, <2>3, <3>1, Monotone
      <3>3. Minded(i)
        BY <2>3, <3>2 DEF Orphan, Minded
      <3> QED BY <2>1, <2>3, <3>1, <3>3, MindedLost
    <2> QED BY <2>2, <2>3
  <1>2. StoreInv /\ [Next]_vars => [Origin]_vars
    BY <1>1
  <1>3. OrphanOrigins <=> [][Origin]_vars
    BY DEF OrphanOrigins
  <1> HIDE DEF Origin
  <1> QED BY <1>2, <1>3, StoreCorrect, PTL DEF Spec

\* A fault leaves a buffer what is stored in it, or its file does for the next start.
LEMMA FaultsKeepHeld ==
    ASSUME StoreTypes, PlaceInv, FilesInv, [Next]_vars, faults' = faults + 1,
           NEW i \in SessionIds, i \in DOMAIN Held, ~CloseFailed(i)
    PROVE  /\ i \in DOMAIN Held'
           /\ stored[i] \cap Range(Held[i]) \subseteq Range(Held'[i])
  <1>0. faults' # faults
    BY KeepsTypes
  <1>1. ASSUME NEW h \in Handlers, RegisterRow(h)
        PROVE  /\ i \in DOMAIN Held'
               /\ stored[i] \cap Range(Held[i]) \subseteq Range(Held'[i])
    BY <1>0, <1>1, RegisterRowDoes
  <1>2. ASSUME NEW h \in Handlers, StartBuffer(h)
        PROVE  /\ i \in DOMAIN Held'
               /\ stored[i] \cap Range(Held[i]) \subseteq Range(Held'[i])
    BY <1>0, <1>2, StartBufferDoes
  <1>3. ASSUME NEW h \in Handlers, NEW id \in SessionIds, AppendLookup(h, id)
        PROVE  /\ i \in DOMAIN Held'
               /\ stored[i] \cap Range(Held[i]) \subseteq Range(Held'[i])
    BY <1>0, <1>3, AppendLookupDoes
  <1>4. ASSUME NEW t \in Handlers \cup {Cli}, ReadTrip(t)
        PROVE  /\ i \in DOMAIN Held'
               /\ stored[i] \cap Range(Held[i]) \subseteq Range(Held'[i])
    BY <1>0, <1>4, ReadTripDoes
  <1>5. ASSUME NEW t \in Handlers \cup {Cli}, WriteCountries(t)
        PROVE  /\ i \in DOMAIN Held'
               /\ stored[i] \cap Range(Held[i]) \subseteq Range(Held'[i])
    BY <1>0, <1>5, WriteCountriesDoes
  <1>6. ASSUME NEW h \in Handlers, AppendBuffer(h)
        PROVE  /\ i \in DOMAIN Held'
               /\ stored[i] \cap Range(Held[i]) \subseteq Range(Held'[i])
    BY <1>0, <1>6, AppendBufferDoes
  <1>7. ASSUME NEW t \in Handlers \cup {Cli}, DbRead(t)
        PROVE  /\ i \in DOMAIN Held'
               /\ stored[i] \cap Range(Held[i]) \subseteq Range(Held'[i])
    BY <1>0, <1>7, DbReadDoes
  <1>8. ASSUME NEW t \in Handlers \cup {Cli}, DbWrite(t)
        PROVE  /\ i \in DOMAIN Held'
               /\ stored[i] \cap Range(Held[i]) \subseteq Range(Held'[i])
    BY <1>0, <1>8, DbWriteDoes
  <1>9. ASSUME NEW h \in Handlers, NEW id \in SessionIds, EndClose(h, id)
        PROVE  /\ i \in DOMAIN Held'
               /\ stored[i] \cap Range(Held[i]) \subseteq Range(Held'[i])
    BY <1>0, <1>9, EndCloseDoes
  <1>10. ASSUME NEW h \in Handlers, EndPoints(h)
        PROVE  /\ i \in DOMAIN Held'
               /\ stored[i] \cap Range(Held[i]) \subseteq Range(Held'[i])
    BY <1>0, <1>10, EndPointsDoes
  <1>11. ASSUME NEW h \in Handlers, EndActive(h)
        PROVE  /\ i \in DOMAIN Held'
               /\ stored[i] \cap Range(Held[i]) \subseteq Range(Held'[i])
    BY <1>0, <1>11, EndActiveDoes
  <1>12. ASSUME NEW h \in Handlers, StartFails(h)
        PROVE  /\ i \in DOMAIN Held'
               /\ stored[i] \cap Range(Held[i]) \subseteq Range(Held'[i])
    <2>1. up /\ up' /\ buffers' = buffers
      BY <1>12, StartFailsDoes DEF PlaceInv, At
    <2> QED BY <2>1 DEF Held
  <1>13. ASSUME NEW h \in Handlers, AppendFails(h)
        PROVE  /\ i \in DOMAIN Held'
               /\ stored[i] \cap Range(Held[i]) \subseteq Range(Held'[i])
    <2>1. up /\ up'
      BY <1>13, AppendFailsDoes DEF PlaceInv, At
    <2>2. i \in DOMAIN buffers /\ i \in DOMAIN buffers'
          /\ Range(buffers[i]) \subseteq Range(buffers'[i])
      BY <1>13, <2>1, AppendFailsAdds DEF Held
    <2> QED BY <2>1, <2>2 DEF Held
  <1>14. ASSUME NEW h \in Handlers, NEW id \in SessionIds, CloseFails(h, id)
        PROVE  /\ i \in DOMAIN Held'
               /\ stored[i] \cap Range(Held[i]) \subseteq Range(Held'[i])
    <2>1. up /\ up' /\ i # id
      BY <1>14, CloseFailsDoes DEF CloseFailed
    <2>2. i \in DOMAIN buffers
      BY <2>1 DEF Held
    <2>3. buffers' = Without(buffers, id) /\ buffers \in Maps
      BY <1>14, CloseFailsDoes, BufferFields
    <2>4. i \in DOMAIN buffers' /\ buffers'[i] = buffers[i]
      BY <2>1, <2>2, <2>3, EntryDropped
    <2> QED BY <2>1, <2>2, <2>4 DEF Held
  <1>15. ASSUME NEW r \in Readers, NEW id \in SessionIds, ReadRow(r, id)
        PROVE  /\ i \in DOMAIN Held'
               /\ stored[i] \cap Range(Held[i]) \subseteq Range(Held'[i])
    BY <1>0, <1>15, ReadRowDoes
  <1>16. ASSUME NEW r \in Readers, ReadBuffer(r)
        PROVE  /\ i \in DOMAIN Held'
               /\ stored[i] \cap Range(Held[i]) \subseteq Range(Held'[i])
    BY <1>0, <1>16, ReadBufferDoes
  <1>17. ASSUME NEW id \in SessionIds, Ends(id)
        PROVE  /\ i \in DOMAIN Held'
               /\ stored[i] \cap Range(Held[i]) \subseteq Range(Held'[i])
    BY <1>0, <1>17, EndsDoes
  <1>18. ASSUME NEW id \in SessionIds, FixTime(id) \/ Combine(id)
        PROVE  /\ i \in DOMAIN Held'
               /\ stored[i] \cap Range(Held[i]) \subseteq Range(Held'[i])
    BY <1>0, <1>18, TakeDoes
  <1>19. ASSUME NEW id \in SessionIds, CombineWith(id)
        PROVE  /\ i \in DOMAIN Held'
               /\ stored[i] \cap Range(Held[i]) \subseteq Range(Held'[i])
    BY <1>0, <1>19, CombineWithDoes
  <1>20. ASSUME CopyRow
        PROVE  /\ i \in DOMAIN Held'
               /\ stored[i] \cap Range(Held[i]) \subseteq Range(Held'[i])
    BY <1>0, <1>20, CopyRowDoes
  <1>21. ASSUME CopyPoints
        PROVE  /\ i \in DOMAIN Held'
               /\ stored[i] \cap Range(Held[i]) \subseteq Range(Held'[i])
    BY <1>0, <1>21, CopyPointsDoes
  <1>22. ASSUME AddGpx
        PROVE  /\ i \in DOMAIN Held'
               /\ stored[i] \cap Range(Held[i]) \subseteq Range(Held'[i])
    BY <1>0, <1>22, AddGpxDoes
  <1>23. ASSUME Crash
        PROVE  /\ i \in DOMAIN Held'
               /\ stored[i] \cap Range(Held[i]) \subseteq Range(Held'[i])
    <2>1. /\ up /\ DOMAIN files \subseteq DOMAIN files' /\ (up' => buffers' = files')
          /\ \A id \in DOMAIN files : Range(files[id]) \subseteq Range(files'[id])
      BY <1>23, CrashDoes
    <2>2. Held' = files' /\ i \in DOMAIN buffers /\ i \in DOMAIN files
      BY <2>1, BufferFields DEF Held
    <2>3. stored[i] \cap Range(buffers[i]) \subseteq Range(files'[i])
      BY <2>1, <2>2 DEF FilesInv
    <2> QED BY <2>1, <2>2, <2>3 DEF Held
  <1>24. ASSUME Returns
        PROVE  /\ i \in DOMAIN Held'
               /\ stored[i] \cap Range(Held[i]) \subseteq Range(Held'[i])
    <2>1. UNCHANGED <<buffers, files, up>>
      BY <1>24, ReturnsDoes
    <2>2. Held' = Held
      BY <2>1 DEF Held
    <2> QED BY <2>2
  <1>25. ASSUME UNCHANGED vars
        PROVE  /\ i \in DOMAIN Held'
               /\ stored[i] \cap Range(Held[i]) \subseteq Range(Held'[i])
    BY <1>0, <1>25 DEF vars, boundVars
  <1> QED BY StepCases, <1>1, <1>2, <1>3, <1>4, <1>5, <1>6, <1>7, <1>8, <1>9, <1>10, <1>11, <1>12,
         <1>13, <1>14, <1>15, <1>16, <1>17, <1>18, <1>19, <1>20, <1>21, <1>22, <1>23,
         <1>24, <1>25, Zenon

LEMMA FaultsKeepRows ==
    ASSUME StoreTypes, PlaceInv, [Next]_vars, faults' = faults + 1
    PROVE  rows' = rows
  <1>0. faults' # faults
    BY KeepsTypes
  <1>1. ASSUME NEW h \in Handlers, RegisterRow(h)
        PROVE  rows' = rows
    BY <1>0, <1>1, RegisterRowDoes
  <1>2. ASSUME NEW h \in Handlers, StartBuffer(h)
        PROVE  rows' = rows
    BY <1>0, <1>2, StartBufferDoes
  <1>3. ASSUME NEW h \in Handlers, NEW id \in SessionIds, AppendLookup(h, id)
        PROVE  rows' = rows
    BY <1>0, <1>3, AppendLookupDoes
  <1>4. ASSUME NEW t \in Handlers \cup {Cli}, ReadTrip(t)
        PROVE  rows' = rows
    BY <1>0, <1>4, ReadTripDoes
  <1>5. ASSUME NEW t \in Handlers \cup {Cli}, WriteCountries(t)
        PROVE  rows' = rows
    BY <1>0, <1>5, WriteCountriesDoes
  <1>6. ASSUME NEW h \in Handlers, AppendBuffer(h)
        PROVE  rows' = rows
    BY <1>0, <1>6, AppendBufferDoes
  <1>7. ASSUME NEW t \in Handlers \cup {Cli}, DbRead(t)
        PROVE  rows' = rows
    BY <1>0, <1>7, DbReadDoes
  <1>8. ASSUME NEW t \in Handlers \cup {Cli}, DbWrite(t)
        PROVE  rows' = rows
    BY <1>0, <1>8, DbWriteDoes
  <1>9. ASSUME NEW h \in Handlers, NEW id \in SessionIds, EndClose(h, id)
        PROVE  rows' = rows
    BY <1>0, <1>9, EndCloseDoes
  <1>10. ASSUME NEW h \in Handlers, EndPoints(h)
        PROVE  rows' = rows
    BY <1>0, <1>10, EndPointsDoes
  <1>11. ASSUME NEW h \in Handlers, EndActive(h)
        PROVE  rows' = rows
    BY <1>0, <1>11, EndActiveDoes
  <1>12. ASSUME NEW h \in Handlers, StartFails(h)
        PROVE  rows' = rows
    BY <1>0, <1>12, StartFailsDoes
  <1>13. ASSUME NEW h \in Handlers, AppendFails(h)
        PROVE  rows' = rows
    BY <1>0, <1>13, AppendFailsDoes
  <1>14. ASSUME NEW h \in Handlers, NEW id \in SessionIds, CloseFails(h, id)
        PROVE  rows' = rows
    BY <1>0, <1>14, CloseFailsDoes
  <1>15. ASSUME NEW r \in Readers, NEW id \in SessionIds, ReadRow(r, id)
        PROVE  rows' = rows
    BY <1>0, <1>15, ReadRowDoes
  <1>16. ASSUME NEW r \in Readers, ReadBuffer(r)
        PROVE  rows' = rows
    BY <1>0, <1>16, ReadBufferDoes
  <1>17. ASSUME NEW id \in SessionIds, Ends(id)
        PROVE  rows' = rows
    BY <1>0, <1>17, EndsDoes
  <1>18. ASSUME NEW id \in SessionIds, FixTime(id) \/ Combine(id)
        PROVE  rows' = rows
    BY <1>0, <1>18, TakeDoes
  <1>19. ASSUME NEW id \in SessionIds, CombineWith(id)
        PROVE  rows' = rows
    BY <1>0, <1>19, CombineWithDoes
  <1>20. ASSUME CopyRow
        PROVE  rows' = rows
    BY <1>0, <1>20, CopyRowDoes
  <1>21. ASSUME CopyPoints
        PROVE  rows' = rows
    BY <1>0, <1>21, CopyPointsDoes
  <1>22. ASSUME AddGpx
        PROVE  rows' = rows
    BY <1>0, <1>22, AddGpxDoes
  <1>23. ASSUME Crash
        PROVE  rows' = rows
    BY <1>0, <1>23, CrashDoes
  <1>24. ASSUME Returns
        PROVE  rows' = rows
    BY <1>0, <1>24, ReturnsDoes
  <1>25. ASSUME UNCHANGED vars
        PROVE  rows' = rows
    BY <1>25 DEF vars, tableVars
  <1> QED BY StepCases, <1>1, <1>2, <1>3, <1>4, <1>5, <1>6, <1>7, <1>8, <1>9, <1>10, <1>11, <1>12,
         <1>13, <1>14, <1>15, <1>16, <1>17, <1>18, <1>19, <1>20, <1>21, <1>22, <1>23,
         <1>24, <1>25, Zenon

\* A fault takes stored points only from a session that was closed and not yet written to its
\* row, or whose file could not be deleted.
THEOREM FaultsAlwaysLoseOnlyClosing == Spec => FaultsLoseOnlyClosing
  <1> DEFINE Loses ==
        faults' = faults + 1 =>
            \A id \in SessionIds :
                \/ stored[id] \cap Range(PointsOf(id)) \subseteq
                        Range(PointsOf(id)') \cup Range(rows'[id].points)
                \/ Closing(id) # {} \/ CloseFailed(id)
  <1>1. StoreInv /\ [Next]_vars => Loses
    <2> SUFFICES ASSUME StoreInv, [Next]_vars, faults' = faults + 1, NEW i \in SessionIds,
                        Closing(i) = {}, ~CloseFailed(i)
                 PROVE  stored[i] \cap Range(PointsOf(i)) \subseteq
                            Range(PointsOf(i)') \cup Range(rows'[i].points)
      OBVIOUS
    <2>1. StoreTypes /\ PlaceInv /\ FilesInv
      BY DEF StoreInv
    <2>2. CASE i \in DOMAIN Held
      <3>1. i \in DOMAIN Held' /\ stored[i] \cap Range(Held[i]) \subseteq Range(Held'[i])
        BY <2>1, <2>2, FaultsKeepHeld
      <3>2. PointsOf(i) = Held[i] /\ PointsOf(i)' = Held'[i]
        BY <2>2, <3>1 DEF PointsOf
      <3> QED BY <3>1, <3>2
    <2>3. CASE i \notin DOMAIN Held
      <3>1. PointsOf(i) = rows[i].points
        BY <2>3 DEF PointsOf
      <3> QED BY <2>1, <3>1, FaultsKeepRows
    <2> QED BY <2>2, <2>3
  <1>2. StoreInv /\ [Next]_vars => [Loses]_vars
    BY <1>1
  <1>3. FaultsLoseOnlyClosing <=> [][Loses]_vars
    BY DEF FaultsLoseOnlyClosing
  <1> HIDE DEF Loses
  <1> QED BY <1>2, <1>3, StoreCorrect, PTL DEF Spec

-----------------------------------------------------------------------------
\* The data manager implements TripStore

Live(i) == i \in DOMAIN Held \/ Opening(i) # {}
Entry(i) == [live |-> Live(i), points |-> PointsOf(i)]
Entries == [live : BOOLEAN, points : Seq(Points)]

\* What Abstract takes for the sessions
Sessions == [id \in SessionIds |-> Entry(id)]

KeyPcs == {"start", "endPoints", "copy"}

\* Who has the points of a session that closes
LEMMA ClosingWho ==
    ASSUME StoreTypes, PlaceInv, NEW i, NEW t \in Closing(i)
    PROVE  /\ t \in Tasks /\ Id(t) = i /\ i \notin DOMAIN files
           /\ \/ t \in Handlers /\ task[t].pc = "endPoints"
              \/ t = Cli /\ task[t].pc = "copy"
  <1>1. t \in Tasks /\ Id(t) = i /\ task[t].pc \in {"endPoints", "copy"}
    BY DEF Closing
  <1>2. CASE t \in Handlers
    <2>1. task[t].pc \in HandlerPcs
      BY <1>2 DEF StoreTypes, TasksTypeOK
    <2> QED BY <1>1, <1>2, <2>1 DEF HandlerPcs, PlaceInv, Ending
  <1>3. CASE t \in Readers
    <2>1. task[t].pc \in ReaderPcs
      BY <1>3 DEF StoreTypes, TasksTypeOK
    <2> QED BY <1>1, <2>1 DEF ReaderPcs
  <1>4. CASE t = Cli
    <2>1. task[Cli].pc \in CliPcs
      BY DEF StoreTypes, TasksTypeOK
    <2> QED BY <1>1, <1>4, <2>1 DEF CliPcs, PlaceInv
  <1> QED BY <1>1, <1>2, <1>3, <1>4 DEF Tasks

LEMMA ClosingOne ==
    ASSUME StoreTypes, PlaceInv, NEW i, NEW t \in Closing(i), NEW u \in Closing(i)
    PROVE  t = u
  <1>1. /\ Id(t) = i
        /\ (t \in Handlers /\ task[t].pc = "endPoints") \/ (t = Cli /\ task[t].pc = "copy")
    BY ClosingWho
  <1>2. /\ Id(u) = i
        /\ (u \in Handlers /\ task[u].pc = "endPoints") \/ (u = Cli /\ task[u].pc = "copy")
    BY ClosingWho
  <1> QED BY <1>1, <1>2 DEF PlaceInv, Ending

\* Where the points of a session are while the server runs
WherePoints ==
    \A i \in SessionIds :
        /\ i \in DOMAIN buffers => PointsOf(i) = buffers[i]
        /\ i \notin DOMAIN buffers => \A t \in Closing(i) : PointsOf(i) = task[t].points
        /\ i \notin DOMAIN buffers /\ Closing(i) = {} => PointsOf(i) = rows[i].points
        /\ PointsOf(i) \in Seq(Points)

LEMMA PointsAre == StoreTypes /\ PlaceInv /\ up => WherePoints
  <1> SUFFICES ASSUME StoreTypes, PlaceInv, up, NEW i \in SessionIds
               PROVE  /\ i \in DOMAIN buffers => PointsOf(i) = buffers[i]
                      /\ i \notin DOMAIN buffers => \A t \in Closing(i) : PointsOf(i) = task[t].points
                      /\ i \notin DOMAIN buffers /\ Closing(i) = {} => PointsOf(i) = rows[i].points
                      /\ PointsOf(i) \in Seq(Points)
    BY DEF WherePoints
  <1>1. Held = buffers
    BY DEF Held
  <1>2. CASE i \in DOMAIN buffers
    BY <1>1, <1>2, BufferFields DEF PointsOf
  <1>3. CASE i \notin DOMAIN buffers /\ Closing(i) = {}
    BY <1>1, <1>3, Ids DEF PointsOf
  <1>4. CASE i \notin DOMAIN buffers /\ Closing(i) # {}
    <2>1. PICK t \in Closing(i) : t = CHOOSE u \in Closing(i) : TRUE
      BY <1>4
    <2>2. PointsOf(i) = task[t].points
      BY <1>1, <1>4, <2>1 DEF PointsOf
    <2>3. \A u \in Closing(i) : u = t
      BY ClosingOne
    <2>4. task[t].points \in Seq(Points)
      BY ClosingWho, TaskFields
    <2> QED BY <1>4, <2>2, <2>3, <2>4
  <1> QED BY <1>2, <1>3, <1>4

LEMMA NextPointsAre == StoreTypes' /\ PlaceInv' /\ up' => WherePoints'
  BY PointsAre, PTL

SessionsTyped ==
    /\ Sessions \in Seq(Entries) /\ Len(Sessions) = Len(rows) /\ DOMAIN Sessions = SessionIds
    /\ \A i \in SessionIds : Sessions[i] = Entry(i) /\ Entry(i) \in Entries

LEMMA SessionsAre == StoreTypes /\ PlaceInv /\ up => SessionsTyped
  <1> SUFFICES ASSUME StoreTypes, PlaceInv, up
               PROVE  SessionsTyped
    OBVIOUS
  <1>1. \A i \in SessionIds : Entry(i) \in Entries
    BY PointsAre DEF Entry, Entries, Live, WherePoints
  <1>2. Len(rows) \in Nat /\ SessionIds = 1..Len(rows)
    BY Ids
  <1>3. \A i \in SessionIds : Sessions[i] = Entry(i)
    BY DEF Sessions
  <1>4. Sessions \in [1..Len(rows) -> Entries]
    BY <1>1, <1>2 DEF Sessions
  <1>5. Sessions \in Seq(Entries) /\ Len(Sessions) = Len(rows)
    BY <1>2, <1>4
  <1> QED BY <1>1, <1>2, <1>3, <1>4, <1>5 DEF SessionsTyped

LEMMA NextSessionsAre == StoreTypes' /\ PlaceInv' /\ up' => SessionsTyped'
  BY SessionsAre, PTL

\* A session that the move is not about
LEMMA OthersSame ==
    ASSUME StoreTypes, PlaceInv, up, StoreTypes', PlaceInv', up', NEW t \in Tasks,
           NEW pc, NEW id, NEW points, NEW noted, NEW active, NEW list,
           Moves(t, Record(pc, id, points, noted, active, list)), NEW i \in SessionIds, i \in SessionIds',
           Id(t) = i => task[t].pc \notin KeyPcs,
           id = i => pc \notin KeyPcs,
           \/ i \in DOMAIN buffers \cap DOMAIN buffers' /\ buffers'[i] = buffers[i]
           \/ i \notin DOMAIN buffers \cup DOMAIN buffers' /\ rows'[i].points = rows[i].points
    PROVE  Entry(i)' = Entry(i)
  <1>1. /\ task'[t].pc = pc /\ task'[t].id = id
        /\ \A u \in Tasks : u # t => task'[u] = task[u]
    BY MovedFields
  <1>2. Closing(i)' = Closing(i) /\ \A u \in Closing(i) : task'[u] = task[u]
    <2>1. t \notin Closing(i) /\ t \notin Closing(i)'
      BY <1>1 DEF Closing, Id, KeyPcs
    <2>2. \A u \in Tasks : u # t => (u \in Closing(i) <=> u \in Closing(i)')
      BY <1>1 DEF Closing, Id
    <2>3. \A u \in Closing(i) : u \in Tasks /\ task'[u] = task[u]
      BY <1>1, <2>1 DEF Closing
    <2>4. Closing(i) \subseteq Tasks /\ Closing(i)' \subseteq Tasks
      BY DEF Closing
    <2>5. Closing(i)' = Closing(i)
      BY <2>1, <2>2, <2>4
    <2> QED BY <2>3, <2>5
  <1>3. Opening(i)' = Opening(i)
    <2>1. t \notin Opening(i) /\ t \notin Opening(i)'
      BY <1>1 DEF Opening, Id, KeyPcs, At
    <2>2. \A u \in Handlers : u # t => (u \in Opening(i) <=> u \in Opening(i)')
      BY <1>1, TaskIds DEF Opening, Id, At
    <2>3. Opening(i) \subseteq Handlers /\ Opening(i)' \subseteq Handlers
      BY DEF Opening
    <2> QED BY <2>1, <2>2, <2>3
  <1>4. Held = buffers /\ Held' = buffers'
    BY DEF Held
  <1>5. Live(i)' = Live(i)
    BY <1>3, <1>4 DEF Live
  <1>6. WherePoints /\ WherePoints'
    BY PointsAre, NextPointsAre
  <1>7. PointsOf(i)' = PointsOf(i)
    <2>1. CASE i \in DOMAIN buffers
      BY <1>6, <2>1 DEF WherePoints
    <2>2. CASE i \notin DOMAIN buffers /\ Closing(i) = {}
      BY <1>2, <1>6, <2>2 DEF WherePoints
    <2>3. CASE i \notin DOMAIN buffers /\ Closing(i) # {}
      <3>1. PICK u : u \in Closing(i) /\ u \in Closing(i)' /\ task'[u] = task[u]
        BY <1>2, <2>3
      <3>2. PointsOf(i) = task[u].points
        BY <1>6, <2>3, <3>1 DEF WherePoints
      <3>3. PointsOf(i)' = task'[u].points
        BY <1>6, <2>3, <3>1 DEF WherePoints
      <3> QED BY <3>1, <3>2, <3>3
    <2> QED BY <2>1, <2>2, <2>3
  <1> QED BY <1>5, <1>7 DEF Entry

-----------------------------------------------------------------------------
\* The steps of TripStore, in terms of Sessions

Imports ==
    /\ Len(Sessions') = Len(Sessions) + 1 /\ IsPrefix(Sessions, Sessions')
    /\ ~Last(Sessions').live

StoreStep ==
    \/ Sessions' = Sessions
    \/ Sessions' = Append(Sessions, [live |-> TRUE, points |-> <<>>])
    \/ Imports
    \/ \E k \in SessionIds : Sessions[k].live /\ Sessions' = [Sessions EXCEPT ![k].live = FALSE]
    \/ \E k \in SessionIds, batch \in Batches :
            Sessions' = [Sessions EXCEPT ![k].points = @ \o batch]

LEMMA AllSame ==
    ASSUME SessionIds' = SessionIds, \A i \in SessionIds : Entry(i)' = Entry(i)
    PROVE  Sessions' = Sessions
  BY DEF Sessions

LEMMA Appended ==
    ASSUME StoreTypes, PlaceInv, up, StoreTypes', PlaceInv', up',
           NEW k, k = Len(rows) + 1, Len(rows') = k, SessionIds' = SessionIds \cup {k},
           \A i \in SessionIds : Entry(i)' = Entry(i)
    PROVE  /\ Sessions' = Append(Sessions, Entry(k)')
           /\ ~Live(k)' => Imports
  <1>1. /\ Sessions \in Seq(Entries) /\ Len(Sessions) = Len(rows)
        /\ \A i \in 1..Len(rows) : Sessions[i] = Entry(i)
        /\ Len(rows) \in Nat /\ SessionIds = 1..Len(rows)
    BY SessionsAre, Ids DEF SessionsTyped
  <1>2. /\ Sessions' \in Seq(Entries) /\ Len(Sessions') = k
        /\ \A i \in SessionIds' : Sessions'[i] = Entry(i)'
        /\ Entry(k)' \in Entries
    BY NextSessionsAre DEF SessionsTyped
  <1>3. /\ Append(Sessions, Entry(k)') \in Seq(Entries)
        /\ Len(Append(Sessions, Entry(k)')) = k
        /\ \A i \in 1..Len(rows) : Append(Sessions, Entry(k)')[i] = Entry(i)
        /\ Append(Sessions, Entry(k)')[k] = Entry(k)'
    BY <1>1, <1>2, AppendProperties
  <1>4. \A i \in 1..k : Sessions'[i] = Append(Sessions, Entry(k)')[i]
    BY <1>1, <1>2, <1>3
  <1>5. Sessions' = Append(Sessions, Entry(k)')
    BY <1>2, <1>3, <1>4, SeqEqual
  <1>6. IsPrefix(Sessions, Sessions')
    <2>1. SubSeq(Sessions, 1, Len(rows)) = Sessions
      BY <1>1, SubSeqFull
    <2>2. \A i \in 1..Len(rows) : Sessions'[i] = Sessions[i] /\ Sessions'[i] \in Entries
      BY <1>1, <1>2, ElementOfSeq
    <2>3. /\ SubSeq(Sessions', 1, Len(rows)) \in Seq(Entries)
          /\ Len(SubSeq(Sessions', 1, Len(rows))) = Len(rows)
          /\ \A i \in 1..Len(rows) : SubSeq(Sessions', 1, Len(rows))[i] = Sessions'[i]
      BY <1>1, <2>2, SubSeqProperties
    <2>4. SubSeq(Sessions', 1, Len(rows)) = Sessions
      BY <1>1, <2>2, <2>3, SeqEqual
    <2> QED BY <1>1, <1>2, <2>1, <2>4 DEF IsPrefix
  <1>7. ~Live(k)' => ~Last(Sessions').live
    BY <1>2 DEF Last, Entry
  <1> QED BY <1>1, <1>2, <1>5, <1>6, <1>7 DEF Imports

LEMMA OneChanged ==
    ASSUME StoreTypes, PlaceInv, up, SessionIds' = SessionIds, NEW k \in SessionIds,
           \A i \in SessionIds : i # k => Entry(i)' = Entry(i)
    PROVE  /\ Live(k) /\ ~Live(k)' /\ PointsOf(k)' = PointsOf(k) =>
                Sessions[k].live /\ Sessions' = [Sessions EXCEPT ![k].live = FALSE]
           /\ \A batch : Live(k)' = Live(k) /\ PointsOf(k)' = PointsOf(k) \o batch =>
                Sessions' = [Sessions EXCEPT ![k].points = @ \o batch]
  <1>1. /\ Sessions' = [i \in SessionIds |-> Entry(i)']
        /\ Sessions = [i \in SessionIds |-> Entry(i)]
    BY DEF Sessions
  <1>2. ASSUME Live(k), ~Live(k)', PointsOf(k)' = PointsOf(k)
        PROVE  Sessions[k].live /\ Sessions' = [Sessions EXCEPT ![k].live = FALSE]
    <2>1. Live(k) = TRUE /\ Live(k)' = FALSE
      BY <1>2 DEF Live
    <2>2. Entry(k)' = [Entry(k) EXCEPT !.live = FALSE] /\ Entry(k).live
      <3>1. /\ Entry(k)' = [live |-> FALSE, points |-> PointsOf(k)]
            /\ Entry(k) = [live |-> TRUE, points |-> PointsOf(k)]
        BY <1>2, <2>1, Zenon DEF Entry
      <3>2. \A points, old, new : [[live |-> old, points |-> points] EXCEPT !.live = new]
                                      = [live |-> new, points |-> points]
        OBVIOUS
      <3>3. Entry(k)' = [Entry(k) EXCEPT !.live = FALSE]
        <4>1. PICK now, then, old, new, points :
                /\ now = Entry(k) /\ then = Entry(k)' /\ old = TRUE /\ new = FALSE
                /\ now = [live |-> old, points |-> points]
                /\ then = [live |-> new, points |-> points]
          BY <3>1, Zenon
        <4>2. then = [now EXCEPT !.live = new]
          BY <3>2, <4>1
        <4> QED BY <4>1, <4>2, Zenon
      <3>4. Entry(k).live = TRUE
        BY <3>1
      <3> QED BY <3>3, <3>4, Zenon
    <2> QED BY <1>1, <2>2
  <1>3. ASSUME NEW batch, Live(k)' = Live(k), PointsOf(k)' = PointsOf(k) \o batch
        PROVE  Sessions' = [Sessions EXCEPT ![k].points = @ \o batch]
    <2>1. Entry(k)' = [Entry(k) EXCEPT !.points = @ \o batch]
      BY <1>3 DEF Entry
    <2> QED BY <1>1, <2>1
  <1> QED BY <1>2, <1>3

-----------------------------------------------------------------------------
\* Every step of the data manager is one of them, or none

LEMMA MoveSame ==
    ASSUME StoreTypes, PlaceInv, up, StoreTypes', PlaceInv', up', NEW t \in Tasks,
           NEW pc, NEW id, NEW points, NEW noted, NEW active, NEW list,
           Moves(t, Record(pc, id, points, noted, active, list)),
           task[t].pc \notin KeyPcs, pc \notin KeyPcs, SessionIds' = SessionIds, UNCHANGED buffers,
           \A i \in SessionIds : rows'[i].points = rows[i].points
    PROVE  StoreStep
  <1>1. \A i \in SessionIds : Entry(i)' = Entry(i)
    BY OthersSame
  <1> QED BY <1>1, AllSame DEF StoreStep

LEMMA MoveNew ==
    ASSUME StoreTypes, PlaceInv, up, StoreTypes', PlaceInv', up', NEW t \in Tasks,
           NEW pc, NEW points, NEW noted, NEW active, NEW list,
           Moves(t, Record(pc, Len(rows) + 1, points, noted, active, list)),
           task[t].pc \notin KeyPcs, NEW live \in BOOLEAN, InsertRow(live), UNCHANGED buffers
    PROVE  \E k : /\ k = Len(rows) + 1 /\ k \notin SessionIds /\ k \in SessionIds' /\ k \notin DOMAIN buffers'
                  /\ rows'[k].points = <<>> /\ task'[t].id = k /\ task'[t].pc = pc
                  /\ \A u \in Tasks : u # t => task'[u].id # k
                  /\ Sessions' = Append(Sessions, Entry(k)')
                  /\ ~Live(k)' => Imports
  <1>1. PICK k : k = Len(rows) + 1
    OBVIOUS
  <1>2. /\ SessionIds' = SessionIds \cup {k} /\ k \notin SessionIds /\ k \in Nat \ {0}
        /\ \A i \in SessionIds : rows'[i] = rows[i]
        /\ rows'[k].points = <<>>
    BY <1>1, RowInserted
  <1>3. Len(rows') = k
    BY <1>1, Ids DEF InsertRow, StoreTypes, TableTypeOK
  <1>4. Moves(t, Record(pc, k, points, noted, active, list))
    BY <1>1
  <1>5. /\ task'[t].id = k /\ task'[t].pc = pc
        /\ \A u \in Tasks : u # t => task'[u] = task[u]
    BY <1>4, MovedFields
  <1>6. \A u \in Tasks : task[u].id # k
    BY <1>2, TaskIds, Ids DEF Id, StoreTypes, TasksTypeOK
  <1>7. k \notin DOMAIN buffers'
    BY <1>2, BufferFields
  <1>8. ASSUME NEW i \in SessionIds
        PROVE  Entry(i)' = Entry(i)
    <2>1. /\ k # i /\ i \in SessionIds' /\ rows'[i].points = rows[i].points
          /\ Id(t) = i => task[t].pc \notin KeyPcs
      BY <1>2
    <2>2. \/ i \in DOMAIN buffers \cap DOMAIN buffers' /\ buffers'[i] = buffers[i]
          \/ i \notin DOMAIN buffers \cup DOMAIN buffers' /\ rows'[i].points = rows[i].points
      BY <2>1
    <2> QED BY <1>4, <2>1, <2>2, OthersSame
  <1>9. /\ Sessions' = Append(Sessions, Entry(k)')
        /\ ~Live(k)' => Imports
    BY <1>1, <1>2, <1>3, <1>8, Appended
  <1> QED BY <1>1, <1>2, <1>5, <1>6, <1>7, <1>9

LEMMA SameSessions ==
    ASSUME UNCHANGED <<rows, buffers, files, up, task>>
    PROVE  Sessions' = Sessions
  <1>1. SessionIds' = SessionIds /\ Held' = Held
    BY DEF SessionIds, Held
  <1>2. ASSUME NEW i
        PROVE  Closing(i)' = Closing(i) /\ Opening(i)' = Opening(i)
    BY DEF Closing, Opening, Id, At
  <1>3. ASSUME NEW i
        PROVE  Entry(i)' = Entry(i)
    BY <1>1, <1>2 DEF Entry, Live, PointsOf
  <1> QED BY <1>1, <1>3, AllSame

LEMMA NextSessions ==
    ASSUME StoreTypes, PlaceInv, InactiveInv, AloneInv, RowInv, BatchInv,
           StoreTypes', PlaceInv', AloneInv', [Next]_vars, ~disturbed'
    PROVE  StoreStep
  <1>0. up /\ up' /\ WherePoints /\ WherePoints'
    BY PointsAre, NextPointsAre DEF AloneInv
  <1>1. ASSUME NEW h \in Handlers, RegisterRow(h)
        PROVE  StoreStep
    <2>1. PICK points, noted, active, list :
                Moves(h, Record("start", Len(rows) + 1, points, noted, active, list))
      BY <1>1, RegisterRowDoes
    <2>2. PICK live \in BOOLEAN :
                h \in Tasks /\ task[h].pc \notin KeyPcs /\ InsertRow(live) /\ UNCHANGED buffers
      <3>1. TRUE \in BOOLEAN /\ InsertRow(TRUE)
        BY <1>1, RegisterRowDoes
      <3>2. h \in Tasks /\ task[h].pc \notin KeyPcs /\ UNCHANGED buffers
        BY <1>1, RegisterRowDoes, TaskIds DEF At, KeyPcs
      <3> QED BY <3>1, <3>2, Zenon
    <2>3. PICK k : /\ k \in SessionIds' /\ k \notin DOMAIN buffers'
                   /\ rows'[k].points = <<>> /\ task'[h].id = k /\ task'[h].pc = "start"
                   /\ \A u \in Tasks : u # h => task'[u].id # k
                   /\ Sessions' = Append(Sessions, Entry(k)')
      BY <1>0, <2>1, <2>2, MoveNew
    <2>4. Live(k)'
      BY <2>3 DEF Live, Opening, At, Id
    <2>5. Closing(k)' = {}
      BY <2>3 DEF Closing, Id
    <2>6. PointsOf(k)' = <<>>
      BY <1>0, <2>3, <2>5 DEF WherePoints
    <2>7. Entry(k)' = [live |-> TRUE, points |-> <<>>]
      <3>1. Live(k)' = TRUE
        BY <2>4 DEF Live
      <3> QED BY <2>6, <3>1, Zenon DEF Entry
    <2>8. Sessions' = Append(Sessions, [live |-> TRUE, points |-> <<>>])
      BY <2>3, <2>7, Zenon
    <2> QED BY <2>8 DEF StoreStep
  <1>2. ASSUME NEW h \in Handlers, StartBuffer(h)
        PROVE  StoreStep
    <2>1. PICK k \in SessionIds : /\ k = Id(h) /\ SessionIds' = SessionIds /\ UNCHANGED rows
                                 /\ h \in Tasks /\ At(h, "start")
      BY <1>2, StartBufferDoes, StartBufferMakes, TaskIds
    <2>2. /\ DOMAIN buffers' = DOMAIN buffers \cup {k} /\ buffers'[k] = <<>>
          /\ \A i \in DOMAIN buffers \ {k} : buffers'[i] = buffers[i]
      BY <1>2, <2>1, StartBufferMakes
    <2>3. ASSUME NEW i \in SessionIds, i # k
          PROVE  Entry(i)' = Entry(i)
      <3>1. \/ i \in DOMAIN buffers \cap DOMAIN buffers' /\ buffers'[i] = buffers[i]
            \/ i \notin DOMAIN buffers \cup DOMAIN buffers' /\ rows'[i].points = rows[i].points
        BY <2>3, <2>1, <2>2
      <3>2. PICK pc, to, points, noted, active, list :
                Moves(h, Record(pc, to, points, noted, active, list)) /\ to \in {0, k}
        BY <1>2, <2>1, StartBufferDoes
      <3>3. i # 0 /\ i \in SessionIds'
        BY <2>1, <2>3, TaskIds
      <3>4. Id(h) = i => task[h].pc \notin KeyPcs
        BY <2>1, <2>3 DEF At, KeyPcs
      <3>5. to = i => pc \notin KeyPcs
        BY <2>3, <3>2, <3>3
      <3> QED BY <1>0, <2>1, <3>1, <3>2, <3>3, <3>4, <3>5, OthersSame
    <2>4. k \notin DOMAIN buffers /\ rows[k].points = <<>>
      BY <2>1, BufferFields DEF PlaceInv
    <2>5. Closing(k) = {}
      <3> SUFFICES ASSUME NEW u \in Closing(k)
                   PROVE  FALSE
        OBVIOUS
      <3>1. CASE u \in Handlers /\ task[u].pc = "endPoints"
        BY <2>1, <3>1, ClosingWho DEF PlaceInv, At
      <3>2. CASE u = Cli /\ task[u].pc = "copy"
        BY <2>1, <3>2, ClosingWho DEF PlaceInv
      <3> QED BY <3>1, <3>2, ClosingWho
    <2>6. PointsOf(k) = <<>> /\ PointsOf(k)' = <<>>
      BY <1>0, <2>1, <2>2, <2>4, <2>5 DEF WherePoints
    <2>7. Live(k) /\ Live(k)'
      BY <1>0, <2>1, <2>2 DEF Live, Held, Opening
    <2>8. Entry(k)' = Entry(k)
      <3>1. Live(k)' = Live(k)
        BY <2>7 DEF Live
      <3> QED BY <2>6, <3>1 DEF Entry
    <2> QED BY <2>1, <2>3, <2>8, AllSame DEF StoreStep
  <1>3. ASSUME NEW h \in Handlers, NEW id \in SessionIds, AppendLookup(h, id)
        PROVE  StoreStep
    <2>1. PICK pc, k, points, noted, active, list :
                Moves(h, Record(pc, k, points, noted, active, list)) /\ pc \notin KeyPcs
      BY <1>3, AppendLookupDoes DEF KeyPcs
    <2>2. h \in Tasks /\ task[h].pc \notin KeyPcs
      BY <1>3, AppendLookupDoes, TaskIds DEF At, KeyPcs
    <2>3. /\ SessionIds' = SessionIds /\ UNCHANGED buffers
          /\ \A i \in SessionIds : rows'[i].points = rows[i].points
      BY <1>3, AppendLookupDoes DEF SessionIds
    <2> QED BY <1>0, <2>1, <2>2, <2>3, MoveSame
  <1>4. ASSUME NEW t \in Handlers \cup {Cli}, ReadTrip(t)
        PROVE  StoreStep
    <2>1. PICK pc, k, points, noted, active, list :
                Moves(t, Record(pc, k, points, noted, active, list)) /\ pc \notin KeyPcs
      BY <1>4, ReadTripGoes DEF KeyPcs, Destination
    <2>2. t \in Tasks /\ task[t].pc \notin KeyPcs
      BY <1>4, ReadTripDoes, TaskIds DEF At, KeyPcs
    <2>3. /\ SessionIds' = SessionIds /\ UNCHANGED buffers
          /\ \A i \in SessionIds : rows'[i].points = rows[i].points
      BY <1>4, ReadTripDoes DEF SessionIds
    <2> QED BY <1>0, <2>1, <2>2, <2>3, MoveSame
  <1>5. ASSUME NEW t \in Handlers \cup {Cli}, WriteCountries(t)
        PROVE  StoreStep
    <2>1. PICK pc, k, points, noted, active, list :
                Moves(t, Record(pc, k, points, noted, active, list)) /\ pc \notin KeyPcs
      BY <1>5, WriteCountriesDoes DEF KeyPcs, Destination
    <2>2. t \in Tasks /\ task[t].pc \notin KeyPcs
      BY <1>5, WriteCountriesDoes, TaskIds DEF At, KeyPcs
    <2>3. /\ SessionIds' = SessionIds /\ UNCHANGED buffers
          /\ \A i \in SessionIds : rows'[i].points = rows[i].points
      BY <1>5, WriteCountriesDoes DEF SessionIds
    <2> QED BY <1>0, <2>1, <2>2, <2>3, MoveSame
  <1>6. ASSUME NEW h \in Handlers, AppendBuffer(h)
        PROVE  StoreStep
    <2>1. PICK k \in SessionIds : /\ k = Id(h) /\ SessionIds' = SessionIds /\ UNCHANGED rows
                                 /\ h \in Tasks /\ At(h, "append") /\ k \in DOMAIN buffers
      BY <1>6, AppendBufferDoes, AppendBufferStores
    <2>2. /\ DOMAIN buffers' = DOMAIN buffers /\ buffers'[k] = buffers[k] \o task[h].points
          /\ \A i \in DOMAIN buffers \ {k} : buffers'[i] = buffers[i]
      <3>1. buffers \in Maps /\ task[h].points \in Seq(Points)
        BY <2>1, BufferFields, TaskFields
      <3>2. /\ DOMAIN Longer(buffers, k, task[h].points) = DOMAIN buffers
            /\ Longer(buffers, k, task[h].points)[k] = buffers[k] \o task[h].points
            /\ \A i \in DOMAIN buffers \ {k} : Longer(buffers, k, task[h].points)[i] = buffers[i]
        BY <2>1, <3>1, EntryLonger
      <3>3. buffers' = Longer(buffers, k, task[h].points)
        BY <1>6, <2>1, AppendBufferDoes
      <3> QED BY <3>2, <3>3
    <2>3. ASSUME NEW i \in SessionIds, i # k
          PROVE  Entry(i)' = Entry(i)
      <3>1. \/ i \in DOMAIN buffers \cap DOMAIN buffers' /\ buffers'[i] = buffers[i]
            \/ i \notin DOMAIN buffers \cup DOMAIN buffers' /\ rows'[i].points = rows[i].points
        BY <2>3, <2>1, <2>2
      <3>2. PICK pc, to, points, noted, active, list :
                Moves(h, Record(pc, to, points, noted, active, list)) /\ to \in {0, k}
        BY <1>6, <2>1, AppendBufferDoes
      <3>3. i # 0 /\ i \in SessionIds'
        BY <2>1, <2>3, TaskIds
      <3>4. Id(h) = i => task[h].pc \notin KeyPcs
        BY <2>1, <2>3 DEF At, KeyPcs
      <3>5. to = i => pc \notin KeyPcs
        BY <2>3, <3>2, <3>3
      <3> QED BY <1>0, <2>1, <3>1, <3>2, <3>3, <3>4, <3>5, OthersSame
    <2>4. PointsOf(k)' = PointsOf(k) \o task[h].points
      BY <1>0, <2>1, <2>2 DEF WherePoints
    <2>5. Live(k)' = Live(k)
      BY <1>0, <2>1, <2>2 DEF Live, Held
    <2>6. task[h].points \in Batches
      BY <2>1 DEF BatchInv, Appending, At
    <2>7. Sessions' = [Sessions EXCEPT ![k].points = @ \o task[h].points]
      BY <1>0, <2>1, <2>3, <2>4, <2>5, OneChanged
    <2> QED BY <2>6, <2>7 DEF StoreStep
  <1>7. ASSUME NEW t \in Handlers \cup {Cli}, DbRead(t)
        PROVE  StoreStep
    <2>1. PICK pc, k, points, noted, active, list :
                Moves(t, Record(pc, k, points, noted, active, list)) /\ pc \notin KeyPcs
      BY <1>7, DbReadDoes DEF KeyPcs
    <2>2. t \in Tasks /\ task[t].pc \notin KeyPcs
      BY <1>7, DbReadDoes, TaskIds DEF At, KeyPcs
    <2>3. /\ SessionIds' = SessionIds /\ UNCHANGED buffers
          /\ \A i \in SessionIds : rows'[i].points = rows[i].points
      BY <1>7, DbReadDoes DEF SessionIds
    <2> QED BY <1>0, <2>1, <2>2, <2>3, MoveSame
  <1>8. ASSUME NEW t \in Handlers \cup {Cli}, DbWrite(t)
        PROVE  StoreStep
    <2>1. PICK k \in SessionIds : /\ k = Id(t) /\ SessionIds' = SessionIds /\ UNCHANGED buffers
                                 /\ t \in Tasks /\ At(t, "dbWrite")
      BY <1>8, DbWriteDoes, DbWriteStores
    <2>2. /\ \A i \in SessionIds :
                rows'[i].points = IF i = k THEN task[t].points ELSE rows[i].points
      BY <1>8, <2>1, DbWriteStores
    <2>3. ASSUME NEW i \in SessionIds, i # k
          PROVE  Entry(i)' = Entry(i)
      <3>1. \/ i \in DOMAIN buffers \cap DOMAIN buffers' /\ buffers'[i] = buffers[i]
            \/ i \notin DOMAIN buffers \cup DOMAIN buffers' /\ rows'[i].points = rows[i].points
        BY <2>3, <2>1, <2>2
      <3>2. PICK pc, to, points, noted, active, list :
                Moves(t, Record(pc, to, points, noted, active, list)) /\ to \in {0, k}
        BY <1>8, <2>1, DbWriteDoes
      <3>3. i # 0 /\ i \in SessionIds'
        BY <2>1, <2>3, TaskIds
      <3>4. Id(t) = i => task[t].pc \notin KeyPcs
        BY <2>1, <2>3 DEF At, KeyPcs
      <3>5. to = i => pc \notin KeyPcs
        BY <2>3, <3>2, <3>3
      <3> QED BY <1>0, <2>1, <3>1, <3>2, <3>3, <3>4, <3>5, OthersSame
    <2>4. PICK batch \in Batches : task[t].points = rows[k].points \o batch
      BY <2>1 DEF BatchInv, At, Id
    <2>5. ~rows[k].active
      BY <2>1 DEF InactiveInv, Appending, At
    <2>6. ASSUME NEW u \in Handlers
          PROVE  ~(Id(u) = k /\ task[u].pc \in {"start", "endPoints", "endActive"})
      <3>1. CASE t = Cli
        BY <2>1, <3>1 DEF PlaceInv, At
      <3>2. CASE t \in Handlers
        BY <2>1, <2>6, <3>2, TaskIds DEF AloneInv, At
      <3> QED BY <3>1, <3>2
    <2>7. k \notin DOMAIN buffers
      BY <2>5, <2>6 DEF RowInv, Changing
    <2>8. Closing(k) = {}
      <3> SUFFICES ASSUME NEW u \in Closing(k)
                   PROVE  FALSE
        OBVIOUS
      <3>1. CASE u \in Handlers /\ task[u].pc = "endPoints"
        BY <2>6, <3>1, ClosingWho
      <3>2. CASE u = Cli /\ task[u].pc = "copy"
        BY <2>1, <3>2, ClosingWho DEF PlaceInv, At
      <3> QED BY <3>1, <3>2, ClosingWho
    <2>9. Closing(k)' = {} /\ Opening(k)' = Opening(k)
      <3>1. task'[t].pc = "idle" /\ \A u \in Tasks : u # t => task'[u] = task[u]
        BY <1>8, <2>1, DbWriteDoes, MovedFields
      <3>2. Closing(k)' = {}
        BY <2>8, <3>1 DEF Closing, Id
      <3>3. Opening(k)' = {} /\ Opening(k) = {}
        BY <2>6, <3>1, TaskIds DEF Opening, At, Id
      <3> QED BY <3>2, <3>3
    <2>10. PointsOf(k)' = PointsOf(k) \o batch
      <3>1. PointsOf(k) = rows[k].points
        BY <1>0, <2>7, <2>8 DEF WherePoints
      <3>2. PointsOf(k)' = rows'[k].points
        BY <1>0, <2>1, <2>7, <2>9 DEF WherePoints
      <3> QED BY <2>2, <2>4, <3>1, <3>2
    <2>11. Live(k)' = Live(k)
      BY <1>0, <2>1, <2>9 DEF Live, Held
    <2>12. Sessions' = [Sessions EXCEPT ![k].points = @ \o batch]
      BY <1>0, <2>1, <2>3, <2>10, <2>11, OneChanged
    <2> QED BY <2>12 DEF StoreStep
  <1>9. ASSUME NEW h \in Handlers, NEW id \in SessionIds, EndClose(h, id)
        PROVE  StoreStep
    <2>1. PICK k \in SessionIds : /\ k = id /\ SessionIds' = SessionIds /\ UNCHANGED rows
                                 /\ h \in Tasks /\ At(h, "idle") /\ k \in DOMAIN buffers /\ k \in known
      BY <1>9, EndCloseDoes, TaskIds DEF SessionIds
    <2>2. DOMAIN buffers' = DOMAIN buffers \ {k} /\ \A i \in DOMAIN buffers' : buffers'[i] = buffers[i]
      BY <1>9, <2>1, EndCloseDrops
    <2>3. ASSUME NEW i \in SessionIds, i # k
          PROVE  Entry(i)' = Entry(i)
      <3>1. \/ i \in DOMAIN buffers \cap DOMAIN buffers' /\ buffers'[i] = buffers[i]
            \/ i \notin DOMAIN buffers \cup DOMAIN buffers' /\ rows'[i].points = rows[i].points
        BY <2>3, <2>1, <2>2
      <3>2. PICK pc, to, points, noted, active, list :
                Moves(h, Record(pc, to, points, noted, active, list)) /\ to \in {0, k}
        BY <1>9, <2>1, EndCloseDoes
      <3>3. i # 0 /\ i \in SessionIds'
        BY <2>1, <2>3, TaskIds
      <3>4. Id(h) = i => task[h].pc \notin KeyPcs
        BY <2>1, <2>3 DEF At, KeyPcs
      <3>5. to = i => pc \notin KeyPcs
        BY <2>3, <3>2, <3>3
      <3> QED BY <1>0, <2>1, <3>1, <3>2, <3>3, <3>4, <3>5, OthersSame
    <2>4. /\ task'[h].pc = "endPoints" /\ task'[h].id = k /\ task'[h].points = buffers[k]
          /\ \A u \in Tasks : u # h => task'[u] = task[u]
      <3>1. PICK points, noted, active, list :
                Moves(h, Record("endPoints", k, points, noted, active, list)) /\ points = buffers[k]
        BY <1>9, <2>1, EndCloseDoes
      <3> QED BY <3>1, MovedFields
    <2>5. h \in Closing(k)'
      BY <2>1, <2>4 DEF Closing, Id
    <2>6. PointsOf(k)' = PointsOf(k)
      <3>1. PointsOf(k) = buffers[k]
        BY <1>0, <2>1 DEF WherePoints
      <3>2. PointsOf(k)' = task'[h].points
        BY <1>0, <2>1, <2>2, <2>5 DEF WherePoints
      <3> QED BY <2>4, <3>1, <3>2
    <2>7. Live(k)
      BY <1>0, <2>1 DEF Live, Held
    <2>8. ~Live(k)'
      <3>1. Opening(k) = {}
        BY <2>1 DEF PlaceInv, Opening
      <3>2. Opening(k)' = {}
        BY <2>4, <3>1, TaskIds DEF Opening, At, Id
      <3> QED BY <1>0, <2>2, <3>2 DEF Live, Held
    <2>9. Sessions[k].live /\ Sessions' = [Sessions EXCEPT ![k].live = FALSE]
      BY <1>0, <2>1, <2>3, <2>6, <2>7, <2>8, OneChanged
    <2> QED BY <2>9 DEF StoreStep
  <1>10. ASSUME NEW h \in Handlers, EndPoints(h)
        PROVE  StoreStep
    <2>1. PICK k \in SessionIds : /\ k = Id(h) /\ SessionIds' = SessionIds /\ UNCHANGED buffers
                                 /\ h \in Tasks /\ At(h, "endPoints")
      BY <1>10, EndPointsDoes, TaskIds, TaskFields, PointsSet
    <2>2. /\ \A i \in SessionIds :
                rows'[i].points = IF i = k THEN task[h].points ELSE rows[i].points
      BY <1>10, <2>1, EndPointsDoes, TaskFields, PointsSet
    <2>3. ASSUME NEW i \in SessionIds, i # k
          PROVE  Entry(i)' = Entry(i)
      <3>1. \/ i \in DOMAIN buffers \cap DOMAIN buffers' /\ buffers'[i] = buffers[i]
            \/ i \notin DOMAIN buffers \cup DOMAIN buffers' /\ rows'[i].points = rows[i].points
        BY <2>3, <2>1, <2>2
      <3>2. PICK pc, to, points, noted, active, list :
                Moves(h, Record(pc, to, points, noted, active, list)) /\ to \in {0, k}
        BY <1>10, <2>1, EndPointsDoes
      <3>3. i # 0 /\ i \in SessionIds'
        BY <2>1, <2>3, TaskIds
      <3>4. Id(h) = i => task[h].pc \notin KeyPcs
        BY <2>1, <2>3 DEF At, KeyPcs
      <3>5. to = i => pc \notin KeyPcs
        BY <2>3, <3>2, <3>3
      <3> QED BY <1>0, <2>1, <3>1, <3>2, <3>3, <3>4, <3>5, OthersSame
    <2>4. k \notin DOMAIN buffers
      BY <2>1, BufferFields DEF PlaceInv, Ending, At
    <2>5. h \in Closing(k) /\ PointsOf(k) = task[h].points
      BY <1>0, <2>1, <2>4 DEF WherePoints, Closing, At
    <2>6. /\ task'[h].pc \notin KeyPcs
          /\ \A u \in Tasks : u # h => task'[u] = task[u]
      <3>1. PICK pc, to, points, noted, active, list :
                Moves(h, Record(pc, to, points, noted, active, list)) /\ pc \in {"idle", "endActive"}
        BY <1>10, EndPointsDoes
      <3> QED BY <2>1, <3>1, MovedFields DEF KeyPcs
    <2>7. Closing(k)' = {}
      <3> SUFFICES ASSUME NEW u \in Closing(k)'
                   PROVE  FALSE
        OBVIOUS
      <3>1. u \in Tasks /\ u # h /\ task'[u] = task[u]
        BY <2>6 DEF Closing, KeyPcs
      <3>2. u \in Closing(k)
        BY <3>1 DEF Closing, Id
      <3> QED BY <2>5, <3>1, <3>2, ClosingOne
    <2>8. Opening(k)' = Opening(k)
      <3>1. h \notin Opening(k) /\ h \notin Opening(k)'
        BY <2>1, <2>6 DEF Opening, At, KeyPcs
      <3>2. \A u \in Handlers : u # h => (u \in Opening(k) <=> u \in Opening(k)')
        BY <2>6, TaskIds DEF Opening, At, Id
      <3>3. Opening(k) \subseteq Handlers /\ Opening(k)' \subseteq Handlers
        BY DEF Opening
      <3> QED BY <3>1, <3>2, <3>3
    <2>9. PointsOf(k)' = PointsOf(k)
      BY <1>0, <2>1, <2>2, <2>4, <2>5, <2>7 DEF WherePoints
    <2>10. Live(k)' = Live(k)
      BY <1>0, <2>1, <2>8 DEF Live, Held
    <2>11. Entry(k)' = Entry(k)
      BY <2>9, <2>10 DEF Entry
    <2> QED BY <2>1, <2>3, <2>11, AllSame DEF StoreStep
  <1>11. ASSUME NEW h \in Handlers, EndActive(h)
        PROVE  StoreStep
    <2>1. PICK pc, k, points, noted, active, list :
                Moves(h, Record(pc, k, points, noted, active, list)) /\ pc \notin KeyPcs
      <3>1. PICK points, noted, active, list :
                Moves(h, Record("idle", 0, points, noted, active, list))
        BY <1>11, EndActiveDoes
      <3> QED BY <3>1 DEF KeyPcs
    <2>2. h \in Tasks /\ task[h].pc \notin KeyPcs
      BY <1>11, EndActiveDoes, TaskIds DEF At, KeyPcs
    <2>3. /\ SessionIds' = SessionIds /\ UNCHANGED buffers
          /\ \A i \in SessionIds : rows'[i].points = rows[i].points
      BY <1>11, EndActiveDoes, ActiveCleared
    <2> QED BY <1>0, <2>1, <2>2, <2>3, MoveSame
  <1>12. ASSUME NEW h \in Handlers, StartFails(h)
        PROVE  StoreStep
    BY <1>12, StartFailsDoes DEF Fault
  <1>13. ASSUME NEW h \in Handlers, AppendFails(h)
        PROVE  StoreStep
    BY <1>13, AppendFailsDoes DEF Fault
  <1>14. ASSUME NEW h \in Handlers, NEW id \in SessionIds, CloseFails(h, id)
        PROVE  StoreStep
    BY <1>14, CloseFailsDoes DEF Fault
  <1>15. ASSUME NEW r \in Readers, NEW id \in SessionIds, ReadRow(r, id)
        PROVE  StoreStep
    <2>1. PICK pc, k, points, noted, active, list :
                Moves(r, Record(pc, k, points, noted, active, list)) /\ pc \notin KeyPcs
      <3>1. PICK pc, points, noted, active, list :
                Moves(r, Record(pc, id, points, noted, active, list)) /\ pc \in {"readBuffer", "answer"}
        BY <1>15, ReadRowDoes
      <3> QED BY <3>1 DEF KeyPcs
    <2>2. r \in Tasks /\ task[r].pc \notin KeyPcs
      BY <1>15, ReadRowDoes, TaskIds DEF At, KeyPcs
    <2>3. /\ SessionIds' = SessionIds /\ UNCHANGED buffers
          /\ \A i \in SessionIds : rows'[i].points = rows[i].points
      BY <1>15, ReadRowDoes DEF SessionIds
    <2> QED BY <1>0, <2>1, <2>2, <2>3, MoveSame
  <1>16. ASSUME NEW r \in Readers, ReadBuffer(r)
        PROVE  StoreStep
    <2>1. PICK pc, k, points, noted, active, list :
                Moves(r, Record(pc, k, points, noted, active, list)) /\ pc \notin KeyPcs
      BY <1>16, ReadBufferDoes DEF KeyPcs
    <2>2. r \in Tasks /\ task[r].pc \notin KeyPcs
      BY <1>16, ReadBufferDoes, TaskIds DEF At, KeyPcs
    <2>3. /\ SessionIds' = SessionIds /\ UNCHANGED buffers
          /\ \A i \in SessionIds : rows'[i].points = rows[i].points
      BY <1>16, ReadBufferDoes DEF SessionIds
    <2> QED BY <1>0, <2>1, <2>2, <2>3, MoveSame
  <1>17. ASSUME NEW id \in SessionIds, Ends(id)
        PROVE  StoreStep
    BY <1>17, EndsDoes DEF Fault
  <1>18. ASSUME NEW id \in SessionIds, FixTime(id) \/ Combine(id)
        PROVE  StoreStep
    <2>1. PICK pc, k, points, noted, active, list :
                Moves(Cli, Record(pc, k, points, noted, active, list)) /\ pc \notin KeyPcs
      BY <1>18, TakeDoes DEF KeyPcs
    <2>2. Cli \in Tasks /\ task[Cli].pc \notin KeyPcs
      BY <1>18, TakeDoes, TaskIds DEF At, KeyPcs
    <2>3. /\ SessionIds' = SessionIds /\ UNCHANGED buffers
          /\ \A i \in SessionIds : rows'[i].points = rows[i].points
      BY <1>18, TakeDoes DEF SessionIds
    <2> QED BY <1>0, <2>1, <2>2, <2>3, MoveSame
  <1>19. ASSUME NEW id \in SessionIds, CombineWith(id)
        PROVE  StoreStep
    <2>1. PICK pc, k, points, noted, active, list :
                Moves(Cli, Record(pc, k, points, noted, active, list)) /\ pc \notin KeyPcs
      <3>1. PICK points, noted, active, list :
                Moves(Cli, Record("insert", Id(Cli), points, noted, active, list))
        BY <1>19, CombineWithDoes
      <3> QED BY <3>1 DEF KeyPcs
    <2>2. Cli \in Tasks /\ task[Cli].pc \notin KeyPcs
      BY <1>19, CombineWithDoes, TaskIds DEF At, KeyPcs
    <2>3. /\ SessionIds' = SessionIds /\ UNCHANGED buffers
          /\ \A i \in SessionIds : rows'[i].points = rows[i].points
      BY <1>19, CombineWithDoes DEF SessionIds
    <2> QED BY <1>0, <2>1, <2>2, <2>3, MoveSame
  <1>20. ASSUME CopyRow
        PROVE  StoreStep
    <2>1. PICK points, noted, active, list :
                Moves(Cli, Record("copy", Len(rows) + 1, points, noted, active, list))
      BY <1>20, CopyRowDoes
    <2>2. /\ Cli \in Tasks /\ task[Cli].pc \notin KeyPcs /\ InsertRow(task[Cli].active)
          /\ task[Cli].active \in BOOLEAN /\ UNCHANGED buffers
      BY <1>20, CopyRowDoes, TaskIds, TaskFields DEF At, KeyPcs
    <2>3. PICK k : /\ k \notin DOMAIN buffers'
                   /\ \A u \in Tasks : u # Cli => task'[u].id # k
                   /\ ~Live(k)' => Imports
      BY <1>0, <2>1, <2>2, MoveNew
    <2>4. ~Live(k)'
      BY <1>0, <2>3, TaskIds DEF Live, Held, Opening, Id
    <2> QED BY <2>3, <2>4 DEF StoreStep
  <1>21. ASSUME CopyPoints
        PROVE  StoreStep
    <2>1. PICK k \in SessionIds : /\ k = Id(Cli) /\ SessionIds' = SessionIds /\ UNCHANGED buffers
                                 /\ Cli \in Tasks /\ At(Cli, "copy")
      BY <1>21, CopyPointsDoes, TaskIds, TaskFields, PointsSet
    <2>2. /\ \A i \in SessionIds :
                rows'[i].points = IF i = k THEN task[Cli].points ELSE rows[i].points
      BY <1>21, <2>1, CopyPointsDoes, TaskFields, PointsSet
    <2>3. ASSUME NEW i \in SessionIds, i # k
          PROVE  Entry(i)' = Entry(i)
      <3>1. \/ i \in DOMAIN buffers \cap DOMAIN buffers' /\ buffers'[i] = buffers[i]
            \/ i \notin DOMAIN buffers \cup DOMAIN buffers' /\ rows'[i].points = rows[i].points
        BY <2>3, <2>1, <2>2
      <3>2. PICK pc, to, points, noted, active, list :
                Moves(Cli, Record(pc, to, points, noted, active, list)) /\ to \in {0, k}
        BY <1>21, <2>1, CopyPointsDoes
      <3>3. i # 0 /\ i \in SessionIds'
        BY <2>1, <2>3, TaskIds
      <3>4. Id(Cli) = i => task[Cli].pc \notin KeyPcs
        BY <2>1, <2>3 DEF At, KeyPcs
      <3>5. to = i => pc \notin KeyPcs
        BY <2>3, <3>2, <3>3
      <3> QED BY <1>0, <2>1, <3>1, <3>2, <3>3, <3>4, <3>5, OthersSame
    <2>4. k \notin DOMAIN buffers
      BY <2>1, BufferFields DEF PlaceInv, Ending, At
    <2>5. Cli \in Closing(k) /\ PointsOf(k) = task[Cli].points
      BY <1>0, <2>1, <2>4 DEF WherePoints, Closing, At
    <2>6. /\ task'[Cli].pc \notin KeyPcs
          /\ \A u \in Tasks : u # Cli => task'[u] = task[u]
      <3>1. PICK pc, to, points, noted, active, list :
                Moves(Cli, Record(pc, to, points, noted, active, list)) /\ pc \in {"idle", "endActive"}
        BY <1>21, CopyPointsDoes
      <3> QED BY <2>1, <3>1, MovedFields DEF KeyPcs
    <2>7. Closing(k)' = {}
      <3> SUFFICES ASSUME NEW u \in Closing(k)'
                   PROVE  FALSE
        OBVIOUS
      <3>1. u \in Tasks /\ u # Cli /\ task'[u] = task[u]
        BY <2>6 DEF Closing, KeyPcs
      <3>2. u \in Closing(k)
        BY <3>1 DEF Closing, Id
      <3> QED BY <2>5, <3>1, <3>2, ClosingOne
    <2>8. Opening(k)' = Opening(k)
      <3>1. Cli \notin Opening(k) /\ Cli \notin Opening(k)'
        BY <2>1, <2>6 DEF Opening, At, KeyPcs
      <3>2. \A u \in Handlers : u # Cli => (u \in Opening(k) <=> u \in Opening(k)')
        BY <2>6, TaskIds DEF Opening, At, Id
      <3>3. Opening(k) \subseteq Handlers /\ Opening(k)' \subseteq Handlers
        BY DEF Opening
      <3> QED BY <3>1, <3>2, <3>3
    <2>9. PointsOf(k)' = PointsOf(k)
      BY <1>0, <2>1, <2>2, <2>4, <2>5, <2>7 DEF WherePoints
    <2>10. Live(k)' = Live(k)
      BY <1>0, <2>1, <2>8 DEF Live, Held
    <2>11. Entry(k)' = Entry(k)
      BY <2>9, <2>10 DEF Entry
    <2> QED BY <2>1, <2>3, <2>11, AllSame DEF StoreStep
  <1>22. ASSUME AddGpx
        PROVE  StoreStep
    <2>1. PICK points, noted, active, list :
                Moves(Cli, Record("trip", Len(rows) + 1, points, noted, active, list))
      BY <1>22, AddGpxDoes
    <2>2. /\ Cli \in Tasks /\ task[Cli].pc \notin KeyPcs /\ InsertRow(FALSE) /\ UNCHANGED buffers
      BY <1>22, AddGpxDoes, TaskIds DEF At, KeyPcs
    <2>3. PICK k : /\ k \notin DOMAIN buffers'
                   /\ \A u \in Tasks : u # Cli => task'[u].id # k
                   /\ ~Live(k)' => Imports
      BY <1>0, <2>1, <2>2, MoveNew
    <2>4. ~Live(k)'
      BY <1>0, <2>3, TaskIds DEF Live, Held, Opening, Id
    <2> QED BY <2>3, <2>4 DEF StoreStep
  <1>23. ASSUME Crash
        PROVE  StoreStep
    BY <1>23, CrashDoes DEF Fault
  <1>24. ASSUME Returns
        PROVE  StoreStep
    <2>1. PICK t \in Tasks : /\ Moves(t, Record("idle", 0, <<>>, {}, FALSE, {}))
                            /\ task[t].pc \in {"append", "readBuffer", "answer", "second"}
      BY <1>24, QuietReturns
    <2>2. task[t].pc \notin KeyPcs /\ "idle" \notin KeyPcs
      BY <2>1 DEF KeyPcs
    <2>3. /\ SessionIds' = SessionIds /\ UNCHANGED buffers
          /\ \A i \in SessionIds : rows'[i].points = rows[i].points
      BY <1>24, ReturnsDoes DEF SessionIds
    <2> QED BY <1>0, <2>1, <2>2, <2>3, MoveSame
  <1>25. ASSUME UNCHANGED vars
        PROVE  StoreStep
    <2>1. UNCHANGED <<rows, buffers, files, up, task>>
      BY <1>25 DEF vars, tableVars, bufferVars
    <2> QED BY <2>1, SameSessions DEF StoreStep
  <1> QED BY StepCases, <1>1, <1>2, <1>3, <1>4, <1>5, <1>6, <1>7, <1>8, <1>9, <1>10, <1>11, <1>12,
         <1>13, <1>14, <1>15, <1>16, <1>17, <1>18, <1>19, <1>20, <1>21, <1>22, <1>23,
         <1>24, <1>25, Zenon

\* Until it is disturbed the data manager is the abstract store: points are only appended to a
\* session, close_session ends it once, and the row, the buffer, its file and the three steps of
\* end_session do not show.
THEOREM ImplementsStore == Spec => ImplementsTripStore
  <1>1. Init => Abstract!Init
    <2> SUFFICES ASSUME Init
                 PROVE  Abstract!Init
      OBVIOUS
    <2>1. SessionIds = {}
      BY DEF Init, SessionIds
    <2>2. [id \in SessionIds |-> [live |-> id \in DOMAIN Held \/ Opening(id) # {},
                                  points |-> PointsOf(id)]] = <<>>
      BY <2>1
    <2> QED BY <2>2 DEF Init, Abstract!Init
  <1>2. StoreInv /\ StoreInv' /\ [Next]_vars => [Abstract!Next]_(Abstract!vars)
    <2> SUFFICES ASSUME StoreInv, StoreInv', [Next]_vars
                 PROVE  [Abstract!Next]_(Abstract!vars)
      OBVIOUS
    <2>1. /\ disturbed \in BOOLEAN /\ disturbed' \in BOOLEAN
          /\ StoreTypes /\ PlaceInv /\ InactiveInv /\ StoreTypes' /\ PlaceInv'
      BY DEF StoreInv, StoreTypes, TableTypeOK
    <2>2. Sessions = [id \in SessionIds |-> [live |-> id \in DOMAIN Held \/ Opening(id) # {},
                                             points |-> PointsOf(id)]]
      BY DEF Sessions, Entry, Live
    <2>3. CASE disturbed'
      BY <2>1, <2>3 DEF Abstract!Next
    <2>4. CASE ~disturbed'
      <3>1. ~disturbed
        BY <2>1, <2>4, DisturbedStays
      <3>2. AloneInv /\ RowInv /\ BatchInv /\ AloneInv'
        BY <2>4, <3>1 DEF StoreInv, QuietInv
      <3>3. StoreStep
        BY <2>1, <2>4, <3>2, NextSessions
      <3>4. DOMAIN Sessions = SessionIds
        BY <2>2
      <3>5. UNCHANGED disturbed
        BY <2>1, <2>4, <3>1
      <3>6. CASE Sessions' = Sessions
        BY <2>2, <3>5, <3>6 DEF Abstract!vars, Sessions, Entry, Live
      <3>7. CASE Sessions' = Append(Sessions, [live |-> TRUE, points |-> <<>>])
        BY <3>5, <3>7 DEF Abstract!Next, Abstract!Operation, Abstract!Register, Sessions, Entry, Live
      <3>8. CASE Imports
        <4>1. Abstract!Import
          BY <3>8, Zenon DEF Abstract!Import, Abstract!IsPrefix, Abstract!Last, IsPrefix, Last,
                             Imports, Sessions, Entry, Live
        <4> QED BY <3>5, <4>1 DEF Abstract!Next, Abstract!Operation
      <3>9. CASE \E k \in SessionIds : Sessions[k].live /\ Sessions' = [Sessions EXCEPT ![k].live = FALSE]
        BY <3>4, <3>5, <3>9 DEF Abstract!Next, Abstract!Operation, Abstract!End, Sessions, Entry, Live
      <3>10. CASE \E k \in SessionIds, batch \in Batches :
                    Sessions' = [Sessions EXCEPT ![k].points = @ \o batch]
        <4>1. PICK k \in SessionIds, batch \in Batches :
                    Sessions' = [Sessions EXCEPT ![k].points = @ \o batch]
          BY <3>10
        <4>2. Abstract!AppendPoints(k, batch)
          BY <2>2, <3>4, <4>1 DEF Abstract!AppendPoints, Sessions, Entry, Live
        <4>3. k \in DOMAIN Sessions /\ batch \in {<<p>> : p \in Points} \cup {<<p, p + 1>> : p \in Points}
          BY <3>4, <4>1 DEF Batches
        <4> QED BY <3>5, <4>2, <4>3, Zenon DEF Abstract!Next, Abstract!Operation, Sessions, Entry, Live
      <3> QED BY <3>3, <3>6, <3>7, <3>8, <3>9, <3>10 DEF StoreStep
    <2> QED BY <2>3, <2>4
  <1> QED BY <1>1, <1>2, StoreCorrect, PTL DEF Spec, ImplementsTripStore, Abstract!Spec
=============================================================================
