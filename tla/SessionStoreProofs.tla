------------------------- MODULE SessionStoreProofs -------------------------
(***************************************************************************)
(* What each action of SessionStore does, and the parts of StoreInv that   *)
(* hold whatever fails: types, which task is at which session, where the   *)
(* stored points are and what their appends brought, for every number of   *)
(* handlers, readers, sessions, points, faults and commands.               *)
(***************************************************************************)
EXTENDS SessionStoreInv, SequenceTheorems, TLAPS

Pcs == HandlerPcs \cup ReaderPcs \cup CliPcs

-----------------------------------------------------------------------------
\* Sequences of points, and their ranges

LEMMA RangeEmpty == Range(<<>>) = {}
  BY DEF Range

LEMMA RangeSeq ==
    ASSUME NEW S, NEW s \in Seq(S)
    PROVE  Range(s) \subseteq S
  BY RangeOfSeq

LEMMA RangeConcat ==
    ASSUME NEW S, NEW s \in Seq(S), NEW t \in Seq(S)
    PROVE  /\ s \o t \in Seq(S)
           /\ Range(s \o t) = Range(s) \cup Range(t)
  BY RangeConcatenation, ConcatProperties

LEMMA RangeFront ==
    ASSUME NEW S, NEW s \in Seq(S), NEW n \in 0..Len(s)
    PROVE  /\ SubSeq(s, 1, n) \in Seq(S)
           /\ Range(SubSeq(s, 1, n)) \subseteq Range(s)
  <1>1. DOMAIN s = 1..Len(s) /\ Len(s) \in Nat
    BY LenProperties
  <1>2. \A i \in 1..n : s[i] \in S /\ s[i] \in Range(s)
    BY <1>1, ElementOfSeq DEF Range
  <1>3. SubSeq(s, 1, n) \in Seq(S)
    BY <1>1, <1>2, SubSeqProperties
  <1>4. SubSeq(s, 1, n) \in Seq(Range(s))
    BY <1>1, <1>2, SubSeqProperties
  <1> QED BY <1>3, <1>4, RangeSeq

\* A batch is one point or two in a row, and brings none but the points after the last.
LEMMA NewBatch ==
    ASSUME NEW batch \in NewBatches, lastPoint \in 0..MaxPoints
    PROVE  /\ batch \in Batches /\ batch \in Seq(Points)
           /\ Last(batch) \in 0..MaxPoints /\ Last(batch) > lastPoint
           /\ Range(batch) \subseteq (lastPoint + 1)..Last(batch)
  <1> USE StoreAssumption
  <1>1. CASE batch = <<lastPoint + 1>>
    <2>1. Last(batch) = lastPoint + 1 /\ Range(batch) = {lastPoint + 1}
      BY <1>1 DEF Last, Range
    <2>2. lastPoint + 1 \in Points /\ Last(batch) \in 0..MaxPoints
      BY <2>1 DEF Points, NewBatches
    <2>3. batch \in Batches /\ batch \in Seq(Points)
      BY <1>1, <2>2 DEF Batches
    <2> QED BY <2>1, <2>2, <2>3
  <1>2. CASE batch = <<lastPoint + 1, lastPoint + 2>>
    <2>1. Last(batch) = lastPoint + 2 /\ Range(batch) = {lastPoint + 1, lastPoint + 2}
      BY <1>2 DEF Last, Range
    <2>2. lastPoint + 1 \in Points /\ lastPoint + 2 \in Points /\ Last(batch) \in 0..MaxPoints
      BY <2>1 DEF Points, NewBatches
    <2>3. batch \in Batches /\ batch \in Seq(Points)
      BY <1>2, <2>2 DEF Batches
    <2> QED BY <2>1, <2>2, <2>3
  <1> QED BY <1>1, <1>2 DEF NewBatches

LEMMA CountriesType == \A points \in SUBSET Points : CountriesOf(points) \subseteq Range(Country)
  BY StoreAssumption DEF CountriesOf, Range, Points

-----------------------------------------------------------------------------
\* What a step does to the tasks

Record(pc, id, points, noted, active, list) ==
    [pc |-> pc, id |-> id, points |-> points, noted |-> noted, active |-> active, list |-> list]

\* Only t moves.
Moves(t, record) ==
    /\ task' \in [Tasks -> TaskRecords]
    /\ task'[t] = record
    /\ \A u \in Tasks \ {t} : task'[u] = task[u]

LEMMA MovedFields ==
    ASSUME NEW t, NEW pc, NEW id, NEW points, NEW noted, NEW active, NEW list,
           Moves(t, Record(pc, id, points, noted, active, list))
    PROVE  /\ task'[t].pc = pc /\ task'[t].id = id /\ task'[t].points = points
           /\ task'[t].noted = noted /\ task'[t].active = active /\ task'[t].list = list
           /\ \A u \in Tasks : u # t => task'[u] = task[u]
  BY DEF Moves, Record

LEMMA RecordType ==
    ASSUME NEW pc \in Pcs, NEW id \in Nat, NEW points \in Seq(Points), NEW noted \in SUBSET Points,
           NEW active \in BOOLEAN, NEW list \in SUBSET Range(Country)
    PROVE  Record(pc, id, points, noted, active, list) \in TaskRecords
  BY DEF Record, TaskRecords, Pcs

LEMMA TaskFields ==
    ASSUME StoreTypes, NEW t \in Tasks
    PROVE  /\ task[t] \in TaskRecords
           /\ task[t].pc \in Pcs /\ Id(t) \in Nat /\ task[t].points \in Seq(Points)
           /\ task[t].noted \in SUBSET Points /\ task[t].active \in BOOLEAN
           /\ task[t].list \in SUBSET Range(Country)
  BY DEF StoreTypes, TasksTypeOK, TaskRecords, Pcs, Id

\* The idle task with some fields set
WithActive(pc, id, points, active) ==
    [Idle EXCEPT !.pc = pc, !.id = id, !.points = points, !.active = active]
WithNoted(pc, id, points, noted) ==
    [Idle EXCEPT !.pc = pc, !.id = id, !.points = points, !.noted = noted]
WithBoth(pc, id, points, noted, active) ==
    [Idle EXCEPT !.pc = pc, !.id = id, !.active = active, !.noted = noted, !.points = points]

LEMMA IdleWith ==
    ASSUME NEW pc, NEW id, NEW points, NEW noted, NEW active
    PROVE  /\ WithActive(pc, id, points, active) = Record(pc, id, points, {}, active, {})
           /\ WithNoted(pc, id, points, noted) = Record(pc, id, points, noted, FALSE, {})
           /\ WithBoth(pc, id, points, noted, active) = Record(pc, id, points, noted, active, {})
  <1>1. Idle = Record("idle", 0, <<>>, {}, FALSE, {})
    BY DEF Idle, Record
  <1>2. PICK a, b, c, d, e, f : Idle = Record(a, b, c, d, e, f) /\ d = {} /\ e = FALSE /\ f = {}
    BY <1>1
  <1>3. Idle = Record(a, b, c, d, e, f)
    BY <1>2
  <1>4. [Idle EXCEPT !.pc = pc, !.id = id, !.points = points, !.active = active]
            = Record(pc, id, points, d, active, f)
    <2>1. [Record(a, b, c, d, e, f) EXCEPT !.pc = pc] = Record(pc, b, c, d, e, f)
      BY DEF Record
    <2>2. [Record(pc, b, c, d, e, f) EXCEPT !.id = id] = Record(pc, id, c, d, e, f)
      BY DEF Record
    <2>3. [Record(pc, id, c, d, e, f) EXCEPT !.points = points] = Record(pc, id, points, d, e, f)
      BY DEF Record
    <2>4. [Record(pc, id, points, d, e, f) EXCEPT !.active = active] = Record(pc, id, points, d, active, f)
      BY DEF Record
    <2> QED BY <1>3, <2>1, <2>2, <2>3, <2>4
  <1>5. [Idle EXCEPT !.pc = pc, !.id = id, !.points = points, !.noted = noted]
            = Record(pc, id, points, noted, e, f)
    <2>1. [Record(a, b, c, d, e, f) EXCEPT !.pc = pc] = Record(pc, b, c, d, e, f)
      BY DEF Record
    <2>2. [Record(pc, b, c, d, e, f) EXCEPT !.id = id] = Record(pc, id, c, d, e, f)
      BY DEF Record
    <2>3. [Record(pc, id, c, d, e, f) EXCEPT !.points = points] = Record(pc, id, points, d, e, f)
      BY DEF Record
    <2>4. [Record(pc, id, points, d, e, f) EXCEPT !.noted = noted] = Record(pc, id, points, noted, e, f)
      BY DEF Record
    <2> QED BY <1>3, <2>1, <2>2, <2>3, <2>4
  <1>6. [Idle EXCEPT !.pc = pc, !.id = id, !.active = active, !.noted = noted, !.points = points]
            = Record(pc, id, points, noted, active, f)
    <2>1. [Record(a, b, c, d, e, f) EXCEPT !.pc = pc] = Record(pc, b, c, d, e, f)
      BY DEF Record
    <2>2. [Record(pc, b, c, d, e, f) EXCEPT !.id = id] = Record(pc, id, c, d, e, f)
      BY DEF Record
    <2>3. [Record(pc, id, c, d, e, f) EXCEPT !.active = active] = Record(pc, id, c, d, active, f)
      BY DEF Record
    <2>4. [Idle EXCEPT !.pc = pc, !.id = id, !.active = active] = Record(pc, id, c, d, active, f)
      BY <1>3, <2>1, <2>2, <2>3
    <2>5. [Record(pc, id, c, d, active, f) EXCEPT !.noted = noted] = Record(pc, id, c, noted, active, f)
      BY DEF Record
    <2>6. [Record(pc, id, c, noted, active, f) EXCEPT !.points = points] = Record(pc, id, points, noted, active, f)
      BY DEF Record
    <2> QED BY <2>4, <2>5, <2>6
  <1>7. d = {} /\ e = FALSE /\ f = {}
    BY <1>2
  <1> QED BY <1>4, <1>5, <1>6, <1>7, Zenon DEF WithActive, WithNoted, WithBoth

\* A task with its list, or its points, replaced
WithList(t, pc, list) == [[task[t] EXCEPT !.pc = pc] EXCEPT !.list = list]
WithPoints(t, pc, noted, points) ==
    [[[task[t] EXCEPT !.pc = pc] EXCEPT !.noted = noted] EXCEPT !.points = points]

LEMMA TaskWith ==
    ASSUME StoreTypes, NEW t \in Tasks, NEW pc, NEW points, NEW noted, NEW list
    PROVE  /\ WithList(t, pc, list)
                = Record(pc, Id(t), task[t].points, task[t].noted, task[t].active, list)
           /\ WithPoints(t, pc, noted, points)
                = Record(pc, Id(t), points, noted, task[t].active, task[t].list)
  <1> DEFINE first == Record(pc, Id(t), task[t].points, task[t].noted, task[t].active, task[t].list)
             second == Record(pc, Id(t), task[t].points, noted, task[t].active, task[t].list)
  <1>1. [task[t] EXCEPT !.pc = pc] = first
    BY TaskFields DEF TaskRecords, Record, Id
  <1>2. [first EXCEPT !.list = list]
            = Record(pc, Id(t), task[t].points, task[t].noted, task[t].active, list)
    BY DEF Record
  <1>3. [first EXCEPT !.noted = noted] = second
    BY DEF Record
  <1>4. [second EXCEPT !.points = points]
            = Record(pc, Id(t), points, noted, task[t].active, task[t].list)
    BY DEF Record
  <1> QED BY <1>1, <1>2, <1>3, <1>4 DEF WithList, WithPoints

LEMMA MovesTo ==
    ASSUME StoreTypes, NEW t \in Tasks, NEW record \in TaskRecords,
           task' = [task EXCEPT ![t] = record]
    PROVE  Moves(t, record)
  BY DEF StoreTypes, TasksTypeOK, Moves

LEMMA GoToMoves ==
    ASSUME StoreTypes, NEW t \in Tasks,
           NEW pc \in Pcs, NEW id \in Nat, NEW points \in Seq(Points), GoTo(t, pc, id, points)
    PROVE  Moves(t, Record(pc, id, points, task[t].noted, task[t].active, task[t].list))
  <1> DEFINE record == Record(pc, id, points, task[t].noted, task[t].active, task[t].list)
  <1>1. record \in TaskRecords
    BY TaskFields, RecordType
  <1>2. [task[t] EXCEPT !.pc = pc, !.id = id, !.points = points] = record
    <2> DEFINE first == Record(pc, Id(t), task[t].points, task[t].noted, task[t].active, task[t].list)
               second == Record(pc, id, task[t].points, task[t].noted, task[t].active, task[t].list)
    <2>1. [task[t] EXCEPT !.pc = pc] = first
      BY TaskFields DEF TaskRecords, Record, Id
    <2>2. [first EXCEPT !.id = id] = second
      BY DEF Record
    <2>3. [second EXCEPT !.points = points] = record
      BY DEF Record
    <2> QED BY <2>1, <2>2, <2>3
  <1>3. task' = [task EXCEPT ![t] = record]
    BY <1>2 DEF GoTo
  <1> QED BY <1>1, <1>3, MovesTo

LEMMA StepMoves ==
    ASSUME StoreTypes, NEW t \in Tasks, NEW pc \in Pcs, Step(t, pc)
    PROVE  Moves(t, Record(pc, Id(t), task[t].points, task[t].noted, task[t].active, task[t].list))
  <1> DEFINE record == Record(pc, Id(t), task[t].points, task[t].noted, task[t].active, task[t].list)
  <1>1. record \in TaskRecords
    BY TaskFields, RecordType
  <1>2. [task[t] EXCEPT !.pc = pc] = record
    BY TaskFields DEF TaskRecords, Record, Id
  <1>3. task' = [task EXCEPT ![t] = record]
    BY <1>2 DEF Step
  <1> QED BY <1>1, <1>3, MovesTo

LEMMA ReturnMoves ==
    ASSUME StoreTypes, NEW t \in Tasks, Return(t)
    PROVE  Moves(t, Record("idle", 0, <<>>, {}, FALSE, {}))
  <1>1. Record("idle", 0, <<>>, {}, FALSE, {}) \in TaskRecords
    <2>1. "idle" \in Pcs /\ <<>> \in Seq(Points) /\ {} \in SUBSET Points
          /\ {} \in SUBSET Range(Country)
      BY EmptySeq DEF Pcs, HandlerPcs
    <2> QED BY <2>1, RecordType
  <1>2. Idle = Record("idle", 0, <<>>, {}, FALSE, {})
    BY DEF Idle, Record
  <1> QED BY <1>1, <1>2, MovesTo DEF Return

\* What keeps the types of the tasks when one of them moves
LEMMA MovedTypes ==
    ASSUME StoreTypes, NEW t \in Tasks, NEW pc, NEW id, NEW points, NEW noted, NEW active, NEW list,
           Moves(t, Record(pc, id, points, noted, active, list)),
           SessionIds \subseteq SessionIds', id \in {0} \cup SessionIds', pc = "idle" <=> id = 0,
           t \in Handlers => pc \in HandlerPcs, t \in Readers => pc \in ReaderPcs,
           t = Cli => pc \in CliPcs
    PROVE  TasksTypeOK'
  <1>1. task'[t].pc = pc /\ task'[t].id = id
    BY DEF Moves, Record
  <1> QED BY <1>1 DEF StoreTypes, TasksTypeOK, Moves, At, Id, Tasks

-----------------------------------------------------------------------------
\* What a step does to the table

LEMMA Ids ==
    ASSUME StoreTypes
    PROVE  /\ Len(rows) \in Nat /\ SessionIds = 1..Len(rows) /\ SessionIds = 1..Len(stored)
           /\ DOMAIN stored = SessionIds
           /\ \A id \in SessionIds : /\ id \in Nat \ {0} /\ rows[id] \in Rows
                                     /\ rows[id].active \in BOOLEAN /\ rows[id].points \in Seq(Points)
                                     /\ stored[id] \in SUBSET Points
  <1>1. rows \in Seq(Rows) /\ stored \in Seq(SUBSET Points) /\ Len(stored) = Len(rows)
    BY DEF StoreTypes, TableTypeOK
  <1>2. /\ Len(rows) \in Nat /\ SessionIds = 1..Len(rows) /\ SessionIds = 1..Len(stored)
        /\ DOMAIN stored = SessionIds
    BY <1>1, LenProperties DEF SessionIds
  <1>3. \A id \in SessionIds : rows[id] \in Rows /\ stored[id] \in SUBSET Points
    BY <1>1, <1>2, ElementOfSeq
  <1> QED BY <1>2, <1>3 DEF Rows

LEMMA PointsSet ==
    ASSUME StoreTypes, NEW id \in SessionIds, NEW points \in Seq(Points), SetPoints(id, points)
    PROVE  /\ rows' \in Seq(Rows) /\ Len(rows') = Len(rows) /\ SessionIds' = SessionIds
           /\ \A i \in SessionIds :
                /\ rows'[i].active = rows[i].active
                /\ rows'[i].points = IF i = id THEN points ELSE rows[i].points
  <1> DEFINE row == [active |-> rows[id].active, points |-> points]
  <1>1. rows \in Seq(Rows) /\ row \in Rows /\ id \in 1..Len(rows)
    BY Ids DEF StoreTypes, TableTypeOK, Rows
  <1>2. rows[id] = [active |-> rows[id].active, points |-> rows[id].points]
    BY Ids DEF Rows
  <1>3. [rows[id] EXCEPT !.points = points] = row
    BY <1>2
  <1>4. rows' = [rows EXCEPT ![id] = row]
    BY <1>3 DEF SetPoints
  <1> HIDE DEF row
  <1>5. /\ rows' \in Seq(Rows) /\ Len(rows') = Len(rows)
        /\ \A i \in 1..Len(rows) : rows'[i] = IF i = id THEN row ELSE rows[i]
    BY <1>1, <1>4, ExceptSeq
  <1>6. SessionIds' = SessionIds
    BY <1>5, Ids, LenProperties DEF SessionIds
  <1> QED BY <1>5, <1>6, Ids DEF row

ClearActive(id) == rows' = [rows EXCEPT ![id].active = FALSE]

LEMMA ActiveCleared ==
    ASSUME StoreTypes, NEW id \in SessionIds, ClearActive(id)
    PROVE  /\ rows' \in Seq(Rows) /\ Len(rows') = Len(rows) /\ SessionIds' = SessionIds
           /\ \A i \in SessionIds :
                /\ rows'[i].active = IF i = id THEN FALSE ELSE rows[i].active
                /\ rows'[i].points = rows[i].points
  <1> DEFINE row == [active |-> FALSE, points |-> rows[id].points]
  <1>1. rows \in Seq(Rows) /\ row \in Rows /\ id \in 1..Len(rows)
    BY Ids DEF StoreTypes, TableTypeOK, Rows
  <1>2. rows[id] = [active |-> rows[id].active, points |-> rows[id].points]
    BY Ids DEF Rows
  <1>3. [rows[id] EXCEPT !.active = FALSE] = row
    <2>1. \A old, new, points : [[active |-> old, points |-> points] EXCEPT !.active = new]
                                = [active |-> new, points |-> points]
      OBVIOUS
    <2>2. PICK old : rows[id] = [active |-> old, points |-> rows[id].points]
      BY <1>2
    <2>3. [rows[id] EXCEPT !.active = FALSE]
            = [[active |-> old, points |-> rows[id].points] EXCEPT !.active = FALSE]
      BY <2>2, Zenon
    <2>4. [[active |-> old, points |-> rows[id].points] EXCEPT !.active = FALSE] = row
      BY <2>1, Zenon
    <2> QED BY <2>3, <2>4, Zenon
  <1>4. rows' = [rows EXCEPT ![id] = row]
    BY <1>3 DEF ClearActive
  <1> HIDE DEF row
  <1>5. /\ rows' \in Seq(Rows) /\ Len(rows') = Len(rows)
        /\ \A i \in 1..Len(rows) : rows'[i] = IF i = id THEN row ELSE rows[i]
    BY <1>1, <1>4, ExceptSeq
  <1>6. SessionIds' = SessionIds
    BY <1>5, Ids, LenProperties DEF SessionIds
  <1>7. row.active = FALSE /\ row.points = rows[id].points
    BY DEF row
  <1>8. \A i \in SessionIds : rows'[i] = IF i = id THEN row ELSE rows[i]
    BY <1>5, Ids
  <1> QED BY <1>5, <1>6, <1>7, <1>8

LEMMA RowInserted ==
    ASSUME StoreTypes, NEW active \in BOOLEAN, InsertRow(active)
    PROVE  /\ rows' \in Seq(Rows) /\ SessionIds' = SessionIds \cup {Len(rows) + 1}
           /\ Len(rows) + 1 \notin SessionIds /\ Len(rows) + 1 \in Nat \ {0}
           /\ \A i \in SessionIds : rows'[i] = rows[i] /\ stored'[i] = stored[i]
           /\ rows'[Len(rows) + 1] = [active |-> active, points |-> <<>>]
           /\ rows'[Len(rows) + 1].active = active /\ rows'[Len(rows) + 1].points = <<>>
           /\ stored' \in Seq(SUBSET Points) /\ Len(stored') = Len(rows')
           /\ stored'[Len(rows) + 1] = {}
  <1> DEFINE row == [active |-> active, points |-> <<>>]
  <1>1. rows \in Seq(Rows) /\ stored \in Seq(SUBSET Points) /\ Len(stored) = Len(rows)
    BY DEF StoreTypes, TableTypeOK
  <1>2. row \in Rows /\ {} \in SUBSET Points
    BY EmptySeq DEF Rows
  <1>3. rows' = Append(rows, row) /\ stored' = Append(stored, {})
    BY DEF InsertRow
  <1> HIDE DEF row
  <1>4. /\ rows' \in Seq(Rows) /\ Len(rows') = Len(rows) + 1 /\ rows'[Len(rows) + 1] = row
        /\ \A i \in 1..Len(rows) : rows'[i] = rows[i]
    BY <1>1, <1>2, <1>3, AppendProperties
  <1>5. /\ stored' \in Seq(SUBSET Points) /\ Len(stored') = Len(rows) + 1
        /\ stored'[Len(rows) + 1] = {} /\ \A i \in 1..Len(rows) : stored'[i] = stored[i]
    BY <1>1, <1>2, <1>3, AppendProperties
  <1>6. SessionIds' = 1..(Len(rows) + 1)
    BY <1>4, LenProperties DEF SessionIds
  <1>7. row.active = active /\ row.points = <<>>
    BY DEF row
  <1>8. row = [active |-> active, points |-> <<>>]
    BY DEF row
  <1> QED BY <1>4, <1>5, <1>6, <1>7, <1>8, Ids

LEMMA StoredAdded ==
    ASSUME StoreTypes, NEW h \in Tasks, Id(h) \in SessionIds, NEW points \in SUBSET Points,
           AddStored(h, points)
    PROVE  /\ stored' \in Seq(SUBSET Points) /\ Len(stored') = Len(stored)
           /\ \A i \in SessionIds :
                stored'[i] = IF i = Id(h) THEN stored[i] \cup points ELSE stored[i]
  <1> DEFINE all == stored[Id(h)] \cup points
  <1>1. stored \in Seq(SUBSET Points) /\ all \in SUBSET Points /\ Id(h) \in 1..Len(stored)
    BY Ids DEF StoreTypes, TableTypeOK
  <1>2. stored' = [stored EXCEPT ![Id(h)] = all]
    BY DEF AddStored
  <1> HIDE DEF all
  <1>3. /\ stored' \in Seq(SUBSET Points) /\ Len(stored') = Len(stored)
        /\ \A i \in 1..Len(stored) : stored'[i] = IF i = Id(h) THEN all ELSE stored[i]
    BY <1>1, <1>2, ExceptSeq
  <1> QED BY <1>3, Ids DEF all

-----------------------------------------------------------------------------
\* What a step does to the buffers and the files

\* The entry of k made longer, and a map without it
Longer(map, k, points) == [map EXCEPT ![k] = @ \o points]
Without(map, k) == Restrict(map, DOMAIN map \ {k})

Maps == UNION {[ids -> Seq(Points)] : ids \in SUBSET Nat}

LEMMA MapFields ==
    /\ \A map \in Maps : map \in [DOMAIN map -> Seq(Points)] /\ DOMAIN map \in SUBSET Nat
    /\ \A ids \in SUBSET Nat : \A map \in [ids -> Seq(Points)] : map \in Maps
  BY DEF Maps

LEMMA EntryNew ==
    ASSUME NEW map \in Maps, NEW k \in Nat
    PROVE  /\ WithNew(map, k) \in Maps /\ DOMAIN WithNew(map, k) = DOMAIN map \cup {k}
           /\ WithNew(map, k)[k] = <<>> /\ \A i \in DOMAIN map \ {k} : WithNew(map, k)[i] = map[i]
  <1>1. map \in [DOMAIN map -> Seq(Points)] /\ DOMAIN map \cup {k} \in SUBSET Nat
        /\ <<>> \in Seq(Points)
    BY MapFields, EmptySeq
  <1>2. WithNew(map, k) \in [DOMAIN map \cup {k} -> Seq(Points)]
    BY <1>1 DEF WithNew
  <1>3. WithNew(map, k) \in Maps
    BY <1>1, <1>2, MapFields
  <1> QED BY <1>3 DEF WithNew

LEMMA EntryLonger ==
    ASSUME NEW map \in Maps, NEW k \in DOMAIN map, NEW points \in Seq(Points)
    PROVE  /\ Longer(map, k, points) \in Maps /\ DOMAIN Longer(map, k, points) = DOMAIN map
           /\ Longer(map, k, points)[k] = map[k] \o points
           /\ \A i \in DOMAIN map \ {k} : Longer(map, k, points)[i] = map[i]
           /\ Range(Longer(map, k, points)[k]) = Range(map[k]) \cup Range(points)
  <1>1. map \in [DOMAIN map -> Seq(Points)] /\ DOMAIN map \in SUBSET Nat
    BY MapFields
  <1>2. map[k] \o points \in Seq(Points) /\ Range(map[k] \o points) = Range(map[k]) \cup Range(points)
    BY <1>1, RangeConcat
  <1>3. Longer(map, k, points) \in [DOMAIN map -> Seq(Points)]
    BY <1>1, <1>2 DEF Longer
  <1>4. Longer(map, k, points) \in Maps
    BY <1>1, <1>3, MapFields
  <1> QED BY <1>1, <1>2, <1>4 DEF Longer

LEMMA EntryDropped ==
    ASSUME NEW map \in Maps, NEW k
    PROVE  /\ Without(map, k) \in Maps /\ DOMAIN Without(map, k) = DOMAIN map \ {k}
           /\ \A i \in DOMAIN map \ {k} : Without(map, k)[i] = map[i]
  <1>1. map \in [DOMAIN map -> Seq(Points)] /\ DOMAIN map \ {k} \in SUBSET Nat
    BY MapFields
  <1>2. Without(map, k) \in [DOMAIN map \ {k} -> Seq(Points)]
    BY <1>1 DEF Without, Restrict
  <1>3. Without(map, k) \in Maps
    BY <1>1, <1>2, MapFields
  <1> QED BY <1>3 DEF Without, Restrict

LEMMA BufferFields ==
    ASSUME StoreTypes
    PROVE  /\ buffers \in Maps /\ files \in Maps
           /\ DOMAIN buffers \subseteq DOMAIN files /\ DOMAIN files \subseteq SessionIds
           /\ \A id \in DOMAIN buffers : buffers[id] \in Seq(Points) /\ id \in SessionIds
           /\ \A id \in DOMAIN files : files[id] \in Seq(Points) /\ id \in SessionIds
           /\ torn \subseteq DOMAIN files /\ up \in BOOLEAN /\ (up \/ (torn # {} /\ buffers = <<>>))
           /\ <<>> \in Seq(Points) /\ Range(<<>>) = {}
  BY EmptySeq, RangeEmpty, Ids DEF StoreTypes, BufferTypeOK, Maps

LEMMA BuffersTyped ==
    ASSUME buffers' \in Maps, files' \in Maps, DOMAIN buffers' \subseteq DOMAIN files',
           DOMAIN files' \subseteq SessionIds', torn' \subseteq DOMAIN files',
           up' \in BOOLEAN, up' \/ (torn' # {} /\ buffers' = <<>>)
    PROVE  BufferTypeOK'
  BY MapFields DEF BufferTypeOK

-----------------------------------------------------------------------------
\* What each action does

LEMMA TaskIds ==
    ASSUME StoreTypes
    PROVE  /\ Handlers \subseteq Tasks /\ Readers \subseteq Tasks /\ Cli \in Tasks
           /\ Cli \notin Handlers \cup Readers /\ Handlers \cap Readers = {}
           /\ \A t \in Tasks : ~At(t, "idle") => Id(t) \in SessionIds
           /\ \A t \in Tasks : At(t, "idle") => Id(t) = 0
           /\ 0 \notin SessionIds /\ known \subseteq SessionIds
  BY StoreAssumption, Ids DEF StoreTypes, TasksTypeOK, TableTypeOK, Tasks

LEMMA RegisterRowDoes ==
    ASSUME StoreTypes, NEW h \in Handlers, RegisterRow(h)
    PROVE  /\ Moves(h, Record("start", Len(rows) + 1, <<>>, task[h].noted, task[h].active, task[h].list))
           /\ InsertRow(TRUE) /\ At(h, "idle") /\ up
           /\ UNCHANGED <<known, countries, buffers, files, torn, up, lastPoint, faults, commands,
                          disturbed, overlapped>>
  <1>1. Len(rows) + 1 \in Nat /\ <<>> \in Seq(Points) /\ "start" \in Pcs /\ h \in Tasks
    BY Ids, BufferFields, TaskIds DEF Pcs, HandlerPcs
  <1> QED BY <1>1, GoToMoves DEF RegisterRow, bufferVars, boundVars

LEMMA StartBufferDoes ==
    ASSUME StoreTypes, NEW h \in Handlers, StartBuffer(h)
    PROVE  /\ Moves(h, Record("idle", 0, <<>>, {}, FALSE, {})) /\ At(h, "start")
           /\ buffers' = WithNew(buffers, Id(h)) /\ files' = WithNew(files, Id(h))
           /\ known' = known \cup {Id(h)}
           /\ UNCHANGED <<rows, countries, stored, torn, up, lastPoint, faults, commands,
                          disturbed, overlapped>>
  BY TaskIds, ReturnMoves DEF StartBuffer, NewFile, tableVars, boundVars, ghostVars

LEMMA AppendLookupDoes ==
    ASSUME StoreTypes, NEW h \in Handlers, NEW id \in SessionIds, AppendLookup(h, id)
    PROVE  /\ up /\ At(h, "idle") /\ id \in known
           /\ disturbed' = (disturbed \/ \E other \in Handlers : Id(other) = id)
           /\ \E batch \in NewBatches :
                /\ Moves(h, Record("trip", id, batch, {}, rows[id].active, {}))
                /\ lastPoint' = Last(batch)
           /\ UNCHANGED <<rows, countries, stored, known, buffers, files, torn, up, faults, commands,
                          overlapped>>
  <1>1. PICK batch \in NewBatches :
            /\ task' = [task EXCEPT ![h] = [Idle EXCEPT !.pc = "trip", !.id = id,
                            !.points = batch, !.active = rows[id].active]]
            /\ lastPoint' = Last(batch)
    BY DEF AppendLookup, Arrive
  <1>2. WithActive("trip", id, batch, rows[id].active)
            = Record("trip", id, batch, {}, rows[id].active, {})
    BY IdleWith, Zenon
  <1>3. Record("trip", id, batch, {}, rows[id].active, {}) \in TaskRecords
    <2>1. "trip" \in Pcs /\ id \in Nat /\ rows[id].active \in BOOLEAN
      BY Ids DEF Pcs, HandlerPcs
    <2>2. batch \in Seq(Points)
      BY NewBatch DEF StoreTypes, TableTypeOK
    <2> QED BY <2>1, <2>2, RecordType
  <1>4. Moves(h, Record("trip", id, batch, {}, rows[id].active, {}))
    BY <1>1, <1>2, <1>3, MovesTo, TaskIds, Zenon DEF WithActive
  <1> QED BY <1>1, <1>4 DEF AppendLookup, Enter, tableVars, bufferVars

LEMMA ReadTripDoes ==
    ASSUME StoreTypes, NEW t \in Handlers \cup {Cli}, ReadTrip(t)
    PROVE  /\ At(t, "trip")
           /\ \/ /\ CountriesOf(Range(task[t].points)) \subseteq countries
                 /\ Moves(t, Record(Destination(t), Id(t), task[t].points, task[t].noted,
                                    task[t].active, task[t].list))
              \/ Moves(t, Record("countries", Id(t), task[t].points, task[t].noted, task[t].active,
                                 countries \cup CountriesOf(Range(task[t].points))))
           /\ UNCHANGED <<rows, countries, stored, known, buffers, files, torn, up, lastPoint, faults,
                          commands, disturbed, overlapped>>
  <1> DEFINE brought == CountriesOf(Range(task[t].points))
             list == countries \cup brought
             record == Record("countries", Id(t), task[t].points, task[t].noted, task[t].active, list)
  <1>1. At(t, "trip") /\ t \in Tasks
        /\ UNCHANGED <<rows, countries, stored, known, buffers, files, torn, up, lastPoint, faults,
                       commands, disturbed, overlapped>>
    BY TaskIds DEF ReadTrip, tableVars, bufferVars, boundVars, ghostVars
  <1>2. CASE brought \ countries = {}
    <2>1. Step(t, Destination(t)) /\ brought \subseteq countries
      BY <1>2 DEF ReadTrip
    <2>2. Destination(t) \in Pcs
      BY DEF Destination, Pcs, HandlerPcs
    <2> QED BY <1>1, <2>1, <2>2, StepMoves
  <1>3. CASE brought \ countries # {}
    <2>1. brought \subseteq Range(Country)
      BY CountriesType, TaskFields, <1>1, RangeSeq
    <2>2. list \subseteq Range(Country)
      BY <2>1 DEF StoreTypes, TableTypeOK
    <2>3. record \in TaskRecords
      BY <1>1, <2>2, TaskFields, RecordType DEF Pcs, HandlerPcs
    <2>4. list = countries \cup (brought \ countries)
      OBVIOUS
    <2>5. task' = [task EXCEPT ![t] = [[task[t] EXCEPT !.pc = "countries"]
                                        EXCEPT !.list = countries \cup (brought \ countries)]]
      BY <1>3 DEF ReadTrip
    <2> HIDE DEF brought, list
    <2>6. WithList(t, "countries", list) = record
      BY <1>1, TaskWith, Zenon
    <2>7. task' = [task EXCEPT ![t] = record]
      BY <2>4, <2>5, <2>6, Zenon DEF WithList
    <2>8. Moves(t, record)
      BY <1>1, <2>3, <2>7, MovesTo
    <2> QED BY <1>1, <2>8 DEF brought, list
  <1> QED BY <1>2, <1>3

LEMMA ReadTripGoes ==
    ASSUME StoreTypes, NEW t \in Handlers \cup {Cli}, ReadTrip(t)
    PROVE  \E pc, list :
                /\ pc \in {"countries", Destination(t)}
                /\ Moves(t, Record(pc, Id(t), task[t].points, task[t].noted, task[t].active, list))
  <1> DEFINE Goes(pc, list) ==
                Moves(t, Record(pc, Id(t), task[t].points, task[t].noted, task[t].active, list))
  <1>1. \/ Goes(Destination(t), task[t].list)
        \/ Goes("countries", countries \cup CountriesOf(Range(task[t].points)))
    BY ReadTripDoes, Zenon
  <1> HIDE DEF Goes
  <1>2. \E pc, list : pc \in {"countries", Destination(t)} /\ Goes(pc, list)
    BY <1>1
  <1> QED BY <1>2, Zenon DEF Goes

LEMMA WriteCountriesDoes ==
    ASSUME StoreTypes, NEW t \in Handlers \cup {Cli}, WriteCountries(t)
    PROVE  /\ At(t, "countries") /\ countries' = task[t].list
           /\ overlapped' = (overlapped \/ \E other \in Tasks \ {t} : At(other, "countries"))
           /\ Moves(t, Record(Destination(t), Id(t), task[t].points, task[t].noted,
                              task[t].active, {}))
           /\ UNCHANGED <<rows, stored, known, buffers, files, torn, up, lastPoint, faults, commands,
                          disturbed>>
  <1> DEFINE record == Record(Destination(t), Id(t), task[t].points, task[t].noted, task[t].active, {})
  <1>1. t \in Tasks /\ Destination(t) \in Pcs
    BY TaskIds DEF Destination, Pcs, HandlerPcs
  <1>2. WithList(t, Destination(t), {}) = record
    BY <1>1, TaskWith, Zenon
  <1>3. record \in TaskRecords
    BY <1>1, TaskFields, RecordType
  <1>4. task' = [task EXCEPT ![t] = WithList(t, Destination(t), {})]
    BY Zenon DEF WriteCountries, SetCountries, WithList
  <1>5. Moves(t, record)
    BY <1>1, <1>2, <1>3, <1>4, MovesTo, Zenon
  <1> QED BY <1>5 DEF WriteCountries, SetCountries, bufferVars, boundVars

LEMMA AppendBufferDoes ==
    ASSUME StoreTypes, NEW h \in Handlers, AppendBuffer(h)
    PROVE  /\ At(h, "append") /\ Id(h) \in DOMAIN buffers
           /\ buffers' = Longer(buffers, Id(h), task[h].points)
           /\ files' = Longer(files, Id(h), task[h].points)
           /\ AddStored(h, Range(task[h].points))
           /\ Moves(h, Record("idle", 0, <<>>, {}, FALSE, {}))
           /\ UNCHANGED <<rows, countries, known, torn, up, lastPoint, faults, commands,
                          disturbed, overlapped>>
  BY TaskIds, ReturnMoves DEF AppendBuffer, AddToBuffer, AddToFile, Longer, tableVars, boundVars

LEMMA AppendNoBufferDoes ==
    ASSUME StoreTypes, NEW h \in Handlers, AppendNoBuffer(h)
    PROVE  /\ At(h, "append") /\ Id(h) \notin DOMAIN buffers
           /\ Moves(h, Record("idle", 0, <<>>, {}, FALSE, {}))
           /\ UNCHANGED <<rows, countries, stored, known, buffers, files, torn, up, lastPoint, faults,
                          commands, disturbed, overlapped>>
  BY TaskIds, ReturnMoves DEF AppendNoBuffer, tableVars, bufferVars, boundVars, ghostVars

LEMMA DbReadDoes ==
    ASSUME StoreTypes, NEW t \in Handlers \cup {Cli}, DbRead(t)
    PROVE  /\ At(t, "dbRead") /\ Id(t) \in SessionIds
           /\ Moves(t, Record("dbWrite", Id(t), rows[Id(t)].points \o task[t].points,
                              Range(task[t].points), task[t].active, task[t].list))
           /\ UNCHANGED <<rows, countries, stored, known, buffers, files, torn, up, lastPoint, faults,
                          commands, disturbed, overlapped>>
  <1> DEFINE points == rows[Id(t)].points \o task[t].points
             record == Record("dbWrite", Id(t), points, Range(task[t].points), task[t].active,
                              task[t].list)
  <1>1. At(t, "dbRead") /\ t \in Tasks /\ Id(t) \in SessionIds /\ "dbWrite" \in Pcs
    BY TaskIds DEF DbRead, At, Pcs, HandlerPcs
  <1>2. points \in Seq(Points) /\ Range(task[t].points) \in SUBSET Points
    BY <1>1, Ids, TaskFields, RangeConcat, RangeSeq
  <1>3. task' = [task EXCEPT ![t] = WithPoints(t, "dbWrite", Range(task[t].points), points)]
    BY Zenon DEF DbRead, WithPoints
  <1> HIDE DEF points
  <1>4. WithPoints(t, "dbWrite", Range(task[t].points), points) = record
    BY <1>1, TaskWith, Zenon
  <1>5. record \in TaskRecords
    BY <1>1, <1>2, TaskFields, RecordType
  <1>6. Moves(t, record)
    BY <1>1, <1>3, <1>4, <1>5, MovesTo, Zenon
  <1> QED BY <1>1, <1>6 DEF DbRead, points, tableVars, bufferVars, boundVars, ghostVars

LEMMA DbWriteDoes ==
    ASSUME StoreTypes, NEW t \in Handlers \cup {Cli}, DbWrite(t)
    PROVE  /\ At(t, "dbWrite") /\ Id(t) \in SessionIds
           /\ SetPoints(Id(t), task[t].points) /\ AddStored(t, task[t].noted)
           /\ Moves(t, Record("idle", 0, <<>>, {}, FALSE, {}))
           /\ UNCHANGED <<countries, known, buffers, files, torn, up, lastPoint, faults, commands,
                          disturbed, overlapped>>
  BY TaskIds, ReturnMoves DEF DbWrite, DbWriteOf, At, bufferVars, boundVars

LEMMA EndCloseDoes ==
    ASSUME StoreTypes, NEW h \in Handlers, NEW id \in SessionIds, EndClose(h, id)
    PROVE  /\ up /\ At(h, "idle") /\ id \in known /\ id \in DOMAIN buffers
           /\ disturbed' = (disturbed \/ \E other \in Handlers : Id(other) = id)
           /\ Moves(h, Record("endPoints", id, buffers[id], task[h].noted, task[h].active, task[h].list))
           /\ buffers' = Without(buffers, id)
           /\ files' = Without(files, id) /\ torn' = torn \ {id}
           /\ UNCHANGED <<rows, countries, stored, known, up, lastPoint, faults, commands, overlapped>>
  <1>1. id \in Nat /\ "endPoints" \in Pcs /\ h \in Tasks
    BY Ids, TaskIds DEF Pcs, HandlerPcs
  <1>2. id \in DOMAIN buffers /\ GoTo(h, "endPoints", id, buffers[id])
    BY DEF EndClose
  <1>3. buffers[id] \in Seq(Points)
    BY <1>2, BufferFields
  <1> QED BY <1>1, <1>2, <1>3, GoToMoves DEF EndClose, Enter, Without, tableVars, boundVars

LEMMA EndPointsDoes ==
    ASSUME StoreTypes, NEW h \in Handlers, EndPoints(h)
    PROVE  /\ At(h, "endPoints") /\ Id(h) \in SessionIds
           /\ SetPoints(Id(h), task[h].points)
           /\ Moves(h, Record("endActive", Id(h), <<>>, task[h].noted, task[h].active, task[h].list))
           /\ UNCHANGED <<countries, stored, known, buffers, files, torn, up, lastPoint, faults,
                          commands, disturbed, overlapped>>
  <1>1. "endActive" \in Pcs /\ h \in Tasks /\ <<>> \in Seq(Points) /\ Id(h) \in Nat
    BY TaskIds, BufferFields, TaskFields DEF Pcs, HandlerPcs
  <1> QED BY <1>1, TaskIds, GoToMoves DEF EndPoints, At, bufferVars, boundVars, ghostVars

LEMMA EndActiveDoes ==
    ASSUME StoreTypes, NEW h \in Handlers, EndActive(h)
    PROVE  /\ At(h, "endActive") /\ Id(h) \in SessionIds /\ ClearActive(Id(h))
           /\ Moves(h, Record("idle", 0, <<>>, {}, FALSE, {}))
           /\ UNCHANGED <<countries, stored, known, buffers, files, torn, up, lastPoint, faults,
                          commands, disturbed, overlapped>>
  BY TaskIds, ReturnMoves DEF EndActive, At, ClearActive, bufferVars, boundVars, ghostVars

LEMMA ReadRowDoes ==
    ASSUME StoreTypes, NEW r \in Readers, NEW id \in SessionIds, ReadRow(r, id)
    PROVE  /\ \E pc \in {"readBuffer", "answer"} :
                /\ Moves(r, Record(pc, id, rows[id].points, stored[id], FALSE, {}))
                /\ pc = "readBuffer" <=> rows[id].active
           /\ At(r, "idle")
           /\ UNCHANGED <<rows, countries, stored, known, buffers, files, torn, up, lastPoint, faults,
                          commands, disturbed, overlapped>>
  <1> DEFINE next == IF rows[id].active THEN "readBuffer" ELSE "answer"
  <1>1. next \in {"readBuffer", "answer"} /\ (next = "readBuffer" <=> rows[id].active)
    OBVIOUS
  <1>2. ReadOf(r, id, next)
    BY DEF ReadRow
  <1> HIDE DEF next
  <1>3. task' = [task EXCEPT ![r] = WithNoted(next, id, rows[id].points, stored[id])]
    BY <1>2, Zenon DEF ReadOf, WithNoted
  <1>4. WithNoted(next, id, rows[id].points, stored[id])
            = Record(next, id, rows[id].points, stored[id], FALSE, {})
    BY IdleWith, Zenon
  <1>5. Record(next, id, rows[id].points, stored[id], FALSE, {}) \in TaskRecords
    BY <1>1, Ids, RecordType DEF Pcs, ReaderPcs
  <1>6. Moves(r, Record(next, id, rows[id].points, stored[id], FALSE, {}))
    BY <1>3, <1>4, <1>5, MovesTo, TaskIds, Zenon
  <1> QED BY <1>1, <1>2, <1>6 DEF ReadOf, tableVars, bufferVars, boundVars, ghostVars

LEMMA ReadBufferDoes ==
    ASSUME StoreTypes, NEW r \in Readers, ReadBuffer(r)
    PROVE  /\ At(r, "readBuffer") /\ Id(r) \in DOMAIN buffers
           /\ Moves(r, Record("answer", Id(r), buffers[Id(r)], task[r].noted, task[r].active, task[r].list))
           /\ UNCHANGED <<rows, countries, stored, known, buffers, files, torn, up, lastPoint, faults,
                          commands, disturbed, overlapped>>
  <1>1. Id(r) \in DOMAIN buffers /\ r \in Tasks /\ "answer" \in Pcs
    BY TaskIds DEF ReadBuffer, Pcs, ReaderPcs
  <1>2. Id(r) \in Nat /\ buffers[Id(r)] \in Seq(Points)
    BY <1>1, BufferFields, TaskFields
  <1> QED BY <1>1, <1>2, GoToMoves DEF ReadBuffer, tableVars, bufferVars, boundVars, ghostVars

LEMMA ReaderReturns ==
    ASSUME StoreTypes, NEW r \in Readers, ReadNoBuffer(r) \/ Answer(r)
    PROVE  /\ Moves(r, Record("idle", 0, <<>>, {}, FALSE, {}))
           /\ UNCHANGED <<rows, countries, stored, known, buffers, files, torn, up, lastPoint, faults,
                          commands, disturbed, overlapped>>
  BY TaskIds, ReturnMoves DEF ReadNoBuffer, Answer, tableVars, bufferVars, boundVars, ghostVars

LEMMA EndsDoes ==
    ASSUME StoreTypes, NEW id \in SessionIds, Ends(id)
    PROVE  /\ ClearActive(id) /\ commands < MaxCommands /\ commands' = commands + 1 /\ disturbed' = TRUE
           /\ UNCHANGED <<countries, stored, known, buffers, files, torn, up, task, lastPoint, faults,
                          overlapped>>
  BY DEF Ends, Command, ClearActive, bufferVars

LEMMA CliTakesMoves ==
    ASSUME StoreTypes, NEW id \in SessionIds, NEW pc \in Pcs, CliTakes(id, pc)
    PROVE  Moves(Cli, Record(pc, id, rows[id].points, stored[id], rows[id].active, {}))
  <1> DEFINE record == Record(pc, id, rows[id].points, stored[id], rows[id].active, {})
  <1>1. task' = [task EXCEPT ![Cli] = WithBoth(pc, id, rows[id].points, stored[id], rows[id].active)]
    BY Zenon DEF CliTakes, WithBoth
  <1>2. WithBoth(pc, id, rows[id].points, stored[id], rows[id].active) = record
    BY IdleWith, Zenon
  <1>3. record \in TaskRecords
    BY Ids, RecordType
  <1> QED BY <1>1, <1>2, <1>3, MovesTo, TaskIds, Zenon

LEMMA TakeDoes ==
    ASSUME StoreTypes, NEW id \in SessionIds, FixTime(id) \/ Combine(id)
    PROVE  /\ \E pc \in {"insert", "second"} :
                /\ Moves(Cli, Record(pc, id, rows[id].points, stored[id], rows[id].active, {}))
                /\ pc = "second" => ~rows[id].active
           /\ At(Cli, "idle") /\ commands < MaxCommands /\ commands' = commands + 1
           /\ UNCHANGED <<rows, countries, stored, known, buffers, files, torn, up, lastPoint, faults,
                          disturbed, overlapped>>
  <1>1. "insert" \in Pcs /\ "second" \in Pcs
    BY DEF Pcs, CliPcs
  <1>2. CASE FixTime(id)
    <2>1. Moves(Cli, Record("insert", id, rows[id].points, stored[id], rows[id].active, {}))
      BY <1>1, <1>2, CliTakesMoves DEF FixTime
    <2> QED BY <1>2, <2>1 DEF FixTime, Command, tableVars, bufferVars, ghostVars
  <1>3. CASE Combine(id)
    <2>1. Moves(Cli, Record("second", id, rows[id].points, stored[id], rows[id].active, {}))
      BY <1>1, <1>3, CliTakesMoves DEF Combine
    <2> QED BY <1>3, <2>1 DEF Combine, Command, tableVars, bufferVars, ghostVars
  <1> QED BY <1>2, <1>3

LEMMA CombineWithDoes ==
    ASSUME StoreTypes, NEW id \in SessionIds, CombineWith(id)
    PROVE  /\ At(Cli, "second") /\ ~rows[id].active
           /\ \E points \in Seq(Points) :
                /\ Range(points) = Range(task[Cli].points) \cup Range(rows[id].points)
                /\ Moves(Cli, Record("insert", Id(Cli), points, task[Cli].noted \cup stored[id],
                                     task[Cli].active, task[Cli].list))
           /\ UNCHANGED <<rows, countries, stored, known, buffers, files, torn, up, lastPoint, faults,
                          commands, disturbed, overlapped>>
  <1> DEFINE points == IF Id(Cli) < id THEN task[Cli].points \o rows[id].points
                       ELSE rows[id].points \o task[Cli].points
             noted == task[Cli].noted \cup stored[id]
  <1>1. task[Cli].points \in Seq(Points) /\ rows[id].points \in Seq(Points)
        /\ noted \in SUBSET Points /\ Cli \in Tasks /\ "insert" \in Pcs
    BY Ids, TaskIds, TaskFields DEF Pcs, CliPcs
  <1>2. points \in Seq(Points) /\ Range(points) = Range(task[Cli].points) \cup Range(rows[id].points)
    BY <1>1, RangeConcat
  <1>3. task' = [task EXCEPT ![Cli] = WithPoints(Cli, "insert", noted, points)]
    BY DEF CombineWith, WithPoints
  <1> HIDE DEF points, noted
  <1>4. WithPoints(Cli, "insert", noted, points)
            = Record("insert", Id(Cli), points, noted, task[Cli].active, task[Cli].list)
    BY <1>1, TaskWith, Zenon
  <1>5. Record("insert", Id(Cli), points, noted, task[Cli].active, task[Cli].list) \in TaskRecords
    BY <1>1, <1>2, TaskFields, RecordType
  <1>6. Moves(Cli, Record("insert", Id(Cli), points, noted, task[Cli].active, task[Cli].list))
    BY <1>1, <1>3, <1>4, <1>5, MovesTo, Zenon
  <1>7. UNCHANGED <<rows, countries, stored, known, buffers, files, torn, up, lastPoint, faults,
                    commands, disturbed, overlapped>>
    BY DEF CombineWith, tableVars, bufferVars, boundVars, ghostVars
  <1>8. At(Cli, "second") /\ ~rows[id].active
    BY DEF CombineWith
  <1> QED BY <1>2, <1>6, <1>7, <1>8 DEF noted

LEMMA CombinePanicsDoes ==
    ASSUME StoreTypes, NEW id \in SessionIds, CombinePanics(id)
    PROVE  /\ Moves(Cli, Record("idle", 0, <<>>, {}, FALSE, {}))
           /\ UNCHANGED <<rows, countries, stored, known, buffers, files, torn, up, lastPoint, faults,
                          commands, disturbed, overlapped>>
  BY TaskIds, ReturnMoves DEF CombinePanics, tableVars, bufferVars, boundVars, ghostVars

LEMMA CopyRowDoes ==
    ASSUME StoreTypes, CopyRow
    PROVE  /\ At(Cli, "insert") /\ InsertRow(task[Cli].active)
           /\ disturbed' = (disturbed \/ task[Cli].active)
           /\ Moves(Cli, Record("copy", Len(rows) + 1, task[Cli].points, task[Cli].noted,
                                task[Cli].active, task[Cli].list))
           /\ UNCHANGED <<countries, known, buffers, files, torn, up, lastPoint, faults, commands,
                          overlapped>>
  <1>1. Len(rows) + 1 \in Nat /\ Cli \in Tasks /\ "copy" \in Pcs
    BY Ids, TaskIds DEF Pcs, CliPcs
  <1> QED BY <1>1, TaskFields, GoToMoves DEF CopyRow, bufferVars, boundVars

LEMMA CopyPointsDoes ==
    ASSUME StoreTypes, CopyPoints
    PROVE  /\ At(Cli, "copy") /\ Id(Cli) \in SessionIds /\ SetPoints(Id(Cli), task[Cli].points)
           /\ Moves(Cli, Record("idle", 0, <<>>, {}, FALSE, {}))
           /\ UNCHANGED <<countries, stored, known, buffers, files, torn, up, lastPoint, faults,
                          commands, disturbed, overlapped>>
  BY TaskIds, ReturnMoves DEF CopyPoints, At, bufferVars, boundVars, ghostVars

LEMMA AddGpxDoes ==
    ASSUME StoreTypes, AddGpx
    PROVE  /\ At(Cli, "idle") /\ commands < MaxCommands /\ commands' = commands + 1
           /\ InsertRow(FALSE)
           /\ \E batch \in NewBatches :
                /\ Moves(Cli, Record("trip", Len(rows) + 1, batch, {}, FALSE, {}))
                /\ lastPoint' = Last(batch)
           /\ UNCHANGED <<countries, known, buffers, files, torn, up, faults, disturbed, overlapped>>
  <1> DEFINE id == Len(rows) + 1
  <1>1. PICK batch \in NewBatches :
            /\ task' = [task EXCEPT ![Cli] = [Idle EXCEPT !.pc = "trip", !.id = id,
                            !.points = batch, !.active = FALSE]]
            /\ lastPoint' = Last(batch)
    BY DEF AddGpx, Arrive
  <1>2. WithActive("trip", id, batch, FALSE) = Record("trip", id, batch, {}, FALSE, {})
    BY IdleWith, Zenon
  <1>3. Record("trip", id, batch, {}, FALSE, {}) \in TaskRecords
    <2>1. "trip" \in Pcs /\ id \in Nat
      BY Ids DEF Pcs, CliPcs
    <2>2. batch \in Seq(Points)
      BY NewBatch DEF StoreTypes, TableTypeOK
    <2> QED BY <2>1, <2>2, RecordType
  <1> HIDE DEF id
  <1>4. Moves(Cli, Record("trip", id, batch, {}, FALSE, {}))
    BY <1>1, <1>2, <1>3, MovesTo, TaskIds, Zenon DEF WithActive
  <1> QED BY <1>1, <1>4 DEF AddGpx, Command, bufferVars, id

LEMMA QueryFailsDoes ==
    ASSUME StoreTypes, NEW h \in Handlers, QueryFails(h)
    PROVE  /\ Fault /\ ~At(h, "idle")
           /\ Moves(h, Record("idle", 0, <<>>, {}, FALSE, {}))
           /\ UNCHANGED <<rows, countries, stored, known, buffers, files, torn, up, lastPoint, commands,
                          overlapped>>
  BY TaskIds, ReturnMoves DEF QueryFails, At, tableVars, bufferVars

LEMMA StartFailsDoes ==
    ASSUME StoreTypes, NEW h \in Handlers, StartFails(h)
    PROVE  /\ Fault /\ At(h, "start")
           /\ \/ UNCHANGED <<files, torn>>
              \/ files' = WithNew(files, Id(h)) /\ torn' = torn \cup {Id(h)}
           /\ Moves(h, Record("idle", 0, <<>>, {}, FALSE, {}))
           /\ UNCHANGED <<rows, countries, stored, known, buffers, up, lastPoint, commands, overlapped>>
  BY TaskIds, ReturnMoves DEF StartFails, NewFile, tableVars

LEMMA AppendFailsDoes ==
    ASSUME StoreTypes, NEW h \in Handlers, AppendFails(h)
    PROVE  /\ Fault /\ At(h, "append") /\ Id(h) \in DOMAIN buffers
           /\ buffers' = Longer(buffers, Id(h), task[h].points) /\ torn' \in {torn, torn \cup {Id(h)}}
           /\ Moves(h, Record("idle", 0, <<>>, {}, FALSE, {}))
           /\ UNCHANGED <<rows, countries, stored, known, files, up, lastPoint, commands, overlapped>>
  BY TaskIds, ReturnMoves DEF AppendFails, AddToBuffer, Longer, tableVars

LEMMA CloseFailsDoes ==
    ASSUME StoreTypes, NEW h \in Handlers, NEW id \in SessionIds, CloseFails(h, id)
    PROVE  /\ Fault /\ up /\ id \in known /\ id \in DOMAIN buffers
           /\ buffers' = Without(buffers, id)
           /\ UNCHANGED <<rows, countries, stored, known, files, torn, up, task, lastPoint, commands,
                          overlapped>>
  BY DEF CloseFails, Without, tableVars

\* A crash leaves every file as it was, or with what was just being written to it.
LEMMA CrashDoes ==
    ASSUME StoreTypes, PlaceInv, Crash
    PROVE  /\ Fault /\ up
           /\ up' \in BOOLEAN /\ (up' <=> torn' = {})
           /\ up' => buffers' = files'
           /\ ~up' => buffers' = <<>>
           /\ task' \in [Tasks -> TaskRecords] /\ task'[Cli] = task[Cli]
           /\ \A t \in Tasks \ {Cli} : task'[t] = Record("idle", 0, <<>>, {}, FALSE, {})
           /\ torn \subseteq torn' /\ torn' \subseteq DOMAIN files'
           /\ files' \in Maps /\ DOMAIN files \subseteq DOMAIN files'
           /\ \A id \in DOMAIN files' \ DOMAIN files :
                /\ files'[id] = <<>>
                /\ \E h \in Handlers : At(h, "start") /\ Id(h) = id
           /\ \A id \in DOMAIN files :
                /\ Range(files[id]) \subseteq Range(files'[id])
                /\ \/ files'[id] = files[id]
                   \/ \E h \in Handlers :
                        /\ At(h, "append") /\ Id(h) = id
                        /\ Range(files'[id]) \subseteq Range(files[id]) \cup Range(task[h].points)
           /\ UNCHANGED <<rows, countries, stored, known, lastPoint, commands, overlapped>>
  <1>1. /\ Fault /\ up /\ CutWrite /\ up' = (torn' = {})
        /\ buffers' = IF up' THEN files' ELSE <<>>
        /\ task' = [t \in Tasks |-> IF t = Cli THEN task[t] ELSE Idle]
        /\ UNCHANGED <<rows, countries, stored, known, lastPoint, commands, overlapped>>
    BY Zenon DEF Crash, RestartWith, tableVars
  <1>2. Idle = Record("idle", 0, <<>>, {}, FALSE, {}) /\ Idle \in TaskRecords
    <2>1. Idle = Record("idle", 0, <<>>, {}, FALSE, {})
      BY DEF Idle, Record
    <2>2. "idle" \in Pcs /\ <<>> \in Seq(Points)
      BY BufferFields DEF Pcs, HandlerPcs
    <2>3. Record("idle", 0, <<>>, {}, FALSE, {}) \in TaskRecords
      BY <2>2, RecordType
    <2> QED BY <2>1, <2>3
  <1>3. /\ task' \in [Tasks -> TaskRecords] /\ task'[Cli] = task[Cli]
        /\ \A t \in Tasks \ {Cli} : task'[t] = Record("idle", 0, <<>>, {}, FALSE, {})
    BY <1>1, <1>2, TaskIds DEF StoreTypes, TasksTypeOK
  <1>4. torn \subseteq DOMAIN files /\ files \in Maps /\ <<>> \in Seq(Points)
    BY BufferFields DEF StoreTypes, BufferTypeOK
  <1>5. CASE UNCHANGED <<files, torn>>
    BY <1>1, <1>3, <1>4, <1>5
  <1>6. ASSUME NEW h \in Handlers, At(h, "start"), NewFile(Id(h)), torn' \in {torn, torn \cup {Id(h)}}
        PROVE  /\ torn \subseteq torn' /\ torn' \subseteq DOMAIN files'
               /\ files' \in Maps /\ DOMAIN files \subseteq DOMAIN files'
               /\ \A id \in DOMAIN files' \ DOMAIN files :
                    /\ files'[id] = <<>>
                    /\ \E other \in Handlers : At(other, "start") /\ Id(other) = id
               /\ \A id \in DOMAIN files : files'[id] = files[id]
    <2>1. Id(h) \notin DOMAIN files
      BY <1>6 DEF PlaceInv
    <2>2. /\ DOMAIN files' = DOMAIN files \cup {Id(h)} /\ files' \in Maps
          /\ files'[Id(h)] = <<>> /\ \A i \in DOMAIN files \ {Id(h)} : files'[i] = files[i]
      <3>1. files' = WithNew(files, Id(h))
        BY <1>6 DEF NewFile
      <3>2. Id(h) \in Nat
        BY TaskIds, TaskFields
      <3> QED BY <1>4, <3>1, <3>2, EntryNew
    <2> QED BY <1>4, <1>6, <2>1, <2>2
  <1>7. ASSUME NEW h \in Handlers, At(h, "append"), Id(h) \in DOMAIN buffers,
               NEW n \in 0..Len(task[h].points), AddToFile(Id(h), SubSeq(task[h].points, 1, n)),
               torn' \in {torn, torn \cup {Id(h)}}
        PROVE  /\ torn \subseteq torn' /\ torn' \subseteq DOMAIN files'
               /\ files' \in Maps /\ DOMAIN files' = DOMAIN files
               /\ \A id \in DOMAIN files :
                    /\ Range(files[id]) \subseteq Range(files'[id])
                    /\ \/ files'[id] = files[id]
                       \/ /\ Id(h) = id
                          /\ Range(files'[id]) \subseteq Range(files[id]) \cup Range(task[h].points)
    <2> DEFINE written == SubSeq(task[h].points, 1, n)
    <2>1. /\ written \in Seq(Points) /\ Range(written) \subseteq Range(task[h].points)
          /\ Id(h) \in DOMAIN files
      BY <1>7, TaskFields, TaskIds, RangeFront, BufferFields
    <2>2. files' = Longer(files, Id(h), written)
      BY <1>7 DEF AddToFile, Longer
    <2> HIDE DEF written
    <2>3. /\ DOMAIN files' = DOMAIN files /\ files' \in Maps
          /\ \A i \in DOMAIN files \ {Id(h)} : files'[i] = files[i]
          /\ Range(files'[Id(h)]) = Range(files[Id(h)]) \cup Range(written)
      BY <1>4, <2>1, <2>2, EntryLonger
    <2> QED BY <1>4, <1>7, <2>1, <2>3
  <1>8. \/ UNCHANGED <<files, torn>>
        \/ \E h \in Handlers :
            At(h, "start") /\ NewFile(Id(h)) /\ torn' \in {torn, torn \cup {Id(h)}}
        \/ \E h \in Handlers : \E n \in 0..Len(task[h].points) :
            /\ At(h, "append") /\ Id(h) \in DOMAIN buffers
            /\ AddToFile(Id(h), SubSeq(task[h].points, 1, n))
            /\ torn' \in {torn, torn \cup {Id(h)}}
    BY <1>1 DEF CutWrite
  <1>9. CASE \E h \in Handlers :
                At(h, "start") /\ NewFile(Id(h)) /\ torn' \in {torn, torn \cup {Id(h)}}
    BY <1>1, <1>3, <1>6, <1>9
  <1>10. CASE \E h \in Handlers : \E n \in 0..Len(task[h].points) :
                /\ At(h, "append") /\ Id(h) \in DOMAIN buffers
                /\ AddToFile(Id(h), SubSeq(task[h].points, 1, n))
                /\ torn' \in {torn, torn \cup {Id(h)}}
    <2>1. PICK h \in Handlers : \E n \in 0..Len(task[h].points) :
                /\ At(h, "append") /\ Id(h) \in DOMAIN buffers
                /\ AddToFile(Id(h), SubSeq(task[h].points, 1, n))
                /\ torn' \in {torn, torn \cup {Id(h)}}
      BY <1>10
    <2>2. /\ torn \subseteq torn' /\ torn' \subseteq DOMAIN files'
          /\ files' \in Maps /\ DOMAIN files' = DOMAIN files
          /\ \A id \in DOMAIN files :
                /\ Range(files[id]) \subseteq Range(files'[id])
                /\ \/ files'[id] = files[id]
                   \/ /\ Id(h) = id
                      /\ Range(files'[id]) \subseteq Range(files[id]) \cup Range(task[h].points)
      BY <2>1, <1>7
    <2>3. At(h, "append")
      BY <2>1
    <2> QED BY <1>1, <1>3, <2>2, <2>3
  <1> QED BY <1>5, <1>8, <1>9, <1>10

-----------------------------------------------------------------------------
\* The steps, and the types

\* An operation ends, and nothing else happens.
Returns ==
    \/ \E h \in Handlers : AppendNoBuffer(h) \/ QueryFails(h)
    \/ \E r \in Readers : ReadNoBuffer(r) \/ Answer(r)
    \/ \E id \in SessionIds : CombinePanics(id)

LEMMA ReturnsDoes ==
    ASSUME StoreTypes, Returns
    PROVE  /\ \E t \in Tasks : Moves(t, Record("idle", 0, <<>>, {}, FALSE, {}))
           /\ \/ UNCHANGED <<faults, disturbed>>
              \/ Fault
           /\ UNCHANGED <<rows, countries, stored, known, buffers, files, torn, up, lastPoint,
                          commands, overlapped>>
  <1>1. CASE \E h \in Handlers : AppendNoBuffer(h) \/ QueryFails(h)
    BY <1>1, TaskIds, AppendNoBufferDoes, QueryFailsDoes
  <1>2. CASE \E r \in Readers : ReadNoBuffer(r) \/ Answer(r)
    BY <1>2, TaskIds, ReaderReturns
  <1>3. CASE \E id \in SessionIds : CombinePanics(id)
    BY <1>3, TaskIds, CombinePanicsDoes
  <1> QED BY <1>1, <1>2, <1>3 DEF Returns

LEMMA StepCases ==
    ASSUME [Next]_vars
    PROVE  \/ \E h \in Handlers : RegisterRow(h)
           \/ \E h \in Handlers : StartBuffer(h)
           \/ \E h \in Handlers : \E id \in SessionIds : AppendLookup(h, id)
           \/ \E t \in Handlers \cup {Cli} : ReadTrip(t)
           \/ \E t \in Handlers \cup {Cli} : WriteCountries(t)
           \/ \E h \in Handlers : AppendBuffer(h)
           \/ \E t \in Handlers \cup {Cli} : DbRead(t)
           \/ \E t \in Handlers \cup {Cli} : DbWrite(t)
           \/ \E h \in Handlers : \E id \in SessionIds : EndClose(h, id)
           \/ \E h \in Handlers : EndPoints(h)
           \/ \E h \in Handlers : EndActive(h)
           \/ \E h \in Handlers : StartFails(h)
           \/ \E h \in Handlers : AppendFails(h)
           \/ \E h \in Handlers : \E id \in SessionIds : CloseFails(h, id)
           \/ \E r \in Readers : \E id \in SessionIds : ReadRow(r, id)
           \/ \E r \in Readers : ReadBuffer(r)
           \/ \E id \in SessionIds : Ends(id)
           \/ \E id \in SessionIds : FixTime(id) \/ Combine(id)
           \/ \E id \in SessionIds : CombineWith(id)
           \/ CopyRow
           \/ CopyPoints
           \/ AddGpx
           \/ Crash
           \/ Returns
           \/ UNCHANGED vars
  BY Zenon DEF Next, Handle, Serve, Edit, Returns

\* What the steps below have in common
LEMMA KeepsTypes ==
    ASSUME StoreTypes
    PROVE  /\ faults \in Nat /\ commands \in Nat /\ MaxFaults \in Nat /\ MaxCommands \in Nat
           /\ MaxPoints \in Nat /\ disturbed \in BOOLEAN /\ overlapped \in BOOLEAN
           /\ Fault => faults' \in 0..MaxFaults /\ disturbed' = TRUE
           /\ (commands < MaxCommands /\ commands' = commands + 1) => commands' \in 0..MaxCommands
           /\ UNCHANGED rows => SessionIds' = SessionIds
           /\ UNCHANGED <<buffers, files, torn, up>> /\ SessionIds \subseteq SessionIds' => BufferTypeOK'
           /\ UNCHANGED <<rows, stored, countries, known, lastPoint>>
              /\ faults' \in 0..MaxFaults /\ commands' \in 0..MaxCommands
              /\ disturbed' \in BOOLEAN /\ overlapped' \in BOOLEAN => TableTypeOK'
  <1>1. /\ faults \in 0..MaxFaults /\ commands \in 0..MaxCommands /\ disturbed \in BOOLEAN
        /\ overlapped \in BOOLEAN
    BY DEF StoreTypes, TableTypeOK
  <1>2. MaxFaults \in Nat /\ MaxCommands \in Nat /\ MaxPoints \in Nat
    BY StoreAssumption
  <1>3. Fault => faults' \in 0..MaxFaults /\ disturbed' = TRUE
    BY <1>1, <1>2 DEF Fault
  <1>4. (commands < MaxCommands /\ commands' = commands + 1) => commands' \in 0..MaxCommands
    BY <1>1, <1>2
  <1>5. UNCHANGED rows => SessionIds' = SessionIds
    BY DEF SessionIds
  <1>6. UNCHANGED <<buffers, files, torn, up>> /\ SessionIds \subseteq SessionIds' => BufferTypeOK'
    BY DEF StoreTypes, BufferTypeOK
  <1>7. UNCHANGED <<rows, stored, countries, known, lastPoint>>
              /\ faults' \in 0..MaxFaults /\ commands' \in 0..MaxCommands
              /\ disturbed' \in BOOLEAN /\ overlapped' \in BOOLEAN => TableTypeOK'
    BY <1>5 DEF StoreTypes, TableTypeOK
  <1> QED BY <1>1, <1>2, <1>3, <1>4, <1>5, <1>6, <1>7

LEMMA NextTypes ==
    ASSUME StoreTypes, PlaceInv, InactiveInv, [Next]_vars
    PROVE  StoreTypes'
  <1>1. ASSUME NEW h \in Handlers, RegisterRow(h)
        PROVE  StoreTypes'
    <2>0. SessionIds \subseteq SessionIds' /\ Len(rows) + 1 \in SessionIds'
      BY <1>1, RegisterRowDoes, RowInserted
    <2>1. TableTypeOK'
      BY <1>1, <2>0, RegisterRowDoes, KeepsTypes, RowInserted DEF StoreTypes, TableTypeOK
    <2>2. BufferTypeOK'
      BY <1>1, <2>0, RegisterRowDoes, KeepsTypes, Ids DEF StoreTypes, BufferTypeOK
    <2>3. TasksTypeOK'
      <3>1. Moves(h, Record("start", Len(rows) + 1, <<>>, task[h].noted, task[h].active, task[h].list))
        BY <1>1, RegisterRowDoes
      <3>2. Len(rows) + 1 # 0 /\ Len(rows) + 1 \in SessionIds' /\ SessionIds \subseteq SessionIds'
        BY <1>1, <2>0, RegisterRowDoes, Ids
      <3> QED BY <2>0, <3>1, <3>2, MovedTypes, TaskIds DEF HandlerPcs, ReaderPcs, CliPcs
    <2> QED BY <2>1, <2>2, <2>3 DEF StoreTypes
  <1>2. ASSUME NEW h \in Handlers, StartBuffer(h)
        PROVE  StoreTypes'
    <2>0. SessionIds' = SessionIds /\ Id(h) \in SessionIds /\ Id(h) \in Nat
      BY <1>2, StartBufferDoes, KeepsTypes, TaskIds, TaskFields DEF At
    <2>1. TableTypeOK'
      BY <1>2, <2>0, StartBufferDoes, KeepsTypes, Ids DEF StoreTypes, TableTypeOK
    <2>2. BufferTypeOK'
      <3>1. buffers' \in Maps /\ DOMAIN buffers' = DOMAIN buffers \cup {Id(h)}
        BY <1>2, <2>0, StartBufferDoes, BufferFields, EntryNew
      <3>2. files' \in Maps /\ DOMAIN files' = DOMAIN files \cup {Id(h)}
        BY <1>2, <2>0, StartBufferDoes, BufferFields, EntryNew
      <3>3. up' \in BOOLEAN /\ (up' \/ (torn' # {} /\ buffers' = <<>>))
        BY <1>2, <2>0, StartBufferDoes, BufferFields, TaskIds DEF PlaceInv, At
      <3> QED BY <1>2, <2>0, <3>1, <3>2, <3>3, StartBufferDoes, BufferFields, BuffersTyped
    <2>3. TasksTypeOK'
      BY <1>2, <2>0, StartBufferDoes, KeepsTypes, MovedTypes, Ids, TaskIds DEF HandlerPcs, ReaderPcs, CliPcs, At
    <2> QED BY <2>1, <2>2, <2>3 DEF StoreTypes
  <1>3. ASSUME NEW h \in Handlers, NEW id \in SessionIds, AppendLookup(h, id)
        PROVE  StoreTypes'
    <2>0. SessionIds' = SessionIds
      BY <1>3, AppendLookupDoes, KeepsTypes
    <2>1. TableTypeOK'
      BY <1>3, <2>0, AppendLookupDoes, KeepsTypes, NewBatch, Ids DEF StoreTypes, TableTypeOK
    <2>2. BufferTypeOK'
      BY <1>3, <2>0, AppendLookupDoes, KeepsTypes, Ids DEF StoreTypes, BufferTypeOK
    <2>3. TasksTypeOK'
      BY <1>3, <2>0, AppendLookupDoes, KeepsTypes, MovedTypes, Ids, TaskIds DEF HandlerPcs, ReaderPcs, CliPcs, At
    <2> QED BY <2>1, <2>2, <2>3 DEF StoreTypes
  <1>4. ASSUME NEW t \in Handlers \cup {Cli}, ReadTrip(t)
        PROVE  StoreTypes'
    <2>0. SessionIds' = SessionIds /\ Id(t) \in SessionIds /\ (t = Cli => ~task[t].active)
      BY <1>4, ReadTripDoes, KeepsTypes, TaskIds DEF At, InactiveInv
    <2>1. TableTypeOK'
      BY <1>4, <2>0, ReadTripDoes, KeepsTypes, Ids DEF StoreTypes, TableTypeOK
    <2>2. BufferTypeOK'
      BY <1>4, <2>0, ReadTripDoes, KeepsTypes, Ids DEF StoreTypes, BufferTypeOK
    <2>3. TasksTypeOK'
      <3>1. Id(t) # 0 /\ Id(t) \in SessionIds'
        BY <2>0, TaskIds
      <3>2. /\ Destination(t) \in {"append", "dbRead"}
            /\ t = Cli => Destination(t) = "dbRead"
        BY <2>0 DEF Destination
      <3>3. PICK pc, list : pc \in {"countries", Destination(t)} /\
                Moves(t, Record(pc, Id(t), task[t].points, task[t].noted, task[t].active, list))
        BY <1>4, ReadTripGoes
      <3> QED BY <2>0, <3>1, <3>2, <3>3, MovedTypes, TaskIds DEF HandlerPcs, ReaderPcs, CliPcs
    <2> QED BY <2>1, <2>2, <2>3 DEF StoreTypes
  <1>5. ASSUME NEW t \in Handlers \cup {Cli}, WriteCountries(t)
        PROVE  StoreTypes'
    <2>0. SessionIds' = SessionIds /\ Id(t) \in SessionIds /\ task[t].list \subseteq Range(Country)
         /\ (t = Cli => ~task[t].active)
      BY <1>5, WriteCountriesDoes, KeepsTypes, TaskIds, TaskFields DEF At, InactiveInv
    <2>1. TableTypeOK'
      BY <1>5, <2>0, WriteCountriesDoes, KeepsTypes, Ids DEF StoreTypes, TableTypeOK
    <2>2. BufferTypeOK'
      BY <1>5, <2>0, WriteCountriesDoes, KeepsTypes, Ids DEF StoreTypes, BufferTypeOK
    <2>3. TasksTypeOK'
      BY <1>5, <2>0, WriteCountriesDoes, KeepsTypes, MovedTypes, Ids, TaskIds DEF HandlerPcs, ReaderPcs, CliPcs, At, Destination
    <2> QED BY <2>1, <2>2, <2>3 DEF StoreTypes
  <1>6. ASSUME NEW h \in Handlers, AppendBuffer(h)
        PROVE  StoreTypes'
    <2>0. SessionIds' = SessionIds /\ Id(h) \in SessionIds /\ Id(h) \in DOMAIN files
         /\ task[h].points \in Seq(Points) /\ Range(task[h].points) \in SUBSET Points
      BY <1>6, AppendBufferDoes, KeepsTypes, TaskIds, TaskFields, BufferFields, RangeSeq DEF At
    <2>1. TableTypeOK'
      BY <1>6, <2>0, AppendBufferDoes, KeepsTypes, StoredAdded, TaskIds, Ids DEF StoreTypes, TableTypeOK
    <2>2. BufferTypeOK'
      <3>1. buffers' \in Maps /\ DOMAIN buffers' = DOMAIN buffers
        <4>1. buffers \in Maps /\ Id(h) \in DOMAIN buffers /\ task[h].points \in Seq(Points)
              /\ buffers' = Longer(buffers, Id(h), task[h].points)
          BY <1>6, <2>0, AppendBufferDoes, BufferFields
        <4> QED BY <4>1, EntryLonger
      <3>2. files' \in Maps /\ DOMAIN files' = DOMAIN files
        <4>1. files \in Maps /\ Id(h) \in DOMAIN files /\ task[h].points \in Seq(Points)
              /\ files' = Longer(files, Id(h), task[h].points)
          BY <1>6, <2>0, AppendBufferDoes, BufferFields
        <4> QED BY <4>1, EntryLonger
      <3>3. up' \in BOOLEAN /\ (up' \/ (torn' # {} /\ buffers' = <<>>))
        BY <1>6, <2>0, AppendBufferDoes, BufferFields, TaskIds DEF PlaceInv, At
      <3> QED BY <1>6, <2>0, <3>1, <3>2, <3>3, AppendBufferDoes, BufferFields, BuffersTyped
    <2>3. TasksTypeOK'
      BY <1>6, <2>0, AppendBufferDoes, KeepsTypes, MovedTypes, Ids, TaskIds DEF HandlerPcs, ReaderPcs, CliPcs, At
    <2> QED BY <2>1, <2>2, <2>3 DEF StoreTypes
  <1>7. ASSUME NEW t \in Handlers \cup {Cli}, DbRead(t)
        PROVE  StoreTypes'
    <2>0. SessionIds' = SessionIds
      BY <1>7, DbReadDoes, KeepsTypes
    <2>1. TableTypeOK'
      BY <1>7, <2>0, DbReadDoes, KeepsTypes, Ids DEF StoreTypes, TableTypeOK
    <2>2. BufferTypeOK'
      BY <1>7, <2>0, DbReadDoes, KeepsTypes, Ids DEF StoreTypes, BufferTypeOK
    <2>3. TasksTypeOK'
      BY <1>7, <2>0, DbReadDoes, KeepsTypes, MovedTypes, Ids, TaskIds DEF HandlerPcs, ReaderPcs, CliPcs, At
    <2> QED BY <2>1, <2>2, <2>3 DEF StoreTypes
  <1>8. ASSUME NEW t \in Handlers \cup {Cli}, DbWrite(t)
        PROVE  StoreTypes'
    <2>0. SessionIds' = SessionIds
      BY <1>8, DbWriteDoes, PointsSet, TaskFields, TaskIds
    <2>1. TableTypeOK'
      <3>1. t \in Tasks /\ Id(t) \in SessionIds /\ task[t].noted \in SUBSET Points
        BY <1>8, DbWriteDoes, TaskIds, TaskFields
      <3>2. rows' \in Seq(Rows) /\ Len(rows') = Len(rows)
        BY <1>8, <3>1, DbWriteDoes, PointsSet, TaskFields
      <3>3. stored' \in Seq(SUBSET Points) /\ Len(stored') = Len(stored)
        BY <1>8, <3>1, DbWriteDoes, StoredAdded
      <3> QED BY <1>8, <2>0, <3>2, <3>3, DbWriteDoes DEF StoreTypes, TableTypeOK
    <2>2. BufferTypeOK'
      BY <1>8, <2>0, DbWriteDoes, KeepsTypes, Ids DEF StoreTypes, BufferTypeOK
    <2>3. TasksTypeOK'
      BY <1>8, <2>0, DbWriteDoes, KeepsTypes, MovedTypes, Ids, TaskIds DEF HandlerPcs, ReaderPcs, CliPcs, At
    <2> QED BY <2>1, <2>2, <2>3 DEF StoreTypes
  <1>9. ASSUME NEW h \in Handlers, NEW id \in SessionIds, EndClose(h, id)
        PROVE  StoreTypes'
    <2>0. SessionIds' = SessionIds
      BY <1>9, EndCloseDoes, KeepsTypes
    <2>1. TableTypeOK'
      BY <1>9, <2>0, EndCloseDoes, KeepsTypes, Ids DEF StoreTypes, TableTypeOK
    <2>2. BufferTypeOK'
      <3>1. buffers' \in Maps /\ DOMAIN buffers' = DOMAIN buffers \ {id}
        <4>1. buffers \in Maps /\ buffers' = Without(buffers, id)
          BY <1>9, <2>0, EndCloseDoes, BufferFields
        <4> QED BY <4>1, EntryDropped
      <3>2. files' \in Maps /\ DOMAIN files' = DOMAIN files \ {id}
        <4>1. files \in Maps /\ files' = Without(files, id)
          BY <1>9, <2>0, EndCloseDoes, BufferFields
        <4> QED BY <4>1, EntryDropped
      <3>3. up' \in BOOLEAN /\ (up' \/ (torn' # {} /\ buffers' = <<>>))
        BY <1>9, <2>0, EndCloseDoes, BufferFields, TaskIds DEF PlaceInv, At
      <3> QED BY <1>9, <2>0, <3>1, <3>2, <3>3, EndCloseDoes, BufferFields, BuffersTyped
    <2>3. TasksTypeOK'
      BY <1>9, <2>0, EndCloseDoes, KeepsTypes, MovedTypes, Ids, TaskIds DEF HandlerPcs, ReaderPcs, CliPcs, At
    <2> QED BY <2>1, <2>2, <2>3 DEF StoreTypes
  <1>10. ASSUME NEW h \in Handlers, EndPoints(h)
        PROVE  StoreTypes'
    <2>0. SessionIds' = SessionIds
      BY <1>10, EndPointsDoes, PointsSet, TaskFields, TaskIds
    <2>1. TableTypeOK'
      BY <1>10, <2>0, EndPointsDoes, KeepsTypes, PointsSet, TaskFields, TaskIds, Ids DEF StoreTypes, TableTypeOK
    <2>2. BufferTypeOK'
      BY <1>10, <2>0, EndPointsDoes, KeepsTypes, Ids DEF StoreTypes, BufferTypeOK
    <2>3. TasksTypeOK'
      BY <1>10, <2>0, EndPointsDoes, KeepsTypes, MovedTypes, Ids, TaskIds DEF HandlerPcs, ReaderPcs, CliPcs, At
    <2> QED BY <2>1, <2>2, <2>3 DEF StoreTypes
  <1>11. ASSUME NEW h \in Handlers, EndActive(h)
        PROVE  StoreTypes'
    <2>0. SessionIds' = SessionIds
      BY <1>11, EndActiveDoes, ActiveCleared
    <2>1. TableTypeOK'
      BY <1>11, <2>0, EndActiveDoes, KeepsTypes, ActiveCleared, Ids DEF StoreTypes, TableTypeOK
    <2>2. BufferTypeOK'
      BY <1>11, <2>0, EndActiveDoes, KeepsTypes, Ids DEF StoreTypes, BufferTypeOK
    <2>3. TasksTypeOK'
      BY <1>11, <2>0, EndActiveDoes, KeepsTypes, MovedTypes, Ids, TaskIds DEF HandlerPcs, ReaderPcs, CliPcs, At
    <2> QED BY <2>1, <2>2, <2>3 DEF StoreTypes
  <1>12. ASSUME NEW h \in Handlers, StartFails(h)
        PROVE  StoreTypes'
    <2>0. SessionIds' = SessionIds /\ Id(h) \in SessionIds /\ Id(h) \in Nat
      BY <1>12, StartFailsDoes, KeepsTypes, TaskIds, TaskFields DEF At
    <2>1. TableTypeOK'
      BY <1>12, <2>0, StartFailsDoes, KeepsTypes, Ids DEF StoreTypes, TableTypeOK
    <2>2. BufferTypeOK'
      <3>1. buffers' \in Maps /\ DOMAIN buffers' = DOMAIN buffers
        BY <1>12, <2>0, StartFailsDoes, BufferFields, TaskIds
      <3>2. /\ files' \in Maps /\ DOMAIN files' \in {DOMAIN files, DOMAIN files \cup {Id(h)}}
            /\ torn' \subseteq DOMAIN files' /\ DOMAIN files \subseteq DOMAIN files'
        <4>1. files \in Maps /\ torn \subseteq DOMAIN files
          BY BufferFields
        <4>2. /\ WithNew(files, Id(h)) \in Maps
              /\ DOMAIN WithNew(files, Id(h)) = DOMAIN files \cup {Id(h)}
          BY <2>0, <4>1, EntryNew
        <4> QED BY <1>12, StartFailsDoes, <4>1, <4>2
      <3>3. up' \in BOOLEAN /\ (up' \/ (torn' # {} /\ buffers' = <<>>))
        BY <1>12, <2>0, StartFailsDoes, BufferFields, TaskIds DEF PlaceInv, At
      <3> QED BY <1>12, <2>0, <3>1, <3>2, <3>3, StartFailsDoes, BufferFields, BuffersTyped
    <2>3. TasksTypeOK'
      BY <1>12, <2>0, StartFailsDoes, KeepsTypes, MovedTypes, Ids, TaskIds DEF HandlerPcs, ReaderPcs, CliPcs, At
    <2> QED BY <2>1, <2>2, <2>3 DEF StoreTypes
  <1>13. ASSUME NEW h \in Handlers, AppendFails(h)
        PROVE  StoreTypes'
    <2>0. SessionIds' = SessionIds /\ Id(h) \in SessionIds /\ Id(h) \in DOMAIN files
         /\ task[h].points \in Seq(Points)
      BY <1>13, AppendFailsDoes, KeepsTypes, TaskIds, TaskFields, BufferFields DEF At
    <2>1. TableTypeOK'
      BY <1>13, <2>0, AppendFailsDoes, KeepsTypes, Ids DEF StoreTypes, TableTypeOK
    <2>2. BufferTypeOK'
      <3>1. buffers' \in Maps /\ DOMAIN buffers' = DOMAIN buffers
        <4>1. buffers \in Maps /\ Id(h) \in DOMAIN buffers /\ task[h].points \in Seq(Points)
              /\ buffers' = Longer(buffers, Id(h), task[h].points)
          BY <1>13, <2>0, AppendFailsDoes, BufferFields
        <4> QED BY <4>1, EntryLonger
      <3>2. files' \in Maps /\ DOMAIN files' = DOMAIN files
        BY <1>13, AppendFailsDoes, BufferFields
      <3>3. up' \in BOOLEAN /\ (up' \/ (torn' # {} /\ buffers' = <<>>))
        BY <1>13, <2>0, AppendFailsDoes, BufferFields, TaskIds DEF PlaceInv, At
      <3> QED BY <1>13, <2>0, <3>1, <3>2, <3>3, AppendFailsDoes, BufferFields, BuffersTyped
    <2>3. TasksTypeOK'
      BY <1>13, <2>0, AppendFailsDoes, KeepsTypes, MovedTypes, Ids, TaskIds DEF HandlerPcs, ReaderPcs, CliPcs, At
    <2> QED BY <2>1, <2>2, <2>3 DEF StoreTypes
  <1>14. ASSUME NEW h \in Handlers, NEW id \in SessionIds, CloseFails(h, id)
        PROVE  StoreTypes'
    <2>0. SessionIds' = SessionIds
      BY <1>14, CloseFailsDoes, KeepsTypes
    <2>1. TableTypeOK'
      BY <1>14, <2>0, CloseFailsDoes, KeepsTypes, Ids DEF StoreTypes, TableTypeOK
    <2>2. BufferTypeOK'
      <3>1. buffers' \in Maps /\ DOMAIN buffers' = DOMAIN buffers \ {id}
        <4>1. buffers \in Maps /\ buffers' = Without(buffers, id)
          BY <1>14, <2>0, CloseFailsDoes, BufferFields
        <4> QED BY <4>1, EntryDropped
      <3>2. files' \in Maps /\ DOMAIN files' = DOMAIN files
        BY <1>14, CloseFailsDoes, BufferFields
      <3>3. up' \in BOOLEAN /\ (up' \/ (torn' # {} /\ buffers' = <<>>))
        BY <1>14, <2>0, CloseFailsDoes, BufferFields, TaskIds DEF PlaceInv, At
      <3> QED BY <1>14, <2>0, <3>1, <3>2, <3>3, CloseFailsDoes, BufferFields, BuffersTyped
    <2>3. TasksTypeOK'
      BY <1>14, <2>0, CloseFailsDoes, KeepsTypes, TaskIds DEF StoreTypes, TasksTypeOK, At, Id
    <2> QED BY <2>1, <2>2, <2>3 DEF StoreTypes
  <1>15. ASSUME NEW r \in Readers, NEW id \in SessionIds, ReadRow(r, id)
        PROVE  StoreTypes'
    <2>0. SessionIds' = SessionIds
      BY <1>15, ReadRowDoes, KeepsTypes
    <2>1. TableTypeOK'
      BY <1>15, <2>0, ReadRowDoes, KeepsTypes, Ids DEF StoreTypes, TableTypeOK
    <2>2. BufferTypeOK'
      BY <1>15, <2>0, ReadRowDoes, KeepsTypes, Ids DEF StoreTypes, BufferTypeOK
    <2>3. TasksTypeOK'
      <3>1. PICK pc \in {"readBuffer", "answer"} :
                Moves(r, Record(pc, id, rows[id].points, stored[id], FALSE, {}))
        BY <1>15, ReadRowDoes
      <3>2. id # 0 /\ id \in SessionIds'
        BY <1>15, <2>0, ReadRowDoes, TaskIds
      <3> QED BY <2>0, <3>1, <3>2, MovedTypes, TaskIds DEF HandlerPcs, ReaderPcs, CliPcs
    <2> QED BY <2>1, <2>2, <2>3 DEF StoreTypes
  <1>16. ASSUME NEW r \in Readers, ReadBuffer(r)
        PROVE  StoreTypes'
    <2>0. SessionIds' = SessionIds
      BY <1>16, ReadBufferDoes, KeepsTypes
    <2>1. TableTypeOK'
      BY <1>16, <2>0, ReadBufferDoes, KeepsTypes, Ids DEF StoreTypes, TableTypeOK
    <2>2. BufferTypeOK'
      BY <1>16, <2>0, ReadBufferDoes, KeepsTypes, Ids DEF StoreTypes, BufferTypeOK
    <2>3. TasksTypeOK'
      BY <1>16, <2>0, ReadBufferDoes, KeepsTypes, MovedTypes, Ids, TaskIds DEF HandlerPcs, ReaderPcs, CliPcs, At
    <2> QED BY <2>1, <2>2, <2>3 DEF StoreTypes
  <1>17. ASSUME NEW id \in SessionIds, Ends(id)
        PROVE  StoreTypes'
    <2>0. SessionIds' = SessionIds
      BY <1>17, EndsDoes, ActiveCleared
    <2>1. TableTypeOK'
      BY <1>17, <2>0, EndsDoes, KeepsTypes, ActiveCleared, Ids DEF StoreTypes, TableTypeOK
    <2>2. BufferTypeOK'
      BY <1>17, <2>0, EndsDoes, KeepsTypes, Ids DEF StoreTypes, BufferTypeOK
    <2>3. TasksTypeOK'
      BY <1>17, <2>0, EndsDoes, KeepsTypes, Ids, TaskIds DEF StoreTypes, TasksTypeOK, At, Id
    <2> QED BY <2>1, <2>2, <2>3 DEF StoreTypes
  <1>18. ASSUME NEW id \in SessionIds, FixTime(id) \/ Combine(id)
        PROVE  StoreTypes'
    <2>0. SessionIds' = SessionIds
      BY <1>18, TakeDoes, KeepsTypes
    <2>1. TableTypeOK'
      BY <1>18, <2>0, TakeDoes, KeepsTypes, Ids DEF StoreTypes, TableTypeOK
    <2>2. BufferTypeOK'
      BY <1>18, <2>0, TakeDoes, KeepsTypes, Ids DEF StoreTypes, BufferTypeOK
    <2>3. TasksTypeOK'
      BY <1>18, <2>0, TakeDoes, KeepsTypes, MovedTypes, Ids, TaskIds DEF HandlerPcs, ReaderPcs, CliPcs, At
    <2> QED BY <2>1, <2>2, <2>3 DEF StoreTypes
  <1>19. ASSUME NEW id \in SessionIds, CombineWith(id)
        PROVE  StoreTypes'
    <2>0. SessionIds' = SessionIds
      BY <1>19, CombineWithDoes, KeepsTypes
    <2>1. TableTypeOK'
      BY <1>19, <2>0, CombineWithDoes, KeepsTypes, Ids DEF StoreTypes, TableTypeOK
    <2>2. BufferTypeOK'
      BY <1>19, <2>0, CombineWithDoes, KeepsTypes, Ids DEF StoreTypes, BufferTypeOK
    <2>3. TasksTypeOK'
      <3>1. PICK points : Moves(Cli, Record("insert", Id(Cli), points, task[Cli].noted \cup stored[id],
                                          task[Cli].active, task[Cli].list))
        BY <1>19, CombineWithDoes
      <3>2. Id(Cli) # 0 /\ Id(Cli) \in SessionIds'
        BY <1>19, <2>0, CombineWithDoes, TaskIds DEF At
      <3> QED BY <2>0, <3>1, <3>2, MovedTypes, TaskIds DEF HandlerPcs, ReaderPcs, CliPcs
    <2> QED BY <2>1, <2>2, <2>3 DEF StoreTypes
  <1>20. ASSUME CopyRow
        PROVE  StoreTypes'
    <2>0. SessionIds \subseteq SessionIds' /\ Len(rows) + 1 \in SessionIds'
      BY <1>20, CopyRowDoes, RowInserted, TaskFields, TaskIds
    <2>1. TableTypeOK'
      BY <1>20, <2>0, CopyRowDoes, KeepsTypes, RowInserted, TaskFields, TaskIds DEF StoreTypes, TableTypeOK
    <2>2. BufferTypeOK'
      BY <1>20, <2>0, CopyRowDoes, KeepsTypes, Ids DEF StoreTypes, BufferTypeOK
    <2>3. TasksTypeOK'
      BY <1>20, <2>0, CopyRowDoes, KeepsTypes, MovedTypes, Ids, TaskIds DEF HandlerPcs, ReaderPcs, CliPcs, At
    <2> QED BY <2>1, <2>2, <2>3 DEF StoreTypes
  <1>21. ASSUME CopyPoints
        PROVE  StoreTypes'
    <2>0. SessionIds' = SessionIds
      BY <1>21, CopyPointsDoes, PointsSet, TaskFields, TaskIds
    <2>1. TableTypeOK'
      BY <1>21, <2>0, CopyPointsDoes, KeepsTypes, PointsSet, TaskFields, TaskIds, Ids DEF StoreTypes, TableTypeOK
    <2>2. BufferTypeOK'
      BY <1>21, <2>0, CopyPointsDoes, KeepsTypes, Ids DEF StoreTypes, BufferTypeOK
    <2>3. TasksTypeOK'
      BY <1>21, <2>0, CopyPointsDoes, KeepsTypes, MovedTypes, Ids, TaskIds DEF HandlerPcs, ReaderPcs, CliPcs, At
    <2> QED BY <2>1, <2>2, <2>3 DEF StoreTypes
  <1>22. ASSUME AddGpx
        PROVE  StoreTypes'
    <2>0. SessionIds \subseteq SessionIds' /\ Len(rows) + 1 \in SessionIds'
      BY <1>22, AddGpxDoes, RowInserted
    <2>1. TableTypeOK'
      BY <1>22, <2>0, AddGpxDoes, KeepsTypes, RowInserted, NewBatch DEF StoreTypes, TableTypeOK
    <2>2. BufferTypeOK'
      BY <1>22, <2>0, AddGpxDoes, KeepsTypes, Ids DEF StoreTypes, BufferTypeOK
    <2>3. TasksTypeOK'
      <3>1. PICK batch, noted, active, list :
                Moves(Cli, Record("trip", Len(rows) + 1, batch, noted, active, list))
        BY <1>22, AddGpxDoes
      <3>2. Len(rows) + 1 # 0 /\ Len(rows) + 1 \in SessionIds' /\ SessionIds \subseteq SessionIds'
        BY <1>22, <2>0, AddGpxDoes, Ids
      <3> QED BY <2>0, <3>1, <3>2, MovedTypes, TaskIds DEF HandlerPcs, ReaderPcs, CliPcs
    <2> QED BY <2>1, <2>2, <2>3 DEF StoreTypes
  <1>23. ASSUME Crash
        PROVE  StoreTypes'
    <2>0. SessionIds' = SessionIds
      BY <1>23, CrashDoes, KeepsTypes
    <2>1. TableTypeOK'
      BY <1>23, <2>0, CrashDoes, KeepsTypes, Ids DEF StoreTypes, TableTypeOK
    <2>2. BufferTypeOK'
      <3>1. <<>> \in Maps /\ DOMAIN <<>> = {}
        <4>1. <<>> \in [{} -> Seq(Points)] /\ DOMAIN <<>> = {}
          OBVIOUS
        <4> QED BY <4>1, MapFields
      <3>2. DOMAIN files' \subseteq SessionIds
        BY <1>23, CrashDoes, BufferFields, TaskIds DEF At
      <3> QED BY <1>23, <2>0, <3>1, <3>2, CrashDoes, BuffersTyped
    <2>3. TasksTypeOK'
      BY <1>23, <2>0, CrashDoes, KeepsTypes, Ids, TaskIds DEF StoreTypes, TasksTypeOK, At, Id, Record, HandlerPcs, ReaderPcs, Tasks
    <2> QED BY <2>1, <2>2, <2>3 DEF StoreTypes
  <1>24. ASSUME Returns
        PROVE  StoreTypes'
    <2>0. SessionIds' = SessionIds
      BY <1>24, ReturnsDoes, KeepsTypes
    <2>1. TableTypeOK'
      BY <1>24, <2>0, ReturnsDoes, KeepsTypes, Ids DEF StoreTypes, TableTypeOK
    <2>2. BufferTypeOK'
      BY <1>24, <2>0, ReturnsDoes, KeepsTypes, Ids DEF StoreTypes, BufferTypeOK
    <2>3. TasksTypeOK'
      BY <1>24, <2>0, ReturnsDoes, KeepsTypes, MovedTypes, Ids, TaskIds DEF HandlerPcs, ReaderPcs, CliPcs, At
    <2> QED BY <2>1, <2>2, <2>3 DEF StoreTypes
  <1>25. ASSUME UNCHANGED vars
        PROVE  StoreTypes'
    BY <1>25 DEF StoreTypes, TableTypeOK, BufferTypeOK, TasksTypeOK, SessionIds, At, Id, vars, tableVars,
         bufferVars, boundVars, ghostVars
  <1> QED BY StepCases, <1>1, <1>2, <1>3, <1>4, <1>5, <1>6, <1>7, <1>8, <1>9, <1>10, <1>11, <1>12,
         <1>13, <1>14, <1>15, <1>16, <1>17, <1>18, <1>19, <1>20, <1>21, <1>22, <1>23,
         <1>24, <1>25, Zenon

-----------------------------------------------------------------------------
\* Which task is at which session

\* Which task is at which session: a move that takes t to no session of another.
LEMMA PlaceKept ==
    ASSUME StoreTypes, PlaceInv, NEW t \in Tasks, NEW pc, NEW id, NEW points, NEW noted, NEW active,
           NEW list, Moves(t, Record(pc, id, points, noted, active, list)),
           UNCHANGED <<known, up>>, DOMAIN files' \subseteq DOMAIN files,
           \A i \in SessionIds \ known :
                \/ rows'[i].points = rows[i].points /\ stored'[i] = stored[i]
                \/ t = Cli /\ i = Id(Cli) /\ task[Cli].pc \notin {"idle", "second", "insert"},
           t \in Handlers =>
                \/ pc = "idle" /\ id = 0
                \/ /\ pc \notin {"idle", "start", "endPoints", "endActive"} /\ id \in known /\ up
                \/ pc = "endActive" /\ Ending(t) /\ id = Id(t),
           t \in Readers => pc = "idle" \/ up,
           t = Cli =>
                \/ pc \in {"idle", "second", "insert"}
                \/ /\ id = Id(t) /\ task[t].pc \notin {"idle", "second", "insert"}
                   /\ stored'[id] = stored[id]
    PROVE  PlaceInv'
  <1>1. task'[t].pc = pc /\ task'[t].id = id /\ \A u \in Tasks : u # t => task'[u] = task[u]
    BY DEF Moves, Record
  <1>2. up' \/ \A u \in Handlers \cup Readers : At(u, "idle")'
    BY <1>1, TaskIds DEF PlaceInv, At, Ending
  <1>3. \A h \in Handlers : (task[h].pc \notin {"idle", "start"} => Id(h) \in known)'
    BY <1>1, TaskIds DEF PlaceInv, Id, Ending
  <1>4. ASSUME NEW h \in Handlers, At(h, "start")'
        PROVE  /\ Id(h)' \notin known' \cup DOMAIN files'
               /\ stored'[Id(h)'] = {} /\ rows'[Id(h)'].points = <<>>
               /\ \A other \in Handlers : Id(other)' = Id(h)' => other = h
    <2>1. h # t /\ At(h, "start") /\ Id(h)' = Id(h) /\ h \in Tasks
      BY <1>1, <1>4, TaskIds DEF At, Id
    <2>2. /\ Id(h) \notin known \cup DOMAIN files /\ Id(h) \in SessionIds
          /\ stored[Id(h)] = {} /\ rows[Id(h)].points = <<>>
          /\ \A other \in Handlers : Id(other) = Id(h) => other = h
      BY <2>1, TaskIds DEF PlaceInv, At
    <2>3. task[Cli].pc \notin {"idle", "second", "insert"} => Id(h) # Id(Cli)
      BY DEF PlaceInv
    <2>4. stored'[Id(h)] = {} /\ rows'[Id(h)].points = <<>>
      BY <2>2, <2>3
    <2>5. ASSUME NEW other \in Handlers, Id(other)' = Id(h)'
          PROVE  other = h
      <3>1. CASE other = t
        <4>1. id = Id(h) /\ (id = 0 \/ id \in known \/ id = Id(t))
          BY <1>1, <2>1, <2>5, <3>1 DEF Id
        <4> QED BY <2>2, <3>1, <4>1, TaskIds
      <3>2. CASE other # t
        BY <1>1, <2>1, <2>2, <2>5, <3>2, TaskIds DEF Id
      <3> QED BY <3>1, <3>2
    <2> QED BY <2>1, <2>2, <2>4, <2>5
  <1>5. ASSUME NEW h \in Handlers, Ending(h)'
        PROVE  /\ Id(h)' \notin DOMAIN files'
               /\ \A other \in Handlers : Ending(other)' /\ Id(other)' = Id(h)' => other = h
    <2>1. \A u \in Handlers : Ending(u)' => Ending(u) /\ Id(u)' = Id(u)
      BY <1>1, TaskIds DEF Ending, Id
    <2> QED BY <1>5, <2>1 DEF PlaceInv
  <1>6. ASSUME (task[Cli].pc \notin {"idle", "second", "insert"})'
        PROVE  /\ Id(Cli)' \notin known' \cup DOMAIN files' /\ stored'[Id(Cli)'] = {}
               /\ \A h \in Handlers : Id(h)' # Id(Cli)'
    <2>1. task[Cli].pc \notin {"idle", "second", "insert"} /\ Id(Cli)' = Id(Cli)
      BY <1>1, <1>6, TaskIds DEF Id
    <2>2. /\ Id(Cli) \notin known \cup DOMAIN files /\ stored[Id(Cli)] = {} /\ Id(Cli) \in SessionIds
          /\ \A h \in Handlers : Id(h) # Id(Cli)
      BY <2>1, TaskIds DEF PlaceInv, At
    <2>3. stored'[Id(Cli)] = {}
      BY <1>1, <1>6, <2>1, <2>2
    <2>4. ASSUME NEW h \in Handlers
          PROVE  Id(h)' # Id(Cli)
      BY <1>1, <2>2, TaskIds DEF Id
    <2> QED BY <2>1, <2>2, <2>3, <2>4
  <1> QED BY <1>2, <1>3, <1>4, <1>5, <1>6, Zenon DEF PlaceInv, Ending, Id

LEMMA NextPlace ==
    ASSUME StoreTypes, PlaceInv, InactiveInv, [Next]_vars
    PROVE  PlaceInv'
  <1>1. ASSUME NEW h \in Handlers, RegisterRow(h)
        PROVE  PlaceInv'
    <2>1. /\ task'[h].pc = "start" /\ task'[h].id = Len(rows) + 1
          /\ \A u \in Tasks : u # h => task'[u] = task[u]
      <3>1. PICK points, noted, active, list :
                Moves(h, Record("start", Len(rows) + 1, points, noted, active, list))
        BY <1>1, RegisterRowDoes
      <3> QED BY <3>1, MovedFields
    <2>2. /\ Len(rows) + 1 \notin SessionIds /\ Len(rows) + 1 # 0
          /\ rows'[Len(rows) + 1].points = <<>> /\ stored'[Len(rows) + 1] = {}
          /\ \A i \in SessionIds : rows'[i] = rows[i] /\ stored'[i] = stored[i]
          /\ UNCHANGED <<known, up, files>> /\ up
      BY <1>1, RegisterRowDoes, RowInserted
    <2>3. /\ \A u \in Tasks : Id(u) # Len(rows) + 1
          /\ Len(rows) + 1 \notin known \cup DOMAIN files
      BY <2>2, TaskIds, BufferFields
    <2> QED BY <2>1, <2>2, <2>3, TaskIds DEF PlaceInv, At, Id, Ending
  <1>2. ASSUME NEW h \in Handlers, StartBuffer(h)
        PROVE  PlaceInv'
    <2>1. /\ task'[h].pc = "idle" /\ task'[h].id = 0 /\ h \in Tasks
          /\ \A u \in Tasks : u # h => task'[u] = task[u]
          /\ UNCHANGED <<rows, stored, up>> /\ known' = known \cup {Id(h)}
          /\ At(h, "start") /\ Id(h) \in SessionIds
      BY <1>2, StartBufferDoes, TaskIds DEF Moves, Record, At
    <2>2. DOMAIN files' = DOMAIN files \cup {Id(h)}
      BY <1>2, StartBufferDoes, BufferFields, EntryNew, TaskFields, TaskIds
    <2>3. \A other \in Handlers : Id(other) = Id(h) => other = h
      BY <2>1 DEF PlaceInv
    <2>4. task[Cli].pc \notin {"idle", "second", "insert"} => Id(h) # Id(Cli)
      BY DEF PlaceInv
    <2> QED BY <2>1, <2>2, <2>3, <2>4, TaskIds DEF PlaceInv, At, Id, Ending
  <1>3. ASSUME NEW h \in Handlers, NEW id \in SessionIds, AppendLookup(h, id)
        PROVE  PlaceInv'
    <2>1. PICK batch : Moves(h, Record("trip", id, batch, {}, rows[id].active, {}))
      BY <1>3, AppendLookupDoes
    <2>2. UNCHANGED <<known, up>> /\ DOMAIN files' \subseteq DOMAIN files
      BY <1>3, AppendLookupDoes
    <2>3. /\ \A i \in SessionIds : rows'[i].points = rows[i].points /\ stored'[i] = stored[i]
          /\ id \in known /\ up
      BY <1>3, AppendLookupDoes, TaskIds
    <2> QED BY <2>1, <2>2, <2>3, TaskIds, PlaceKept
  <1>4. ASSUME NEW t \in Handlers \cup {Cli}, ReadTrip(t)
        PROVE  PlaceInv'
    <2>1. PICK pc, points, noted, list :
            /\ pc \in {"append", "dbRead", "countries"}
            /\ Moves(t, Record(pc, Id(t), points, noted, task[t].active, list))
      <3>1. PICK pc, list :
                /\ pc \in {"countries", Destination(t)}
                /\ Moves(t, Record(pc, Id(t), task[t].points, task[t].noted, task[t].active, list))
        BY <1>4, ReadTripGoes
      <3>2. pc \in {"append", "dbRead", "countries"}
        BY <3>1 DEF Destination
      <3> QED BY <3>1, <3>2
    <2>2. UNCHANGED <<known, up>> /\ DOMAIN files' \subseteq DOMAIN files
      BY <1>4, ReadTripDoes
    <2>3. /\ UNCHANGED <<rows, stored>>
          /\ t \in Handlers => Id(t) \in known /\ up
          /\ t = Cli => task[t].pc \notin {"idle", "second", "insert"}
          /\ t \in Tasks /\ t \notin Readers
      BY <1>4, ReadTripDoes, TaskIds, StoreAssumption DEF PlaceInv, At
    <2> QED BY <2>1, <2>2, <2>3, TaskIds, PlaceKept
  <1>5. ASSUME NEW t \in Handlers \cup {Cli}, WriteCountries(t)
        PROVE  PlaceInv'
    <2>1. PICK pc, points, noted, list :
            /\ pc \in {"append", "dbRead"}
            /\ Moves(t, Record(pc, Id(t), points, noted, task[t].active, list))
      BY <1>5, WriteCountriesDoes DEF Destination
    <2>2. UNCHANGED <<known, up>> /\ DOMAIN files' \subseteq DOMAIN files
      BY <1>5, WriteCountriesDoes
    <2>3. /\ UNCHANGED <<rows, stored>>
          /\ t \in Handlers => Id(t) \in known /\ up
          /\ t = Cli => task[t].pc \notin {"idle", "second", "insert"}
          /\ t \in Tasks /\ t \notin Readers
      BY <1>5, WriteCountriesDoes, TaskIds, StoreAssumption DEF PlaceInv, At
    <2> QED BY <2>1, <2>2, <2>3, TaskIds, PlaceKept
  <1>6. ASSUME NEW h \in Handlers, AppendBuffer(h)
        PROVE  PlaceInv'
    <2>1. Moves(h, Record("idle", 0, <<>>, {}, FALSE, {}))
      BY <1>6, AppendBufferDoes
    <2>2. /\ At(h, "append") /\ Id(h) \in DOMAIN files /\ h \in Tasks /\ Id(h) \in SessionIds
          /\ files' = Longer(files, Id(h), task[h].points) /\ task[h].points \in Seq(Points)
          /\ Id(h) \in known /\ UNCHANGED <<rows, known, up>>
      BY <1>6, AppendBufferDoes, BufferFields, TaskFields, TaskIds DEF PlaceInv, At
    <2>3. DOMAIN files' \subseteq DOMAIN files
      <3>1. files \in Maps
        BY BufferFields
      <3> QED BY <2>2, <3>1, EntryLonger
    <2>4. \A i \in SessionIds \ known : rows'[i].points = rows[i].points /\ stored'[i] = stored[i]
      <3>1. AddStored(h, Range(task[h].points)) /\ Range(task[h].points) \in SUBSET Points
        BY <1>6, AppendBufferDoes, <2>2, RangeSeq
      <3> QED BY <2>2, <3>1, StoredAdded
    <2> QED BY <2>1, <2>2, <2>3, <2>4, TaskIds, PlaceKept
  <1>7. ASSUME NEW t \in Handlers \cup {Cli}, DbRead(t)
        PROVE  PlaceInv'
    <2>1. PICK pc, points, noted, list :
            /\ pc \in {"dbWrite"}
            /\ Moves(t, Record(pc, Id(t), points, noted, task[t].active, list))
      BY <1>7, DbReadDoes DEF Destination
    <2>2. UNCHANGED <<known, up>> /\ DOMAIN files' \subseteq DOMAIN files
      BY <1>7, DbReadDoes
    <2>3. /\ UNCHANGED <<rows, stored>>
          /\ t \in Handlers => Id(t) \in known /\ up
          /\ t = Cli => task[t].pc \notin {"idle", "second", "insert"}
          /\ t \in Tasks /\ t \notin Readers
      BY <1>7, DbReadDoes, TaskIds, StoreAssumption DEF PlaceInv, At
    <2> QED BY <2>1, <2>2, <2>3, TaskIds, PlaceKept
  <1>8. ASSUME NEW t \in Handlers \cup {Cli}, DbWrite(t)
        PROVE  PlaceInv'
    <2>1. Moves(t, Record("idle", 0, <<>>, {}, FALSE, {}))
      BY <1>8, DbWriteDoes
    <2>2. /\ At(t, "dbWrite") /\ t \in Tasks /\ t \notin Readers /\ Id(t) \in SessionIds
          /\ task[t].points \in Seq(Points) /\ task[t].noted \in SUBSET Points
          /\ SetPoints(Id(t), task[t].points) /\ AddStored(t, task[t].noted)
          /\ UNCHANGED <<files, known, up>> /\ (t \in Handlers => Id(t) \in known)
      BY <1>8, DbWriteDoes, TaskFields, TaskIds, StoreAssumption DEF PlaceInv, At
    <2>3. \A i \in SessionIds : i # Id(t) => rows'[i].points = rows[i].points
      BY <2>2, PointsSet
    <2>4. \A i \in SessionIds : i # Id(t) => stored'[i] = stored[i]
      BY <2>2, StoredAdded
    <2>5. \A i \in SessionIds \ known :
                \/ rows'[i].points = rows[i].points /\ stored'[i] = stored[i]
                \/ t = Cli /\ i = Id(Cli) /\ task[Cli].pc \notin {"idle", "second", "insert"}
      BY <1>8, <2>2, <2>3, <2>4 DEF At
    <2> QED BY <2>1, <2>2, <2>5, TaskIds, PlaceKept
  <1>9. ASSUME NEW h \in Handlers, NEW id \in SessionIds, EndClose(h, id)
        PROVE  PlaceInv'
    <2>1. /\ task'[h].pc = "endPoints" /\ task'[h].id = id /\ h \in Tasks
          /\ \A u \in Tasks : u # h => task'[u] = task[u]
          /\ UNCHANGED <<rows, stored, known, up>> /\ id \in known /\ up /\ At(h, "idle")
          /\ id \in DOMAIN files /\ id # 0
      <3>1. task'[h].pc = "endPoints" /\ task'[h].id = id /\ \A u \in Tasks : u # h => task'[u] = task[u]
        BY <1>9, EndCloseDoes, MovedFields
      <3> QED BY <1>9, EndCloseDoes, <3>1, TaskIds, BufferFields
    <2>2. DOMAIN files' = DOMAIN files \ {id}
      BY <1>9, EndCloseDoes, BufferFields, EntryDropped
    <2>3. \A other \in Handlers : Ending(other) \/ At(other, "start") => Id(other) # id
      BY <2>1 DEF PlaceInv, At
    <2>4. task[Cli].pc \notin {"idle", "second", "insert"} => id # Id(Cli)
      BY <2>1 DEF PlaceInv
    <2> QED BY <2>1, <2>2, <2>3, <2>4, TaskIds DEF PlaceInv, At, Id, Ending
  <1>10. ASSUME NEW h \in Handlers, EndPoints(h)
        PROVE  PlaceInv'
    <2>1. Moves(h, Record("endActive", Id(h), <<>>, task[h].noted, task[h].active, task[h].list))
      BY <1>10, EndPointsDoes
    <2>2. UNCHANGED <<known, up>> /\ DOMAIN files' \subseteq DOMAIN files
      BY <1>10, EndPointsDoes
    <2>3. /\ \A i \in SessionIds \ known : rows'[i].points = rows[i].points /\ stored'[i] = stored[i]
          /\ Ending(h)
      BY <1>10, EndPointsDoes, TaskIds, TaskFields, PointsSet DEF PlaceInv, At, Ending
    <2> QED BY <2>1, <2>2, <2>3, TaskIds, PlaceKept
  <1>11. ASSUME NEW h \in Handlers, EndActive(h)
        PROVE  PlaceInv'
    <2>1. Moves(h, Record("idle", 0, <<>>, {}, FALSE, {}))
      BY <1>11, EndActiveDoes
    <2>2. UNCHANGED <<known, up>> /\ DOMAIN files' \subseteq DOMAIN files
      BY <1>11, EndActiveDoes
    <2>3. /\ \A i \in SessionIds : rows'[i].points = rows[i].points /\ stored'[i] = stored[i]
      BY <1>11, EndActiveDoes, TaskIds, ActiveCleared
    <2> QED BY <2>1, <2>2, <2>3, TaskIds, PlaceKept
  <1>12. ASSUME NEW h \in Handlers, StartFails(h)
        PROVE  PlaceInv'
    <2>1. /\ task'[h].pc = "idle" /\ task'[h].id = 0 /\ h \in Tasks
          /\ \A u \in Tasks : u # h => task'[u] = task[u]
          /\ UNCHANGED <<rows, stored, known, up>>
          /\ At(h, "start") /\ Id(h) \in SessionIds
      BY <1>12, StartFailsDoes, TaskIds DEF Moves, Record, At
    <2>2. DOMAIN files' \subseteq DOMAIN files \cup {Id(h)}
      <3>1. /\ files \in Maps /\ Id(h) \in Nat
            /\ UNCHANGED files \/ files' = WithNew(files, Id(h))
        BY <1>12, StartFailsDoes, BufferFields, TaskFields, TaskIds
      <3> QED BY <3>1, EntryNew
    <2>3. \A other \in Handlers : Id(other) = Id(h) => other = h
      BY <2>1 DEF PlaceInv
    <2>4. task[Cli].pc \notin {"idle", "second", "insert"} => Id(h) # Id(Cli)
      BY DEF PlaceInv
    <2> QED BY <2>1, <2>2, <2>3, <2>4, TaskIds DEF PlaceInv, At, Id, Ending
  <1>13. ASSUME NEW h \in Handlers, AppendFails(h)
        PROVE  PlaceInv'
    <2>1. Moves(h, Record("idle", 0, <<>>, {}, FALSE, {}))
      BY <1>13, AppendFailsDoes
    <2>2. UNCHANGED <<known, up>> /\ DOMAIN files' \subseteq DOMAIN files
      BY <1>13, AppendFailsDoes
    <2>3. /\ \A i \in SessionIds : rows'[i].points = rows[i].points /\ stored'[i] = stored[i]
      BY <1>13, AppendFailsDoes, TaskIds
    <2> QED BY <2>1, <2>2, <2>3, TaskIds, PlaceKept
  <1>14. ASSUME NEW h \in Handlers, NEW id \in SessionIds, CloseFails(h, id)
        PROVE  PlaceInv'
    BY <1>14, CloseFailsDoes, TaskIds DEF PlaceInv, At, Id, Ending
  <1>15. ASSUME NEW r \in Readers, NEW id \in SessionIds, ReadRow(r, id)
        PROVE  PlaceInv'
    <2>1. PICK pc, points, noted : Moves(r, Record(pc, id, points, noted, FALSE, {}))
      BY <1>15, ReadRowDoes
    <2>2. UNCHANGED <<known, up>> /\ DOMAIN files' \subseteq DOMAIN files
      BY <1>15, ReadRowDoes
    <2>3. /\ \A i \in SessionIds : rows'[i].points = rows[i].points /\ stored'[i] = stored[i]
          /\ up /\ r # Cli /\ r \notin Handlers
      BY <1>15, ReadRowDoes, TaskIds, StoreAssumption DEF ReadRow, ReadOf
    <2> QED BY <2>1, <2>2, <2>3, TaskIds, PlaceKept
  <1>16. ASSUME NEW r \in Readers, ReadBuffer(r)
        PROVE  PlaceInv'
    <2>1. PICK points, noted, active, list : Moves(r, Record("answer", Id(r), points, noted, active, list))
      BY <1>16, ReadBufferDoes
    <2>2. UNCHANGED <<known, up>> /\ DOMAIN files' \subseteq DOMAIN files
      BY <1>16, ReadBufferDoes
    <2>3. /\ \A i \in SessionIds : rows'[i].points = rows[i].points /\ stored'[i] = stored[i]
          /\ up /\ r # Cli /\ r \notin Handlers
      BY <1>16, ReadBufferDoes, TaskIds, StoreAssumption DEF PlaceInv, At
    <2> QED BY <2>1, <2>2, <2>3, TaskIds, PlaceKept
  <1>17. ASSUME NEW id \in SessionIds, Ends(id)
        PROVE  PlaceInv'
    <2>1. \A i \in SessionIds : rows'[i].points = rows[i].points
      BY <1>17, EndsDoes, ActiveCleared
    <2> QED BY <1>17, EndsDoes, <2>1, TaskIds DEF PlaceInv, At, Id, Ending
  <1>18. ASSUME NEW id \in SessionIds, FixTime(id) \/ Combine(id)
        PROVE  PlaceInv'
    <2>1. PICK pc, points, noted, active : pc \in {"insert", "second"} /\
            Moves(Cli, Record(pc, id, points, noted, active, {}))
      BY <1>18, TakeDoes
    <2>2. UNCHANGED <<known, up>> /\ DOMAIN files' \subseteq DOMAIN files
      BY <1>18, TakeDoes
    <2>3. /\ \A i \in SessionIds : rows'[i].points = rows[i].points /\ stored'[i] = stored[i]
      BY <1>18, TakeDoes, TaskIds
    <2> QED BY <2>1, <2>2, <2>3, TaskIds, PlaceKept
  <1>19. ASSUME NEW id \in SessionIds, CombineWith(id)
        PROVE  PlaceInv'
    <2>1. PICK points, noted : Moves(Cli, Record("insert", Id(Cli), points, noted, task[Cli].active, task[Cli].list))
      BY <1>19, CombineWithDoes
    <2>2. UNCHANGED <<known, up>> /\ DOMAIN files' \subseteq DOMAIN files
      BY <1>19, CombineWithDoes
    <2>3. /\ \A i \in SessionIds : rows'[i].points = rows[i].points /\ stored'[i] = stored[i]
      BY <1>19, CombineWithDoes, TaskIds
    <2> QED BY <2>1, <2>2, <2>3, TaskIds, PlaceKept
  <1>20. ASSUME CopyRow
        PROVE  PlaceInv'
    <2>1. /\ task'[Cli].pc = "copy" /\ task'[Cli].id = Len(rows) + 1
          /\ \A u \in Tasks : u # Cli => task'[u] = task[u]
      <3>1. PICK points, noted, active, list :
                Moves(Cli, Record("copy", Len(rows) + 1, points, noted, active, list))
        BY <1>20, CopyRowDoes
      <3> QED BY <3>1, MovedFields
    <2>2. /\ Len(rows) + 1 \notin SessionIds /\ Len(rows) + 1 # 0 /\ stored'[Len(rows) + 1] = {}
          /\ \A i \in SessionIds : rows'[i] = rows[i] /\ stored'[i] = stored[i]
          /\ UNCHANGED <<known, up, files>>
      BY <1>20, CopyRowDoes, RowInserted, TaskFields, TaskIds
    <2>3. /\ \A u \in Tasks : Id(u) # Len(rows) + 1
          /\ Len(rows) + 1 \notin known \cup DOMAIN files
      BY <2>2, TaskIds, BufferFields
    <2> QED BY <2>1, <2>2, <2>3, TaskIds DEF PlaceInv, At, Id, Ending
  <1>21. ASSUME CopyPoints
        PROVE  PlaceInv'
    <2>1. Moves(Cli, Record("idle", 0, <<>>, {}, FALSE, {}))
      BY <1>21, CopyPointsDoes
    <2>2. UNCHANGED <<known, up>> /\ DOMAIN files' \subseteq DOMAIN files
      BY <1>21, CopyPointsDoes
    <2>3. \A i \in SessionIds :
                \/ rows'[i].points = rows[i].points /\ stored'[i] = stored[i]
                \/ i = Id(Cli) /\ task[Cli].pc \notin {"idle", "second", "insert"}
      BY <1>21, CopyPointsDoes, TaskIds, TaskFields, PointsSet DEF At
    <2> QED BY <2>1, <2>2, <2>3, TaskIds, PlaceKept
  <1>22. ASSUME AddGpx
        PROVE  PlaceInv'
    <2>1. /\ task'[Cli].pc = "trip" /\ task'[Cli].id = Len(rows) + 1
          /\ \A u \in Tasks : u # Cli => task'[u] = task[u]
      <3>1. PICK points, noted, active, list :
                Moves(Cli, Record("trip", Len(rows) + 1, points, noted, active, list))
        BY <1>22, AddGpxDoes
      <3> QED BY <3>1, MovedFields
    <2>2. /\ Len(rows) + 1 \notin SessionIds /\ Len(rows) + 1 # 0 /\ stored'[Len(rows) + 1] = {}
          /\ \A i \in SessionIds : rows'[i] = rows[i] /\ stored'[i] = stored[i]
          /\ UNCHANGED <<known, up, files>>
      BY <1>22, AddGpxDoes, RowInserted, TaskFields, TaskIds
    <2>3. /\ \A u \in Tasks : Id(u) # Len(rows) + 1
          /\ Len(rows) + 1 \notin known \cup DOMAIN files
      BY <2>2, TaskIds, BufferFields
    <2> QED BY <2>1, <2>2, <2>3, TaskIds DEF PlaceInv, At, Id, Ending
  <1>23. ASSUME Crash
        PROVE  PlaceInv'
    <2>1. /\ \A u \in Handlers \cup Readers : task'[u].pc = "idle" /\ task'[u].id = 0
          /\ task'[Cli] = task[Cli] /\ UNCHANGED <<rows, stored, known>>
      BY <1>23, CrashDoes, TaskIds DEF Record, Tasks
    <2>2. task[Cli].pc \notin {"idle", "second", "insert"} => Id(Cli) \notin DOMAIN files'
      BY <1>23, CrashDoes DEF PlaceInv
    <2> QED BY <2>1, <2>2, TaskIds DEF PlaceInv, At, Id, Ending
  <1>24. ASSUME Returns
        PROVE  PlaceInv'
    <2>1. PICK t \in Tasks : Moves(t, Record("idle", 0, <<>>, {}, FALSE, {}))
      BY <1>24, ReturnsDoes
    <2>2. UNCHANGED <<known, up>> /\ DOMAIN files' \subseteq DOMAIN files
      BY <1>24, ReturnsDoes
    <2>3. /\ \A i \in SessionIds : rows'[i].points = rows[i].points /\ stored'[i] = stored[i]
      BY <1>24, ReturnsDoes, TaskIds
    <2> QED BY <2>1, <2>2, <2>3, TaskIds, PlaceKept
  <1>25. ASSUME UNCHANGED vars
        PROVE  PlaceInv'
    BY <1>25 DEF PlaceInv, At, Id, Ending, vars, tableVars, bufferVars, boundVars, ghostVars
  <1> QED BY StepCases, <1>1, <1>2, <1>3, <1>4, <1>5, <1>6, <1>7, <1>8, <1>9, <1>10, <1>11, <1>12,
         <1>13, <1>14, <1>15, <1>16, <1>17, <1>18, <1>19, <1>20, <1>21, <1>22, <1>23,
         <1>24, <1>25, Zenon

-----------------------------------------------------------------------------
\* Which rows are active

\* No row becomes active again, and no point is taken back.
LEMMA Monotone ==
    ASSUME StoreTypes, PlaceInv, [Next]_vars
    PROVE  SessionIds \subseteq SessionIds'
           /\ \A i \in SessionIds :
                /\ rows'[i].active => rows[i].active
                /\ stored[i] \subseteq stored'[i]
  <1>1. ASSUME NEW h \in Handlers, RegisterRow(h)
        PROVE  SessionIds \subseteq SessionIds'
           /\ \A i \in SessionIds :
                /\ rows'[i].active => rows[i].active
                /\ stored[i] \subseteq stored'[i]
    BY <1>1, RegisterRowDoes, RowInserted
  <1>2. ASSUME NEW h \in Handlers, StartBuffer(h)
        PROVE  SessionIds \subseteq SessionIds'
           /\ \A i \in SessionIds :
                /\ rows'[i].active => rows[i].active
                /\ stored[i] \subseteq stored'[i]
    BY <1>2, StartBufferDoes DEF SessionIds
  <1>3. ASSUME NEW h \in Handlers, NEW id \in SessionIds, AppendLookup(h, id)
        PROVE  SessionIds \subseteq SessionIds'
           /\ \A i \in SessionIds :
                /\ rows'[i].active => rows[i].active
                /\ stored[i] \subseteq stored'[i]
    BY <1>3, AppendLookupDoes DEF SessionIds
  <1>4. ASSUME NEW t \in Handlers \cup {Cli}, ReadTrip(t)
        PROVE  SessionIds \subseteq SessionIds'
           /\ \A i \in SessionIds :
                /\ rows'[i].active => rows[i].active
                /\ stored[i] \subseteq stored'[i]
    BY <1>4, ReadTripDoes DEF SessionIds
  <1>5. ASSUME NEW t \in Handlers \cup {Cli}, WriteCountries(t)
        PROVE  SessionIds \subseteq SessionIds'
           /\ \A i \in SessionIds :
                /\ rows'[i].active => rows[i].active
                /\ stored[i] \subseteq stored'[i]
    BY <1>5, WriteCountriesDoes DEF SessionIds
  <1>6. ASSUME NEW h \in Handlers, AppendBuffer(h)
        PROVE  SessionIds \subseteq SessionIds'
           /\ \A i \in SessionIds :
                /\ rows'[i].active => rows[i].active
                /\ stored[i] \subseteq stored'[i]
    <2>1. h \in Tasks /\ Id(h) \in SessionIds /\ Range(task[h].points) \in SUBSET Points
          /\ UNCHANGED rows /\ AddStored(h, Range(task[h].points))
      BY <1>6, AppendBufferDoes, TaskIds, TaskFields, RangeSeq DEF At
    <2> QED BY <2>1, StoredAdded DEF SessionIds
  <1>7. ASSUME NEW t \in Handlers \cup {Cli}, DbRead(t)
        PROVE  SessionIds \subseteq SessionIds'
           /\ \A i \in SessionIds :
                /\ rows'[i].active => rows[i].active
                /\ stored[i] \subseteq stored'[i]
    BY <1>7, DbReadDoes DEF SessionIds
  <1>8. ASSUME NEW t \in Handlers \cup {Cli}, DbWrite(t)
        PROVE  SessionIds \subseteq SessionIds'
           /\ \A i \in SessionIds :
                /\ rows'[i].active => rows[i].active
                /\ stored[i] \subseteq stored'[i]
    <2>1. /\ t \in Tasks /\ Id(t) \in SessionIds
          /\ task[t].points \in Seq(Points) /\ task[t].noted \in SUBSET Points
          /\ SetPoints(Id(t), task[t].points) /\ AddStored(t, task[t].noted)
      BY <1>8, DbWriteDoes, TaskIds, TaskFields
    <2>2. SessionIds' = SessionIds /\ \A i \in SessionIds : rows'[i].active = rows[i].active
      BY <2>1, PointsSet
    <2>3. \A i \in SessionIds : stored[i] \subseteq stored'[i]
      BY <2>1, StoredAdded
    <2> QED BY <2>2, <2>3
  <1>9. ASSUME NEW h \in Handlers, NEW id \in SessionIds, EndClose(h, id)
        PROVE  SessionIds \subseteq SessionIds'
           /\ \A i \in SessionIds :
                /\ rows'[i].active => rows[i].active
                /\ stored[i] \subseteq stored'[i]
    BY <1>9, EndCloseDoes DEF SessionIds
  <1>10. ASSUME NEW h \in Handlers, EndPoints(h)
        PROVE  SessionIds \subseteq SessionIds'
           /\ \A i \in SessionIds :
                /\ rows'[i].active => rows[i].active
                /\ stored[i] \subseteq stored'[i]
    BY <1>10, EndPointsDoes, PointsSet, TaskFields, TaskIds
  <1>11. ASSUME NEW h \in Handlers, EndActive(h)
        PROVE  SessionIds \subseteq SessionIds'
           /\ \A i \in SessionIds :
                /\ rows'[i].active => rows[i].active
                /\ stored[i] \subseteq stored'[i]
    BY <1>11, EndActiveDoes, ActiveCleared
  <1>12. ASSUME NEW h \in Handlers, StartFails(h)
        PROVE  SessionIds \subseteq SessionIds'
           /\ \A i \in SessionIds :
                /\ rows'[i].active => rows[i].active
                /\ stored[i] \subseteq stored'[i]
    BY <1>12, StartFailsDoes DEF SessionIds
  <1>13. ASSUME NEW h \in Handlers, AppendFails(h)
        PROVE  SessionIds \subseteq SessionIds'
           /\ \A i \in SessionIds :
                /\ rows'[i].active => rows[i].active
                /\ stored[i] \subseteq stored'[i]
    BY <1>13, AppendFailsDoes DEF SessionIds
  <1>14. ASSUME NEW h \in Handlers, NEW id \in SessionIds, CloseFails(h, id)
        PROVE  SessionIds \subseteq SessionIds'
           /\ \A i \in SessionIds :
                /\ rows'[i].active => rows[i].active
                /\ stored[i] \subseteq stored'[i]
    BY <1>14, CloseFailsDoes DEF SessionIds
  <1>15. ASSUME NEW r \in Readers, NEW id \in SessionIds, ReadRow(r, id)
        PROVE  SessionIds \subseteq SessionIds'
           /\ \A i \in SessionIds :
                /\ rows'[i].active => rows[i].active
                /\ stored[i] \subseteq stored'[i]
    BY <1>15, ReadRowDoes DEF SessionIds
  <1>16. ASSUME NEW r \in Readers, ReadBuffer(r)
        PROVE  SessionIds \subseteq SessionIds'
           /\ \A i \in SessionIds :
                /\ rows'[i].active => rows[i].active
                /\ stored[i] \subseteq stored'[i]
    BY <1>16, ReadBufferDoes DEF SessionIds
  <1>17. ASSUME NEW id \in SessionIds, Ends(id)
        PROVE  SessionIds \subseteq SessionIds'
           /\ \A i \in SessionIds :
                /\ rows'[i].active => rows[i].active
                /\ stored[i] \subseteq stored'[i]
    BY <1>17, EndsDoes, ActiveCleared
  <1>18. ASSUME NEW id \in SessionIds, FixTime(id) \/ Combine(id)
        PROVE  SessionIds \subseteq SessionIds'
           /\ \A i \in SessionIds :
                /\ rows'[i].active => rows[i].active
                /\ stored[i] \subseteq stored'[i]
    BY <1>18, TakeDoes DEF SessionIds
  <1>19. ASSUME NEW id \in SessionIds, CombineWith(id)
        PROVE  SessionIds \subseteq SessionIds'
           /\ \A i \in SessionIds :
                /\ rows'[i].active => rows[i].active
                /\ stored[i] \subseteq stored'[i]
    BY <1>19, CombineWithDoes DEF SessionIds
  <1>20. ASSUME CopyRow
        PROVE  SessionIds \subseteq SessionIds'
           /\ \A i \in SessionIds :
                /\ rows'[i].active => rows[i].active
                /\ stored[i] \subseteq stored'[i]
    BY <1>20, CopyRowDoes, RowInserted, TaskFields, TaskIds
  <1>21. ASSUME CopyPoints
        PROVE  SessionIds \subseteq SessionIds'
           /\ \A i \in SessionIds :
                /\ rows'[i].active => rows[i].active
                /\ stored[i] \subseteq stored'[i]
    BY <1>21, CopyPointsDoes, PointsSet, TaskFields, TaskIds
  <1>22. ASSUME AddGpx
        PROVE  SessionIds \subseteq SessionIds'
           /\ \A i \in SessionIds :
                /\ rows'[i].active => rows[i].active
                /\ stored[i] \subseteq stored'[i]
    BY <1>22, AddGpxDoes, RowInserted
  <1>23. ASSUME Crash
        PROVE  SessionIds \subseteq SessionIds'
           /\ \A i \in SessionIds :
                /\ rows'[i].active => rows[i].active
                /\ stored[i] \subseteq stored'[i]
    BY <1>23, CrashDoes DEF SessionIds
  <1>24. ASSUME Returns
        PROVE  SessionIds \subseteq SessionIds'
           /\ \A i \in SessionIds :
                /\ rows'[i].active => rows[i].active
                /\ stored[i] \subseteq stored'[i]
    BY <1>24, ReturnsDoes DEF SessionIds
  <1>25. ASSUME UNCHANGED vars
        PROVE  SessionIds \subseteq SessionIds'
           /\ \A i \in SessionIds :
                /\ rows'[i].active => rows[i].active
                /\ stored[i] \subseteq stored'[i]
    BY <1>25 DEF vars, tableVars, ghostVars, SessionIds
  <1> QED BY StepCases, <1>1, <1>2, <1>3, <1>4, <1>5, <1>6, <1>7, <1>8, <1>9, <1>10, <1>11, <1>12,
         <1>13, <1>14, <1>15, <1>16, <1>17, <1>18, <1>19, <1>20, <1>21, <1>22, <1>23,
         <1>24, <1>25, Zenon

LEMMA InactiveKept ==
    ASSUME StoreTypes, InactiveInv, NEW t \in Tasks, NEW pc, NEW id, NEW points, NEW noted, NEW active,
           NEW list, Moves(t, Record(pc, id, points, noted, active, list)),
           \A i \in SessionIds : rows'[i].active => rows[i].active,
           pc \in Appending /\ ~active => ~rows'[id].active,
           pc \in {"dbRead", "dbWrite"} => ~active,
           pc \in {"trip", "countries"} /\ t = Cli => ~active
    PROVE  InactiveInv'
  <1>1. /\ task'[t].pc = pc /\ task'[t].id = id /\ task'[t].active = active
        /\ \A u \in Tasks : u # t => task'[u] = task[u]
    BY MovedFields
  <1>2. \A u \in Tasks : task[u].pc \in Appending => Id(u) \in SessionIds
    BY TaskIds DEF Appending, At
  <1> QED BY <1>1, <1>2, TaskIds DEF InactiveInv, Id, At

LEMMA NextInactive ==
    ASSUME StoreTypes, PlaceInv, InactiveInv, [Next]_vars
    PROVE  InactiveInv'
  <1>0. \A i \in SessionIds : rows'[i].active => rows[i].active
    BY Monotone
  <1>a. \A u \in Tasks : task[u].pc \in Appending => Id(u) \in SessionIds
    BY TaskIds DEF Appending, At
  <1>1. ASSUME NEW h \in Handlers, RegisterRow(h)
        PROVE  InactiveInv'
    <2>1. PICK points, noted, active, list : Moves(h, Record("start", Len(rows) + 1, points, noted, active, list))
      BY <1>1, RegisterRowDoes
    <2> QED BY <2>1, <1>0, TaskIds, InactiveKept DEF Appending
  <1>2. ASSUME NEW h \in Handlers, StartBuffer(h)
        PROVE  InactiveInv'
    <2>1. PICK points, noted, active, list : Moves(h, Record("idle", 0, points, noted, active, list))
      BY <1>2, StartBufferDoes
    <2> QED BY <2>1, <1>0, TaskIds, InactiveKept DEF Appending
  <1>3. ASSUME NEW h \in Handlers, NEW id \in SessionIds, AppendLookup(h, id)
        PROVE  InactiveInv'
    <2>1. PICK batch : Moves(h, Record("trip", id, batch, {}, rows[id].active, {}))
      BY <1>3, AppendLookupDoes
    <2>2. UNCHANGED rows /\ h # Cli
      BY <1>3, AppendLookupDoes, StoreAssumption
    <2> QED BY <2>1, <2>2, <1>0, TaskIds, InactiveKept
  <1>4. ASSUME NEW t \in Handlers \cup {Cli}, ReadTrip(t)
        PROVE  InactiveInv'
    <2>1. PICK pc, list :
                /\ pc \in {"countries", Destination(t)}
                /\ Moves(t, Record(pc, Id(t), task[t].points, task[t].noted, task[t].active, list))
      BY <1>4, ReadTripGoes
    <2>2. UNCHANGED rows /\ task[t].pc = "trip" /\ t \in Tasks
      BY <1>4, ReadTripDoes, TaskIds DEF At
    <2>3. /\ ~task[t].active => ~rows'[Id(t)].active
          /\ t = Cli => ~task[t].active
      BY <2>2 DEF InactiveInv, Appending
    <2>4. pc \in {"dbRead", "dbWrite"} => ~task[t].active
      BY <2>1 DEF Destination
    <2> QED BY <2>1, <2>2, <2>3, <2>4, <1>0, InactiveKept
  <1>5. ASSUME NEW t \in Handlers \cup {Cli}, WriteCountries(t)
        PROVE  InactiveInv'
    <2>1. PICK pc, list :
                /\ pc = Destination(t)
                /\ Moves(t, Record(pc, Id(t), task[t].points, task[t].noted, task[t].active, list))
      BY <1>5, WriteCountriesDoes
    <2>2. UNCHANGED rows /\ task[t].pc = "countries" /\ t \in Tasks
      BY <1>5, WriteCountriesDoes, TaskIds DEF At
    <2>3. /\ ~task[t].active => ~rows'[Id(t)].active
          /\ t = Cli => ~task[t].active
      BY <2>2 DEF InactiveInv, Appending
    <2>4. pc \in {"dbRead", "dbWrite"} => ~task[t].active
      BY <2>1 DEF Destination
    <2> QED BY <2>1, <2>2, <2>3, <2>4, <1>0, InactiveKept
  <1>6. ASSUME NEW h \in Handlers, AppendBuffer(h)
        PROVE  InactiveInv'
    <2>1. PICK points, noted, active, list : Moves(h, Record("idle", 0, points, noted, active, list))
      BY <1>6, AppendBufferDoes
    <2> QED BY <2>1, <1>0, TaskIds, InactiveKept DEF Appending
  <1>7. ASSUME NEW t \in Handlers \cup {Cli}, DbRead(t)
        PROVE  InactiveInv'
    <2>1. PICK points, noted, list :
                Moves(t, Record("dbWrite", Id(t), points, noted, task[t].active, list))
      BY <1>7, DbReadDoes
    <2>2. UNCHANGED rows /\ task[t].pc = "dbRead" /\ t \in Tasks
      BY <1>7, DbReadDoes, TaskIds DEF At
    <2>3. ~task[t].active /\ ~rows'[Id(t)].active
      BY <2>2 DEF InactiveInv, Appending
    <2> QED BY <2>1, <2>2, <2>3, <1>0, InactiveKept
  <1>8. ASSUME NEW t \in Handlers \cup {Cli}, DbWrite(t)
        PROVE  InactiveInv'
    <2>1. PICK points, noted, active, list : Moves(t, Record("idle", 0, points, noted, active, list))
      BY <1>8, DbWriteDoes
    <2> QED BY <2>1, <1>0, TaskIds, InactiveKept DEF Appending
  <1>9. ASSUME NEW h \in Handlers, NEW id \in SessionIds, EndClose(h, id)
        PROVE  InactiveInv'
    <2>1. PICK points, noted, active, list : Moves(h, Record("endPoints", id, points, noted, active, list))
      BY <1>9, EndCloseDoes
    <2> QED BY <2>1, <1>0, TaskIds, InactiveKept DEF Appending
  <1>10. ASSUME NEW h \in Handlers, EndPoints(h)
        PROVE  InactiveInv'
    <2>1. PICK points, noted, active, list : Moves(h, Record("endActive", Id(h), points, noted, active, list))
      BY <1>10, EndPointsDoes
    <2> QED BY <2>1, <1>0, TaskIds, InactiveKept DEF Appending
  <1>11. ASSUME NEW h \in Handlers, EndActive(h)
        PROVE  InactiveInv'
    <2>1. PICK points, noted, active, list : Moves(h, Record("idle", 0, points, noted, active, list))
      BY <1>11, EndActiveDoes
    <2> QED BY <2>1, <1>0, TaskIds, InactiveKept DEF Appending
  <1>12. ASSUME NEW h \in Handlers, StartFails(h)
        PROVE  InactiveInv'
    <2>1. PICK points, noted, active, list : Moves(h, Record("idle", 0, points, noted, active, list))
      BY <1>12, StartFailsDoes
    <2> QED BY <2>1, <1>0, TaskIds, InactiveKept DEF Appending
  <1>13. ASSUME NEW h \in Handlers, AppendFails(h)
        PROVE  InactiveInv'
    <2>1. PICK points, noted, active, list : Moves(h, Record("idle", 0, points, noted, active, list))
      BY <1>13, AppendFailsDoes
    <2> QED BY <2>1, <1>0, TaskIds, InactiveKept DEF Appending
  <1>14. ASSUME NEW h \in Handlers, NEW id \in SessionIds, CloseFails(h, id)
        PROVE  InactiveInv'
    <2>1. UNCHANGED task
      BY <1>14, CloseFailsDoes
    <2> QED BY <2>1, <1>0, <1>a DEF InactiveInv, Id, At
  <1>15. ASSUME NEW r \in Readers, NEW id \in SessionIds, ReadRow(r, id)
        PROVE  InactiveInv'
    <2>1. PICK pc \in {"readBuffer", "answer"} :
                Moves(r, Record(pc, id, rows[id].points, stored[id], FALSE, {}))
      BY <1>15, ReadRowDoes
    <2> QED BY <2>1, <1>0, TaskIds, InactiveKept DEF Appending
  <1>16. ASSUME NEW r \in Readers, ReadBuffer(r)
        PROVE  InactiveInv'
    <2>1. PICK points, noted, active, list : Moves(r, Record("answer", Id(r), points, noted, active, list))
      BY <1>16, ReadBufferDoes
    <2> QED BY <2>1, <1>0, TaskIds, InactiveKept DEF Appending
  <1>17. ASSUME NEW id \in SessionIds, Ends(id)
        PROVE  InactiveInv'
    <2>1. UNCHANGED task
      BY <1>17, EndsDoes
    <2> QED BY <2>1, <1>0, <1>a DEF InactiveInv, Id, At
  <1>18. ASSUME NEW id \in SessionIds, FixTime(id) \/ Combine(id)
        PROVE  InactiveInv'
    <2>1. PICK pc, points, noted, active : pc \in {"insert", "second"} /\
                Moves(Cli, Record(pc, id, points, noted, active, {}))
      BY <1>18, TakeDoes
    <2> QED BY <2>1, <1>0, TaskIds, InactiveKept DEF Appending
  <1>19. ASSUME NEW id \in SessionIds, CombineWith(id)
        PROVE  InactiveInv'
    <2>1. PICK points, noted, active, list : Moves(Cli, Record("insert", Id(Cli), points, noted, active, list))
      BY <1>19, CombineWithDoes
    <2> QED BY <2>1, <1>0, TaskIds, InactiveKept DEF Appending
  <1>20. ASSUME CopyRow
        PROVE  InactiveInv'
    <2>1. PICK points, noted, active, list : Moves(Cli, Record("copy", Len(rows) + 1, points, noted, active, list))
      BY <1>20, CopyRowDoes
    <2> QED BY <2>1, <1>0, TaskIds, InactiveKept DEF Appending
  <1>21. ASSUME CopyPoints
        PROVE  InactiveInv'
    <2>1. PICK points, noted, active, list : Moves(Cli, Record("idle", 0, points, noted, active, list))
      BY <1>21, CopyPointsDoes
    <2> QED BY <2>1, <1>0, TaskIds, InactiveKept DEF Appending
  <1>22. ASSUME AddGpx
        PROVE  InactiveInv'
    <2>1. PICK batch : Moves(Cli, Record("trip", Len(rows) + 1, batch, {}, FALSE, {}))
      BY <1>22, AddGpxDoes
    <2>2. ~rows'[Len(rows) + 1].active
      BY <1>22, AddGpxDoes, RowInserted
    <2> QED BY <2>1, <2>2, <1>0, TaskIds, InactiveKept
  <1>23. ASSUME Crash
        PROVE  InactiveInv'
    <2>1. /\ \A u \in Tasks : u # Cli => task'[u].pc = "idle"
          /\ task'[Cli] = task[Cli]
      BY <1>23, CrashDoes DEF Record
    <2>2. \A u \in Tasks : task'[u].pc \in Appending => task'[u] = task[u]
      BY <2>1 DEF Appending
    <2>3. \A u \in Tasks : task'[u].pc \in {"trip", "countries", "dbRead", "dbWrite"} => task'[u] = task[u]
      BY <2>1
    <2> QED BY <2>2, <2>3, <1>0, <1>a DEF InactiveInv, Id, At
  <1>24. ASSUME Returns
        PROVE  InactiveInv'
    <2>1. PICK t \in Tasks : Moves(t, Record("idle", 0, <<>>, {}, FALSE, {}))
      BY <1>24, ReturnsDoes
    <2>2. \A pc : pc = "idle" => pc \notin Appending
      BY DEF Appending
    <2> QED BY <2>1, <2>2, <1>0, TaskIds, InactiveKept DEF Appending
  <1>25. ASSUME UNCHANGED vars
        PROVE  InactiveInv'
    <2>1. UNCHANGED task
      BY <1>25 DEF vars
    <2> QED BY <2>1, <1>0, <1>a DEF InactiveInv, Id, At
  <1> QED BY StepCases, <1>1, <1>2, <1>3, <1>4, <1>5, <1>6, <1>7, <1>8, <1>9, <1>10, <1>11, <1>12,
         <1>13, <1>14, <1>15, <1>16, <1>17, <1>18, <1>19, <1>20, <1>21, <1>22, <1>23,
         <1>24, <1>25, Zenon

-----------------------------------------------------------------------------
\* Where the points of the active sessions are

LEMMA KeepKept ==
    ASSUME StoreTypes, PlaceInv, KeepInv, NEW t \in Tasks, NEW pc, NEW id, NEW points, NEW noted,
           NEW active, NEW list, Moves(t, Record(pc, id, points, noted, active, list)),
           t \in Handlers => pc \notin {"endPoints", "endActive"},
           UNCHANGED <<rows, stored>>,
           \A i \in DOMAIN files' :
                \/ i \in DOMAIN files /\ Range(files[i]) \subseteq Range(files'[i])
                \/ stored[i] = {},
           \A i \in DOMAIN buffers' :
                \/ i \in DOMAIN buffers /\ Range(buffers[i]) \subseteq Range(buffers'[i])
                \/ stored[i] = {}
    PROVE  KeepInv'
  <1>1. /\ task'[t].pc = pc /\ \A u \in Tasks : u # t => task'[u] = task[u]
    BY MovedFields
  <1>2. SUFFICES ASSUME NEW i \in SessionIds, rows[i].active
                 PROVE  /\ i \in DOMAIN files' => stored[i] \subseteq Range(files'[i])
                        /\ i \in DOMAIN buffers' => stored[i] \subseteq Range(buffers'[i])
                        /\ \A h \in Handlers : task'[h].id = i =>
                            /\ task'[h].pc = "endPoints" => stored[i] \subseteq Range(task'[h].points)
                            /\ task'[h].pc = "endActive" => stored[i] \subseteq Range(rows[i].points)
    BY DEF KeepInv, SessionIds, Id, At
  <1>3. /\ i \in DOMAIN files => stored[i] \subseteq Range(files[i])
        /\ i \in DOMAIN buffers => stored[i] \subseteq Range(buffers[i])
        /\ \A h \in Handlers : task[h].id = i =>
            /\ task[h].pc = "endPoints" => stored[i] \subseteq Range(task[h].points)
            /\ task[h].pc = "endActive" => stored[i] \subseteq Range(rows[i].points)
    BY <1>2 DEF KeepInv, Id, At
  <1>4. \A h \in Handlers : task'[h].pc \in {"endPoints", "endActive"} => task'[h] = task[h]
    BY <1>1, TaskIds
  <1>5. i \in DOMAIN files' => stored[i] \subseteq Range(files'[i])
    BY <1>3
  <1>6. i \in DOMAIN buffers' => stored[i] \subseteq Range(buffers'[i])
    BY <1>3
  <1> QED BY <1>3, <1>4, <1>5, <1>6

\* What the entries are after one got longer, or a new one was made.
LEMMA RangesLonger ==
    ASSUME NEW map \in Maps, NEW k \in DOMAIN map, NEW points \in Seq(Points)
    PROVE  /\ DOMAIN Longer(map, k, points) = DOMAIN map
           /\ \A i \in DOMAIN map :
                Range(Longer(map, k, points)[i])
                    = IF i = k THEN Range(map[i]) \cup Range(points) ELSE Range(map[i])
  <1>1. DOMAIN Longer(map, k, points) = DOMAIN map
    BY EntryLonger
  <1>2. \A i \in DOMAIN map \ {k} : Longer(map, k, points)[i] = map[i]
    BY EntryLonger
  <1>3. Range(Longer(map, k, points)[k]) = Range(map[k]) \cup Range(points)
    BY EntryLonger
  <1>4. \A i \in DOMAIN map \ {k} : Range(Longer(map, k, points)[i]) = Range(map[i])
    BY <1>2
  <1> QED BY <1>1, <1>3, <1>4

LEMMA AppendBufferStores ==
    ASSUME StoreTypes, NEW h \in Handlers, AppendBuffer(h)
    PROVE  /\ h \in Tasks /\ Id(h) \in DOMAIN buffers /\ Id(h) \in DOMAIN files
           /\ Id(h) \in SessionIds /\ SessionIds' = SessionIds
           /\ DOMAIN buffers' = DOMAIN buffers /\ DOMAIN files' = DOMAIN files
           /\ \A i \in DOMAIN buffers : Range(buffers'[i]) =
                IF i = Id(h) THEN Range(buffers[i]) \cup Range(task[h].points) ELSE Range(buffers[i])
           /\ \A i \in DOMAIN files : Range(files'[i]) =
                IF i = Id(h) THEN Range(files[i]) \cup Range(task[h].points) ELSE Range(files[i])
           /\ \A i \in SessionIds : stored'[i] =
                IF i = Id(h) THEN stored[i] \cup Range(task[h].points) ELSE stored[i]
  <1>1. /\ h \in Tasks /\ Id(h) \in DOMAIN buffers /\ Id(h) \in DOMAIN files
        /\ Id(h) \in SessionIds /\ task[h].points \in Seq(Points)
        /\ buffers \in Maps /\ files \in Maps
    BY AppendBufferDoes, TaskIds, TaskFields, BufferFields
  <1>2. /\ buffers' = Longer(buffers, Id(h), task[h].points)
        /\ files' = Longer(files, Id(h), task[h].points)
    BY AppendBufferDoes
  <1>4. /\ DOMAIN Longer(buffers, Id(h), task[h].points) = DOMAIN buffers
        /\ \A i \in DOMAIN buffers : Range(Longer(buffers, Id(h), task[h].points)[i]) =
                IF i = Id(h) THEN Range(buffers[i]) \cup Range(task[h].points) ELSE Range(buffers[i])
    BY <1>1, RangesLonger
  <1>5. /\ DOMAIN Longer(files, Id(h), task[h].points) = DOMAIN files
        /\ \A i \in DOMAIN files : Range(Longer(files, Id(h), task[h].points)[i]) =
                IF i = Id(h) THEN Range(files[i]) \cup Range(task[h].points) ELSE Range(files[i])
    BY <1>1, RangesLonger
  <1>6. Range(task[h].points) \in SUBSET Points /\ AddStored(h, Range(task[h].points))
    BY <1>1, RangeSeq, AppendBufferDoes
  <1>7. SessionIds' = SessionIds
    BY AppendBufferDoes DEF SessionIds
  <1>8. \A i \in SessionIds : stored'[i] =
                IF i = Id(h) THEN stored[i] \cup Range(task[h].points) ELSE stored[i]
    BY <1>1, <1>6, StoredAdded
  <1> QED BY <1>1, <1>2, <1>4, <1>5, <1>7, <1>8

LEMMA AppendFailsAdds ==
    ASSUME StoreTypes, NEW h \in Handlers, AppendFails(h)
    PROVE  /\ h \in Tasks /\ Id(h) \in DOMAIN buffers /\ DOMAIN buffers' = DOMAIN buffers
           /\ \A i \in DOMAIN buffers : Range(buffers'[i]) =
                IF i = Id(h) THEN Range(buffers[i]) \cup Range(task[h].points) ELSE Range(buffers[i])
  <1>1. /\ buffers \in Maps /\ Id(h) \in DOMAIN buffers /\ task[h].points \in Seq(Points)
        /\ h \in Tasks
    BY AppendFailsDoes, BufferFields, TaskIds, TaskFields
  <1>2. /\ DOMAIN Longer(buffers, Id(h), task[h].points) = DOMAIN buffers
        /\ \A i \in DOMAIN buffers : Range(Longer(buffers, Id(h), task[h].points)[i]) =
                IF i = Id(h) THEN Range(buffers[i]) \cup Range(task[h].points) ELSE Range(buffers[i])
    BY <1>1, RangesLonger
  <1>3. buffers' = Longer(buffers, Id(h), task[h].points)
    BY AppendFailsDoes
  <1> QED BY <1>1, <1>2, <1>3

LEMMA StartBufferMakes ==
    ASSUME StoreTypes, NEW h \in Handlers, StartBuffer(h)
    PROVE  /\ Id(h) \in SessionIds /\ SessionIds' = SessionIds
           /\ DOMAIN buffers' = DOMAIN buffers \cup {Id(h)} /\ buffers'[Id(h)] = <<>>
           /\ \A i \in DOMAIN buffers \ {Id(h)} : buffers'[i] = buffers[i]
           /\ DOMAIN files' = DOMAIN files \cup {Id(h)} /\ files'[Id(h)] = <<>>
           /\ \A i \in DOMAIN files \ {Id(h)} : files'[i] = files[i]
  <1>1. buffers' = WithNew(buffers, Id(h)) /\ files' = WithNew(files, Id(h))
    BY StartBufferDoes
  <1>2. Id(h) \in SessionIds /\ SessionIds' = SessionIds
    BY StartBufferDoes, TaskIds DEF At, SessionIds
  <1> QED BY <1>1, <1>2 DEF WithNew

LEMMA StartFailsMakes ==
    ASSUME StoreTypes, NEW h \in Handlers, StartFails(h)
    PROVE  /\ Id(h) \in SessionIds /\ h \in Tasks
           /\ \/ UNCHANGED files
              \/ /\ DOMAIN files' = DOMAIN files \cup {Id(h)} /\ files'[Id(h)] = <<>>
                 /\ \A i \in DOMAIN files \ {Id(h)} : files'[i] = files[i]
  <1>1. UNCHANGED files \/ files' = WithNew(files, Id(h))
    BY StartFailsDoes
  <1>2. Id(h) \in SessionIds /\ h \in Tasks
    BY StartFailsDoes, TaskIds DEF At
  <1> QED BY <1>1, <1>2 DEF WithNew

LEMMA KeepInserted ==
    ASSUME StoreTypes, KeepInv, NEW t \in Tasks, NEW pc, NEW id, NEW points, NEW noted,
           NEW active, NEW list, Moves(t, Record(pc, id, points, noted, active, list)),
           t \in Handlers => pc \notin {"endPoints", "endActive"},
           NEW live \in BOOLEAN, InsertRow(live), UNCHANGED <<files, buffers>>
    PROVE  KeepInv'
  <1>1. /\ task'[t].pc = pc /\ \A u \in Tasks : u # t => task'[u] = task[u]
    BY MovedFields
  <1>2. /\ SessionIds' = SessionIds \cup {Len(rows) + 1}
        /\ \A i \in SessionIds : rows'[i] = rows[i] /\ stored'[i] = stored[i]
        /\ stored'[Len(rows) + 1] = {}
    BY RowInserted
  <1>3. \A h \in Handlers : task'[h].pc \in {"endPoints", "endActive"} => task'[h] = task[h]
    BY <1>1, TaskIds
  <1> QED BY <1>2, <1>3 DEF KeepInv, Id, At

LEMMA NextKeep ==
    ASSUME StoreTypes, PlaceInv, InactiveInv, KeepInv, [Next]_vars
    PROVE  KeepInv'
  <1>1. ASSUME NEW h \in Handlers, RegisterRow(h)
        PROVE  KeepInv'
    <2>1. PICK points, noted, active, list : Moves(h, Record("start", Len(rows) + 1, points, noted, active, list))
      BY <1>1, RegisterRowDoes
    <2>2. PICK live \in BOOLEAN : InsertRow(live) /\ UNCHANGED <<files, buffers>>
      BY <1>1, RegisterRowDoes, TaskFields, TaskIds
    <2> QED BY <2>1, <2>2, TaskIds, KeepInserted
  <1>2. ASSUME NEW h \in Handlers, StartBuffer(h)
        PROVE  KeepInv'
    <2>1. Moves(h, Record("idle", 0, <<>>, {}, FALSE, {})) /\ UNCHANGED <<rows, stored>> /\ At(h, "start")
      BY <1>2, StartBufferDoes
    <2>2. stored[Id(h)] = {}
      BY <2>1 DEF PlaceInv
    <2>3. \A i \in DOMAIN files' : \/ i \in DOMAIN files /\ Range(files[i]) \subseteq Range(files'[i])
                                  \/ stored[i] = {}
      BY <1>2, <2>2, StartBufferMakes
    <2>4. \A i \in DOMAIN buffers' : \/ i \in DOMAIN buffers /\ Range(buffers[i]) \subseteq Range(buffers'[i])
                                    \/ stored[i] = {}
      BY <1>2, <2>2, StartBufferMakes
    <2> QED BY <2>1, <2>3, <2>4, TaskIds, KeepKept
  <1>3. ASSUME NEW h \in Handlers, NEW id \in SessionIds, AppendLookup(h, id)
        PROVE  KeepInv'
    <2>1. PICK points, noted, active, list : Moves(h, Record("trip", id, points, noted, active, list))
      BY <1>3, AppendLookupDoes
    <2>2. UNCHANGED <<rows, stored, files, buffers>>
      BY <1>3, AppendLookupDoes
    <2> QED BY <2>1, <2>2, TaskIds, KeepKept
  <1>4. ASSUME NEW t \in Handlers \cup {Cli}, ReadTrip(t)
        PROVE  KeepInv'
    <2>1. PICK pc, list :
                /\ pc \in {"countries", Destination(t)}
                /\ Moves(t, Record(pc, Id(t), task[t].points, task[t].noted, task[t].active, list))
      BY <1>4, ReadTripGoes
    <2>2. UNCHANGED <<rows, stored, files, buffers>>
      BY <1>4, ReadTripDoes
    <2>3. pc \notin {"endPoints", "endActive"}
      BY <2>1 DEF Destination
    <2> QED BY <2>1, <2>2, <2>3, TaskIds, KeepKept
  <1>5. ASSUME NEW t \in Handlers \cup {Cli}, WriteCountries(t)
        PROVE  KeepInv'
    <2>1. PICK pc, list :
                /\ pc = Destination(t)
                /\ Moves(t, Record(pc, Id(t), task[t].points, task[t].noted, task[t].active, list))
      BY <1>5, WriteCountriesDoes
    <2>2. UNCHANGED <<rows, stored, files, buffers>>
      BY <1>5, WriteCountriesDoes
    <2>3. pc \notin {"endPoints", "endActive"}
      BY <2>1 DEF Destination
    <2> QED BY <2>1, <2>2, <2>3, TaskIds, KeepKept
  <1>6. ASSUME NEW h \in Handlers, AppendBuffer(h)
        PROVE  KeepInv'
    <2>1. UNCHANGED rows /\ Moves(h, Record("idle", 0, <<>>, {}, FALSE, {})) /\ Id(h) \in DOMAIN files
      BY <1>6, AppendBufferDoes, AppendBufferStores
    <2>2. /\ task'[h].pc = "idle" /\ \A u \in Tasks : u # h => task'[u] = task[u]
      BY <2>1, MovedFields
    <2>3. \A u \in Handlers : task'[u].pc \in {"endPoints", "endActive"} =>
                task'[u] = task[u] /\ task[u].id # Id(h)
      BY <2>1, <2>2, TaskIds DEF PlaceInv, Ending, Id
    <2> SUFFICES ASSUME NEW i \in SessionIds, rows[i].active
                 PROVE  /\ i \in DOMAIN files' => stored'[i] \subseteq Range(files'[i])
                        /\ i \in DOMAIN buffers' => stored'[i] \subseteq Range(buffers'[i])
                        /\ \A u \in Handlers : task'[u].id = i =>
                            /\ task'[u].pc = "endPoints" => stored'[i] \subseteq Range(task'[u].points)
                            /\ task'[u].pc = "endActive" => stored'[i] \subseteq Range(rows[i].points)
      BY <2>1 DEF KeepInv, SessionIds, Id, At
    <2>4. /\ i \in DOMAIN files => stored[i] \subseteq Range(files[i])
          /\ i \in DOMAIN buffers => stored[i] \subseteq Range(buffers[i])
          /\ \A u \in Handlers : task[u].id = i =>
                /\ task[u].pc = "endPoints" => stored[i] \subseteq Range(task[u].points)
                /\ task[u].pc = "endActive" => stored[i] \subseteq Range(rows[i].points)
      BY DEF KeepInv, Id, At
    <2>5. i \in DOMAIN files' => stored'[i] \subseteq Range(files'[i])
      BY <1>6, <2>4, AppendBufferStores
    <2>6. i \in DOMAIN buffers' => stored'[i] \subseteq Range(buffers'[i])
      BY <1>6, <2>4, AppendBufferStores
    <2>7. ASSUME NEW u \in Handlers, task'[u].id = i, task'[u].pc \in {"endPoints", "endActive"}
          PROVE  stored'[i] = stored[i] /\ task'[u] = task[u]
      <3>1. task'[u] = task[u] /\ i # Id(h)
        BY <2>3, <2>7
      <3> QED BY <1>6, <3>1, AppendBufferStores
    <2> QED BY <2>4, <2>5, <2>6, <2>7
  <1>7. ASSUME NEW t \in Handlers \cup {Cli}, DbRead(t)
        PROVE  KeepInv'
    <2>1. PICK points, noted, active, list : Moves(t, Record("dbWrite", Id(t), points, noted, active, list))
      BY <1>7, DbReadDoes
    <2>2. UNCHANGED <<rows, stored, files, buffers>>
      BY <1>7, DbReadDoes
    <2> QED BY <2>1, <2>2, TaskIds, KeepKept
  <1>8. ASSUME NEW t \in Handlers \cup {Cli}, DbWrite(t)
        PROVE  KeepInv'
    <2>1. /\ t \in Tasks /\ Id(t) \in SessionIds /\ SetPoints(Id(t), task[t].points)
          /\ task[t].points \in Seq(Points) /\ task[t].noted \in SUBSET Points
          /\ AddStored(t, task[t].noted) /\ UNCHANGED <<files, buffers>> /\ task[t].pc = "dbWrite"
      BY <1>8, DbWriteDoes, TaskFields, TaskIds DEF At
    <2>2. ~rows[Id(t)].active
      BY <2>1 DEF InactiveInv, Appending
    <2>3. /\ SessionIds' = SessionIds /\ \A i \in SessionIds : rows'[i].active = rows[i].active
          /\ \A i \in SessionIds : i # Id(t) => rows'[i].points = rows[i].points
      BY <2>1, PointsSet
    <2>4. \A i \in SessionIds : i # Id(t) => stored'[i] = stored[i]
      BY <2>1, StoredAdded
    <2>5. /\ task'[t].pc = "idle" /\ \A u \in Tasks : u # t => task'[u] = task[u]
      BY <1>8, DbWriteDoes, MovedFields
    <2>6. \A u \in Handlers : task'[u].pc \in {"endPoints", "endActive"} => task'[u] = task[u]
      BY <2>5, TaskIds
    <2> QED BY <2>1, <2>2, <2>3, <2>4, <2>6 DEF KeepInv, Id, At
  <1>9. ASSUME NEW h \in Handlers, NEW id \in SessionIds, EndClose(h, id)
        PROVE  KeepInv'
    <2>1. /\ UNCHANGED <<rows, stored>> /\ id \in DOMAIN buffers /\ buffers \in Maps /\ files \in Maps
          /\ buffers' = Without(buffers, id) /\ files' = Without(files, id)
      BY <1>9, EndCloseDoes, BufferFields
    <2>2. /\ DOMAIN buffers' \subseteq DOMAIN buffers /\ \A i \in DOMAIN buffers' : buffers'[i] = buffers[i]
          /\ DOMAIN files' \subseteq DOMAIN files /\ \A i \in DOMAIN files' : files'[i] = files[i]
      BY <2>1, EntryDropped
    <2>3. /\ task'[h].pc = "endPoints" /\ task'[h].id = id /\ task'[h].points = buffers[id]
          /\ \A u \in Tasks : u # h => task'[u] = task[u]
      BY <1>9, EndCloseDoes, MovedFields
    <2> QED BY <2>1, <2>2, <2>3, TaskIds DEF KeepInv, SessionIds, Id, At
  <1>10. ASSUME NEW h \in Handlers, EndPoints(h)
        PROVE  KeepInv'
    <2>1. /\ SessionIds' = SessionIds /\ UNCHANGED <<stored, files, buffers>> /\ task[h].pc = "endPoints"
          /\ \A i \in SessionIds : rows'[i].active = rows[i].active
          /\ \A i \in SessionIds : i # Id(h) => rows'[i].points = rows[i].points
          /\ rows'[Id(h)].points = task[h].points
      BY <1>10, EndPointsDoes, PointsSet, TaskFields, TaskIds DEF At
    <2>2. /\ task'[h].pc = "endActive" /\ task'[h].id = task[h].id /\ \A u \in Tasks : u # h => task'[u] = task[u]
      BY <1>10, EndPointsDoes, MovedFields DEF Id
    <2>3. \A u \in Handlers : u # h /\ task[u].pc \in {"endPoints", "endActive"} => task[u].id # task[h].id
      BY <2>1 DEF PlaceInv, Ending, Id
    <2> QED BY <2>1, <2>2, <2>3, TaskIds DEF KeepInv, Id, At
  <1>11. ASSUME NEW h \in Handlers, EndActive(h)
        PROVE  KeepInv'
    <2>1. /\ SessionIds' = SessionIds /\ UNCHANGED <<stored, files, buffers>>
          /\ \A i \in SessionIds : (rows'[i].active => rows[i].active) /\ rows'[i].points = rows[i].points
      BY <1>11, EndActiveDoes, ActiveCleared
    <2>2. /\ task'[h].pc = "idle" /\ \A u \in Tasks : u # h => task'[u] = task[u]
      BY <1>11, EndActiveDoes, MovedFields
    <2>3. \A u \in Handlers : task'[u].pc \in {"endPoints", "endActive"} => task'[u] = task[u]
      BY <2>2, TaskIds
    <2> QED BY <2>1, <2>3 DEF KeepInv, Id, At
  <1>12. ASSUME NEW h \in Handlers, StartFails(h)
        PROVE  KeepInv'
    <2>1. /\ Moves(h, Record("idle", 0, <<>>, {}, FALSE, {})) /\ UNCHANGED <<rows, stored, buffers>>
          /\ At(h, "start")
      BY <1>12, StartFailsDoes
    <2>2. stored[Id(h)] = {}
      BY <2>1 DEF PlaceInv
    <2>3. \A i \in DOMAIN files' : \/ i \in DOMAIN files /\ Range(files[i]) \subseteq Range(files'[i])
                                  \/ stored[i] = {}
      BY <1>12, <2>2, StartFailsMakes
    <2> QED BY <2>1, <2>3, TaskIds, KeepKept
  <1>13. ASSUME NEW h \in Handlers, AppendFails(h)
        PROVE  KeepInv'
    <2>1. /\ Moves(h, Record("idle", 0, <<>>, {}, FALSE, {})) /\ UNCHANGED <<rows, stored, files>>
      BY <1>13, AppendFailsDoes
    <2>2. /\ DOMAIN buffers' = DOMAIN buffers
          /\ \A i \in DOMAIN buffers : Range(buffers[i]) \subseteq Range(buffers'[i])
      BY <1>13, AppendFailsAdds
    <2> QED BY <2>1, <2>2, TaskIds, KeepKept
  <1>14. ASSUME NEW h \in Handlers, NEW id \in SessionIds, CloseFails(h, id)
        PROVE  KeepInv'
    <2>1. /\ UNCHANGED <<rows, stored, files, task>> /\ buffers' = Without(buffers, id)
      BY <1>14, CloseFailsDoes
    <2>2. /\ DOMAIN buffers' \subseteq DOMAIN buffers
          /\ \A i \in DOMAIN buffers' : buffers'[i] = buffers[i]
      BY <2>1, BufferFields, EntryDropped
    <2> QED BY <2>1, <2>2 DEF KeepInv, SessionIds, Id, At
  <1>15. ASSUME NEW r \in Readers, NEW id \in SessionIds, ReadRow(r, id)
        PROVE  KeepInv'
    <2>1. PICK pc \in {"readBuffer", "answer"} :
                Moves(r, Record(pc, id, rows[id].points, stored[id], FALSE, {}))
      BY <1>15, ReadRowDoes
    <2>2. UNCHANGED <<rows, stored, files, buffers>>
      BY <1>15, ReadRowDoes
    <2> QED BY <2>1, <2>2, TaskIds, KeepKept
  <1>16. ASSUME NEW r \in Readers, ReadBuffer(r)
        PROVE  KeepInv'
    <2>1. PICK points, noted, active, list : Moves(r, Record("answer", Id(r), points, noted, active, list))
      BY <1>16, ReadBufferDoes
    <2>2. UNCHANGED <<rows, stored, files, buffers>>
      BY <1>16, ReadBufferDoes
    <2> QED BY <2>1, <2>2, TaskIds, KeepKept
  <1>17. ASSUME NEW id \in SessionIds, Ends(id)
        PROVE  KeepInv'
    <2>1. /\ SessionIds' = SessionIds /\ UNCHANGED <<stored, files, buffers, task>>
          /\ \A i \in SessionIds : (rows'[i].active => rows[i].active) /\ rows'[i].points = rows[i].points
      BY <1>17, EndsDoes, ActiveCleared
    <2> QED BY <2>1 DEF KeepInv, Id, At
  <1>18. ASSUME NEW id \in SessionIds, FixTime(id) \/ Combine(id)
        PROVE  KeepInv'
    <2>1. PICK pc, points, noted, active : pc \in {"insert", "second"} /\
                Moves(Cli, Record(pc, id, points, noted, active, {}))
      BY <1>18, TakeDoes
    <2>2. UNCHANGED <<rows, stored, files, buffers>>
      BY <1>18, TakeDoes
    <2> QED BY <2>1, <2>2, TaskIds, KeepKept
  <1>19. ASSUME NEW id \in SessionIds, CombineWith(id)
        PROVE  KeepInv'
    <2>1. PICK points, noted, active, list : Moves(Cli, Record("insert", Id(Cli), points, noted, active, list))
      BY <1>19, CombineWithDoes
    <2>2. UNCHANGED <<rows, stored, files, buffers>>
      BY <1>19, CombineWithDoes
    <2> QED BY <2>1, <2>2, TaskIds, KeepKept
  <1>20. ASSUME CopyRow
        PROVE  KeepInv'
    <2>1. PICK points, noted, active, list : Moves(Cli, Record("copy", Len(rows) + 1, points, noted, active, list))
      BY <1>20, CopyRowDoes
    <2>2. PICK live \in BOOLEAN : InsertRow(live) /\ UNCHANGED <<files, buffers>>
      BY <1>20, CopyRowDoes, TaskFields, TaskIds
    <2> QED BY <2>1, <2>2, TaskIds, KeepInserted
  <1>21. ASSUME CopyPoints
        PROVE  KeepInv'
    <2>1. /\ SessionIds' = SessionIds /\ UNCHANGED <<stored, files, buffers>>
          /\ \A i \in SessionIds : rows'[i].active = rows[i].active
          /\ \A i \in SessionIds : i # Id(Cli) => rows'[i].points = rows[i].points
      BY <1>21, CopyPointsDoes, PointsSet, TaskFields, TaskIds
    <2>2. /\ task'[Cli].pc = "idle" /\ \A u \in Tasks : u # Cli => task'[u] = task[u]
      BY <1>21, CopyPointsDoes, MovedFields
    <2>3. \A u \in Handlers : task'[u] = task[u] /\ Id(u) # Id(Cli)
      BY <1>21, CopyPointsDoes, <2>2, TaskIds DEF PlaceInv, At
    <2> QED BY <2>1, <2>3 DEF KeepInv, Id, At
  <1>22. ASSUME AddGpx
        PROVE  KeepInv'
    <2>1. PICK points, noted, active, list : Moves(Cli, Record("trip", Len(rows) + 1, points, noted, active, list))
      BY <1>22, AddGpxDoes
    <2>2. PICK live \in BOOLEAN : InsertRow(live) /\ UNCHANGED <<files, buffers>>
      BY <1>22, AddGpxDoes, TaskFields, TaskIds
    <2> QED BY <2>1, <2>2, TaskIds, KeepInserted
  <1>23. ASSUME Crash
        PROVE  KeepInv'
    <2>1. /\ SessionIds' = SessionIds /\ UNCHANGED <<rows, stored>> /\ \A u \in Handlers : task'[u].pc = "idle"
      BY <1>23, CrashDoes, TaskIds DEF Record, SessionIds
    <2>2. \A i \in DOMAIN files' : rows[i].active => stored[i] \subseteq Range(files'[i])
      <3> SUFFICES ASSUME NEW i \in DOMAIN files', rows[i].active
                   PROVE  stored[i] \subseteq Range(files'[i])
        OBVIOUS
      <3>1. CASE i \in DOMAIN files
        <4>1. stored[i] \subseteq Range(files[i])
          BY <3>1, BufferFields DEF KeepInv
        <4>2. Range(files[i]) \subseteq Range(files'[i])
          BY <3>1, <1>23, CrashDoes
        <4> QED BY <4>1, <4>2
      <3>2. CASE i \notin DOMAIN files
        <4>1. \E h \in Handlers : At(h, "start") /\ Id(h) = i
          BY <3>2, <1>23, CrashDoes
        <4> QED BY <4>1 DEF PlaceInv
      <3> QED BY <3>1, <3>2
    <2>3. \A i \in DOMAIN buffers' : i \in DOMAIN files' /\ buffers'[i] = files'[i]
      <3>1. up' \/ ~up'
        OBVIOUS
      <3> QED BY <1>23, CrashDoes
    <2> QED BY <2>1, <2>2, <2>3 DEF KeepInv, Id, At
  <1>24. ASSUME Returns
        PROVE  KeepInv'
    <2>1. PICK t \in Tasks : Moves(t, Record("idle", 0, <<>>, {}, FALSE, {}))
      BY <1>24, ReturnsDoes
    <2>2. UNCHANGED <<rows, stored, files, buffers>>
      BY <1>24, ReturnsDoes
    <2> QED BY <2>1, <2>2, TaskIds, KeepKept
  <1>25. ASSUME UNCHANGED vars
        PROVE  KeepInv'
    BY <1>25 DEF KeepInv, SessionIds, Id, At, vars, tableVars, bufferVars, ghostVars
  <1> QED BY StepCases, <1>1, <1>2, <1>3, <1>4, <1>5, <1>6, <1>7, <1>8, <1>9, <1>10, <1>11, <1>12,
         <1>13, <1>14, <1>15, <1>16, <1>17, <1>18, <1>19, <1>20, <1>21, <1>22, <1>23,
         <1>24, <1>25, Zenon

-----------------------------------------------------------------------------
\* Where the points of an append are

LEMMA PointsInIff ==
    ASSUME NEW map, NEW p
    PROVE  p \in PointsIn(map) <=> \E id \in DOMAIN map : p \in Range(map[id])
  BY Zenon DEF PointsIn

LEMMA PlacedIff ==
    \A p : p \in Placed <=> \/ \E id \in SessionIds : p \in stored[id]
                            \/ \E id \in DOMAIN files : p \in Range(files[id])
                            \/ \E id \in DOMAIN buffers : p \in Range(buffers[id])
  <1>1. \A p : p \in Stored <=> \E id \in SessionIds : p \in stored[id]
    BY Zenon DEF Stored
  <1>2. \A p : p \in Placed <=> p \in Stored \/ p \in PointsIn(files) \/ p \in PointsIn(buffers)
    BY DEF Placed
  <1> QED BY <1>1, <1>2, PointsInIff

LEMMA NextPlacedIff ==
    \A p : p \in Placed' <=> \/ \E id \in SessionIds' : p \in stored'[id]
                             \/ \E id \in DOMAIN files' : p \in Range(files'[id])
                             \/ \E id \in DOMAIN buffers' : p \in Range(buffers'[id])
  <1>1. \A p : p \in Stored' <=> \E id \in SessionIds' : p \in stored'[id]
    BY Zenon DEF Stored
  <1>2. \A p : p \in Placed' <=> p \in Stored' \/ p \in PointsIn(files') \/ p \in PointsIn(buffers')
    BY DEF Placed
  <1> QED BY <1>1, <1>2, PointsInIff

LEMMA PlacedHas ==
    /\ \A id \in SessionIds : stored[id] \subseteq Placed
    /\ \A id \in DOMAIN files : Range(files[id]) \subseteq Placed
    /\ \A id \in DOMAIN buffers : Range(buffers[id]) \subseteq Placed
  BY PlacedIff

\* Nothing is placed but what was, and what is taken from an append.
LEMMA PlacedWithin ==
    ASSUME NEW taken,
           \A id \in SessionIds' : \/ stored'[id] \subseteq taken
                                   \/ id \in SessionIds /\ stored'[id] \subseteq stored[id] \cup taken,
           \A id \in DOMAIN files' :
                \/ Range(files'[id]) \subseteq taken
                \/ id \in DOMAIN files /\ Range(files'[id]) \subseteq Range(files[id]) \cup taken,
           \A id \in DOMAIN buffers' :
                \/ Range(buffers'[id]) \subseteq taken
                \/ id \in DOMAIN buffers /\ Range(buffers'[id]) \subseteq Range(buffers[id]) \cup taken
    PROVE  Placed' \subseteq Placed \cup taken
  <1>1. \A id \in SessionIds' : stored'[id] \subseteq Placed \cup taken
    BY PlacedHas
  <1>2. \A id \in DOMAIN files' : Range(files'[id]) \subseteq Placed \cup taken
    BY PlacedHas
  <1>3. \A id \in DOMAIN buffers' : Range(buffers'[id]) \subseteq Placed \cup taken
    BY PlacedHas
  <1> QED BY <1>1, <1>2, <1>3, NextPlacedIff

LEMMA BringsMoved ==
    ASSUME NEW t \in Tasks, NEW pc, NEW id, NEW points, NEW noted, NEW active, NEW list,
           Moves(t, Record(pc, id, points, noted, active, list))
    PROVE  /\ Brings(t)' = IF pc = "dbWrite" THEN noted
                           ELSE IF pc \in Appending THEN Range(points) ELSE {}
           /\ \A u \in Tasks : u # t => Brings(u)' = Brings(u)
  <1>1. /\ task'[t].pc = pc /\ task'[t].points = points /\ task'[t].noted = noted
        /\ \A u \in Tasks : u # t => task'[u] = task[u]
    BY MovedFields
  <1> QED BY <1>1 DEF Brings, At

\* A task moves on with what it brings, or leaves some of it in the store.
LEMMA FreshMoves ==
    ASSUME FreshInv, UNCHANGED lastPoint, NEW t \in Tasks, NEW taken,
           taken \subseteq Brings(t), Placed' \subseteq Placed \cup taken,
           Brings(t)' \subseteq Brings(t) \ taken,
           \A u \in Tasks : u # t => Brings(u)' = Brings(u)
    PROVE  FreshInv'
  <1>1. Placed' \subseteq 1..lastPoint
    BY DEF FreshInv
  <1>2. \A u \in Tasks : Brings(u)' \subseteq (1..lastPoint) \ Placed'
    BY DEF FreshInv
  <1>3. \A u, other \in Tasks : u # other => Brings(u)' \cap Brings(other)' = {}
    BY DEF FreshInv
  <1> QED BY <1>1, <1>2, <1>3 DEF FreshInv

\* A new batch arrives.
LEMMA FreshArrives ==
    ASSUME StoreTypes, FreshInv, NEW t \in Tasks, Placed' \subseteq Placed,
           NEW batch \in NewBatches, lastPoint' = Last(batch), Brings(t)' = Range(batch),
           \A u \in Tasks : u # t => Brings(u)' = Brings(u)
    PROVE  FreshInv'
  <1>1. /\ lastPoint \in Nat /\ lastPoint' \in Nat /\ lastPoint' > lastPoint
        /\ Brings(t)' \subseteq (lastPoint + 1)..lastPoint'
    BY NewBatch, StoreAssumption DEF StoreTypes, TableTypeOK
  <1>2. /\ 1..lastPoint \subseteq 1..lastPoint' /\ Brings(t)' \subseteq 1..lastPoint'
        /\ (1..lastPoint) \cap Brings(t)' = {}
    BY <1>1
  <1>3. Placed' \subseteq 1..lastPoint'
    BY <1>2 DEF FreshInv
  <1>4. \A u \in Tasks : Brings(u)' \subseteq (1..lastPoint') \ Placed'
    BY <1>2 DEF FreshInv
  <1>5. \A u, other \in Tasks : u # other => Brings(u)' \cap Brings(other)' = {}
    BY <1>2 DEF FreshInv
  <1> QED BY <1>3, <1>4, <1>5 DEF FreshInv

LEMMA SamePlaced ==
    ASSUME UNCHANGED <<rows, stored, files, buffers>>
    PROVE  Placed' \subseteq Placed
  <1>1. Placed' \subseteq Placed \cup {}
    BY PlacedWithin DEF SessionIds
  <1> QED BY <1>1

LEMMA InsertedPlaced ==
    ASSUME StoreTypes, NEW live \in BOOLEAN, InsertRow(live), UNCHANGED <<files, buffers>>
    PROVE  Placed' \subseteq Placed
  <1>1. /\ SessionIds' = SessionIds \cup {Len(rows) + 1} /\ stored'[Len(rows) + 1] = {}
        /\ \A i \in SessionIds : stored'[i] = stored[i]
    BY RowInserted
  <1>2. Placed' \subseteq Placed \cup {}
    BY <1>1, PlacedWithin
  <1> QED BY <1>2

LEMMA FreshSame ==
    ASSUME FreshInv, UNCHANGED lastPoint, NEW t \in Tasks, Placed' \subseteq Placed,
           Brings(t)' \subseteq Brings(t), \A u \in Tasks : u # t => Brings(u)' = Brings(u)
    PROVE  FreshInv'
  <1>1. {} \subseteq Brings(t) /\ Placed' \subseteq Placed \cup {} /\ Brings(t)' \subseteq Brings(t) \ {}
    OBVIOUS
  <1> QED BY <1>1, FreshMoves

LEMMA NextFresh ==
    ASSUME StoreTypes, FreshInv, PlaceInv, [Next]_vars
    PROVE  FreshInv'
  <1>1. ASSUME NEW h \in Handlers, RegisterRow(h)
        PROVE  FreshInv'
    <2>1. PICK points, noted, active, list : Moves(h, Record("start", Len(rows) + 1, points, noted, active, list))
      BY <1>1, RegisterRowDoes
    <2>2. PICK live \in BOOLEAN : InsertRow(live) /\ UNCHANGED <<files, buffers, lastPoint>>
      BY <1>1, RegisterRowDoes, TaskFields, TaskIds
    <2>3. Brings(h)' = {} /\ \A u \in Tasks : u # h => Brings(u)' = Brings(u)
      BY <2>1, TaskIds, BringsMoved DEF Appending
    <2> QED BY <2>2, <2>3, InsertedPlaced, TaskIds, FreshSame
  <1>2. ASSUME NEW h \in Handlers, StartBuffer(h)
        PROVE  FreshInv'
    <2>1. Moves(h, Record("idle", 0, <<>>, {}, FALSE, {})) /\ UNCHANGED lastPoint /\ h \in Tasks
      BY <1>2, StartBufferDoes, TaskIds
    <2>2. Brings(h)' = {} /\ \A u \in Tasks : u # h => Brings(u)' = Brings(u)
      BY <2>1, BringsMoved DEF Appending
    <2>3. UNCHANGED <<rows, stored>>
      BY <1>2, StartBufferDoes
    <2>4. Placed' \subseteq Placed \cup {}
      BY <1>2, <2>3, StartBufferMakes, RangeEmpty, PlacedWithin
    <2> QED BY <2>1, <2>2, <2>4, FreshSame
  <1>3. ASSUME NEW h \in Handlers, NEW id \in SessionIds, AppendLookup(h, id)
        PROVE  FreshInv'
    <2>1. PICK batch \in NewBatches :
                /\ Moves(h, Record("trip", id, batch, {}, rows[id].active, {}))
                /\ lastPoint' = Last(batch)
      BY <1>3, AppendLookupDoes
    <2>2. PICK noted, active, list : Moves(h, Record("trip", id, batch, noted, active, list))
      BY <2>1
    <2>3. UNCHANGED <<rows, stored, files, buffers>> /\ h \in Tasks
      BY <1>3, AppendLookupDoes, TaskIds
    <2>4. Brings(h)' = Range(batch) /\ \A u \in Tasks : u # h => Brings(u)' = Brings(u)
      BY <2>2, <2>3, BringsMoved DEF Appending
    <2> QED BY <2>1, <2>3, <2>4, SamePlaced, FreshArrives
  <1>4. ASSUME NEW t \in Handlers \cup {Cli}, ReadTrip(t)
        PROVE  FreshInv'
    <2>1. PICK pc, list :
                /\ pc \in {"countries", Destination(t)}
                /\ Moves(t, Record(pc, Id(t), task[t].points, task[t].noted, task[t].active, list))
      BY <1>4, ReadTripGoes
    <2>2. UNCHANGED <<rows, stored, files, buffers, lastPoint>> /\ At(t, "trip") /\ t \in Tasks
      BY <1>4, ReadTripDoes, TaskIds
    <2>3. pc \in {"countries", "append", "dbRead"}
      BY <2>1 DEF Destination
    <2>4. Brings(t)' = Range(task[t].points) /\ \A u \in Tasks : u # t => Brings(u)' = Brings(u)
      BY <2>1, <2>2, <2>3, BringsMoved DEF Appending
    <2>5. Brings(t) = Range(task[t].points)
      BY <2>2 DEF Brings, At, Appending
    <2> QED BY <2>2, <2>4, <2>5, SamePlaced, FreshSame
  <1>5. ASSUME NEW t \in Handlers \cup {Cli}, WriteCountries(t)
        PROVE  FreshInv'
    <2>1. PICK pc, list :
                /\ pc = Destination(t)
                /\ Moves(t, Record(pc, Id(t), task[t].points, task[t].noted, task[t].active, list))
      BY <1>5, WriteCountriesDoes
    <2>2. UNCHANGED <<rows, stored, files, buffers, lastPoint>> /\ At(t, "countries") /\ t \in Tasks
      BY <1>5, WriteCountriesDoes, TaskIds
    <2>3. pc \in {"append", "dbRead"}
      BY <2>1 DEF Destination
    <2>4. Brings(t)' = Range(task[t].points) /\ \A u \in Tasks : u # t => Brings(u)' = Brings(u)
      BY <2>1, <2>2, <2>3, BringsMoved DEF Appending
    <2>5. Brings(t) = Range(task[t].points)
      BY <2>2 DEF Brings, At, Appending
    <2> QED BY <2>2, <2>4, <2>5, SamePlaced, FreshSame
  <1>6. ASSUME NEW h \in Handlers, AppendBuffer(h)
        PROVE  FreshInv'
    <2>1. Moves(h, Record("idle", 0, <<>>, {}, FALSE, {})) /\ UNCHANGED lastPoint /\ h \in Tasks
      BY <1>6, AppendBufferDoes, TaskIds
    <2>2. Brings(h)' = {} /\ \A u \in Tasks : u # h => Brings(u)' = Brings(u)
      BY <2>1, BringsMoved DEF Appending
    <2>3. Brings(h) = Range(task[h].points)
      BY <1>6, AppendBufferDoes DEF Brings, At, Appending
    <2>4. Placed' \subseteq Placed \cup Brings(h)
      <3>1. PICK new : new = Range(task[h].points)
        OBVIOUS
      <3>2. /\ \A i \in SessionIds' : i \in SessionIds /\ stored'[i] \subseteq stored[i] \cup new
            /\ \A i \in DOMAIN files' : i \in DOMAIN files /\ Range(files'[i]) \subseteq Range(files[i]) \cup new
            /\ \A i \in DOMAIN buffers' :
                    i \in DOMAIN buffers /\ Range(buffers'[i]) \subseteq Range(buffers[i]) \cup new
        BY <1>6, <3>1, AppendBufferStores
      <3>3. Placed' \subseteq Placed \cup new
        BY <3>2, PlacedWithin
      <3> QED BY <3>1, <3>3, <2>3
    <2> QED BY <2>1, <2>2, <2>4, FreshMoves
  <1>7. ASSUME NEW t \in Handlers \cup {Cli}, DbRead(t)
        PROVE  FreshInv'
    <2>1. PICK points, active, list :
                Moves(t, Record("dbWrite", Id(t), points, Range(task[t].points), active, list))
      BY <1>7, DbReadDoes
    <2>2. UNCHANGED <<rows, stored, files, buffers, lastPoint>> /\ At(t, "dbRead") /\ t \in Tasks
      BY <1>7, DbReadDoes, TaskIds
    <2>4. Brings(t)' = Range(task[t].points) /\ \A u \in Tasks : u # t => Brings(u)' = Brings(u)
      BY <2>1, <2>2, BringsMoved DEF Appending
    <2>5. Brings(t) = Range(task[t].points)
      BY <2>2 DEF Brings, At, Appending
    <2> QED BY <2>2, <2>4, <2>5, SamePlaced, FreshSame
  <1>8. ASSUME NEW t \in Handlers \cup {Cli}, DbWrite(t)
        PROVE  FreshInv'
    <2>1. Moves(t, Record("idle", 0, <<>>, {}, FALSE, {})) /\ UNCHANGED <<lastPoint, files, buffers>>
          /\ t \in Tasks /\ At(t, "dbWrite") /\ Id(t) \in SessionIds
      BY <1>8, DbWriteDoes, TaskIds
    <2>2. Brings(t)' = {} /\ \A u \in Tasks : u # t => Brings(u)' = Brings(u)
      BY <2>1, BringsMoved DEF Appending
    <2>3. Brings(t) = task[t].noted
      BY <2>1 DEF Brings
    <2>4. SessionIds' = SessionIds
      BY <1>8, DbWriteDoes, <2>1, TaskFields, PointsSet
    <2>5. \A i \in SessionIds : stored'[i] = IF i = Id(t) THEN stored[i] \cup task[t].noted ELSE stored[i]
      BY <1>8, DbWriteDoes, <2>1, TaskFields, StoredAdded
    <2>6. Placed' \subseteq Placed \cup Brings(t)
      <3>1. PICK new : new = task[t].noted
        OBVIOUS
      <3>2. /\ \A i \in SessionIds' : i \in SessionIds /\ stored'[i] \subseteq stored[i] \cup new
            /\ UNCHANGED <<files, buffers>>
        BY <2>1, <2>4, <2>5, <3>1
      <3>3. Placed' \subseteq Placed \cup new
        BY <3>2, PlacedWithin
      <3> QED BY <3>1, <3>3, <2>3
    <2> QED BY <2>1, <2>2, <2>6, FreshMoves
  <1>9. ASSUME NEW h \in Handlers, NEW id \in SessionIds, EndClose(h, id)
        PROVE  FreshInv'
    <2>1. PICK points, noted, active, list : Moves(h, Record("endPoints", id, points, noted, active, list))
      BY <1>9, EndCloseDoes
    <2>2. UNCHANGED <<rows, stored, lastPoint>> /\ buffers' = Without(buffers, id)
          /\ files' = Without(files, id) /\ h \in Tasks
      BY <1>9, EndCloseDoes, TaskIds
    <2>3. Brings(h)' = {} /\ \A u \in Tasks : u # h => Brings(u)' = Brings(u)
      BY <2>1, <2>2, BringsMoved DEF Appending
    <2>4. /\ \A i \in DOMAIN files' : i \in DOMAIN files /\ files'[i] = files[i]
          /\ \A i \in DOMAIN buffers' : i \in DOMAIN buffers /\ buffers'[i] = buffers[i]
      BY <2>2 DEF Without, Restrict
    <2>5. Placed' \subseteq Placed \cup {}
      BY <2>2, <2>4, PlacedWithin DEF SessionIds
    <2> QED BY <2>2, <2>3, <2>5, FreshSame
  <1>10. ASSUME NEW h \in Handlers, EndPoints(h)
        PROVE  FreshInv'
    <2>1. PICK points, noted, active, list : Moves(h, Record("endActive", Id(h), points, noted, active, list))
      BY <1>10, EndPointsDoes
    <2>2. UNCHANGED <<stored, lastPoint, buffers, files>> /\ SessionIds' = SessionIds /\ h \in Tasks
      BY <1>10, EndPointsDoes, TaskIds, TaskFields, PointsSet
    <2>3. Brings(h)' = {} /\ \A u \in Tasks : u # h => Brings(u)' = Brings(u)
      BY <2>1, <2>2, BringsMoved DEF Appending
    <2>5. Placed' \subseteq Placed \cup {}
      BY <2>2, PlacedWithin
    <2> QED BY <2>2, <2>3, <2>5, FreshSame
  <1>11. ASSUME NEW h \in Handlers, EndActive(h)
        PROVE  FreshInv'
    <2>1. Moves(h, Record("idle", 0, <<>>, {}, FALSE, {}))
      BY <1>11, EndActiveDoes
    <2>2. UNCHANGED <<stored, lastPoint, buffers, files>> /\ SessionIds' = SessionIds /\ h \in Tasks
      BY <1>11, EndActiveDoes, TaskIds, ActiveCleared
    <2>3. Brings(h)' = {} /\ \A u \in Tasks : u # h => Brings(u)' = Brings(u)
      BY <2>1, <2>2, BringsMoved DEF Appending
    <2>5. Placed' \subseteq Placed \cup {}
      BY <2>2, PlacedWithin
    <2> QED BY <2>2, <2>3, <2>5, FreshSame
  <1>12. ASSUME NEW h \in Handlers, StartFails(h)
        PROVE  FreshInv'
    <2>1. Moves(h, Record("idle", 0, <<>>, {}, FALSE, {})) /\ UNCHANGED lastPoint /\ h \in Tasks
      BY <1>12, StartFailsDoes, TaskIds
    <2>2. Brings(h)' = {} /\ \A u \in Tasks : u # h => Brings(u)' = Brings(u)
      BY <2>1, BringsMoved DEF Appending
    <2>3. UNCHANGED <<rows, stored, buffers>>
      BY <1>12, StartFailsDoes
    <2>4. Placed' \subseteq Placed \cup {}
      BY <1>12, <2>3, StartFailsMakes, RangeEmpty, PlacedWithin DEF SessionIds
    <2> QED BY <2>1, <2>2, <2>4, FreshSame
  <1>13. ASSUME NEW h \in Handlers, AppendFails(h)
        PROVE  FreshInv'
    <2>1. Moves(h, Record("idle", 0, <<>>, {}, FALSE, {})) /\ UNCHANGED lastPoint /\ h \in Tasks
      BY <1>13, AppendFailsDoes, TaskIds
    <2>2. Brings(h)' = {} /\ \A u \in Tasks : u # h => Brings(u)' = Brings(u)
      BY <2>1, BringsMoved DEF Appending
    <2>3. Brings(h) = Range(task[h].points) /\ UNCHANGED <<rows, stored, files>>
      BY <1>13, AppendFailsDoes DEF Brings, At, Appending
    <2>4. Placed' \subseteq Placed \cup Brings(h)
      BY <1>13, <2>3, AppendFailsAdds, PlacedWithin DEF SessionIds
    <2> QED BY <2>1, <2>2, <2>4, FreshMoves
  <1>14. ASSUME NEW h \in Handlers, NEW id \in SessionIds, CloseFails(h, id)
        PROVE  FreshInv'
    <2>2. UNCHANGED <<rows, stored, lastPoint, files, task>> /\ buffers' = Without(buffers, id)
      BY <1>14, CloseFailsDoes
    <2>4. \A i \in DOMAIN buffers' : i \in DOMAIN buffers /\ buffers'[i] = buffers[i]
      BY <2>2 DEF Without, Restrict
    <2>5. Placed' \subseteq Placed \cup {}
      BY <2>2, <2>4, PlacedWithin DEF SessionIds
    <2>3. \A u \in Tasks : Brings(u)' = Brings(u)
      BY <2>2 DEF Brings, At
    <2> QED BY <2>2, <2>3, <2>5, TaskIds, FreshSame
  <1>15. ASSUME NEW r \in Readers, NEW id \in SessionIds, ReadRow(r, id)
        PROVE  FreshInv'
    <2>1. PICK pc \in {"readBuffer", "answer"} :
                Moves(r, Record(pc, id, rows[id].points, stored[id], FALSE, {}))
      BY <1>15, ReadRowDoes
    <2>2. UNCHANGED <<rows, stored, files, buffers, lastPoint>> /\ r \in Tasks
      BY <1>15, ReadRowDoes, TaskIds
    <2>3. Brings(r)' = {} /\ \A u \in Tasks : u # r => Brings(u)' = Brings(u)
      BY <2>1, <2>2, BringsMoved DEF Appending
    <2> QED BY <2>2, <2>3, SamePlaced, FreshSame
  <1>16. ASSUME NEW r \in Readers, ReadBuffer(r)
        PROVE  FreshInv'
    <2>1. PICK points, noted, active, list : Moves(r, Record("answer", Id(r), points, noted, active, list))
      BY <1>16, ReadBufferDoes
    <2>2. UNCHANGED <<rows, stored, files, buffers, lastPoint>> /\ r \in Tasks
      BY <1>16, ReadBufferDoes, TaskIds
    <2>3. Brings(r)' = {} /\ \A u \in Tasks : u # r => Brings(u)' = Brings(u)
      BY <2>1, <2>2, BringsMoved DEF Appending
    <2> QED BY <2>2, <2>3, SamePlaced, FreshSame
  <1>17. ASSUME NEW id \in SessionIds, Ends(id)
        PROVE  FreshInv'
    <2>2. UNCHANGED <<stored, lastPoint, buffers, files, task>> /\ SessionIds' = SessionIds
      BY <1>17, EndsDoes, ActiveCleared
    <2>5. Placed' \subseteq Placed \cup {}
      BY <2>2, PlacedWithin
    <2>3. \A u \in Tasks : Brings(u)' = Brings(u)
      BY <2>2 DEF Brings, At
    <2> QED BY <2>2, <2>3, <2>5, TaskIds, FreshSame
  <1>18. ASSUME NEW id \in SessionIds, FixTime(id) \/ Combine(id)
        PROVE  FreshInv'
    <2>1. PICK pc, points, noted, active : pc \in {"insert", "second"} /\
                Moves(Cli, Record(pc, id, points, noted, active, {}))
      BY <1>18, TakeDoes
    <2>2. UNCHANGED <<rows, stored, files, buffers, lastPoint>> /\ Cli \in Tasks
      BY <1>18, TakeDoes, TaskIds
    <2>3. Brings(Cli)' = {} /\ \A u \in Tasks : u # Cli => Brings(u)' = Brings(u)
      BY <2>1, <2>2, BringsMoved DEF Appending
    <2> QED BY <2>2, <2>3, SamePlaced, FreshSame
  <1>19. ASSUME NEW id \in SessionIds, CombineWith(id)
        PROVE  FreshInv'
    <2>1. PICK points, noted, active, list : Moves(Cli, Record("insert", Id(Cli), points, noted, active, list))
      BY <1>19, CombineWithDoes
    <2>2. UNCHANGED <<rows, stored, files, buffers, lastPoint>> /\ Cli \in Tasks
      BY <1>19, CombineWithDoes, TaskIds
    <2>3. Brings(Cli)' = {} /\ \A u \in Tasks : u # Cli => Brings(u)' = Brings(u)
      BY <2>1, <2>2, BringsMoved DEF Appending
    <2> QED BY <2>2, <2>3, SamePlaced, FreshSame
  <1>20. ASSUME CopyRow
        PROVE  FreshInv'
    <2>1. PICK points, noted, active, list : Moves(Cli, Record("copy", Len(rows) + 1, points, noted, active, list))
      BY <1>20, CopyRowDoes
    <2>2. PICK live \in BOOLEAN : InsertRow(live) /\ UNCHANGED <<files, buffers, lastPoint>>
      BY <1>20, CopyRowDoes, TaskFields, TaskIds
    <2>3. Brings(Cli)' = {} /\ \A u \in Tasks : u # Cli => Brings(u)' = Brings(u)
      BY <2>1, TaskIds, BringsMoved DEF Appending
    <2> QED BY <2>2, <2>3, InsertedPlaced, TaskIds, FreshSame
  <1>21. ASSUME CopyPoints
        PROVE  FreshInv'
    <2>1. Moves(Cli, Record("idle", 0, <<>>, {}, FALSE, {}))
      BY <1>21, CopyPointsDoes
    <2>2. UNCHANGED <<stored, lastPoint, buffers, files>> /\ SessionIds' = SessionIds /\ Cli \in Tasks
      BY <1>21, CopyPointsDoes, TaskIds, TaskFields, PointsSet
    <2>3. Brings(Cli)' = {} /\ \A u \in Tasks : u # Cli => Brings(u)' = Brings(u)
      BY <2>1, <2>2, BringsMoved DEF Appending
    <2>5. Placed' \subseteq Placed \cup {}
      BY <2>2, PlacedWithin
    <2> QED BY <2>2, <2>3, <2>5, FreshSame
  <1>22. ASSUME AddGpx
        PROVE  FreshInv'
    <2>1. PICK batch \in NewBatches :
                /\ Moves(Cli, Record("trip", Len(rows) + 1, batch, {}, FALSE, {}))
                /\ lastPoint' = Last(batch)
      BY <1>22, AddGpxDoes
    <2>2. PICK noted, active, list : Moves(Cli, Record("trip", Len(rows) + 1, batch, noted, active, list))
      BY <2>1
    <2>3. PICK live \in BOOLEAN : InsertRow(live) /\ UNCHANGED <<files, buffers>>
      BY <1>22, AddGpxDoes
    <2>4. Brings(Cli)' = Range(batch) /\ \A u \in Tasks : u # Cli => Brings(u)' = Brings(u)
      BY <2>2, TaskIds, BringsMoved DEF Appending
    <2> QED BY <2>1, <2>3, <2>4, InsertedPlaced, TaskIds, FreshArrives
  <1>23. ASSUME Crash
        PROVE  FreshInv'
    <2> DEFINE lost == UNION {Brings(h) : h \in Handlers}
    <2>1. /\ UNCHANGED <<rows, stored, lastPoint>> /\ task'[Cli] = task[Cli] /\ Cli \in Tasks
          /\ Cli \notin Handlers /\ Handlers \subseteq Tasks
          /\ \A u \in Tasks \ {Cli} : task'[u].pc = "idle"
      BY <1>23, CrashDoes, TaskIds DEF Record
    <2>2. \A i \in DOMAIN files' :
                \/ Range(files'[i]) \subseteq lost
                \/ i \in DOMAIN files /\ Range(files'[i]) \subseteq Range(files[i]) \cup lost
      <3> SUFFICES ASSUME NEW i \in DOMAIN files'
                   PROVE  \/ Range(files'[i]) \subseteq lost
                          \/ i \in DOMAIN files /\ Range(files'[i]) \subseteq Range(files[i]) \cup lost
        OBVIOUS
      <3>1. CASE i \notin DOMAIN files
        <4>1. files'[i] = <<>>
          BY <3>1, <1>23, CrashDoes
        <4> QED BY <4>1, RangeEmpty
      <3>2. CASE i \in DOMAIN files
        <4>1. \/ files'[i] = files[i]
              \/ \E h \in Handlers :
                    /\ At(h, "append") /\ Range(files'[i]) \subseteq Range(files[i]) \cup Range(task[h].points)
          BY <3>2, <1>23, CrashDoes
        <4>2. \A h \in Handlers : At(h, "append") => Range(task[h].points) \subseteq lost
          BY DEF Brings, At, Appending
        <4> QED BY <3>2, <4>1, <4>2
      <3> QED BY <3>1, <3>2
    <2>3. \A i \in DOMAIN buffers' : i \in DOMAIN files' /\ buffers'[i] = files'[i]
      <3>1. up' \/ ~up'
        OBVIOUS
      <3> QED BY <1>23, CrashDoes
    <2>4. /\ \A u \in Tasks \ {Cli} : Brings(u)' = {}
          /\ Brings(Cli)' = Brings(Cli)
      BY <2>1 DEF Brings, At, Appending
    <2>5. Placed' \subseteq Placed \cup lost
      <3>1. \A i \in SessionIds' : stored'[i] \subseteq Placed \cup lost
        BY <2>1, PlacedHas DEF SessionIds
      <3>2. \A i \in DOMAIN files' : Range(files'[i]) \subseteq Placed \cup lost
        BY <2>2, PlacedHas
      <3>3. \A i \in DOMAIN buffers' : Range(buffers'[i]) \subseteq Placed \cup lost
        BY <2>3, <3>2
      <3> HIDE DEF lost
      <3> QED BY <3>1, <3>2, <3>3, NextPlacedIff
    <2>6. lost \subseteq 1..lastPoint /\ lost \cap Brings(Cli) = {}
      BY <2>1 DEF FreshInv
    <2> HIDE DEF lost
    <2>7. Placed' \subseteq 1..lastPoint'
      BY <2>1, <2>5, <2>6 DEF FreshInv
    <2>8. \A u \in Tasks : Brings(u)' \subseteq (1..lastPoint') \ Placed'
      BY <2>1, <2>4, <2>5, <2>6 DEF FreshInv
    <2>9. \A u, other \in Tasks : u # other => Brings(u)' \cap Brings(other)' = {}
      BY <2>4
    <2> QED BY <2>7, <2>8, <2>9 DEF FreshInv
  <1>24. ASSUME Returns
        PROVE  FreshInv'
    <2>1. PICK t \in Tasks : Moves(t, Record("idle", 0, <<>>, {}, FALSE, {}))
      BY <1>24, ReturnsDoes
    <2>2. UNCHANGED <<rows, stored, files, buffers, lastPoint>>
      BY <1>24, ReturnsDoes
    <2>3. Brings(t)' = {} /\ \A u \in Tasks : u # t => Brings(u)' = Brings(u)
      BY <2>1, <2>2, BringsMoved DEF Appending
    <2> QED BY <2>2, <2>3, SamePlaced, FreshSame
  <1>25. ASSUME UNCHANGED vars
        PROVE  FreshInv'
    <2>1. UNCHANGED <<rows, stored, files, buffers, lastPoint, task>>
      BY <1>25 DEF vars, tableVars, bufferVars, boundVars, ghostVars
    <2>2. \A u \in Tasks : Brings(u)' = Brings(u)
      BY <2>1 DEF Brings, At
    <2> QED BY <2>1, <2>2, SamePlaced, TaskIds, FreshSame
  <1> QED BY StepCases, <1>1, <1>2, <1>3, <1>4, <1>5, <1>6, <1>7, <1>8, <1>9, <1>10, <1>11, <1>12,
         <1>13, <1>14, <1>15, <1>16, <1>17, <1>18, <1>19, <1>20, <1>21, <1>22, <1>23,
         <1>24, <1>25, Zenon

-----------------------------------------------------------------------------
\* What is in a buffer and in its file

LEMMA DbWriteStores ==
    ASSUME StoreTypes, NEW t \in Handlers \cup {Cli}, DbWrite(t)
    PROVE  /\ t \in Tasks /\ Id(t) \in SessionIds /\ SessionIds' = SessionIds
           /\ \A i \in SessionIds :
                stored'[i] = IF i = Id(t) THEN stored[i] \cup task[t].noted ELSE stored[i]
           /\ \A i \in SessionIds :
                /\ rows'[i].active = rows[i].active
                /\ rows'[i].points = IF i = Id(t) THEN task[t].points ELSE rows[i].points
  <1>1. /\ t \in Tasks /\ Id(t) \in SessionIds /\ task[t].noted \in SUBSET Points
        /\ AddStored(t, task[t].noted)
    BY DbWriteDoes, TaskIds, TaskFields
  <1>2. Id(t) \in SessionIds /\ task[t].points \in Seq(Points) /\ SetPoints(Id(t), task[t].points)
    BY <1>1, DbWriteDoes, TaskFields
  <1>3. \A i \in SessionIds :
                stored'[i] = IF i = Id(t) THEN stored[i] \cup task[t].noted ELSE stored[i]
    BY <1>1, StoredAdded
  <1> QED BY <1>1, <1>2, <1>3, PointsSet

LEMMA EndCloseDrops ==
    ASSUME StoreTypes, NEW h \in Handlers, NEW id \in SessionIds, EndClose(h, id)
    PROVE  /\ DOMAIN buffers' = DOMAIN buffers \ {id} /\ DOMAIN files' = DOMAIN files \ {id}
           /\ \A i \in DOMAIN buffers' : buffers'[i] = buffers[i]
           /\ \A i \in DOMAIN files' : files'[i] = files[i]
  <1>1. buffers' = Without(buffers, id) /\ files' = Without(files, id)
    BY EndCloseDoes
  <1>2. DOMAIN buffers' = DOMAIN buffers \ {id} /\ \A i \in DOMAIN buffers' : buffers'[i] = buffers[i]
    BY <1>1 DEF Without, Restrict
  <1>3. DOMAIN files' = DOMAIN files \ {id} /\ \A i \in DOMAIN files' : files'[i] = files[i]
    BY <1>1 DEF Without, Restrict
  <1> QED BY <1>2, <1>3

LEMMA FilesSame ==
    ASSUME FilesInv, UNCHANGED <<stored, buffers, files>>
    PROVE  FilesInv'
  BY DEF FilesInv

LEMMA FilesInserted ==
    ASSUME StoreTypes, FilesInv, NEW live \in BOOLEAN, InsertRow(live), UNCHANGED <<files, buffers>>
    PROVE  FilesInv'
  <1>1. \A i \in SessionIds : stored'[i] = stored[i]
    BY RowInserted
  <1>2. \A i \in DOMAIN buffers : i \in SessionIds
    BY BufferFields
  <1> QED BY <1>1, <1>2 DEF FilesInv

LEMMA NextFiles ==
    ASSUME StoreTypes, PlaceInv, FreshInv, FilesInv, [Next]_vars
    PROVE  FilesInv'
  <1>1. ASSUME NEW h \in Handlers, RegisterRow(h)
        PROVE  FilesInv'
    <2>1. PICK live \in BOOLEAN : InsertRow(live) /\ UNCHANGED <<files, buffers>>
      BY <1>1, RegisterRowDoes, TaskFields, TaskIds
    <2> QED BY <2>1, FilesInserted
  <1>2. ASSUME NEW h \in Handlers, StartBuffer(h)
        PROVE  FilesInv'
    <2>1. UNCHANGED stored
      BY <1>2, StartBufferDoes
    <2>2. /\ DOMAIN buffers' = DOMAIN buffers \cup {Id(h)} /\ Range(buffers'[Id(h)]) = {}
          /\ \A i \in DOMAIN buffers : i # Id(h) => buffers'[i] = buffers[i]
          /\ \A i \in DOMAIN files : i # Id(h) => files'[i] = files[i]
      BY <1>2, StartBufferMakes, RangeEmpty
    <2>3. \A i \in DOMAIN buffers : i \in DOMAIN files
      BY BufferFields
    <2> QED BY <2>1, <2>2, <2>3 DEF FilesInv
  <1>3. ASSUME NEW h \in Handlers, NEW id \in SessionIds, AppendLookup(h, id)
        PROVE  FilesInv'
    BY <1>3, AppendLookupDoes, FilesSame
  <1>4. ASSUME NEW t \in Handlers \cup {Cli}, ReadTrip(t)
        PROVE  FilesInv'
    BY <1>4, ReadTripDoes, FilesSame
  <1>5. ASSUME NEW t \in Handlers \cup {Cli}, WriteCountries(t)
        PROVE  FilesInv'
    BY <1>5, WriteCountriesDoes, FilesSame
  <1>6. ASSUME NEW h \in Handlers, AppendBuffer(h)
        PROVE  FilesInv'
    <2>1. PICK new : new = Range(task[h].points)
      OBVIOUS
    <2>2. /\ DOMAIN buffers' = DOMAIN buffers
          /\ \A i \in DOMAIN buffers :
                Range(buffers'[i]) = IF i = Id(h) THEN Range(buffers[i]) \cup new ELSE Range(buffers[i])
          /\ \A i \in DOMAIN files :
                Range(files'[i]) = IF i = Id(h) THEN Range(files[i]) \cup new ELSE Range(files[i])
          /\ \A i \in SessionIds :
                stored'[i] = IF i = Id(h) THEN stored[i] \cup new ELSE stored[i]
      BY <1>6, <2>1, AppendBufferStores
    <2>3. \A i \in DOMAIN buffers : i \in DOMAIN files /\ i \in SessionIds
      BY BufferFields
    <2> QED BY <2>2, <2>3 DEF FilesInv
  <1>7. ASSUME NEW t \in Handlers \cup {Cli}, DbRead(t)
        PROVE  FilesInv'
    BY <1>7, DbReadDoes, FilesSame
  <1>8. ASSUME NEW t \in Handlers \cup {Cli}, DbWrite(t)
        PROVE  FilesInv'
    <2>1. PICK new : new = task[t].noted
      OBVIOUS
    <2>2. \A i \in SessionIds : stored'[i] = IF i = Id(t) THEN stored[i] \cup new ELSE stored[i]
      BY <1>8, <2>1, DbWriteStores
    <2>3. UNCHANGED <<buffers, files>> /\ Brings(t) = new /\ t \in Tasks
      BY <1>8, DbWriteDoes, <2>1, TaskIds DEF Brings, At, Appending
    <2>4. \A i \in DOMAIN buffers : i \in SessionIds
      BY BufferFields
    <2>5. \A i \in DOMAIN buffers : Range(buffers[i]) \cap new = {}
      BY <2>3, PlacedHas DEF FreshInv
    <2> QED BY <2>2, <2>3, <2>4, <2>5 DEF FilesInv
  <1>9. ASSUME NEW h \in Handlers, NEW id \in SessionIds, EndClose(h, id)
        PROVE  FilesInv'
    <2>1. UNCHANGED stored
      BY <1>9, EndCloseDoes
    <2>2. /\ \A i \in DOMAIN buffers' : i \in DOMAIN buffers \ {id} /\ buffers'[i] = buffers[i]
          /\ \A i \in DOMAIN files \ {id} : files'[i] = files[i]
      BY <1>9, EndCloseDrops
    <2>3. \A i \in DOMAIN buffers : i \in DOMAIN files
      BY BufferFields
    <2> QED BY <2>1, <2>2, <2>3 DEF FilesInv
  <1>10. ASSUME NEW h \in Handlers, EndPoints(h)
        PROVE  FilesInv'
    BY <1>10, EndPointsDoes, FilesSame
  <1>11. ASSUME NEW h \in Handlers, EndActive(h)
        PROVE  FilesInv'
    BY <1>11, EndActiveDoes, FilesSame
  <1>12. ASSUME NEW h \in Handlers, StartFails(h)
        PROVE  FilesInv'
    <2>1. UNCHANGED <<stored, buffers>> /\ At(h, "start")
      BY <1>12, StartFailsDoes
    <2>2. Id(h) \notin DOMAIN files
      BY <2>1 DEF PlaceInv
    <2>3. \A i \in DOMAIN buffers : i \in DOMAIN files
      BY BufferFields
    <2>4. \A i \in DOMAIN files : files'[i] = files[i]
      BY <1>12, <2>2, StartFailsMakes
    <2> QED BY <2>1, <2>3, <2>4 DEF FilesInv
  <1>13. ASSUME NEW h \in Handlers, AppendFails(h)
        PROVE  FilesInv'
    <2>1. PICK new : new = Range(task[h].points)
      OBVIOUS
    <2>2. /\ DOMAIN buffers' = DOMAIN buffers
          /\ \A i \in DOMAIN buffers :
                Range(buffers'[i]) = IF i = Id(h) THEN Range(buffers[i]) \cup new ELSE Range(buffers[i])
      BY <1>13, <2>1, AppendFailsAdds
    <2>3. UNCHANGED <<stored, files>> /\ Brings(h) = new /\ h \in Tasks
      BY <1>13, AppendFailsDoes, <2>1, TaskIds DEF Brings, At, Appending
    <2>4. \A i \in DOMAIN buffers : i \in SessionIds
      BY BufferFields
    <2>5. \A i \in SessionIds : stored[i] \cap new = {}
      BY <2>3, PlacedHas DEF FreshInv
    <2> QED BY <2>2, <2>3, <2>4, <2>5 DEF FilesInv
  <1>14. ASSUME NEW h \in Handlers, NEW id \in SessionIds, CloseFails(h, id)
        PROVE  FilesInv'
    <2>1. UNCHANGED <<stored, files>>
      BY <1>14, CloseFailsDoes
    <2>2. \A i \in DOMAIN buffers' : i \in DOMAIN buffers /\ buffers'[i] = buffers[i]
      BY <1>14, CloseFailsDoes DEF Without, Restrict
    <2> QED BY <2>1, <2>2 DEF FilesInv
  <1>15. ASSUME NEW r \in Readers, NEW id \in SessionIds, ReadRow(r, id)
        PROVE  FilesInv'
    BY <1>15, ReadRowDoes, FilesSame
  <1>16. ASSUME NEW r \in Readers, ReadBuffer(r)
        PROVE  FilesInv'
    BY <1>16, ReadBufferDoes, FilesSame
  <1>17. ASSUME NEW id \in SessionIds, Ends(id)
        PROVE  FilesInv'
    BY <1>17, EndsDoes, FilesSame
  <1>18. ASSUME NEW id \in SessionIds, FixTime(id) \/ Combine(id)
        PROVE  FilesInv'
    BY <1>18, TakeDoes, FilesSame
  <1>19. ASSUME NEW id \in SessionIds, CombineWith(id)
        PROVE  FilesInv'
    BY <1>19, CombineWithDoes, FilesSame
  <1>20. ASSUME CopyRow
        PROVE  FilesInv'
    <2>1. PICK live \in BOOLEAN : InsertRow(live) /\ UNCHANGED <<files, buffers>>
      BY <1>20, CopyRowDoes, TaskFields, TaskIds
    <2> QED BY <2>1, FilesInserted
  <1>21. ASSUME CopyPoints
        PROVE  FilesInv'
    BY <1>21, CopyPointsDoes, FilesSame
  <1>22. ASSUME AddGpx
        PROVE  FilesInv'
    <2>1. PICK live \in BOOLEAN : InsertRow(live) /\ UNCHANGED <<files, buffers>>
      BY <1>22, AddGpxDoes, TaskFields, TaskIds
    <2> QED BY <2>1, FilesInserted
  <1>23. ASSUME Crash
        PROVE  FilesInv'
    <2>1. \A i \in DOMAIN buffers' : buffers'[i] = files'[i]
      <3>1. up' \/ ~up'
        OBVIOUS
      <3> QED BY <1>23, CrashDoes
    <2> QED BY <2>1 DEF FilesInv
  <1>24. ASSUME Returns
        PROVE  FilesInv'
    BY <1>24, ReturnsDoes, FilesSame
  <1>25. ASSUME UNCHANGED vars
        PROVE  FilesInv'
    BY <1>25, FilesSame DEF vars, ghostVars, bufferVars
  <1> QED BY StepCases, <1>1, <1>2, <1>3, <1>4, <1>5, <1>6, <1>7, <1>8, <1>9, <1>10, <1>11, <1>12,
         <1>13, <1>14, <1>15, <1>16, <1>17, <1>18, <1>19, <1>20, <1>21, <1>22, <1>23,
         <1>24, <1>25, Zenon

-----------------------------------------------------------------------------
\* The country list

LEMMA CountriesUnion ==
    \A some, more : CountriesOf(some \cup more) = CountriesOf(some) \cup CountriesOf(more)
  BY DEF CountriesOf

LEMMA CountriesKept ==
    ASSUME CountriesInv, UNCHANGED <<overlapped, countries>>, NEW t \in Tasks,
           NEW pc, NEW id, NEW points, NEW noted, NEW active, NEW list,
           Moves(t, Record(pc, id, points, noted, active, list)),
           ~overlapped /\ pc = "countries" => countries \cup CountriesOf(Range(points)) \subseteq list,
           ~overlapped /\ pc \in {"append", "dbRead"} => CountriesOf(Range(points)) \subseteq countries,
           ~overlapped /\ pc = "dbWrite" => CountriesOf(noted) \subseteq countries,
           ~overlapped => \A i \in SessionIds' : CountriesOf(stored'[i]) \subseteq countries
    PROVE  CountriesInv'
  <1>1. CASE overlapped
    BY <1>1 DEF CountriesInv
  <1>2. CASE ~overlapped
    <2>1. /\ task'[t].pc = pc /\ task'[t].points = points /\ task'[t].noted = noted /\ task'[t].list = list
          /\ \A u \in Tasks : u # t => task'[u] = task[u]
      BY MovedFields
    <2>2. CountriesListed'
      BY <1>2 DEF CountriesListed
    <2>3. \A u \in Tasks \ {t} :
            /\ task[u].pc = "countries" =>
                countries \cup CountriesOf(Range(task[u].points)) \subseteq task[u].list
            /\ task[u].pc \in {"append", "dbRead"} => CountriesOf(Range(task[u].points)) \subseteq countries
            /\ task[u].pc = "dbWrite" => CountriesOf(task[u].noted) \subseteq countries
      BY <1>2 DEF CountriesInv, At
    <2>4. \A u \in Tasks :
            /\ task'[u].pc = "countries" =>
                countries' \cup CountriesOf(Range(task'[u].points)) \subseteq task'[u].list
            /\ task'[u].pc \in {"append", "dbRead"} => CountriesOf(Range(task'[u].points)) \subseteq countries'
            /\ task'[u].pc = "dbWrite" => CountriesOf(task'[u].noted) \subseteq countries'
      BY <1>2, <2>1, <2>3
    <2> QED BY <2>2, <2>4 DEF CountriesInv, At
  <1> QED BY <1>1, <1>2

\* A task moves to where it holds nothing about the countries.
LEMMA CountriesApart ==
    ASSUME CountriesInv, UNCHANGED <<overlapped, countries, rows, stored>>, NEW t \in Tasks,
           NEW pc, NEW id, NEW points, NEW noted, NEW active, NEW list,
           Moves(t, Record(pc, id, points, noted, active, list)),
           pc \notin {"countries", "append", "dbRead", "dbWrite"}
    PROVE  CountriesInv'
  <1>1. ~overlapped => \A i \in SessionIds' : CountriesOf(stored'[i]) \subseteq countries
    BY DEF CountriesInv, CountriesListed, SessionIds
  <1> QED BY <1>1, CountriesKept

LEMMA CountriesInserted ==
    ASSUME StoreTypes, CountriesInv, UNCHANGED <<overlapped, countries>>, NEW t \in Tasks,
           NEW pc, NEW id, NEW points, NEW noted, NEW active, NEW list,
           Moves(t, Record(pc, id, points, noted, active, list)),
           pc \notin {"countries", "append", "dbRead", "dbWrite"},
           NEW live \in BOOLEAN, InsertRow(live)
    PROVE  CountriesInv'
  <1>1. /\ SessionIds' = SessionIds \cup {Len(rows) + 1} /\ stored'[Len(rows) + 1] = {}
        /\ \A i \in SessionIds : stored'[i] = stored[i]
    BY RowInserted
  <1>2. CountriesOf({}) = {}
    BY DEF CountriesOf
  <1>3. ~overlapped => \A i \in SessionIds' : CountriesOf(stored'[i]) \subseteq countries
    BY <1>1, <1>2 DEF CountriesInv, CountriesListed
  <1> QED BY <1>3, CountriesKept

LEMMA CountriesAdded ==
    ASSUME CountriesInv, UNCHANGED <<overlapped, countries>>, NEW t \in Tasks,
           Moves(t, Record("idle", 0, <<>>, {}, FALSE, {})), SessionIds' = SessionIds, NEW new, NEW k,
           \A i \in SessionIds : stored'[i] = IF i = k THEN stored[i] \cup new ELSE stored[i],
           ~overlapped => CountriesOf(new) \subseteq countries
    PROVE  CountriesInv'
  <1>1. ASSUME ~overlapped, NEW i \in SessionIds'
        PROVE  CountriesOf(stored'[i]) \subseteq countries
    <2>1. CountriesOf(stored[i]) \subseteq countries /\ CountriesOf(new) \subseteq countries
      BY <1>1 DEF CountriesInv, CountriesListed
    <2>2. stored'[i] = stored[i] \/ stored'[i] = stored[i] \cup new
      BY <1>1
    <2> QED BY <2>1, <2>2, CountriesUnion
  <1>2. PICK points, noted, active, list : Moves(t, Record("idle", 0, points, noted, active, list))
    OBVIOUS
  <1> QED BY <1>1, <1>2, CountriesKept

LEMMA NextCountries ==
    ASSUME StoreTypes, PlaceInv, CountriesInv, [Next]_vars
    PROVE  CountriesInv'
  <1>1. ASSUME NEW h \in Handlers, RegisterRow(h)
        PROVE  CountriesInv'
    <2>1. PICK points, noted, active, list : Moves(h, Record("start", Len(rows) + 1, points, noted, active, list))
      BY <1>1, RegisterRowDoes
    <2>2. PICK live \in BOOLEAN : InsertRow(live) /\ UNCHANGED <<overlapped, countries>>
      BY <1>1, RegisterRowDoes, TaskFields, TaskIds
    <2> QED BY <2>1, <2>2, TaskIds, CountriesInserted
  <1>2. ASSUME NEW h \in Handlers, StartBuffer(h)
        PROVE  CountriesInv'
    <2>1. PICK points, noted, active, list : Moves(h, Record("idle", 0, points, noted, active, list))
      BY <1>2, StartBufferDoes
    <2>2. UNCHANGED <<overlapped, countries, rows, stored>>
      BY <1>2, StartBufferDoes
    <2> QED BY <2>1, <2>2, TaskIds, CountriesApart
  <1>3. ASSUME NEW h \in Handlers, NEW id \in SessionIds, AppendLookup(h, id)
        PROVE  CountriesInv'
    <2>1. PICK points, noted, active, list : Moves(h, Record("trip", id, points, noted, active, list))
      BY <1>3, AppendLookupDoes
    <2>2. UNCHANGED <<overlapped, countries, rows, stored>>
      BY <1>3, AppendLookupDoes
    <2> QED BY <2>1, <2>2, TaskIds, CountriesApart
  <1>4. ASSUME NEW t \in Handlers \cup {Cli}, ReadTrip(t)
        PROVE  CountriesInv'
    <2>1. /\ At(t, "trip") /\ t \in Tasks /\ UNCHANGED <<overlapped, countries, rows, stored>>
      BY <1>4, ReadTripDoes, TaskIds
    <2>2. ~overlapped => \A i \in SessionIds' : CountriesOf(stored'[i]) \subseteq countries
      BY <2>1 DEF CountriesInv, CountriesListed, SessionIds
    <2>3. CASE /\ CountriesOf(Range(task[t].points)) \subseteq countries
               /\ Moves(t, Record(Destination(t), Id(t), task[t].points, task[t].noted,
                                  task[t].active, task[t].list))
      <3>1. Destination(t) \in {"append", "dbRead"}
        BY DEF Destination
      <3> QED BY <2>1, <2>2, <2>3, <3>1, CountriesKept
    <2>4. CASE Moves(t, Record("countries", Id(t), task[t].points, task[t].noted, task[t].active,
                               countries \cup CountriesOf(Range(task[t].points))))
      BY <2>1, <2>2, <2>4, CountriesKept
    <2> QED BY <1>4, ReadTripDoes, <2>3, <2>4
  <1>5. ASSUME NEW t \in Handlers \cup {Cli}, WriteCountries(t)
        PROVE  CountriesInv'
    <2> SUFFICES ASSUME ~overlapped'
                 PROVE  CountriesInv'
      BY DEF CountriesInv
    <2>1. /\ t \in Tasks /\ At(t, "countries") /\ ~overlapped /\ countries' = task[t].list
          /\ \A other \in Tasks \ {t} : ~At(other, "countries")
          /\ UNCHANGED <<rows, stored>>
      BY <1>5, WriteCountriesDoes, TaskIds
    <2>2. countries \cup CountriesOf(Range(task[t].points)) \subseteq countries'
      BY <2>1 DEF CountriesInv
    <2>3. PICK pc, list :
                /\ pc = Destination(t)
                /\ Moves(t, Record(pc, Id(t), task[t].points, task[t].noted, task[t].active, list))
      BY <1>5, WriteCountriesDoes
    <2>4. /\ task'[t].pc = pc /\ task'[t].points = task[t].points /\ pc \in {"append", "dbRead"}
          /\ \A u \in Tasks : u # t => task'[u] = task[u]
      BY <2>3, MovedFields DEF Destination
    <2>5. \A u \in Tasks \ {t} :
            /\ task[u].pc # "countries"
            /\ task[u].pc \in {"append", "dbRead"} => CountriesOf(Range(task[u].points)) \subseteq countries
            /\ task[u].pc = "dbWrite" => CountriesOf(task[u].noted) \subseteq countries
      BY <2>1 DEF CountriesInv, At
    <2>6. \A u \in Tasks :
            /\ task'[u].pc # "countries"
            /\ task'[u].pc \in {"append", "dbRead"} => CountriesOf(Range(task'[u].points)) \subseteq countries'
            /\ task'[u].pc = "dbWrite" => CountriesOf(task'[u].noted) \subseteq countries'
      BY <2>2, <2>4, <2>5
    <2>7. CountriesListed'
      BY <2>1, <2>2 DEF CountriesInv, CountriesListed, SessionIds
    <2> QED BY <2>6, <2>7 DEF CountriesInv, At
  <1>6. ASSUME NEW h \in Handlers, AppendBuffer(h)
        PROVE  CountriesInv'
    <2>1. PICK new : new = Range(task[h].points)
      OBVIOUS
    <2>2. /\ SessionIds' = SessionIds /\ h \in Tasks
          /\ \A i \in SessionIds : stored'[i] = IF i = Id(h) THEN stored[i] \cup new ELSE stored[i]
      BY <1>6, <2>1, AppendBufferStores
    <2>3. Moves(h, Record("idle", 0, <<>>, {}, FALSE, {})) /\ UNCHANGED <<overlapped, countries>>
          /\ task[h].pc = "append"
      BY <1>6, AppendBufferDoes DEF At
    <2>4. ~overlapped => CountriesOf(new) \subseteq countries
      BY <2>1, <2>2, <2>3 DEF CountriesInv
    <2> QED BY <2>2, <2>3, <2>4, CountriesAdded
  <1>7. ASSUME NEW t \in Handlers \cup {Cli}, DbRead(t)
        PROVE  CountriesInv'
    <2>1. PICK points, noted, active, list :
                noted = Range(task[t].points) /\ Moves(t, Record("dbWrite", Id(t), points, noted, active, list))
      BY <1>7, DbReadDoes
    <2>2. At(t, "dbRead") /\ t \in Tasks /\ UNCHANGED <<overlapped, countries, rows, stored>>
      BY <1>7, DbReadDoes, TaskIds
    <2>3. ~overlapped => CountriesOf(noted) \subseteq countries
      BY <2>1, <2>2 DEF CountriesInv, At
    <2>4. ~overlapped => \A i \in SessionIds' : CountriesOf(stored'[i]) \subseteq countries
      BY <2>2 DEF CountriesInv, CountriesListed, SessionIds
    <2> QED BY <2>1, <2>2, <2>3, <2>4, CountriesKept
  <1>8. ASSUME NEW t \in Handlers \cup {Cli}, DbWrite(t)
        PROVE  CountriesInv'
    <2>1. PICK new : new = task[t].noted
      OBVIOUS
    <2>2. /\ t \in Tasks /\ SessionIds' = SessionIds
          /\ \A i \in SessionIds : stored'[i] = IF i = Id(t) THEN stored[i] \cup new ELSE stored[i]
      BY <1>8, <2>1, DbWriteStores
    <2>3. Moves(t, Record("idle", 0, <<>>, {}, FALSE, {})) /\ UNCHANGED <<overlapped, countries>>
          /\ At(t, "dbWrite")
      BY <1>8, DbWriteDoes
    <2>4. ~overlapped => CountriesOf(new) \subseteq countries
      BY <2>1, <2>2, <2>3 DEF CountriesInv
    <2> QED BY <2>2, <2>3, <2>4, CountriesAdded
  <1>9. ASSUME NEW h \in Handlers, NEW id \in SessionIds, EndClose(h, id)
        PROVE  CountriesInv'
    <2>1. PICK points, noted, active, list : Moves(h, Record("endPoints", id, points, noted, active, list))
      BY <1>9, EndCloseDoes
    <2>2. UNCHANGED <<overlapped, countries, rows, stored>>
      BY <1>9, EndCloseDoes
    <2> QED BY <2>1, <2>2, TaskIds, CountriesApart
  <1>10. ASSUME NEW h \in Handlers, EndPoints(h)
        PROVE  CountriesInv'
    <2>1. PICK points, noted, active, list : Moves(h, Record("endActive", Id(h), points, noted, active, list))
      BY <1>10, EndPointsDoes
    <2>2. UNCHANGED <<overlapped, countries>> /\ UNCHANGED stored /\ SessionIds' = SessionIds /\ h \in Tasks
      BY <1>10, EndPointsDoes, TaskIds, TaskFields, PointsSet, ActiveCleared
    <2>3. ~overlapped => \A i \in SessionIds' : CountriesOf(stored'[i]) \subseteq countries
      BY <2>2 DEF CountriesInv, CountriesListed
    <2> QED BY <2>1, <2>2, <2>3, CountriesKept
  <1>11. ASSUME NEW h \in Handlers, EndActive(h)
        PROVE  CountriesInv'
    <2>1. PICK points, noted, active, list : Moves(h, Record("idle", 0, points, noted, active, list))
      BY <1>11, EndActiveDoes
    <2>2. UNCHANGED <<overlapped, countries>> /\ UNCHANGED stored /\ SessionIds' = SessionIds /\ h \in Tasks
      BY <1>11, EndActiveDoes, TaskIds, TaskFields, PointsSet, ActiveCleared
    <2>3. ~overlapped => \A i \in SessionIds' : CountriesOf(stored'[i]) \subseteq countries
      BY <2>2 DEF CountriesInv, CountriesListed
    <2> QED BY <2>1, <2>2, <2>3, CountriesKept
  <1>12. ASSUME NEW h \in Handlers, StartFails(h)
        PROVE  CountriesInv'
    <2>1. PICK points, noted, active, list : Moves(h, Record("idle", 0, points, noted, active, list))
      BY <1>12, StartFailsDoes
    <2>2. UNCHANGED <<overlapped, countries, rows, stored>>
      BY <1>12, StartFailsDoes
    <2> QED BY <2>1, <2>2, TaskIds, CountriesApart
  <1>13. ASSUME NEW h \in Handlers, AppendFails(h)
        PROVE  CountriesInv'
    <2>1. PICK points, noted, active, list : Moves(h, Record("idle", 0, points, noted, active, list))
      BY <1>13, AppendFailsDoes
    <2>2. UNCHANGED <<overlapped, countries, rows, stored>>
      BY <1>13, AppendFailsDoes
    <2> QED BY <2>1, <2>2, TaskIds, CountriesApart
  <1>14. ASSUME NEW h \in Handlers, NEW id \in SessionIds, CloseFails(h, id)
        PROVE  CountriesInv'
    <2>1. UNCHANGED <<overlapped, countries, rows, stored, task>>
      BY <1>14, CloseFailsDoes
    <2> QED BY <2>1 DEF CountriesInv, CountriesListed, SessionIds, At
  <1>15. ASSUME NEW r \in Readers, NEW id \in SessionIds, ReadRow(r, id)
        PROVE  CountriesInv'
    <2>1. PICK pc \in {"readBuffer", "answer"} :
                Moves(r, Record(pc, id, rows[id].points, stored[id], FALSE, {}))
      BY <1>15, ReadRowDoes
    <2>2. UNCHANGED <<overlapped, countries, rows, stored>>
      BY <1>15, ReadRowDoes
    <2> QED BY <2>1, <2>2, TaskIds, CountriesApart
  <1>16. ASSUME NEW r \in Readers, ReadBuffer(r)
        PROVE  CountriesInv'
    <2>1. PICK points, noted, active, list : Moves(r, Record("answer", Id(r), points, noted, active, list))
      BY <1>16, ReadBufferDoes
    <2>2. UNCHANGED <<overlapped, countries, rows, stored>>
      BY <1>16, ReadBufferDoes
    <2> QED BY <2>1, <2>2, TaskIds, CountriesApart
  <1>17. ASSUME NEW id \in SessionIds, Ends(id)
        PROVE  CountriesInv'
    <2>1. UNCHANGED <<overlapped, countries, stored, task>> /\ SessionIds' = SessionIds
      BY <1>17, EndsDoes, ActiveCleared
    <2> QED BY <2>1 DEF CountriesInv, CountriesListed, At
  <1>18. ASSUME NEW id \in SessionIds, FixTime(id) \/ Combine(id)
        PROVE  CountriesInv'
    <2>1. PICK pc, points, noted, active : pc \in {"insert", "second"} /\
                Moves(Cli, Record(pc, id, points, noted, active, {}))
      BY <1>18, TakeDoes
    <2>2. UNCHANGED <<overlapped, countries, rows, stored>>
      BY <1>18, TakeDoes
    <2> QED BY <2>1, <2>2, TaskIds, CountriesApart
  <1>19. ASSUME NEW id \in SessionIds, CombineWith(id)
        PROVE  CountriesInv'
    <2>1. PICK points, noted, active, list : Moves(Cli, Record("insert", Id(Cli), points, noted, active, list))
      BY <1>19, CombineWithDoes
    <2>2. UNCHANGED <<overlapped, countries, rows, stored>>
      BY <1>19, CombineWithDoes
    <2> QED BY <2>1, <2>2, TaskIds, CountriesApart
  <1>20. ASSUME CopyRow
        PROVE  CountriesInv'
    <2>1. PICK points, noted, active, list : Moves(Cli, Record("copy", Len(rows) + 1, points, noted, active, list))
      BY <1>20, CopyRowDoes
    <2>2. PICK live \in BOOLEAN : InsertRow(live) /\ UNCHANGED <<overlapped, countries>>
      BY <1>20, CopyRowDoes, TaskFields, TaskIds
    <2> QED BY <2>1, <2>2, TaskIds, CountriesInserted
  <1>21. ASSUME CopyPoints
        PROVE  CountriesInv'
    <2>1. PICK points, noted, active, list : Moves(Cli, Record("idle", 0, points, noted, active, list))
      BY <1>21, CopyPointsDoes
    <2>2. UNCHANGED <<overlapped, countries>> /\ UNCHANGED stored /\ SessionIds' = SessionIds /\ Cli \in Tasks
      BY <1>21, CopyPointsDoes, TaskIds, TaskFields, PointsSet, ActiveCleared
    <2>3. ~overlapped => \A i \in SessionIds' : CountriesOf(stored'[i]) \subseteq countries
      BY <2>2 DEF CountriesInv, CountriesListed
    <2> QED BY <2>1, <2>2, <2>3, CountriesKept
  <1>22. ASSUME AddGpx
        PROVE  CountriesInv'
    <2>1. PICK points, noted, active, list : Moves(Cli, Record("trip", Len(rows) + 1, points, noted, active, list))
      BY <1>22, AddGpxDoes
    <2>2. PICK live \in BOOLEAN : InsertRow(live) /\ UNCHANGED <<overlapped, countries>>
      BY <1>22, AddGpxDoes, TaskFields, TaskIds
    <2> QED BY <2>1, <2>2, TaskIds, CountriesInserted
  <1>23. ASSUME Crash
        PROVE  CountriesInv'
    <2>1. /\ UNCHANGED <<overlapped, countries, rows, stored>> /\ task'[Cli] = task[Cli] /\ Cli \in Tasks
          /\ \A u \in Tasks \ {Cli} : task'[u].pc = "idle"
      BY <1>23, CrashDoes, TaskIds DEF Record
    <2> QED BY <2>1 DEF CountriesInv, CountriesListed, SessionIds, At
  <1>24. ASSUME Returns
        PROVE  CountriesInv'
    <2>1. PICK t \in Tasks : Moves(t, Record("idle", 0, <<>>, {}, FALSE, {}))
      BY <1>24, ReturnsDoes
    <2>2. UNCHANGED <<overlapped, countries, rows, stored>>
      BY <1>24, ReturnsDoes
    <2> QED BY <2>1, <2>2, CountriesApart
  <1>25. ASSUME UNCHANGED vars
        PROVE  CountriesInv'
    BY <1>25 DEF vars, tableVars, ghostVars, CountriesInv, CountriesListed, SessionIds, At
  <1> QED BY StepCases, <1>1, <1>2, <1>3, <1>4, <1>5, <1>6, <1>7, <1>8, <1>9, <1>10, <1>11, <1>12,
         <1>13, <1>14, <1>15, <1>16, <1>17, <1>18, <1>19, <1>20, <1>21, <1>22, <1>23,
         <1>24, <1>25, Zenon
=============================================================================
