------------------------------ MODULE StateFile ------------------------------
(***************************************************************************)
(* STATE.CSV as the card holds it.  StorageService overwrites the file in  *)
(* place, write by write, pads what is left of the longer text before it   *)
(* with zeros and flushes; the next boot parses what it finds.  Tracker    *)
(* takes a save as one step; here a save is its writes, and power can be   *)
(* lost between any two of them.  Of the card, which is external, this     *)
(* takes that writes reach it at once and in order and that one within a   *)
(* block is atomic: the file is far shorter than the 512 bytes of one.     *)
(*                                                                         *)
(* A number moves what stands behind it when it gets a digit longer, so    *)
(* the text is modelled by its cells: digits and the four characters that  *)
(* mean something to parse.                                                *)
(***************************************************************************)
EXTENDS UploadStatus

Seqs == INSTANCE SequencesExt
Sets == INSTANCE FiniteSetsExt

CONSTANTS
    Base,           \* of the numbers in the file: 10
    Counts,         \* points one upload_data adds
    OldSessions,    \* sessions on the card from before uploads were switched on
    MaxBoots,       \* bound: boots
    MaxSaves,       \* bound: saves
    MaxUploaded     \* bound: points of a session

ASSUME StateFileAssumption ==
    /\ Base \in Nat \ {0, 1} /\ Counts \subseteq Nat \ {0} /\ RemoteIds \subseteq Nat
    /\ {OldSessions, MaxBoots, MaxSaves, MaxUploaded} \subseteq Nat /\ OldSessions <= MaxBoots

VARIABLES
    file,           \* the cells on the card
    length,         \* the file's length in its directory entry
    boots, joined,  \* the session of this boot, and was it added?
    status,         \* upload_status
    pending,        \* the writes of the save under way
    offset,         \* where the next one goes
    phase,          \* "off", "run", "save", "panic"
    saves,
    saved,          \* what the card should hold: the last save, or what was read
    cut             \* cuts since the last completed save: "none", "one", "more"

vars == <<file, length, boots, joined, status, pending, offset, phase, saves, saved, cut>>

-----------------------------------------------------------------------------
\* The text of a status

Digit == 0..(Base - 1)
Comma == Base
Query == Base + 1
NewLine == Base + 2
Zero == Base + 3

Cells == 0..Zero

Digits[n \in Nat] == IF n < Base THEN <<n>> ELSE Append(Digits[n \div Base], n % Base)

\* One line, one field or separator per write
LineWrites(entry) ==
    <<Digits[entry.local], <<Comma>>,
      IF entry.remote = NoRemote THEN <<Query>> ELSE Digits[entry.remote], <<Comma>>,
      Digits[entry.uploaded], <<NewLine>>>>

\* Mutant: no header, and parse skips a session.
MutTextWrites(entries) ==
    Seqs!FlattenSeq([i \in DOMAIN entries |-> LineWrites(entries[i])])

\* The names of the columns are never read: the header is the end of its line.
TextWrites(entries) ==
    <<<<NewLine>>>> \o Seqs!FlattenSeq([i \in DOMAIN entries |-> LineWrites(entries[i])])

Text(entries) == Seqs!FlattenSeq(TextWrites(entries))

\* Mutant: what is left of the old text stays.
MutSaveWrites(entries, old) == TextWrites(entries)

SaveWrites(entries, old) ==
    LET missing == old - Len(Text(entries))
    IN  TextWrites(entries)
        \o IF missing > 0 THEN <<[i \in 1..missing |-> Zero]>> ELSE <<>>

\* What parse makes of a text

\* The cells before the first separator, all if there is none, and those behind it
FirstAt(cells, separator) ==
    CHOOSE i \in 1..(Len(cells) + 1) :
        /\ i <= Len(cells) => cells[i] = separator
        /\ \A j \in 1..(i - 1) : cells[j] # separator
UpTo(cells, separator) == SubSeq(cells, 1, FirstAt(cells, separator) - 1)
Behind(cells, separator) == SubSeq(cells, FirstAt(cells, separator) + 1, Len(cells))

TrimZeros(line) ==
    LET kept == {i \in DOMAIN line : line[i] # Zero}
    IN  IF kept = {} THEN <<>> ELSE SubSeq(line, Sets!Min(kept), Sets!Max(kept))

\* The lines that are not empty
Lines[cells \in Seq(Cells)] ==
    IF cells = <<>> THEN <<>>
    ELSE LET line == TrimZeros(UpTo(cells, NewLine))
         IN  (IF line = <<>> THEN <<>> ELSE <<line>>) \o Lines[Behind(cells, NewLine)]

\* Those after the header
Rows(cells) == Lines[Behind(cells, NewLine)]

\* parse unwraps three fields of every line; a fourth is not looked at, and one that is
\* not there is as bad as an empty one.
Field1(row) == UpTo(row, Comma)
Field2(row) == UpTo(Behind(row, Comma), Comma)
Field3(row) == UpTo(Behind(Behind(row, Comma), Comma), Comma)

IsNumber(field) == field # <<>> /\ field \in Seq(Digit)

Number[field \in Seq(Digit)] ==
    IF field = <<>> THEN 0
    ELSE Number[Seqs!Front(field)] * Base + field[Len(field)]

IsEntry(row) ==
    /\ IsNumber(Field1(row)) /\ IsNumber(Field3(row))
    /\ Field2(row) = <<Query>> \/ IsNumber(Field2(row))

Readable(cells) == \A i \in DOMAIN Rows(cells) : IsEntry(Rows(cells)[i])

EntryOf(row) ==
    [local |-> Number[Field1(row)],
     remote |-> IF Field2(row) = <<Query>> THEN NoRemote ELSE Number[Field2(row)],
     uploaded |-> Number[Field3(row)]]

Parse(cells) == LET rows == Rows(cells) IN [i \in DOMAIN rows |-> EntryOf(rows[i])]

-----------------------------------------------------------------------------

Init ==
    /\ file = <<>> /\ length = 0
    /\ boots = OldSessions /\ joined = FALSE /\ status = <<>>
    /\ pending = <<>> /\ offset = 0 /\ phase = "off" /\ saves = 0
    /\ saved = <<>> /\ cut = "none"

\* write_upload_status begins: the file is as long as its entry says.
BeginSave(entries) ==
    /\ status' = entries
    /\ pending' = SaveWrites(entries, length) /\ offset' = 0
    /\ phase' = "save"

\* The card is written at once, the directory entry with the flush.
Overwrite(cells) ==
    [i \in 1..(IF offset + Len(cells) > Len(file) THEN offset + Len(cells) ELSE Len(file)) |->
        IF i \in (offset + 1)..(offset + Len(cells)) THEN cells[i - offset] ELSE file[i]]

WriteNext ==
    /\ phase = "save" /\ pending # <<>>
    /\ file' = Overwrite(Head(pending))
    /\ offset' = offset + Len(Head(pending))
    /\ pending' = Tail(pending)
    /\ UNCHANGED <<length, boots, joined, status, phase, saves, saved, cut>>

\* Mutant: the file is not flushed.
MutFlush ==
    /\ phase = "save" /\ pending = <<>>
    /\ phase' = "run"
    /\ saved' = status /\ cut' = "none"
    /\ UNCHANGED <<file, length, boots, joined, status, pending, offset, saves>>

Flush ==
    /\ phase = "save" /\ pending = <<>>
    /\ length' = Len(file)
    /\ phase' = "run"
    /\ saved' = status /\ cut' = "none"
    /\ UNCHANGED <<file, boots, joined, status, pending, offset, saves>>

\* read_upload_status: an empty file gets the default status.
Boot ==
    /\ phase = "off" /\ boots < MaxBoots
    /\ boots' = boots + 1 /\ joined' = FALSE
    /\ IF file = <<>>
       THEN BeginSave(<<>>) /\ UNCHANGED saved
       ELSE /\ IF Readable(file)
               THEN phase' = "run" /\ status' = Parse(file) /\ saved' = status'
               ELSE phase' = "panic" /\ UNCHANGED <<status, saved>>
            /\ UNCHANGED <<pending, offset>>
    /\ UNCHANGED <<file, length, saves, cut>>

\* A change of the status and its save
Save(entries) ==
    /\ phase = "run" /\ saves < MaxSaves
    /\ saves' = saves + 1
    /\ BeginSave(entries)
    /\ UNCHANGED <<file, length, boots, saved, cut>>

Join == ~joined /\ Save(AddSession(status, boots)) /\ joined' = TRUE

\* Between a change by the upload actor and its save the GNSS actor may add the
\* session of this boot: its save then writes both, and the other one the same again.
SaveChange(entries) ==
    \/ Save(entries) /\ UNCHANGED joined
    \/ ~joined /\ Save(AddSession(entries, boots)) /\ joined' = TRUE

Name(i, remote) ==
    /\ status[i].remote = NoRemote
    /\ SaveChange(SetRemoteSessionId(status, status[i].local, remote))

Count(i, n) ==
    /\ status[i].remote # NoRemote /\ status[i].uploaded + n <= MaxUploaded
    /\ SaveChange(AddUploaded(status, status[i].local, n))

\* Vec::retain, which FinishSession takes for ids that are all different: those of a
\* torn file need not be.
Retain(entries, id) ==
    Seqs!FlattenSeq([i \in DOMAIN entries |->
        IF entries[i].local = id THEN <<>> ELSE <<entries[i]>>])

Finish(i) ==
    /\ status[i].remote # NoRemote
    /\ SaveChange(Retain(status, status[i].local))

\* Cells behind the length of the directory entry are lost.
PowerLoss ==
    /\ phase # "off"
    /\ phase' = "off"
    /\ file' = SubSeq(file, 1, length)
    /\ cut' = IF phase # "save" THEN cut ELSE IF cut = "none" THEN "one" ELSE "more"
    /\ UNCHANGED <<length, boots, joined, status, pending, offset, saves, saved>>

Next ==
    \/ Boot \/ Join \/ WriteNext \/ Flush \/ PowerLoss
    \/ \E i \in DOMAIN status :
        \/ Finish(i)
        \/ \E remote \in RemoteIds : Name(i, remote)
        \/ \E n \in Counts : Count(i, n)

Spec == Init /\ [][Next]_vars

-----------------------------------------------------------------------------
\* Properties.  After a cut `status` is what was being saved, `saved` what had been.

Entry == [local : Nat, remote : Nat \cup {NoRemote}, uploaded : Nat]

Phases == {"off", "run", "save", "panic"}

TypeOK ==
    /\ file \in Seq(Cells) /\ length \in 0..Len(file)
    /\ phase # "save" => length = Len(file)
    /\ {status, saved} \subseteq Seq(Entry)
    /\ pending \in Seq(Seq(Cells)) /\ offset \in Nat
    /\ boots \in OldSessions..MaxBoots /\ saves \in 0..MaxSaves /\ phase \in Phases
    /\ joined \in BOOLEAN /\ cut \in {"none", "one", "more"}

\* A boot after a completed save reads what was saved, though the file is never
\* truncated and may end in zeros or in the longer lines of an earlier time, and also
\* when the save before it was cut: a save that completes mends the file.
SavedIsRead == phase = "off" /\ cut = "none" => Readable(file) /\ Parse(file) = saved

\* If a boot can read what a cut save left, the lines the save had written before the
\* cut are there first, as they were to be saved.
WrittenLinesAreRead ==
    phase = "off" /\ cut = "one" /\ Readable(file) =>
        LET read == Parse(file)
        IN  \A n \in 1..Len(status) :
                Len(Text(SubSeq(status, 1, n))) <= Sets!Min({offset, length}) =>
                    n <= Len(read) /\ read[n] = status[n]

\* One write of the save differs from those of the last one, and not in its length.
OneWriteDiffers ==
    LET old == TextWrites(saved)
        new == TextWrites(status)
    IN  \E k \in DOMAIN old :
            /\ DOMAIN new = DOMAIN old /\ Len(new[k]) = Len(old[k])
            /\ \A j \in DOMAIN old \ {k} : new[j] = old[j]
OnlyAdds == Seqs!IsPrefix(saved, status) /\ length = Len(Text(saved))

\* A save that changes one field into one as long, or only adds a line to a file that
\* is not padded, is atomic under power loss.  Every other save can leave a file that
\* makes each later boot panic, or one that reads as neither status.
AtomicUnlessShifted ==
    phase = "off" /\ cut = "one" /\ (OneWriteDiffers \/ OnlyAdds) =>
        Readable(file) /\ Parse(file) \in {saved, status}
=============================================================================
