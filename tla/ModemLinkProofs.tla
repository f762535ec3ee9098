-------------------------- MODULE ModemLinkProofs ---------------------------
(***************************************************************************)
(* Inv of ModemLink is inductive, and so an answer is never taken for      *)
(* those of two commands, is late by no more than the timeouts before it,  *)
(* a result code is never another operation's, and no subscriber is left   *)
(* behind, for any number of commands and messages on the line.            *)
(***************************************************************************)
EXTENDS ModemLink, FiniteSetTheorems, SequenceTheorems, TLAPS

\* What holds of the parts of the state between two steps
LEMMA Parts ==
    ASSUME TypeOK
    PROVE  /\ Current \in Nat /\ DOMAIN log = Commands
           /\ \A c \in Commands : /\ log[c] \in Command
                                  /\ log[c].answer \in 0..c /\ log[c].urc \in 0..c
                                  /\ log[c].what \in Urcs \cup {"send", "cipsend", "data"}
           /\ Len(line) \in Nat /\ DOMAIN line = 1..Len(line)
           /\ \A i \in DOMAIN line : line[i].to \in 0..Current /\ line[i].says \in Words
           /\ Len(owed) \in Nat /\ DOMAIN owed = 1..Len(owed)
           /\ \A k \in DOMAIN owed : owed[k] \in Commands
           /\ signal.to \in 0..Current
  <1>1. Current \in Nat /\ DOMAIN log = Commands
    BY LenProperties DEF TypeOK, Current, Commands
  <1>2. \A c \in Commands : log[c] \in Command
    BY <1>1, ElementOfSeq DEF TypeOK, Commands, Current
  <1>3. \A c \in Commands : log[c].answer \in 0..c /\ log[c].urc \in 0..c
    BY <1>1, <1>2 DEF TypeOK, Command, Commands
  <1>4. Len(line) \in Nat /\ DOMAIN line = 1..Len(line)
        /\ Len(owed) \in Nat /\ DOMAIN owed = 1..Len(owed)
    BY LenProperties DEF TypeOK
  <1>5. \A i \in DOMAIN line : line[i] \in [to : 0..Current, says : Words]
    BY <1>4, ElementOfSeq DEF TypeOK
  <1>6. \A k \in DOMAIN owed : owed[k] \in Commands
    BY <1>4, ElementOfSeq DEF TypeOK
  <1>7. signal.to \in 0..Current
    BY DEF TypeOK
  <1> QED BY <1>1, <1>2, <1>3, <1>4, <1>5, <1>6, <1>7 DEF Command

THEOREM InitInv == Init => Inv
  <1> SUFFICES ASSUME Init PROVE Inv
    OBVIOUS
  <1>1. Current = 0 /\ Commands = {} /\ DOMAIN line = {} /\ DOMAIN owed = {}
    BY EmptySeq DEF Init, Current, Commands
  <1>2. TypeOK
    <2>1. /\ <<>> \in Seq([to : 0..Current, says : Words])
          /\ <<>> \in Seq(Commands) /\ <<>> \in Seq(Command)
      BY EmptySeq
    <2>2. Current <= MaxCommands
      BY <1>1, BoundsAssumption
    <2>3. line \in Seq([to : 0..Current, says : Words]) /\ owed \in Seq(Commands)
          /\ log \in Seq(Command)
      BY <2>1 DEF Init
    <2>4. op \in [kind : {"none", "send", "urc", "cip"}, at : {"idle", "answer", "urc"},
                  sub : 0..Current]
      BY <1>1 DEF Init, Idle
    <2>5. signal \in [to : 0..Current, says : Words]
      BY <1>1 DEF Init, None, Words
    <2> QED BY <1>1, <2>2, <2>3, <2>4, <2>5 DEF Init, TypeOK
  <1>3. OpInv /\ SubscriberInv
    BY DEF Init, OpInv, SubscriberInv, Idle
  <1>4. AnswersInOrder /\ AnswerInv /\ OwnUrcs /\ UrcInv
    BY <1>1 DEF Init, AnswersInOrder, AnswerInv, OwnUrcs, UrcInv, None
  <1> QED BY <1>2, <1>3, <1>4 DEF Inv

-----------------------------------------------------------------------------
\* Writing a command: its answer is later than all there are, its result code nowhere.

LEMMA WriteLog ==
    ASSUME TypeOK, NEW what \in Urcs \cup {"send", "cipsend", "data"},
           NEW entries \in Seq(Command), Len(entries) = Current,
           \A c \in Commands : entries[c].answer <= c /\ entries[c].urc <= c,
           Write(entries, what)
    PROVE  /\ Current' = Current + 1 /\ Commands' = Commands \cup {Current + 1}
           /\ \A c \in Commands : log'[c] = entries[c]
           /\ log'[Current + 1] = [what |-> what, answer |-> 0, urc |-> 0]
           /\ log' \in Seq(Command') /\ Current' <= MaxCommands
           /\ \A c \in Commands' : log'[c].answer <= c /\ log'[c].urc <= c
           /\ owed' \in Seq(Commands') /\ DOMAIN owed' = DOMAIN owed \cup {Len(owed) + 1}
           /\ \A k \in DOMAIN owed : owed'[k] = owed[k]
           /\ owed'[Len(owed) + 1] = Current + 1
           /\ coming' \subseteq coming \cup {Current + 1}
  <1> DEFINE e == [what |-> what, answer |-> 0, urc |-> 0]
  <1> USE Parts
  <1>1. log' = Append(entries, e) /\ owed' = Append(owed, Current + 1)
        /\ Current < MaxCommands /\ coming' \subseteq coming \cup {Current + 1}
    BY DEF Write
  <1>2. log' \in Seq(Command \cup {e}) /\ Len(log') = Current + 1 /\ log'[Current + 1] = e
        /\ \A c \in 1..Current : log'[c] = entries[c]
    <2>1. entries \in Seq(Command \cup {e})
      BY SeqMonotonic
    <2> QED BY <1>1, <2>1, AppendProperties
  <1>3. Current' = Current + 1 /\ Commands' = Commands \cup {Current + 1}
    BY <1>2 DEF Current, Commands
  <1>4. \A c \in Commands : log'[c] = entries[c]
    BY <1>2 DEF Commands
  <1>5. Command \cup {e} \subseteq Command'
    BY <1>3 DEF Command
  <1>6. log' \in Seq(Command')
    BY <1>2, <1>5, SeqMonotonic
  <1>7. owed \in Seq(Commands')
    BY <1>3, SeqMonotonic DEF TypeOK
  <1>8. owed' \in Seq(Commands') /\ Len(owed') = Len(owed) + 1
        /\ owed'[Len(owed) + 1] = Current + 1 /\ \A k \in 1..Len(owed) : owed'[k] = owed[k]
    BY <1>1, <1>3, <1>7, AppendProperties
  <1>9. DOMAIN owed' = DOMAIN owed \cup {Len(owed) + 1}
    BY <1>8, LenProperties
  <1>10. Current' <= MaxCommands
    BY <1>1, <1>3, BoundsAssumption
  <1>11. \A c \in Commands' : log'[c].answer <= c /\ log'[c].urc <= c
    BY <1>2, <1>3, <1>4
  <1> QED BY <1>1, <1>2, <1>3, <1>4, <1>6, <1>8, <1>9, <1>10, <1>11

\* What Write preserves when the answers and the result codes stay as they are
LEMMA WriteInv ==
    ASSUME Inv, NEW what \in Urcs \cup {"send", "cipsend", "data"},
           Write(log, what), UNCHANGED <<signal, monitorVars>>,
           \A sub \in oneshots' : sub.channel = 0 \/ sub \in oneshots
    PROVE  AnswersInOrder' /\ AnswerInv' /\ OwnUrcs' /\ UrcInv'
  <1>0. TypeOK
    BY DEF Inv
  <1>1. log \in Seq(Command) /\ Len(log) = Current
        /\ \A c \in Commands : log[c].answer <= c /\ log[c].urc <= c
    BY <1>0 DEF TypeOK, Current
  <1>2. /\ Commands' = Commands \cup {Current + 1}
        /\ \A c \in Commands : log'[c] = log[c]
        /\ log'[Current + 1].answer = 0 /\ log'[Current + 1].urc = 0
        /\ DOMAIN owed' = DOMAIN owed \cup {Len(owed) + 1}
        /\ \A k \in DOMAIN owed : owed'[k] = owed[k]
        /\ owed'[Len(owed) + 1] = Current + 1
        /\ coming' \subseteq coming \cup {Current + 1}
    <2>1. /\ Commands' = Commands \cup {Current + 1}
          /\ \A c \in Commands : log'[c] = log[c]
          /\ log'[Current + 1] = [what |-> what, answer |-> 0, urc |-> 0]
          /\ DOMAIN owed' = DOMAIN owed \cup {Len(owed) + 1}
          /\ \A k \in DOMAIN owed : owed'[k] = owed[k]
          /\ owed'[Len(owed) + 1] = Current + 1
          /\ coming' \subseteq coming \cup {Current + 1}
      BY <1>0, <1>1, WriteLog
    <2> QED BY <2>1
  <1>3. /\ Current \in Nat /\ Commands = 1..Current
        /\ \A c \in Commands : log[c].answer \in 0..c /\ log[c].urc \in 0..c
        /\ DOMAIN line = 1..Len(line) /\ DOMAIN owed = 1..Len(owed)
        /\ Len(line) \in Nat /\ Len(owed) \in Nat
        /\ \A i \in DOMAIN line : line[i].to \in 0..Current
        /\ \A k \in DOMAIN owed : owed[k] \in Commands
        /\ signal.to \in 0..Current
    BY <1>0, Parts DEF Commands
  <1>. USE <1>2, <1>3 DEF Inv, monitorVars
  <1>4. AnswersInOrder'
    BY DEF AnswersInOrder
  <1>5. AnswerInv'
    <2>1. \A n \in Nat : Later(n) /\ n > 0 => Later(n)'
      BY DEF Later
    <2>2. \A n \in Nat : n = Current + 1 => Later(n)'
      BY DEF Later
    <2>3. \A i \in DOMAIN line : IsAnswer(line[i]) => line[i].to > 0 /\ line[i].to < Current + 1
      BY DEF AnswerInv, Later
    <2>4. \A k \in DOMAIN owed : owed[k] > 0 /\ owed[k] < Current + 1
      OBVIOUS
    <2>5. \A k \in DOMAIN owed' : Later(owed[k])'
      <3> SUFFICES ASSUME NEW k \in DOMAIN owed' PROVE Later(owed[k])'
        OBVIOUS
      <3>1. CASE k \in DOMAIN owed
        BY <2>1, <2>4, <3>1 DEF AnswerInv
      <3>2. CASE k = Len(owed) + 1
        BY <2>2, <3>2
      <3> QED BY <3>1, <3>2
    <2>6. \A i \in DOMAIN line : IsAnswer(line[i]) => Later(line[i].to)'
      BY <2>1, <2>3 DEF AnswerInv
    <2>7. \A k, l \in DOMAIN owed' : k < l => owed'[k] < owed'[l]
      BY <2>4 DEF AnswerInv
    <2>8. \A k \in DOMAIN owed' : \A i \in DOMAIN line :
            IsAnswer(line[i]) => line[i].to < owed'[k]
      BY <2>3 DEF AnswerInv
    <2>9. signal.to # 0 => \A c \in Commands' : signal.to > log'[c].answer
      BY DEF AnswerInv
    <2> QED BY <2>5, <2>6, <2>7, <2>8, <2>9 DEF AnswerInv, IsAnswer
  <1>6. OwnUrcs'
    <2> SUFFICES ASSUME NEW c \in Commands', log'[c].urc # 0
                 PROVE  LET d == log'[c].urc
                        IN /\ log'[d].what = log'[c].what
                           /\ d # c => d < c /\ log'[d].urc # d
      BY DEF OwnUrcs
    <2>1. c \in Commands
      OBVIOUS
    <2>2. log'[c] = log[c] /\ log[c].urc \in 0..c /\ log[c].urc # 0
      BY <2>1
    <2>3. log[c].urc \in Commands
      BY <2>1, <2>2
    <2> QED BY <2>1, <2>2, <2>3 DEF OwnUrcs
  <1>7. UrcInv'
    <2>1. \A sub \in oneshots' : sub.channel \in 0..Current
      BY DEF TypeOK
    <2>2. ASSUME NEW d \in coming'
          PROVE  /\ \A i \in DOMAIN line : IsUrc(line[i]) => line[i].to # d
                 /\ \A sub \in oneshots' : sub.channel # d
                 /\ \A c \in Commands' : log'[c].urc # d
      <3>1. CASE d \in coming
        <4>1. d # 0
          BY <3>1 DEF TypeOK
        <4> QED BY <3>1, <4>1 DEF UrcInv
      <3>2. CASE d = Current + 1
        BY <2>1, <3>2
      <3> QED BY <3>1, <3>2
    <2>3. ASSUME NEW i \in DOMAIN line, IsUrc(line[i])
          PROVE  /\ line[i].to # 0
                 /\ \A j \in DOMAIN line :
                        IsUrc(line[j]) /\ line[i].to = line[j].to => i = j
                 /\ \A sub \in oneshots' : sub.channel # line[i].to
                 /\ \A c \in Commands' : log'[c].urc # line[i].to
      <3>1. line[i].to # 0 /\ line[i].to \in 0..Current
        BY <2>3 DEF UrcInv
      <3>2. \A j \in DOMAIN line : IsUrc(line[j]) /\ line[i].to = line[j].to => i = j
        BY <2>3 DEF UrcInv
      <3>3. \A sub \in oneshots' : sub.channel # line[i].to
        BY <2>3, <3>1 DEF UrcInv
      <3>4. \A c \in Commands' : log'[c].urc # line[i].to
        BY <2>3, <3>1 DEF UrcInv
      <3> QED BY <3>1, <3>2, <3>3, <3>4
    <2>4. \A sub \in oneshots' : \A c \in Commands' :
            sub.channel # 0 => log'[c].urc # sub.channel
      BY DEF UrcInv
    <2>5. \A c, d \in Commands' : log'[c].urc # 0 /\ log'[c].urc = log'[d].urc => c = d
      BY DEF UrcInv
    <2> QED BY <2>2, <2>3, <2>4, <2>5 DEF UrcInv, IsUrc
  <1> QED BY <1>4, <1>5, <1>6, <1>7

-----------------------------------------------------------------------------
\* The line loses its head or gets a message at its end.

LEMMA ReadLine ==
    ASSUME TypeOK, Read
    PROVE  /\ line' \in Seq([to : 0..Current, says : Words])
           /\ 1 \in DOMAIN line /\ Message = line[1]
           /\ \A i \in DOMAIN line' :
                i \in Nat /\ i + 1 \in DOMAIN line /\ line'[i] = line[i + 1]
  <1>1. line \in Seq([to : 0..Current, says : Words]) /\ line # <<>> /\ line' = Tail(line)
    BY DEF TypeOK, Read
  <1>2. /\ line' \in Seq([to : 0..Current, says : Words])
        /\ Len(line') = Len(line) - 1 /\ \A i \in 1..Len(line') : line'[i] = line[i + 1]
    BY <1>1, HeadTailProperties
  <1>3. Len(line) \in Nat \ {0} /\ DOMAIN line = 1..Len(line) /\ DOMAIN line' = 1..Len(line')
    BY <1>1, <1>2, EmptySeq, LenProperties
  <1>4. Message = line[1]
    BY DEF Message
  <1> QED BY <1>2, <1>3, <1>4

LEMMA AppendLine ==
    ASSUME TypeOK, NEW message \in [to : 0..Current, says : Words],
           line' = Append(line, message)
    PROVE  /\ line' \in Seq([to : 0..Current, says : Words])
           /\ DOMAIN line' = DOMAIN line \cup {Len(line) + 1}
           /\ \A i \in DOMAIN line : line'[i] = line[i]
           /\ line'[Len(line) + 1] = message
  <1>1. line \in Seq([to : 0..Current, says : Words])
    BY DEF TypeOK
  <1>2. /\ line' \in Seq([to : 0..Current, says : Words])
        /\ Len(line') = Len(line) + 1 /\ line'[Len(line) + 1] = message
        /\ \A i \in 1..Len(line) : line'[i] = line[i]
    BY <1>1, AppendProperties
  <1>3. Len(line) \in Nat /\ DOMAIN line = 1..Len(line) /\ DOMAIN line' = 1..Len(line')
    BY <1>1, <1>2, LenProperties
  <1> QED BY <1>2, <1>3

\* While no command is written what is said of their number stays.
LEMMA SameLog ==
    ASSUME UNCHANGED log
    PROVE  Current' = Current /\ Commands' = Commands /\ Command' = Command
  BY DEF Current, Commands, Command

\* What is read and goes nowhere
LEMMA ReadInv ==
    ASSUME Inv, Read \/ UNCHANGED line, swallowing' \in BOOLEAN,
           UNCHANGED <<callerVars, signal, modemVars, log>>
    PROVE  Inv'
  <1> USE DEF callerVars, modemVars
  <1>0. TypeOK
    BY DEF Inv
  <1>1. Current' = Current /\ Commands' = Commands /\ Command' = Command
    BY SameLog
  <1>2. \A i \in DOMAIN line' : \E j \in DOMAIN line : line'[i] = line[j]
    BY <1>0, ReadLine
  <1>3. \A i, j \in DOMAIN line' : \E k, l \in DOMAIN line :
            line'[i] = line[k] /\ line'[j] = line[l] /\ (i < j <=> k < l) /\ (i = j <=> k = l)
    <2>1. CASE Read
      <3> SUFFICES ASSUME NEW i \in DOMAIN line', NEW j \in DOMAIN line'
                   PROVE  \E k, l \in DOMAIN line :
                            /\ line'[i] = line[k] /\ line'[j] = line[l]
                            /\ (i < j <=> k < l) /\ (i = j <=> k = l)
        OBVIOUS
      <3>1. /\ i \in Nat /\ i + 1 \in DOMAIN line /\ line'[i] = line[i + 1]
            /\ j \in Nat /\ j + 1 \in DOMAIN line /\ line'[j] = line[j + 1]
        BY <1>0, <2>1, ReadLine
      <3>2. (i < j <=> i + 1 < j + 1) /\ (i = j <=> i + 1 = j + 1)
        BY <3>1
      <3> QED BY <3>1, <3>2
    <2>2. CASE UNCHANGED line
      BY <2>2
    <2> QED BY <2>1, <2>2
  <1>4. TypeOK'
    <2>1. line' \in Seq([to : 0..Current, says : Words])
      BY <1>0, ReadLine DEF TypeOK
    <2> QED BY <1>0, <1>1, <2>1 DEF TypeOK
  <1>5. OpInv' /\ SubscriberInv'
    BY <1>1 DEF Inv, OpInv, SubscriberInv
  <1>6. AnswersInOrder' /\ OwnUrcs'
    BY <1>1 DEF Inv, AnswersInOrder, OwnUrcs
  <1>7. AnswerInv'
    <2>1. \A n : Later(n)' <=> Later(n)
      BY <1>1 DEF Later
    <2> QED BY <1>1, <1>2, <1>3, <2>1 DEF Inv, AnswerInv, IsAnswer
  <1>8. UrcInv'
    BY <1>1, <1>2, <1>3 DEF Inv, UrcInv, IsUrc
  <1> QED BY <1>4, <1>5, <1>6, <1>7, <1>8 DEF Inv

LEMMA DispatchAnswerInv ==
    ASSUME Inv, DispatchAnswer PROVE Inv'
  <1> USE DEF callerVars, modemVars
  <1>0. TypeOK /\ Read /\ signal' = Message /\ swallowing' = FALSE
        /\ UNCHANGED <<op, oneshots, owed, coming, log>>
    BY DEF Inv, DispatchAnswer
  <1>1. Current' = Current /\ Commands' = Commands /\ Command' = Command
    BY <1>0, SameLog
  <1>2. /\ line' \in Seq([to : 0..Current, says : Words])
        /\ 1 \in DOMAIN line /\ signal' = line[1]
        /\ \A i \in DOMAIN line' :
             i \in Nat /\ i + 1 \in DOMAIN line /\ line'[i] = line[i + 1]
        /\ DOMAIN line \subseteq Nat \ {0} /\ DOMAIN line' \subseteq Nat \ {0}
    <2>1. line' \in Seq([to : 0..Current, says : Words])
      BY <1>0, ReadLine
    <2>2. DOMAIN line \subseteq Nat \ {0} /\ DOMAIN line' \subseteq Nat \ {0}
      BY <1>0, <2>1, LenProperties DEF TypeOK
    <2> QED BY <1>0, <2>1, <2>2, ReadLine
  <1>3. IsAnswer(line[1])
    BY <1>0, <1>2 DEF DispatchAnswer, IsAnswer
  <1>4. TypeOK'
    <2>1. line[1] \in [to : 0..Current, says : Words]
      <3>1. line \in Seq([to : 0..Current, says : Words])
        BY <1>0 DEF TypeOK
      <3>2. 1 \in 1..Len(line)
        BY <1>2, <3>1, LenProperties
      <3> QED BY <3>1, <3>2, ElementOfSeq
    <2> QED BY <1>0, <1>1, <1>2, <2>1 DEF TypeOK
  <1>5. OpInv' /\ SubscriberInv' /\ AnswersInOrder' /\ OwnUrcs'
    BY <1>0, <1>1 DEF Inv, OpInv, SubscriberInv, AnswersInOrder, OwnUrcs
  <1>6. AnswerInv'
    <2>1. \A c \in Commands : signal'.to > log[c].answer
      BY <1>2, <1>3 DEF Inv, AnswerInv, Later
    <2>2. \A i \in DOMAIN line' : IsAnswer(line'[i]) =>
            line'[i].to > signal'.to /\ \A c \in Commands : line'[i].to > log[c].answer
      BY <1>2, <1>3 DEF Inv, AnswerInv, Later
    <2>3. \A i, j \in DOMAIN line' : IsAnswer(line'[i]) /\ IsAnswer(line'[j]) /\ i < j =>
            line'[i].to < line'[j].to
      BY <1>2 DEF Inv, AnswerInv
    <2>4. \A k \in DOMAIN owed :
            owed[k] > signal'.to /\ \A c \in Commands : owed[k] > log[c].answer
      <3>1. \A k \in DOMAIN owed : line[1].to < owed[k]
        BY <1>2, <1>3 DEF Inv, AnswerInv
      <3>2. \A k \in DOMAIN owed : owed[k] \in Nat /\ line[1].to \in Nat
        BY <1>0, <1>2, Parts DEF Commands
      <3> QED BY <1>2, <3>1, <3>2 DEF Inv, AnswerInv, Later
    <2>5. \A k \in DOMAIN owed : \A i \in DOMAIN line' :
            IsAnswer(line'[i]) => line'[i].to < owed[k]
      BY <1>2 DEF Inv, AnswerInv
    <2>6. \A k, l \in DOMAIN owed : k < l => owed[k] < owed[l]
      BY DEF Inv, AnswerInv
    <2> QED BY <1>0, <1>1, <2>1, <2>2, <2>3, <2>4, <2>5, <2>6
            DEF AnswerInv, Later, IsAnswer
  <1>7. UrcInv'
    BY <1>0, <1>1, <1>2 DEF Inv, UrcInv, IsUrc
  <1> QED BY <1>4, <1>5, <1>6, <1>7 DEF Inv

LEMMA DispatchUrcInv ==
    ASSUME Inv, DispatchUrc PROVE Inv'
  <1> DEFINE to == Message.to
  <1>0. /\ TypeOK /\ Read /\ Message.says = "urc"
        /\ oneshots' = {[sub EXCEPT !.channel = IF Listens(sub, to) THEN to ELSE @] :
                            sub \in oneshots}
        /\ UNCHANGED <<op, signal, swallowing, owed, coming, log>>
    BY DEF Inv, DispatchUrc, modemVars
  <1>1. Current' = Current /\ Commands' = Commands /\ Command' = Command
    BY <1>0, SameLog
  <1>2. /\ line' \in Seq([to : 0..Current, says : Words])
        /\ 1 \in DOMAIN line /\ Message = line[1] /\ to \in 0..Current
        /\ \A i \in DOMAIN line' :
             i \in Nat \ {0} /\ i + 1 \in DOMAIN line /\ line'[i] = line[i + 1]
    <2>1. line' \in Seq([to : 0..Current, says : Words])
      BY <1>0, ReadLine
    <2>2. DOMAIN line' \subseteq Nat \ {0}
      BY <2>1, LenProperties
    <2> QED BY <1>0, <2>1, <2>2, ReadLine, Parts
  <1>3. IsUrc(line[1]) /\ to # 0
    BY <1>0, <1>2 DEF IsUrc, Inv, UrcInv
  <1>4. \A new \in oneshots' : \E sub \in oneshots :
            /\ new.id = sub.id /\ new.urc = sub.urc
            /\ new.channel = sub.channel \/ (new.channel = to /\ sub.urc = log[to].what)
    BY <1>0 DEF TypeOK, Listens
  <1>5. TypeOK'
    <2>1. oneshots' \subseteq [id : Commands, urc : Urcs \cup {"data"}, channel : 0..Current]
      <3>1. ASSUME NEW sub \in oneshots
            PROVE  [sub EXCEPT !.channel = IF Listens(sub, to) THEN to ELSE @] \in
                        [id : Commands, urc : Urcs \cup {"data"}, channel : 0..Current]
        <4>1. sub \in [id : Commands, urc : Urcs \cup {"data"}, channel : 0..Current]
          BY <1>0 DEF TypeOK
        <4> HIDE DEF to
        <4> QED BY <1>2, <4>1
      <3> QED BY <1>0, <3>1
    <2> QED BY <1>0, <1>1, <1>2, <2>1 DEF TypeOK
  <1>6. OpInv' /\ AnswersInOrder' /\ OwnUrcs'
    BY <1>0, <1>1 DEF Inv, OpInv, AnswersInOrder, OwnUrcs
  <1>7. SubscriberInv'
    BY <1>0, <1>1, <1>4 DEF Inv, SubscriberInv
  <1>8. AnswerInv'
    <2>1. \A n : Later(n)' <=> Later(n)
      BY <1>0, <1>1 DEF Later
    <2> QED BY <1>0, <1>1, <1>2, <2>1 DEF Inv, AnswerInv, IsAnswer
  <1>9. UrcInv'
    <2>1. \A d \in coming : d # to
      BY <1>2, <1>3 DEF Inv, UrcInv
    <2>2. \A i \in DOMAIN line' : IsUrc(line'[i]) => line'[i].to # to
      BY <1>2, <1>3 DEF Inv, UrcInv
    <2>3. \A c \in Commands : log[c].urc # to
      BY <1>2, <1>3 DEF Inv, UrcInv
    <2>4. \A d \in coming :
            /\ \A i \in DOMAIN line' : IsUrc(line'[i]) => line'[i].to # d
            /\ \A new \in oneshots' : new.channel # d
            /\ \A c \in Commands : log[c].urc # d
      BY <1>2, <1>4, <2>1 DEF Inv, UrcInv
    <2>5. \A i \in DOMAIN line' : IsUrc(line'[i]) =>
            /\ line'[i].to # 0
            /\ \A new \in oneshots' : new.channel # line'[i].to
            /\ \A c \in Commands : log[c].urc # line'[i].to
      BY <1>2, <1>4, <2>2 DEF Inv, UrcInv
    <2>6. \A i, j \in DOMAIN line' :
            IsUrc(line'[i]) /\ IsUrc(line'[j]) /\ line'[i].to = line'[j].to => i = j
      <3> SUFFICES ASSUME NEW i \in DOMAIN line', NEW j \in DOMAIN line',
                          IsUrc(line'[i]), IsUrc(line'[j]), line'[i].to = line'[j].to
                   PROVE  i = j
        OBVIOUS
      <3>1. i + 1 = j + 1
        BY <1>2 DEF Inv, UrcInv
      <3> QED BY <1>2, <3>1
    <2>7. \A new \in oneshots' : \A c \in Commands :
            new.channel # 0 => log[c].urc # new.channel
      BY <1>4, <2>3 DEF Inv, UrcInv
    <2> QED BY <1>0, <1>1, <2>4, <2>5, <2>6, <2>7 DEF Inv, UrcInv, IsUrc
  <1> QED BY <1>5, <1>6, <1>7, <1>8, <1>9 DEF Inv

LEMMA ModemInv ==
    ASSUME Inv, Modem PROVE Inv'
  <1>0. TypeOK /\ UNCHANGED <<op, oneshots, signal, swallowing, log>>
    BY DEF Inv, Modem, Answer, Announce, Report, callerVars, modemVars
  <1>1. Current' = Current /\ Commands' = Commands /\ Command' = Command
    BY <1>0, SameLog
  <1>2. OpInv' /\ SubscriberInv' /\ AnswersInOrder' /\ OwnUrcs'
    BY <1>0, <1>1 DEF Inv, OpInv, SubscriberInv, AnswersInOrder, OwnUrcs
  <1>3. \A n : Later(n)' <=> Later(n)
    BY <1>0, <1>1 DEF Later
  <1>4. /\ DOMAIN line = 1..Len(line) /\ Len(line) \in Nat
        /\ Current \in Nat /\ Commands = 1..Current
        /\ \A c \in Commands : log[c].urc \in 0..Current
    BY <1>0, Parts DEF Commands
  <1>5. CASE Answer
    <2>1. /\ owed \in Seq(Commands) /\ owed # <<>> /\ owed' = Tail(owed) /\ coming' = coming
          /\ \E says \in Says(Head(owed)) :
                line' = Append(line, [to |-> Head(owed), says |-> says])
      BY <1>0, <1>5 DEF Answer, TypeOK
    <2>2. /\ owed' \in Seq(Commands) /\ 1 \in DOMAIN owed /\ Head(owed) = owed[1]
          /\ Head(owed) \in Commands
          /\ \A k \in DOMAIN owed' : k \in Nat \ {0} /\ k + 1 \in DOMAIN owed
                                     /\ owed'[k] = owed[k + 1] /\ owed[k + 1] \in Nat
      <3>1. /\ Head(owed) \in Commands /\ owed' \in Seq(Commands)
            /\ Len(owed') = Len(owed) - 1 /\ \A k \in 1..Len(owed') : owed'[k] = owed[k + 1]
        BY <2>1, HeadTailProperties
      <3>2. /\ Len(owed) \in Nat \ {0} /\ DOMAIN owed = 1..Len(owed)
            /\ DOMAIN owed' = 1..Len(owed')
        BY <2>1, <3>1, EmptySeq, LenProperties
      <3>3. \A k \in 1..Len(owed) : owed[k] \in Nat
        BY <1>4, <2>1, ElementOfSeq
      <3> QED BY <3>1, <3>2, <3>3
    <2>3. PICK says \in Says(Head(owed)) :
                line' = Append(line, [to |-> Head(owed), says |-> says])
      BY <2>1
    <2>4. says \in {"ok", "error", "ready"}
      BY DEF Says
    <2> DEFINE message == [to |-> Head(owed), says |-> says]
    <2>5. /\ line' \in Seq([to : 0..Current, says : Words])
          /\ DOMAIN line' = DOMAIN line \cup {Len(line) + 1}
          /\ \A i \in DOMAIN line : line'[i] = line[i]
          /\ line'[Len(line) + 1] = message
      <3>1. message \in [to : 0..Current, says : Words]
        BY <1>4, <2>2, <2>4 DEF Words
      <3> HIDE DEF message
      <3> QED BY <1>0, <2>3, <3>1, AppendLine DEF message
    <2>6. TypeOK'
      BY <1>0, <1>1, <2>1, <2>2, <2>5 DEF TypeOK
    <2>7. AnswerInv'
      <3>1. \A i \in DOMAIN line' : i \in DOMAIN line \/ (i = Len(line) + 1 /\ line'[i].to = owed[1])
        BY <2>2, <2>5
      <3>2. \A i \in DOMAIN line' : IsAnswer(line'[i]) => Later(line'[i].to)
        BY <2>2, <2>5, <3>1 DEF Inv, AnswerInv
      <3>3. \A i, j \in DOMAIN line' : i < j /\ IsAnswer(line'[i]) /\ IsAnswer(line'[j]) =>
                line'[i].to < line'[j].to
        BY <1>4, <2>2, <2>5, <3>1 DEF Inv, AnswerInv
      <3>4. \A k \in DOMAIN owed' : Later(owed'[k])
        BY <2>2 DEF Inv, AnswerInv
      <3>5. \A k \in DOMAIN owed' : owed[1] < owed'[k]
        BY <2>2 DEF Inv, AnswerInv
      <3>6. \A k \in DOMAIN owed' : \A i \in DOMAIN line' :
                IsAnswer(line'[i]) => line'[i].to < owed'[k]
        BY <2>2, <2>5, <3>1, <3>5 DEF Inv, AnswerInv
      <3>7. \A k, l \in DOMAIN owed' : k < l => owed'[k] < owed'[l]
        BY <2>2 DEF Inv, AnswerInv
      <3>8. \A c \in Commands : signal.to # 0 => signal.to > log[c].answer
        BY DEF Inv, AnswerInv
      <3> QED BY <1>0, <1>1, <1>3, <3>2, <3>3, <3>4, <3>6, <3>7, <3>8
              DEF AnswerInv, IsAnswer
    <2>8. UrcInv'
      <3>1. \A i \in DOMAIN line' : IsUrc(line'[i]) => i \in DOMAIN line
        BY <2>4, <2>5 DEF IsUrc
      <3> QED BY <1>0, <1>1, <2>1, <2>5, <3>1 DEF Inv, UrcInv, IsUrc
    <2> QED BY <1>2, <2>6, <2>7, <2>8 DEF Inv
  <1>6. ASSUME NEW command \in coming \cup {0}, NEW says \in {"urc", "other"},
               line' = Append(line, [to |-> command, says |-> says]),
               coming' = coming \ {command}, UNCHANGED owed,
               says = "urc" => command # 0
        PROVE  Inv'
    <2>1. /\ line' \in Seq([to : 0..Current, says : Words])
          /\ DOMAIN line' = DOMAIN line \cup {Len(line) + 1}
          /\ \A i \in DOMAIN line : line'[i] = line[i]
          /\ line'[Len(line) + 1] = [to |-> command, says |-> says]
      <3>1. [to |-> command, says |-> says] \in [to : 0..Current, says : Words]
        BY <1>0, <1>4 DEF TypeOK, Words
      <3> QED BY <1>0, <1>6, <3>1, AppendLine
    <2>2. TypeOK'
      BY <1>0, <1>1, <1>6, <2>1 DEF TypeOK
    <2>3. AnswerInv'
      <3>1. \A i \in DOMAIN line' : IsAnswer(line'[i]) => i \in DOMAIN line
        BY <2>1 DEF IsAnswer
      <3> QED BY <1>0, <1>1, <1>3, <1>6, <2>1, <3>1 DEF Inv, AnswerInv, IsAnswer
    <2>4. UrcInv'
      <3>1. \A i \in DOMAIN line' : IsUrc(line'[i]) =>
                i \in DOMAIN line \/ (i = Len(line) + 1 /\ line'[i].to = command /\ command \in coming)
        BY <1>6, <2>1 DEF IsUrc
      <3>2. 0 \notin coming
        BY <1>0, <1>4 DEF TypeOK
      <3>3. \A d \in coming' :
                /\ \A i \in DOMAIN line' : IsUrc(line'[i]) => line'[i].to # d
                /\ \A sub \in oneshots : sub.channel # d
                /\ \A c \in Commands : log[c].urc # d
        BY <1>6, <2>1, <3>1 DEF Inv, UrcInv
      <3>4. \A i \in DOMAIN line' : IsUrc(line'[i]) =>
                /\ line'[i].to # 0
                /\ \A sub \in oneshots : sub.channel # line'[i].to
                /\ \A c \in Commands : log[c].urc # line'[i].to
        BY <2>1, <3>1, <3>2 DEF Inv, UrcInv
      <3>5. \A i, j \in DOMAIN line' :
                IsUrc(line'[i]) /\ IsUrc(line'[j]) /\ line'[i].to = line'[j].to => i = j
        BY <2>1, <3>1 DEF Inv, UrcInv
      <3>6. /\ \A sub \in oneshots : \A c \in Commands :
                    sub.channel # 0 => log[c].urc # sub.channel
            /\ \A c, d \in Commands : log[c].urc # 0 /\ log[c].urc = log[d].urc => c = d
        BY DEF Inv, UrcInv
      <3> QED BY <1>0, <1>1, <3>3, <3>4, <3>5, <3>6 DEF UrcInv, IsUrc
    <2> QED BY <1>2, <2>2, <2>3, <2>4 DEF Inv
  <1>7. CASE Announce
    <2>1. PICK command \in coming : /\ line' = Append(line, [to |-> command, says |-> "urc"])
                                    /\ coming' = coming \ {command}
      BY <1>7 DEF Announce
    <2>2. command # 0 /\ owed' = owed
      BY <1>0, <1>4, <1>7 DEF TypeOK, Announce
    <2> QED BY <1>6, <2>1, <2>2
  <1>8. CASE Report
    <2>1. /\ line' = Append(line, [to |-> 0, says |-> "other"]) /\ owed' = owed
          /\ coming' = coming
      BY <1>8 DEF Report, modemVars
    <2>2. coming \ {0} = coming
      BY <1>0, <1>4 DEF TypeOK
    <2> QED BY <1>6, <2>1, <2>2
  <1> QED BY <1>5, <1>7, <1>8 DEF Modem

-----------------------------------------------------------------------------
\* The caller

\* Three ways to begin an operation: the channel of its subscriber is empty.
LEMMA BeginInv ==
    ASSUME Inv, Begin PROVE Inv'
  <1>0. TypeOK /\ op = Idle /\ UNCHANGED <<signal, monitorVars>> /\ oneshots = {}
    BY DEF Inv, Begin, Send, InterrogateUrc, CipSend, SubscriberInv
  <1>1. PICK what \in Urcs \cup {"send", "cipsend"} :
            /\ Write(log, what)
            /\ \/ what = "send" /\ oneshots' = {} /\ op' = [kind |-> "send", at |-> "answer", sub |-> 0]
               \/ what \in Urcs /\ Subscribe(what)
                  /\ op' = [kind |-> "urc", at |-> "answer", sub |-> Current + 1]
               \/ what = "cipsend" /\ Subscribe("data")
                  /\ op' = [kind |-> "cip", at |-> "answer", sub |-> Current + 1]
    BY <1>0 DEF Begin, Send, InterrogateUrc, CipSend
  <1>2. /\ log \in Seq(Command) /\ Len(log) = Current /\ Current \in Nat
        /\ \A c \in Commands : log[c].answer <= c /\ log[c].urc <= c
    BY <1>0, Parts DEF TypeOK, Current
  <1>3. /\ Current' = Current + 1 /\ Commands' = Commands \cup {Current + 1}
        /\ \A c \in Commands : log'[c] = log[c]
        /\ log'[Current + 1] = [what |-> what, answer |-> 0, urc |-> 0]
        /\ log' \in Seq(Command') /\ Current' <= MaxCommands
        /\ \A c \in Commands' : log'[c].answer <= c /\ log'[c].urc <= c
        /\ owed' \in Seq(Commands')
        /\ coming' \subseteq coming \cup {Current + 1}
    BY <1>0, <1>1, <1>2, WriteLog
  <1>4. \A sub \in oneshots' :
            /\ sub.id = Current + 1 /\ sub.channel = 0 /\ op'.sub = Current + 1
            /\ op'.kind = "urc" => sub.urc = what
            /\ sub \in [id : Commands', urc : Urcs \cup {"data"}, channel : 0..Current']
    BY <1>0, <1>1, <1>2, <1>3 DEF Subscribe
  <1>5. AnswersInOrder' /\ AnswerInv' /\ OwnUrcs' /\ UrcInv'
    BY <1>0, <1>1, <1>4, WriteInv
  <1>6. /\ op' \in [kind : {"none", "send", "urc", "cip"}, at : {"idle", "answer", "urc"},
                    sub : 0..(Current + 1)]
        /\ op'.at = "answer" /\ op'.kind \in {"send", "urc", "cip"} /\ op' # Idle
        /\ op'.kind = "urc" => op'.sub = Current + 1
    BY <1>1, <1>2 DEF Idle
  <1>7. TypeOK'
    <2>1. line' \in Seq([to : 0..Current', says : Words]) /\ swallowing' \in BOOLEAN
      <3>1. [to : 0..Current, says : Words] \subseteq [to : 0..Current', says : Words]
        BY <1>2, <1>3
      <3> QED BY <1>0, <3>1, SeqMonotonic DEF TypeOK, monitorVars
    <2>2. signal' \in [to : 0..Current', says : Words]
      BY <1>0, <1>2, <1>3 DEF TypeOK
    <2> QED BY <1>0, <1>3, <1>4, <1>6, <2>1, <2>2 DEF TypeOK
  <1>8. OpInv'
    BY <1>2, <1>3, <1>6 DEF OpInv, Idle
  <1>9. SubscriberInv'
    BY <1>3, <1>4, <1>6 DEF SubscriberInv, Idle
  <1> QED BY <1>5, <1>7, <1>8, <1>9 DEF Inv

\* The log with the answer in the signal
LEMMA AnsweredLog ==
    ASSUME TypeOK, Current > 0
    PROVE  /\ Answered \in Seq(Command) /\ Len(Answered) = Current
           /\ \A c \in Commands :
                /\ Answered[c].what = log[c].what /\ Answered[c].urc = log[c].urc
                /\ Answered[c].answer = IF c = Current THEN signal.to ELSE log[c].answer
                /\ Answered[c].answer <= c /\ Answered[c].urc <= c
  <1>1. /\ Current \in Nat /\ Commands = 1..Current /\ log \in Seq(Command)
        /\ Len(log) = Current /\ signal.to \in 0..Current
        /\ \A c \in Commands : log[c] \in Command /\ log[c].answer \in 0..c /\ log[c].urc \in 0..c
    BY Parts DEF TypeOK, Commands, Current
  <1> DEFINE e == [log[Current] EXCEPT !.answer = signal.to]
  <1>2. e \in Command /\ e.what = log[Current].what /\ e.urc = log[Current].urc
        /\ e.answer = signal.to
    BY <1>1 DEF Command
  <1>3. Answered = [log EXCEPT ![Current] = e]
    BY <1>1 DEF Answered
  <1>4. /\ Answered \in Seq(Command) /\ Len(Answered) = Current
        /\ \A c \in 1..Current : Answered[c] = IF c = Current THEN e ELSE log[c]
    <2> HIDE DEF e
    <2> QED BY <1>1, <1>2, <1>3, ExceptSeq
  <1>5. \A c \in Commands :
            /\ Answered[c].what = log[c].what /\ Answered[c].urc = log[c].urc
            /\ Answered[c].answer = IF c = Current THEN signal.to ELSE log[c].answer
    <2> HIDE DEF e
    <2> QED BY <1>1, <1>2, <1>4
  <1> QED BY <1>1, <1>4, <1>5

\* With the answer in the signal the log is in order and behind what is to come.
LEMMA AnsweredInOrder ==
    ASSUME Inv, Current > 0
    PROVE  /\ \A c, d \in Commands :
                c < d /\ Answered[c].answer # 0 /\ Answered[d].answer # 0 =>
                    Answered[c].answer < Answered[d].answer
           /\ \A i \in DOMAIN line : IsAnswer(line[i]) =>
                line[i].to > 0 /\ \A c \in Commands : line[i].to > Answered[c].answer
           /\ \A k \in DOMAIN owed :
                owed[k] > 0 /\ \A c \in Commands : owed[k] > Answered[c].answer
  <1>1. /\ Current \in Nat /\ Commands = 1..Current /\ signal.to \in 0..Current
        /\ \A c \in Commands : log[c].answer \in 0..c
        /\ \A i \in DOMAIN line : line[i].to \in 0..Current
        /\ \A k \in DOMAIN owed : owed[k] \in Commands
    BY Parts DEF Inv, Commands
  <1>2. \A c \in Commands :
            Answered[c].answer = IF c = Current THEN signal.to ELSE log[c].answer
    BY AnsweredLog DEF Inv
  <1>3. ASSUME NEW c \in Commands, NEW d \in Commands, c < d,
               Answered[c].answer # 0, Answered[d].answer # 0
        PROVE  Answered[c].answer < Answered[d].answer
    <2>1. c # Current /\ Answered[c].answer = log[c].answer
      BY <1>1, <1>2, <1>3
    <2>2. CASE d = Current
      BY <1>2, <1>3, <2>1, <2>2 DEF Inv, AnswerInv
    <2>3. CASE d # Current
      BY <1>2, <1>3, <2>1, <2>3 DEF Inv, AnswersInOrder
    <2> QED BY <2>2, <2>3
  <1>4. \A n \in Nat : Later(n) => n > 0 /\ \A c \in Commands : n > Answered[c].answer
    BY <1>1, <1>2 DEF Later
  <1> QED BY <1>1, <1>3, <1>4 DEF Inv, AnswerInv

\* An answer that is taken, the operation being over or waiting for the result code
LEMMA TakenInv ==
    ASSUME Inv, Take, log' = Answered, AwaitUrc \/ Return,
           UNCHANGED <<monitorVars, modemVars>>
    PROVE  Inv'
  <1>0. /\ TypeOK /\ op.at = "answer" /\ op # Idle /\ op.kind # "none" /\ Current > 0
        /\ signal' = None /\ UNCHANGED <<line, swallowing, owed, coming>>
    BY DEF Inv, Take, OpInv, Idle, monitorVars, modemVars
  <1>1. /\ log' \in Seq(Command) /\ Len(log') = Current
        /\ \A c \in Commands :
                /\ log'[c].what = log[c].what /\ log'[c].urc = log[c].urc
                /\ log'[c].answer <= c /\ log'[c].urc <= c
    BY <1>0, AnsweredLog
  <1>2. Current' = Current /\ Commands' = Commands /\ Command' = Command
    BY <1>1 DEF Current, Commands, Command
  <1>3. /\ Current \in Nat /\ Commands = 1..Current
        /\ \A i \in DOMAIN line : line[i].to \in 0..Current
        /\ \A k \in DOMAIN owed : owed[k] \in Commands
        /\ \A c \in Commands : log[c].urc \in 0..Current
    BY <1>0, Parts DEF Commands
  <1>4. oneshots' \subseteq oneshots /\ op' \in {Idle, [op EXCEPT !.at = "urc"]}
        /\ (op' = Idle => oneshots' = {})
    BY <1>0 DEF AwaitUrc, Return, Remove, Inv, SubscriberInv, Idle, TypeOK
  <1>5. TypeOK'
    <2>1. op' \in [kind : {"none", "send", "urc", "cip"}, at : {"idle", "answer", "urc"},
                   sub : 0..Current]
      BY <1>0, <1>3, <1>4 DEF TypeOK, Idle
    <2>2. signal' \in [to : 0..Current, says : Words]
      BY <1>0, <1>3 DEF None, Words
    <2>3. oneshots' \subseteq [id : Commands, urc : Urcs \cup {"data"}, channel : 0..Current]
      BY <1>0, <1>4 DEF TypeOK
    <2> QED BY <1>0, <1>1, <1>2, <2>1, <2>2, <2>3 DEF TypeOK
  <1>6. OpInv'
    BY <1>0, <1>2, <1>4 DEF Inv, TypeOK, OpInv, Idle
  <1>7. SubscriberInv'
    <2>1. SUFFICES ASSUME op' # Idle PROVE SubscriberInv'
      BY <1>4 DEF SubscriberInv
    <2>2. op'.sub = op.sub /\ op'.kind = op.kind
      BY <1>0, <1>4, <2>1 DEF TypeOK
    <2>3. \A sub \in oneshots : sub.channel \in 0..Current
      BY <1>0 DEF TypeOK
    <2> QED BY <1>0, <1>1, <1>2, <1>3, <1>4, <2>1, <2>2, <2>3 DEF Inv, SubscriberInv
  <1>8. AnswersInOrder'
    BY <1>0, <1>2, AnsweredInOrder DEF AnswersInOrder
  <1>9. AnswerInv'
    <2>1. \A n \in Nat : n > 0 /\ (\A c \in Commands : n > log'[c].answer) => Later(n)'
      BY <1>0, <1>2 DEF Later, None
    <2>2. signal'.to = 0
      BY <1>0 DEF None
    <2>3. /\ \A i \in DOMAIN line : IsAnswer(line[i]) => Later(line[i].to)'
          /\ \A k \in DOMAIN owed : Later(owed[k])'
      BY <1>0, <1>3, <2>1, AnsweredInOrder
    <2> QED BY <1>0, <2>2, <2>3 DEF Inv, AnswerInv, IsAnswer
  <1>10. OwnUrcs'
    <2>1. \A c \in Commands : log[c].urc # 0 => log[c].urc \in Commands
      BY <1>3
    <2> QED BY <1>1, <1>2, <2>1 DEF Inv, OwnUrcs
  <1>11. UrcInv'
    BY <1>0, <1>1, <1>2, <1>4 DEF Inv, UrcInv, IsUrc
  <1> QED BY <1>5, <1>6, <1>7, <1>8, <1>9, <1>10, <1>11 DEF Inv

\* After ReadyForInput the data follow: an answer taken and a command written.
LEMMA AnswerReadyInv ==
    ASSUME Inv, AnswerReady PROVE Inv'
  <1>0. /\ TypeOK /\ op.at = "answer" /\ op # Idle /\ op.kind = "cip" /\ Current > 0
        /\ signal' = None /\ UNCHANGED <<op, oneshots, line, swallowing>>
        /\ Write(Answered, "data")
    BY DEF Inv, AnswerReady, Take, OpInv, Idle, monitorVars, callerVars
  <1>1. /\ Answered \in Seq(Command) /\ Len(Answered) = Current
        /\ \A c \in Commands :
                /\ Answered[c].what = log[c].what /\ Answered[c].urc = log[c].urc
                /\ Answered[c].answer <= c /\ Answered[c].urc <= c
    BY <1>0, AnsweredLog
  <1>2. /\ Current' = Current + 1 /\ Commands' = Commands \cup {Current + 1}
        /\ \A c \in Commands : log'[c] = Answered[c]
        /\ log'[Current + 1] = [what |-> "data", answer |-> 0, urc |-> 0]
        /\ log' \in Seq(Command') /\ Current' <= MaxCommands
        /\ \A c \in Commands' : log'[c].answer <= c /\ log'[c].urc <= c
        /\ owed' \in Seq(Commands') /\ DOMAIN owed' = DOMAIN owed \cup {Len(owed) + 1}
        /\ \A k \in DOMAIN owed : owed'[k] = owed[k]
        /\ owed'[Len(owed) + 1] = Current + 1
        /\ coming' \subseteq coming \cup {Current + 1}
    BY <1>0, <1>1, WriteLog
  <1>3. /\ Current \in Nat /\ Commands = 1..Current
        /\ \A i \in DOMAIN line : line[i].to \in 0..Current
        /\ DOMAIN owed = 1..Len(owed) /\ Len(owed) \in Nat
        /\ \A k \in DOMAIN owed : owed[k] \in Commands
        /\ \A c \in Commands : log[c].urc \in 0..c
        /\ \A sub \in oneshots : sub.channel \in 0..Current
    BY <1>0, Parts DEF Commands, TypeOK
  <1>4. TypeOK'
    <2>1. line' \in Seq([to : 0..Current', says : Words])
      <3>1. [to : 0..Current, says : Words] \subseteq [to : 0..Current', says : Words]
        BY <1>2, <1>3
      <3> QED BY <1>0, <3>1, SeqMonotonic DEF TypeOK
    <2>2. signal' \in [to : 0..Current', says : Words]
      BY <1>0, <1>2, <1>3 DEF None, Words
    <2>3. op' \in [kind : {"none", "send", "urc", "cip"}, at : {"idle", "answer", "urc"},
                   sub : 0..Current']
      BY <1>0, <1>2, <1>3 DEF TypeOK
    <2>4. oneshots' \subseteq [id : Commands', urc : Urcs \cup {"data"}, channel : 0..Current']
      <3>1. \A sub \in oneshots :
                sub \in [id : Commands', urc : Urcs \cup {"data"}, channel : 0..Current']
        BY <1>0, <1>2, <1>3 DEF TypeOK
      <3> QED BY <1>0, <3>1
    <2>5. swallowing' \in BOOLEAN /\ coming' \subseteq Commands'
      BY <1>0, <1>2 DEF TypeOK
    <2> QED BY <1>2, <2>1, <2>2, <2>3, <2>4, <2>5 DEF TypeOK
  <1>5. OpInv'
    BY <1>0, <1>2, <1>3 DEF Inv, OpInv, Idle
  <1>6. SubscriberInv'
    BY <1>0, <1>1, <1>2, <1>3 DEF Inv, SubscriberInv, Idle
  <1>7. AnswersInOrder'
    <2> SUFFICES ASSUME NEW c \in Commands', NEW d \in Commands', c < d,
                        log'[c].answer # 0, log'[d].answer # 0
                 PROVE  log'[c].answer < log'[d].answer
      BY DEF AnswersInOrder
    <2>1. c \in Commands /\ d \in Commands
      BY <1>2
    <2> QED BY <1>0, <1>2, <2>1, AnsweredInOrder
  <1>8. AnswerInv'
    <2>1. \A n \in Nat : n > 0 /\ (\A c \in Commands : n > Answered[c].answer) => Later(n)'
      BY <1>0, <1>2, <1>3 DEF Later, None
    <2>2. \A n \in Nat : n = Current + 1 => Later(n)'
      <3>1. \A c \in Commands : Answered[c].answer \in 0..Current
        <4>1. \A c \in Commands : Answered[c] \in Command
          BY <1>1, <1>3, ElementOfSeq
        <4> QED BY <4>1 DEF Command
      <3> QED BY <1>0, <1>2, <1>3, <3>1 DEF Later, None
    <2>3. \A i \in DOMAIN line : IsAnswer(line[i]) => Later(line[i].to)'
      BY <1>0, <1>3, <2>1, AnsweredInOrder
    <2>4. \A k \in DOMAIN owed' : Later(owed[k])'
      <3>1. \A k \in DOMAIN owed : Later(owed[k])'
        BY <1>0, <1>2, <1>3, <2>1, AnsweredInOrder
      <3> QED BY <1>2, <1>3, <2>2, <3>1
    <2>5. \A k, l \in DOMAIN owed' : k < l => owed'[k] < owed'[l]
      BY <1>2, <1>3 DEF Inv, AnswerInv
    <2>6. \A k \in DOMAIN owed' : \A i \in DOMAIN line :
            IsAnswer(line[i]) => line[i].to < owed'[k]
      BY <1>2, <1>3 DEF Inv, AnswerInv
    <2>7. signal'.to = 0
      BY <1>0 DEF None
    <2>8. \A i, j \in DOMAIN line : i < j /\ IsAnswer(line[i]) /\ IsAnswer(line[j]) =>
            line[i].to < line[j].to
      BY DEF Inv, AnswerInv
    <2> QED BY <1>0, <2>3, <2>4, <2>5, <2>6, <2>7, <2>8 DEF AnswerInv, IsAnswer
  <1>9. OwnUrcs'
    <2> SUFFICES ASSUME NEW c \in Commands', log'[c].urc # 0
                 PROVE  LET d == log'[c].urc
                        IN /\ log'[d].what = log'[c].what
                           /\ d # c => d < c /\ log'[d].urc # d
      BY DEF OwnUrcs
    <2>1. c \in Commands
      BY <1>2
    <2>2. log'[c].urc = log[c].urc /\ log[c].urc \in Commands
      BY <1>1, <1>2, <1>3, <2>1
    <2>3. \A b \in Commands : log'[b].what = log[b].what /\ log'[b].urc = log[b].urc
      BY <1>1, <1>2
    <2>4. LET d == log[c].urc
          IN log[d].what = log[c].what /\ (d # c => d < c /\ log[d].urc # d)
      BY <2>1, <2>2 DEF Inv, OwnUrcs
    <2> QED BY <2>1, <2>2, <2>3, <2>4
  <1>10. UrcInv'
    <2>1. \A c \in Commands' : log'[c].urc = 0 \/ (c \in Commands /\ log'[c].urc = log[c].urc)
      BY <1>1, <1>2
    <2>2. ASSUME NEW d \in coming'
          PROVE  /\ \A i \in DOMAIN line : IsUrc(line[i]) => line[i].to # d
                 /\ \A sub \in oneshots : sub.channel # d
                 /\ \A c \in Commands' : log'[c].urc # d
      <3>1. CASE d \in coming
        <4>1. d # 0
          BY <1>0, <1>3, <3>1 DEF TypeOK
        <4> QED BY <2>1, <3>1, <4>1 DEF Inv, UrcInv
      <3>2. CASE d = Current + 1
        BY <1>3, <2>1, <3>2
      <3> QED BY <1>2, <3>1, <3>2
    <2>3. \A i \in DOMAIN line : IsUrc(line[i]) =>
            /\ line[i].to # 0
            /\ \A sub \in oneshots : sub.channel # line[i].to
            /\ \A c \in Commands' : log'[c].urc # line[i].to
      BY <2>1 DEF Inv, UrcInv
    <2>4. \A i, j \in DOMAIN line :
            IsUrc(line[i]) /\ IsUrc(line[j]) /\ line[i].to = line[j].to => i = j
      BY DEF Inv, UrcInv
    <2>5. \A sub \in oneshots : \A c \in Commands' :
            sub.channel # 0 => log'[c].urc # sub.channel
      BY <2>1 DEF Inv, UrcInv
    <2>6. \A c, d \in Commands' : log'[c].urc # 0 /\ log'[c].urc = log'[d].urc => c = d
      BY <2>1 DEF Inv, UrcInv
    <2> QED BY <1>0, <2>2, <2>3, <2>4, <2>5, <2>6 DEF UrcInv, IsUrc
  <1> QED BY <1>4, <1>5, <1>6, <1>7, <1>8, <1>9, <1>10 DEF Inv

\* The timeouts leave the log alone.
LEMMA TimeoutInv ==
    ASSUME Inv, Timeout PROVE Inv'
  <1>0. /\ TypeOK /\ op # Idle /\ op.kind # "none" /\ Current > 0 /\ op.at \in {"answer", "urc"}
        /\ AwaitUrc \/ Return
        /\ UNCHANGED <<signal, line, swallowing, owed, coming, log>>
    BY DEF Inv, Timeout, AnswerTimeout, UrcTimeout, OpInv, Idle, monitorVars, modemVars
  <1>1. Current' = Current /\ Commands' = Commands /\ Command' = Command
    BY <1>0, SameLog
  <1>2. oneshots' \subseteq oneshots /\ op' \in {Idle, [op EXCEPT !.at = "urc"]}
        /\ (op' = Idle => oneshots' = {})
    BY <1>0 DEF AwaitUrc, Return, Remove, Inv, SubscriberInv, Idle, TypeOK
  <1>3. TypeOK'
    <2>1. op' \in [kind : {"none", "send", "urc", "cip"}, at : {"idle", "answer", "urc"},
                   sub : 0..Current]
      <3>1. Current \in Nat
        BY <1>0, Parts
      <3> QED BY <1>0, <1>2, <3>1 DEF TypeOK, Idle
    <2> QED BY <1>0, <1>1, <1>2, <2>1 DEF TypeOK
  <1>4. OpInv'
    BY <1>0, <1>1, <1>2 DEF Inv, TypeOK, OpInv, Idle
  <1>5. SubscriberInv'
    <2>1. SUFFICES ASSUME op' # Idle PROVE SubscriberInv'
      BY <1>2 DEF SubscriberInv
    <2>2. op'.sub = op.sub /\ op'.kind = op.kind
      BY <1>0, <1>2, <2>1 DEF TypeOK
    <2> QED BY <1>0, <1>1, <1>2, <2>1, <2>2 DEF Inv, SubscriberInv
  <1>6. AnswersInOrder' /\ OwnUrcs'
    BY <1>0, <1>1 DEF Inv, AnswersInOrder, OwnUrcs
  <1>7. AnswerInv'
    <2>1. \A n : Later(n)' <=> Later(n)
      BY <1>0, <1>1 DEF Later
    <2> QED BY <1>0, <1>1, <2>1 DEF Inv, AnswerInv, IsAnswer
  <1>8. UrcInv'
    BY <1>0, <1>1, <1>2 DEF Inv, UrcInv, IsUrc
  <1> QED BY <1>3, <1>4, <1>5, <1>6, <1>7, <1>8 DEF Inv

\* The subscriber's result code, if it is kept, is one no command has.
LEMMA UrcReceivedInv ==
    ASSUME Inv, UrcReceived PROVE Inv'
  <1>1. PICK sub \in oneshots :
            /\ sub.id = op.sub /\ sub.channel # 0
            /\ log' = IF op.kind = "urc" THEN [log EXCEPT ![op.sub].urc = sub.channel] ELSE log
    BY DEF UrcReceived
  <1>2. /\ TypeOK /\ op # Idle /\ Return
        /\ UNCHANGED <<signal, line, swallowing, owed, coming>>
    BY <1>1 DEF Inv, UrcReceived, SubscriberInv, monitorVars, modemVars
  <1>3. /\ Current \in Nat /\ Commands = 1..Current /\ log \in Seq(Command)
        /\ DOMAIN log = Commands /\ Len(log) = Current /\ sub.channel \in Commands
        /\ \A c \in Commands : log[c] \in Command /\ log[c].answer <= c /\ log[c].urc \in 0..c
    <2>1. sub.channel \in 0..Current /\ log \in Seq(Command) /\ Len(log) = Current
      BY <1>2 DEF TypeOK, Current
    <2> QED BY <1>1, <1>2, <2>1, Parts DEF Commands, TypeOK
  <1>4. oneshots' = {} /\ op' = Idle
    BY <1>2 DEF Return, Remove, Inv, SubscriberInv
  <1>5. /\ log' \in Seq(Command) /\ Len(log') = Current
        /\ \A c \in Commands :
             /\ log'[c].what = log[c].what /\ log'[c].answer = log[c].answer
             /\ \/ log'[c].urc = log[c].urc
                \/ /\ c = Current /\ op.kind = "urc" /\ log'[c].urc = sub.channel
    <2>1. CASE op.kind = "urc"
      <3> DEFINE e == [log[Current] EXCEPT !.urc = sub.channel]
      <3>1. op.sub = Current /\ Current \in Commands
        BY <1>2, <1>3, <2>1 DEF Inv, OpInv
      <3>2. /\ e \in Command /\ e.what = log[Current].what /\ e.answer = log[Current].answer
            /\ e.urc = sub.channel
        BY <1>3, <3>1 DEF Command
      <3>3. log' = [log EXCEPT ![Current] = e]
        BY <1>1, <1>3, <2>1, <3>1
      <3>4. /\ log' \in Seq(Command) /\ Len(log') = Current
            /\ \A c \in 1..Current : log'[c] = IF c = Current THEN e ELSE log[c]
        <4> HIDE DEF e
        <4> QED BY <1>3, <3>1, <3>2, <3>3, ExceptSeq
      <3>5. ASSUME NEW c \in Commands
            PROVE  /\ log'[c].what = log[c].what /\ log'[c].answer = log[c].answer
                   /\ \/ log'[c].urc = log[c].urc
                      \/ /\ c = Current /\ op.kind = "urc" /\ log'[c].urc = sub.channel
        <4> HIDE DEF e
        <4> QED BY <1>3, <2>1, <3>2, <3>4
      <3> QED BY <3>4, <3>5
    <2>2. CASE op.kind # "urc"
      BY <1>1, <1>3, <2>2
    <2> QED BY <2>1, <2>2
  <1>6. Current' = Current /\ Commands' = Commands /\ Command' = Command
    BY <1>5 DEF Current, Commands, Command
  <1>7. TypeOK'
    <2>1. \A c \in Commands : log'[c].answer <= c /\ log'[c].urc <= c
      BY <1>3, <1>5
    <2>2. op' \in [kind : {"none", "send", "urc", "cip"}, at : {"idle", "answer", "urc"},
                   sub : 0..Current]
      BY <1>3, <1>4 DEF Idle
    <2> QED BY <1>2, <1>4, <1>5, <1>6, <2>1, <2>2 DEF TypeOK
  <1>8. OpInv' /\ SubscriberInv'
    BY <1>4 DEF OpInv, SubscriberInv, Idle
  <1>9. AnswersInOrder'
    BY <1>5, <1>6 DEF Inv, AnswersInOrder
  <1>10. AnswerInv'
    <2>1. \A n : Later(n)' <=> Later(n)
      BY <1>2, <1>5, <1>6 DEF Later
    <2> QED BY <1>2, <1>5, <1>6, <2>1 DEF Inv, AnswerInv, IsAnswer
  <1>11. \A c \in Commands : log[c].urc # sub.channel
    BY <1>1 DEF Inv, UrcInv
  <1>12. OwnUrcs'
    <2> SUFFICES ASSUME NEW c \in Commands, log'[c].urc # 0
                 PROVE  LET d == log'[c].urc
                        IN /\ log'[d].what = log'[c].what
                           /\ d # c => d < c /\ log'[d].urc # d
      BY <1>6 DEF OwnUrcs
    <2>1. CASE log'[c].urc = log[c].urc
      <3>1. log[c].urc \in Commands
        BY <1>3, <2>1
      <3>2. LET d == log[c].urc
            IN log[d].what = log[c].what /\ (d # c => d < c /\ log[d].urc # d)
        BY <2>1 DEF Inv, OwnUrcs
      <3>3. log[c].urc # sub.channel
        BY <1>11
      <3> QED BY <1>5, <2>1, <3>1, <3>2, <3>3
    <2>2. CASE c = Current /\ op.kind = "urc" /\ log'[c].urc = sub.channel
      <3>1. log[sub.channel].what = log[Current].what
        BY <1>1, <2>2 DEF Inv, SubscriberInv
      <3>2. sub.channel # Current => sub.channel < Current
        BY <1>3
      <3>3. sub.channel # Current => log'[sub.channel].urc = log[sub.channel].urc
        BY <1>3, <1>5
      <3> QED BY <1>3, <1>5, <1>11, <2>2, <3>1, <3>2, <3>3
    <2> QED BY <1>5, <2>1, <2>2
  <1>13. UrcInv'
    <2>1. /\ \A d \in coming : d # sub.channel
          /\ \A i \in DOMAIN line : IsUrc(line[i]) => line[i].to # sub.channel
      BY <1>1 DEF Inv, UrcInv
    <2>2. \A d \in coming :
            /\ \A i \in DOMAIN line : IsUrc(line[i]) => line[i].to # d
            /\ \A c \in Commands : log'[c].urc # d
      BY <1>5, <2>1 DEF Inv, UrcInv
    <2>3. \A i \in DOMAIN line : IsUrc(line[i]) =>
            line[i].to # 0 /\ \A c \in Commands : log'[c].urc # line[i].to
      BY <1>5, <2>1 DEF Inv, UrcInv
    <2>4. \A i, j \in DOMAIN line :
            IsUrc(line[i]) /\ IsUrc(line[j]) /\ line[i].to = line[j].to => i = j
      BY DEF Inv, UrcInv
    <2>5. \A c, d \in Commands : log'[c].urc # 0 /\ log'[c].urc = log'[d].urc => c = d
      <3> SUFFICES ASSUME NEW c \in Commands, NEW d \in Commands,
                          log'[c].urc # 0, log'[c].urc = log'[d].urc
                   PROVE  c = d
        OBVIOUS
      <3>1. CASE log'[c].urc = log[c].urc /\ log'[d].urc = log[d].urc
        BY <3>1 DEF Inv, UrcInv
      <3>2. CASE log'[c].urc = sub.channel
        BY <1>5, <1>11, <3>2
      <3> QED BY <1>5, <1>11, <3>1, <3>2
    <2> QED BY <1>2, <1>4, <1>6, <2>2, <2>3, <2>4, <2>5 DEF UrcInv, IsUrc
  <1> QED BY <1>7, <1>8, <1>9, <1>10, <1>12, <1>13 DEF Inv

-----------------------------------------------------------------------------
THEOREM NextInv == Inv /\ [Next]_vars => Inv'
  <1> SUFFICES ASSUME Inv, [Next]_vars PROVE Inv'
    OBVIOUS
  <1>1. CASE Begin
    BY <1>1, BeginInv
  <1>2. CASE AnswerLast
    BY <1>2, TakenInv DEF AnswerLast
  <1>3. CASE AnswerThenUrc
    BY <1>3, TakenInv DEF AnswerThenUrc
  <1>4. CASE AnswerReady
    BY <1>4, AnswerReadyInv
  <1>5. CASE UrcReceived
    BY <1>5, UrcReceivedInv
  <1>6. CASE Timeout
    BY <1>6, TimeoutInv
  <1>7. CASE Monitor
    <2>1. CASE DispatchAnswer
      BY <2>1, DispatchAnswerInv
    <2>2. CASE DispatchUrc
      BY <2>2, DispatchUrcInv
    <2>3. CASE DispatchOther \/ SwallowPrompt \/ Swallow \/ Discard
      <3>1. swallowing' \in BOOLEAN
        BY <2>3 DEF DispatchOther, SwallowPrompt, Swallow, Discard, Inv, TypeOK
      <3>2. Read \/ UNCHANGED line
        BY <2>3 DEF DispatchOther, SwallowPrompt, Swallow, Discard
      <3>3. UNCHANGED <<callerVars, signal, modemVars, log>>
        BY <2>3 DEF DispatchOther, SwallowPrompt, Swallow, Discard
      <3> QED BY <3>1, <3>2, <3>3, ReadInv
    <2> QED BY <1>7, <2>1, <2>2, <2>3 DEF Monitor
  <1>8. CASE Modem
    BY <1>8, ModemInv
  <1>9. CASE UNCHANGED vars
    <2>1. UNCHANGED <<callerVars, signal, modemVars, log>> /\ UNCHANGED line
          /\ swallowing' = swallowing
      BY <1>9 DEF vars, monitorVars
    <2>2. swallowing' \in BOOLEAN
      BY <2>1 DEF Inv, TypeOK
    <2> QED BY <2>1, <2>2, ReadInv
  <1> QED BY <1>1, <1>2, <1>3, <1>4, <1>5, <1>6, <1>7, <1>8, <1>9 DEF Next, Wait

LEMMA InvAlways == Spec => []Inv
  <1> QED BY InitInv, NextInv, PTL DEF Spec

-----------------------------------------------------------------------------
\* The variables keep their types, for any number of commands.
THEOREM TypeCorrect == Spec => []TypeOK
  <1>1. Inv => TypeOK
    BY DEF Inv
  <1> QED BY <1>1, InvAlways, PTL

\* inner_send: no answer is taken for those of two commands, and none before an older
\* one, however many answers are late or lost.
THEOREM AnswersAlwaysInOrder == Spec => []AnswersInOrder
  <1>1. Inv => AnswersInOrder
    BY DEF Inv
  <1> QED BY <1>1, InvAlways, PTL

\* The answers taken up to one are different and none is later than it, so it lags
\* behind by no more than the commands before that have none.
LEMMA LateByGivenUp == TypeOK /\ AnswersInOrder => AnswersLate
  <1> SUFFICES ASSUME TypeOK, AnswersInOrder, NEW c \in Commands, log[c].answer # 0
               PROVE  c <= log[c].answer + Cardinality(GaveUp(c))
    BY DEF AnswersLate
  <1>1. /\ c \in Nat /\ c > 0 /\ log[c].answer \in Nat \ {0}
        /\ \A d \in 1..c : d \in Commands /\ log[d].answer \in Nat
    BY Parts DEF Commands
  <1> DEFINE taken == {d \in 1..c : log[d].answer # 0}
             answers == [d \in taken |-> log[d].answer]
  <1>2. answers \in Injection(taken, 1..log[c].answer)
    <2>1. \A d \in taken : log[d].answer \in 1..log[c].answer
      BY <1>1 DEF AnswersInOrder
    <2>2. \A d, e \in taken : log[d].answer = log[e].answer => d = e
      <3>1. \A d, e \in taken : d < e => log[d].answer < log[e].answer
        BY <1>1 DEF AnswersInOrder
      <3> QED BY <1>1, <3>1
    <2> QED BY <2>1, <2>2 DEF Injection, IsInjective
  <1>3. /\ IsFiniteSet(1..log[c].answer) /\ Cardinality(1..log[c].answer) = log[c].answer
        /\ IsFiniteSet(1..c) /\ Cardinality(1..c) = c
    <2>1. \A n \in Nat : n > 0 => IsFiniteSet(1..n) /\ Cardinality(1..n) = n
      <3> SUFFICES ASSUME NEW n \in Nat, n > 0
                   PROVE  IsFiniteSet(1..n) /\ Cardinality(1..n) = n
        OBVIOUS
      <3>1. 1 \in Int /\ n \in Int /\ ~(1 > n) /\ n - 1 + 1 = n
        OBVIOUS
      <3> QED BY <3>1, FS_Interval
    <2>2. log[c].answer \in Nat /\ log[c].answer > 0
      BY <1>1
    <2> QED BY <1>1, <2>1, <2>2
  <1>4. IsFiniteSet(taken) /\ Cardinality(taken) <= log[c].answer
    <2> HIDE DEF taken, answers
    <2> QED BY <1>2, <1>3, FS_Injection
  <1>5. GaveUp(c) = (1..c) \ taken /\ (1..c) \cap taken = taken
    BY <1>1 DEF GaveUp
  <1>6. Cardinality(GaveUp(c)) = c - Cardinality(taken)
    <2> HIDE DEF taken
    <2> QED BY <1>3, <1>5, FS_Difference
  <1>7. Cardinality(taken) \in Nat
    BY <1>4, FS_CardinalityType
  <1> QED BY <1>1, <1>4, <1>6, <1>7

\* An answer is late by at most as many commands as have timed out before it.
THEOREM AnswersAlwaysLate == Spec => []AnswersLate
  <1> QED BY TypeCorrect, AnswersAlwaysInOrder, LateByGivenUp, PTL

\* interrogate_urc: a result code is that of the operation, or of an earlier one of the
\* same name that returned without it.
THEOREM UrcsAlwaysOwn == Spec => []OwnUrcs
  <1>1. Inv => OwnUrcs
    BY DEF Inv
  <1> QED BY <1>1, InvAlways, PTL

\* "Important cleanup step": no wait, failed or not, leaves a subscriber behind.
THEOREM OneshotsAlwaysRemoved == Spec => []OneshotsRemoved
  <1>1. Inv => OneshotsRemoved
    BY DEF Inv, SubscriberInv, OneshotsRemoved
  <1> QED BY <1>1, InvAlways, PTL
=============================================================================
