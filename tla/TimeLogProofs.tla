---------------------------- MODULE TimeLogProofs ----------------------------
(***************************************************************************)
(* What is proved of TimeLog for all values of the constants, in three     *)
(* parts: its inductive invariant, that it implements WorkLog, and what    *)
(* its records say of time.                                                *)
(***************************************************************************)
EXTENDS TimeLog, UserIdleHandlerProofs, SequenceTheorems, TLAPS

-----------------------------------------------------------------------------
(* Images of the database. *)

(* An image of the file that the program can load: this is what every      *)
(* store must preserve, also halfway through a handler.                    *)
DiskOK(d) ==
  /\ d \in Database
  /\ Len(d.options) <= 1
  /\ \A i \in DOMAIN d.options : d.options[i].cur \in {0} \cup DOMAIN d.times
  /\ \A i \in DOMAIN d.times : d.times[i].task \in DOMAIN d.tasks

(* The image holds the object "t" as it is. *)
Holds(d, t) == t.id \in DOMAIN d.times /\ d.times[t.id] = AsRow(t)

(* The image of an object is a row.                                        *)
LEMMA AsRowType ==
  ASSUME NEW t \in TimeObject
  PROVE  AsRow(t) \in TimeRow
BY DEF AsRow, TimeObject, TimeRow

(* An image's records and tasks are numbered from 1. *)
LEMMA DatabaseDomains ==
  ASSUME NEW d \in Database
  PROVE  /\ Len(d.times) \in Nat /\ DOMAIN d.times = 1 .. Len(d.times)
         /\ Len(d.tasks) \in Nat /\ DOMAIN d.tasks = 1 .. Len(d.tasks)
         /\ DOMAIN d.options = 1 .. Len(d.options)
         /\ d.tasks # <<>> => 1 \in DOMAIN d.tasks
  <1>1. d.times \in Seq(TimeRow) /\ d.tasks \in Seq(TaskNames) /\ d.options \in Seq(OptionsRow)
    BY DEF Database
  <1>2. Len(d.times) \in Nat /\ DOMAIN d.times = 1 .. Len(d.times)
    BY <1>1, LenProperties
  <1>3. Len(d.tasks) \in Nat /\ DOMAIN d.tasks = 1 .. Len(d.tasks)
    BY <1>1, LenProperties
  <1>4. DOMAIN d.options = 1 .. Len(d.options)
    BY <1>1, LenProperties
  <1>5. d.tasks # <<>> => Len(d.tasks) \in Nat \ {0}
    BY <1>1, EmptySeq
  <1>6. QED BY <1>2, <1>3, <1>4, <1>5

(* What storing an object that is in the image already does to the image. *)
LEMMA UpdateTime ==
  ASSUME NEW d, DiskOK(d), NEW t \in TimeObject,
         t.id \in DOMAIN d.times, t.task \in DOMAIN d.tasks
  PROVE  /\ DiskOK(StoreTime(d, t))
         /\ StoreTime(d, t).tasks = d.tasks
         /\ StoreTime(d, t).options = d.options
         /\ DOMAIN StoreTime(d, t).times = DOMAIN d.times
         /\ StoreTime(d, t).times[t.id] = AsRow(t)
         /\ \A i \in DOMAIN d.times : i # t.id => StoreTime(d, t).times[i] = d.times[i]
  <1>. DEFINE e == StoreTime(d, t)
              s == [d.times EXCEPT ![t.id] = AsRow(t)]
  <1>1. d \in Database /\ d.times \in Seq(TimeRow)
    BY DEF DiskOK, Database
  <1>2. t.id \in 1 .. Len(d.times) /\ DOMAIN d.times = 1 .. Len(d.times)
    BY <1>1, DatabaseDomains
  <1>3. e = [d EXCEPT !.times = s]
    BY <1>1, <1>2, DatabaseDomains DEF StoreTime
  <1>4. AsRow(t) \in TimeRow /\ AsRow(t).task = t.task
    BY AsRowType DEF AsRow
  <1>5. /\ s \in Seq(TimeRow)
        /\ DOMAIN s = DOMAIN d.times
        /\ s[t.id] = AsRow(t)
        /\ \A i \in DOMAIN d.times : i # t.id => s[i] = d.times[i]
    BY <1>1, <1>2, <1>4, ExceptSeq, LenProperties
  <1>. HIDE DEF s
  <1>6. /\ e \in Database
        /\ e.times = s
        /\ e.tasks = d.tasks
        /\ e.options = d.options
    BY <1>1, <1>3, <1>5 DEF Database
  <1>. HIDE DEF e
  <1>7. DiskOK(e)
    BY <1>4, <1>5, <1>6 DEF DiskOK
  <1>8. QED BY <1>5, <1>6, <1>7 DEF e

(* What storing a new object does to the image. *)
LEMMA InsertTime ==
  ASSUME NEW d, DiskOK(d), NEW t \in TimeObject,
         t.id = 0, t.task \in DOMAIN d.tasks
  PROVE  /\ DiskOK(StoreTime(d, t))
         /\ StoreTime(d, t).tasks = d.tasks
         /\ StoreTime(d, t).options = d.options
         /\ DOMAIN StoreTime(d, t).times = DOMAIN d.times \cup {Len(d.times) + 1}
         /\ Len(d.times) + 1 \notin DOMAIN d.times
         /\ StoreTime(d, t).times[Len(d.times) + 1] = AsRow(t)
         /\ \A i \in DOMAIN d.times : StoreTime(d, t).times[i] = d.times[i]
         /\ Stored(d, t) = [t EXCEPT !.id = Len(d.times) + 1]
         /\ Stored(d, t) \in TimeObject
         /\ Stored(d, t).id = Len(d.times) + 1
         /\ AsRow(Stored(d, t)) = AsRow(t)
  <1>. DEFINE e == StoreTime(d, t)
              s == Append(d.times, AsRow(t))
  <1>1. d \in Database /\ d.times \in Seq(TimeRow)
    BY DEF DiskOK, Database
  <1>2. Len(d.times) \in Nat /\ DOMAIN d.times = 1 .. Len(d.times)
    BY <1>1, DatabaseDomains
  <1>3. e = [d EXCEPT !.times = s]
    BY DEF StoreTime
  <1>4. AsRow(t) \in TimeRow /\ AsRow(t).task = t.task
    BY AsRowType DEF AsRow
  <1>5. /\ s \in Seq(TimeRow)
        /\ Len(s) = Len(d.times) + 1
        /\ s[Len(d.times) + 1] = AsRow(t)
        /\ \A i \in DOMAIN d.times : s[i] = d.times[i]
    BY <1>1, <1>2, <1>4, AppendProperties
  <1>. HIDE DEF s
  <1>6. DOMAIN s = DOMAIN d.times \cup {Len(d.times) + 1}
    <2>1. DOMAIN s = 1 .. (Len(d.times) + 1)
      BY <1>5, LenProperties
    <2>2. QED BY <2>1, <1>2
  <1>7. /\ e \in Database
        /\ e.times = s
        /\ e.tasks = d.tasks
        /\ e.options = d.options
    BY <1>1, <1>3, <1>5 DEF Database
  <1>8. DiskOK(e)
    BY <1>4, <1>5, <1>6, <1>7 DEF DiskOK
  <1>9. Stored(d, t) = [t EXCEPT !.id = Len(d.times) + 1]
    BY DEF Stored
  <1>10. /\ Stored(d, t) \in TimeObject
         /\ Stored(d, t).id = Len(d.times) + 1
         /\ AsRow(Stored(d, t)) = AsRow(t)
    BY <1>2, <1>9 DEF TimeObject, AsRow
  <1>11. QED BY <1>2, <1>5, <1>6, <1>7, <1>8, <1>9, <1>10

(* What storing the options does to the image. *)
LEMMA OptionsStored ==
  ASSUME NEW d, DiskOK(d), NEW o \in Options, o.cur.id \in {0} \cup DOMAIN d.times
  PROVE  /\ DiskOK(StoreOptions(d, o))
         /\ StoreOptions(d, o).tasks = d.tasks
         /\ StoreOptions(d, o).times = d.times
         /\ StoreOptions(d, o).options = <<AsOptionsRow(o)>>
  <1>. DEFINE e == StoreOptions(d, o)
              r == AsOptionsRow(o)
  <1>1. r \in OptionsRow /\ r.cur = o.cur.id
    BY DEF AsOptionsRow, OptionsRow, Options, TimeObject
  <1>2. d \in Database
    BY DEF DiskOK
  <1>3. e = [d EXCEPT !.options = <<r>>]
    BY DEF StoreOptions
  <1>. HIDE DEF r
  <1>4. <<r>> \in Seq(OptionsRow) /\ Len(<<r>>) = 1 /\ DOMAIN <<r>> = {1} /\ <<r>>[1] = r
    BY <1>1
  <1>5. /\ e \in Database
        /\ e.options = <<r>>
        /\ e.times = d.times
        /\ e.tasks = d.tasks
    BY <1>2, <1>3, <1>4 DEF Database
  <1>. HIDE DEF e
  <1>6. DiskOK(e)
    BY <1>1, <1>4, <1>5 DEF DiskOK
  <1>7. QED BY <1>5, <1>6 DEF e, r

(* What adding a task does to the image. *)
LEMMA TaskAppended ==
  ASSUME NEW d, DiskOK(d), NEW name \in TaskNames
  PROVE  /\ DiskOK([d EXCEPT !.tasks = Append(d.tasks, name)])
         /\ Append(d.tasks, name) # <<>>
         /\ Len(d.tasks) + 1 \in DOMAIN Append(d.tasks, name)
  <1>. DEFINE s == Append(d.tasks, name)
              e == [d EXCEPT !.tasks = s]
  <1>1. d \in Database /\ d.tasks \in Seq(TaskNames)
    BY DEF DiskOK, Database
  <1>2. Len(d.tasks) \in Nat /\ DOMAIN d.tasks = 1 .. Len(d.tasks)
    BY <1>1, DatabaseDomains
  <1>3. s \in Seq(TaskNames) /\ s # <<>> /\ Len(s) = Len(d.tasks) + 1
    BY <1>1, AppendProperties
  <1>4. DOMAIN s = 1 .. (Len(d.tasks) + 1)
    BY <1>3, LenProperties
  <1>5. DOMAIN d.tasks \subseteq DOMAIN s /\ Len(d.tasks) + 1 \in DOMAIN s
    BY <1>2, <1>4
  <1>. HIDE DEF s
  <1>6. /\ e \in Database
        /\ e.tasks = s
        /\ e.times = d.times
        /\ e.options = d.options
    BY <1>1, <1>3 DEF Database
  <1>7. DiskOK(e)
    BY <1>5, <1>6 DEF DiskOK
  <1>8. QED BY <1>3, <1>5, <1>7 DEF s

(* The first start-up adds the default task and nothing else. *)
LEMMA DefaultTaskAdded ==
  ASSUME NEW d, DiskOK(d)
  PROVE  /\ DiskOK(AddDefaultTask(d))
         /\ AddDefaultTask(d).tasks # <<>>
         /\ AddDefaultTask(d).times = d.times
         /\ AddDefaultTask(d).options = d.options
  <1>1. d \in Database
    BY DEF DiskOK
  <1>2. CASE d.tasks = <<>>
    <2>1. Append(d.tasks, Work) = <<Work>>
      BY <1>2
    <2>2. AddDefaultTask(d) = [d EXCEPT !.tasks = Append(d.tasks, Work)]
      BY <1>2, <2>1 DEF AddDefaultTask
    <2>3. DiskOK(AddDefaultTask(d)) /\ Append(d.tasks, Work) # <<>>
      BY <2>2, TaskAppended, TimeLogAssumption
    <2>4. QED BY <1>1, <2>2, <2>3 DEF Database
  <1>3. CASE d.tasks # <<>>
    <2>1. AddDefaultTask(d) = d
      BY <1>1, <1>3 DEF AddDefaultTask, Database
    <2>2. QED BY <1>3, <2>1
  <1>4. QED BY <1>2, <1>3

(* The task the user names is in the image once it has been stored. *)
LEMMA ComboTaskStored ==
  ASSUME NEW d, DiskOK(d), d.tasks # <<>>, NEW name \in TaskNames \cup {NoName}
  PROVE  /\ DiskOK(StoreComboTask(d, name))
         /\ StoreComboTask(d, name).tasks # <<>>
         /\ StoreComboTask(d, name).times = d.times
         /\ StoreComboTask(d, name).options = d.options
         /\ ComboTask(d, name) \in DOMAIN StoreComboTask(d, name).tasks
         /\ ComboTask(d, name) \in Nat
  <1>. DEFINE e == StoreComboTask(d, name)
              i == ComboTask(d, name)
  <1>1. d \in Database
    BY DEF DiskOK
  <1>2. /\ Len(d.tasks) \in Nat
        /\ DOMAIN d.tasks = 1 .. Len(d.tasks)
        /\ 1 \in DOMAIN d.tasks
    BY <1>1, DatabaseDomains
  <1>3. CASE i \in DOMAIN d.tasks
    <2>1. e = d
      <3>1. ~(i > Len(d.tasks))
        BY <1>2, <1>3
      <3>2. e = [d EXCEPT !.tasks = d.tasks]
        BY <3>1 DEF StoreComboTask
      <3>3. QED BY <1>1, <3>2 DEF Database
    <2>2. QED BY <1>2, <1>3, <2>1
  <1>4. CASE i \notin DOMAIN d.tasks
    <2>1. name # NoName /\ ~(\E k \in DOMAIN d.tasks : d.tasks[k] = name)
      <3>1. name = NoName => i = 1
        BY DEF ComboTask
      <3>2. name # NoName /\ (\E k \in DOMAIN d.tasks : d.tasks[k] = name)
              => i = CHOOSE k \in DOMAIN d.tasks : d.tasks[k] = name
        BY DEF ComboTask
      <3>3. QED BY <1>2, <1>4, <3>1, <3>2
    <2>2. i = Len(d.tasks) + 1
      BY <2>1 DEF ComboTask
    <2>3. e = [d EXCEPT !.tasks = Append(d.tasks, name)]
      BY <1>2, <2>2 DEF StoreComboTask
    <2>4. /\ DiskOK(e)
          /\ Append(d.tasks, name) # <<>>
          /\ i \in DOMAIN Append(d.tasks, name)
      BY <2>1, <2>2, <2>3, TaskAppended
    <2>5. /\ e.tasks = Append(d.tasks, name)
          /\ e.times = d.times
          /\ e.options = d.options
      BY <1>1, <2>3 DEF Database
    <2>6. QED BY <1>2, <2>2, <2>4, <2>5
  <1>5. QED BY <1>3, <1>4

-----------------------------------------------------------------------------
(* The inductive invariant: the invariants that the runs check, and three  *)
(* facts they rest on.  The default task must be there for OnReturn to     *)
(* open a record of it; there is one row of options, so that reading it    *)
(* gives back what was stored; and no timer is pending in a handler that   *)
(* does not track, or it could open a record under the idle dialog.        *)

DefaultTaskExists == up => db.tasks # <<>>

OneOptionsRow == Len(db.options) <= 1

IInv ==
  /\ TypeOK
  /\ PointerIsDurable
  /\ MemoryMatchesDisk
  /\ DialogMatchesDisk
  /\ HandlerMatchesRecord
  /\ DefaultTaskExists
  /\ OneOptionsRow
  /\ Armed(uih)

(* What the invariant says of a running program, in the terms of the       *)
(* lemmas above.                                                           *)
LEMMA Running ==
  ASSUME IInv, up
  PROVE  /\ DiskOK(db)
         /\ db.tasks # <<>>
         /\ 1 \in DOMAIN db.tasks
         /\ db.options = <<AsOptionsRow(opts)>>
         /\ opts \in Options /\ opts.cur \in TimeObject
         /\ dlg \in IdleDialogData /\ dlg.log \in TimeObject
         /\ opts.cur.id > 0 => Holds(db, opts.cur) /\ opts.cur.task \in DOMAIN db.tasks
         /\ opts.cur.id \in {0} \cup DOMAIN db.times
         /\ dlg.log.id > 0 => /\ Holds(db, dlg.log)
                              /\ dlg.log.task \in DOMAIN db.tasks
                              /\ dlg.log.id # opts.cur.id
         /\ uih \in Handler /\ Armed(uih)
         /\ clock \in Nat /\ lastInput \in Nat /\ odd \subseteq Flags
  <1>1. DiskOK(db)
    BY DEF IInv, TypeOK, PointerIsDurable, OneOptionsRow, DiskOK
  <1>2. db.tasks # <<>>
    BY DEF IInv, DefaultTaskExists
  <1>3. 1 \in DOMAIN db.tasks
    BY <1>1, <1>2, DatabaseDomains DEF DiskOK
  <1>4. /\ opts \in Options /\ opts.cur \in TimeObject
        /\ dlg \in IdleDialogData /\ dlg.log \in TimeObject
        /\ uih \in Handler /\ Armed(uih)
        /\ clock \in Nat /\ lastInput \in Nat /\ odd \subseteq Flags
    BY DEF IInv, TypeOK, Options, IdleDialogData
  <1>5. \A t : Holds(db, t) => t.task \in DOMAIN db.tasks
    BY <1>1 DEF Holds, DiskOK, AsRow
  <1>6. db.options = <<AsOptionsRow(opts)>>
    BY DEF IInv, MemoryMatchesDisk
  <1>7. opts.cur.id > 0 => Holds(db, opts.cur)
    BY DEF IInv, MemoryMatchesDisk, Holds
  <1>8. dlg.log.id > 0 => Holds(db, dlg.log) /\ dlg.log.id # opts.cur.id
    BY DEF IInv, DialogMatchesDisk, DialogOpen, Holds
  <1>9. opts.cur.id \in {0} \cup DOMAIN db.times
    BY <1>4, <1>7 DEF TimeObject, Holds
  <1>10. QED BY <1>1, <1>2, <1>3, <1>4, <1>5, <1>6, <1>7, <1>8, <1>9

(* What a handler must have established when it returns. *)
HandlerOK(u, o, d, flags) ==
  /\ u.state = USING => o.cur.id > 0
  /\ "reenabled" \notin flags =>
       /\ u.tracking /\ o.cur.id > 0 => u.state = USING
       /\ d.log.id > 0 => ~u.tracking /\ o.cur.id = 0

(* A handler that returns keeps the invariant if what it leaves in the file,*)
(* in memory and in the dialog fits together.                              *)
LEMMA ReturnKeepsIInv ==
  ASSUME NEW final, NEW o, NEW u, NEW d, Return(final, o, u, d),
         DiskOK(final), final.tasks # <<>>, final.options = <<AsOptionsRow(o)>>,
         o \in Options, u \in Handler, Armed(u), d \in IdleDialogData,
         o.cur.id > 0 => Holds(final, o.cur),
         d.log.id > 0 => Holds(final, d.log) /\ d.log.id # o.cur.id,
         odd' \subseteq Flags, HandlerOK(u, o, d, odd'),
         clock' \in Nat, lastInput' \in Nat
  PROVE  IInv'
  <1>1. up' = TRUE /\ db' = final /\ opts' = o /\ uih' = u /\ dlg' = d
    BY DEF Return
  <1>2. TypeOK'
    BY <1>1 DEF TypeOK, DiskOK
  <1>3. PointerIsDurable'
    BY <1>1 DEF PointerIsDurable, DiskOK
  <1>4. MemoryMatchesDisk'
    BY <1>1 DEF MemoryMatchesDisk, Holds, AsOptionsRow, AsRow
  <1>5. DialogMatchesDisk'
    BY <1>1 DEF DialogMatchesDisk, DialogOpen, Holds, AsRow
  <1>6. HandlerMatchesRecord'
    BY <1>1 DEF HandlerMatchesRecord, HandlerOK, USING
  <1>7. DefaultTaskExists' /\ OneOptionsRow' /\ Armed(uih)'
    BY <1>1 DEF DefaultTaskExists, OneOptionsRow, DiskOK, Armed, NoTimer
  <1>8. QED BY <1>2, <1>3, <1>4, <1>5, <1>6, <1>7 DEF IInv

(* When the process has ended nothing is asked of its memory: only the     *)
(* file must be in order.                                                  *)
LEMMA ExitKeepsIInv ==
  ASSUME Exit, DiskOK(db'), odd' \subseteq Flags, clock' \in Nat, lastInput' \in Nat
  PROVE  IInv'
  <1>1. up' = FALSE /\ opts' = DefaultOptions /\ uih' = NewHandler /\ dlg' = NoDialog
    BY DEF Exit
  <1>2. DefaultOptions \in Options /\ NoDialog \in IdleDialogData
    BY TimeLogAssumption DEF DefaultOptions, Options, NoDialog, IdleDialogData, NoTime, TimeObject
  <1>3. NewHandler \in Handler /\ Armed(NewHandler)
    BY NewHandlerType DEF Armed, NewHandler
  <1>4. TypeOK'
    BY <1>1, <1>2, <1>3 DEF TypeOK, DiskOK
  <1>5. PointerIsDurable' /\ OneOptionsRow'
    BY DEF PointerIsDurable, OneOptionsRow, DiskOK
  <1>6. MemoryMatchesDisk' /\ DialogMatchesDisk' /\ HandlerMatchesRecord' /\ DefaultTaskExists'
    BY <1>1 DEF MemoryMatchesDisk, DialogMatchesDisk, DialogOpen, HandlerMatchesRecord, DefaultTaskExists
  <1>7. Armed(uih)'
    BY <1>1, <1>3 DEF Armed, NoTimer
  <1>8. QED BY <1>4, <1>5, <1>6, <1>7 DEF IInv

(* A handler that is cut short keeps it if every image in between is in order.*)
LEMMA DieKeepsIInv ==
  ASSUME NEW images, NEW flags \in SUBSET Flags, Die(images, flags),
         \A image \in images : DiskOK(image),
         odd \subseteq Flags, clock' \in Nat, lastInput' \in Nat
  PROVE  IInv'
  <1>1. Exit
    BY DEF Die
  <1>2. DiskOK(db')
    BY DEF Die
  <1>3. odd' \subseteq Flags
    BY DEF Die, Flags
  <1>4. QED BY <1>1, <1>2, <1>3, ExitKeepsIInv

-----------------------------------------------------------------------------
(* Start-up. *)

(* What start-up reads from a file in order.                               *)
LEMMA OptionsQueried ==
  ASSUME NEW d, DiskOK(d), OptionsFound(d)
  PROVE  /\ QueryOptions(d) \in Options
         /\ QueryOptions(d).cur.id > 0 => /\ Holds(d, QueryOptions(d).cur)
                                          /\ QueryOptions(d).cur.task \in DOMAIN d.tasks
         /\ d.options = <<AsOptionsRow(QueryOptions(d))>>
  <1>. DEFINE r == d.options[1]
              t == IF r.cur > 0 THEN LoadTime(d, r.cur) ELSE NoTime
  <1>1. d \in Database /\ d.options \in Seq(OptionsRow) /\ d.times \in Seq(TimeRow)
    BY DEF DiskOK, Database
  <1>2. r \in OptionsRow
    BY <1>1, EmptySeq, ElementOfSeq DEF OptionsFound
  <1>3. r.cur > 0 => r.cur \in DOMAIN d.times
    BY DEF OptionsFound
  <1>4. \A i \in DOMAIN d.times : d.times[i] \in TimeRow
    BY <1>1, DatabaseDomains, ElementOfSeq
  <1>5. r.cur \in Nat
    BY <1>2 DEF OptionsRow
  <1>6. QueryOptions(d) = [r EXCEPT !.cur = t]
    BY DEF QueryOptions
  <1>. HIDE DEF r
  <1>7. t \in TimeObject
    BY <1>3, <1>4, <1>5 DEF LoadTime, NoTime, TimeObject, TimeRow
  <1>8. t.id = r.cur
    BY <1>5 DEF LoadTime, NoTime
  <1>9. t.id > 0 => Holds(d, t) /\ t.task \in DOMAIN d.tasks
    <2>1. SUFFICES ASSUME t.id > 0
                   PROVE  Holds(d, t) /\ t.task \in DOMAIN d.tasks
      OBVIOUS
    <2>2. t = LoadTime(d, r.cur) /\ r.cur \in DOMAIN d.times
      BY <1>3, <1>8, <2>1
    <2>3. AsRow(LoadTime(d, r.cur)) = d.times[r.cur]
      BY <1>4, <2>2 DEF AsRow, LoadTime, TimeRow
    <2>4. t.task = d.times[r.cur].task
      BY <2>2 DEF LoadTime
    <2>5. QED BY <1>8, <2>2, <2>3, <2>4 DEF Holds, DiskOK
  <1>. HIDE DEF t
  <1>10. QueryOptions(d) \in Options /\ QueryOptions(d).cur = t
    BY <1>2, <1>6, <1>7 DEF OptionsRow, Options
  <1>11. r = AsOptionsRow(QueryOptions(d))
    BY <1>2, <1>6, <1>8, <1>10 DEF AsOptionsRow, OptionsRow
  <1>12. d.options = <<r>>
    <2>1. Len(d.options) \in Nat \ {0} /\ Len(d.options) <= 1
      BY <1>1, EmptySeq DEF DiskOK, OptionsFound
    <2>2. Len(d.options) = 1
      <3>1. \A n \in Nat \ {0} : n <= 1 => n = 1
        OBVIOUS
      <3>2. QED BY <2>1, <3>1
    <2>3. QED BY <1>1, <2>2 DEF r
  <1>13. QED BY <1>9, <1>10, <1>11, <1>12

(* The handler after WM_INITDIALOG. *)
LEMMA InitDialogOK ==
  ASSUME NEW o \in Options, NEW c \in Nat
  PROVE  /\ InitDialog(o, c) \in Handler
         /\ Armed(InitDialog(o, c))
         /\ InitDialog(o, c).state = IDLE
  <1>. DEFINE v == SetThresholds(NewHandler, o.thr, c)
              w == SetIsIdle(v, TRUE, c)
  <1>1. o.thr \in Thresholds /\ o.autoTrack \in BOOLEAN
    BY DEF Options
  <1>2. NewHandler \in Handler /\ Armed(NewHandler)
    BY NewHandlerType DEF Armed, NewHandler
  <1>3. v \in Handler /\ Armed(v)
    <2>1. v \in Handler
      BY <1>1, <1>2, SetThresholdsType
    <2>2. Armed(v)
      BY <1>1, <1>2, SetThresholdsEffect
    <2>3. QED BY <2>1, <2>2
  <1>. HIDE DEF v
  <1>4. w \in Handler /\ Armed(w) /\ w.state = IDLE
    <2>1. w \in Handler
      BY <1>3, SetIsIdleType
    <2>2. Armed(w) /\ w.state = IDLE
      BY <1>3, SetIsIdleEffect
    <2>3. QED BY <2>1, <2>2
  <1>5. InitDialog(o, c) = IF o.autoTrack THEN StartTracking(w, c) ELSE w
    BY DEF InitDialog, v
  <1>. HIDE DEF w
  <1>6. StartTracking(w, c) \in Handler
    BY <1>4, TrackingTypes
  <1>7. StartTracking(w, c).state = IDLE /\ Armed(StartTracking(w, c))
    BY <1>4, TrackingEffect
  <1>8. QED BY <1>4, <1>5, <1>6, <1>7

(* Start-up, complete or cut short.                                        *)
LEMMA StartKeepsIInv ==
  ASSUME IInv, Start
  PROVE  IInv'
  <1>. DEFINE d1 == AddDefaultTask(db)
              o  == IF OptionsFound(d1) THEN QueryOptions(d1) ELSE DefaultOptions
              d2 == IF OptionsFound(d1) THEN d1 ELSE StoreOptions(d1, o)
              d3 == IF o.cur.id > 0 THEN StoreTime(d2, Recovered(o)) ELSE d2
              o2 == [o EXCEPT !.cur = NoTime]
              d4 == IF o.cur.id > 0 THEN StoreOptions(d3, o2) ELSE d2
  <1>1. /\ \/ Return(d4, o2, InitDialog(o2, clock), NoDialog) /\ UNCHANGED odd
           \/ Die({d1, d2, d3}, {})
        /\ UNCHANGED <<clock, lastInput>>
    BY DEF Start
  <1>2. /\ DiskOK(db)
        /\ clock' \in Nat /\ lastInput' \in Nat /\ clock \in Nat
        /\ odd \subseteq Flags
    BY <1>1 DEF IInv, TypeOK, PointerIsDurable, OneOptionsRow, DiskOK
  <1>3. DiskOK(d1) /\ d1.tasks # <<>>
    BY <1>2, DefaultTaskAdded
  <1>. HIDE DEF d1
  <1>4. /\ o \in Options
        /\ o.cur.id > 0 => Holds(d1, o.cur) /\ o.cur.task \in DOMAIN d1.tasks
    <2>1. CASE OptionsFound(d1)
      BY <1>3, <2>1, OptionsQueried
    <2>2. CASE ~OptionsFound(d1)
      BY <2>2, TimeLogAssumption DEF DefaultOptions, Options, NoTime, TimeObject
    <2>3. QED BY <2>1, <2>2
  <1>5. ~OptionsFound(d1) => o.cur.id = 0
    BY DEF DefaultOptions, NoTime
  <1>6. OptionsFound(d1) => d1.options = <<AsOptionsRow(o)>>
    BY <1>3, OptionsQueried
  <1>. HIDE DEF o
  <1>7. o.cur \in TimeObject
    BY <1>4 DEF Options
  <1>8. /\ DiskOK(d2)
        /\ d2.tasks = d1.tasks
        /\ d2.times = d1.times
        /\ d2.options = <<AsOptionsRow(o)>>
    BY <1>3, <1>4, <1>5, <1>6, OptionsStored
  <1>. HIDE DEF d2
  <1>9. /\ Recovered(o) \in TimeObject
        /\ Recovered(o).id = o.cur.id
        /\ Recovered(o).task = o.cur.task
    <2>1. Larger(o.lastCheck, o.cur.start + 1) \in Int
      BY <1>4, <1>7 DEF Larger, Options, TimeObject
    <2>2. QED BY <1>7, <2>1 DEF Recovered, TimeObject
  <1>10. DiskOK(d3) /\ d3.tasks = d1.tasks
    <2>1. CASE o.cur.id > 0
      <3>1. Recovered(o).id \in DOMAIN d2.times /\ Recovered(o).task \in DOMAIN d2.tasks
        BY <1>4, <1>8, <1>9, <2>1 DEF Holds
      <3>2. DiskOK(StoreTime(d2, Recovered(o))) /\ StoreTime(d2, Recovered(o)).tasks = d2.tasks
        BY <1>8, <1>9, <3>1, UpdateTime
      <3>3. QED BY <1>8, <2>1, <3>2
    <2>2. CASE ~(o.cur.id > 0)
      BY <1>8, <2>2
    <2>3. QED BY <2>1, <2>2
  <1>. HIDE DEF d3
  <1>11. o2 \in Options /\ o2.cur.id = 0
    BY <1>4 DEF Options, NoTime, TimeObject
  <1>12. ~(o.cur.id > 0) => AsOptionsRow(o2) = AsOptionsRow(o)
    <2>1. o2.cur.id = 0
      BY <1>11
    <2>2. ~(o.cur.id > 0) => o.cur.id = 0
      BY <1>7 DEF TimeObject
    <2>3. [o2 EXCEPT !.cur = 0] = [o EXCEPT !.cur = 0]
      BY <1>4 DEF Options
    <2>4. QED BY <2>1, <2>2, <2>3 DEF AsOptionsRow
  <1>. HIDE DEF o2
  <1>13. /\ DiskOK(d4)
         /\ d4.tasks # <<>>
         /\ d4.options = <<AsOptionsRow(o2)>>
    <2>1. /\ DiskOK(StoreOptions(d3, o2))
          /\ StoreOptions(d3, o2).tasks = d3.tasks
          /\ StoreOptions(d3, o2).options = <<AsOptionsRow(o2)>>
      BY <1>10, <1>11, OptionsStored
    <2>2. QED BY <1>3, <1>8, <1>10, <1>12, <2>1
  <1>. HIDE DEF d4
  <1>14. CASE Return(d4, o2, InitDialog(o2, clock), NoDialog) /\ UNCHANGED odd
    <2>1. /\ InitDialog(o2, clock) \in Handler
          /\ Armed(InitDialog(o2, clock))
          /\ InitDialog(o2, clock).state = IDLE
      BY <1>2, <1>11, InitDialogOK
    <2>2. NoDialog \in IdleDialogData /\ NoDialog.log.id = 0
      BY DEF NoDialog, IdleDialogData, NoTime, TimeObject
    <2>3. HandlerOK(InitDialog(o2, clock), o2, NoDialog, odd')
      BY <1>11, <2>1, <2>2 DEF HandlerOK, IDLE, USING
    <2>4. odd' \subseteq Flags
      BY <1>2, <1>14
    <2>5. QED BY <1>2, <1>11, <1>13, <1>14, <2>1, <2>2, <2>3, <2>4, ReturnKeepsIInv
  <1>15. CASE Die({d1, d2, d3}, {})
    <2>1. \A image \in {d1, d2, d3} : DiskOK(image)
      BY <1>3, <1>8, <1>10
    <2>2. QED BY <1>2, <1>15, <2>1, DieKeepsIInv
  <1>16. QED BY <1>1, <1>14, <1>15

-----------------------------------------------------------------------------
(* The callbacks and the crash timer. *)

(* The callbacks' argument is an integer.                                  *)
LEMMA CallbackTimeType ==
  ASSUME NEW c \in Nat, NEW ms \in Nat
  PROVE  CallbackTime(c, ms) \in Int
  <1>1. TimeOf(c) \in Nat
    BY ClockTypes
  <1>2. ms \div MsPerSec \in Int
    BY DivType, HandlerAssumption
  <1>3. QED BY <1>1, <1>2 DEF CallbackTime

(* Storing a new record and making opts point at it: both images are in    *)
(* order, the second is what the program has in memory, and whatever the   *)
(* image held before it still holds, under another id.                     *)
LEMMA RecordOpened ==
  ASSUME NEW d, DiskOK(d), opts \in Options, NEW t \in TimeObject,
         t.id = 0, t.task \in DOMAIN d.tasks,
         NEW o, o = [opts EXCEPT !.cur = Stored(d, t)],
         NEW e, e = StoreTime(d, t),
         NEW f, f = StoreOptions(e, o)
  PROVE  /\ DiskOK(e) /\ DiskOK(f)
         /\ e.tasks = d.tasks /\ f.tasks = d.tasks
         /\ f.options = <<AsOptionsRow(o)>>
         /\ o \in Options /\ o.cur.id > 0 /\ Holds(f, o.cur)
         /\ \A x : Holds(d, x) => Holds(f, x) /\ x.id # o.cur.id
  <1>1. /\ DiskOK(e)
        /\ e.tasks = d.tasks
        /\ DOMAIN e.times = DOMAIN d.times \cup {Len(d.times) + 1}
        /\ Len(d.times) + 1 \notin DOMAIN d.times
        /\ e.times[Len(d.times) + 1] = AsRow(t)
        /\ \A i \in DOMAIN d.times : e.times[i] = d.times[i]
        /\ Stored(d, t) \in TimeObject
        /\ Stored(d, t).id = Len(d.times) + 1
        /\ AsRow(Stored(d, t)) = AsRow(t)
    BY InsertTime
  <1>2. Len(d.times) \in Nat
    BY DatabaseDomains DEF DiskOK
  <1>3. o \in Options /\ o.cur = Stored(d, t)
    BY <1>1 DEF Options
  <1>4. /\ DiskOK(f)
        /\ f.tasks = e.tasks
        /\ f.times = e.times
        /\ f.options = <<AsOptionsRow(o)>>
    <2>1. o.cur.id \in {0} \cup DOMAIN e.times
      BY <1>1, <1>3
    <2>2. QED BY <1>1, <1>3, <2>1, OptionsStored
  <1>5. o.cur.id > 0
    BY <1>1, <1>2, <1>3
  <1>6. Holds(f, o.cur)
    BY <1>1, <1>3, <1>4 DEF Holds
  <1>7. \A x : Holds(d, x) => Holds(f, x) /\ x.id # o.cur.id
    BY <1>1, <1>3, <1>4 DEF Holds
  <1>8. QED BY <1>1, <1>3, <1>4, <1>5, <1>6, <1>7

(* A new record is one that has no row yet.                                *)
LEMMA FreshType ==
  ASSUME NEW i \in Nat, NEW time \in Int
  PROVE  /\ Fresh(i, time) \in TimeObject
         /\ Fresh(i, time).id = 0
         /\ Fresh(i, time).task = i
BY DEF Fresh, TimeObject

(* The two stores of OnReturn, as RecordOpened sees them.                  *)
LEMMA OnReturnOK ==
  ASSUME NEW d, DiskOK(d), d.tasks # <<>>, opts \in Options, NEW time \in Int
  PROVE  /\ DiskOK(OnReturnStored(d, time)) /\ DiskOK(OnReturnFinal(d, time))
         /\ OnReturnFinal(d, time).tasks # <<>>
         /\ OnReturnFinal(d, time).options = <<AsOptionsRow(OnReturnOpts(d, time))>>
         /\ OnReturnOpts(d, time) \in Options
         /\ OnReturnOpts(d, time).cur.id > 0
         /\ Holds(OnReturnFinal(d, time), OnReturnOpts(d, time).cur)
         /\ \A x : Holds(d, x) => /\ Holds(OnReturnFinal(d, time), x)
                                  /\ x.id # OnReturnOpts(d, time).cur.id
  <1>1. 1 \in DOMAIN d.tasks
    BY DatabaseDomains DEF DiskOK
  <1>2. Fresh(1, time) \in TimeObject /\ Fresh(1, time).id = 0 /\ Fresh(1, time).task = 1
    BY FreshType
  <1>3. /\ OnReturnOpts(d, time) = [opts EXCEPT !.cur = Stored(d, Fresh(1, time))]
        /\ OnReturnStored(d, time) = StoreTime(d, Fresh(1, time))
        /\ OnReturnFinal(d, time) = StoreOptions(OnReturnStored(d, time), OnReturnOpts(d, time))
    BY DEF OnReturnOpts, OnReturnStored, OnReturnFinal
  <1>4. QED BY <1>1, <1>2, <1>3, RecordOpened

(* A poll, in the terms of the invariant. *)
LEMMA PolledOK ==
  ASSUME IInv, up, TimerDue(uih, clock)
  PROVE  /\ Polled.u \in Handler /\ Polled.ms \in Nat
         /\ Polled.call \in {"none", "onReturn", "onIdle"}
         /\ uih.tracking /\ Polled.u.tracking
         /\ Polled.call = "onReturn" => Polled.u.state = USING /\ uih.state # USING
         /\ Polled.call = "onIdle" => Polled.u.state = IDLE /\ uih.state = USING
         /\ Polled.call = "none" => (Polled.u.state = USING <=> uih.state = USING)
         /\ CallbackTime(clock, Polled.ms) \in Int
  <1>1. uih \in Handler /\ Armed(uih) /\ clock \in Nat /\ lastInput \in Nat
    BY Running
  <1>2. uih.tracking
    BY <1>1 DEF Armed, TimerDue
  <1>3. /\ Polled \in Outcome
        /\ Polled.u.tracking = uih.tracking
        /\ Polled.call = "onReturn" => Polled.u.state = USING /\ uih.state # USING
        /\ Polled.call = "onIdle" => Polled.u.state = IDLE /\ uih.state = USING
        /\ Polled.call = "none" => (Polled.u.state = USING <=> uih.state = USING)
    BY <1>1, OnTimerType DEF Polled
  <1>4. /\ Polled.u \in Handler
        /\ Polled.ms \in Nat
        /\ Polled.call \in {"none", "onReturn", "onIdle"}
    BY <1>3 DEF Outcome
  <1>5. CallbackTime(clock, Polled.ms) \in Int
    BY <1>1, <1>4, CallbackTimeType
  <1>6. QED BY <1>2, <1>3, <1>4, <1>5

(* A poll that changes the handler only.                                   *)
LEMMA OnTimerQuietKeepsIInv ==
  ASSUME IInv, OnTimerQuiet
  PROVE  IInv'
  <1>. DEFINE p == Polled
              u == StartTimer(p.u, clock)
  <1>1. /\ up = TRUE /\ TimerDue(uih, clock)
        /\ p.call # "onReturn"
        /\ ~(p.call = "onIdle" /\ opts.cur.id > 0)
        /\ uih' = u
        /\ UNCHANGED <<clock, lastInput, db, up, opts, dlg, odd>>
    BY DEF OnTimerQuiet, IInv, TypeOK
  <1>2. /\ p.u \in Handler /\ uih.tracking /\ p.u.tracking
        /\ p.call \in {"none", "onReturn", "onIdle"}
        /\ p.call = "onIdle" => p.u.state = IDLE /\ uih.state = USING
        /\ p.call = "none" => (p.u.state = USING <=> uih.state = USING)
    BY <1>1, PolledOK
  <1>3. uih.state = USING => opts.cur.id > 0
    BY <1>1 DEF IInv, HandlerMatchesRecord
  <1>4. p.u.state = USING <=> uih.state = USING
    BY <1>1, <1>2, <1>3
  <1>. HIDE DEF p
  <1>5. u \in Handler /\ u.state = p.u.state /\ u.tracking = p.u.tracking /\ Armed(u)
    <2>1. clock \in Nat
      BY <1>1, Running
    <2>2. u \in Handler
      BY <1>2, <2>1, StartTimerType
    <2>3. QED BY <1>2, <2>1, <2>2, StartTimerEffect
  <1>. HIDE DEF u
  <1>6. HandlerOK(u, opts, dlg, odd')
    BY <1>1, <1>2, <1>4, <1>5 DEF IInv, HandlerMatchesRecord, HandlerOK
  <1>7. Return(db, opts, u, dlg)
    BY <1>1 DEF Return
  <1>8. /\ clock' = clock /\ lastInput' = lastInput /\ odd' = odd
    BY <1>1
  <1>9. QED BY <1>1, <1>5, <1>6, <1>7, <1>8, Running, ReturnKeepsIInv

(* A poll that calls OnReturn.                                             *)
LEMMA OnTimerReturnKeepsIInv ==
  ASSUME IInv, OnTimerReturn
  PROVE  IInv'
  <1>. DEFINE p == Polled
              time == CallbackTime(clock, p.ms)
              u == StartTimer(p.u, clock)
              o == OnReturnOpts(db, time)
              final == OnReturnFinal(db, time)
  <1>1. /\ up = TRUE /\ TimerDue(uih, clock)
        /\ p.call = "onReturn"
        /\ \/ Return(final, o, u, dlg) /\ UNCHANGED odd
           \/ Die({OnReturnStored(db, time)}, {})
        /\ UNCHANGED <<clock, lastInput>>
    BY DEF OnTimerReturn, IInv, TypeOK
  <1>2. /\ p.u \in Handler /\ uih.tracking /\ p.u.tracking
        /\ p.u.state = USING
        /\ time \in Int
    BY <1>1, PolledOK
  <1>. HIDE DEF p, time
  <1>3. /\ DiskOK(db) /\ db.tasks # <<>> /\ opts \in Options
        /\ dlg \in IdleDialogData
        /\ dlg.log.id > 0 => Holds(db, dlg.log)
        /\ clock \in Nat /\ lastInput \in Nat /\ odd \subseteq Flags
    BY <1>1, Running
  <1>4. /\ DiskOK(OnReturnStored(db, time)) /\ DiskOK(final) /\ final.tasks # <<>>
        /\ final.options = <<AsOptionsRow(o)>>
        /\ o \in Options /\ o.cur.id > 0 /\ Holds(final, o.cur)
        /\ \A x : Holds(db, x) => Holds(final, x) /\ x.id # o.cur.id
    BY <1>2, <1>3, OnReturnOK
  <1>. HIDE DEF o, final
  <1>5. u \in Handler /\ u.state = USING /\ u.tracking /\ Armed(u)
    <2>1. u \in Handler
      BY <1>2, <1>3, StartTimerType
    <2>2. QED BY <1>2, <1>3, <2>1, StartTimerEffect
  <1>. HIDE DEF u
  <1>6. CASE Return(final, o, u, dlg) /\ UNCHANGED odd
    <2>1. "reenabled" \notin odd => ~(dlg.log.id > 0)
      BY <1>1, <1>2 DEF IInv, HandlerMatchesRecord
    <2>2. HandlerOK(u, o, dlg, odd')
      BY <1>4, <1>5, <1>6, <2>1 DEF HandlerOK
    <2>3. clock' = clock /\ lastInput' = lastInput /\ odd' = odd
      BY <1>1, <1>6
    <2>4. QED BY <1>3, <1>4, <1>5, <1>6, <2>2, <2>3, ReturnKeepsIInv
  <1>7. CASE Die({OnReturnStored(db, time)}, {})
    BY <1>1, <1>3, <1>4, <1>7, DieKeepsIInv
  <1>8. QED BY <1>1, <1>6, <1>7

(* Storing again an object of the image: it is held as it is now, and the  *)
(* others as before.                                                       *)
LEMMA RecordUpdated ==
  ASSUME NEW d, DiskOK(d), NEW t \in TimeObject,
         t.id \in DOMAIN d.times, t.task \in DOMAIN d.tasks,
         NEW e, e = StoreTime(d, t)
  PROVE  /\ DiskOK(e)
         /\ e.tasks = d.tasks /\ e.options = d.options
         /\ Holds(e, t)
         /\ \A x : Holds(d, x) /\ x.id # t.id => Holds(e, x)
  <1>1. /\ DiskOK(e)
        /\ e.tasks = d.tasks
        /\ e.options = d.options
        /\ DOMAIN e.times = DOMAIN d.times
        /\ e.times[t.id] = AsRow(t)
        /\ \A i \in DOMAIN d.times : i # t.id => e.times[i] = d.times[i]
    BY UpdateTime
  <1>2. QED BY <1>1 DEF Holds

(* Storing the options changes no record. *)
LEMMA HoldsAfterOptions ==
  ASSUME NEW d, DiskOK(d), NEW o \in Options, o.cur.id \in {0} \cup DOMAIN d.times,
         NEW e, e = StoreOptions(d, o)
  PROVE  /\ DiskOK(e)
         /\ e.tasks = d.tasks /\ e.options = <<AsOptionsRow(o)>>
         /\ \A x : Holds(d, x) <=> Holds(e, x)
  <1>1. /\ DiskOK(e)
        /\ e.tasks = d.tasks
        /\ e.times = d.times
        /\ e.options = <<AsOptionsRow(o)>>
    BY OptionsStored
  <1>2. QED BY <1>1 DEF Holds

(* The options that point at nothing. *)
LEMMA NoCurrent ==
  ASSUME opts \in Options, NEW o, o = [opts EXCEPT !.cur = NoTime]
  PROVE  o \in Options /\ o.cur.id = 0
BY DEF Options, NoTime, TimeObject

(* A record of the program, ended: it can be stored over what is there.    *)
LEMMA CurrentEnded ==
  ASSUME IInv, up, opts.cur.id > 0, NEW time \in Int
  PROVE  /\ EndedAt(time) \in TimeObject
         /\ EndedAt(time).id = opts.cur.id
         /\ EndedAt(time).id \in DOMAIN db.times
         /\ EndedAt(time).task \in DOMAIN db.tasks
  <1>1. /\ opts.cur \in TimeObject
        /\ Holds(db, opts.cur)
        /\ opts.cur.task \in DOMAIN db.tasks
    BY Running
  <1>2. /\ EndedAt(time) \in TimeObject
        /\ EndedAt(time).id = opts.cur.id
        /\ EndedAt(time).task = opts.cur.task
    BY <1>1 DEF EndedAt, TimeObject
  <1>3. QED BY <1>1, <1>2 DEF Holds

(* A poll that calls OnIdle and opens the idle dialog.                     *)
LEMMA OnTimerIdleKeepsIInv ==
  ASSUME IInv, OnTimerIdle
  PROVE  IInv'
  <1>. DEFINE p == Polled
              time == CallbackTime(clock, p.ms)
              u == StartTimer(StopTracking(p.u), clock)
              o == [opts EXCEPT !.cur = NoTime]
              d1 == StoreTime(db, EndedAt(time))
              d2 == StoreOptions(d1, o)
              dialog == IF dlg.log.id > 0 THEN dlg ELSE NewDialogData(time)
  <1>1. /\ up = TRUE /\ TimerDue(uih, clock)
        /\ p.call = "onIdle"
        /\ opts.cur.id > 0
        /\ \/ Return(d2, o, u, dialog) /\ UNCHANGED odd
           \/ Die({d1}, {})
        /\ UNCHANGED <<clock, lastInput>>
    BY DEF OnTimerIdle, IInv, TypeOK
  <1>2. p.u \in Handler /\ p.u.state = IDLE /\ time \in Int
    BY <1>1, PolledOK
  <1>. HIDE DEF p, time
  <1>3. /\ DiskOK(db) /\ db.tasks # <<>> /\ opts \in Options
        /\ dlg \in IdleDialogData
        /\ dlg.log.id > 0 => Holds(db, dlg.log) /\ dlg.log.id # opts.cur.id
        /\ clock \in Nat /\ lastInput \in Nat /\ odd \subseteq Flags
    BY <1>1, Running
  <1>4. /\ EndedAt(time) \in TimeObject
        /\ EndedAt(time).id = opts.cur.id
        /\ EndedAt(time).id \in DOMAIN db.times
        /\ EndedAt(time).task \in DOMAIN db.tasks
    BY <1>1, <1>2, CurrentEnded
  <1>5. /\ DiskOK(d1)
        /\ d1.tasks = db.tasks
        /\ Holds(d1, EndedAt(time))
        /\ \A x : Holds(db, x) /\ x.id # EndedAt(time).id => Holds(d1, x)
    BY <1>3, <1>4, RecordUpdated
  <1>6. o \in Options /\ o.cur.id = 0
    BY <1>3, NoCurrent
  <1>. HIDE DEF d1, o
  <1>7. /\ DiskOK(d2)
        /\ d2.tasks = d1.tasks /\ d2.options = <<AsOptionsRow(o)>>
        /\ \A x : Holds(d1, x) <=> Holds(d2, x)
    BY <1>5, <1>6, HoldsAfterOptions
  <1>. HIDE DEF d2
  <1>8. u \in Handler /\ u.state = IDLE /\ u.tracking = FALSE /\ Armed(u)
    <2>1. StopTracking(p.u) \in Handler
      BY <1>2, <1>3, TrackingTypes
    <2>2. StopTracking(p.u).state = IDLE /\ StopTracking(p.u).tracking = FALSE
      BY <1>2, <1>3, TrackingEffect
    <2>3. u \in Handler
      BY <1>3, <2>1, StartTimerType
    <2>4. QED BY <1>3, <2>1, <2>2, <2>3, StartTimerEffect
  <1>. HIDE DEF u
  <1>9. /\ dialog \in IdleDialogData
        /\ dialog.log.id > 0 => Holds(d2, dialog.log) /\ dialog.log.id # o.cur.id
    <2>1. CASE dlg.log.id > 0
      BY <1>3, <1>4, <1>5, <1>6, <1>7, <2>1
    <2>2. CASE ~(dlg.log.id > 0)
      <3>1. dialog = [idleTime |-> time, log |-> EndedAt(time)]
        BY <2>2 DEF NewDialogData
      <3>2. dialog \in IdleDialogData /\ dialog.log = EndedAt(time)
        BY <1>2, <1>4, <3>1 DEF IdleDialogData
      <3>3. QED BY <1>4, <1>5, <1>6, <1>7, <3>2
    <2>3. QED BY <2>1, <2>2
  <1>. HIDE DEF dialog
  <1>10. CASE Return(d2, o, u, dialog) /\ UNCHANGED odd
    <2>1. HandlerOK(u, o, dialog, odd')
      BY <1>6, <1>8 DEF HandlerOK, IDLE, USING
    <2>2. clock' = clock /\ lastInput' = lastInput /\ odd' = odd
      BY <1>1, <1>10
    <2>3. QED BY <1>3, <1>5, <1>6, <1>7, <1>8, <1>9, <1>10, <2>1, <2>2, ReturnKeepsIInv
  <1>11. CASE Die({d1}, {})
    BY <1>1, <1>3, <1>5, <1>11, DieKeepsIInv
  <1>12. QED BY <1>1, <1>10, <1>11

(* The crash timer.                                                        *)
LEMMA CheckTimerKeepsIInv ==
  ASSUME IInv, CheckTimer
  PROVE  IInv'
  <1>. DEFINE o == [opts EXCEPT !.lastCheck = Now]
              d1 == StoreOptions(db, o)
  <1>1. /\ up = TRUE
        /\ Return(d1, o, uih, dlg)
        /\ clock' = clock /\ lastInput' = lastInput /\ odd' = odd
    BY DEF CheckTimer, IInv, TypeOK
  <1>2. /\ DiskOK(db) /\ db.tasks # <<>> /\ opts \in Options
        /\ opts.cur.id > 0 => Holds(db, opts.cur)
        /\ opts.cur.id \in {0} \cup DOMAIN db.times
        /\ dlg \in IdleDialogData
        /\ dlg.log.id > 0 => Holds(db, dlg.log) /\ dlg.log.id # opts.cur.id
        /\ uih \in Handler /\ Armed(uih)
        /\ clock \in Nat /\ lastInput \in Nat /\ odd \subseteq Flags
    BY <1>1, Running
  <1>3. o \in Options /\ o.cur = opts.cur
    <2>1. Now \in Int
      BY <1>2, ClockTypes DEF Now
    <2>2. QED BY <1>2, <2>1 DEF Options
  <1>. HIDE DEF o
  <1>4. /\ DiskOK(d1)
        /\ d1.tasks = db.tasks /\ d1.options = <<AsOptionsRow(o)>>
        /\ \A x : Holds(db, x) <=> Holds(d1, x)
    BY <1>2, <1>3, HoldsAfterOptions
  <1>. HIDE DEF d1
  <1>5. HandlerOK(uih, o, dlg, odd')
    BY <1>1, <1>3 DEF IInv, HandlerMatchesRecord, HandlerOK
  <1>6. QED BY <1>1, <1>2, <1>3, <1>4, <1>5, ReturnKeepsIInv

-----------------------------------------------------------------------------
(* The answers to the idle dialog. *)

(* The handler after an answer. *)
LEMMA ResumeOK ==
  ASSUME IInv, up, NEW isIdle \in BOOLEAN
  PROVE  /\ Resume(isIdle) \in Handler
         /\ Armed(Resume(isIdle))
         /\ Resume(isIdle).state = IF isIdle THEN IDLE ELSE USING
  <1>. DEFINE v == SetIsIdle(uih, isIdle, clock)
  <1>1. uih \in Handler /\ Armed(uih) /\ clock \in Nat
    BY Running
  <1>2. v \in Handler /\ Armed(v) /\ v.state = IF isIdle THEN IDLE ELSE USING
    BY <1>1, SetIsIdleType, SetIsIdleEffect
  <1>3. Resume(isIdle) = IF opts.autoTrack THEN StartTracking(v, clock) ELSE v
    BY DEF Resume
  <1>. HIDE DEF v
  <1>4. /\ StartTracking(v, clock) \in Handler
        /\ StartTracking(v, clock).state = v.state
        /\ Armed(StartTracking(v, clock))
    BY <1>1, <1>2, TrackingTypes, TrackingEffect
  <1>5. QED BY <1>2, <1>3, <1>4

(* What every answer rests on: the dialog's record is in the file, it is   *)
(* not the one being counted, and unless tracking was switched on under    *)
(* the dialog none is.                                                     *)
LEMMA Answering ==
  ASSUME IInv, DialogOpen
  PROVE  /\ up = TRUE
         /\ dlg.log.id > 0 /\ Holds(db, dlg.log) /\ dlg.log.id # opts.cur.id
         /\ dlg.log.task \in DOMAIN db.tasks
         /\ "reenabled" \notin odd => opts.cur.id = 0
         /\ NoDialog \in IdleDialogData /\ NoDialog.log.id = 0
  <1>1. up = TRUE /\ dlg.log.id > 0
    BY DEF DialogOpen, IInv, TypeOK
  <1>2. Holds(db, dlg.log) /\ dlg.log.id # opts.cur.id /\ dlg.log.task \in DOMAIN db.tasks
    BY <1>1, Running
  <1>3. "reenabled" \notin odd => opts.cur.id = 0
    BY <1>1 DEF IInv, HandlerMatchesRecord
  <1>4. NoDialog \in IdleDialogData /\ NoDialog.log.id = 0
    BY DEF NoDialog, IdleDialogData, NoTime, TimeObject
  <1>5. QED BY <1>1, <1>2, <1>3, <1>4

(* The end of the break is an integer, and storing it touches no record    *)
(* but the dialog's.                                                       *)
LEMMA FixedLogStored ==
  ASSUME IInv, DialogOpen, NEW tod \in Nat, NEW d1, d1 = FixLogEndTime(tod)
  PROVE  /\ FixedEnd(tod) \in Int
         /\ DiskOK(d1)
         /\ d1.tasks = db.tasks /\ d1.options = db.options
         /\ \A x : Holds(db, x) /\ x.id # dlg.log.id => Holds(d1, x)
  <1>1. /\ DiskOK(db) /\ dlg \in IdleDialogData /\ dlg.log \in TimeObject
        /\ dlg.log.id \in DOMAIN db.times /\ dlg.log.task \in DOMAIN db.tasks
    BY Answering, Running DEF Holds
  <1>2. FixedEnd(tod) \in Int
    <2>1. dlg.idleTime \in Int
      BY <1>1 DEF IdleDialogData
    <2>2. dlg.idleTime % SecsPerDay \in Nat
      BY <2>1, ModType, TimeLogAssumption
    <2>3. QED BY <2>1, <2>2 DEF FixedEnd
  <1>3. /\ FixedLog(tod) \in TimeObject
        /\ FixedLog(tod).id = dlg.log.id
        /\ FixedLog(tod).task = dlg.log.task
    BY <1>1, <1>2 DEF FixedLog, TimeObject
  <1>4. CASE dlg.log.end # FixedEnd(tod)
    <2>1. d1 = StoreTime(db, FixedLog(tod))
      BY <1>4 DEF FixLogEndTime
    <2>2. QED BY <1>1, <1>2, <1>3, <2>1, RecordUpdated
  <1>5. CASE dlg.log.end = FixedEnd(tod)
    <2>1. d1 = db
      BY <1>5 DEF FixLogEndTime
    <2>2. QED BY <1>1, <1>2, <2>1
  <1>6. QED BY <1>4, <1>5

(* A picked time raises no flag but its own.                               *)
LEMMA PickFlagsType ==
  ASSUME NEW tod
  PROVE  PickFlags(tod) \in SUBSET Flags /\ "reenabled" \notin PickFlags(tod)
BY DEF PickFlags, Flags

(* "Stop counting at".                                                     *)
LEMMA ActionStopKeepsIInv ==
  ASSUME IInv, NEW tod \in TimesOfDay, ActionStop(tod)
  PROVE  IInv'
  <1>. DEFINE d1 == FixLogEndTime(tod)
              u == Resume(TRUE)
  <1>1. /\ DialogOpen
        /\ Return(d1, opts, u, NoDialog)
        /\ odd' = odd \cup PickFlags(tod)
        /\ lastInput' = clock /\ clock' = clock
    BY DEF ActionStop
  <1>2. tod \in Nat
    BY TimeLogAssumption DEF TimesOfDay
  <1>3. up = TRUE
    BY <1>1, Answering
  <1>4. /\ opts \in Options /\ db.tasks # <<>> /\ db.options = <<AsOptionsRow(opts)>>
        /\ opts.cur.id > 0 => Holds(db, opts.cur)
        /\ clock \in Nat /\ odd \subseteq Flags
    BY <1>3, Running
  <1>5. /\ DiskOK(d1)
        /\ d1.tasks = db.tasks /\ d1.options = db.options
        /\ \A x : Holds(db, x) /\ x.id # dlg.log.id => Holds(d1, x)
    BY <1>1, <1>2, FixedLogStored
  <1>6. u \in Handler /\ Armed(u) /\ u.state = IDLE
    BY <1>3, ResumeOK
  <1>. HIDE DEF d1, u
  <1>7. opts.cur.id > 0 => Holds(d1, opts.cur)
    BY <1>1, <1>4, <1>5, Answering
  <1>8. odd' \subseteq Flags /\ HandlerOK(u, opts, NoDialog, odd')
    <2>1. "reenabled" \notin odd' => opts.cur.id = 0
      BY <1>1, Answering
    <2>2. QED BY <1>1, <1>4, <1>6, <2>1, Answering, PickFlagsType DEF HandlerOK, IDLE, USING
  <1>9. NoDialog \in IdleDialogData /\ NoDialog.log.id = 0
    BY <1>1, Answering
  <1>10. clock' \in Nat /\ lastInput' \in Nat
    BY <1>1, <1>4
  <1>11. Return(d1, opts, u, NoDialog) /\ d1.tasks # <<>> /\ d1.options = <<AsOptionsRow(opts)>>
    BY <1>1, <1>4, <1>5
  <1>12. QED BY <1>4, <1>5, <1>6, <1>7, <1>8, <1>9, <1>10, <1>11, ReturnKeepsIInv

(* "Ignore this break and keep counting".                                  *)
LEMMA ActionIgnoreKeepsIInv ==
  ASSUME IInv, ActionIgnore
  PROVE  IInv'
  <1>. DEFINE o == [opts EXCEPT !.cur = dlg.log]
              d1 == StoreOptions(db, o)
              u == Resume(FALSE)
  <1>1. /\ DialogOpen
        /\ Return(d1, o, u, NoDialog)
        /\ odd' = odd
        /\ lastInput' = clock /\ clock' = clock
    BY DEF ActionIgnore
  <1>2. up = TRUE
    BY <1>1, Answering
  <1>3. /\ DiskOK(db) /\ opts \in Options /\ db.tasks # <<>>
        /\ dlg.log \in TimeObject /\ dlg.log.id > 0 /\ Holds(db, dlg.log)
        /\ clock \in Nat /\ odd \subseteq Flags
    BY <1>1, <1>2, Answering, Running
  <1>4. o \in Options /\ o.cur = dlg.log
    BY <1>3 DEF Options
  <1>. HIDE DEF o
  <1>5. /\ DiskOK(d1)
        /\ d1.tasks = db.tasks /\ d1.options = <<AsOptionsRow(o)>>
        /\ \A x : Holds(db, x) <=> Holds(d1, x)
    <2>1. o.cur.id \in DOMAIN db.times
      BY <1>3, <1>4 DEF Holds
    <2>2. QED BY <1>3, <1>4, <2>1, HoldsAfterOptions
  <1>6. u \in Handler /\ Armed(u) /\ u.state = USING
    BY <1>2, ResumeOK
  <1>. HIDE DEF d1, u
  <1>7. HandlerOK(u, o, NoDialog, odd')
    BY <1>1, <1>3, <1>4, <1>6, Answering DEF HandlerOK
  <1>8. QED BY <1>1, <1>3, <1>4, <1>5, <1>6, <1>7, Answering, ReturnKeepsIInv

(* The answers that open a record leave the handler in USING.              *)
LEMMA OpenedKeepsIInv ==
  ASSUME IInv, DialogOpen, NEW final, NEW o,
         Return(final, o, Resume(FALSE), NoDialog),
         odd' \subseteq Flags, lastInput' = clock, clock' = clock,
         DiskOK(final), final.tasks # <<>>, final.options = <<AsOptionsRow(o)>>,
         o \in Options, o.cur.id > 0, Holds(final, o.cur)
  PROVE  IInv'
  <1>. DEFINE u == Resume(FALSE)
  <1>1. up = TRUE
    BY Answering
  <1>2. clock \in Nat
    BY <1>1, Running
  <1>3. u \in Handler /\ Armed(u) /\ u.state = USING
    BY <1>1, ResumeOK
  <1>. HIDE DEF u
  <1>4. HandlerOK(u, o, NoDialog, odd')
    BY <1>3, Answering DEF HandlerOK
  <1>5. Return(final, o, u, NoDialog)
    BY DEF u
  <1>6. NoDialog \in IdleDialogData /\ NoDialog.log.id = 0
    BY Answering
  <1>7. clock' \in Nat /\ lastInput' \in Nat
    BY <1>2
  <1>8. QED BY <1>3, <1>4, <1>5, <1>6, <1>7, ReturnKeepsIInv

(* "Log this break and keep counting old task".                            *)
LEMMA ActionLogAndBackKeepsIInv ==
  ASSUME IInv, NEW tod \in TimesOfDay, NEW name \in TaskNames \cup {NoName},
         ActionLogAndBack(tod, name)
  PROVE  IInv'
  <1>. DEFINE d1 == FixLogEndTime(tod)
              d2 == StoreComboTask(d1, name)
              task == ComboTask(d1, name)
              other == [Fresh(task, FixedEnd(tod) + 1) EXCEPT !.end = Now - 1]
              d3 == StoreTime(d2, other)
              back == BackAt(other)
              o == OnReturnOpts(d3, back)
              d4 == OnReturnStored(d3, back)
              d5 == OnReturnFinal(d3, back)
  <1>1. /\ DialogOpen
        /\ \/ /\ Return(d5, o, Resume(FALSE), NoDialog)
              /\ odd' = odd \cup PickFlags(tod)
           \/ Die({d1, d2, d3, d4}, PickFlags(tod))
        /\ lastInput' = clock /\ clock' = clock
    BY DEF ActionLogAndBack
  <1>2. tod \in Nat
    BY TimeLogAssumption DEF TimesOfDay
  <1>3. up = TRUE
    BY <1>1, Answering
  <1>4. /\ opts \in Options /\ db.tasks # <<>>
        /\ clock \in Nat /\ odd \subseteq Flags
    BY <1>3, Running
  <1>5. DiskOK(d1) /\ d1.tasks # <<>> /\ FixedEnd(tod) \in Int
    BY <1>1, <1>2, <1>4, FixedLogStored
  <1>. HIDE DEF d1
  <1>6. DiskOK(d2) /\ d2.tasks # <<>> /\ task \in DOMAIN d2.tasks /\ task \in Nat
    BY <1>5, ComboTaskStored
  <1>. HIDE DEF d2, task
  <1>7. /\ other \in TimeObject
        /\ other.id = 0 /\ other.task = task
        /\ back \in Int
    <2>1. Now - 1 \in Int /\ FixedEnd(tod) + 1 \in Int
      BY <1>4, <1>5, ClockTypes DEF Now
    <2>. DEFINE x == FixedEnd(tod) + 1
                y == Now - 1
    <2>2. other = [Fresh(task, x) EXCEPT !.end = y]
      OBVIOUS
    <2>. HIDE DEF x, y
    <2>3. x \in Int /\ y \in Int
      BY <2>1 DEF x, y
    <2>4. other \in TimeObject /\ other.id = 0 /\ other.task = task /\ other.end = y
      BY <1>6, <2>2, <2>3 DEF Fresh, TimeObject
    <2>5. back = y + 1
      BY <2>4 DEF BackAt
    <2>6. QED BY <2>3, <2>4, <2>5
  <1>. HIDE DEF other, back
  <1>8. DiskOK(d3) /\ d3.tasks # <<>>
    BY <1>6, <1>7, InsertTime
  <1>. HIDE DEF d3
  <1>9. /\ DiskOK(d4) /\ DiskOK(d5) /\ d5.tasks # <<>>
        /\ d5.options = <<AsOptionsRow(o)>>
        /\ o \in Options /\ o.cur.id > 0 /\ Holds(d5, o.cur)
    BY <1>4, <1>7, <1>8, OnReturnOK
  <1>. HIDE DEF d4, d5, o
  <1>10. CASE /\ Return(d5, o, Resume(FALSE), NoDialog)
              /\ odd' = odd \cup PickFlags(tod)
    <2>1. odd' \subseteq Flags
      BY <1>4, <1>10, PickFlagsType
    <2>2. QED BY <1>1, <1>9, <1>10, <2>1, OpenedKeepsIInv
  <1>11. CASE Die({d1, d2, d3, d4}, PickFlags(tod))
    <2>1. \A image \in {d1, d2, d3, d4} : DiskOK(image)
      BY <1>5, <1>6, <1>8, <1>9
    <2>2. clock' \in Nat /\ lastInput' \in Nat
      BY <1>1, <1>4
    <2>3. QED BY <1>4, <1>11, <2>1, <2>2, PickFlagsType, DieKeepsIInv
  <1>12. QED BY <1>1, <1>10, <1>11

(* "Stop old task and log this time as the new task".                      *)
LEMMA ActionSwitchKeepsIInv ==
  ASSUME IInv, NEW tod \in TimesOfDay, NEW name \in TaskNames \cup {NoName},
         ActionSwitch(tod, name)
  PROVE  IInv'
  <1>. DEFINE d1 == FixLogEndTime(tod)
              d2 == StoreComboTask(d1, name)
              task == ComboTask(d1, name)
              other == Fresh(task, FixedEnd(tod) + 1)
              d3 == StoreTime(d2, other)
              o == [opts EXCEPT !.cur = Stored(d2, other)]
              d4 == StoreOptions(d3, o)
  <1>1. /\ DialogOpen
        /\ \/ /\ Return(d4, o, Resume(FALSE), NoDialog)
              /\ odd' = odd \cup PickFlags(tod)
           \/ Die({d1, d2, d3}, PickFlags(tod))
        /\ lastInput' = clock /\ clock' = clock
    BY DEF ActionSwitch
  <1>2. tod \in Nat
    BY TimeLogAssumption DEF TimesOfDay
  <1>3. up = TRUE
    BY <1>1, Answering
  <1>4. /\ opts \in Options /\ db.tasks # <<>>
        /\ clock \in Nat /\ odd \subseteq Flags
    BY <1>3, Running
  <1>5. DiskOK(d1) /\ d1.tasks # <<>> /\ FixedEnd(tod) \in Int
    BY <1>1, <1>2, <1>4, FixedLogStored
  <1>. HIDE DEF d1
  <1>6. DiskOK(d2) /\ d2.tasks # <<>> /\ task \in DOMAIN d2.tasks /\ task \in Nat
    BY <1>5, ComboTaskStored
  <1>. HIDE DEF d2, task
  <1>7. other \in TimeObject /\ other.id = 0 /\ other.task = task
    BY <1>5, <1>6, FreshType
  <1>. HIDE DEF other
  <1>8. /\ DiskOK(d3) /\ DiskOK(d4) /\ d4.tasks = d2.tasks
        /\ d4.options = <<AsOptionsRow(o)>>
        /\ o \in Options /\ o.cur.id > 0 /\ Holds(d4, o.cur)
    BY <1>4, <1>6, <1>7, RecordOpened
  <1>. HIDE DEF d3, d4, o
  <1>9. CASE /\ Return(d4, o, Resume(FALSE), NoDialog)
             /\ odd' = odd \cup PickFlags(tod)
    <2>1. odd' \subseteq Flags
      BY <1>4, <1>9, PickFlagsType
    <2>2. QED BY <1>1, <1>6, <1>8, <1>9, <2>1, OpenedKeepsIInv
  <1>10. CASE Die({d1, d2, d3}, PickFlags(tod))
    <2>1. \A image \in {d1, d2, d3} : DiskOK(image)
      BY <1>5, <1>6, <1>8
    <2>2. clock' \in Nat /\ lastInput' \in Nat
      BY <1>1, <1>4
    <2>3. QED BY <1>4, <1>10, <2>1, <2>2, PickFlagsType, DieKeepsIInv
  <1>11. QED BY <1>1, <1>9, <1>10

-----------------------------------------------------------------------------
(* The Options dialog. *)

(* What OK does to the handler, in its three cases. *)
LEMMA ApplyOptionsOK ==
  ASSUME IInv, up, NEW o \in Options
  PROVE  /\ ApplyOptions(o) \in Handler /\ Armed(ApplyOptions(o))
         /\ o.autoTrack = opts.autoTrack =>
              /\ ApplyOptions(o).state = uih.state
              /\ ApplyOptions(o).tracking = uih.tracking
         /\ opts.autoTrack /\ ~o.autoTrack =>
              /\ ApplyOptions(o).state = uih.state
              /\ ApplyOptions(o).tracking = FALSE
         /\ ~opts.autoTrack /\ o.autoTrack =>
              ApplyOptions(o).state = IF opts.cur.id <= 0 THEN IDLE ELSE USING
  <1>. DEFINE v == SetThresholds(uih, o.thr, clock)
              w == SetIsIdle(v, opts.cur.id <= 0, clock)
              a == ApplyOptions(o)
  <1>1. /\ uih \in Handler /\ Armed(uih) /\ clock \in Nat
        /\ opts \in Options /\ opts.cur \in TimeObject
    BY Running
  <1>2. o.thr \in Thresholds /\ o.autoTrack \in BOOLEAN /\ opts.autoTrack \in BOOLEAN
    BY <1>1 DEF Options
  <1>3. v \in Handler
    BY <1>1, <1>2, SetThresholdsType
  <1>4. v.state = uih.state /\ v.tracking = uih.tracking /\ Armed(v)
    BY <1>1, <1>2, SetThresholdsEffect
  <1>5. /\ o.autoTrack = opts.autoTrack => a = v
        /\ opts.autoTrack /\ ~o.autoTrack => a = StopTracking(v)
        /\ ~opts.autoTrack /\ o.autoTrack => a = StartTracking(w, clock)
    BY <1>2 DEF ApplyOptions
  <1>. HIDE DEF v
  <1>6. (opts.cur.id <= 0) \in BOOLEAN
    BY <1>1 DEF TimeObject
  <1>7. w \in Handler
    BY <1>1, <1>3, <1>6, SetIsIdleType
  <1>8. Armed(w) /\ w.state = IF opts.cur.id <= 0 THEN IDLE ELSE USING
    BY <1>1, <1>3, <1>4, <1>6, SetIsIdleEffect
  <1>. HIDE DEF w, a
  <1>9. /\ StopTracking(v) \in Handler /\ Armed(StopTracking(v))
        /\ StopTracking(v).state = v.state /\ StopTracking(v).tracking = FALSE
    BY <1>1, <1>3, TrackingTypes, TrackingEffect
  <1>10. /\ StartTracking(w, clock) \in Handler /\ Armed(StartTracking(w, clock))
         /\ StartTracking(w, clock).state = w.state
    BY <1>1, <1>7, TrackingTypes, TrackingEffect
  <1>11. CASE o.autoTrack = opts.autoTrack
    BY <1>3, <1>4, <1>5, <1>11 DEF a
  <1>12. CASE opts.autoTrack /\ ~o.autoTrack
    BY <1>4, <1>5, <1>9, <1>12 DEF a
  <1>13. CASE ~opts.autoTrack /\ o.autoTrack
    BY <1>5, <1>8, <1>10, <1>13 DEF a
  <1>14. QED BY <1>2, <1>11, <1>12, <1>13

(* The OK of the Options dialog, also under the idle dialog.               *)
LEMMA OptionsOKKeepsIInv ==
  ASSUME IInv, NEW autoTrack \in BOOLEAN, NEW thr \in ThrChoices,
         OptionsOK(autoTrack, thr)
  PROVE  IInv'
  <1>. DEFINE o == [opts EXCEPT !.autoTrack = autoTrack, !.thr = thr]
              d1 == StoreOptions(db, o)
              u == ApplyOptions(o)
              new == IF Reenables(autoTrack) THEN {"reenabled", "everReenabled"} ELSE {}
  <1>1. /\ up = TRUE
        /\ Return(d1, o, u, dlg)
        /\ odd' = odd \cup new
        /\ lastInput' = clock /\ clock' = clock
    BY DEF OptionsOK, IInv, TypeOK
  <1>2. /\ DiskOK(db) /\ db.tasks # <<>> /\ opts \in Options /\ opts.cur \in TimeObject
        /\ opts.cur.id > 0 => Holds(db, opts.cur)
        /\ opts.cur.id \in {0} \cup DOMAIN db.times
        /\ dlg \in IdleDialogData
        /\ dlg.log.id > 0 => Holds(db, dlg.log) /\ dlg.log.id # opts.cur.id
        /\ clock \in Nat /\ odd \subseteq Flags
    BY <1>1, Running
  <1>3. o \in Options /\ o.cur = opts.cur /\ o.autoTrack = autoTrack
    BY <1>2, TimeLogAssumption DEF Options
  <1>. HIDE DEF o
  <1>4. /\ DiskOK(d1)
        /\ d1.tasks = db.tasks /\ d1.options = <<AsOptionsRow(o)>>
        /\ \A x : Holds(db, x) <=> Holds(d1, x)
    BY <1>2, <1>3, HoldsAfterOptions
  <1>. HIDE DEF d1
  <1>5. u \in Handler /\ Armed(u)
    BY <1>1, <1>3, ApplyOptionsOK
  <1>6. u.state = USING => o.cur.id > 0
    <2>1. uih.state = USING => opts.cur.id > 0
      BY <1>1 DEF IInv, HandlerMatchesRecord
    <2>2. opts.cur.id > 0 \/ opts.cur.id <= 0
      BY <1>2 DEF TimeObject
    <2>3. \/ u.state = uih.state
          \/ u.state = IF opts.cur.id <= 0 THEN IDLE ELSE USING
      BY <1>1, <1>2, <1>3, ApplyOptionsOK DEF Options
    <2>4. QED BY <1>3, <2>1, <2>2, <2>3 DEF IDLE, USING
  <1>7. ASSUME "reenabled" \notin odd'
        PROVE  /\ u.tracking /\ o.cur.id > 0 => u.state = USING
               /\ dlg.log.id > 0 => ~u.tracking /\ o.cur.id = 0
    <2>1. "reenabled" \notin odd /\ ~Reenables(autoTrack)
      BY <1>1, <1>7
    <2>2. /\ uih.tracking /\ opts.cur.id > 0 => uih.state = USING
          /\ dlg.log.id > 0 => ~uih.tracking /\ opts.cur.id = 0
      BY <1>1, <2>1 DEF IInv, HandlerMatchesRecord
    <2>3. CASE o.autoTrack = opts.autoTrack
      BY <1>1, <1>3, <2>2, <2>3, ApplyOptionsOK
    <2>4. CASE opts.autoTrack /\ ~o.autoTrack
      BY <1>1, <1>3, <2>2, <2>4, ApplyOptionsOK
    <2>5. CASE ~opts.autoTrack /\ o.autoTrack
      <3>1. ~(dlg.log.id > 0)
        BY <1>3, <2>1, <2>5 DEF Reenables
      <3>2. u.state = IF opts.cur.id <= 0 THEN IDLE ELSE USING
        BY <1>1, <1>3, <2>5, ApplyOptionsOK
      <3>3. opts.cur.id > 0 => ~(opts.cur.id <= 0)
        BY <1>2 DEF TimeObject
      <3>4. QED BY <1>3, <3>1, <3>2, <3>3
    <2>6. o.autoTrack \in BOOLEAN /\ opts.autoTrack \in BOOLEAN
      BY <1>2, <1>3 DEF Options
    <2>7. QED BY <2>3, <2>4, <2>5, <2>6
  <1>. HIDE DEF u
  <1>8. HandlerOK(u, o, dlg, odd')
    BY <1>6, <1>7 DEF HandlerOK
  <1>9. odd' \subseteq Flags /\ clock' \in Nat /\ lastInput' \in Nat
    BY <1>1, <1>2 DEF Flags
  <1>10. Return(d1, o, u, dlg)
    BY <1>1
  <1>. HIDE DEF new
  <1>11. /\ o.cur.id > 0 => Holds(d1, o.cur)
         /\ dlg.log.id > 0 => Holds(d1, dlg.log) /\ dlg.log.id # o.cur.id
         /\ d1.tasks # <<>>
    BY <1>2, <1>3, <1>4
  <1>12. QED BY <1>2, <1>3, <1>4, <1>5, <1>8, <1>9, <1>10, <1>11, ReturnKeepsIInv

-----------------------------------------------------------------------------
(* The end of the process, and the world. *)

(* WM_CLOSE, complete or cut short.                                        *)
LEMMA CloseKeepsIInv ==
  ASSUME IInv, Close
  PROVE  IInv'
  <1>. DEFINE ended == EndedAt(Now)
              d1 == StoreTime(db, ended)
              o == [opts EXCEPT !.cur = NoTime]
              d2 == StoreOptions(d1, o)
  <1>1. /\ up = TRUE
        /\ \/ /\ db' = IF opts.cur.id > 0 THEN d2 ELSE db
              /\ odd' = odd \ {"reenabled"}
              /\ Exit
           \/ opts.cur.id > 0 /\ Die({d1}, {})
        /\ lastInput' = clock /\ clock' = clock
    BY DEF Close, IInv, TypeOK, EndedAt
  <1>2. DiskOK(db) /\ opts \in Options /\ clock \in Nat /\ odd \subseteq Flags
    BY <1>1, Running
  <1>3. clock' \in Nat /\ lastInput' \in Nat
    BY <1>1, <1>2
  <1>4. opts.cur.id > 0 => DiskOK(d1)
    <2>1. SUFFICES ASSUME opts.cur.id > 0
                   PROVE  DiskOK(d1)
      OBVIOUS
    <2>2. Now \in Int
      BY <1>2, ClockTypes DEF Now
    <2>3. /\ ended \in TimeObject
          /\ ended.id \in DOMAIN db.times
          /\ ended.task \in DOMAIN db.tasks
      BY <1>1, <2>1, <2>2, CurrentEnded
    <2>4. QED BY <1>2, <2>3, UpdateTime
  <1>5. o \in Options /\ o.cur.id = 0
    BY <1>2, NoCurrent
  <1>. HIDE DEF d1, o
  <1>6. opts.cur.id > 0 => DiskOK(d2)
    BY <1>4, <1>5, OptionsStored
  <1>. HIDE DEF d2
  <1>7. CASE /\ db' = IF opts.cur.id > 0 THEN d2 ELSE db
             /\ odd' = odd \ {"reenabled"}
             /\ Exit
    BY <1>2, <1>3, <1>6, <1>7, ExitKeepsIInv
  <1>8. CASE opts.cur.id > 0 /\ Die({d1}, {})
    BY <1>2, <1>3, <1>4, <1>8, DieKeepsIInv
  <1>9. QED BY <1>1, <1>7, <1>8

(* The process ends between two handlers.                                  *)
LEMMA CrashKeepsIInv ==
  ASSUME IInv, Crash
  PROVE  IInv'
  <1>1. /\ up = TRUE
        /\ Exit
        /\ odd' = odd \ {"reenabled"}
        /\ clock' = clock /\ lastInput' = lastInput /\ db' = db
    BY DEF Crash, IInv, TypeOK
  <1>2. /\ DiskOK(db) /\ odd \subseteq Flags
        /\ clock \in Nat /\ lastInput \in Nat
    BY <1>1, Running
  <1>3. DiskOK(db') /\ odd' \subseteq Flags /\ clock' \in Nat /\ lastInput' \in Nat
    BY <1>1, <1>2
  <1>4. QED BY <1>1, <1>3, ExitKeepsIInv

(* The world moves the clock and the time of the last input and nothing    *)
(* else.                                                                   *)
LEMMA WorldKeepsIInv ==
  ASSUME IInv, Tick \/ Input \/ UNCHANGED vars
  PROVE  IInv'
  <1>1. /\ db' = db /\ up' = up /\ opts' = opts /\ uih' = uih
        /\ dlg' = dlg /\ odd' = odd
    BY DEF Tick, Input, vars
  <1>2. TypeOK /\ clock' \in Nat /\ lastInput' \in Nat
    BY DEF IInv, TypeOK, Tick, Input, vars
  <1>3. TypeOK'
    BY <1>1, <1>2 DEF TypeOK
  <1>4. PointerIsDurable' /\ MemoryMatchesDisk' /\ DialogMatchesDisk'
    BY <1>1 DEF IInv, PointerIsDurable, MemoryMatchesDisk, DialogMatchesDisk,
                DialogOpen, AsRow, AsOptionsRow
  <1>5. HandlerMatchesRecord' /\ DefaultTaskExists' /\ OneOptionsRow' /\ Armed(uih)'
    BY <1>1 DEF IInv, HandlerMatchesRecord, DefaultTaskExists, OneOptionsRow, Armed,
                USING, NoTimer
  <1>6. QED BY <1>3, <1>4, <1>5 DEF IInv

-----------------------------------------------------------------------------
(* The theorems. *)

(* Before the first start.                                                 *)
LEMMA InitIInv == Init => IInv
  <1>1. SUFFICES ASSUME Init PROVE IInv
    OBVIOUS
  <1>2. /\ clock = 0 /\ lastInput = 0 /\ db = EmptyDatabase /\ up = FALSE
        /\ opts = DefaultOptions /\ uih = NewHandler /\ dlg = NoDialog /\ odd = {}
    BY <1>1 DEF Init
  <1>3. /\ EmptyDatabase \in Database /\ EmptyDatabase.options = <<>>
        /\ EmptyDatabase.times = <<>>
    BY DEF EmptyDatabase, Database
  <1>4. DefaultOptions \in Options /\ NoDialog \in IdleDialogData
    BY TimeLogAssumption DEF DefaultOptions, Options, NoDialog, IdleDialogData, NoTime, TimeObject
  <1>5. NewHandler \in Handler /\ Armed(NewHandler)
    BY NewHandlerType DEF Armed, NewHandler
  <1>6. TypeOK
    <2>1. odd \subseteq Flags
      BY <1>2
    <2>2. clock \in Nat /\ lastInput \in Nat
      BY <1>2
    <2>3. QED BY <1>2, <1>3, <1>4, <1>5, <2>1, <2>2 DEF TypeOK
  <1>7. PointerIsDurable /\ OneOptionsRow
    BY <1>2, <1>3 DEF PointerIsDurable, OneOptionsRow
  <1>8. MemoryMatchesDisk /\ DialogMatchesDisk /\ HandlerMatchesRecord /\ DefaultTaskExists
    BY <1>2 DEF MemoryMatchesDisk, DialogMatchesDisk, DialogOpen, HandlerMatchesRecord,
                DefaultTaskExists
  <1>9. QED BY <1>2, <1>5, <1>6, <1>7, <1>8 DEF IInv

(* Every step keeps the invariant.                                         *)
LEMMA NextKeepsIInv == IInv /\ [Next]_vars => IInv'
  <1>1. SUFFICES ASSUME IInv, [Next]_vars PROVE IInv'
    OBVIOUS
  <1>2. CASE Start
    BY <1>1, <1>2, StartKeepsIInv
  <1>3. CASE OnTimerQuiet
    BY <1>1, <1>3, OnTimerQuietKeepsIInv
  <1>4. CASE OnTimerReturn
    BY <1>1, <1>4, OnTimerReturnKeepsIInv
  <1>5. CASE OnTimerIdle
    BY <1>1, <1>5, OnTimerIdleKeepsIInv
  <1>6. CASE CheckTimer
    BY <1>1, <1>6, CheckTimerKeepsIInv
  <1>7. ASSUME NEW tod \in TimesOfDay, ActionStop(tod) PROVE IInv'
    BY <1>1, <1>7, ActionStopKeepsIInv
  <1>8. CASE ActionIgnore
    BY <1>1, <1>8, ActionIgnoreKeepsIInv
  <1>9. ASSUME NEW tod \in TimesOfDay, NEW name \in TaskNames \cup {NoName},
               ActionLogAndBack(tod, name)
        PROVE  IInv'
    BY <1>1, <1>9, ActionLogAndBackKeepsIInv
  <1>10. ASSUME NEW tod \in TimesOfDay, NEW name \in TaskNames \cup {NoName},
                ActionSwitch(tod, name)
         PROVE  IInv'
    BY <1>1, <1>10, ActionSwitchKeepsIInv
  <1>11. ASSUME NEW autoTrack \in BOOLEAN, NEW thr \in ThrChoices,
                OptionsOK(autoTrack, thr)
         PROVE  IInv'
    BY <1>1, <1>11, OptionsOKKeepsIInv
  <1>12. CASE Close
    BY <1>1, <1>12, CloseKeepsIInv
  <1>13. CASE Crash
    BY <1>1, <1>13, CrashKeepsIInv
  <1>14. CASE Tick \/ Input \/ UNCHANGED vars
    BY <1>1, <1>14, WorldKeepsIInv
  <1>15. QED BY <1>1, <1>2, <1>3, <1>4, <1>5, <1>6, <1>7, <1>8, <1>9, <1>10,
                <1>11, <1>12, <1>13, <1>14 DEF Next

(* IInv is an invariant of the program: it holds before the first start,   *)
(* and every handler, and every point at which a handler can be cut short, *)
(* keeps it.                                                               *)
THEOREM Invariance == Spec => []IInv
BY InitIInv, NextKeepsIInv, PTL DEF Spec

(* Every variable always holds what it is declared to hold. *)
THEOREM TypeCorrect == Spec => []TypeOK
  <1>1. IInv => TypeOK
    BY DEF IInv
  <1>2. QED BY <1>1, Invariance, PTL

(* The file can be loaded again after a crash at any point of any handler: *)
(* Options::query never meets a pointer to a record, or a record of a      *)
(* task, that is not there.                                                *)
THEOREM AlwaysLoadable == Spec => []PointerIsDurable
  <1>1. IInv => PointerIsDurable
    BY DEF IInv
  <1>2. QED BY <1>1, Invariance, PTL

(* Between handlers, the options row and the record being counted are in   *)
(* the file as they are in memory.                                         *)
THEOREM MemoryIsStored == Spec => []MemoryMatchesDisk
  <1>1. IInv => MemoryMatchesDisk
    BY DEF IInv
  <1>2. QED BY <1>1, Invariance, PTL

(* The copy of the closed record in the idle dialog is never stale, so the *)
(* answer's FixLogEndTime and ActionIgnore never overwrite a newer record. *)
THEOREM DialogIsFresh == Spec => []DialogMatchesDisk
  <1>1. IInv => DialogMatchesDisk
    BY DEF IInv
  <1>2. QED BY <1>1, Invariance, PTL

(* The idle handler's state agrees with what is being counted, unless      *)
(* tracking was switched on under an open idle dialog.                     *)
THEOREM HandlerAgrees == Spec => []HandlerMatchesRecord
  <1>1. IInv => HandlerMatchesRecord
    BY DEF IInv
  <1>2. QED BY <1>1, Invariance, PTL

-----------------------------------------------------------------------------
(***************************************************************************)
(* Part 2.  TimeLog implements WorkLog, for all values of the constants.   *)
(***************************************************************************)

-----------------------------------------------------------------------------
(* The refinement mapping, and what WorkLog's actions say of the file. *)

PointerOf(d) == IF d.options = <<>> THEN 0 ELSE d.options[1].cur

Asked == dlg.log.id
Forced == "reenabled" \in odd

(* From a to b, record i may have got another end, and n records are new. *)
Grown(a, b, i, n) ==
  /\ Len(b) = Len(a) + n
  /\ \A j \in DOMAIN a :
       IF j = i THEN b[j] = [a[j] EXCEPT !.end = b[j].end] ELSE b[j] = a[j]

(* The image logs the break the user was asked about, with n new records.  *)
Logged(d, n) ==
  LET new == Len(db.times) + 1 IN
  /\ Grown(db.times, d.times, Asked, n)
  /\ n >= 1 => d.times[new].start = d.times[Asked].end + 1
  /\ n = 2 => d.times[new + 1].start = d.times[new].end + 1

Unfinished(d) == d.times[Len(d.times)].end = 0

(* An image a handler may leave behind when it is cut short. *)
CutOff(d) ==
  /\ PointerOf(d) = PointerOf(db)
  /\ \/ d.times = db.times
     \/ PointerOf(db) > 0 /\ Grown(db.times, d.times, PointerOf(db), 0)
     \/ (PointerOf(db) = 0 \/ Forced) /\ Grown(db.times, d.times, 0, 1) /\ Unfinished(d)
     \/ Asked > 0 /\ \E n \in 0 .. 2 : Logged(d, n)

(* Nothing is asked of, or known to, a program that does not run. *)
Forgotten == ~up => Asked = 0 /\ ~Forced

-----------------------------------------------------------------------------
(* What a store does to the records. *)

(* A record that is stored again with another end is the only one changed. *)
LEMMA EndStored ==
  ASSUME NEW d, DiskOK(d), NEW t \in TimeObject, t.task \in DOMAIN d.tasks,
         NEW x, Holds(d, x), x.id = t.id, x.task = t.task, x.start = t.start
  PROVE  /\ Grown(d.times, StoreTime(d, t).times, t.id, 0)
         /\ StoreTime(d, t).times[t.id].end = t.end
  <1>. DEFINE s == [d.times EXCEPT ![t.id] = AsRow(t)]
  <1>1. d \in Database /\ d.times \in Seq(TimeRow)
    BY DEF DiskOK, Database
  <1>2. t.id \in DOMAIN d.times /\ t.id \in 1 .. Len(d.times) /\ d.times[t.id] = AsRow(x)
    BY <1>1, DatabaseDomains DEF Holds
  <1>3. StoreTime(d, t).times = s
    <2>1. t.id > 0
      BY <1>1, <1>2, DatabaseDomains
    <2>2. QED BY <1>1, <2>1 DEF StoreTime, Database
  <1>4. /\ Len(s) = Len(d.times)
        /\ s[t.id] = AsRow(t)
        /\ \A i \in DOMAIN d.times : i # t.id => s[i] = d.times[i]
    BY <1>1, <1>2, AsRowType, ExceptSeq
  <1>. HIDE DEF s
  <1>5. s[t.id] = [d.times[t.id] EXCEPT !.end = s[t.id].end] /\ s[t.id].end = t.end
    BY <1>2, <1>4 DEF AsRow
  <1>6. Len(d.times) \in Nat
    BY <1>1, DatabaseDomains
  <1>7. QED BY <1>3, <1>4, <1>5, <1>6 DEF Grown

(* A new record comes last, and is the only change. *)
LEMMA RowAdded ==
  ASSUME NEW d, DiskOK(d), NEW t \in TimeObject, t.id = 0, t.task \in DOMAIN d.tasks,
         NEW e, e = StoreTime(d, t)
  PROVE  /\ Len(e.times) = Len(d.times) + 1
         /\ e.times[Len(d.times) + 1] = AsRow(t)
         /\ \A i \in DOMAIN d.times : e.times[i] = d.times[i]
         /\ PointerOf(e) = PointerOf(d)
         /\ Stored(d, t).id = Len(d.times) + 1
  <1>1. d \in Database /\ d.times \in Seq(TimeRow)
    BY DEF DiskOK, Database
  <1>2. e.times = Append(d.times, AsRow(t))
    BY <1>1 DEF StoreTime, Database
  <1>3. Len(e.times) = Len(d.times) + 1
    BY <1>1, <1>2, AsRowType, AppendProperties
  <1>4. /\ e.options = d.options
        /\ e.times[Len(d.times) + 1] = AsRow(t)
        /\ \A i \in DOMAIN d.times : e.times[i] = d.times[i]
        /\ Stored(d, t).id = Len(d.times) + 1
    BY InsertTime
  <1>5. QED BY <1>3, <1>4 DEF PointerOf

(* What is appended to an image that Grown describes. *)
LEMMA GrownFurther ==
  ASSUME NEW a \in Seq(TimeRow), NEW b \in Seq(TimeRow), NEW c, NEW i, NEW n \in Nat,
         Grown(a, b, i, n), Len(c) = Len(b) + 1, \A j \in DOMAIN b : c[j] = b[j]
  PROVE  Grown(a, c, i, n + 1)
  <1>1. /\ Len(a) \in Nat /\ DOMAIN a = 1 .. Len(a)
        /\ Len(b) \in Nat /\ DOMAIN b = 1 .. Len(b)
    BY LenProperties
  <1>2. \A j \in DOMAIN a : c[j] = b[j]
    BY <1>1 DEF Grown
  <1>3. QED BY <1>1, <1>2 DEF Grown

(* Nothing has changed: Grown with no new record, of whatever record. *)
LEMMA NotGrown ==
  ASSUME NEW a \in Seq(TimeRow), NEW i
  PROVE  Grown(a, a, i, 0)
  <1>1. Len(a) \in Nat
    BY LenProperties
  <1>2. \A j \in DOMAIN a : a[j] \in TimeRow
    BY ElementOfSeq, LenProperties
  <1>3. \A r \in TimeRow : r = [r EXCEPT !.end = r.end]
    BY DEF TimeRow
  <1>4. QED BY <1>1, <1>2, <1>3 DEF Grown

(* The two stores of OnReturn. *)
LEMMA OnReturnAdds ==
  ASSUME NEW d, DiskOK(d), d.tasks # <<>>, opts \in Options, NEW time \in Int,
         NEW e, e = OnReturnStored(d, time),
         NEW f, f = OnReturnFinal(d, time)
  PROVE  /\ Len(e.times) = Len(d.times) + 1
         /\ e.times[Len(d.times) + 1].start = time
         /\ e.times[Len(d.times) + 1].end = 0
         /\ \A i \in DOMAIN d.times : e.times[i] = d.times[i]
         /\ PointerOf(e) = PointerOf(d)
         /\ f.times = e.times
         /\ PointerOf(f) = Len(d.times) + 1
         /\ OnReturnOpts(d, time).cur.id = Len(d.times) + 1
  <1>. DEFINE t == Fresh(1, time)
              o == OnReturnOpts(d, time)
  <1>1. t \in TimeObject /\ t.id = 0 /\ t.task = 1
    BY FreshType
  <1>2. t.start = time /\ t.end = 0
    BY DEF Fresh
  <1>. HIDE DEF t
  <1>3. t.task \in DOMAIN d.tasks
    BY <1>1, DatabaseDomains DEF DiskOK
  <1>4. e = StoreTime(d, t)
    BY DEF OnReturnStored, t
  <1>5. /\ Len(e.times) = Len(d.times) + 1
        /\ e.times[Len(d.times) + 1] = AsRow(t)
        /\ \A i \in DOMAIN d.times : e.times[i] = d.times[i]
        /\ PointerOf(e) = PointerOf(d)
        /\ Stored(d, t).id = Len(d.times) + 1
    BY <1>1, <1>3, <1>4, RowAdded
  <1>6. e.times[Len(d.times) + 1].start = time /\ e.times[Len(d.times) + 1].end = 0
    BY <1>2, <1>5 DEF AsRow
  <1>7. o = [opts EXCEPT !.cur = Stored(d, t)]
    BY DEF OnReturnOpts, t
  <1>8. o.cur.id = Len(d.times) + 1
    BY <1>5, <1>7 DEF Options
  <1>9. f = StoreOptions(e, o)
    BY DEF OnReturnFinal
  <1>10. o \in Options /\ DiskOK(e)
    BY OnReturnOK
  <1>. HIDE DEF o
  <1>11. f.times = e.times /\ f.options = <<AsOptionsRow(o)>>
    BY <1>9, <1>10 DEF StoreOptions, DiskOK, Database
  <1>12. f.options # <<>> /\ f.options[1].cur = o.cur.id
    BY <1>10, <1>11 DEF AsOptionsRow, Options
  <1>13. PointerOf(f) = Len(d.times) + 1
    BY <1>8, <1>12 DEF PointerOf
  <1>14. QED BY <1>5, <1>6, <1>8, <1>11, <1>13 DEF o

-----------------------------------------------------------------------------
(* How handlers end, in WorkLog's terms. *)

(* In a program that runs, the file's pointer is the one in memory. *)
LEMMA PointerInMemory ==
  ASSUME IInv, up
  PROVE  /\ PointerOf(db) = opts.cur.id
         /\ db.times \in Seq(TimeRow) /\ Len(db.times) \in Nat
         /\ DOMAIN db.times = 1 .. Len(db.times)
         /\ Asked \in Nat /\ opts.cur.id \in Nat
         /\ ~Forced => (Asked > 0 => opts.cur.id = 0)
  <1>1. /\ DiskOK(db) /\ db.options = <<AsOptionsRow(opts)>> /\ opts \in Options
        /\ opts.cur \in TimeObject /\ dlg.log \in TimeObject
    BY Running
  <1>2. db.options # <<>> /\ db.options[1].cur = opts.cur.id
    BY <1>1 DEF AsOptionsRow, Options
  <1>3. db.times \in Seq(TimeRow)
    BY <1>1 DEF DiskOK, Database
  <1>4. ~Forced => (Asked > 0 => opts.cur.id = 0)
    BY DEF IInv, HandlerMatchesRecord, Forced, Asked
  <1>5. QED BY <1>1, <1>2, <1>3, <1>4, LenProperties DEF PointerOf, Asked, TimeObject

(* The pointer that an image with one row of options holds. *)
LEMMA PointerStored ==
  ASSUME NEW d, NEW o \in Options, d.options = <<AsOptionsRow(o)>>
  PROVE  PointerOf(d) = o.cur.id
  <1>1. d.options # <<>> /\ d.options[1].cur = o.cur.id
    BY DEF AsOptionsRow, Options
  <1>2. QED BY <1>1 DEF PointerOf

(* A handler that is cut short is a Cut if each of its images is one that  *)
(* Cut allows.                                                             *)
LEMMA DieIsCut ==
  ASSUME NEW images, NEW flags, "reenabled" \notin flags, Die(images, flags),
         \A image \in images : CutOff(image)
  PROVE  Log!Cut /\ Forgotten'
  <1>1. Exit /\ CutOff(db')
    BY DEF Die
  <1>2. dlg'.log.id = 0
    BY <1>1 DEF Exit, NoDialog, NoTime
  <1>3. "reenabled" \notin odd'
    BY DEF Die
  <1>4. Forgotten'
    BY <1>2, <1>3 DEF Forgotten, Asked, Forced
  <1>5. CASE db'.times = db.times
    BY <1>1, <1>2, <1>3, <1>4, <1>5 DEF Log!Cut, CutOff, PointerOf
  <1>6. CASE PointerOf(db) > 0 /\ Grown(db.times, db'.times, PointerOf(db), 0)
    <2>1. Log!Writes(PointerOf(db), 0)
      BY <1>6 DEF Log!Writes, Grown
    <2>2. QED BY <1>1, <1>2, <1>3, <1>4, <1>6, <2>1 DEF Log!Cut, CutOff, PointerOf
  <1>7. CASE /\ PointerOf(db) = 0 \/ Forced
             /\ Grown(db.times, db'.times, 0, 1) /\ Unfinished(db')
    <2>1. Log!Writes(0, 1) /\ Log!Unended(Len(db'.times))
      BY <1>7 DEF Log!Writes, Log!Unended, Grown, Unfinished
    <2>2. QED BY <1>1, <1>2, <1>3, <1>4, <1>7, <2>1 DEF Log!Cut, CutOff, PointerOf, Forced
  <1>8. CASE Asked > 0 /\ \E n \in 0 .. 2 : Logged(db', n)
    <2>1. \E n \in 0 .. 2 : Log!BreakLogged(n)
      BY <1>8 DEF Log!BreakLogged, Log!Writes, Log!Follows, Grown, Logged, Asked
    <2>2. QED BY <1>1, <1>2, <1>3, <1>4, <1>8, <2>1 DEF Log!Cut, CutOff, PointerOf, Asked
  <1>9. QED BY <1>1, <1>5, <1>6, <1>7, <1>8 DEF CutOff

(* A step that leaves the records, the pointer, the question and the flag  *)
(* alone is no step of WorkLog.                                            *)
LEMMA Stutters ==
  ASSUME db'.times = db.times, PointerOf(db') = PointerOf(db),
         dlg'.log.id = dlg.log.id, Forced' = Forced
  PROVE  UNCHANGED Log!vars
BY DEF Log!vars, PointerOf, Forced

-----------------------------------------------------------------------------
(* Each action is a step of WorkLog, or none. *)

(* Options are found whenever there is a row of them. *)
LEMMA OptionsAreFound ==
  ASSUME NEW d, DiskOK(d), d.options # <<>>
  PROVE  OptionsFound(d)
  <1>1. 1 \in DOMAIN d.options
    BY LenProperties, EmptySeq DEF DiskOK, Database
  <1>2. d.options[1].cur \in {0} \cup DOMAIN d.times
    BY <1>1 DEF DiskOK
  <1>3. DOMAIN d.times = 1 .. Len(d.times) /\ Len(d.times) \in Nat
    BY DatabaseDomains DEF DiskOK
  <1>4. \A i \in DOMAIN d.times : d.times[i].task \in DOMAIN d.tasks
    BY DEF DiskOK
  <1>5. QED BY <1>2, <1>3, <1>4 DEF OptionsFound

(* The images of start-up: with the default task, with the default options *)
(* if there are none, with an end of the record that was being counted,    *)
(* and with options that forget that record.                               *)
Started1 == AddDefaultTask(db)
Found == IF OptionsFound(Started1) THEN QueryOptions(Started1) ELSE DefaultOptions
Started2 == IF OptionsFound(Started1) THEN Started1 ELSE StoreOptions(Started1, Found)
Started3 ==
  IF Found.cur.id > 0 THEN StoreTime(Started2, Recovered(Found)) ELSE Started2
Cleared == [Found EXCEPT !.cur = NoTime]
Started4 ==
  IF Found.cur.id > 0 THEN StoreOptions(Started3, Cleared) ELSE Started2

(* Start-up returns with the last of them or is cut short at one before.   *)
LEMMA StartEnds ==
  ASSUME Start
  PROVE  /\ ~up /\ clock' = clock /\ lastInput' = lastInput
         /\ \/ /\ Return(Started4, Cleared, InitDialog(Cleared, clock), NoDialog)
               /\ UNCHANGED odd
            \/ Die({Started1, Started2, Started3}, {})
BY DEF Start, Started1, Found, Started2, Started3, Cleared, Started4

(* What they hold. *)
LEMMA StartStores ==
  ASSUME IInv
  PROVE  /\ Started1.times = db.times /\ Started2.times = db.times
         /\ Started1.options = db.options /\ Started3.options = Started2.options
         /\ Started2.options = <<AsOptionsRow(Found)>>
         /\ Started4.options = <<AsOptionsRow(Cleared)>>
         /\ db.options = <<AsOptionsRow(Found)>> \/ (db.options = <<>> /\ Found = DefaultOptions)
         /\ PointerOf(db) = Found.cur.id /\ PointerOf(Started1) = Found.cur.id
         /\ PointerOf(Started2) = Found.cur.id /\ PointerOf(Started3) = Found.cur.id
         /\ Found \in Options /\ Cleared \in Options /\ Cleared.cur.id = 0
         /\ DiskOK(Started3)
         /\ Found.cur.id > 0 =>
              /\ Found.cur.id \in DOMAIN db.times
              /\ db.times[Found.cur.id].start = Found.cur.start
              /\ Grown(db.times, Started3.times, Found.cur.id, 0)
              /\ Started3.times[Found.cur.id].end = Larger(Found.lastCheck, Found.cur.start + 1)
              /\ Started4.times = Started3.times /\ PointerOf(Started4) = 0
         /\ ~(Found.cur.id > 0) => Started3 = Started2 /\ Started4 = Started2
  <1>. DEFINE r == Recovered(Found)
  <1>1. DiskOK(db)
    BY DEF IInv, TypeOK, PointerIsDurable, OneOptionsRow, DiskOK
  <1>2. /\ DiskOK(Started1) /\ Started1.times = db.times /\ Started1.options = db.options
        /\ PointerOf(Started1) = PointerOf(db)
    BY <1>1, DefaultTaskAdded DEF PointerOf, Started1
  <1>3. ~OptionsFound(Started1) => Started1.options = <<>>
    BY <1>2, OptionsAreFound
  <1>4. /\ Found \in Options
        /\ Found.cur.id > 0 => Holds(Started1, Found.cur) /\ Found.cur.task \in DOMAIN Started1.tasks
        /\ PointerOf(db) = Found.cur.id
        /\ OptionsFound(Started1) => db.options = <<AsOptionsRow(Found)>>
        /\ ~OptionsFound(Started1) => db.options = <<>> /\ Found = DefaultOptions /\ Found.cur.id = 0
    <2>1. CASE OptionsFound(Started1)
      BY <1>2, <2>1, OptionsQueried, PointerStored DEF Found
    <2>2. CASE ~OptionsFound(Started1)
      BY <1>2, <1>3, <2>2, TimeLogAssumption
      DEF Found, DefaultOptions, Options, NoTime, TimeObject, PointerOf
    <2>3. QED BY <2>1, <2>2
  <1>5. /\ DiskOK(Started2) /\ Started2.tasks = Started1.tasks /\ Started2.times = db.times
        /\ Started2.options = <<AsOptionsRow(Found)>> /\ PointerOf(Started2) = Found.cur.id
    BY <1>2, <1>4, OptionsStored, PointerStored DEF Started2
  <1>6. Found.cur \in TimeObject /\ Found.cur.id \in Nat
    BY <1>4 DEF Options, TimeObject
  <1>7. /\ r \in TimeObject
        /\ r.id = Found.cur.id /\ r.task = Found.cur.task /\ r.start = Found.cur.start
        /\ r.end = Larger(Found.lastCheck, Found.cur.start + 1)
    <2>1. Larger(Found.lastCheck, Found.cur.start + 1) \in Int
      BY <1>4, <1>6 DEF Larger, Options, TimeObject
    <2>2. QED BY <1>6, <2>1 DEF Recovered, TimeObject
  <1>8. Cleared \in Options /\ Cleared.cur.id = 0
    BY <1>4 DEF Cleared, Options, NoTime, TimeObject
  <1>9. ASSUME Found.cur.id > 0
        PROVE  /\ DiskOK(Started3) /\ Started3.options = Started2.options
               /\ Found.cur.id \in DOMAIN db.times
               /\ db.times[Found.cur.id].start = Found.cur.start
               /\ Grown(db.times, Started3.times, Found.cur.id, 0)
               /\ Started3.times[Found.cur.id].end = r.end
    <2>1. Started3 = StoreTime(Started2, r)
      BY <1>9 DEF Started3
    <2>. HIDE DEF r
    <2>2. Holds(Started2, Found.cur) /\ r.task \in DOMAIN Started2.tasks
      BY <1>2, <1>4, <1>5, <1>7, <1>9 DEF Holds
    <2>3. r.id \in DOMAIN Started2.times /\ Started2.times[r.id].start = Found.cur.start
      BY <1>7, <2>2 DEF Holds, AsRow
    <2>4. DiskOK(Started3) /\ Started3.options = Started2.options
      BY <1>5, <1>7, <2>1, <2>2, <2>3, UpdateTime
    <2>5. /\ Grown(Started2.times, StoreTime(Started2, r).times, r.id, 0)
          /\ StoreTime(Started2, r).times[r.id].end = r.end
      BY <1>5, <1>7, <2>2, EndStored
    <2>6. QED BY <1>5, <1>7, <2>1, <2>3, <2>4, <2>5
  <1>10. /\ DiskOK(Started3) /\ Started3.options = Started2.options
         /\ PointerOf(Started3) = Found.cur.id
    BY <1>5, <1>9 DEF PointerOf, Started3
  <1>11. ASSUME Found.cur.id > 0
         PROVE  /\ Started4.times = Started3.times /\ Started4.options = <<AsOptionsRow(Cleared)>>
                /\ PointerOf(Started4) = 0
    <2>1. Started4 = StoreOptions(Started3, Cleared)
      BY <1>11 DEF Started4
    <2>2. QED BY <1>8, <1>10, <2>1, OptionsStored, PointerStored
  <1>12. ~(Found.cur.id > 0) => Started3 = Started2 /\ Started4 = Started2
    BY DEF Started3, Started4
  <1>13. ~(Found.cur.id > 0) => AsOptionsRow(Found) = AsOptionsRow(Cleared)
    <2>1. \A x \in Options : [[x EXCEPT !.cur = NoTime] EXCEPT !.cur = 0] = [x EXCEPT !.cur = 0]
      BY DEF Options
    <2>2. AsOptionsRow(Cleared) = [Found EXCEPT !.cur = 0]
      BY <1>4, <1>8, <2>1 DEF AsOptionsRow, Cleared
    <2>3. ~(Found.cur.id > 0) => Found.cur.id = 0
      BY <1>6
    <2>4. QED BY <2>2, <2>3 DEF AsOptionsRow
  <1>14. Started4.options = <<AsOptionsRow(Cleared)>>
    BY <1>5, <1>11, <1>12, <1>13
  <1>. HIDE DEF r
  <1>15. QED BY <1>2, <1>4, <1>5, <1>7, <1>8, <1>9, <1>10, <1>11, <1>12, <1>14

(* Start-up is a Finish if it has a record to recover, and nothing otherwise. *)
LEMMA StartMaps ==
  ASSUME IInv, Forgotten, Start
  PROVE  [Log!Next]_(Log!vars) /\ Forgotten'
  <1>1. /\ ~up
        /\ \/ /\ Return(Started4, Cleared, InitDialog(Cleared, clock), NoDialog)
              /\ UNCHANGED odd
           \/ Die({Started1, Started2, Started3}, {})
    BY StartEnds
  <1>2. Asked = 0 /\ ~Forced
    BY <1>1 DEF Forgotten
  <1>3. /\ Started1.times = db.times /\ Started2.times = db.times
        /\ PointerOf(db) = Found.cur.id /\ PointerOf(Started1) = Found.cur.id
        /\ PointerOf(Started2) = Found.cur.id /\ PointerOf(Started3) = Found.cur.id
        /\ Found.cur.id > 0 => /\ Grown(db.times, Started3.times, Found.cur.id, 0)
                               /\ Started4.times = Started3.times /\ PointerOf(Started4) = 0
        /\ ~(Found.cur.id > 0) => Started3 = Started2 /\ Started4 = Started2
    BY StartStores
  <1>4. CASE Return(Started4, Cleared, InitDialog(Cleared, clock), NoDialog) /\ UNCHANGED odd
    <2>1. /\ up' = TRUE /\ db' = Started4 /\ dlg'.log.id = 0 /\ Forced' = Forced
          /\ dlg.log.id = 0 /\ "reenabled" \notin odd'
      BY <1>2, <1>4 DEF Return, NoDialog, NoTime, Forced, Asked
    <2>2. CASE Found.cur.id > 0
      <3>1. Log!Writes(PointerOf(db), 0)
        BY <1>3, <2>1, <2>2 DEF Log!Writes, Grown
      <3>2. PointerOf(db') = 0 /\ PointerOf(db) > 0
        BY <1>3, <2>1, <2>2
      <3>3. Log!Finish
        BY <2>1, <3>1, <3>2 DEF Log!Finish, PointerOf
      <3>4. QED BY <2>1, <3>3 DEF Log!Next, Forgotten
    <2>3. CASE ~(Found.cur.id > 0)
      <3>1. UNCHANGED Log!vars
        BY <1>3, <2>1, <2>3, Stutters
      <3>2. QED BY <2>1, <3>1 DEF Forgotten
    <2>4. QED BY <2>2, <2>3
  <1>5. CASE Die({Started1, Started2, Started3}, {})
    <2>1. CutOff(Started1) /\ CutOff(Started2) /\ CutOff(Started3)
      BY <1>3 DEF CutOff
    <2>2. Log!Cut /\ Forgotten'
      BY <1>5, <2>1, DieIsCut
    <2>3. QED BY <2>2 DEF Log!Next
  <1>6. QED BY <1>1, <1>4, <1>5

(* A poll that calls OnReturn is a Begin. *)
LEMMA OnTimerReturnMaps ==
  ASSUME IInv, OnTimerReturn
  PROVE  Log!Next /\ Forgotten'
  <1>. DEFINE p == Polled
              time == CallbackTime(clock, p.ms)
              u == StartTimer(p.u, clock)
              o == OnReturnOpts(db, time)
              d1 == OnReturnStored(db, time)
              d2 == OnReturnFinal(db, time)
  <1>1. /\ up = TRUE /\ TimerDue(uih, clock)
        /\ p.call = "onReturn"
        /\ \/ Return(d2, o, u, dlg) /\ UNCHANGED odd
           \/ Die({d1}, {})
    BY DEF OnTimerReturn, IInv, TypeOK
  <1>2. uih.tracking /\ uih.state # USING /\ time \in Int
    BY <1>1, PolledOK
  <1>. HIDE DEF p, time
  <1>3. DiskOK(db) /\ db.tasks # <<>> /\ opts \in Options
    BY <1>1, Running
  <1>4. /\ PointerOf(db) = opts.cur.id
        /\ db.times \in Seq(TimeRow) /\ Len(db.times) \in Nat
        /\ DOMAIN db.times = 1 .. Len(db.times)
        /\ Asked \in Nat /\ opts.cur.id \in Nat
    BY <1>1, PointerInMemory
  <1>5. Forced \/ (PointerOf(db) = 0 /\ Asked = 0)
    BY <1>1, <1>2, <1>4 DEF IInv, HandlerMatchesRecord, Forced, Asked
  <1>6. /\ Len(d1.times) = Len(db.times) + 1
        /\ d1.times[Len(db.times) + 1].end = 0
        /\ \A i \in DOMAIN db.times : d1.times[i] = db.times[i]
        /\ PointerOf(d1) = PointerOf(db)
        /\ d2.times = d1.times
        /\ PointerOf(d2) = Len(db.times) + 1
    BY <1>2, <1>3, OnReturnAdds
  <1>. HIDE DEF d1, d2
  <1>7. Grown(db.times, d1.times, 0, 1) /\ Unfinished(d1)
    BY <1>4, <1>6 DEF Grown, Unfinished
  <1>8. CASE Return(d2, o, u, dlg) /\ UNCHANGED odd
    <2>1. up' = TRUE /\ db' = d2 /\ dlg' = dlg /\ odd' = odd
      BY <1>8 DEF Return
    <2>2. Log!Writes(0, 1) /\ Log!Unended(Len(db'.times))
      BY <1>6, <1>7, <2>1 DEF Log!Writes, Log!Unended, Grown, Unfinished
    <2>3. PointerOf(db') = Len(db'.times)
      BY <1>6, <2>1
    <2>4. Log!Begin
      BY <1>5, <2>1, <2>2, <2>3 DEF Log!Begin, PointerOf, Forced, Asked
    <2>5. QED BY <2>1, <2>4 DEF Log!Next, Forgotten
  <1>9. CASE Die({d1}, {})
    <2>1. CutOff(d1)
      BY <1>5, <1>6, <1>7 DEF CutOff
    <2>2. Log!Cut /\ Forgotten'
      BY <1>9, <2>1, DieIsCut
    <2>3. QED BY <2>2 DEF Log!Next
  <1>10. QED BY <1>1, <1>8, <1>9

(* The record being counted, stored with an end. *)
LEMMA CurrentStored ==
  ASSUME IInv, up, opts.cur.id > 0, NEW time \in Int,
         NEW d, d = StoreTime(db, EndedAt(time))
  PROVE  /\ DiskOK(d)
         /\ Grown(db.times, d.times, PointerOf(db), 0)
         /\ d.times[PointerOf(db)].end = time
         /\ PointerOf(d) = PointerOf(db)
         /\ CutOff(d)
  <1>1. /\ EndedAt(time) \in TimeObject
        /\ EndedAt(time).id = opts.cur.id
        /\ EndedAt(time).id \in DOMAIN db.times
        /\ EndedAt(time).task \in DOMAIN db.tasks
    BY CurrentEnded
  <1>2. DiskOK(db) /\ Holds(db, opts.cur) /\ opts.cur \in TimeObject
    BY Running
  <1>3. /\ EndedAt(time).task = opts.cur.task /\ EndedAt(time).start = opts.cur.start
        /\ EndedAt(time).end = time
    BY <1>2 DEF EndedAt, TimeObject
  <1>4. Grown(db.times, d.times, EndedAt(time).id, 0) /\ d.times[EndedAt(time).id].end = time
    BY <1>1, <1>2, <1>3, EndStored
  <1>5. DiskOK(d) /\ d.options = db.options
    BY <1>1, <1>2, UpdateTime
  <1>6. PointerOf(db) = opts.cur.id
    BY PointerInMemory
  <1>7. QED BY <1>1, <1>4, <1>5, <1>6 DEF PointerOf, CutOff

(* A poll that calls OnIdle and opens the dialog is a Suspend. *)
LEMMA OnTimerIdleMaps ==
  ASSUME IInv, OnTimerIdle
  PROVE  Log!Next /\ Forgotten'
  <1>. DEFINE time == CallbackTime(clock, Polled.ms)
              u == StartTimer(StopTracking(Polled.u), clock)
              o == [opts EXCEPT !.cur = NoTime]
              d1 == StoreTime(db, EndedAt(time))
              d2 == StoreOptions(d1, o)
              dialog == IF dlg.log.id > 0 THEN dlg ELSE NewDialogData(time)
  <1>1. /\ up = TRUE /\ TimerDue(uih, clock) /\ opts.cur.id > 0
        /\ \/ Return(d2, o, u, dialog) /\ UNCHANGED odd
           \/ Die({d1}, {})
    BY DEF OnTimerIdle, IInv, TypeOK
  <1>2. time \in Int
    BY <1>1, PolledOK
  <1>. HIDE DEF time
  <1>3. /\ DiskOK(d1)
        /\ Grown(db.times, d1.times, PointerOf(db), 0)
        /\ CutOff(d1)
    BY <1>1, <1>2, CurrentStored
  <1>. HIDE DEF d1
  <1>4. PointerOf(db) = opts.cur.id /\ Asked \in Nat
    BY <1>1, PointerInMemory
  <1>5. o \in Options /\ o.cur.id = 0
    BY <1>1, Running, NoCurrent
  <1>. HIDE DEF o
  <1>6. d2.times = d1.times /\ PointerOf(d2) = 0
    BY <1>3, <1>5, OptionsStored, PointerStored
  <1>. HIDE DEF d2
  <1>7. dialog.log.id = IF Asked > 0 THEN Asked ELSE PointerOf(db)
    <2>1. EndedAt(time).id = opts.cur.id
      BY <1>1, <1>2, CurrentEnded
    <2>2. QED BY <1>4, <2>1 DEF NewDialogData, Asked
  <1>. HIDE DEF dialog
  <1>8. CASE Return(d2, o, u, dialog) /\ UNCHANGED odd
    <2>1. up' = TRUE /\ db' = d2 /\ dlg' = dialog /\ odd' = odd
      BY <1>8 DEF Return
    <2>2. Log!Suspend
      BY <1>1, <1>3, <1>4, <1>6, <1>7, <2>1
      DEF Log!Suspend, Log!Writes, Grown, PointerOf, Asked
    <2>3. QED BY <2>1, <2>2 DEF Log!Next, Forgotten
  <1>9. CASE Die({d1}, {})
    <2>1. Log!Cut /\ Forgotten'
      BY <1>3, <1>9, DieIsCut
    <2>2. QED BY <2>1 DEF Log!Next
  <1>10. QED BY <1>1, <1>8, <1>9

(* The crash timer writes nothing that WorkLog sees. *)
LEMMA CheckTimerMaps ==
  ASSUME IInv, CheckTimer
  PROVE  UNCHANGED Log!vars /\ Forgotten'
  <1>. DEFINE o == [opts EXCEPT !.lastCheck = Now]
              d == StoreOptions(db, o)
  <1>1. up = TRUE /\ Return(d, o, uih, dlg) /\ odd' = odd
    BY DEF CheckTimer, IInv, TypeOK
  <1>2. DiskOK(db) /\ opts \in Options /\ opts.cur.id \in {0} \cup DOMAIN db.times
    BY <1>1, Running
  <1>3. o \in Options /\ o.cur = opts.cur
    <2>1. clock \in Nat
      BY <1>1, Running
    <2>2. Now \in Int
      BY <2>1, ClockTypes DEF Now
    <2>3. QED BY <1>2, <2>2 DEF Options
  <1>. HIDE DEF o
  <1>4. d.times = db.times /\ PointerOf(d) = PointerOf(db)
    BY <1>1, <1>2, <1>3, OptionsStored, PointerStored, PointerInMemory
  <1>. HIDE DEF d
  <1>5. up' = TRUE /\ db' = d /\ dlg' = dlg
    BY <1>1 DEF Return
  <1>6. Forced' = Forced
    BY <1>1 DEF Forced
  <1>7. UNCHANGED Log!vars
    BY <1>4, <1>5, <1>6, Stutters
  <1>8. QED BY <1>5, <1>7 DEF Forgotten

(* FixLogEndTime gives the record before the break the end the user picked.*)
LEMMA BreakEnded ==
  ASSUME IInv, DialogOpen, NEW tod \in Nat, NEW d, d = FixLogEndTime(tod)
  PROVE  /\ DiskOK(d) /\ d.tasks # <<>> /\ d.tasks = db.tasks
         /\ FixedEnd(tod) \in Int
         /\ Grown(db.times, d.times, Asked, 0)
         /\ Asked > 0 /\ Asked \in DOMAIN d.times
         /\ d.times[Asked].end = FixedEnd(tod)
         /\ PointerOf(d) = PointerOf(db)
         /\ CutOff(d)
  <1>1. /\ up = TRUE /\ dlg.log.id > 0 /\ Holds(db, dlg.log)
        /\ dlg.log.task \in DOMAIN db.tasks
    BY Answering
  <1>2. /\ FixedEnd(tod) \in Int /\ DiskOK(d)
        /\ d.tasks = db.tasks /\ d.options = db.options
    BY FixedLogStored
  <1>3. DiskOK(db) /\ dlg.log \in TimeObject /\ db.tasks # <<>>
    BY <1>1, Running
  <1>4. db.times \in Seq(TimeRow) /\ Len(db.times) \in Nat /\ DOMAIN db.times = 1 .. Len(db.times)
    BY <1>1, PointerInMemory
  <1>5. Grown(db.times, d.times, Asked, 0) /\ d.times[Asked].end = FixedEnd(tod)
    <2>1. CASE dlg.log.end = FixedEnd(tod)
      <3>1. d = db
        BY <2>1 DEF FixLogEndTime
      <3>2. Grown(db.times, d.times, Asked, 0)
        BY <1>4, <3>1, NotGrown
      <3>3. QED BY <1>1, <2>1, <3>1, <3>2 DEF Holds, AsRow, Asked
    <2>2. CASE dlg.log.end # FixedEnd(tod)
      <3>. DEFINE t == FixedLog(tod)
      <3>1. d = StoreTime(db, t)
        BY <2>2 DEF FixLogEndTime
      <3>2. /\ t \in TimeObject /\ t.id = dlg.log.id /\ t.task = dlg.log.task
            /\ t.start = dlg.log.start /\ t.end = FixedEnd(tod)
        BY <1>2, <1>3 DEF FixedLog, TimeObject
      <3>. HIDE DEF t
      <3>3. Grown(db.times, StoreTime(db, t).times, t.id, 0) /\ StoreTime(db, t).times[t.id].end = t.end
        BY <1>1, <1>3, <3>2, EndStored
      <3>4. QED BY <3>1, <3>2, <3>3 DEF Asked
    <2>3. QED BY <2>1, <2>2
  <1>6. Len(d.times) = Len(db.times) /\ DOMAIN d.times = 1 .. Len(d.times)
    BY <1>2, <1>4, <1>5, DatabaseDomains DEF Grown, DiskOK
  <1>7. Asked > 0 /\ Asked \in DOMAIN d.times
    BY <1>1, <1>4, <1>6 DEF Holds, Asked
  <1>8. PointerOf(d) = PointerOf(db)
    BY <1>2 DEF PointerOf
  <1>9. Logged(d, 0)
    BY <1>5 DEF Logged
  <1>10. CutOff(d)
    BY <1>7, <1>8, <1>9 DEF CutOff
  <1>11. QED BY <1>2, <1>3, <1>5, <1>7, <1>8, <1>10

(* The task combo box adds no record. *)
LEMMA TaskNamed ==
  ASSUME NEW d, DiskOK(d), d.tasks # <<>>, CutOff(d), NEW name \in TaskNames \cup {NoName},
         NEW e, e = StoreComboTask(d, name)
  PROVE  /\ DiskOK(e) /\ e.tasks # <<>> /\ e.times = d.times
         /\ PointerOf(e) = PointerOf(d)
         /\ ComboTask(d, name) \in DOMAIN e.tasks /\ ComboTask(d, name) \in Nat
         /\ CutOff(e)
  <1>1. /\ DiskOK(e) /\ e.tasks # <<>> /\ e.times = d.times /\ e.options = d.options
        /\ ComboTask(d, name) \in DOMAIN e.tasks /\ ComboTask(d, name) \in Nat
    BY ComboTaskStored
  <1>2. PointerOf(e) = PointerOf(d)
    BY <1>1 DEF PointerOf
  <1>3. CutOff(e)
    BY <1>1, <1>2 DEF CutOff, Grown, Logged, Unfinished
  <1>4. QED BY <1>1, <1>2, <1>3

(* The answer's first new record: it starts when the old one ends. *)
LEMMA BreakFollowed ==
  ASSUME IInv, DialogOpen, NEW tod \in Nat, NEW name \in TaskNames \cup {NoName},
         NEW d2, d2 = StoreComboTask(FixLogEndTime(tod), name),
         NEW t \in TimeObject, t.id = 0, t.start = FixedEnd(tod) + 1,
         t.task = ComboTask(FixLogEndTime(tod), name),
         NEW d3, d3 = StoreTime(d2, t)
  PROVE  /\ Asked > 0
         /\ CutOff(FixLogEndTime(tod)) /\ CutOff(d2) /\ CutOff(d3)
         /\ DiskOK(d2) /\ DiskOK(d3) /\ d3.tasks # <<>>
         /\ Logged(d3, 1)
         /\ Len(d3.times) = Len(db.times) + 1
         /\ Asked \in DOMAIN d3.times
         /\ d3.times[Len(db.times) + 1] = AsRow(t)
         /\ PointerOf(d3) = PointerOf(db)
         /\ Stored(d2, t).id = Len(db.times) + 1
  <1>. DEFINE d1 == FixLogEndTime(tod)
  <1>1. /\ DiskOK(d1) /\ d1.tasks # <<>>
        /\ Grown(db.times, d1.times, Asked, 0)
        /\ Asked > 0 /\ Asked \in DOMAIN d1.times
        /\ d1.times[Asked].end = FixedEnd(tod)
        /\ PointerOf(d1) = PointerOf(db)
        /\ CutOff(d1)
    BY BreakEnded
  <1>. HIDE DEF d1
  <1>2. /\ DiskOK(d2) /\ d2.tasks # <<>> /\ d2.times = d1.times
        /\ PointerOf(d2) = PointerOf(d1)
        /\ t.task \in DOMAIN d2.tasks
        /\ CutOff(d2)
    BY <1>1, TaskNamed DEF d1
  <1>3. /\ DiskOK(d3) /\ d3.tasks # <<>>
    BY <1>2, InsertTime
  <1>4. /\ Len(d3.times) = Len(d2.times) + 1
        /\ d3.times[Len(d2.times) + 1] = AsRow(t)
        /\ \A i \in DOMAIN d2.times : d3.times[i] = d2.times[i]
        /\ PointerOf(d3) = PointerOf(d2)
        /\ Stored(d2, t).id = Len(d2.times) + 1
    BY <1>2, RowAdded
  <1>5. /\ db.times \in Seq(TimeRow) /\ Len(db.times) \in Nat
        /\ d1.times \in Seq(TimeRow)
    BY <1>1, PointerInMemory DEF DiskOK, Database, DialogOpen
  <1>6. Len(d2.times) = Len(db.times)
    BY <1>1, <1>2, <1>5 DEF Grown
  <1>7. Grown(db.times, d3.times, Asked, 1)
    <2>1. /\ Grown(db.times, d1.times, Asked, 0)
          /\ Len(d3.times) = Len(d1.times) + 1
          /\ \A j \in DOMAIN d1.times : d3.times[j] = d1.times[j]
      BY <1>1, <1>2, <1>4
    <2>2. Grown(db.times, d3.times, Asked, 0 + 1)
      BY <1>5, <2>1, GrownFurther
    <2>3. QED BY <2>2
  <1>8. d3.times[Asked].end = FixedEnd(tod)
    BY <1>1, <1>2, <1>4
  <1>9. d3.times[Len(db.times) + 1] = AsRow(t) /\ AsRow(t).start = FixedEnd(tod) + 1
    BY <1>4, <1>6 DEF AsRow
  <1>10. Logged(d3, 1)
    BY <1>7, <1>8, <1>9 DEF Logged
  <1>11. Asked \in DOMAIN d3.times
    BY <1>1, <1>2, <1>3, <1>4, DatabaseDomains DEF DiskOK
  <1>12. CutOff(d3)
    BY <1>1, <1>2, <1>4, <1>10 DEF CutOff
  <1>13. QED BY <1>1, <1>2, <1>3, <1>4, <1>6, <1>9, <1>10, <1>11, <1>12 DEF d1

(* Picking a time does not switch tracking on. *)
LEMMA PickingKeepsForced ==
  ASSUME NEW tod, odd' = odd \cup PickFlags(tod)
  PROVE  Forced' = Forced
BY PickFlagsType DEF Forced

(* "Stop counting at" is a Stop. *)
LEMMA ActionStopMaps ==
  ASSUME IInv, NEW tod \in TimesOfDay, ActionStop(tod)
  PROVE  Log!Next /\ Forgotten'
  <1>. DEFINE d == FixLogEndTime(tod)
  <1>1. /\ DialogOpen /\ Return(d, opts, Resume(TRUE), NoDialog)
        /\ odd' = odd \cup PickFlags(tod)
    BY DEF ActionStop
  <1>2. tod \in Nat
    BY TimeLogAssumption DEF TimesOfDay
  <1>3. /\ Grown(db.times, d.times, Asked, 0) /\ Asked > 0
        /\ PointerOf(d) = PointerOf(db)
    BY <1>1, <1>2, BreakEnded
  <1>. HIDE DEF d
  <1>4. up' = TRUE /\ db' = d /\ dlg'.log.id = 0 /\ Forced' = Forced
    BY <1>1, PickingKeepsForced DEF Return, NoDialog, NoTime
  <1>5. Log!Writes(Asked, 0)
    BY <1>3, <1>4 DEF Log!Writes, Grown
  <1>6. Log!BreakLogged(0)
    BY <1>5 DEF Log!BreakLogged, Asked
  <1>7. Log!Stop
    BY <1>3, <1>4, <1>6 DEF Log!Stop, PointerOf, Asked, Forced
  <1>8. QED BY <1>4, <1>7 DEF Log!Next, Forgotten

(* "Ignore this break and keep counting" is a Resume. *)
LEMMA ActionIgnoreMaps ==
  ASSUME IInv, ActionIgnore
  PROVE  Log!Next /\ Forgotten'
  <1>. DEFINE o == [opts EXCEPT !.cur = dlg.log]
              d == StoreOptions(db, o)
  <1>1. /\ DialogOpen /\ Return(d, o, Resume(FALSE), NoDialog)
        /\ odd' = odd
    BY DEF ActionIgnore
  <1>2. up = TRUE /\ Asked > 0 /\ Holds(db, dlg.log)
    BY <1>1, Answering DEF Asked
  <1>3. DiskOK(db) /\ opts \in Options /\ dlg.log \in TimeObject
    BY <1>2, Running
  <1>4. PointerOf(db) = 0 \/ Forced
    BY <1>2, PointerInMemory
  <1>5. o \in Options /\ o.cur.id = Asked /\ o.cur.id \in DOMAIN db.times
    BY <1>2, <1>3 DEF Options, Holds, Asked
  <1>. HIDE DEF o
  <1>6. d.times = db.times /\ PointerOf(d) = Asked
    BY <1>3, <1>5, OptionsStored, PointerStored
  <1>. HIDE DEF d
  <1>7. up' = TRUE /\ db' = d /\ dlg'.log.id = 0 /\ Forced' = Forced
    BY <1>1 DEF Return, NoDialog, NoTime, Forced
  <1>8. Log!Answerable
    BY <1>2, <1>4 DEF Log!Answerable, PointerOf, Asked, Forced
  <1>9. Log!Resume
    BY <1>6, <1>7, <1>8 DEF Log!Resume, PointerOf, Asked, Forced
  <1>10. QED BY <1>7, <1>9 DEF Log!Next, Forgotten

(* An answer that opens a record is a Continue. *)
LEMMA AnsweredByRecord ==
  ASSUME IInv, DialogOpen, NEW tod, odd' = odd \cup PickFlags(tod),
         NEW d, NEW o, Return(d, o, Resume(FALSE), NoDialog),
         NEW n \in {1, 2}, Logged(d, n), Unfinished(d),
         PointerOf(d) = Len(d.times)
  PROVE  Log!Next /\ Forgotten'
  <1>1. up = TRUE /\ Asked > 0
    BY Answering DEF Asked
  <1>2. PointerOf(db) = 0 \/ Forced
    BY <1>1, PointerInMemory
  <1>3. up' = TRUE /\ db' = d /\ dlg'.log.id = 0 /\ Forced' = Forced
    BY PickingKeepsForced DEF Return, NoDialog, NoTime
  <1>4. Log!Answerable
    BY <1>1, <1>2 DEF Log!Answerable, PointerOf, Asked, Forced
  <1>5. Log!Writes(Asked, n)
    BY <1>3 DEF Log!Writes, Logged, Grown
  <1>6. Log!BreakLogged(n)
    BY <1>3, <1>5 DEF Log!BreakLogged, Log!Follows, Logged, Asked
  <1>7. Log!Unended(Len(db'.times))
    BY <1>3 DEF Log!Unended, Unfinished
  <1>8. PointerOf(db') = Len(db'.times)
    BY <1>3
  <1>9. Log!Continue
    BY <1>3, <1>4, <1>6, <1>7, <1>8 DEF Log!Continue, PointerOf, Forced
  <1>10. QED BY <1>3, <1>9 DEF Log!Next, Forgotten

(* "Log this break and keep counting old task" is a Continue with two records. *)
LEMMA ActionLogAndBackMaps ==
  ASSUME IInv, NEW tod \in TimesOfDay, NEW name \in TaskNames \cup {NoName},
         ActionLogAndBack(tod, name)
  PROVE  Log!Next /\ Forgotten'
  <1>. DEFINE d1 == FixLogEndTime(tod)
              d2 == StoreComboTask(d1, name)
              task == ComboTask(d1, name)
              start == FixedEnd(tod) + 1
              end == Now - 1
              other == [Fresh(task, start) EXCEPT !.end = end]
              d3 == StoreTime(d2, other)
              back == BackAt(other)
              o == OnReturnOpts(d3, back)
              d4 == OnReturnStored(d3, back)
              d5 == OnReturnFinal(d3, back)
              new == Len(db.times) + 1
  <1>1. /\ DialogOpen
        /\ \/ /\ Return(d5, o, Resume(FALSE), NoDialog)
              /\ odd' = odd \cup PickFlags(tod)
           \/ Die({d1, d2, d3, d4}, PickFlags(tod))
    BY DEF ActionLogAndBack
  <1>2. tod \in Nat
    BY TimeLogAssumption DEF TimesOfDay
  <1>3. up = TRUE
    BY <1>1, Answering
  <1>4. opts \in Options /\ end \in Int
    <2>1. opts \in Options /\ clock \in Nat
      BY <1>3, Running
    <2>2. Now \in Int
      BY <2>1, ClockTypes DEF Now
    <2>3. QED BY <2>1, <2>2
  <1>5. DiskOK(d1) /\ d1.tasks # <<>> /\ start \in Int /\ CutOff(d1)
    BY <1>1, <1>2, BreakEnded
  <1>6. task \in Nat
    BY <1>5, TaskNamed
  <1>. HIDE DEF end
  <1>7. /\ other \in TimeObject /\ other.id = 0 /\ other.task = task
        /\ other.start = start /\ other.end = end
    <2>. HIDE DEF task, start
    <2>1. QED BY <1>4, <1>5, <1>6 DEF Fresh, TimeObject
  <1>8. back = end + 1 /\ back \in Int
    BY <1>4, <1>7 DEF BackAt
  <1>. HIDE DEF other, back
  <1>9. /\ Asked > 0 /\ CutOff(d1) /\ CutOff(d2) /\ CutOff(d3)
        /\ DiskOK(d3) /\ d3.tasks # <<>>
        /\ Logged(d3, 1)
        /\ Len(d3.times) = new
        /\ Asked \in DOMAIN d3.times
        /\ d3.times[new] = AsRow(other)
        /\ PointerOf(d3) = PointerOf(db)
    BY <1>1, <1>2, <1>7, BreakFollowed
  <1>. HIDE DEF d1, d2, d3, task, start
  <1>10. /\ Len(d4.times) = Len(d3.times) + 1
         /\ d4.times[Len(d3.times) + 1].start = back
         /\ d4.times[Len(d3.times) + 1].end = 0
         /\ \A i \in DOMAIN d3.times : d4.times[i] = d3.times[i]
         /\ PointerOf(d4) = PointerOf(d3)
         /\ d5.times = d4.times
         /\ PointerOf(d5) = Len(d3.times) + 1
    <2>1. d4 = OnReturnStored(d3, back) /\ d5 = OnReturnFinal(d3, back)
      OBVIOUS
    <2>2. DiskOK(d3) /\ d3.tasks # <<>> /\ opts \in Options /\ back \in Int
      BY <1>4, <1>8, <1>9
    <2>. HIDE DEF d4, d5
    <2>3. QED BY <2>1, <2>2, OnReturnAdds
  <1>. HIDE DEF d4, d5, o
  <1>11. /\ db.times \in Seq(TimeRow) /\ Len(db.times) \in Nat
         /\ d3.times \in Seq(TimeRow) /\ new \in DOMAIN d3.times
    BY <1>3, <1>9, PointerInMemory, LenProperties DEF DiskOK, Database
  <1>12. Logged(d4, 2) /\ Unfinished(d4)
    <2>. DEFINE b == d3.times
    <2>0. /\ Grown(db.times, b, Asked, 1) /\ b \in Seq(TimeRow)
          /\ Len(d4.times) = Len(b) + 1
          /\ \A j \in DOMAIN b : d4.times[j] = b[j]
      BY <1>9, <1>10, <1>11 DEF Logged
    <2>. HIDE DEF b
    <2>1. Grown(db.times, d4.times, Asked, 1 + 1)
      BY <1>11, <2>0, GrownFurther
    <2>. USE DEF b
    <2>2. d4.times[new].start = d4.times[Asked].end + 1
      BY <1>9, <1>10, <1>11 DEF Logged
    <2>3. d4.times[new].end = end
      BY <1>7, <1>9, <1>10, <1>11 DEF AsRow
    <2>4. d4.times[new + 1].start = d4.times[new].end + 1
      BY <1>8, <1>9, <1>10, <2>3
    <2>5. Unfinished(d4)
      BY <1>9, <1>10 DEF Unfinished
    <2>6. QED BY <2>1, <2>2, <2>4, <2>5 DEF Logged
  <1>13. CASE /\ Return(d5, o, Resume(FALSE), NoDialog)
              /\ odd' = odd \cup PickFlags(tod)
    <2>1. Logged(d5, 2) /\ Unfinished(d5) /\ PointerOf(d5) = Len(d5.times)
      BY <1>10, <1>12 DEF Logged, Unfinished
    <2>2. QED BY <1>1, <1>13, <2>1, AnsweredByRecord
  <1>14. CASE Die({d1, d2, d3, d4}, PickFlags(tod))
    <2>1. CutOff(d4)
      BY <1>9, <1>10, <1>12 DEF CutOff
    <2>2. Log!Cut /\ Forgotten'
      BY <1>9, <1>14, <2>1, PickFlagsType, DieIsCut
    <2>3. QED BY <2>2 DEF Log!Next
  <1>15. QED BY <1>1, <1>13, <1>14

(* "Stop old task and log this time as the new task": a Continue with one. *)
LEMMA ActionSwitchMaps ==
  ASSUME IInv, NEW tod \in TimesOfDay, NEW name \in TaskNames \cup {NoName},
         ActionSwitch(tod, name)
  PROVE  Log!Next /\ Forgotten'
  <1>. DEFINE d1 == FixLogEndTime(tod)
              d2 == StoreComboTask(d1, name)
              task == ComboTask(d1, name)
              other == Fresh(task, FixedEnd(tod) + 1)
              d3 == StoreTime(d2, other)
              o == [opts EXCEPT !.cur = Stored(d2, other)]
              d4 == StoreOptions(d3, o)
  <1>1. /\ DialogOpen
        /\ \/ /\ Return(d4, o, Resume(FALSE), NoDialog)
              /\ odd' = odd \cup PickFlags(tod)
           \/ Die({d1, d2, d3}, PickFlags(tod))
    BY DEF ActionSwitch
  <1>2. tod \in Nat
    BY TimeLogAssumption DEF TimesOfDay
  <1>3. up = TRUE
    BY <1>1, Answering
  <1>4. opts \in Options
    BY <1>3, Running
  <1>5. DiskOK(d1) /\ d1.tasks # <<>> /\ FixedEnd(tod) \in Int /\ CutOff(d1)
    BY <1>1, <1>2, BreakEnded
  <1>6. task \in Nat /\ task \in DOMAIN d2.tasks
    BY <1>5, TaskNamed
  <1>7. /\ other \in TimeObject /\ other.id = 0 /\ other.task = task
        /\ other.start = FixedEnd(tod) + 1 /\ other.end = 0
    BY <1>5, <1>6, FreshType DEF Fresh
  <1>. HIDE DEF other
  <1>8. /\ Asked > 0 /\ CutOff(d1) /\ CutOff(d2) /\ CutOff(d3)
        /\ DiskOK(d2) /\ DiskOK(d3)
        /\ Logged(d3, 1)
        /\ Len(d3.times) = Len(db.times) + 1
        /\ d3.times[Len(db.times) + 1] = AsRow(other)
        /\ Stored(d2, other).id = Len(db.times) + 1
    BY <1>1, <1>2, <1>7, BreakFollowed
  <1>9. o \in Options /\ DiskOK(d4) /\ d4.options = <<AsOptionsRow(o)>>
    BY <1>4, <1>6, <1>7, <1>8, RecordOpened
  <1>10. o.cur.id = Len(db.times) + 1
    BY <1>4, <1>8 DEF Options
  <1>11. d4.times = d3.times
    <2>. HIDE DEF d3, o
    <2>1. o.cur.id \in {0} \cup DOMAIN d3.times
      BY <1>8, <1>10, DatabaseDomains DEF DiskOK
    <2>2. QED BY <1>8, <1>9, <2>1, OptionsStored
  <1>12. PointerOf(d4) = Len(d4.times)
    BY <1>8, <1>9, <1>10, <1>11, PointerStored
  <1>. HIDE DEF d1, d2, d3, d4, o, task
  <1>13. CASE /\ Return(d4, o, Resume(FALSE), NoDialog)
              /\ odd' = odd \cup PickFlags(tod)
    <2>1. Logged(d4, 1) /\ Unfinished(d4)
      BY <1>7, <1>8, <1>11 DEF Logged, Unfinished, AsRow
    <2>2. QED BY <1>1, <1>12, <1>13, <2>1, AnsweredByRecord
  <1>14. CASE Die({d1, d2, d3}, PickFlags(tod))
    <2>1. Log!Cut /\ Forgotten'
      BY <1>8, <1>14, PickFlagsType, DieIsCut
    <2>2. QED BY <2>1 DEF Log!Next
  <1>15. QED BY <1>1, <1>13, <1>14

(* The Options dialog can only force the question. *)
LEMMA OptionsOKMaps ==
  ASSUME IInv, NEW autoTrack \in BOOLEAN, NEW thr \in ThrChoices, OptionsOK(autoTrack, thr)
  PROVE  [Log!Next]_(Log!vars) /\ Forgotten'
  <1>. DEFINE o == [opts EXCEPT !.autoTrack = autoTrack, !.thr = thr]
              d == StoreOptions(db, o)
  <1>1. /\ up = TRUE /\ Return(d, o, ApplyOptions(o), dlg)
        /\ odd' = odd \cup (IF Reenables(autoTrack)
                              THEN {"reenabled", "everReenabled"} ELSE {})
    BY DEF OptionsOK, IInv, TypeOK
  <1>2. DiskOK(db) /\ opts \in Options /\ opts.cur.id \in {0} \cup DOMAIN db.times
    BY <1>1, Running
  <1>3. o \in Options /\ o.cur = opts.cur
    BY <1>2, TimeLogAssumption DEF Options
  <1>. HIDE DEF o
  <1>4. d.times = db.times /\ PointerOf(d) = PointerOf(db)
    BY <1>1, <1>2, <1>3, OptionsStored, PointerStored, PointerInMemory
  <1>. HIDE DEF d
  <1>5. up' = TRUE /\ db' = d /\ dlg' = dlg /\ Forgotten'
    BY <1>1 DEF Return, Forgotten
  <1>6. CASE Reenables(autoTrack)
    <2>1. Asked > 0
      BY <1>6 DEF Reenables, Asked
    <2>2. "reenabled" \in odd'
      BY <1>1, <1>6
    <2>3. Log!Force
      BY <1>4, <1>5, <2>1, <2>2 DEF Log!Force, PointerOf, Asked
    <2>4. QED BY <1>5, <2>3 DEF Log!Next
  <1>7. CASE ~Reenables(autoTrack)
    <2>1. Forced' = Forced
      BY <1>1, <1>7 DEF Forced
    <2>2. UNCHANGED Log!vars
      BY <1>4, <1>5, <2>1, Stutters
    <2>3. QED BY <1>5, <2>2
  <1>8. QED BY <1>6, <1>7

(* WM_CLOSE is a Finish, or a Cut if nothing is being counted. *)
LEMMA CloseMaps ==
  ASSUME IInv, Close
  PROVE  Log!Next /\ Forgotten'
  <1>. DEFINE d1 == StoreTime(db, [opts.cur EXCEPT !.end = Now])
              o == [opts EXCEPT !.cur = NoTime]
              d2 == StoreOptions(d1, o)
  <1>1. /\ up
        /\ \/ /\ db' = IF opts.cur.id > 0 THEN d2 ELSE db
              /\ odd' = odd \ {"reenabled"}
              /\ Exit
           \/ opts.cur.id > 0 /\ Die({d1}, {})
    BY DEF Close
  <1>2. Now \in Int /\ PointerOf(db) = opts.cur.id
    <2>1. clock \in Nat
      BY <1>1, Running
    <2>2. Now \in Int
      BY <2>1, ClockTypes DEF Now
    <2>3. QED BY <1>1, <2>2, PointerInMemory
  <1>3. opts.cur.id > 0 => /\ DiskOK(d1)
                           /\ Grown(db.times, d1.times, PointerOf(db), 0)
                           /\ CutOff(d1)
    <2>1. d1 = StoreTime(db, EndedAt(Now))
      BY DEF EndedAt
    <2>. HIDE DEF d1
    <2>2. QED BY <1>1, <1>2, <2>1, CurrentStored
  <1>4. o \in Options /\ o.cur.id = 0
    BY <1>1, Running, NoCurrent
  <1>. HIDE DEF d1, o
  <1>5. opts.cur.id > 0 => d2.times = d1.times /\ PointerOf(d2) = 0
    BY <1>3, <1>4, OptionsStored, PointerStored
  <1>. HIDE DEF d2
  <1>6. Exit => dlg'.log.id = 0
    BY DEF Exit, NoDialog, NoTime
  <1>7. CASE /\ db' = IF opts.cur.id > 0 THEN d2 ELSE db
             /\ odd' = odd \ {"reenabled"}
             /\ Exit
    <2>1. dlg'.log.id = 0 /\ "reenabled" \notin odd' /\ Forgotten'
      BY <1>6, <1>7 DEF Forgotten, Asked, Forced
    <2>2. CASE opts.cur.id > 0
      <3>1. Log!Writes(PointerOf(db), 0)
        BY <1>3, <1>5, <1>7, <2>2 DEF Log!Writes, Grown
      <3>2. PointerOf(db') = 0
        BY <1>5, <1>7, <2>2
      <3>3. Log!Finish
        BY <1>2, <2>1, <2>2, <3>1, <3>2 DEF Log!Finish, PointerOf
      <3>4. QED BY <2>1, <3>3 DEF Log!Next
    <2>3. CASE ~(opts.cur.id > 0)
      <3>1. Log!Cut
        BY <1>7, <2>1, <2>3 DEF Log!Cut
      <3>2. QED BY <2>1, <3>1 DEF Log!Next
    <2>4. QED BY <2>2, <2>3
  <1>8. CASE opts.cur.id > 0 /\ Die({d1}, {})
    <2>1. Log!Cut /\ Forgotten'
      BY <1>3, <1>8, DieIsCut
    <2>2. QED BY <2>1 DEF Log!Next
  <1>9. QED BY <1>1, <1>7, <1>8

(* The process may end between two handlers. *)
LEMMA CrashMaps ==
  ASSUME IInv, Crash
  PROVE  Log!Next /\ Forgotten'
  <1>1. db' = db /\ dlg'.log.id = 0 /\ "reenabled" \notin odd'
    BY DEF Crash, Exit, NoDialog, NoTime
  <1>2. Log!Cut
    BY <1>1 DEF Log!Cut
  <1>3. QED BY <1>1, <1>2 DEF Log!Next, Forgotten, Asked, Forced

(* The world, and a poll that calls nothing back, do nothing that WorkLog sees. *)
LEMMA QuietMaps ==
  ASSUME Forgotten, OnTimerQuiet \/ Tick \/ Input \/ UNCHANGED vars
  PROVE  UNCHANGED Log!vars /\ Forgotten'
  <1>1. db' = db /\ dlg' = dlg /\ odd' = odd /\ up' = up
    BY DEF OnTimerQuiet, Tick, Input, vars
  <1>2. Forced' = Forced
    BY <1>1 DEF Forced
  <1>3. UNCHANGED Log!vars
    BY <1>1, <1>2, Stutters
  <1>4. QED BY <1>1, <1>3 DEF Forgotten, Asked, Forced

-----------------------------------------------------------------------------
(* The refinement. *)

(* The first start finds an empty log. *)
LEMMA InitMaps == Init => Log!Init /\ Forgotten
  <1>1. SUFFICES ASSUME Init PROVE Log!Init /\ Forgotten
    OBVIOUS
  <1>2. db.times = <<>> /\ db.options = <<>> /\ dlg.log.id = 0 /\ odd = {}
    BY <1>1 DEF Init, EmptyDatabase, NoDialog, NoTime
  <1>3. Asked = 0 /\ ~Forced
    BY <1>2 DEF Asked, Forced
  <1>4. Log!Init
    BY <1>2, <1>3 DEF Log!Init, Asked, Forced
  <1>5. QED BY <1>3, <1>4 DEF Forgotten

(* Every step of the program is a step of WorkLog, or none. *)
LEMMA NextMaps ==
  ASSUME IInv, Forgotten, [Next]_vars
  PROVE  [Log!Next]_(Log!vars) /\ Forgotten'
  <1>1. CASE Start
    BY <1>1, StartMaps
  <1>2. CASE OnTimerReturn
    BY <1>2, OnTimerReturnMaps
  <1>3. CASE OnTimerIdle
    BY <1>3, OnTimerIdleMaps
  <1>4. CASE CheckTimer
    BY <1>4, CheckTimerMaps
  <1>5. CASE \E tod \in TimesOfDay : ActionStop(tod)
    BY <1>5, ActionStopMaps
  <1>6. CASE ActionIgnore
    BY <1>6, ActionIgnoreMaps
  <1>7. CASE \E tod \in TimesOfDay, name \in TaskNames \cup {NoName} : ActionLogAndBack(tod, name)
    BY <1>7, ActionLogAndBackMaps
  <1>8. CASE \E tod \in TimesOfDay, name \in TaskNames \cup {NoName} : ActionSwitch(tod, name)
    BY <1>8, ActionSwitchMaps
  <1>9. CASE \E autoTrack \in BOOLEAN, thr \in ThrChoices : OptionsOK(autoTrack, thr)
    BY <1>9, OptionsOKMaps
  <1>10. CASE Close
    BY <1>10, CloseMaps
  <1>11. CASE Crash
    BY <1>11, CrashMaps
  <1>12. CASE OnTimerQuiet \/ Tick \/ Input \/ UNCHANGED vars
    BY <1>12, QuietMaps
  <1>13. QED BY <1>1, <1>2, <1>3, <1>4, <1>5, <1>6, <1>7, <1>8, <1>9, <1>10, <1>11, <1>12 DEF Next

(* The program implements the work log: every step of every handler,       *)
(* complete or cut short, is a step of WorkLog or changes nothing it sees. *)
THEOREM Refinement == Spec => ImplementsWorkLog
  <1>1. Init => Log!Init /\ Forgotten
    BY InitMaps
  <1>2. IInv /\ Forgotten /\ [Next]_vars => [Log!Next]_(Log!vars) /\ Forgotten'
    BY NextMaps
  <1>3. Spec => []IInv
    BY Invariance
  <1>4. QED BY <1>1, <1>2, <1>3, PTL DEF Spec, ImplementsWorkLog, Log!Spec

-----------------------------------------------------------------------------
(* What WorkLog promises of a record that is finished. *)

(* A record that is neither pointed at nor asked about is not written.     *)
LEMMA WritesSpare ==
  ASSUME IInv, TypeOK', NEW i \in DOMAIN db.times,
         NEW j \in {0, Asked, PointerOf(db)}, NEW n \in Nat, Log!Writes(j, n)
  PROVE  i \in DOMAIN db'.times /\ (Frozen(i) => db'.times[i] = db.times[i])
  <1>1. db \in Database /\ db' \in Database
    BY DEF IInv, TypeOK
  <1>2. /\ Len(db.times) \in Nat /\ DOMAIN db.times = 1 .. Len(db.times)
        /\ Len(db'.times) \in Nat /\ DOMAIN db'.times = 1 .. Len(db'.times)
        /\ DOMAIN db.options = 1 .. Len(db.options)
    BY <1>1, DatabaseDomains
  <1>3. i \in DOMAIN db'.times
    BY <1>2 DEF Log!Writes
  <1>4. ASSUME Frozen(i), db.options # <<>> PROVE db.options[1].cur # i
    <2>1. db.options \in Seq(OptionsRow)
      BY <1>1 DEF Database
    <2>2. 1 \in DOMAIN db.options
      BY <2>1, <1>4, EmptySeq, LenProperties
    <2>3. QED BY <2>2, <1>4 DEF Frozen
  <1>5. Frozen(i) => i # j
    BY <1>2, <1>4 DEF Frozen, PointerOf, Asked
  <1>6. QED BY <1>3, <1>5 DEF Log!Writes

(* WorkLog writes to the record it counts, to the one it asks about, or adds. *)
LEMMA NextWrites ==
  ASSUME Log!Next
  PROVE  \/ db'.times = db.times
         \/ \E j \in {0, Asked, PointerOf(db)}, n \in Nat : Log!Writes(j, n)
  <1>1. ASSUME NEW n \in 0 .. 2, Log!BreakLogged(n) PROVE Log!Writes(Asked, n)
    BY <1>1 DEF Log!BreakLogged, Asked
  <1>2. CASE Log!Begin
    BY <1>2 DEF Log!Begin
  <1>3. CASE Log!Suspend \/ Log!Finish
    BY <1>3 DEF Log!Suspend, Log!Finish, PointerOf
  <1>4. CASE Log!Force \/ Log!Resume
    BY <1>4 DEF Log!Force, Log!Resume
  <1>5. CASE Log!Stop
    BY <1>1, <1>5 DEF Log!Stop
  <1>6. CASE Log!Continue
    BY <1>1, <1>6 DEF Log!Continue
  <1>7. CASE Log!Cut
    BY <1>1, <1>7 DEF Log!Cut, PointerOf
  <1>8. QED BY <1>2, <1>3, <1>4, <1>5, <1>6, <1>7 DEF Log!Next

(* No handler, complete or cut short, rewrites history.                    *)
THEOREM HistoryIsFrozen == Spec => HistoryFrozen
  <1>1. IInv /\ TypeOK' /\ [Log!Next]_(Log!vars) =>
          [\A i \in DOMAIN db.times :
             /\ i \in DOMAIN db'.times
             /\ Frozen(i) => db'.times[i] = db.times[i]]_vars
    <2>1. SUFFICES ASSUME IInv, TypeOK', [Log!Next]_(Log!vars), NEW i \in DOMAIN db.times
                   PROVE  i \in DOMAIN db'.times /\ (Frozen(i) => db'.times[i] = db.times[i])
      OBVIOUS
    <2>2. CASE db'.times = db.times
      BY <2>2
    <2>3. CASE \E j \in {0, Asked, PointerOf(db)}, n \in Nat : Log!Writes(j, n)
      BY <2>1, <2>3, WritesSpare
    <2>4. QED BY <2>1, <2>2, <2>3, NextWrites DEF Log!vars
  <1>2. Spec => []IInv
    BY Invariance
  <1>3. IInv => TypeOK
    BY DEF IInv
  <1>4. Spec => [][Log!Next]_(Log!vars)
    BY Refinement DEF ImplementsWorkLog, Log!Spec
  <1>5. QED BY <1>1, <1>2, <1>3, <1>4, PTL DEF HistoryFrozen

-----------------------------------------------------------------------------
(***************************************************************************)
(* Part 3.  What the records of TimeLog say of time, for all values of the *)
(* constants: none is left open but the one being counted (NoOrphans), all *)
(* lie in the past (RecordsLieInThePast), and they follow one another      *)
(* (Chronological).                                                        *)
(***************************************************************************)

(* time() is past a day and a turn of the tick count: no end of a record   *)
(* that the program computes is 0, the value of a record without an end.   *)
LateEpoch == Epoch > SecsPerDay + (TickMod \div MsPerSec)

(* The tick count does not wrap while the program is looked at. *)
NoWrap == MaxClock < TickMod

-----------------------------------------------------------------------------
(* Properties of a sequence of rows. *)

Dated(s) == \A i \in DOMAIN s : s[i].start > 0

OpenOnly(s, p) == \A i \in DOMAIN s : s[i].end = 0 => i = p

Past(s, now) ==
  \A i \in DOMAIN s :
    /\ s[i].start <= now + 1
    /\ s[i].end > 0 => s[i].end \in (s[i].start - 2) .. (now + 2)

InOrder(s) == \A i, j \in DOMAIN s : i < j /\ s[i].end > 0 => s[i].end <= s[j].start + 2

EndsBy(s, t) == \A i \in DOMAIN s : s[i].end > 0 => s[i].end <= t

(* A record gets another end. *)
LEMMA RowEnded ==
  ASSUME NEW a \in Seq(TimeRow), NEW b \in Seq(TimeRow), NEW k \in DOMAIN a,
         Grown(a, b, k, 0), NEW e \in Int, b[k].end = e
  PROVE  /\ Len(b) = Len(a)
         /\ Dated(a) => Dated(b)
         /\ e # 0 => \A p : OpenOnly(a, p) => OpenOnly(b, p)
         /\ e # 0 /\ OpenOnly(a, k) => \A p : OpenOnly(b, p)
         /\ \A now \in Int :
              Past(a, now) /\ e \in (a[k].start - 2) .. (now + 2) => Past(b, now)
         /\ InOrder(a) /\ k = Len(a) => InOrder(b)
  <1>1. /\ Len(a) \in Nat /\ DOMAIN a = 1 .. Len(a)
        /\ Len(b) \in Nat /\ DOMAIN b = 1 .. Len(b)
    BY LenProperties
  <1>2. Len(b) = Len(a) /\ DOMAIN b = DOMAIN a
    BY <1>1 DEF Grown
  <1>3. \A i \in DOMAIN a : /\ a[i] \in TimeRow /\ b[i] \in TimeRow
                            /\ b[i].start = a[i].start
                            /\ i # k => b[i].end = a[i].end
    <2>1. TAKE i \in DOMAIN a
    <2>2. a[i] \in TimeRow /\ b[i] \in TimeRow
      BY <1>1, <1>2, ElementOfSeq
    <2>3. b[i] = IF i = k THEN [a[i] EXCEPT !.end = b[i].end] ELSE a[i]
      BY DEF Grown
    <2>4. QED BY <2>2, <2>3 DEF TimeRow
  <1>4. \A i \in DOMAIN a : a[i].start \in Int /\ a[i].end \in Int
    BY <1>3 DEF TimeRow
  <1>5. Dated(a) => Dated(b)
    BY <1>2, <1>3 DEF Dated
  <1>6. e # 0 => \A p : OpenOnly(a, p) => OpenOnly(b, p)
    BY <1>2, <1>3 DEF OpenOnly
  <1>7. e # 0 /\ OpenOnly(a, k) => \A p : OpenOnly(b, p)
    BY <1>2, <1>3 DEF OpenOnly
  <1>8. ASSUME NEW now \in Int, Past(a, now), e \in (a[k].start - 2) .. (now + 2)
        PROVE  Past(b, now)
    <2>1. SUFFICES ASSUME NEW i \in DOMAIN a
                   PROVE  /\ b[i].start <= now + 1
                          /\ b[i].end > 0 => b[i].end \in (b[i].start - 2) .. (now + 2)
      BY <1>2 DEF Past
    <2>2. CASE i = k
      BY <1>3, <1>8, <2>2 DEF Past
    <2>3. CASE i # k
      BY <1>3, <1>8, <2>3 DEF Past
    <2>4. QED BY <2>2, <2>3
  <1>9. ASSUME InOrder(a), k = Len(a)
        PROVE  InOrder(b)
    <2>1. SUFFICES ASSUME NEW i \in DOMAIN a, NEW j \in DOMAIN a, i < j, b[i].end > 0
                   PROVE  b[i].end <= b[j].start + 2
      BY <1>2 DEF InOrder
    <2>2. i # k
      BY <1>1, <1>9, <2>1
    <2>3. QED BY <1>3, <1>9, <2>1, <2>2 DEF InOrder
  <1>10. QED BY <1>2, <1>5, <1>6, <1>7, <1>8, <1>9

(* A record is added. *)
LEMMA RowAppended ==
  ASSUME NEW a \in Seq(TimeRow), NEW b \in Seq(TimeRow), NEW new, new = Len(a) + 1,
         Len(b) = new, \A i \in DOMAIN a : b[i] = a[i]
  PROVE  /\ new \in DOMAIN b
         /\ Dated(a) /\ b[new].start > 0 => Dated(b)
         /\ b[new].end # 0 => \A p : OpenOnly(a, p) => OpenOnly(b, p)
         /\ OpenOnly(a, 0) => OpenOnly(b, new)
         /\ \A now \in Int :
              /\ Past(a, now)
              /\ b[new].start <= now + 1
              /\ b[new].end > 0 => b[new].end \in (b[new].start - 2) .. (now + 2)
              => Past(b, now)
         /\ InOrder(a) /\ EndsBy(a, b[new].start + 2) => InOrder(b)
  <1>1. /\ Len(a) \in Nat /\ DOMAIN a = 1 .. Len(a)
        /\ DOMAIN b = 1 .. new
    BY LenProperties
  <1>2. DOMAIN b = DOMAIN a \cup {new} /\ new \notin DOMAIN a /\ new \in DOMAIN b
    BY <1>1
  <1>3. Dated(a) /\ b[new].start > 0 => Dated(b)
    BY <1>2 DEF Dated
  <1>4. b[new].end # 0 => \A p : OpenOnly(a, p) => OpenOnly(b, p)
    BY <1>2 DEF OpenOnly
  <1>5. OpenOnly(a, 0) => OpenOnly(b, new)
    BY <1>1, <1>2 DEF OpenOnly
  <1>6. \A now \in Int :
              /\ Past(a, now)
              /\ b[new].start <= now + 1
              /\ b[new].end > 0 => b[new].end \in (b[new].start - 2) .. (now + 2)
              => Past(b, now)
    BY <1>2 DEF Past
  <1>7. ASSUME InOrder(a), EndsBy(a, b[new].start + 2)
        PROVE  InOrder(b)
    <2>1. SUFFICES ASSUME NEW i \in DOMAIN b, NEW j \in DOMAIN b, i < j, b[i].end > 0
                   PROVE  b[i].end <= b[j].start + 2
      BY DEF InOrder
    <2>2. i \in DOMAIN a
      BY <1>1, <2>1
    <2>3. CASE j \in DOMAIN a
      BY <1>7, <2>1, <2>2, <2>3 DEF InOrder
    <2>4. CASE j = new
      BY <1>7, <2>1, <2>2, <2>4 DEF EndsBy
    <2>5. QED BY <1>2, <2>3, <2>4
  <1>8. QED BY <1>2, <1>3, <1>4, <1>5, <1>6, <1>7

(* As time goes on, what was past stays past, and all that is past has     *)
(* ended.                                                                  *)
LEMMA PastLasts ==
  ASSUME NEW s \in Seq(TimeRow), NEW now \in Int, NEW later \in Int, now <= later,
         Past(s, now)
  PROVE  Past(s, later) /\ EndsBy(s, later + 2)
  <1>1. DOMAIN s = 1 .. Len(s)
    BY LenProperties
  <1>2. \A i \in DOMAIN s : s[i] \in TimeRow
    BY <1>1, ElementOfSeq
  <1>3. \A i \in DOMAIN s : s[i].start \in Int /\ s[i].end \in Int
    BY <1>2 DEF TimeRow
  <1>4. QED BY <1>3 DEF Past, EndsBy

-----------------------------------------------------------------------------
(* The clocks. *)

(* What \div rounds off is less than the divisor. *)
LEMMA DivBounds ==
  ASSUME NEW n \in Nat, NEW m \in Nat \ {0}
  PROVE  n \div m \in Nat /\ (n \div m) * m <= n /\ n < (n \div m) * m + m
OBVIOUS

(* Rounding twice loses no less than rounding once. *)
LEMMA FloorSum ==
  ASSUME NEW a \in Nat, NEW b \in Nat, NEW m \in Nat \ {0}
  PROVE  (a \div m) + (b \div m) <= (a + b) \div m
  <1>. DEFINE p == a \div m
              q == b \div m
              s == (a + b) \div m
  <1>1. /\ p \in Nat /\ q \in Nat /\ s \in Nat
        /\ p * m <= a /\ q * m <= b /\ a + b < s * m + m
    BY DivBounds
  <1>. HIDE DEF p, q, s
  <1>2. (p + q) * m = p * m + q * m
    BY <1>1
  <1>3. (p + q) * m < s * m + m
    BY <1>1, <1>2
  <1>4. p + q <= s
    <2>1. SUFFICES ASSUME p + q >= s + 1 PROVE FALSE
      BY <1>1
    <2>2. (p + q) * m >= (s + 1) * m
      BY <1>1, <2>1
    <2>3. (s + 1) * m = s * m + m
      BY <1>1
    <2>4. QED BY <1>1, <1>3, <2>2, <2>3
  <1>5. QED BY <1>4 DEF p, q, s

(* time() does not go back, and the argument of a callback lies between    *)
(* the moment that is meant, rounded down, and the present.                *)
LEMMA TimeGoesOn ==
  ASSUME NEW c \in Nat, NEW d \in Nat, c <= d
  PROVE  TimeOf(c) <= TimeOf(d) /\ TimeOf(c) \in Nat /\ TimeOf(c) >= Epoch
  <1>1. c \div MsPerSec <= d \div MsPerSec /\ c \div MsPerSec \in Nat /\ d \div MsPerSec \in Nat
    BY HandlerAssumption
  <1>2. QED BY <1>1, HandlerAssumption DEF TimeOf

(* The time a callback is told of: the present less the whole seconds of   *)
(* what was measured.                                                      *)
LEMMA CallbackTimeBounds ==
  ASSUME NEW c \in Nat, NEW ms \in Nat
  PROVE  /\ CallbackTime(c, ms) \in Int
         /\ CallbackTime(c, ms) <= TimeOf(c)
         /\ ms < TickMod /\ LateEpoch => CallbackTime(c, ms) > SecsPerDay
         /\ \A then \in Nat : ms <= c - then => CallbackTime(c, ms) >= TimeOf(then)
  <1>. DEFINE q == ms \div MsPerSec
  <1>1. q \in Nat /\ CallbackTime(c, ms) = TimeOf(c) - q
    BY DivBounds, HandlerAssumption DEF CallbackTime
  <1>2. TimeOf(c) \in Nat /\ TimeOf(c) >= Epoch /\ Epoch \in Nat
    BY TimeGoesOn, HandlerAssumption
  <1>3. ASSUME ms < TickMod, LateEpoch PROVE CallbackTime(c, ms) > SecsPerDay
    <2>1. q <= TickMod \div MsPerSec /\ TickMod \div MsPerSec \in Nat
      BY <1>3, HandlerAssumption
    <2>. HIDE DEF q
    <2>2. QED BY <1>1, <1>2, <1>3, <2>1, TimeLogAssumption DEF LateEpoch
  <1>4. ASSUME NEW then \in Nat, ms <= c - then PROVE CallbackTime(c, ms) >= TimeOf(then)
    <2>1. q + (then \div MsPerSec) <= (ms + then) \div MsPerSec
      BY FloorSum, HandlerAssumption
    <2>2. (ms + then) \div MsPerSec <= c \div MsPerSec
      BY <1>4, HandlerAssumption
    <2>3. /\ then \div MsPerSec \in Nat /\ c \div MsPerSec \in Nat
          /\ (ms + then) \div MsPerSec \in Nat
      BY DivBounds, HandlerAssumption
    <2>. HIDE DEF q
    <2>4. QED BY <1>1, <2>1, <2>2, <2>3, HandlerAssumption DEF TimeOf
  <1>. HIDE DEF q
  <1>5. QED BY <1>1, <1>2, <1>3, <1>4

(* While the tick count has not wrapped, it is the time. *)
LEMMA TicksAreTimes ==
  ASSUME NEW c \in Nat, c < TickMod
  PROVE  /\ \A x \in 0 .. c : GetTickCount(x) = x
         /\ \A x \in 0 .. c : Since(c, x) = c - x
BY HandlerAssumption DEF GetTickCount, Since

(* What the handler's methods do to the time of the last change of state.  *)
LEMMA MethodTimes ==
  ASSUME NEW u \in Handler, NEW c \in Nat, c < TickMod
  PROVE  /\ StartTimer(u, c).lastStateChangeTime = u.lastStateChangeTime
         /\ StopTracking(u).lastStateChangeTime = u.lastStateChangeTime
         /\ StartTracking(u, c).lastStateChangeTime = c
         /\ \A b \in BOOLEAN : SetIsIdle(u, b, c).lastStateChangeTime = c
         /\ \A thr \in Thresholds :
              SetThresholds(u, thr, c).lastStateChangeTime = u.lastStateChangeTime
  <1>1. GetTickCount(c) = c
    BY TicksAreTimes
  <1>2. \A v \in Handler : /\ StartTimer(v, c).lastStateChangeTime = v.lastStateChangeTime
                           /\ Rearm(v, c).lastStateChangeTime = v.lastStateChangeTime
    BY DEF StartTimer, Rearm, Handler
  <1>3. StopTracking(u).lastStateChangeTime = u.lastStateChangeTime
    BY DEF StopTracking, KillTimer, Handler
  <1>4. StartTracking(u, c).lastStateChangeTime = c
    <2>. DEFINE v == [u EXCEPT !.tracking = TRUE, !.lastStateChangeTime = c]
    <2>1. v \in Handler /\ v.lastStateChangeTime = c
      BY DEF Handler
    <2>2. StartTracking(u, c) = StartTimer(v, c)
      BY <1>1 DEF StartTracking
    <2>. HIDE DEF v
    <2>3. QED BY <1>2, <2>1, <2>2
  <1>5. ASSUME NEW b \in BOOLEAN PROVE SetIsIdle(u, b, c).lastStateChangeTime = c
    <2>. DEFINE v == [u EXCEPT !.state = IF b THEN IDLE ELSE USING, !.lastStateChangeTime = c]
    <2>1. v \in Handler /\ v.lastStateChangeTime = c
      BY DEF Handler, States, IDLE, USING
    <2>2. SetIsIdle(u, b, c) = Rearm(v, c)
      BY <1>1 DEF SetIsIdle
    <2>. HIDE DEF v
    <2>3. QED BY <1>2, <2>1, <2>2
  <1>6. ASSUME NEW thr \in Thresholds
        PROVE  SetThresholds(u, thr, c).lastStateChangeTime = u.lastStateChangeTime
    <2>. DEFINE v == [u EXCEPT !.thr = thr]
    <2>1. v \in Handler /\ v.lastStateChangeTime = u.lastStateChangeTime
      BY DEF Handler
    <2>2. SetThresholds(u, thr, c) = IF thr = u.thr THEN u ELSE Rearm(v, c)
      BY DEF SetThresholds
    <2>. HIDE DEF v
    <2>3. QED BY <1>2, <2>1, <2>2
  <1>7. QED BY <1>2, <1>3, <1>4, <1>5, <1>6

-----------------------------------------------------------------------------
(* The handler in the program. *)

Entered(u) == TimeOf(u.lastStateChangeTime)

InTime ==
  /\ clock <= MaxClock
  /\ lastInput <= clock
  /\ uih.lastStateChangeTime <= clock

(* What InTime says while the tick count does not wrap. *)
LEMMA Timely ==
  ASSUME IInv, InTime, NoWrap
  PROVE  /\ clock \in Nat /\ clock < TickMod /\ Now \in Nat
         /\ uih \in Handler /\ uih.lastStateChangeTime \in 0 .. clock
         /\ lastInput \in 0 .. clock
         /\ Entered(uih) \in Nat /\ Entered(uih) <= Now
  <1>1. clock \in Nat /\ lastInput \in Nat /\ uih \in Handler
    BY DEF IInv, TypeOK
  <1>2. uih.lastStateChangeTime \in Nat
    BY <1>1 DEF Handler
  <1>3. clock < TickMod
    BY <1>1, TimeLogAssumption, HandlerAssumption DEF InTime, NoWrap
  <1>4. Entered(uih) \in Nat /\ Entered(uih) <= Now /\ Now \in Nat
    BY <1>1, <1>2, TimeGoesOn DEF InTime, Entered, Now
  <1>5. QED BY <1>1, <1>2, <1>3, <1>4 DEF InTime

(* A poll subtracts less than one turn of the tick count from time(); and  *)
(* while the tick count does not wrap, not more than has passed since the  *)
(* last change of state.                                                   *)
LEMMA PolledBelow ==
  ASSUME IInv, up, TimerDue(uih, clock)
  PROVE  Polled.ms < TickMod
  <1>1. uih \in Handler
    BY Running
  <1>2. 0 < TickMod
    BY HandlerAssumption
  <1>3. \A a \in Int, b \in Int : Since(a, b) < TickMod
    <2>1. \A x \in Int : x % TickMod < TickMod
      BY HandlerAssumption
    <2>2. QED BY <2>1 DEF Since
  <1>. DEFINE k == KillTimer(uih)
              now == GetTickCount(clock)
              in == InputTime(k, lastInput)
  <1>4. k \in Handler /\ k.lastStateChangeTime \in Nat
    <2>1. clock \in Nat
      BY Running
    <2>2. k \in Handler
      BY <1>1, <2>1, TrackingTypes
    <2>3. QED BY <2>2 DEF Handler
  <1>5. now \in Nat /\ in \in Nat
    <2>1. clock \in Nat /\ lastInput \in Nat
      BY Running
    <2>2. now \in Nat /\ GetTickCount(lastInput) \in Nat
      BY <2>1, ClockTypes
    <2>3. QED BY <1>4, <2>2 DEF InputTime, Larger
  <1>6. Since(now, in) < TickMod /\ Since(now, k.lastStateChangeTime) < TickMod
    BY <1>3, <1>4, <1>5
  <1>. HIDE DEF k, now, in
  <1>7. PollTrying(k, clock, lastInput).ms < TickMod
    BY <1>2, <1>6 DEF PollTrying, Quiet, now, in
  <1>8. PollUsing(k, clock, lastInput).ms < TickMod
    BY <1>2, <1>6 DEF PollUsing, Quiet, now, in
  <1>9. PollIdle(k, lastInput).ms < TickMod
    BY <1>2 DEF PollIdle, Quiet
  <1>10. QED BY <1>7, <1>8, <1>9 DEF Polled, OnTimer, k

(* A poll enters a state at a moment between the one it leaves and now, and *)
(* what it measures began after the last change of state.                  *)
LEMMA PolledTimes ==
  ASSUME IInv, up, TimerDue(uih, clock), InTime, NoWrap
  PROVE  /\ Polled.u.lastStateChangeTime \in uih.lastStateChangeTime .. clock
         /\ Polled.call # "none" => Polled.ms <= clock - uih.lastStateChangeTime
         /\ Polled.call = "onReturn" => Polled.u.lastStateChangeTime = clock
  <1>1. /\ uih \in Handler /\ clock \in Nat /\ clock < TickMod
        /\ uih.lastStateChangeTime \in 0 .. clock /\ lastInput \in 0 .. clock
    BY Timely
  <1>. DEFINE k == KillTimer(uih)
              l == uih.lastStateChangeTime
              in == InputTime(k, lastInput)
  <1>2. k \in Handler /\ k.lastStateChangeTime = l
    BY <1>1, TrackingTypes DEF KillTimer, Handler
  <1>3. in \in l .. clock
    <2>1. GetTickCount(lastInput) = lastInput
      BY <1>1, TicksAreTimes
    <2>2. QED BY <1>1, <1>2, <2>1 DEF InputTime, Larger
  <1>4. /\ GetTickCount(clock) = clock
        /\ Since(clock, in) = clock - in
        /\ Since(clock, l) = clock - l
    BY <1>1, <1>3, TicksAreTimes
  <1>5. \A state, tick : Enter(k, state, tick).lastStateChangeTime = tick
    BY <1>2 DEF Enter, Handler
  <1>. HIDE DEF k, l, in
  <1>6. l \in 0 .. clock
    BY <1>1 DEF l
  <1>. DEFINE Fine(p) == /\ p.u.lastStateChangeTime \in l .. clock
                         /\ p.call # "none" => p.ms <= clock - l
                         /\ p.call = "onReturn" => p.u.lastStateChangeTime = clock
  <1>7. Fine(PollTrying(k, clock, lastInput))
    BY <1>1, <1>2, <1>3, <1>4, <1>5, <1>6 DEF PollTrying, Quiet, in
  <1>8. Fine(PollUsing(k, clock, lastInput))
    BY <1>1, <1>2, <1>3, <1>4, <1>5, <1>6 DEF PollUsing, Quiet, in
  <1>9. Fine(PollIdle(k, lastInput))
    BY <1>1, <1>2, <1>3, <1>4, <1>5, <1>6 DEF PollIdle, Quiet, in
  <1>10. Fine(Polled)
    BY <1>7, <1>8, <1>9 DEF Polled, OnTimer, k
  <1>11. QED BY <1>10 DEF l

(* The handler after start-up, after an answer and after the Options       *)
(* dialog.                                                                 *)
LEMMA HandlerEntered ==
  ASSUME IInv, InTime, NoWrap
  PROVE  /\ \A o \in Options : InitDialog(o, clock).lastStateChangeTime = clock
         /\ \A b \in BOOLEAN : Resume(b).lastStateChangeTime = clock
         /\ \A o \in Options :
              \/ ApplyOptions(o).lastStateChangeTime = clock
              \/ /\ ApplyOptions(o).lastStateChangeTime = uih.lastStateChangeTime
                 /\ ApplyOptions(o).state = uih.state
  <1>1. clock \in Nat /\ clock < TickMod /\ uih \in Handler
    BY Timely
  <1>2. ASSUME NEW o \in Options PROVE InitDialog(o, clock).lastStateChangeTime = clock
    <2>. DEFINE v == SetThresholds(NewHandler, o.thr, clock)
                w == SetIsIdle(v, TRUE, clock)
    <2>1. v \in Handler
      BY <1>1, NewHandlerType, SetThresholdsType DEF Options
    <2>2. w \in Handler /\ w.lastStateChangeTime = clock
      BY <1>1, <2>1, SetIsIdleType, MethodTimes
    <2>3. InitDialog(o, clock) = IF o.autoTrack THEN StartTracking(w, clock) ELSE w
      BY DEF InitDialog
    <2>. HIDE DEF w
    <2>4. QED BY <1>1, <2>2, <2>3, MethodTimes
  <1>3. ASSUME NEW b \in BOOLEAN PROVE Resume(b).lastStateChangeTime = clock
    <2>. DEFINE w == SetIsIdle(uih, b, clock)
    <2>1. w \in Handler /\ w.lastStateChangeTime = clock
      BY <1>1, SetIsIdleType, MethodTimes
    <2>2. Resume(b) = IF opts.autoTrack THEN StartTracking(w, clock) ELSE w
      BY DEF Resume
    <2>. HIDE DEF w
    <2>3. QED BY <1>1, <2>1, <2>2, MethodTimes
  <1>4. ASSUME NEW o \in Options
        PROVE  \/ ApplyOptions(o).lastStateChangeTime = clock
               \/ /\ ApplyOptions(o).lastStateChangeTime = uih.lastStateChangeTime
                  /\ ApplyOptions(o).state = uih.state
    <2>. DEFINE v == SetThresholds(uih, o.thr, clock)
                b == opts.cur.id <= 0
                w == SetIsIdle(v, b, clock)
    <2>1. /\ v \in Handler /\ v.lastStateChangeTime = uih.lastStateChangeTime
          /\ v.state = uih.state
      <3>1. o.thr \in Thresholds /\ Armed(uih)
        BY DEF Options, IInv
      <3>2. QED BY <1>1, <3>1, SetThresholdsType, SetThresholdsEffect, MethodTimes
    <2>2. w \in Handler
      <3>1. b \in BOOLEAN
        OBVIOUS
      <3>. HIDE DEF v, b
      <3>2. QED BY <1>1, <2>1, <3>1, SetIsIdleType
    <2>3. /\ StopTracking(v).lastStateChangeTime = v.lastStateChangeTime
          /\ StopTracking(v).state = v.state
          /\ StartTracking(w, clock).lastStateChangeTime = clock
      BY <1>1, <2>1, <2>2, MethodTimes, TrackingEffect
    <2>4. ApplyOptions(o) \in {v, StopTracking(v), StartTracking(w, clock)}
      BY DEF ApplyOptions
    <2>. HIDE DEF v, w
    <2>5. QED BY <2>1, <2>3, <2>4
  <1>5. QED BY <1>2, <1>3, <1>4

-----------------------------------------------------------------------------
(* The inductive invariant.                                                *)

Unforced(flags) == flags \cap {"startCrash", "everReenabled"} = {}
Ordered(flags) == flags \cap {"everReenabled", "badPick"} = {}

Flagged == "reenabled" \in odd => "everReenabled" \in odd

(* What NoOrphans needs: only the record pointed at is open, every start   *)
(* is positive, so that recovery gives a record an end, and the day of the *)
(* question is not the first one, so that an answer does.                  *)
Tidy(d, flags) ==
  /\ Dated(d.times)
  /\ Unforced(flags) => OpenOnly(d.times, PointerOf(d))

TidyInv == Tidy(db, odd) /\ (Asked > 0 => dlg.idleTime > SecsPerDay)

(* What the other two need: a record that may still get another end is the *)
(* last one; the record being counted did not start after the handler      *)
(* entered USING; and while nothing is counted, what is in the log had     *)
(* ended when the handler last changed its state.                          *)
Checked(d) == \A k \in DOMAIN d.options : d.options[k].lastCheck <= Now

Sane(d, flags) ==
  /\ Checked(d)
  /\ "badPick" \notin flags => Past(d.times, Now)
  /\ Ordered(flags) => InOrder(d.times) /\ PointerOf(d) \in {0, Len(d.times)}

Begun(flags, u, o) ==
  "badPick" \notin flags /\ u.state = USING => o.cur.start <= Entered(u) + 1

Waiting(flags, times, u, o, d) ==
  Ordered(flags) =>
    /\ d.log.id \in {0, Len(times)}
    /\ o.cur.id = 0 /\ d.log.id = 0 => EndsBy(times, Entered(u) + 2)

SaneInv ==
  /\ InTime
  /\ Sane(db, odd)
  /\ up => Begun(odd, uih, opts) /\ Waiting(odd, db.times, uih, opts, dlg)
  /\ ~up => Asked = 0

TimesInv ==
  /\ Flagged
  /\ LateEpoch => TidyInv
  /\ NoWrap => SaneInv

(* What is left to show of a handler that returns.                         *)
LEMMA ReturnStaysTidy ==
  ASSUME NEW f, NEW o, NEW u, NEW d, Return(f, o, u, d),
         Tidy(f, odd'), d.log.id > 0 => d.idleTime > SecsPerDay
  PROVE  TidyInv'
BY DEF Return, TidyInv, Tidy, Asked, PointerOf, OpenOnly, Dated, Unforced

(* The same of the other half of the invariant.                            *)
LEMMA ReturnStaysSane ==
  ASSUME NEW f, NEW o, NEW u, NEW d, Return(f, o, u, d),
         clock \in Nat, InTime, clock' = clock, lastInput' \in {lastInput, clock},
         Sane(f, odd'), u.lastStateChangeTime <= clock,
         Begun(odd', u, o), Waiting(odd', f.times, u, o, d)
  PROVE  SaneInv'
  <1>1. up' = TRUE /\ db' = f /\ opts' = o /\ uih' = u /\ dlg' = d
    BY DEF Return
  <1>2. InTime'
    BY <1>1 DEF InTime
  <1>3. Now' = Now
    BY DEF Now
  <1>4. Sane(db, odd)'
    BY <1>1, <1>3 DEF Sane, Checked, Ordered, PointerOf, Past, InOrder
  <1>5. Begun(odd, uih, opts)' /\ Waiting(odd, db.times, uih, opts, dlg)'
    BY <1>1 DEF Begun, Waiting, Ordered, Entered, EndsBy
  <1>6. QED BY <1>1, <1>2, <1>4, <1>5 DEF SaneInv

(* And of one that is cut short: each image must be in order.              *)
LEMMA DieStaysTidy ==
  ASSUME NEW images, NEW flags, Die(images, flags),
         \A image \in images :
           /\ Dated(image.times)
           /\ Unforced(odd) => \/ OpenOnly(image.times, PointerOf(image))
                               \/ LeavesOrphan(image)
  PROVE  TidyInv'
  <1>1. dlg'.log.id = 0
    BY DEF Die, Exit, NoDialog, NoTime
  <1>2. PICK image \in images :
          /\ db' = image
          /\ odd' = (odd \ {"reenabled"}) \cup flags
                      \cup (IF LeavesOrphan(image) THEN {"startCrash"} ELSE {})
    BY DEF Die
  <1>3. Dated(db'.times)
    BY <1>2
  <1>4. ASSUME Unforced(odd') PROVE OpenOnly(db'.times, PointerOf(db'))
    <2>1. Unforced(odd) /\ ~LeavesOrphan(image)
      BY <1>2, <1>4 DEF Unforced
    <2>2. QED BY <1>2, <2>1
  <1>5. QED BY <1>1, <1>3, <1>4 DEF TidyInv, Tidy, Asked, Dated, OpenOnly, PointerOf, Unforced

(* When the process ends only the file is left to be in order.             *)
LEMMA ExitStaysSane ==
  ASSUME Exit, clock \in Nat, InTime, clock' = clock, lastInput' \in {lastInput, clock},
         Sane(db', odd')
  PROVE  SaneInv'
  <1>1. up' = FALSE /\ uih' = NewHandler /\ dlg'.log.id = 0
    BY DEF Exit, NoDialog, NoTime
  <1>2. InTime'
    BY <1>1 DEF InTime, NewHandler
  <1>3. Now' = Now
    BY DEF Now
  <1>4. Sane(db, odd)'
    BY <1>3 DEF Sane, Checked, Ordered, PointerOf, Past, InOrder
  <1>5. QED BY <1>1, <1>2, <1>4 DEF SaneInv, Asked

(* A handler that is cut short, with what it adds to the history.          *)
LEMMA DieStaysSane ==
  ASSUME NEW images, NEW flags, Die(images, flags),
         clock \in Nat, InTime, clock' = clock, lastInput' \in {lastInput, clock},
         \A image \in images : Sane(image, odd \cup flags)
  PROVE  SaneInv'
  <1>1. PICK image \in images :
          /\ db' = image
          /\ odd' = (odd \ {"reenabled"}) \cup flags
                      \cup (IF LeavesOrphan(image) THEN {"startCrash"} ELSE {})
    BY DEF Die
  <1>2. /\ "badPick" \notin odd' => "badPick" \notin odd \cup flags
        /\ Ordered(odd') => Ordered(odd \cup flags)
    BY <1>1 DEF Ordered
  <1>3. Sane(db', odd')
    BY <1>1, <1>2 DEF Sane
  <1>4. QED BY <1>3, ExitStaysSane DEF Die

(* A handler that is cut short and adds nothing to the history.            *)
LEMMA CutShortStaysSane ==
  ASSUME NEW images, Die(images, {}),
         clock \in Nat, InTime, clock' = clock, lastInput' \in {lastInput, clock},
         \A image \in images : Sane(image, odd)
  PROVE  SaneInv'
  <1>1. PICK image \in images :
          /\ db' = image
          /\ odd' = (odd \ {"reenabled"})
                      \cup (IF LeavesOrphan(image) THEN {"startCrash"} ELSE {})
    BY DEF Die
  <1>2. /\ "badPick" \notin odd' => "badPick" \notin odd
        /\ Ordered(odd') => Ordered(odd)
    BY <1>1 DEF Ordered
  <1>3. Sane(db', odd')
    BY <1>1, <1>2 DEF Sane
  <1>4. QED BY <1>3, ExitStaysSane DEF Die

(* What the invariant says of a running program. *)
LEMMA RunningInTime ==
  ASSUME IInv, TimesInv, up
  PROVE  /\ db.times \in Seq(TimeRow) /\ Len(db.times) \in Nat
         /\ DOMAIN db.times = 1 .. Len(db.times)
         /\ PointerOf(db) = opts.cur.id /\ opts.cur.id \in Nat /\ Asked \in Nat
         /\ opts.cur.id > 0 => /\ opts.cur.id \in DOMAIN db.times
                               /\ db.times[opts.cur.id].start = opts.cur.start
         /\ Asked > 0 => /\ Asked \in DOMAIN db.times
                         /\ db.times[Asked].start = dlg.log.start
         /\ Now \in Nat /\ Now >= Epoch /\ clock \in Nat
         /\ Unforced(odd) \/ Ordered(odd) => "reenabled" \notin odd
         /\ NoWrap => opts.lastCheck <= Now
  <1>1. /\ opts \in Options /\ opts.cur \in TimeObject /\ dlg.log \in TimeObject
        /\ db.options = <<AsOptionsRow(opts)>> /\ clock \in Nat
        /\ opts.cur.id > 0 => Holds(db, opts.cur)
        /\ dlg.log.id > 0 => Holds(db, dlg.log)
    BY Running
  <1>2. \A t : Holds(db, t) => t.id \in DOMAIN db.times /\ db.times[t.id].start = t.start
    BY DEF Holds, AsRow
  <1>3. Unforced(odd) \/ Ordered(odd) => "reenabled" \notin odd
    BY DEF TimesInv, Flagged, Unforced, Ordered
  <1>4. NoWrap => opts.lastCheck <= Now
    <2>1. AsOptionsRow(opts).lastCheck = opts.lastCheck
      BY <1>1 DEF AsOptionsRow, Options
    <2>2. 1 \in DOMAIN db.options /\ db.options[1] = AsOptionsRow(opts)
      BY <1>1
    <2>3. QED BY <2>1, <2>2 DEF TimesInv, SaneInv, Sane, Checked
  <1>5. Now \in Nat /\ Now >= Epoch
    BY <1>1, TimeGoesOn DEF Now
  <1>6. QED BY <1>1, <1>2, <1>3, <1>4, <1>5, PointerInMemory DEF Asked

(* The options of an image are those of memory when it was stored. *)
LEMMA OptionsChecked ==
  ASSUME NEW d, NEW o \in Options, d.options = <<AsOptionsRow(o)>>, o.lastCheck <= Now
  PROVE  Checked(d)
  <1>1. AsOptionsRow(o).lastCheck = o.lastCheck
    BY DEF AsOptionsRow, Options
  <1>2. QED BY <1>1 DEF Checked

(* Only StoreOptions writes the options row.                               *)
LEMMA OptionsKept ==
  ASSUME NEW d \in Database
  PROVE  /\ \A t : StoreTime(d, t).options = d.options
         /\ \A name : StoreComboTask(d, name).options = d.options
         /\ AddDefaultTask(d).options = d.options
         /\ \A o : StoreOptions(d, o).options = <<AsOptionsRow(o)>>
BY DEF Database, StoreTime, StoreComboTask, AddDefaultTask, StoreOptions

-----------------------------------------------------------------------------
(* Every action keeps the invariant. *)

(* Tracking that was switched on under a question in this run was so once. *)
LEMMA FlagsGrow ==
  ASSUME IInv, Flagged, [Next]_vars
  PROVE  Flagged'
  <1>1. \A images, flags : Die(images, flags) => ("reenabled" \in odd' => "reenabled" \in flags)
    BY DEF Die
  <1>2. CASE Start \/ OnTimerReturn \/ OnTimerIdle
    BY <1>1, <1>2 DEF Start, OnTimerReturn, OnTimerIdle, Flagged
  <1>3. CASE OnTimerQuiet \/ CheckTimer \/ ActionIgnore \/ Tick \/ Input \/ UNCHANGED vars
    BY <1>3 DEF OnTimerQuiet, CheckTimer, ActionIgnore, Tick, Input, vars, Flagged
  <1>4. CASE \E tod \in TimesOfDay : ActionStop(tod)
    BY <1>4, PickFlagsType DEF ActionStop, Flagged
  <1>5. CASE \E tod \in TimesOfDay, name \in TaskNames \cup {NoName} : ActionLogAndBack(tod, name)
    BY <1>1, <1>5, PickFlagsType DEF ActionLogAndBack, Flagged
  <1>6. CASE \E tod \in TimesOfDay, name \in TaskNames \cup {NoName} : ActionSwitch(tod, name)
    BY <1>1, <1>6, PickFlagsType DEF ActionSwitch, Flagged
  <1>7. CASE \E autoTrack \in BOOLEAN, thr \in ThrChoices : OptionsOK(autoTrack, thr)
    BY <1>7 DEF OptionsOK, Flagged
  <1>8. CASE Close \/ Crash
    BY <1>1, <1>8 DEF Close, Crash, Flagged
  <1>9. QED BY <1>2, <1>3, <1>4, <1>5, <1>6, <1>7, <1>8 DEF Next

(* A poll that calls nothing back writes nothing; the handler may have     *)
(* entered another state, but only later than the one it was in.           *)
LEMMA OnTimerQuietInTime ==
  ASSUME IInv, TimesInv, OnTimerQuiet
  PROVE  (LateEpoch => TidyInv') /\ (NoWrap => SaneInv')
  <1>. DEFINE p == Polled
              u == StartTimer(p.u, clock)
  <1>1. /\ up = TRUE /\ TimerDue(uih, clock)
        /\ p.call # "onReturn" /\ ~(p.call = "onIdle" /\ opts.cur.id > 0)
        /\ uih' = u
        /\ clock' = clock /\ lastInput' = lastInput /\ db' = db /\ up' = up /\ opts' = opts
        /\ dlg' = dlg /\ odd' = odd
    BY DEF OnTimerQuiet, IInv, TypeOK
  <1>2. /\ p.u \in Handler /\ clock \in Nat /\ uih \in Handler
        /\ p.call \in {"none", "onReturn", "onIdle"}
        /\ p.call = "onIdle" => uih.state = USING
        /\ p.call = "none" => (p.u.state = USING <=> uih.state = USING)
    BY <1>1, PolledOK, Running
  <1>3. p.call = "none" /\ (u.state = USING <=> uih.state = USING)
    <2>1. uih.state = USING => opts.cur.id > 0
      BY <1>1 DEF IInv, HandlerMatchesRecord
    <2>2. u.state = p.u.state
      BY <1>2, StartTimerEffect
    <2>3. QED BY <1>1, <1>2, <2>1, <2>2
  <1>4. LateEpoch => TidyInv'
    BY <1>1 DEF TimesInv, TidyInv, Tidy, PointerOf, Asked, Dated, OpenOnly
  <1>5. ASSUME NoWrap PROVE SaneInv'
    <2>1. SaneInv /\ InTime
      BY <1>5 DEF TimesInv, SaneInv
    <2>2. p.u.lastStateChangeTime \in uih.lastStateChangeTime .. clock
      BY <1>1, <1>5, <2>1, PolledTimes
    <2>3. u.lastStateChangeTime = p.u.lastStateChangeTime
      BY <1>2 DEF StartTimer, Handler
    <2>. HIDE DEF p
    <2>4. /\ u.lastStateChangeTime \in Nat /\ uih.lastStateChangeTime \in Nat
          /\ uih.lastStateChangeTime <= u.lastStateChangeTime
          /\ u.lastStateChangeTime <= clock
      BY <1>2, <2>2, <2>3 DEF Handler
    <2>. HIDE DEF u
    <2>5. Entered(uih) <= Entered(u) /\ Entered(uih) \in Nat /\ Entered(u) \in Nat
      BY <2>4, TimeGoesOn DEF Entered
    <2>6. InTime'
      BY <1>1, <2>1, <2>4 DEF InTime
    <2>7. Sane(db, odd)'
      BY <1>1, <2>1 DEF SaneInv, Sane, Checked, Now, PointerOf, Past, InOrder, Ordered
    <2>8. Begun(odd, uih, opts) /\ Waiting(odd, db.times, uih, opts, dlg)
      BY <1>1, <2>1 DEF SaneInv
    <2>9. opts.cur.start \in Int /\ \A i \in DOMAIN db.times : db.times[i].end \in Int
      <3>1. db.times \in Seq(TimeRow) /\ DOMAIN db.times = 1 .. Len(db.times)
            /\ opts.cur \in TimeObject
        BY <1>1, Running, PointerInMemory
      <3>2. \A i \in DOMAIN db.times : db.times[i] \in TimeRow
        BY <3>1, ElementOfSeq
      <3>3. QED BY <3>1, <3>2 DEF TimeRow, TimeObject
    <2>10. Begun(odd, u, opts)
      BY <1>3, <2>5, <2>8, <2>9 DEF Begun
    <2>11. Waiting(odd, db.times, u, opts, dlg)
      BY <2>5, <2>8, <2>9 DEF Waiting, EndsBy
    <2>12. Begun(odd, uih, opts)'
      BY <1>1, <2>10 DEF Begun, Entered
    <2>13. Waiting(odd, db.times, uih, opts, dlg)'
      BY <1>1, <2>11 DEF Waiting, Ordered, EndsBy, Entered
    <2>14. QED BY <1>1, <2>6, <2>7, <2>12, <2>13 DEF SaneInv
  <1>6. QED BY <1>4, <1>5

(* The crash timer writes the time of its check, which is the present. *)
LEMMA CheckTimerInTime ==
  ASSUME IInv, TimesInv, CheckTimer
  PROVE  (LateEpoch => TidyInv') /\ (NoWrap => SaneInv')
  <1>. DEFINE o == [opts EXCEPT !.lastCheck = Now]
              d == StoreOptions(db, o)
  <1>1. /\ up = TRUE /\ Return(d, o, uih, dlg)
        /\ odd' = odd /\ clock' = clock /\ lastInput' = lastInput
    BY DEF CheckTimer, IInv, TypeOK
  <1>2. DiskOK(db) /\ opts \in Options /\ opts.cur.id \in {0} \cup DOMAIN db.times /\ clock \in Nat
    BY <1>1, Running
  <1>3. o \in Options /\ o.cur = opts.cur /\ o.lastCheck = Now /\ Now \in Int
    <2>1. Now \in Int
      BY <1>2, ClockTypes DEF Now
    <2>2. QED BY <1>2, <2>1 DEF Options
  <1>. HIDE DEF o
  <1>4. d.times = db.times /\ d.options = <<AsOptionsRow(o)>> /\ PointerOf(d) = PointerOf(db)
    BY <1>1, <1>2, <1>3, OptionsStored, PointerStored, PointerInMemory
  <1>. HIDE DEF d
  <1>5. ASSUME LateEpoch PROVE TidyInv'
    <2>1. TidyInv
      BY <1>5 DEF TimesInv
    <2>2. Tidy(d, odd')
      BY <1>1, <1>4, <2>1 DEF TidyInv, Tidy
    <2>3. dlg.log.id > 0 => dlg.idleTime > SecsPerDay
      BY <2>1 DEF TidyInv, Asked
    <2>4. QED BY <1>1, <2>2, <2>3, ReturnStaysTidy
  <1>6. ASSUME NoWrap PROVE SaneInv'
    <2>1. SaneInv
      BY <1>6 DEF TimesInv
    <2>2. Checked(d)
      BY <1>3, <1>4, OptionsChecked
    <2>3. Sane(d, odd')
      BY <1>1, <1>4, <2>1, <2>2 DEF SaneInv, Sane
    <2>4. Begun(odd', uih, o) /\ Waiting(odd', d.times, uih, o, dlg)
      BY <1>1, <1>3, <1>4, <2>1 DEF SaneInv, Begun, Waiting
    <2>5. uih.lastStateChangeTime <= clock /\ InTime
      BY <2>1 DEF SaneInv, InTime
    <2>6. QED BY <1>1, <1>2, <2>3, <2>4, <2>5, ReturnStaysSane
  <1>7. QED BY <1>5, <1>6

(* The process may end between two handlers. *)
LEMMA CrashInTime ==
  ASSUME IInv, TimesInv, Crash
  PROVE  (LateEpoch => TidyInv') /\ (NoWrap => SaneInv')
  <1>1. /\ Exit /\ odd' = odd \ {"reenabled"}
        /\ clock' = clock /\ lastInput' = lastInput /\ db' = db /\ clock \in Nat
    BY DEF Crash, IInv, TypeOK
  <1>2. Unforced(odd') => Unforced(odd)
    BY <1>1 DEF Unforced
  <1>3. LateEpoch => TidyInv'
    <2>1. dlg'.log.id = 0
      BY <1>1 DEF Exit, NoDialog, NoTime
    <2>2. QED BY <1>1, <1>2, <2>1
          DEF TimesInv, TidyInv, Tidy, Asked, Dated, OpenOnly, PointerOf, Unforced
  <1>4. ASSUME NoWrap PROVE SaneInv'
    <2>1. Sane(db, odd) /\ InTime
      BY <1>4 DEF TimesInv, SaneInv
    <2>2. Sane(db', odd')
      BY <1>1, <2>1 DEF Sane, Ordered
    <2>3. QED BY <1>1, <2>1, <2>2, ExitStaysSane
  <1>5. QED BY <1>3, <1>4

(* As time goes on the past grows. *)
LEMMA WorldInTime ==
  ASSUME IInv, TimesInv, Tick \/ Input \/ UNCHANGED vars
  PROVE  (LateEpoch => TidyInv') /\ (NoWrap => SaneInv')
  <1>1. /\ db' = db /\ up' = up /\ opts' = opts /\ uih' = uih /\ dlg' = dlg /\ odd' = odd
        /\ \/ clock' = clock + 1 /\ lastInput' = lastInput /\ clock < MaxClock
           \/ clock' = clock /\ lastInput' \in {lastInput, clock}
    BY DEF Tick, Input, vars
  <1>2. clock \in Nat /\ lastInput \in Nat /\ db \in Database /\ uih \in Handler
    BY DEF IInv, TypeOK
  <1>3. LateEpoch => TidyInv'
    BY <1>1 DEF TimesInv, TidyInv, Tidy, PointerOf, Asked, Dated, OpenOnly
  <1>4. ASSUME NoWrap PROVE SaneInv'
    <2>1. SaneInv
      BY <1>4 DEF TimesInv
    <2>2. uih.lastStateChangeTime \in Nat
      BY <1>2 DEF Handler
    <2>3. InTime'
      BY <1>1, <1>2, <2>1, <2>2, TimeLogAssumption DEF SaneInv, InTime
    <2>4. Now <= Now' /\ Now \in Nat /\ Now' \in Nat
      <3>1. clock' \in Nat /\ clock <= clock'
        BY <1>1, <1>2
      <3>2. TimeOf(clock) <= TimeOf(clock') /\ TimeOf(clock) \in Nat /\ TimeOf(clock') \in Nat
        BY <1>2, <3>1, TimeGoesOn
      <3>3. QED BY <3>2 DEF Now
    <2>5. Past(db.times, Now) => Past(db.times, Now')
      BY <1>2, <2>4, PastLasts DEF Database
    <2>6. Checked(db)'
      <3>1. \A k \in DOMAIN db.options : db.options[k].lastCheck \in Int
        <4>1. db.options \in Seq(OptionsRow) /\ DOMAIN db.options = 1 .. Len(db.options)
          BY <1>2, DatabaseDomains DEF Database
        <4>2. \A k \in DOMAIN db.options : db.options[k] \in OptionsRow
          BY <4>1, ElementOfSeq
        <4>3. QED BY <4>2 DEF OptionsRow
      <3>2. Checked(db)
        BY <2>1 DEF SaneInv, Sane
      <3>3. \A k \in DOMAIN db.options : db.options[k].lastCheck <= Now'
        BY <2>4, <3>1, <3>2 DEF Checked
      <3>4. QED BY <1>1, <3>3 DEF Checked
    <2>7. Sane(db, odd)'
      BY <1>1, <2>1, <2>5, <2>6 DEF SaneInv, Sane, PointerOf, Past, InOrder, Ordered
    <2>8. QED BY <1>1, <2>1, <2>3, <2>7
          DEF SaneInv, Begun, Waiting, Asked, Entered, EndsBy, Ordered
  <1>5. QED BY <1>3, <1>4

(* What has ended by a moment has ended by a later one. *)
LEMMA EndsLater ==
  ASSUME NEW s \in Seq(TimeRow), NEW t \in Int, NEW later \in Int, t <= later, EndsBy(s, t)
  PROVE  EndsBy(s, later)
  <1>1. DOMAIN s = 1 .. Len(s)
    BY LenProperties
  <1>2. \A i \in DOMAIN s : s[i] \in TimeRow
    BY <1>1, ElementOfSeq
  <1>3. \A i \in DOMAIN s : s[i].end \in Int
    BY <1>2 DEF TimeRow
  <1>4. QED BY <1>3 DEF EndsBy

(* The time a poll passes to its callback. *)
LEMMA PolledTime ==
  ASSUME IInv, TimesInv, up, TimerDue(uih, clock), Polled.call # "none",
         NEW time, time = CallbackTime(clock, Polled.ms)
  PROVE  /\ time \in Int
         /\ LateEpoch => time > SecsPerDay
         /\ NoWrap => time <= Now /\ time >= Entered(uih) /\ Entered(uih) \in Int
  <1>1. clock \in Nat /\ Polled.ms \in Nat /\ Polled.ms < TickMod
    BY Running, PolledOK, PolledBelow
  <1>2. time \in Int /\ time <= Now /\ (LateEpoch => time > SecsPerDay)
    BY <1>1, CallbackTimeBounds DEF Now
  <1>3. ASSUME NoWrap PROVE time >= Entered(uih) /\ Entered(uih) \in Int
    <2>1. InTime
      BY <1>3 DEF TimesInv, SaneInv
    <2>2. uih.lastStateChangeTime \in Nat /\ Entered(uih) \in Nat
      BY <1>3, <2>1, Timely
    <2>3. Polled.ms <= clock - uih.lastStateChangeTime
      BY <1>3, <2>1, PolledTimes
    <2>4. QED BY <1>1, <2>2, <2>3, CallbackTimeBounds DEF Entered
  <1>4. QED BY <1>2, <1>3

(* A poll that calls OnReturn opens a record at a moment at which the      *)
(* handler was already in the state it leaves: all records had ended.      *)
LEMMA OnTimerReturnInTime ==
  ASSUME IInv, TimesInv, OnTimerReturn
  PROVE  (LateEpoch => TidyInv') /\ (NoWrap => SaneInv')
  <1>. DEFINE p == Polled
              time == CallbackTime(clock, p.ms)
              u == StartTimer(p.u, clock)
              o == OnReturnOpts(db, time)
              d1 == OnReturnStored(db, time)
              d2 == OnReturnFinal(db, time)
              new == Len(db.times) + 1
  <1>1. /\ up = TRUE /\ TimerDue(uih, clock) /\ p.call = "onReturn"
        /\ clock' = clock /\ lastInput' = lastInput
        /\ \/ Return(d2, o, u, dlg) /\ UNCHANGED odd
           \/ Die({d1}, {})
    BY DEF OnTimerReturn, IInv, TypeOK
  <1>2. uih.tracking /\ uih.state # USING /\ p.u \in Handler
    BY <1>1, PolledOK
  <1>3. /\ time \in Int
        /\ LateEpoch => time > SecsPerDay
        /\ NoWrap => time <= Now /\ time >= Entered(uih) /\ Entered(uih) \in Int
    BY <1>1, PolledTime
  <1>4. NoWrap => u.lastStateChangeTime = clock
    <2>1. u.lastStateChangeTime = p.u.lastStateChangeTime
      BY <1>2 DEF StartTimer, Handler
    <2>. HIDE DEF u
    <2>2. QED BY <1>1, <2>1, PolledTimes DEF TimesInv, SaneInv
  <1>. HIDE DEF p, time, u
  <1>5. DiskOK(db) /\ db.tasks # <<>> /\ opts \in Options
    BY <1>1, Running
  <1>6. /\ db.times \in Seq(TimeRow) /\ Len(db.times) \in Nat
        /\ PointerOf(db) = opts.cur.id /\ Now \in Nat /\ clock \in Nat
        /\ Unforced(odd) \/ Ordered(odd) => "reenabled" \notin odd
        /\ NoWrap => opts.lastCheck <= Now
    BY <1>1, RunningInTime
  <1>7. "reenabled" \notin odd => opts.cur.id = 0 /\ Asked = 0
    <2>1. dlg.log.id \in Nat /\ opts.cur.id \in Nat
      BY <1>1, RunningInTime DEF Asked
    <2>2. QED BY <1>1, <1>2, <2>1 DEF IInv, HandlerMatchesRecord, Asked
  <1>8. /\ DiskOK(d1) /\ DiskOK(d2) /\ o \in Options
        /\ d2.options = <<AsOptionsRow(o)>> /\ Holds(d2, o.cur)
    BY <1>3, <1>5, OnReturnOK
  <1>9. /\ Len(d1.times) = new
        /\ d1.times[new].start = time
        /\ d1.times[new].end = 0
        /\ \A i \in DOMAIN db.times : d1.times[i] = db.times[i]
        /\ PointerOf(d1) = PointerOf(db)
        /\ d2.times = d1.times
        /\ PointerOf(d2) = new
        /\ o.cur.id = new
    BY <1>3, <1>5, OnReturnAdds
  <1>10. o.lastCheck = opts.lastCheck /\ o.cur.start = time
    <2>1. o.cur.start = d2.times[new].start
      BY <1>8, <1>9 DEF Holds, AsRow
    <2>2. o.lastCheck = opts.lastCheck
      BY <1>5 DEF OnReturnOpts, Options
    <2>3. QED BY <1>9, <2>1, <2>2
  <1>11. d1.options = db.options
    BY <1>5, OptionsKept DEF OnReturnStored, DiskOK
  <1>12. d1.times \in Seq(TimeRow)
    BY <1>8 DEF DiskOK, Database
  <1>. HIDE DEF d1, d2, o
  <1>13. /\ new \in DOMAIN d1.times
         /\ Dated(db.times) /\ time > 0 => Dated(d1.times)
         /\ OpenOnly(db.times, 0) => OpenOnly(d1.times, new)
         /\ Past(db.times, Now) /\ time <= Now + 1 => Past(d1.times, Now)
         /\ InOrder(db.times) /\ EndsBy(db.times, time + 2) => InOrder(d1.times)
    <2>. DEFINE a == db.times
                b == d1.times
                k == Len(a) + 1
    <2>1. /\ a \in Seq(TimeRow) /\ b \in Seq(TimeRow) /\ Now \in Int
          /\ Len(b) = k /\ \A i \in DOMAIN a : b[i] = a[i]
          /\ b[k].start = time /\ b[k].end = 0
      BY <1>6, <1>9, <1>12
    <2>. HIDE DEF a, b
    <2>2. /\ k \in DOMAIN b
          /\ Dated(a) /\ b[k].start > 0 => Dated(b)
          /\ OpenOnly(a, 0) => OpenOnly(b, k)
          /\ \A now \in Int :
               /\ Past(a, now)
               /\ b[k].start <= now + 1
               /\ b[k].end > 0 => b[k].end \in (b[k].start - 2) .. (now + 2)
               => Past(b, now)
          /\ InOrder(a) /\ EndsBy(a, b[k].start + 2) => InOrder(b)
      BY <2>1, RowAppended
    <2>3. Past(a, Now) /\ time <= Now + 1 => Past(b, Now)
      BY <2>1, <2>2
    <2>4. QED BY <2>1, <2>2, <2>3 DEF a, b
  <1>. HIDE DEF new
  <1>14. LateEpoch => Dated(d1.times) /\ (Unforced(odd) => OpenOnly(d1.times, new))
    <2>1. SUFFICES ASSUME LateEpoch
                   PROVE  Dated(d1.times) /\ (Unforced(odd) => OpenOnly(d1.times, new))
      OBVIOUS
    <2>2. time > 0
      BY <1>3, <2>1, TimeLogAssumption
    <2>3. Tidy(db, odd)
      BY <2>1 DEF TimesInv, TidyInv
    <2>4. Unforced(odd) => OpenOnly(db.times, 0)
      BY <1>6, <1>7, <2>3 DEF Tidy
    <2>5. QED BY <1>13, <2>2, <2>3, <2>4 DEF Tidy
  <1>15. ASSUME NoWrap
         PROVE  /\ Sane(d1, odd) /\ Sane(d2, odd)
                /\ Begun(odd, u, o) /\ Waiting(odd, d2.times, u, o, dlg)
    <2>1. Sane(db, odd) /\ Waiting(odd, db.times, uih, opts, dlg)
      BY <1>1, <1>15 DEF TimesInv, SaneInv
    <2>2. Checked(d1) /\ Checked(d2)
      BY <1>6, <1>8, <1>10, <1>11, <1>15, <2>1, OptionsChecked DEF Sane, Checked
    <2>3. "badPick" \notin odd => Past(d1.times, Now)
      BY <1>3, <1>6, <1>13, <1>15, <2>1 DEF Sane
    <2>4. Ordered(odd) => opts.cur.id = 0 /\ Asked = 0 /\ PointerOf(db) = 0
      BY <1>6, <1>7
    <2>5. ASSUME Ordered(odd) PROVE InOrder(d1.times)
      <3>1. EndsBy(db.times, Entered(uih) + 2)
        BY <2>1, <2>4, <2>5 DEF Waiting, Asked
      <3>2. EndsBy(db.times, time + 2)
        BY <1>3, <1>6, <1>15, <3>1, EndsLater
      <3>3. QED BY <1>13, <2>1, <2>5, <3>2 DEF Sane
    <2>6. Sane(d1, odd) /\ Sane(d2, odd)
      BY <1>9, <2>2, <2>3, <2>4, <2>5 DEF Sane
    <2>7. Begun(odd, u, o)
      <3>1. Entered(u) = Now
        BY <1>4, <1>15 DEF Entered, Now
      <3>2. QED BY <1>3, <1>6, <1>10, <1>15, <3>1 DEF Begun
    <2>8. Waiting(odd, d2.times, u, o, dlg)
      BY <1>6, <1>9, <2>4 DEF Waiting, Asked, new
    <2>9. QED BY <2>6, <2>7, <2>8
  <1>16. CASE Return(d2, o, u, dlg) /\ UNCHANGED odd
    <2>1. ASSUME LateEpoch PROVE TidyInv'
      <3>1. Tidy(d2, odd')
        BY <1>9, <1>14, <1>16, <2>1 DEF Tidy
      <3>2. dlg.log.id > 0 => dlg.idleTime > SecsPerDay
        BY <2>1 DEF TimesInv, TidyInv, Asked
      <3>3. QED BY <1>16, <3>1, <3>2, ReturnStaysTidy
    <2>2. ASSUME NoWrap PROVE SaneInv'
      <3>1. InTime /\ u.lastStateChangeTime <= clock
        BY <1>4, <1>6, <2>2 DEF TimesInv, SaneInv
      <3>2. Sane(d2, odd') /\ Begun(odd', u, o) /\ Waiting(odd', d2.times, u, o, dlg)
        BY <1>15, <1>16, <2>2
      <3>3. QED BY <1>1, <1>6, <1>16, <3>1, <3>2, ReturnStaysSane
    <2>3. QED BY <2>1, <2>2
  <1>17. CASE Die({d1}, {})
    <2>1. ASSUME LateEpoch PROVE TidyInv'
      <3>1. LeavesOrphan(d1)
        BY <1>6, <1>9, <1>13 DEF LeavesOrphan, new
      <3>2. QED BY <1>14, <1>17, <2>1, <3>1, DieStaysTidy
    <2>2. ASSUME NoWrap PROVE SaneInv'
      <3>1. InTime
        BY <2>2 DEF TimesInv, SaneInv
      <3>2. \A image \in {d1} : Sane(image, odd)
        BY <1>15, <2>2
      <3>3. QED BY <1>1, <1>6, <1>17, <3>1, <3>2, CutShortStaysSane
    <2>3. QED BY <2>1, <2>2
  <1>18. QED BY <1>1, <1>16, <1>17

(* The record being counted gets its end: the file after the first store,  *)
(* and after the second, which forgets the record.                         *)
LEMMA CurrentEndsInTime ==
  ASSUME IInv, TimesInv, up, opts.cur.id > 0, NEW time \in Int,
         LateEpoch => time > 0,
         NoWrap /\ "badPick" \notin odd => time \in (opts.cur.start - 2) .. (Now + 2),
         NEW d, d = StoreTime(db, EndedAt(time)),
         NEW f, f = StoreOptions(d, [opts EXCEPT !.cur = NoTime])
  PROVE  /\ f.times = d.times
         /\ LateEpoch => /\ Dated(d.times)
                         /\ Unforced(odd) => \A p : OpenOnly(d.times, p)
         /\ NoWrap => Sane(d, odd) /\ Sane(f, odd)
  <1>. DEFINE a == db.times
              b == d.times
              k == opts.cur.id
              o == [opts EXCEPT !.cur = NoTime]
  <1>1. /\ a \in Seq(TimeRow) /\ PointerOf(db) = k
        /\ k \in DOMAIN a /\ a[k].start = opts.cur.start
        /\ Now \in Nat /\ Len(a) \in Nat
        /\ NoWrap => opts.lastCheck <= Now
    BY RunningInTime
  <1>2. /\ DiskOK(d) /\ Grown(a, b, k, 0) /\ b[k].end = time /\ PointerOf(d) = k
    BY <1>1, CurrentStored
  <1>3. b \in Seq(TimeRow)
    BY <1>2 DEF DiskOK, Database
  <1>4. o \in Options /\ o.cur.id = 0 /\ o.lastCheck = opts.lastCheck
    <2>1. opts \in Options
      BY Running
    <2>2. QED BY <2>1, NoCurrent DEF Options
  <1>. HIDE DEF o
  <1>5. f.times = b /\ f.options = <<AsOptionsRow(o)>> /\ PointerOf(f) = 0
    BY <1>2, <1>4, OptionsStored, PointerStored DEF o
  <1>6. d.options = db.options
    BY Running, OptionsKept DEF DiskOK
  <1>. HIDE DEF a, b, k
  <1>7. /\ Len(b) = Len(a)
        /\ Dated(a) => Dated(b)
        /\ time # 0 /\ OpenOnly(a, k) => \A p : OpenOnly(b, p)
        /\ \A now \in Int :
             Past(a, now) /\ time \in (a[k].start - 2) .. (now + 2) => Past(b, now)
        /\ InOrder(a) /\ k = Len(a) => InOrder(b)
    BY <1>1, <1>2, <1>3, RowEnded
  <1>8. ASSUME LateEpoch PROVE Dated(b) /\ (Unforced(odd) => \A p : OpenOnly(b, p))
    <2>1. Dated(a) /\ (Unforced(odd) => OpenOnly(a, k))
      BY <1>1, <1>8 DEF TimesInv, TidyInv, Tidy, a
    <2>2. time # 0
      BY <1>8
    <2>3. QED BY <1>7, <2>1, <2>2
  <1>9. ASSUME NoWrap PROVE Sane(d, odd) /\ Sane(f, odd)
    <2>1. Sane(db, odd)
      BY <1>9 DEF TimesInv, SaneInv
    <2>2. Checked(d) /\ Checked(f)
      BY <1>1, <1>4, <1>5, <1>6, <1>9, <2>1, OptionsChecked DEF Sane, Checked
    <2>3. "badPick" \notin odd => Past(b, Now)
      <3>1. SUFFICES ASSUME "badPick" \notin odd PROVE Past(b, Now)
        OBVIOUS
      <3>2. Past(a, Now) /\ Now \in Int
        BY <1>1, <2>1, <3>1 DEF Sane, a
      <3>3. time \in (a[k].start - 2) .. (Now + 2)
        BY <1>1, <1>9, <3>1
      <3>4. QED BY <1>7, <3>2, <3>3
    <2>4. Ordered(odd) => InOrder(b) /\ k = Len(b)
      <3>1. k # 0
        BY DEF k
      <3>2. Ordered(odd) => InOrder(a) /\ k = Len(a)
        BY <1>1, <2>1, <3>1 DEF Sane, a
      <3>3. QED BY <1>7, <3>2
    <2>5. QED BY <1>2, <1>5, <2>2, <2>3, <2>4 DEF Sane, b
  <1>10. QED BY <1>5, <1>8, <1>9 DEF b

(* A poll that calls OnIdle ends the record at a moment at which it was    *)
(* being counted, and asks about it.                                       *)
LEMMA OnTimerIdleInTime ==
  ASSUME IInv, TimesInv, OnTimerIdle
  PROVE  (LateEpoch => TidyInv') /\ (NoWrap => SaneInv')
  <1>. DEFINE time == CallbackTime(clock, Polled.ms)
              u == StartTimer(StopTracking(Polled.u), clock)
              o == [opts EXCEPT !.cur = NoTime]
              d1 == StoreTime(db, EndedAt(time))
              d2 == StoreOptions(d1, o)
              dialog == IF dlg.log.id > 0 THEN dlg ELSE NewDialogData(time)
  <1>1. /\ up = TRUE /\ TimerDue(uih, clock) /\ opts.cur.id > 0
        /\ Polled.call = "onIdle"
        /\ clock' = clock /\ lastInput' = lastInput
        /\ \/ Return(d2, o, u, dialog) /\ UNCHANGED odd
           \/ Die({d1}, {})
    BY DEF OnTimerIdle, IInv, TypeOK
  <1>2. /\ uih.tracking /\ uih.state = USING
        /\ Polled.u \in Handler /\ Polled.u.state = IDLE
    BY <1>1, PolledOK
  <1>3. /\ time \in Int
        /\ LateEpoch => time > SecsPerDay
        /\ NoWrap => time <= Now /\ time >= Entered(uih) /\ Entered(uih) \in Int
    BY <1>1, PolledTime
  <1>4. /\ db.times \in Seq(TimeRow) /\ Len(db.times) \in Nat
        /\ PointerOf(db) = opts.cur.id /\ Now \in Nat /\ clock \in Nat
        /\ opts.cur \in TimeObject /\ opts.cur.id \in Nat /\ Asked \in Nat
        /\ Unforced(odd) \/ Ordered(odd) => "reenabled" \notin odd
    BY <1>1, RunningInTime, Running
  <1>5. u.state = IDLE /\ (NoWrap => u.lastStateChangeTime <= clock)
    <2>. DEFINE v == StopTracking(Polled.u)
    <2>1. v \in Handler /\ v.state = IDLE
      BY <1>2, <1>4, TrackingTypes, TrackingEffect
    <2>2. v.lastStateChangeTime = Polled.u.lastStateChangeTime
      BY <1>2 DEF StopTracking, KillTimer, Handler
    <2>. HIDE DEF v
    <2>3. u.state = IDLE /\ u.lastStateChangeTime = Polled.u.lastStateChangeTime
      BY <1>4, <2>1, <2>2, StartTimerEffect DEF StartTimer, Handler, v
    <2>. HIDE DEF u
    <2>4. ASSUME NoWrap PROVE Polled.u.lastStateChangeTime <= clock
      <3>1. InTime /\ uih.lastStateChangeTime \in Nat
        BY <2>4, Timely DEF TimesInv, SaneInv
      <3>2. Polled.u.lastStateChangeTime \in uih.lastStateChangeTime .. clock
        BY <1>1, <2>4, <3>1, PolledTimes
      <3>3. QED BY <1>4, <3>1, <3>2
    <2>5. QED BY <2>3, <2>4
  <1>. HIDE DEF time, u
  <1>6. NoWrap /\ "badPick" \notin odd => time \in (opts.cur.start - 2) .. (Now + 2)
    <2>1. SUFFICES ASSUME NoWrap, "badPick" \notin odd
                   PROVE  time \in (opts.cur.start - 2) .. (Now + 2)
      OBVIOUS
    <2>2. opts.cur.start <= Entered(uih) + 1 /\ opts.cur.start \in Int
      BY <1>1, <1>2, <1>4, <2>1 DEF TimesInv, SaneInv, Begun, TimeObject
    <2>3. QED BY <1>3, <1>4, <2>1, <2>2
  <1>7. LateEpoch => time > 0
    BY <1>3, TimeLogAssumption
  <1>8. /\ d2.times = d1.times
        /\ LateEpoch => /\ Dated(d1.times)
                        /\ Unforced(odd) => \A p : OpenOnly(d1.times, p)
        /\ NoWrap => Sane(d1, odd) /\ Sane(d2, odd)
    BY <1>1, <1>3, <1>6, <1>7, CurrentEndsInTime
  <1>9. Len(d1.times) = Len(db.times)
    <2>1. Grown(db.times, d1.times, PointerOf(db), 0)
      BY <1>1, <1>3, CurrentStored
    <2>2. QED BY <1>4, <2>1 DEF Grown
  <1>10. o.cur = NoTime
    <2>1. opts \in Options
      BY <1>1, Running
    <2>2. QED BY <2>1 DEF Options
  <1>. HIDE DEF d1, d2, o
  <1>11. LateEpoch => (dialog.log.id > 0 => dialog.idleTime > SecsPerDay)
    BY <1>3 DEF NewDialogData, TimesInv, TidyInv, Asked
  <1>12. ASSUME NoWrap, Ordered(odd) PROVE dialog.log.id = opts.cur.id /\ opts.cur.id = Len(d1.times)
    <2>1. Asked = 0
      BY <1>1, <1>2, <1>4, <1>12 DEF IInv, HandlerMatchesRecord, Asked
    <2>2. dialog.log.id = opts.cur.id
      BY <1>4, <2>1 DEF NewDialogData, EndedAt, Asked, TimeObject
    <2>3. PointerOf(db) \in {0, Len(db.times)}
      BY <1>12 DEF TimesInv, SaneInv, Sane
    <2>4. QED BY <1>1, <1>4, <1>9, <2>2, <2>3
  <1>. HIDE DEF dialog
  <1>13. CASE Return(d2, o, u, dialog) /\ UNCHANGED odd
    <2>1. ASSUME LateEpoch PROVE TidyInv'
      <3>1. Tidy(d2, odd')
        BY <1>8, <1>13, <2>1 DEF Tidy
      <3>2. QED BY <1>11, <1>13, <2>1, <3>1, ReturnStaysTidy
    <2>2. ASSUME NoWrap PROVE SaneInv'
      <3>1. InTime /\ u.lastStateChangeTime <= clock
        BY <1>5, <2>2 DEF TimesInv, SaneInv
      <3>2. Begun(odd', u, o)
        BY <1>5 DEF Begun, IDLE, USING
      <3>3. Waiting(odd', d2.times, u, o, dialog)
        BY <1>1, <1>8, <1>12, <1>13, <2>2 DEF Waiting
      <3>4. Sane(d2, odd')
        BY <1>8, <1>13, <2>2
      <3>5. QED BY <1>1, <1>4, <1>13, <3>1, <3>2, <3>3, <3>4, ReturnStaysSane
    <2>3. QED BY <2>1, <2>2
  <1>14. CASE Die({d1}, {})
    <2>1. ASSUME LateEpoch PROVE TidyInv'
      BY <1>8, <1>14, <2>1, DieStaysTidy
    <2>2. ASSUME NoWrap PROVE SaneInv'
      <3>1. InTime /\ \A image \in {d1} : Sane(image, odd)
        BY <1>8, <2>2 DEF TimesInv, SaneInv
      <3>2. QED BY <1>1, <1>4, <1>14, <3>1, CutShortStaysSane
    <2>3. QED BY <2>1, <2>2
  <1>15. QED BY <1>1, <1>13, <1>14

(* WM_CLOSE ends the record at the present. *)
LEMMA CloseInTime ==
  ASSUME IInv, TimesInv, Close
  PROVE  (LateEpoch => TidyInv') /\ (NoWrap => SaneInv')
  <1>. DEFINE o == [opts EXCEPT !.cur = NoTime]
              d1 == StoreTime(db, EndedAt(Now))
              d2 == StoreOptions(d1, o)
  <1>1. /\ up /\ clock' = clock /\ lastInput' \in {lastInput, clock}
        /\ \/ /\ db' = IF opts.cur.id > 0 THEN d2 ELSE db
              /\ odd' = odd \ {"reenabled"}
              /\ Exit
           \/ opts.cur.id > 0 /\ Die({d1}, {})
    BY DEF Close, EndedAt
  <1>2. /\ Now \in Nat /\ Now >= Epoch /\ clock \in Nat /\ opts.cur \in TimeObject
        /\ opts.cur.id > 0 => /\ opts.cur.id \in DOMAIN db.times
                              /\ db.times[opts.cur.id].start = opts.cur.start
    BY <1>1, RunningInTime, Running
  <1>3. LateEpoch => Now > 0
    BY <1>2, HandlerAssumption
  <1>4. opts.cur.id > 0 /\ NoWrap /\ "badPick" \notin odd
          => Now \in (opts.cur.start - 2) .. (Now + 2)
    <2>1. SUFFICES ASSUME opts.cur.id > 0, NoWrap, "badPick" \notin odd
                   PROVE  Now \in (opts.cur.start - 2) .. (Now + 2)
      OBVIOUS
    <2>2. Past(db.times, Now)
      BY <2>1 DEF TimesInv, SaneInv, Sane
    <2>3. opts.cur.start <= Now + 1 /\ opts.cur.start \in Int
      BY <1>2, <2>1, <2>2 DEF Past, TimeObject
    <2>4. QED BY <1>2, <2>3
  <1>5. opts.cur.id > 0 =>
          /\ d2.times = d1.times
          /\ LateEpoch => /\ Dated(d1.times)
                          /\ Unforced(odd) => \A p : OpenOnly(d1.times, p)
          /\ NoWrap => Sane(d1, odd) /\ Sane(d2, odd)
    BY <1>1, <1>2, <1>3, <1>4, CurrentEndsInTime
  <1>. HIDE DEF d1, d2, o
  <1>6. CASE /\ db' = IF opts.cur.id > 0 THEN d2 ELSE db
             /\ odd' = odd \ {"reenabled"}
             /\ Exit
    <2>1. Unforced(odd') => Unforced(odd)
      BY <1>6 DEF Unforced
    <2>2. dlg'.log.id = 0
      BY <1>6 DEF Exit, NoDialog, NoTime
    <2>3. ASSUME LateEpoch PROVE TidyInv'
      <3>1. Dated(db'.times) /\ (Unforced(odd) => OpenOnly(db'.times, PointerOf(db')))
        BY <1>5, <1>6, <2>3 DEF TimesInv, TidyInv, Tidy
      <3>2. QED BY <2>1, <2>2, <3>1
            DEF TidyInv, Tidy, Asked, Dated, OpenOnly, PointerOf, Unforced
    <2>4. ASSUME NoWrap PROVE SaneInv'
      <3>1. Sane(db', odd)
        BY <1>5, <1>6, <2>4 DEF TimesInv, SaneInv
      <3>2. Sane(db', odd')
        BY <1>6, <3>1 DEF Sane, Ordered
      <3>3. InTime
        BY <2>4 DEF TimesInv, SaneInv
      <3>4. QED BY <1>1, <1>2, <1>6, <3>2, <3>3, ExitStaysSane
    <2>5. QED BY <2>3, <2>4
  <1>7. CASE opts.cur.id > 0 /\ Die({d1}, {})
    <2>1. ASSUME LateEpoch PROVE TidyInv'
      BY <1>5, <1>7, <2>1, DieStaysTidy
    <2>2. ASSUME NoWrap PROVE SaneInv'
      <3>1. InTime /\ \A image \in {d1} : Sane(image, odd)
        BY <1>5, <1>7, <2>2 DEF TimesInv, SaneInv
      <3>2. QED BY <1>1, <1>2, <1>7, <3>1, CutShortStaysSane
    <2>3. QED BY <2>1, <2>2
  <1>8. QED BY <1>1, <1>6, <1>7

(* Start-up ends the record that was being counted, at the last check or a *)
(* second after its start: no later than two seconds from now.             *)
LEMMA StartInTime ==
  ASSUME IInv, TimesInv, Start
  PROVE  (LateEpoch => TidyInv') /\ (NoWrap => SaneInv')
  <1>. DEFINE u  == InitDialog(Cleared, clock)
              k  == Found.cur.id
              e  == Larger(Found.lastCheck, Found.cur.start + 1)
  <1>1. /\ ~up /\ clock' = clock /\ lastInput' = lastInput
        /\ \/ Return(Started4, Cleared, u, NoDialog) /\ UNCHANGED odd
           \/ Die({Started1, Started2, Started3}, {})
    BY StartEnds
  <1>2. /\ Started1.times = db.times /\ Started2.times = db.times
        /\ Started1.options = db.options /\ Started3.options = Started2.options
        /\ Started2.options = <<AsOptionsRow(Found)>>
        /\ Started4.options = <<AsOptionsRow(Cleared)>>
        /\ db.options = <<AsOptionsRow(Found)>> \/ (db.options = <<>> /\ Found = DefaultOptions)
        /\ PointerOf(db) = k /\ PointerOf(Started1) = k
        /\ PointerOf(Started2) = k /\ PointerOf(Started3) = k
        /\ Found \in Options /\ Cleared \in Options /\ Cleared.cur.id = 0
        /\ DiskOK(Started3)
        /\ k > 0 =>
             /\ k \in DOMAIN db.times
             /\ db.times[k].start = Found.cur.start
             /\ Grown(db.times, Started3.times, k, 0)
             /\ Started3.times[k].end = e
             /\ Started4.times = Started3.times /\ PointerOf(Started4) = 0
        /\ ~(k > 0) => Started3 = Started2 /\ Started4 = Started2
    BY StartStores
  <1>3. Cleared.lastCheck = Found.lastCheck
    BY <1>2 DEF Cleared, Options
  <1>4. /\ clock \in Nat /\ Now \in Nat /\ db.times \in Seq(TimeRow) /\ Started3.times \in Seq(TimeRow)
        /\ Len(db.times) \in Nat /\ k \in Nat
        /\ Found.cur.start \in Int /\ Found.lastCheck \in Int
        /\ e \in Int /\ e >= Found.cur.start + 1 /\ e \in {Found.lastCheck, Found.cur.start + 1}
    <2>1. /\ clock \in Nat /\ db.times \in Seq(TimeRow) /\ Started3.times \in Seq(TimeRow)
      BY <1>2 DEF IInv, TypeOK, DiskOK, Database
    <2>2. k \in Nat /\ Found.cur.start \in Int /\ Found.lastCheck \in Int
      BY <1>2 DEF Options, TimeObject
    <2>3. Now \in Nat /\ Len(db.times) \in Nat
      BY <2>1, TimeGoesOn, LenProperties DEF Now
    <2>4. e \in Int /\ e >= Found.cur.start + 1 /\ e \in {Found.lastCheck, Found.cur.start + 1}
      BY <2>2 DEF Larger
    <2>5. QED BY <2>1, <2>2, <2>3, <2>4
  <1>5. u.state = IDLE /\ (NoWrap => u.lastStateChangeTime = clock)
    BY <1>2, <1>4, InitDialogOK, HandlerEntered DEF TimesInv, SaneInv
  <1>. HIDE DEF u, k, e
  <1>6. Started4.times = Started3.times
    BY <1>2
  <1>7. ASSUME k > 0
        PROVE  /\ Len(Started3.times) = Len(db.times)
               /\ Dated(db.times) => Dated(Started3.times)
               /\ e # 0 /\ OpenOnly(db.times, k) => \A p : OpenOnly(Started3.times, p)
               /\ e # 0 /\ OpenOnly(db.times, k) => OpenOnly(Started3.times, k)
               /\ \A now \in Int :
                    Past(db.times, now) /\ e \in (db.times[k].start - 2) .. (now + 2)
                      => Past(Started3.times, now)
               /\ InOrder(db.times) /\ k = Len(db.times) => InOrder(Started3.times)
    BY <1>2, <1>4, <1>7, RowEnded
  <1>8. ASSUME LateEpoch
        PROVE  /\ \A image \in {Started1, Started2, Started3} :
                    /\ Dated(image.times)
                    /\ Unforced(odd) => OpenOnly(image.times, PointerOf(image))
               /\ Dated(Started4.times)
               /\ Unforced(odd) => OpenOnly(Started4.times, PointerOf(Started4))
    <2>1. Dated(db.times) /\ (Unforced(odd) => OpenOnly(db.times, k))
      BY <1>2, <1>8 DEF TimesInv, TidyInv, Tidy
    <2>2. CASE k > 0
      <3>1. e # 0
        <4>1. db.times[k].start > 0
          BY <1>2, <2>1, <2>2 DEF Dated
        <4>2. QED BY <1>2, <1>4, <2>2, <4>1
      <3>2. Dated(Started3.times) /\ (Unforced(odd) => \A p : OpenOnly(Started3.times, p))
        BY <1>7, <2>1, <2>2, <3>1
      <3>3. QED BY <1>2, <1>6, <2>1, <3>2
    <2>3. CASE ~(k > 0)
      BY <1>2, <2>1, <2>3
    <2>4. QED BY <2>2, <2>3
  <1>9. ASSUME NoWrap
        PROVE  /\ \A image \in {Started1, Started2, Started3} : Sane(image, odd)
               /\ Sane(Started4, odd)
    <2>1. Sane(db, odd)
      BY <1>9 DEF TimesInv, SaneInv
    <2>2. Found.lastCheck <= Now
      <3>1. CASE db.options = <<AsOptionsRow(Found)>>
        <4>1. 1 \in DOMAIN db.options /\ db.options[1] = AsOptionsRow(Found)
          BY <3>1
        <4>2. AsOptionsRow(Found).lastCheck = Found.lastCheck
          BY <1>2 DEF AsOptionsRow, Options
        <4>3. QED BY <2>1, <4>1, <4>2 DEF Sane, Checked
      <3>2. CASE Found = DefaultOptions
        BY <1>4, <3>2 DEF DefaultOptions
      <3>3. QED BY <1>2, <3>1, <3>2
    <2>3. Checked(Started1) /\ Checked(Started2) /\ Checked(Started3) /\ Checked(Started4)
      BY <1>2, <1>3, <2>1, <2>2, OptionsChecked DEF Sane, Checked
    <2>4. ASSUME "badPick" \notin odd PROVE Past(db.times, Now) /\ Past(Started3.times, Now)
      <3>1. Past(db.times, Now)
        BY <2>1, <2>4 DEF Sane
      <3>2. CASE k > 0
        <4>1. Found.cur.start <= Now + 1 /\ db.times[k].start = Found.cur.start
          BY <1>2, <3>1, <3>2 DEF Past
        <4>2. e \in (db.times[k].start - 2) .. (Now + 2) /\ Now \in Int
          BY <1>4, <2>2, <4>1
        <4>3. QED BY <1>7, <3>1, <3>2, <4>2
      <3>3. CASE ~(k > 0)
        BY <1>2, <3>1, <3>3
      <3>4. QED BY <3>2, <3>3
    <2>5. ASSUME Ordered(odd)
          PROVE  /\ InOrder(db.times) /\ InOrder(Started3.times)
                 /\ k \in {0, Len(db.times)} /\ k \in {0, Len(Started3.times)}
      <3>1. InOrder(db.times) /\ k \in {0, Len(db.times)}
        BY <1>2, <2>1, <2>5 DEF Sane
      <3>2. CASE k > 0
        BY <1>7, <3>1, <3>2
      <3>3. CASE ~(k > 0)
        BY <1>2, <3>1, <3>3
      <3>4. QED BY <3>1, <3>2, <3>3
    <2>6. Sane(Started1, odd) /\ Sane(Started2, odd) /\ Sane(Started3, odd)
      BY <1>2, <2>3, <2>4, <2>5 DEF Sane
    <2>7. k > 0 \/ PointerOf(Started4) = k
      BY <1>2
    <2>8. PointerOf(Started4) \in {0, k}
      BY <1>2, <2>7
    <2>9. Sane(Started4, odd)
      BY <1>6, <2>3, <2>4, <2>5, <2>8 DEF Sane
    <2>10. QED BY <2>6, <2>9
  <1>10. CASE Return(Started4, Cleared, u, NoDialog) /\ UNCHANGED odd
    <2>1. NoDialog.log.id = 0
      BY DEF NoDialog, NoTime
    <2>2. ASSUME LateEpoch PROVE TidyInv'
      <3>1. Tidy(Started4, odd')
        BY <1>8, <1>10, <2>2 DEF Tidy
      <3>2. QED BY <1>10, <2>1, <3>1, ReturnStaysTidy
    <2>3. ASSUME NoWrap PROVE SaneInv'
      <3>1. InTime /\ u.lastStateChangeTime <= clock /\ Entered(u) = Now
        BY <1>4, <1>5, <2>3 DEF TimesInv, SaneInv, Entered, Now
      <3>2. Begun(odd', u, Cleared)
        BY <1>5 DEF Begun, IDLE, USING
      <3>3. Waiting(odd', Started4.times, u, Cleared, NoDialog)
        <4>1. SUFFICES ASSUME Ordered(odd) PROVE EndsBy(Started4.times, Now + 2)
          BY <1>10, <2>1, <3>1 DEF Waiting
        <4>2. Past(Started3.times, Now)
          BY <1>6, <1>9, <2>3, <4>1 DEF Sane, Ordered
        <4>3. QED BY <1>4, <1>6, <4>2, PastLasts
      <3>4. Sane(Started4, odd')
        BY <1>9, <1>10, <2>3
      <3>5. QED BY <1>1, <1>4, <1>10, <3>1, <3>2, <3>3, <3>4, ReturnStaysSane
    <2>4. QED BY <2>2, <2>3
  <1>11. CASE Die({Started1, Started2, Started3}, {})
    <2>1. ASSUME LateEpoch PROVE TidyInv'
      BY <1>8, <1>11, <2>1, DieStaysTidy
    <2>2. ASSUME NoWrap PROVE SaneInv'
      <3>1. InTime /\ lastInput' \in {lastInput, clock}
        BY <1>1, <2>2 DEF TimesInv, SaneInv
      <3>2. QED BY <1>1, <1>4, <1>9, <1>11, <2>2, <3>1, CutShortStaysSane
    <2>3. QED BY <2>1, <2>2
  <1>12. QED BY <1>1, <1>10, <1>11

(* The handler after an answer has just changed its state. *)
LEMMA Resumed ==
  ASSUME IInv, TimesInv, up, NoWrap, NEW b \in BOOLEAN
  PROVE  /\ Resume(b).lastStateChangeTime = clock
         /\ Entered(Resume(b)) = Now
         /\ InTime /\ clock \in Nat
  <1>1. InTime /\ clock \in Nat
    BY Running DEF TimesInv, SaneInv
  <1>2. Resume(b).lastStateChangeTime = clock
    BY <1>1, HandlerEntered
  <1>3. QED BY <1>1, <1>2 DEF Entered, Now

(* The record that goes on was the last one. *)
LEMMA ActionIgnoreInTime ==
  ASSUME IInv, TimesInv, ActionIgnore
  PROVE  (LateEpoch => TidyInv') /\ (NoWrap => SaneInv')
  <1>. DEFINE o == [opts EXCEPT !.cur = dlg.log]
              d == StoreOptions(db, o)
              u == Resume(FALSE)
  <1>1. /\ DialogOpen /\ Return(d, o, u, NoDialog)
        /\ odd' = odd /\ clock' = clock /\ lastInput' = clock
    BY DEF ActionIgnore
  <1>2. up = TRUE /\ Asked > 0
    BY <1>1, Answering DEF Asked
  <1>3. /\ DiskOK(db) /\ opts \in Options /\ dlg.log \in TimeObject
        /\ db.times \in Seq(TimeRow) /\ DOMAIN db.times = 1 .. Len(db.times)
        /\ PointerOf(db) = opts.cur.id
        /\ Asked \in DOMAIN db.times /\ db.times[Asked].start = dlg.log.start
        /\ Now \in Nat /\ clock \in Nat
        /\ Unforced(odd) \/ Ordered(odd) => "reenabled" \notin odd
        /\ NoWrap => opts.lastCheck <= Now
    BY <1>2, Running, RunningInTime
  <1>4. "reenabled" \notin odd => opts.cur.id = 0
    BY <1>1, Answering
  <1>5. o \in Options /\ o.cur = dlg.log /\ o.cur.id = Asked /\ o.lastCheck = opts.lastCheck
    BY <1>3 DEF Options, Asked
  <1>. HIDE DEF o, u
  <1>6. /\ d.times = db.times /\ d.options = <<AsOptionsRow(o)>>
        /\ PointerOf(d) = Asked
    BY <1>3, <1>5, OptionsStored, PointerStored
  <1>7. NoDialog.log.id = 0
    BY DEF NoDialog, NoTime
  <1>. HIDE DEF d
  <1>8. ASSUME LateEpoch PROVE TidyInv'
    <2>1. Tidy(db, odd)
      BY <1>8 DEF TimesInv, TidyInv
    <2>2. Unforced(odd) => OpenOnly(db.times, Asked)
      BY <1>3, <1>4, <2>1 DEF Tidy, OpenOnly
    <2>3. Tidy(d, odd')
      BY <1>1, <1>6, <2>1, <2>2 DEF Tidy
    <2>4. QED BY <1>1, <1>7, <2>3, ReturnStaysTidy
  <1>9. ASSUME NoWrap PROVE SaneInv'
    <2>1. Sane(db, odd) /\ Waiting(odd, db.times, uih, opts, dlg)
      BY <1>2, <1>9 DEF TimesInv, SaneInv
    <2>2. u.lastStateChangeTime = clock /\ Entered(u) = Now /\ InTime
      BY <1>2, <1>9, Resumed DEF u
    <2>3. Checked(d)
      BY <1>3, <1>5, <1>6, <1>9, OptionsChecked
    <2>4. Ordered(odd) => Asked \in {0, Len(db.times)}
      BY <2>1 DEF Waiting, Asked
    <2>5. Sane(d, odd')
      BY <1>1, <1>6, <2>1, <2>3, <2>4 DEF Sane
    <2>6. Begun(odd', u, o)
      <3>1. SUFFICES ASSUME "badPick" \notin odd PROVE dlg.log.start <= Now + 1
        BY <1>1, <1>5, <2>2 DEF Begun
      <3>2. QED BY <1>3, <2>1, <3>1 DEF Sane, Past
    <2>7. Waiting(odd', d.times, u, o, NoDialog)
      BY <1>2, <1>3, <1>5, <1>7 DEF Waiting
    <2>8. u.lastStateChangeTime <= clock
      BY <1>3, <2>2
    <2>9. QED BY <1>1, <1>3, <2>2, <2>5, <2>6, <2>7, <2>8, ReturnStaysSane
  <1>10. QED BY <1>8, <1>9

(* The Options dialog writes no record.  If it starts the handler, that    *)
(* enters its state now.                                                   *)
LEMMA OptionsOKInTime ==
  ASSUME IInv, TimesInv, NEW autoTrack \in BOOLEAN, NEW thr \in ThrChoices,
         OptionsOK(autoTrack, thr)
  PROVE  (LateEpoch => TidyInv') /\ (NoWrap => SaneInv')
  <1>. DEFINE o == [opts EXCEPT !.autoTrack = autoTrack, !.thr = thr]
              d == StoreOptions(db, o)
              u == ApplyOptions(o)
  <1>1. /\ up = TRUE /\ Return(d, o, u, dlg)
        /\ clock' = clock /\ lastInput' = clock
        /\ odd \subseteq odd'
    BY DEF OptionsOK, IInv, TypeOK
  <1>2. /\ DiskOK(db) /\ opts \in Options /\ opts.cur.id \in {0} \cup DOMAIN db.times
        /\ db.times \in Seq(TimeRow)
        /\ opts.cur.id > 0 => /\ opts.cur.id \in DOMAIN db.times
                              /\ db.times[opts.cur.id].start = opts.cur.start
        /\ PointerOf(db) = opts.cur.id /\ opts.cur.id \in Nat
        /\ Now \in Nat /\ clock \in Nat
        /\ NoWrap => opts.lastCheck <= Now
    BY <1>1, Running, RunningInTime
  <1>3. o \in Options /\ o.cur = opts.cur /\ o.lastCheck = opts.lastCheck
    BY <1>2, TimeLogAssumption DEF Options
  <1>. HIDE DEF o
  <1>4. /\ d.times = db.times /\ d.options = <<AsOptionsRow(o)>>
        /\ PointerOf(d) = PointerOf(db)
    BY <1>2, <1>3, OptionsStored, PointerStored
  <1>5. u.state = USING => opts.cur.id > 0
    <2>1. uih.state = USING => opts.cur.id > 0
      BY <1>1 DEF IInv, HandlerMatchesRecord
    <2>2. /\ o.autoTrack = opts.autoTrack => u.state = uih.state
          /\ opts.autoTrack /\ ~o.autoTrack => u.state = uih.state
          /\ ~opts.autoTrack /\ o.autoTrack => u.state = IF opts.cur.id <= 0 THEN IDLE ELSE USING
      BY <1>1, <1>3, ApplyOptionsOK
    <2>3. o.autoTrack \in BOOLEAN /\ opts.autoTrack \in BOOLEAN
      BY <1>2, <1>3 DEF Options
    <2>. HIDE DEF u
    <2>4. QED BY <1>2, <2>1, <2>2, <2>3 DEF IDLE, USING
  <1>6. NoWrap => /\ InTime
                  /\ \/ u.lastStateChangeTime = clock
                     \/ /\ u.lastStateChangeTime = uih.lastStateChangeTime
                        /\ u.state = uih.state
    BY <1>3, HandlerEntered DEF TimesInv, SaneInv
  <1>. HIDE DEF d, u
  <1>7. /\ Unforced(odd') => Unforced(odd)
        /\ Ordered(odd') => Ordered(odd)
        /\ "badPick" \notin odd' => "badPick" \notin odd
    BY <1>1 DEF Unforced, Ordered
  <1>8. ASSUME LateEpoch PROVE TidyInv'
    <2>1. Tidy(d, odd')
      BY <1>4, <1>7, <1>8 DEF TimesInv, TidyInv, Tidy
    <2>2. dlg.log.id > 0 => dlg.idleTime > SecsPerDay
      BY <1>8 DEF TimesInv, TidyInv, Asked
    <2>3. QED BY <1>1, <2>1, <2>2, ReturnStaysTidy
  <1>9. ASSUME NoWrap PROVE SaneInv'
    <2>1. /\ Sane(db, odd) /\ Begun(odd, uih, opts)
          /\ Waiting(odd, db.times, uih, opts, dlg)
      BY <1>1, <1>9 DEF TimesInv, SaneInv
    <2>2. Checked(d)
      BY <1>2, <1>3, <1>4, <1>9, OptionsChecked
    <2>3. Sane(d, odd')
      BY <1>4, <1>7, <2>1, <2>2 DEF Sane
    <2>4. CASE u.lastStateChangeTime = clock
      <3>1. Entered(u) = Now
        BY <2>4 DEF Entered, Now
      <3>2. Begun(odd', u, o)
        <4>1. SUFFICES ASSUME "badPick" \notin odd, u.state = USING
                       PROVE  opts.cur.start <= Now + 1
          BY <1>3, <1>7, <3>1 DEF Begun
        <4>2. QED BY <1>2, <1>5, <2>1, <4>1 DEF Sane, Past
      <3>3. Waiting(odd', d.times, u, o, dlg)
        <4>1. SUFFICES ASSUME Ordered(odd)
                       PROVE  dlg.log.id \in {0, Len(db.times)} /\ EndsBy(db.times, Now + 2)
          BY <1>4, <1>7, <3>1 DEF Waiting
        <4>2. Past(db.times, Now)
          BY <2>1, <4>1 DEF Sane, Ordered
        <4>3. EndsBy(db.times, Now + 2)
          BY <1>2, <4>2, PastLasts
        <4>4. QED BY <2>1, <4>1, <4>3 DEF Waiting
      <3>4. u.lastStateChangeTime <= clock
        BY <1>2, <2>4
      <3>5. QED BY <1>1, <1>2, <1>6, <1>9, <2>3, <3>2, <3>3, <3>4, ReturnStaysSane
    <2>5. CASE /\ u.lastStateChangeTime = uih.lastStateChangeTime
               /\ u.state = uih.state
      <3>1. Begun(odd', u, o) /\ Waiting(odd', d.times, u, o, dlg)
        BY <1>3, <1>4, <1>7, <2>1, <2>5 DEF Begun, Waiting, Entered
      <3>2. u.lastStateChangeTime <= clock
        BY <1>6, <1>9, <2>5 DEF InTime
      <3>3. QED BY <1>1, <1>2, <1>6, <1>9, <2>3, <3>1, <3>2, ReturnStaysSane
    <2>6. QED BY <1>6, <1>9, <2>4, <2>5
  <1>10. QED BY <1>8, <1>9

(* The end the user picks: it is positive if the day of the question is    *)
(* not the first one, and if it lies between the start of the record and   *)
(* the present the log stays in order.                                     *)
LEMMA BreakInTime ==
  ASSUME IInv, TimesInv, DialogOpen, NEW tod \in TimesOfDay,
         NEW d, d = FixLogEndTime(tod),
         NEW flags, flags = odd \cup PickFlags(tod)
  PROVE  /\ LateEpoch => /\ FixedEnd(tod) > 0
                         /\ Dated(d.times)
                         /\ Unforced(odd) => OpenOnly(d.times, 0) /\ PointerOf(d) = 0
         /\ "badPick" \notin flags => FixedEnd(tod) <= Now
         /\ Unforced(flags) => Unforced(odd)
         /\ NoWrap => /\ Sane(d, flags)
                      /\ Ordered(flags) => /\ EndsBy(d.times, FixedEnd(tod) + 3)
                                           /\ PointerOf(d) = 0
  <1>. DEFINE a == db.times
              b == d.times
              k == Asked
              e == FixedEnd(tod)
  <1>1. up = TRUE /\ k > 0 /\ ("reenabled" \notin odd => opts.cur.id = 0)
    BY Answering DEF Asked
  <1>2. tod \in Nat /\ tod < SecsPerDay
    BY TimeLogAssumption DEF TimesOfDay
  <1>3. /\ a \in Seq(TimeRow) /\ Len(a) \in Nat /\ DOMAIN a = 1 .. Len(a)
        /\ PointerOf(db) = opts.cur.id
        /\ k \in DOMAIN a /\ a[k].start = dlg.log.start
        /\ dlg.log.start \in Int /\ dlg.idleTime \in Int
        /\ Now \in Nat
        /\ Unforced(odd) \/ Ordered(odd) => "reenabled" \notin odd
    BY <1>1, Running, RunningInTime DEF IdleDialogData, TimeObject
  <1>4. /\ DiskOK(d) /\ e \in Int
        /\ Grown(a, b, k, 0)
        /\ b[k].end = e
        /\ PointerOf(d) = PointerOf(db)
    BY <1>2, BreakEnded
  <1>5. d.options = db.options
    BY <1>2, FixedLogStored
  <1>6. b \in Seq(TimeRow)
    BY <1>4 DEF DiskOK, Database
  <1>7. /\ Unforced(flags) => Unforced(odd)
        /\ Ordered(flags) => Ordered(odd) /\ "badPick" \notin flags
        /\ "badPick" \notin flags => "badPick" \notin odd
    BY DEF Unforced, Ordered
  <1>8. "badPick" \notin flags => e \in dlg.log.start .. Now
    BY DEF PickFlags
  <1>. HIDE DEF a, b, k
  <1>9. /\ Len(b) = Len(a)
        /\ Dated(a) => Dated(b)
        /\ e # 0 => \A p : OpenOnly(a, p) => OpenOnly(b, p)
        /\ \A now \in Int :
             Past(a, now) /\ e \in (a[k].start - 2) .. (now + 2) => Past(b, now)
        /\ InOrder(a) /\ k = Len(a) => InOrder(b)
    <2>. HIDE DEF e
    <2>1. QED BY <1>3, <1>4, <1>6, RowEnded
  <1>10. ASSUME LateEpoch
         PROVE  /\ e > 0 /\ Dated(b)
                /\ Unforced(odd) => OpenOnly(b, 0) /\ PointerOf(d) = 0
    <2>1. Tidy(db, odd) /\ dlg.idleTime > SecsPerDay
      BY <1>1, <1>10 DEF TimesInv, TidyInv, k
    <2>2. e > 0
      <3>1. /\ dlg.idleTime % SecsPerDay \in Nat
            /\ dlg.idleTime % SecsPerDay < SecsPerDay
        BY <1>3, TimeLogAssumption
      <3>. DEFINE m == dlg.idleTime % SecsPerDay
      <3>2. e = dlg.idleTime - m + tod
        BY DEF FixedEnd
      <3>. HIDE DEF m, e
      <3>3. m \in Nat /\ m < SecsPerDay
        BY <3>1 DEF m
      <3>4. QED BY <1>2, <1>3, <2>1, <3>2, <3>3, TimeLogAssumption
    <2>. HIDE DEF e
    <2>3. Unforced(odd) => OpenOnly(a, 0) /\ PointerOf(d) = 0
      BY <1>1, <1>3, <1>4, <2>1 DEF Tidy, a
    <2>4. e # 0
      BY <1>4, <2>2
    <2>5. QED BY <1>9, <2>1, <2>2, <2>3, <2>4 DEF Tidy, a
  <1>. HIDE DEF e
  <1>11. ASSUME NoWrap
         PROVE  /\ Sane(d, flags)
                /\ Ordered(flags) => EndsBy(b, e + 3) /\ PointerOf(d) = 0
    <2>1. Sane(db, odd) /\ Waiting(odd, a, uih, opts, dlg)
      BY <1>1, <1>11 DEF TimesInv, SaneInv, a
    <2>2. Checked(d)
      BY <1>5, <2>1 DEF Sane, Checked
    <2>3. "badPick" \notin flags => Past(b, Now)
      <3>1. SUFFICES ASSUME "badPick" \notin flags PROVE Past(b, Now)
        OBVIOUS
      <3>2. Past(a, Now) /\ Now \in Int
        BY <1>3, <1>7, <2>1, <3>1 DEF Sane, a
      <3>3. e \in (a[k].start - 2) .. (Now + 2)
        BY <1>3, <1>8, <3>1
      <3>4. QED BY <1>9, <3>2, <3>3
    <2>4. ASSUME Ordered(flags)
          PROVE  /\ InOrder(a) /\ InOrder(b) /\ PointerOf(d) = 0 /\ k = Len(a)
      <3>1. InOrder(a) /\ PointerOf(d) = 0
        BY <1>1, <1>3, <1>4, <1>7, <2>1, <2>4 DEF Sane, a
      <3>2. k = Len(a)
        BY <1>1, <1>7, <2>1, <2>4 DEF Waiting, k, Asked
      <3>3. QED BY <1>9, <3>1, <3>2
    <2>5. ASSUME Ordered(flags) PROVE EndsBy(b, e + 3)
      <3>1. SUFFICES ASSUME NEW i \in DOMAIN b, b[i].end > 0 PROVE b[i].end <= e + 3
        BY DEF EndsBy
      <3>2. DOMAIN b = DOMAIN a /\ Len(b) \in Nat /\ DOMAIN b = 1 .. Len(b)
        BY <1>3, <1>6, <1>9, LenProperties
      <3>3. CASE i = k
        BY <1>4, <3>3
      <3>4. CASE i # k
        <4>1. i < k
          BY <1>3, <2>4, <2>5, <3>2, <3>4
        <4>2. b[i] \in TimeRow /\ b[k] \in TimeRow
          BY <1>3, <1>6, <3>2, ElementOfSeq
        <4>3. b[k].start = a[k].start
          <5>1. b[k] = [a[k] EXCEPT !.end = b[k].end] /\ a[k] \in TimeRow
            BY <1>3, <1>4, ElementOfSeq DEF Grown
          <5>2. QED BY <5>1 DEF TimeRow
        <4>4. b[i].end <= b[k].start + 2
          BY <1>3, <2>4, <2>5, <3>1, <3>2, <4>1 DEF InOrder
        <4>5. b[k].start <= e
          BY <1>3, <1>7, <1>8, <2>5, <4>3
        <4>6. b[i].end \in Int /\ b[k].start \in Int
          BY <4>2 DEF TimeRow
        <4>7. QED BY <1>4, <4>4, <4>5, <4>6
      <3>5. QED BY <3>3, <3>4
    <2>6. Sane(d, flags)
      BY <2>2, <2>3, <2>4 DEF Sane, b
    <2>7. QED BY <2>4, <2>5, <2>6
  <1>12. "badPick" \notin flags => e <= Now
    BY <1>3, <1>4, <1>8
  <1>13. QED BY <1>7, <1>10, <1>11, <1>12 DEF b, e

(* "Stop counting at": nothing is counted, and everything has ended. *)
LEMMA ActionStopInTime ==
  ASSUME IInv, TimesInv, NEW tod \in TimesOfDay, ActionStop(tod)
  PROVE  (LateEpoch => TidyInv') /\ (NoWrap => SaneInv')
  <1>. DEFINE d == FixLogEndTime(tod)
              u == Resume(TRUE)
  <1>1. /\ DialogOpen /\ Return(d, opts, u, NoDialog)
        /\ odd' = odd \cup PickFlags(tod)
        /\ clock' = clock /\ lastInput' = clock
    BY DEF ActionStop
  <1>2. up = TRUE
    BY <1>1, Answering
  <1>3. /\ LateEpoch => /\ Dated(d.times)
                        /\ Unforced(odd) => OpenOnly(d.times, 0) /\ PointerOf(d) = 0
        /\ Unforced(odd') => Unforced(odd)
        /\ NoWrap => Sane(d, odd')
    BY <1>1, BreakInTime
  <1>4. d.times \in Seq(TimeRow) /\ Now \in Nat /\ clock \in Nat
    <2>1. tod \in Nat
      BY TimeLogAssumption DEF TimesOfDay
    <2>2. DiskOK(d)
      BY <1>1, <2>1, BreakEnded
    <2>3. QED BY <1>2, <2>2, RunningInTime DEF DiskOK, Database
  <1>5. u.state = IDLE
    BY <1>2, ResumeOK
  <1>6. NoWrap => u.lastStateChangeTime = clock /\ Entered(u) = Now /\ InTime
    BY <1>2, Resumed
  <1>7. NoDialog.log.id = 0
    BY DEF NoDialog, NoTime
  <1>. HIDE DEF d, u
  <1>8. ASSUME LateEpoch PROVE TidyInv'
    <2>1. Tidy(d, odd')
      BY <1>3, <1>8 DEF Tidy
    <2>2. QED BY <1>1, <1>7, <2>1, ReturnStaysTidy
  <1>9. ASSUME NoWrap PROVE SaneInv'
    <2>1. Begun(odd', u, opts)
      BY <1>5 DEF Begun, IDLE, USING
    <2>2. Waiting(odd', d.times, u, opts, NoDialog)
      <3>1. SUFFICES ASSUME Ordered(odd') PROVE EndsBy(d.times, Now + 2)
        BY <1>6, <1>7, <1>9 DEF Waiting
      <3>2. Past(d.times, Now)
        BY <1>3, <1>9, <3>1 DEF Sane, Ordered
      <3>3. QED BY <1>4, <3>2, PastLasts
    <2>3. Sane(d, odd') /\ u.lastStateChangeTime <= clock
      BY <1>3, <1>4, <1>6, <1>9
    <2>4. QED BY <1>1, <1>4, <1>6, <1>9, <2>1, <2>2, <2>3, ReturnStaysSane
  <1>10. QED BY <1>8, <1>9

(* A record is added to an image. *)
LEMMA AppendedInTime ==
  ASSUME NEW d, NEW e, NEW flags, Sane(d, flags), Checked(e), Now \in Int,
         d.times \in Seq(TimeRow), e.times \in Seq(TimeRow),
         Len(e.times) = Len(d.times) + 1,
         \A i \in DOMAIN d.times : e.times[i] = d.times[i],
         NEW new, new = Len(e.times),
         "badPick" \notin flags =>
           /\ e.times[new].start <= Now + 1
           /\ e.times[new].end > 0 =>
                e.times[new].end \in (e.times[new].start - 2) .. (Now + 2),
         Ordered(flags) => /\ EndsBy(d.times, e.times[new].start + 2)
                           /\ PointerOf(e) \in {0, new}
  PROVE  Sane(e, flags)
  <1>. DEFINE a == d.times
              b == e.times
  <1>1. /\ a \in Seq(TimeRow) /\ b \in Seq(TimeRow)
        /\ Len(b) = new /\ \A i \in DOMAIN a : b[i] = a[i]
        /\ new = Len(a) + 1
    OBVIOUS
  <1>2. "badPick" \notin flags =>
          /\ Past(a, Now)
          /\ b[new].start <= Now + 1
          /\ b[new].end > 0 => b[new].end \in (b[new].start - 2) .. (Now + 2)
    BY DEF Sane
  <1>3. Ordered(flags) => InOrder(a) /\ EndsBy(a, b[new].start + 2)
    BY DEF Sane
  <1>. HIDE DEF a, b
  <1>4. /\ \A now \in Int :
             /\ Past(a, now)
             /\ b[new].start <= now + 1
             /\ b[new].end > 0 => b[new].end \in (b[new].start - 2) .. (now + 2)
             => Past(b, now)
        /\ InOrder(a) /\ EndsBy(a, b[new].start + 2) => InOrder(b)
    BY <1>1, RowAppended
  <1>5. "badPick" \notin flags => Past(b, Now)
    BY <1>2, <1>4
  <1>6. Ordered(flags) => InOrder(b)
    BY <1>3, <1>4
  <1>7. QED BY <1>1, <1>5, <1>6 DEF Sane, b

(* The answers' first new record, which starts when the old one ends: the  *)
(* file after each of the three stores.  If it has an end, that is the     *)
(* moment of the answer.                                                   *)
LEMMA BreakRecorded ==
  ASSUME IInv, TimesInv, DialogOpen,
         NEW tod \in TimesOfDay, NEW name \in TaskNames \cup {NoName},
         NEW flags, flags = odd \cup PickFlags(tod),
         NEW d1, d1 = FixLogEndTime(tod),
         NEW d2, d2 = StoreComboTask(d1, name),
         NEW t \in TimeObject, t.id = 0, t.start = FixedEnd(tod) + 1,
         t.task = ComboTask(d1, name), t.end \in {0, Now - 1},
         NEW d3, d3 = StoreTime(d2, t),
         NEW new, new = Len(db.times) + 1
  PROVE  /\ d2.times = d1.times /\ d3.times \in Seq(TimeRow)
         /\ Len(d3.times) = new /\ d3.times[new].end = t.end
         /\ DiskOK(d3) /\ d3.tasks # <<>>
         /\ LateEpoch =>
              /\ Dated(d1.times) /\ Dated(d3.times)
              /\ Unforced(odd) =>
                   /\ OpenOnly(d1.times, 0) /\ OpenOnly(d3.times, new)
                   /\ t.end # 0 => OpenOnly(d3.times, 0)
                   /\ PointerOf(d1) = 0 /\ PointerOf(d2) = 0 /\ PointerOf(d3) = 0
         /\ t.end = 0 => LeavesOrphan(d3)
         /\ NoWrap => /\ Sane(d1, flags) /\ Sane(d2, flags) /\ Sane(d3, flags)
                      /\ Ordered(flags) => PointerOf(d3) = 0
  <1>. DEFINE f == FixedEnd(tod)
  <1>1. up = TRUE /\ tod \in Nat
    BY Answering, TimeLogAssumption DEF TimesOfDay
  <1>2. /\ Now \in Nat /\ Len(db.times) \in Nat /\ db.times \in Seq(TimeRow)
        /\ Now >= Epoch
    BY <1>1, RunningInTime
  <1>3. /\ LateEpoch => /\ f > 0
                        /\ Dated(d1.times)
                        /\ Unforced(odd) => OpenOnly(d1.times, 0) /\ PointerOf(d1) = 0
        /\ "badPick" \notin flags => f <= Now
        /\ NoWrap => /\ Sane(d1, flags)
                     /\ Ordered(flags) => EndsBy(d1.times, f + 3) /\ PointerOf(d1) = 0
    BY BreakInTime
  <1>4. /\ DiskOK(d1) /\ d1.tasks # <<>> /\ f \in Int
        /\ Grown(db.times, d1.times, Asked, 0)
        /\ CutOff(d1)
    BY <1>1, BreakEnded
  <1>5. /\ DiskOK(d2) /\ d2.tasks # <<>> /\ d2.times = d1.times
        /\ PointerOf(d2) = PointerOf(d1)
        /\ t.task \in DOMAIN d2.tasks
    BY <1>4, TaskNamed
  <1>6. d2.options = d1.options /\ d3.options = d2.options
    BY <1>4, <1>5, OptionsKept DEF DiskOK
  <1>7. DiskOK(d3) /\ d3.tasks # <<>>
    BY <1>5, InsertTime
  <1>8. /\ Len(d3.times) = Len(d2.times) + 1
        /\ d3.times[Len(d2.times) + 1] = AsRow(t)
        /\ \A i \in DOMAIN d2.times : d3.times[i] = d2.times[i]
        /\ PointerOf(d3) = PointerOf(d2)
    BY <1>5, RowAdded
  <1>9. d1.times \in Seq(TimeRow) /\ d2.times \in Seq(TimeRow) /\ d3.times \in Seq(TimeRow)
    BY <1>4, <1>5, <1>7 DEF DiskOK, Database
  <1>10. new = Len(d2.times) + 1
    BY <1>2, <1>4, <1>5 DEF Grown
  <1>. HIDE DEF f
  <1>11. /\ d3.times[new].start = f + 1 /\ d3.times[new].end = t.end
         /\ t.end \in Int
    BY <1>8, <1>10 DEF AsRow, f, TimeObject
  <1>12. /\ new \in DOMAIN d3.times
         /\ Dated(d2.times) /\ f + 1 > 0 => Dated(d3.times)
         /\ t.end # 0 /\ OpenOnly(d2.times, 0) => OpenOnly(d3.times, 0)
         /\ OpenOnly(d2.times, 0) => OpenOnly(d3.times, new)
    <2>. DEFINE a == d2.times
                b == d3.times
    <2>1. /\ a \in Seq(TimeRow) /\ b \in Seq(TimeRow)
          /\ Len(b) = new /\ \A i \in DOMAIN a : b[i] = a[i]
          /\ new = Len(a) + 1
          /\ b[new].start = f + 1 /\ b[new].end = t.end
      BY <1>8, <1>9, <1>10, <1>11
    <2>. HIDE DEF a, b
    <2>2. /\ new \in DOMAIN b
          /\ Dated(a) /\ b[new].start > 0 => Dated(b)
          /\ b[new].end # 0 => \A p : OpenOnly(a, p) => OpenOnly(b, p)
          /\ OpenOnly(a, 0) => OpenOnly(b, new)
      BY <2>1, RowAppended
    <2>3. QED BY <2>1, <2>2 DEF a, b
  <1>13. ASSUME LateEpoch
         PROVE  /\ Dated(d3.times)
                /\ Unforced(odd) =>
                     /\ OpenOnly(d3.times, new)
                     /\ t.end # 0 => OpenOnly(d3.times, 0)
                     /\ PointerOf(d3) = 0
    <2>1. f + 1 > 0
      BY <1>3, <1>4, <1>13 DEF f
    <2>2. QED BY <1>3, <1>5, <1>8, <1>12, <1>13, <2>1
  <1>14. t.end = 0 => LeavesOrphan(d3)
    BY <1>2, <1>11, <1>12 DEF LeavesOrphan
  <1>15. ASSUME NoWrap PROVE Sane(d2, flags) /\ Sane(d3, flags)
    <2>1. Sane(d1, flags)
      BY <1>3, <1>15
    <2>2. Sane(d2, flags)
      BY <1>5, <1>6, <2>1 DEF Sane, Checked
    <2>3. Checked(d3)
      BY <1>6, <2>2 DEF Sane, Checked
    <2>4. "badPick" \notin flags =>
            /\ f + 1 <= Now + 1
            /\ t.end > 0 => t.end \in (f + 1 - 2) .. (Now + 2)
      <3>1. SUFFICES ASSUME "badPick" \notin flags
                     PROVE  /\ f + 1 <= Now + 1
                            /\ t.end > 0 => t.end \in (f + 1 - 2) .. (Now + 2)
        OBVIOUS
      <3>2. f <= Now /\ f \in Int
        BY <1>3, <1>4, <3>1 DEF f
      <3>3. QED BY <1>2, <3>2
    <2>5. Ordered(flags) => EndsBy(d2.times, f + 1 + 2) /\ PointerOf(d3) = 0
      <3>1. f + 1 + 2 = f + 3
        BY <1>4 DEF f
      <3>2. QED BY <1>3, <1>5, <1>8, <1>15, <3>1
    <2>6. /\ "badPick" \notin flags =>
               /\ d3.times[new].start <= Now + 1
               /\ d3.times[new].end > 0 =>
                    d3.times[new].end \in (d3.times[new].start - 2) .. (Now + 2)
          /\ Ordered(flags) => /\ EndsBy(d2.times, d3.times[new].start + 2)
                               /\ PointerOf(d3) \in {0, new}
      <3>. DEFINE row == d3.times[new]
      <3>1. row.start = f + 1 /\ row.end = t.end /\ t.end \in Int
        BY <1>11
      <3>2. f \in Int /\ Now \in Int
        BY <1>2, <1>4 DEF f
      <3>. HIDE DEF row
      <3>3. "badPick" \notin flags =>
              /\ row.start <= Now + 1
              /\ row.end > 0 => row.end \in (row.start - 2) .. (Now + 2)
        BY <2>4, <3>1, <3>2
      <3>4. Ordered(flags) => /\ EndsBy(d2.times, row.start + 2)
                              /\ PointerOf(d3) \in {0, new}
        BY <2>5, <3>1, <3>2
      <3>5. QED BY <3>3, <3>4 DEF row
    <2>7. /\ Now \in Int
          /\ new = Len(d3.times) /\ Len(d3.times) = Len(d2.times) + 1
          /\ \A i \in DOMAIN d2.times : d3.times[i] = d2.times[i]
      BY <1>2, <1>8, <1>10
    <2>8. Sane(d3, flags)
      BY <1>9, <2>2, <2>3, <2>6, <2>7, AppendedInTime
    <2>9. QED BY <2>2, <2>8
  <1>16. QED BY <1>3, <1>5, <1>7, <1>8, <1>9, <1>10, <1>11, <1>13, <1>14, <1>15

(* What is left to show of an answer after which something is counted.     *)
LEMMA AnsweredInTime ==
  ASSUME IInv, TimesInv, up, NEW d, NEW o, Return(d, o, Resume(FALSE), NoDialog),
         clock' = clock, lastInput' = clock, o.cur.id # 0,
         "badPick" \notin odd' => o.cur.start <= Now + 1,
         LateEpoch => Tidy(d, odd'),
         NoWrap => Sane(d, odd')
  PROVE  (LateEpoch => TidyInv') /\ (NoWrap => SaneInv')
  <1>. DEFINE u == Resume(FALSE)
  <1>1. NoWrap => u.lastStateChangeTime = clock /\ Entered(u) = Now /\ InTime
    BY Resumed
  <1>2. NoDialog.log.id = 0
    BY DEF NoDialog, NoTime
  <1>3. clock \in Nat
    BY RunningInTime
  <1>4. Return(d, o, u, NoDialog)
    OBVIOUS
  <1>. HIDE DEF u
  <1>5. LateEpoch => TidyInv'
    BY <1>2, <1>4, ReturnStaysTidy
  <1>6. ASSUME NoWrap PROVE SaneInv'
    <2>1. Begun(odd', u, o)
      BY <1>1, <1>6 DEF Begun
    <2>2. Waiting(odd', d.times, u, o, NoDialog)
      BY <1>2 DEF Waiting
    <2>3. u.lastStateChangeTime <= clock /\ InTime
      BY <1>1, <1>3, <1>6
    <2>4. QED BY <1>3, <1>4, <1>6, <2>1, <2>2, <2>3, ReturnStaysSane
  <1>7. QED BY <1>5, <1>6

(* And of the file after it: it points at its last record.                 *)
LEMMA PointedAtLast ==
  ASSUME NEW d, NEW e, NEW flags, Sane(d, flags), Checked(e), e.times = d.times,
         PointerOf(e) = Len(d.times)
  PROVE  Sane(e, flags)
BY DEF Sane

(* "Log this break and keep counting old task": the break gets a record    *)
(* that ends now, and what follows it another one, which is left open.     *)
LEMMA ActionLogAndBackInTime ==
  ASSUME IInv, TimesInv, NEW tod \in TimesOfDay, NEW name \in TaskNames \cup {NoName},
         ActionLogAndBack(tod, name)
  PROVE  (LateEpoch => TidyInv') /\ (NoWrap => SaneInv')
  <1>. DEFINE d1 == FixLogEndTime(tod)
              d2 == StoreComboTask(d1, name)
              other == [Fresh(ComboTask(d1, name), FixedEnd(tod) + 1) EXCEPT !.end = Now - 1]
              d3 == StoreTime(d2, other)
              back == BackAt(other)
              o == OnReturnOpts(d3, back)
              d4 == OnReturnStored(d3, back)
              d5 == OnReturnFinal(d3, back)
              new == Len(db.times) + 1
              flags == odd \cup PickFlags(tod)
  <1>1. /\ DialogOpen
        /\ \/ /\ Return(d5, o, Resume(FALSE), NoDialog)
              /\ odd' = flags
           \/ Die({d1, d2, d3, d4}, PickFlags(tod))
        /\ clock' = clock /\ lastInput' = clock
    BY DEF ActionLogAndBack
  <1>2. up = TRUE /\ tod \in Nat
    BY <1>1, Answering, TimeLogAssumption DEF TimesOfDay
  <1>3. /\ opts \in Options /\ Now \in Nat /\ Now >= Epoch /\ clock \in Nat
        /\ Len(db.times) \in Nat
        /\ NoWrap => opts.lastCheck <= Now
    BY <1>2, Running, RunningInTime
  <1>4. /\ other \in TimeObject /\ other.id = 0 /\ other.task = ComboTask(d1, name)
        /\ other.start = FixedEnd(tod) + 1 /\ other.end = Now - 1
    <2>1. FixedEnd(tod) + 1 \in Int /\ ComboTask(d1, name) \in Nat
      BY <1>1, <1>2, BreakEnded, TaskNamed
    <2>2. QED BY <1>3, <2>1 DEF Fresh, TimeObject
  <1>5. back = Now
    BY <1>3, <1>4 DEF BackAt
  <1>. HIDE DEF other, back
  <1>6. /\ d2.times = d1.times /\ d3.times \in Seq(TimeRow)
        /\ Len(d3.times) = new /\ d3.times[new].end = Now - 1
        /\ DiskOK(d3) /\ d3.tasks # <<>>
        /\ LateEpoch =>
              /\ Dated(d1.times) /\ Dated(d3.times)
              /\ Unforced(odd) =>
                   /\ OpenOnly(d1.times, 0)
                   /\ Now - 1 # 0 => OpenOnly(d3.times, 0)
                   /\ PointerOf(d1) = 0 /\ PointerOf(d2) = 0 /\ PointerOf(d3) = 0
        /\ NoWrap => /\ Sane(d1, flags) /\ Sane(d2, flags) /\ Sane(d3, flags)
                     /\ Ordered(flags) => PointerOf(d3) = 0
    <2>1. /\ d1 = FixLogEndTime(tod) /\ d2 = StoreComboTask(d1, name)
          /\ d3 = StoreTime(d2, other)
          /\ flags = odd \cup PickFlags(tod) /\ new = Len(db.times) + 1
      OBVIOUS
    <2>2. /\ other.end \in {0, Now - 1} /\ DialogOpen
          /\ other \in TimeObject /\ other.id = 0 /\ other.task = ComboTask(d1, name)
          /\ other.start = FixedEnd(tod) + 1
      BY <1>1, <1>4
    <2>. HIDE DEF d1, d2, d3, flags, new
    <2>3. /\ d2.times = d1.times /\ d3.times \in Seq(TimeRow)
          /\ Len(d3.times) = new /\ d3.times[new].end = other.end
          /\ DiskOK(d3) /\ d3.tasks # <<>>
          /\ LateEpoch =>
                /\ Dated(d1.times) /\ Dated(d3.times)
                /\ Unforced(odd) =>
                     /\ OpenOnly(d1.times, 0) /\ OpenOnly(d3.times, new)
                     /\ other.end # 0 => OpenOnly(d3.times, 0)
                     /\ PointerOf(d1) = 0 /\ PointerOf(d2) = 0 /\ PointerOf(d3) = 0
          /\ other.end = 0 => LeavesOrphan(d3)
          /\ NoWrap => /\ Sane(d1, flags) /\ Sane(d2, flags) /\ Sane(d3, flags)
                       /\ Ordered(flags) => PointerOf(d3) = 0
      BY <2>1, <2>2, BreakRecorded
    <2>4. QED BY <1>4, <2>3
  <1>. HIDE DEF d1, d2, d3, flags
  <1>7. /\ DiskOK(d4) /\ DiskOK(d5) /\ o \in Options
        /\ d5.options = <<AsOptionsRow(o)>> /\ Holds(d5, o.cur)
    <2>1. DiskOK(d3) /\ d3.tasks # <<>> /\ opts \in Options /\ back \in Int
      BY <1>3, <1>5, <1>6
    <2>2. QED BY <2>1, OnReturnOK
  <1>8. /\ Len(d4.times) = new + 1
        /\ d4.times[new + 1].start = Now
        /\ d4.times[new + 1].end = 0
        /\ \A i \in DOMAIN d3.times : d4.times[i] = d3.times[i]
        /\ PointerOf(d4) = PointerOf(d3)
        /\ d5.times = d4.times
        /\ PointerOf(d5) = new + 1
        /\ o.cur.id = new + 1
    BY <1>3, <1>5, <1>6, OnReturnAdds
  <1>9. o.lastCheck = opts.lastCheck /\ o.cur.start = Now
    <2>1. o.cur.start = d5.times[new + 1].start
      BY <1>7, <1>8 DEF Holds, AsRow
    <2>2. o.lastCheck = opts.lastCheck
      BY <1>3 DEF OnReturnOpts, Options
    <2>3. QED BY <1>8, <2>1, <2>2
  <1>10. d4.options = d3.options
    BY <1>6, OptionsKept DEF OnReturnStored, DiskOK
  <1>11. d4.times \in Seq(TimeRow)
    BY <1>7 DEF DiskOK, Database
  <1>. HIDE DEF d4, d5, o
  <1>12. /\ new + 1 \in DOMAIN d4.times
         /\ Dated(d3.times) /\ Now > 0 => Dated(d4.times)
         /\ OpenOnly(d3.times, 0) => OpenOnly(d4.times, new + 1)
    <2>. DEFINE a == d3.times
                b == d4.times
                k == Len(a) + 1
    <2>1. /\ a \in Seq(TimeRow) /\ b \in Seq(TimeRow)
          /\ Len(b) = k /\ \A i \in DOMAIN a : b[i] = a[i]
          /\ b[k].start = Now /\ k = new + 1
      BY <1>6, <1>8, <1>11
    <2>. HIDE DEF a, b, k
    <2>2. k = Len(a) + 1
      BY DEF k
    <2>3. /\ k \in DOMAIN b
          /\ Dated(a) /\ b[k].start > 0 => Dated(b)
          /\ OpenOnly(a, 0) => OpenOnly(b, k)
      BY <2>1, <2>2, RowAppended
    <2>4. QED BY <2>1, <2>3 DEF a, b
  <1>13. /\ LateEpoch =>
              /\ Dated(d1.times) /\ Dated(d3.times) /\ Dated(d4.times)
              /\ Unforced(odd) =>
                   /\ OpenOnly(d1.times, 0) /\ OpenOnly(d3.times, 0)
                   /\ OpenOnly(d4.times, new + 1)
                   /\ PointerOf(d1) = 0 /\ PointerOf(d2) = 0 /\ PointerOf(d3) = 0
         /\ LeavesOrphan(d4)
    <2>1. LateEpoch => Now > 1
      <3>1. TickMod \div MsPerSec \in Nat
        BY HandlerAssumption
      <3>2. QED BY <1>3, <3>1, HandlerAssumption, TimeLogAssumption DEF LateEpoch
    <2>2. LeavesOrphan(d4)
      BY <1>3, <1>8, <1>12 DEF LeavesOrphan
    <2>3. LateEpoch => Now > 0 /\ Now - 1 # 0
      BY <1>3, <2>1
    <2>4. QED BY <1>6, <1>12, <2>2, <2>3
  <1>14. ASSUME NoWrap PROVE Sane(d4, flags) /\ Sane(d5, flags)
    <2>1. Sane(d3, flags) /\ (Ordered(flags) => PointerOf(d3) = 0)
      BY <1>6, <1>14
    <2>2. Checked(d4) /\ Checked(d5)
      BY <1>3, <1>7, <1>9, <1>10, <1>14, <2>1, OptionsChecked DEF Sane, Checked
    <2>. DEFINE k == Len(d4.times)
    <2>3. /\ k = Len(d4.times) /\ Len(d4.times) = Len(d3.times) + 1
          /\ d4.times[k].start = Now /\ d4.times[k].end = 0
      BY <1>6, <1>8
    <2>. HIDE DEF k, new
    <2>4. Ordered(flags) => EndsBy(d3.times, Now + 2)
      <3>1. Ordered(flags) => Past(d3.times, Now)
        BY <2>1 DEF Sane, Ordered
      <3>2. QED BY <1>3, <1>6, <3>1, PastLasts
    <2>5. /\ "badPick" \notin flags =>
               /\ d4.times[k].start <= Now + 1
               /\ d4.times[k].end > 0 =>
                    d4.times[k].end \in (d4.times[k].start - 2) .. (Now + 2)
          /\ Ordered(flags) => /\ EndsBy(d3.times, d4.times[k].start + 2)
                               /\ PointerOf(d4) \in {0, k}
      BY <1>3, <1>8, <2>1, <2>3, <2>4
    <2>6. Sane(d4, flags)
      <3>1. /\ Now \in Int /\ Sane(d3, flags) /\ Checked(d4)
            /\ d3.times \in Seq(TimeRow) /\ d4.times \in Seq(TimeRow)
            /\ \A i \in DOMAIN d3.times : d4.times[i] = d3.times[i]
        BY <1>3, <1>6, <1>8, <1>11, <2>1, <2>2
      <3>2. QED BY <2>3, <2>5, <3>1, AppendedInTime
    <2>7. Sane(d5, flags)
      BY <1>8, <2>2, <2>6, PointedAtLast
    <2>8. QED BY <2>6, <2>7
  <1>15. CASE Return(d5, o, Resume(FALSE), NoDialog) /\ odd' = flags
    <2>1. ASSUME LateEpoch PROVE Tidy(d5, odd')
      <3>1. Unforced(odd') => Unforced(odd)
        BY <1>15 DEF Unforced, flags
      <3>2. QED BY <1>8, <1>13, <2>1, <3>1 DEF Tidy
    <2>2. NoWrap => Sane(d5, odd')
      BY <1>14, <1>15
    <2>3. o.cur.id # 0 /\ o.cur.start <= Now + 1
      BY <1>3, <1>8, <1>9
    <2>4. QED BY <1>1, <1>2, <1>15, <2>1, <2>2, <2>3, AnsweredInTime
  <1>16. CASE Die({d1, d2, d3, d4}, PickFlags(tod))
    <2>1. ASSUME LateEpoch PROVE TidyInv'
      <3>1. \A image \in {d1, d2, d3, d4} :
              /\ Dated(image.times)
              /\ Unforced(odd) => \/ OpenOnly(image.times, PointerOf(image))
                                  \/ LeavesOrphan(image)
        BY <1>6, <1>13, <2>1
      <3>2. QED BY <1>16, <3>1, DieStaysTidy
    <2>2. ASSUME NoWrap PROVE SaneInv'
      <3>1. InTime
        BY <2>2 DEF TimesInv, SaneInv
      <3>2. \A image \in {d1, d2, d3, d4} : Sane(image, odd \cup PickFlags(tod))
        BY <1>6, <1>14, <2>2 DEF flags
      <3>3. clock \in Nat /\ clock' = clock /\ lastInput' \in {lastInput, clock}
        BY <1>1, <1>3
      <3>. DEFINE images == {d1, d2, d3, d4}
                  picks == PickFlags(tod)
      <3>4. Die(images, picks) /\ \A image \in images : Sane(image, odd \cup picks)
        BY <1>16, <3>2
      <3>. HIDE DEF images, picks
      <3>5. QED BY <3>1, <3>3, <3>4, DieStaysSane
    <2>3. QED BY <2>1, <2>2
  <1>17. QED BY <1>1, <1>15, <1>16

(* "Switch to": the break, and what follows it, is a new record, which     *)
(* starts when the old one ends.                                           *)
LEMMA ActionSwitchInTime ==
  ASSUME IInv, TimesInv, NEW tod \in TimesOfDay, NEW name \in TaskNames \cup {NoName},
         ActionSwitch(tod, name)
  PROVE  (LateEpoch => TidyInv') /\ (NoWrap => SaneInv')
  <1>. DEFINE d1 == FixLogEndTime(tod)
              d2 == StoreComboTask(d1, name)
              other == Fresh(ComboTask(d1, name), FixedEnd(tod) + 1)
              d3 == StoreTime(d2, other)
              o == [opts EXCEPT !.cur = Stored(d2, other)]
              d4 == StoreOptions(d3, o)
              new == Len(db.times) + 1
              flags == odd \cup PickFlags(tod)
  <1>1. /\ DialogOpen
        /\ \/ /\ Return(d4, o, Resume(FALSE), NoDialog)
              /\ odd' = flags
           \/ Die({d1, d2, d3}, PickFlags(tod))
        /\ clock' = clock /\ lastInput' = clock
    BY DEF ActionSwitch
  <1>2. up = TRUE /\ tod \in Nat
    BY <1>1, Answering, TimeLogAssumption DEF TimesOfDay
  <1>3. /\ opts \in Options /\ Now \in Nat /\ clock \in Nat /\ Len(db.times) \in Nat
        /\ NoWrap => opts.lastCheck <= Now
    BY <1>2, Running, RunningInTime
  <1>4. FixedEnd(tod) \in Int /\ DiskOK(d1) /\ d1.tasks # <<>> /\ CutOff(d1)
    BY <1>1, <1>2, BreakEnded
  <1>5. ComboTask(d1, name) \in Nat /\ ComboTask(d1, name) \in DOMAIN d2.tasks /\ DiskOK(d2)
    <2>1. d2 = StoreComboTask(d1, name)
      OBVIOUS
    <2>. HIDE DEF d1, d2
    <2>2. QED BY <1>4, <2>1, TaskNamed
  <1>6. /\ other \in TimeObject /\ other.id = 0 /\ other.task = ComboTask(d1, name)
        /\ other.start = FixedEnd(tod) + 1 /\ other.end = 0
    BY <1>4, <1>5, FreshType DEF Fresh
  <1>. HIDE DEF other
  <1>7. /\ d2.times = d1.times /\ d3.times \in Seq(TimeRow)
        /\ Len(d3.times) = new /\ d3.times[new].end = 0
        /\ DiskOK(d3)
        /\ LateEpoch =>
              /\ Dated(d1.times) /\ Dated(d3.times)
              /\ Unforced(odd) =>
                   /\ OpenOnly(d1.times, 0) /\ OpenOnly(d3.times, new)
                   /\ PointerOf(d1) = 0 /\ PointerOf(d2) = 0
        /\ LeavesOrphan(d3)
        /\ NoWrap => Sane(d1, flags) /\ Sane(d2, flags) /\ Sane(d3, flags)
    <2>1. /\ d1 = FixLogEndTime(tod) /\ d2 = StoreComboTask(d1, name)
          /\ d3 = StoreTime(d2, other)
          /\ flags = odd \cup PickFlags(tod) /\ new = Len(db.times) + 1
      OBVIOUS
    <2>2. /\ other.end \in {0, Now - 1} /\ DialogOpen
          /\ other \in TimeObject /\ other.id = 0 /\ other.task = ComboTask(d1, name)
          /\ other.start = FixedEnd(tod) + 1
      BY <1>1, <1>6
    <2>. HIDE DEF d1, d2, d3, flags, new
    <2>3. /\ d2.times = d1.times /\ d3.times \in Seq(TimeRow)
          /\ Len(d3.times) = new /\ d3.times[new].end = other.end
          /\ DiskOK(d3) /\ d3.tasks # <<>>
          /\ LateEpoch =>
                /\ Dated(d1.times) /\ Dated(d3.times)
                /\ Unforced(odd) =>
                     /\ OpenOnly(d1.times, 0) /\ OpenOnly(d3.times, new)
                     /\ other.end # 0 => OpenOnly(d3.times, 0)
                     /\ PointerOf(d1) = 0 /\ PointerOf(d2) = 0 /\ PointerOf(d3) = 0
          /\ other.end = 0 => LeavesOrphan(d3)
          /\ NoWrap => /\ Sane(d1, flags) /\ Sane(d2, flags) /\ Sane(d3, flags)
                       /\ Ordered(flags) => PointerOf(d3) = 0
      BY <2>1, <2>2, BreakRecorded
    <2>4. QED BY <1>6, <2>3
  <1>8. "badPick" \notin flags => FixedEnd(tod) <= Now
    BY DEF PickFlags
  <1>9. /\ o \in Options /\ DiskOK(d4) /\ d4.options = <<AsOptionsRow(o)>>
    BY <1>3, <1>5, <1>6, RecordOpened
  <1>10. o.cur.id = new /\ o.cur.start = FixedEnd(tod) + 1 /\ o.lastCheck = opts.lastCheck
    <2>1. Stored(d2, other).id = new /\ Stored(d2, other).start = other.start
      <3>1. Len(d2.times) + 1 = new
        BY <1>1, <1>2, <1>7, BreakEnded DEF Grown
      <3>2. QED BY <1>6, <3>1 DEF Stored, TimeObject
    <2>2. QED BY <1>3, <1>6, <2>1 DEF Options
  <1>11. d4.times = d3.times
    <2>. HIDE DEF d3, o, new
    <2>1. o.cur.id \in {0} \cup DOMAIN d3.times
      <3>1. new \in 1 .. Len(d3.times)
        BY <1>3, <1>7 DEF new
      <3>2. QED BY <1>7, <1>10, <3>1, LenProperties
    <2>2. QED BY <1>7, <1>9, <2>1, OptionsStored
  <1>12. PointerOf(d4) = new
    BY <1>9, <1>10, PointerStored
  <1>. HIDE DEF d1, d2, d3, d4, o, flags
  <1>13. ASSUME NoWrap PROVE Sane(d4, flags)
    <2>1. Checked(d4)
      BY <1>3, <1>9, <1>10, <1>13, OptionsChecked
    <2>2. QED BY <1>7, <1>11, <1>12, <1>13, <2>1, PointedAtLast
  <1>14. CASE Return(d4, o, Resume(FALSE), NoDialog) /\ odd' = flags
    <2>1. ASSUME LateEpoch PROVE Tidy(d4, odd')
      <3>1. Unforced(odd') => Unforced(odd)
        BY <1>14 DEF Unforced, flags
      <3>2. QED BY <1>7, <1>11, <1>12, <2>1, <3>1 DEF Tidy
    <2>2. NoWrap => Sane(d4, odd')
      BY <1>13, <1>14
    <2>3. o.cur.id # 0
      BY <1>3, <1>10
    <2>4. "badPick" \notin odd' => o.cur.start <= Now + 1
      BY <1>3, <1>4, <1>8, <1>10, <1>14
    <2>5. QED BY <1>1, <1>2, <1>14, <2>1, <2>2, <2>3, <2>4, AnsweredInTime
  <1>15. CASE Die({d1, d2, d3}, PickFlags(tod))
    <2>1. ASSUME LateEpoch PROVE TidyInv'
      <3>1. \A image \in {d1, d2, d3} :
              /\ Dated(image.times)
              /\ Unforced(odd) => \/ OpenOnly(image.times, PointerOf(image))
                                  \/ LeavesOrphan(image)
        BY <1>7, <2>1
      <3>2. QED BY <1>15, <3>1, DieStaysTidy
    <2>2. ASSUME NoWrap PROVE SaneInv'
      <3>1. InTime
        BY <2>2 DEF TimesInv, SaneInv
      <3>2. \A image \in {d1, d2, d3} : Sane(image, odd \cup PickFlags(tod))
        BY <1>7, <2>2 DEF flags
      <3>3. clock \in Nat /\ clock' = clock /\ lastInput' \in {lastInput, clock}
        BY <1>1, <1>3
      <3>. DEFINE images == {d1, d2, d3}
                  picks == PickFlags(tod)
      <3>4. Die(images, picks) /\ \A image \in images : Sane(image, odd \cup picks)
        BY <1>15, <3>2
      <3>. HIDE DEF images, picks
      <3>5. QED BY <3>1, <3>3, <3>4, DieStaysSane
    <2>3. QED BY <2>1, <2>2
  <1>16. QED BY <1>1, <1>14, <1>15

-----------------------------------------------------------------------------
(* The results. *)

(* The program has not run: the file is empty and nothing is known. *)
LEMMA InitInTime == Init => TimesInv
  <1>. SUFFICES ASSUME Init PROVE TimesInv
    OBVIOUS
  <1>1. /\ db.times = <<>> /\ db.options = <<>> /\ PointerOf(db) = 0
        /\ clock = 0 /\ lastInput = 0 /\ ~up /\ odd = {}
        /\ uih.lastStateChangeTime = 0 /\ Asked = 0
    BY DEF Init, EmptyDatabase, PointerOf, NewHandler, NoDialog, NoTime, Asked
  <1>2. Tidy(db, odd)
    BY <1>1 DEF Tidy, Dated, OpenOnly
  <1>3. Sane(db, odd)
    BY <1>1 DEF Sane, Checked, Past, InOrder
  <1>4. InTime
    BY <1>1, TimeLogAssumption DEF InTime
  <1>5. QED BY <1>1, <1>2, <1>3, <1>4 DEF TimesInv, Flagged, TidyInv, SaneInv

(* Every step keeps the invariant. *)
LEMMA NextInTime ==
  ASSUME IInv, TimesInv, [Next]_vars
  PROVE  TimesInv'
  <1>1. (LateEpoch => TidyInv') /\ (NoWrap => SaneInv')
    <2>1. CASE Start
      BY <2>1, StartInTime
    <2>2. CASE OnTimerQuiet
      BY <2>2, OnTimerQuietInTime
    <2>3. CASE OnTimerReturn
      BY <2>3, OnTimerReturnInTime
    <2>4. CASE OnTimerIdle
      BY <2>4, OnTimerIdleInTime
    <2>5. CASE CheckTimer
      BY <2>5, CheckTimerInTime
    <2>6. CASE \E tod \in TimesOfDay : ActionStop(tod)
      BY <2>6, ActionStopInTime
    <2>7. CASE ActionIgnore
      BY <2>7, ActionIgnoreInTime
    <2>8. CASE \E tod \in TimesOfDay, name \in TaskNames \cup {NoName} : ActionLogAndBack(tod, name)
      BY <2>8, ActionLogAndBackInTime
    <2>9. CASE \E tod \in TimesOfDay, name \in TaskNames \cup {NoName} : ActionSwitch(tod, name)
      BY <2>9, ActionSwitchInTime
    <2>10. CASE \E autoTrack \in BOOLEAN, thr \in ThrChoices : OptionsOK(autoTrack, thr)
      BY <2>10, OptionsOKInTime
    <2>11. CASE Close
      BY <2>11, CloseInTime
    <2>12. CASE Crash
      BY <2>12, CrashInTime
    <2>13. CASE Tick \/ Input \/ UNCHANGED vars
      BY <2>13, WorldInTime
    <2>14. QED BY <2>1, <2>2, <2>3, <2>4, <2>5, <2>6, <2>7, <2>8, <2>9, <2>10, <2>11,
                  <2>12, <2>13 DEF Next
  <1>2. Flagged'
    BY FlagsGrow DEF TimesInv
  <1>3. (LateEpoch <=> LateEpoch') /\ (NoWrap <=> NoWrap')
    BY DEF LateEpoch, NoWrap
  <1>4. QED BY <1>1, <1>2, <1>3 DEF TimesInv

(* The invariant, of all behaviours of the program. *)
LEMMA TimesInvariance == Spec => []TimesInv
  <1>1. Init => TimesInv
    BY InitInTime
  <1>2. IInv /\ TimesInv /\ [Next]_vars => TimesInv'
    BY NextInTime
  <1>3. Spec => []IInv
    BY Invariance
  <1>4. QED BY <1>1, <1>2, <1>3, PTL DEF Spec

(* No record is forgotten without an end: one that has none is the one     *)
(* being counted, unless the process ended while a handler had just        *)
(* inserted it, or tracking was switched on under a question.  This needs  *)
(* time() to be past a day and a turn of the tick count, because a moment  *)
(* that is 0 is stored as "not ended".                                     *)
THEOREM NoneIsForgotten == LateEpoch => (Spec => []NoOrphans)
  <1>1. SUFFICES ASSUME LateEpoch PROVE Spec => []NoOrphans
    OBVIOUS
  <1>2. IInv /\ TimesInv => NoOrphans
    <2>1. SUFFICES ASSUME IInv, TimesInv, Unforced(odd),
                          NEW i \in DOMAIN db.times, db.times[i].end = 0
                   PROVE  \E k \in DOMAIN db.options : db.options[k].cur = i
      BY DEF NoOrphans, Unforced
    <2>2. i = PointerOf(db)
      BY <1>1, <2>1 DEF TimesInv, TidyInv, Tidy, OpenOnly
    <2>3. i # 0
      <3>1. db.times \in Seq(TimeRow)
        BY <2>1 DEF IInv, TypeOK, Database
      <3>2. DOMAIN db.times = 1 .. Len(db.times)
        BY <3>1, LenProperties
      <3>3. QED BY <3>2
    <2>4. db.options \in Seq(OptionsRow) /\ db.options # <<>>
      BY <2>1, <2>2, <2>3 DEF PointerOf, IInv, TypeOK, Database
    <2>5. 1 \in DOMAIN db.options
      BY <2>4, EmptySeq, LenProperties
    <2>6. QED BY <2>2, <2>4, <2>5 DEF PointerOf
  <1>3. Spec => []IInv /\ []TimesInv
    BY Invariance, TimesInvariance
  <1>4. QED BY <1>2, <1>3, PTL

(* A record that has ended, ended after it started and not in the future,  *)
(* but for the seconds that are added and taken at the seams, unless the   *)
(* user picked an end outside the question.                                *)
THEOREM RecordsArePast == NoWrap => (Spec => []RecordsLieInThePast)
  <1>1. SUFFICES ASSUME NoWrap PROVE Spec => []RecordsLieInThePast
    OBVIOUS
  <1>2. TimesInv => RecordsLieInThePast
    BY <1>1 DEF TimesInv, SaneInv, Sane, Past, RecordsLieInThePast, Closed
  <1>3. QED BY <1>2, TimesInvariance, PTL

(* No period of time is counted twice, but for two seconds at a seam,      *)
(* unless tracking was switched on under a question or the user picked an  *)
(* end outside it.                                                         *)
THEOREM RecordsFollow == NoWrap => (Spec => []Chronological)
  <1>1. SUFFICES ASSUME NoWrap PROVE Spec => []Chronological
    OBVIOUS
  <1>2. TimesInv => Chronological
    BY <1>1 DEF TimesInv, SaneInv, Sane, Ordered, InOrder, Chronological, Closed
  <1>3. QED BY <1>2, TimesInvariance, PTL
=============================================================================
