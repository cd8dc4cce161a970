------------------------------- MODULE TimeLog -------------------------------
(***************************************************************************)
(* The program: the global "opts", the idle handler, the idle dialog and   *)
(* the database file timelog.db, driven by the message loop of             *)
(* TimeLog.cpp.  The loop is single threaded, so a handler is one action.  *)
(*                                                                         *)
(* A handler writes the database in several transactions.  Each action     *)
(* therefore names every image the file passes through: it either          *)
(* completes, or the process ends (a kill, a logoff, or a store that       *)
(* throws to the end of _tWinMain) with the file left at one of the images *)
(* in between.  A committed transaction outlives the process, but with     *)
(* "PRAGMA synchronous = OFF" not a power cut, which is not modelled.      *)
(***************************************************************************)
EXTENDS UserIdleHandler, Sequences

CONSTANTS
  TaskNames,     \* names the user may type in a combo box
  Work,          \* the name of the default task
  NoName,        \* an empty combo box
  SecsPerDay,    \* 24 * 60 * 60
  DefaultThr,    \* the thresholds addDefaultEntries stores
  ThrChoices,    \* the thresholds the Options dialog offers
  CrashWindows,  \* may the process end inside a handler?
  MaxClock,      \* bound: the clock stops here
  MaxRows        \* bound: no record is added beyond this many

ASSUME TimeLogAssumption ==
  /\ Work \in TaskNames
  /\ NoName \notin TaskNames
  /\ SecsPerDay \in Nat \ {0}
  /\ DefaultThr \in Thresholds
  /\ ThrChoices \subseteq Thresholds
  /\ CrashWindows \in BOOLEAN
  /\ MaxClock \in Nat
  /\ MaxRows \in Nat

VARIABLES
  clock,      \* the true time, in milliseconds
  lastInput,  \* when the user last touched the keyboard or the mouse
  db,         \* timelog.db
  up,         \* is the program running?
  opts,       \* the global "opts"
  uih,        \* the UserIdleHandler singleton
  dlg,        \* the IdleDialogData of the open idle dialog
  odd         \* history: unusual things that have happened (see Flags)

vars == <<clock, lastInput, db, up, opts, uih, dlg, odd>>

(* A row's id is its position: rows are only appended or replaced.  The id *)
(* 0 stands for NULL in the file and for an id of -1 in memory.            *)
TimeRow == [task : Nat, start : Int, end : Int]
TimeObject == [id : Nat, task : Nat, start : Int, end : Int]
OptionsRow == [cur : Nat, lastCheck : Int, autoTrack : BOOLEAN, thr : Thresholds]
Options == [cur : TimeObject, lastCheck : Int, autoTrack : BOOLEAN, thr : Thresholds]
Database == [tasks : Seq(TaskNames), times : Seq(TimeRow), options : Seq(OptionsRow)]
IdleDialogData == [idleTime : Int, log : TimeObject]

NoTime == [id |-> 0, task |-> 0, start |-> 0, end |-> 0]
NoDialog == [idleTime |-> 0, log |-> NoTime]
EmptyDatabase == [tasks |-> <<>>, times |-> <<>>, options |-> <<>>]

DefaultOptions ==
  [cur |-> NoTime, lastCheck |-> 0, autoTrack |-> TRUE, thr |-> DefaultThr]

(* "reenabled": in this run of the program, tracking was switched on while *)
(*   the idle dialog was open; "everReenabled": in this run or another.    *)
(* "startCrash": the process ended after a new open record was stored and  *)
(*   before opts was made to point at it.                                  *)
(* "badPick": the idle dialog was answered with a time that is before the  *)
(*   start of the record or in the future.                                 *)
Flags == {"reenabled", "everReenabled", "startCrash", "badPick"}

Now == TimeOf(clock)

-----------------------------------------------------------------------------
(* Objects and rows. *)

AsRow(t) == [task |-> t.task, start |-> t.start, end |-> t.end]

AsOptionsRow_MinusOne(o) == [o EXCEPT !.cur = IF o.cur.id > 0 THEN o.cur.id ELSE -1]
AsOptionsRow(o) == [o EXCEPT !.cur = o.cur.id]

LoadTime(d, i) == [id |-> i, task |-> d.times[i].task,
                   start |-> d.times[i].start, end |-> d.times[i].end]

StoreTime_OverLast(d, t) ==
  [d EXCEPT !.times = IF t.id > 0 THEN [@ EXCEPT ![t.id] = AsRow(t)]
                      ELSE IF @ # <<>> THEN [@ EXCEPT ![Len(@)] = AsRow(t)]
                      ELSE <<AsRow(t)>>]
StoreTime(d, t) ==
  [d EXCEPT !.times = IF t.id > 0 THEN [@ EXCEPT ![t.id] = AsRow(t)]
                                  ELSE Append(@, AsRow(t))]

(* The object after store(): an object that was not stored gets its id. *)
Stored(d, t) == [t EXCEPT !.id = IF @ > 0 THEN @ ELSE Len(d.times) + 1]

StoreOptions(d, o) == [d EXCEPT !.options = <<AsOptionsRow(o)>>]

(* Options::query finds no options when there is no row, and also when the *)
(* record the row points at, or that record's task, is not there: all      *)
(* three throw the same SQLITE_NOTFOUND.                                   *)
OptionsFound(d) ==
  /\ d.options # <<>>
  /\ LET cur == d.options[1].cur IN
     cur > 0 => /\ cur \in DOMAIN d.times
                /\ d.times[cur].task > 0 => d.times[cur].task \in DOMAIN d.tasks

QueryOptions(d) ==
  LET row == d.options[1] IN
  [row EXCEPT !.cur = IF row.cur > 0 THEN LoadTime(d, row.cur) ELSE NoTime]

(* The id of the task the user picked; the task is added if it is new. *)
ComboTask(d, name) ==
  CASE name = NoName -> 1
    [] name # NoName /\ (\E i \in DOMAIN d.tasks : d.tasks[i] = name) ->
         CHOOSE i \in DOMAIN d.tasks : d.tasks[i] = name
    [] OTHER -> Len(d.tasks) + 1

StoreComboTask_NotStored(d, name) == d
StoreComboTask(d, name) ==
  [d EXCEPT !.tasks = IF ComboTask(d, name) > Len(@) THEN Append(@, name) ELSE @]

-----------------------------------------------------------------------------
(* How a handler ends. *)

(* The handler returns: its last store has made the file "final". *)
Return(final, o, u, d) ==
  /\ up' = TRUE
  /\ db' = final
  /\ opts' = o
  /\ uih' = u
  /\ dlg' = d

(* The process is gone and with it everything that was in memory. *)
Exit ==
  /\ up' = FALSE
  /\ opts' = DefaultOptions
  /\ uih' = NewHandler
  /\ dlg' = NoDialog

LeavesOrphan(image) ==
  \E i \in DOMAIN image.times : i > Len(db.times) /\ image.times[i].end = 0

(* The process ends inside the handler, with the file at one of "images";  *)
(* "flags" is what the handler itself adds to the history.                 *)
Die(images, flags) ==
  /\ CrashWindows
  /\ \E image \in images :
       /\ db' = image
       /\ odd' = (odd \ {"reenabled"}) \cup flags
                   \cup (IF LeavesOrphan(image) THEN {"startCrash"} ELSE {})
  /\ Exit

Room(n) == Len(db.times) + n <= MaxRows

-----------------------------------------------------------------------------
(* Start-up: addDefaultEntries, recoverFromCrash and WM_INITDIALOG. *)

AddDefaultTask(d) == [d EXCEPT !.tasks = IF @ = <<>> THEN <<Work>> ELSE @]

Recovered_NotEnded(o) == o.cur
Recovered_NoMax(o) == [o.cur EXCEPT !.end = o.lastCheck]
Recovered(o) ==
  [o.cur EXCEPT !.end = Larger(o.lastCheck, o.cur.start + 1)]

InitDialog(o, c) ==
  LET u == SetIsIdle(SetThresholds(NewHandler, o.thr, c), TRUE, c)
  IN  IF o.autoTrack THEN StartTracking(u, c) ELSE u

Start ==
  LET d1 == AddDefaultTask(db)
      o  == IF OptionsFound(d1) THEN QueryOptions(d1) ELSE DefaultOptions
      d2 == IF OptionsFound(d1) THEN d1 ELSE StoreOptions(d1, o)
      d3 == IF o.cur.id > 0 THEN StoreTime(d2, Recovered(o)) ELSE d2
      o2 == [o EXCEPT !.cur = NoTime]
      d4 == IF o.cur.id > 0 THEN StoreOptions(d3, o2) ELSE d2
  IN  /\ ~up
      /\ \/ Return(d4, o2, InitDialog(o2, clock), NoDialog) /\ UNCHANGED odd
         \/ Die({d1, d2, d3}, {})
      /\ UNCHANGED <<clock, lastInput>>

-----------------------------------------------------------------------------
(* The callbacks of the idle handler. *)

(* OnReturn opens a record of the default task: the file after its first   *)
(* store, opts, and the file after its second.                             *)
Fresh(task, start) == [id |-> 0, task |-> task, start |-> start, end |-> 0]

OnReturnStored(d, time) == StoreTime(d, Fresh(1, time))
OnReturnOpts(d, time) == [opts EXCEPT !.cur = Stored(d, Fresh(1, time))]
OnReturnFinal(d, time) == StoreOptions(OnReturnStored(d, time), OnReturnOpts(d, time))

Polled == OnTimer(uih, clock, lastInput)

(* No callback runs, or OnIdle returns at once: nothing was being counted. *)
OnTimerQuiet ==
  /\ up /\ TimerDue(uih, clock)
  /\ Polled.call # "onReturn"
  /\ ~(Polled.call = "onIdle" /\ opts.cur.id > 0)
  /\ uih' = StartTimer(Polled.u, clock)
  /\ UNCHANGED <<clock, lastInput, db, up, opts, dlg, odd>>

OnTimerReturn ==
  LET time == CallbackTime(clock, Polled.ms)
  IN  /\ up /\ TimerDue(uih, clock)
      /\ Polled.call = "onReturn"
      /\ Room(1)
      /\ \/ /\ Return(OnReturnFinal(db, time), OnReturnOpts(db, time),
                      StartTimer(Polled.u, clock), dlg)
            /\ UNCHANGED odd
         \/ Die({OnReturnStored(db, time)}, {})
      /\ UNCHANGED <<clock, lastInput>>

(* OnIdle closes the record and asks the user about the break.  When the   *)
(* dialog is open already, ShowIdleDlg drops the new data.                 *)
EndedAt(time) == [opts.cur EXCEPT !.end = time]

NewDialogData_NotEnded(time) == [idleTime |-> time, log |-> opts.cur]
NewDialogData(time) == [idleTime |-> time, log |-> EndedAt(time)]

OnTimerIdle ==
  LET time == CallbackTime(clock, Polled.ms)
      o    == [opts EXCEPT !.cur = NoTime]
      d1   == StoreTime(db, EndedAt(time))
  IN  /\ up /\ TimerDue(uih, clock)
      /\ Polled.call = "onIdle"
      /\ opts.cur.id > 0
      /\ \/ /\ Return(StoreOptions(d1, o), o,
                      StartTimer(StopTracking(Polled.u), clock),
                      IF dlg.log.id > 0 THEN dlg ELSE NewDialogData(time))
            /\ UNCHANGED odd
         \/ Die({d1}, {})
      /\ UNCHANGED <<clock, lastInput>>

(* TIMER_CRASH, every five minutes. *)
CheckTimer_NotStored ==
  LET o == [opts EXCEPT !.lastCheck = Now]
  IN  /\ up
      /\ opts.cur.id > 0
      /\ Return(db, o, uih, dlg)
      /\ UNCHANGED <<clock, lastInput, odd>>
CheckTimer ==
  LET o == [opts EXCEPT !.lastCheck = Now]
  IN  /\ up
      /\ opts.cur.id > 0
      /\ Return(StoreOptions(db, o), o, uih, dlg)
      /\ UNCHANGED <<clock, lastInput, odd>>

-----------------------------------------------------------------------------
(* The answers to the idle dialog.  The user picks a time of day, which    *)
(* FixLogEndTime puts on the day of the start of the break.                *)

FixedEnd(tod) == dlg.idleTime - (dlg.idleTime % SecsPerDay) + tod
FixedLog(tod) == [dlg.log EXCEPT !.end = FixedEnd(tod)]
FixLogEndTime_Kept(tod) == db
FixLogEndTime(tod) ==
  IF dlg.log.end # FixedEnd(tod) THEN StoreTime(db, FixedLog(tod)) ELSE db

PickFlags(tod) ==
  IF FixedEnd(tod) \in dlg.log.start .. Now THEN {} ELSE {"badPick"}

(* The last lines of every answer: setIsIdle and, if the option is on,     *)
(* startTracking.                                                          *)
Resume_StateKept(isIdle) == IF opts.autoTrack THEN StartTracking(uih, clock) ELSE uih
Resume(isIdle) ==
  LET u == SetIsIdle(uih, isIdle, clock)
  IN  IF opts.autoTrack THEN StartTracking(u, clock) ELSE u

DialogOpen == up /\ dlg.log.id > 0

TimesOfDay == 0 .. (SecsPerDay - 1)

ActionStop(tod) ==
  /\ DialogOpen
  /\ Return(FixLogEndTime(tod), opts, Resume(TRUE), NoDialog)
  /\ odd' = odd \cup PickFlags(tod)
  /\ lastInput' = clock
  /\ UNCHANGED clock

ActionIgnore ==
  LET o == [opts EXCEPT !.cur = dlg.log]
  IN  /\ DialogOpen
      /\ Return(StoreOptions(db, o), o, Resume(FALSE), NoDialog)
      /\ lastInput' = clock
      /\ UNCHANGED <<clock, odd>>

(* The break becomes a record of its own, of the task the user names, and  *)
(* counting goes on with a new record from the moment of the answer.       *)
BackAt_BreakStart(other) == other.start
BackAt(other) == other.end + 1

ActionLogAndBack(tod, name) ==
  LET d1    == FixLogEndTime(tod)
      d2    == StoreComboTask(d1, name)
      other == [Fresh(ComboTask(d1, name), FixedEnd(tod) + 1) EXCEPT !.end = Now - 1]
      d3    == StoreTime(d2, other)
  IN  /\ DialogOpen
      /\ Room(2)
      /\ \/ /\ Return(OnReturnFinal(d3, BackAt(other)), OnReturnOpts(d3, BackAt(other)),
                      Resume(FALSE), NoDialog)
            /\ odd' = odd \cup PickFlags(tod)
         \/ Die({d1, d2, d3, OnReturnStored(d3, BackAt(other))}, PickFlags(tod))
      /\ lastInput' = clock
      /\ UNCHANGED clock

(* The break, and what follows it, is a record of the task the user names. *)
ActionSwitch(tod, name) ==
  LET d1    == FixLogEndTime(tod)
      d2    == StoreComboTask(d1, name)
      other == Fresh(ComboTask(d1, name), FixedEnd(tod) + 1)
      d3    == StoreTime(d2, other)
      o     == [opts EXCEPT !.cur = Stored(d2, other)]
  IN  /\ DialogOpen
      /\ Room(1)
      /\ \/ /\ Return(StoreOptions(d3, o), o, Resume(FALSE), NoDialog)
            /\ odd' = odd \cup PickFlags(tod)
         \/ Die({d1, d2, d3}, PickFlags(tod))
      /\ lastInput' = clock
      /\ UNCHANGED clock

-----------------------------------------------------------------------------
(* The Options dialog.  It can be opened from the tray menu at any time,   *)
(* also while the idle dialog waits for its answer.                        *)

ApplyOptions(o) ==
  LET u == SetThresholds(uih, o.thr, clock)
  IN  CASE o.autoTrack = opts.autoTrack -> u
        [] opts.autoTrack /\ ~o.autoTrack -> StopTracking(u)
        [] OTHER -> StartTracking(SetIsIdle(u, opts.cur.id <= 0, clock), clock)

Reenables(autoTrack) == dlg.log.id > 0 /\ autoTrack /\ ~opts.autoTrack

OptionsOK(autoTrack, thr) ==
  LET o == [opts EXCEPT !.autoTrack = autoTrack, !.thr = thr]
  IN  /\ up
      /\ Return(StoreOptions(db, o), o, ApplyOptions(o), dlg)
      /\ odd' = odd \cup (IF Reenables(autoTrack)
                            THEN {"reenabled", "everReenabled"} ELSE {})
      /\ lastInput' = clock
      /\ UNCHANGED clock

-----------------------------------------------------------------------------
(* The end of the process. *)

(* WM_CLOSE of the main window. *)
Close ==
  LET d1 == StoreTime(db, [opts.cur EXCEPT !.end = Now])
      d2 == StoreOptions(d1, [opts EXCEPT !.cur = NoTime])
  IN  /\ up
      /\ \/ /\ db' = IF opts.cur.id > 0 THEN d2 ELSE db
            /\ odd' = odd \ {"reenabled"}
            /\ Exit
         \/ opts.cur.id > 0 /\ Die({d1}, {})
      /\ lastInput' = clock
      /\ UNCHANGED clock

Crash ==
  /\ up
  /\ Exit
  /\ odd' = odd \ {"reenabled"}
  /\ UNCHANGED <<clock, lastInput, db>>

-----------------------------------------------------------------------------
(* The world. *)

Tick ==
  /\ clock < MaxClock
  /\ clock' = clock + 1
  /\ UNCHANGED <<lastInput, db, up, opts, uih, dlg, odd>>

Input ==
  /\ lastInput # clock
  /\ lastInput' = clock
  /\ UNCHANGED <<clock, db, up, opts, uih, dlg, odd>>

Init ==
  /\ clock = 0
  /\ lastInput = 0
  /\ db = EmptyDatabase
  /\ up = FALSE
  /\ opts = DefaultOptions
  /\ uih = NewHandler
  /\ dlg = NoDialog
  /\ odd = {}

Next ==
  \/ Start \/ OnTimerQuiet \/ OnTimerReturn \/ OnTimerIdle \/ CheckTimer
  \/ \E tod \in TimesOfDay : ActionStop(tod)
  \/ ActionIgnore
  \/ \E tod \in TimesOfDay, name \in TaskNames \cup {NoName} : ActionLogAndBack(tod, name)
  \/ \E tod \in TimesOfDay, name \in TaskNames \cup {NoName} : ActionSwitch(tod, name)
  \/ \E autoTrack \in BOOLEAN, thr \in ThrChoices : OptionsOK(autoTrack, thr)
  \/ Close \/ Crash
  \/ Tick \/ Input

Spec == Init /\ [][Next]_vars

-----------------------------------------------------------------------------
(* Properties. *)

(* The variables hold what they are declared to hold. *)
TypeOK ==
  /\ clock \in Nat
  /\ lastInput \in Nat
  /\ db \in Database
  /\ up \in BOOLEAN
  /\ opts \in Options
  /\ uih \in Handler
  /\ dlg \in IdleDialogData
  /\ odd \subseteq Flags

(* Whatever handler the process ended in, the file can be loaded again:    *)
(* the options row points at a record that exists and every record's task  *)
(* exists.  Otherwise Options::query throws SQLITE_NOTFOUND and the next   *)
(* start silently replaces the user's options with the defaults.           *)
PointerIsDurable ==
  /\ \A i \in DOMAIN db.options : db.options[i].cur \in {0} \cup DOMAIN db.times
  /\ \A i \in DOMAIN db.times : db.times[i].task \in DOMAIN db.tasks

(* Between handlers the file says what the memory says: the options row is *)
(* the image of opts, and the record being counted is stored as it is.     *)
MemoryMatchesDisk ==
  up => /\ db.options = <<AsOptionsRow(opts)>>
        /\ opts.cur.id > 0 => /\ opts.cur.id \in DOMAIN db.times
                              /\ db.times[opts.cur.id] = AsRow(opts.cur)

(* The copy of the closed record that the idle dialog holds, and stores    *)
(* again minutes later, is never stale and is never the record being       *)
(* counted.                                                                *)
DialogMatchesDisk ==
  DialogOpen => /\ dlg.log.id \in DOMAIN db.times
                /\ db.times[dlg.log.id] = AsRow(dlg.log)
                /\ dlg.log.id # opts.cur.id

(* The handler's state agrees with what is being counted: USING means a    *)
(* record is open, and while the handler polls an open record means USING. *)
(* While the dialog is open nothing is counted and nothing polls, unless   *)
(* tracking was switched on under it.  OnReturn's assertion that nothing   *)
(* is being counted follows.                                               *)
HandlerMatchesRecord ==
  up => /\ uih.state = USING => opts.cur.id > 0
        /\ "reenabled" \notin odd =>
             /\ uih.tracking /\ opts.cur.id > 0 => uih.state = USING
             /\ dlg.log.id > 0 => ~uih.tracking /\ opts.cur.id = 0

(* A record without an end is the one being counted.  Only a crash between *)
(* the two stores that open a record, or tracking switched on under an     *)
(* open dialog, leaves one behind for good.                                *)
NoOrphans ==
  odd \cap {"startCrash", "everReenabled"} = {} =>
    \A i \in DOMAIN db.times :
      db.times[i].end = 0 => \E k \in DOMAIN db.options : db.options[k].cur = i

(* Records follow one another: no period of time is counted twice, but for *)
(* up to two seconds at a seam.  ActionSwitch starts a record a second in  *)
(* the future when the user picks the present moment; if the program is    *)
(* then killed and started again, recovery ends that record one second     *)
(* later still, and the next one can start before that.                    *)
Closed(i) == db.times[i].end > 0

Chronological ==
  odd \cap {"everReenabled", "badPick"} = {} =>
    \A i, j \in DOMAIN db.times :
      i < j /\ Closed(i) => db.times[i].end <= db.times[j].start + 2

(* A closed record ends at or after its start and not in the future, but   *)
(* for the seconds that "end + 1" and "end--" add and take at the seams.   *)
RecordsLieInThePast ==
  "badPick" \notin odd =>
    \A i \in DOMAIN db.times :
      Closed(i) => db.times[i].end \in (db.times[i].start - 2) .. (Now + 2)

(* The log is append-only: no step removes or changes a record other than  *)
(* the one the options row points at and the one the idle dialog is about. *)
Frozen(i) ==
  /\ \A k \in DOMAIN db.options : db.options[k].cur # i
  /\ dlg.log.id # i

HistoryFrozen ==
  [][\A i \in DOMAIN db.times :
       /\ i \in DOMAIN db'.times
       /\ Frozen(i) => db'.times[i] = db.times[i]]_vars

-----------------------------------------------------------------------------
(* Refinement. *)

(* The program is a work log: a record is begun, given its end, taken up   *)
(* again or followed by others only as WorkLog says, seams included, and   *)
(* however a handler is cut short, the pointer is the last thing written.  *)
Log == INSTANCE WorkLog WITH
  log    <- db.times,
  cur    <- IF db.options = <<>> THEN 0 ELSE db.options[1].cur,
  asked  <- dlg.log.id,
  forced <- "reenabled" \in odd

ImplementsWorkLog == Log!Spec

-----------------------------------------------------------------------------
(* What the repository says of the program and the program does not do.    *)

(* TimeLog.cpp:316, the assertion OnReturn starts with: nothing is being   *)
(* counted when the user comes back.                                       *)
OnReturnRuns ==
  \/ OnTimerReturn
  \/ \E tod \in TimesOfDay, name \in TaskNames \cup {NoName} : ActionLogAndBack(tod, name)

OnReturnAssertion == [][OnReturnRuns => opts.cur.id <= 0]_vars

(* WorkTimeLog.rc:119, "Log this break and keep counting old task": after  *)
(* that answer the record being counted is one of the old record's task.   *)
BackToOldTask ==
  [][\A tod \in TimesOfDay, name \in TaskNames \cup {NoName} :
       ActionLogAndBack(tod, name) /\ up' => opts'.cur.task = dlg.log.task]_vars

(* WorkTimeLog.rc:118, "Ignore this break and keep counting": the record   *)
(* goes on, so recovering it after a crash never gives it an earlier end   *)
(* than the one already in the file.                                       *)
RecoveryKeepsTime ==
  [][Start => \A i \in DOMAIN db.times : db'.times[i].end >= db.times[i].end]_vars
=============================================================================
