# WorkTimeLog in TLA+

WorkTimeLog is a Windows tray program that records how much time its user
spends at the computer. It watches for keyboard and mouse input, opens a record
when the user comes to work, closes it when he leaves, and asks him, when he is
back, what the break was. This directory holds a model of it in TLA+, the runs
of TLC that check the model, and proofs that TLAPS checks.

## 1. The program

### Components, their state and their operations

| component | source (under `src/WorkTimeLog/`) | state | operations |
|---|---|---|---|
| idle handler | `UserIdleHandler.cpp` | `state` (IDLE, TRYING_TO_USE, USING), `tracking`, `hTimer`, `lastStateChangeTime`, three thresholds | setters, `setIsIdle`, `startTracking`, `stopTracking`, `onTimer`; callbacks `onIdle`, `onReturn` |
| event handlers | `TimeLog.cpp` | the global `opts` (with `opts.currentTime`, the record being counted), `hIdleDlg` and the dialog's `IdleDialogData` | start-up (`addDefaultEntries`, `recoverFromCrash`, `WM_INITDIALOG`), `OnIdle`, `OnReturn`, `TIMER_CRASH`, the answers `ActionStop`, `ActionIgnore`, `ActionLogAndBack`, `ActionSwitch`, the Options dialog's OK, `WM_CLOSE` |
| persistence | `Task.cpp`, `Time.cpp`, `Options.cpp` | the tables Task, Time, Options of `timelog.db` | `store`, `query`, `queryAll`, `createTable` (`remove`, `dropTable` are never called) |
| SQLite wrapper | `SQLite.cpp` | the connection; `Transaction` (`valid`, `finished`) | `prepare`, `bind`, `step`, `BEGIN`, `COMMIT`, `ROLLBACK` |
| schema | `Task.cpp`, `Time.cpp`, `Options.cpp` (`createTable`), `TimeLog.cpp` (`createTables`) | the tables' columns, rows and indexes, and a table `TMP_OLD_...` while one is rebuilt | create a table, or rebuild one an older version left |
| reports | `TimeLog.cpp` 329-446 | none | `showLog`, `calcTodayWork` |
| idle dialog | `TimeLog.cpp` 753-904, 1078-1164 | four radio buttons, three time pickers, two combo boxes, the focus | clicks, keys, OK, Cancel, close |
| tray | `SystemTraySDK.cpp`, `TimeLog.cpp` 470-533 | `m_bHidden`, `m_bRemoved`, `m_bShowIconPending`; the single-click timer; whether the window is visible | create, remove, taskbar restart, clicks, menu |

### How they interact

Everything runs on one thread. Its message loop dispatches the idle handler's
timer, the crash timer, tray messages and dialog messages; a handler runs to its
end before the next one starts. The components meet

* by callbacks: `onTimer` calls `OnIdle` or `OnReturn`, which call
  `stopTracking` on the handler that is still inside `onTimer`;
* by shared state: `opts` is read and written by nearly every handler, also by
  the Options dialog while the idle dialog is open;
* by copies: the idle dialog keeps a copy of the record that was closed, and
  stores it again when it is answered, minutes or hours later;
* through the file: a handler stores several objects, each in a transaction of
  its own, and the next process finds what the last one left there; a newer
  version finds what an older one left;
* with the shell: it lists the icon, posts clicks some time after they were made,
  and forgets both when it dies.

### What is hard

The order of idle polls, answers, option changes and ends of the process is
nobody's choice; the process can end between any two stores of one handler;
three clocks (`time()` in seconds, `GetTickCount()` in milliseconds modulo 2^32,
and the time of day a user picks) meet in one subtraction; stale copies are
stored over newer ones if anything goes wrong. `PROJECT.json` lists each hazard
at its line with the properties that would catch it.

### What makes each component correct

* idle handler: it never says a user at work has left, notices an absence and a
  return in bounded time, and never loses its timer;
* event handlers and file: the file can be loaded after a crash anywhere, it says
  what the memory says, records follow one another, closed records stay as they
  are, and only the record being counted is open;
* transaction: a store is written whole or not at all, stays once it has
  returned, and never overwrites another object's row;
* schema: whatever fails and however often, no value is lost or changes column,
  and the next start can always go on;
* reports: a line is the sum of its day's or week's work, and the two reports
  agree;
* idle dialog: exactly one radio button is checked, and the answer is the choice
  made last;
* tray: a double click is not also a single one, every click is answered, and the
  shell lists the icon of the running program and no other.

## 2. The modules

| module | what it is |
|---|---|
| `UserIdleHandler` | the class as functions from the object and the two system clocks to the object; no variables |
| `IdleTracking` | the handler as a state machine against a user, a clock and a message loop |
| `TimeLog` | the program: file, memory, handler and idle dialog, with the process ending anywhere. It uses the functions of `UserIdleHandler` |
| `WorkLog` | the abstract specification that `TimeLog` implements: a log that only grows, with one record being counted and one being asked about |
| `Store` | one `store()` statement by statement, over a connection whose statements can fail: what `TimeLog` takes to be one step |
| `Schema` | `createTables` statement by statement, with failures, ends of the process and new starts |
| `Reports` | the two reports as functions of a log that grows |
| `IdleDialog` | the controls, the focus and the answer of the idle dialog: what `TimeLog` takes to be the choice of an answer and its parameters |
| `SystemTray` | the icon, the clicks on it and the shell |
| `MCIdleTracking`, `MCTimeLog`, `MCIdleDialog` | values for the constants of the runs |
| `UserIdleHandlerProofs` | lemmas on the handler's functions |
| `IdleTrackingProofs` | the inductive invariant of `IdleTracking` and its theorems |
| `TimeLogProofs` | three parts: the inductive invariant of `TimeLog` and its theorems; the proof that `TimeLog` implements `WorkLog`; the second inductive invariant, on what the records say of time, and its theorems |
| `StoreProofs`, `SchemaProofs`, `ReportsProofs`, `IdleDialogProofs`, `SystemTrayProofs` | inductive invariants and theorems of these modules |

A definition whose name is another definition's followed by an underscore and a
word (`StoreTime_OverLast`, say) is a deliberately wrong variant of it, used to
show that a property notices the mistake; no specification uses it.

### UserIdleHandler

A record of type `Handler` is the object. `hTimer` is the time at which the
pending timer expires, or `NoTimer`. `GetTickCount(c)` is the true time `c`
modulo `TickMod`, `Since` is the DWORD subtraction, and comparing two tick counts
compares numbers, as the code does. `OnTimer` gives the object as it is when the
callbacks run, which callbacks run, and what is subtracted from `time()` for
their argument; the caller runs the callbacks and then `StartTimer`, the last
line of `onTimer`. The three setters of thresholds are one function, since the
program always calls all three.

### IdleTracking

Actions: a `Poll` (the whole of `onTimer`, with a callback that may call
`stopTracking`), a poll in which `GetLastInputInfo` fails, each method, `Input`
and `Tick`. `Tick` does not let the clock pass the moment at which a timer has
been due for `Latency`: this is how the model says that the message loop
dispatches an expired timer in time. `lastCall`, `unseen`, `gap` and `failed` are
history variables that only the properties read.

### TimeLog

| variable | code |
|---|---|
| `db` | `timelog.db`: a row's id is its position, since rows are only inserted or replaced |
| `up` | is there a process? |
| `opts` | the global `opts`; id 0 stands for the code's -1 |
| `uih` | the singleton `UserIdleHandler` |
| `dlg` | the `IdleDialogData` of the open idle dialog; `NoDialog` when `hIdleDlg` is NULL |
| `clock`, `lastInput` | the true time and the time of the last input |
| `odd` | history: three kinds of unusual event which some properties except, see `Flags` |

One action is one handler, from the message that starts it to its return:
`Start`, `OnTimerQuiet` / `OnTimerReturn` / `OnTimerIdle` (a poll by what it
calls back), `CheckTimer`, `ActionStop`, `ActionIgnore` (also Cancel and closing
the dialog), `ActionLogAndBack`, `ActionSwitch`, `OptionsOK`, `Close`, `Crash`,
and `Tick` and `Input` for the world. An action names the image of the file after
each of its stores (`d1`, `d2`, ...). Either it returns (`Return`), with the last
image in the file, or the process ends (`Die`) with one of the images in between
in the file and the memory gone. `Crash` is the end of the process between
handlers; a session that ends (`WM_ENDSESSION` is not handled) is a `Crash` too.

Abstractions: a task is its position in the table and its name a model value; a
day has `SecsPerDay` seconds and no change to or from summer time; the two fields
`showBallons` and the ids of the single options row are left out; `CheckTimer`
may come at any time rather than every five minutes, so that every age of
`lastCheck` is covered; balloons, log text and window visibility are left out.

### Store

| variable | code |
|---|---|
| `file`, `work` | the committed rows, and the rows as the connection sees them |
| `open` | autocommit is off |
| `phase` | no process; running; or under the message box of `_tWinMain`'s `catch` |
| `id` | each object's `id`; 0 stands for -1 |
| `call` | the `store()` being executed: where it is, its object, and the `Transaction`'s `valid` and `finished` |
| `ret`, `busy` | history: what each object's last store that returned had written; has a COMMIT been refused? |

The three functions `store(db, obj)` are alike but for their columns, and the
program stores one object at a time, so one table of rows, each naming its
object, stands for all three. An action is one statement or one line with an
effect: `Begin` and `BeginFails` (the constructor), `Insert` and `InsertFails`,
`Commit` and `CommitFails`, `Report` (`obj->id = id`), `Destroy` (the destructor
during unwinding), `End` between any two of them, and `Open`. What a failing
statement leaves open is SQLite 3.6.4's behaviour, modelled from how the code
meets it: most errors undo the statement, some roll the transaction back, and
a COMMIT refused with `SQLITE_BUSY` leaves it open. An exception is taken to
unwind through the message dispatch to `_tWinMain`, as the code expects; under
the message box nothing catches a second one.

### WorkLog

What a reader who knows nothing of stores, dialogs and handlers is promised of
the file. `log` is the table Time, `cur` the record being counted, `asked` the
record the user is being asked about, `forced` the one loophole: tracking was
switched on under the question. `Begin`, `Suspend`, `Resume`, `Stop`, `Continue`
and `Finish` say what may happen to the log as a whole; `BreakLogged` has the
seams (the break starts a second after the end of the record before it, what
follows a second after the end of the break). `Cut` is the end of the process:
the log may be ahead of `cur` by the stores of one handler and is never behind
it. In `TimeLog`, `log` is `db.times`, `cur` the pointer in the options *row*,
not in memory, `asked` the id in `dlg`, and `forced` a flag of `odd`.

### Schema

| variable | code |
|---|---|
| `file`, `work` | the committed tables, and the tables as the connection sees them; each table has a `main` and a `tmp` (`TMP_OLD_...`) |
| `phase`, `todo`, `step` | is there a process, and is it past `createTables`; the tables still to do; the next statement of `createTable` |
| `old` | `oldTable`, the columns that the `SELECT` of `createTable` found |
| `orig`, `fails` | history: the file as the older version left it; the failures so far (bounded by `MaxFails`) |

An action is a statement: `Begin`, `Select`, `CreateNew`, `Rename`, `Create`,
`Insert`, `Drop`, `Index`, `Commit`. A statement that SQLite would refuse (a
name that is taken, a column that is not there: `Accepted`) cannot be executed,
only fail; `Fail` is also any other failure and the end of the process. A row
gives every column a value and the old rows a different one for every column, so
that a value in the wrong column shows.

### Reports

`Pages(rows)[n]` is the state of `showLog`'s loop after n rows, in the order of
the query, and `AddRecord` one turn of the loop; `Parts(rows, I)[n]` is the SQL
sum over the first n rows, as far as they are in `I`;
`appendLine` leaves out totals that are not positive, as the code does, and
`Int32` is the width of the code's sums. `localtime` is a calendar of weeks,
months and years with constant lengths. `calcTodayWork` has the query's two
conditions, and the record being counted, which is added from memory.

The log grows as the handlers of `TimeLog.cpp` make it grow, as far as the table
Time and its order are concerned:

| variable | code |
|---|---|
| `log`, `cur`, `asked` | the table Time ordered by `start`; the places in it of the record being counted and of the one the idle dialog is about |
| `now`, `since` | `time()`; the idle handler's `lastStateChangeTime`, as a time |

The times that are stored are the code's own, and mostly not those of the moment
they are stored at. `OnReturn` begins a record when the user came back, `OnIdle`
ends it when he left: after `since`, and at least `startTimeMs` or `stopTimeMs`
before `now`. The answers (`ActionStop`, `ActionSwitch`, `ActionLogAndBack`) move
the end to any time the pickers offer (`Picks`) and begin the next record a second
later; `Close` ends a record now, and `recoverFromCrash` at the last crash check or
a second after its start. So a record may begin within the two seconds at a seam
before the one in front of it ends, or a second in the future. `Counts` is a new
record and the options row that points at it, two stores between which the process
may end: then the record stays open. Left out, and modelled in `TimeLog`: tracking
switched on under the dialog, and picked times before the record's start or in the
future. Summer time is in neither.

### IdleDialog

`checked` is a set of radio buttons, not one, because the code keeps the four
exclusive by messages of its own; `pick` and `text` are what the pickers and the
combo boxes hold, `focus` is the control with the focus. `ShowIdleDlg` is
`WM_INITDIALOG`, `Check` a click on a radio button, `ChangeTime` and
`ChangeText` a notification and what `IdleWndProc` does on it, `Move` what
`ProcessIdleMessage` makes of Tab and Shift-Tab (`Tab`, `ShiftTab`), `OnOK` and
`OnCancel` the ends of the dialog. Radio buttons' own behaviour and
`IsDialogMessage` are Windows', modelled from how the code uses them:
`ZOrder` gives each control its place, `TabStops` are the controls that can be
reached, and `Following` and `Preceding` the nearest of them in `Steps` on the way
around the dialog.

### SystemTray

| variable | code |
|---|---|
| `shell`, `icons`, `created` | the shell: does it run, whose icons does it list, is `TaskbarCreated` on its way |
| `process`, `running`, `killed`, `gone` | the program, its starts and ends; has the shell restarted since the icon was added |
| `flags` | `m_bHidden`, `m_bRemoved`, `m_bShowIconPending` |
| `visible`, `lclick` | the main window; what is left of `TIMER_LCLICK` |
| `sinceDown`, `passing`, `inbox` | the shell's memory of the last press; clicks it has not posted yet; messages posted to the window |
| `presses`, `doubled`, `armedBy`, `owed` | history |

`Start` is `Create`; a program whose `NIM_ADD` failed ends at once (`Continues`).
`OnButtonDown`, `OnDoubleClick`, `OnShowHide`, `OnExit`, `OnClickTimer` and
`OnMinimize` are the messages of `MainWndProc`, `TaskbarCreated` is
`OnTaskbarCreated` with `InstallIconPending`, `RemoveIcon` the destructor. A
press becomes a double click by when it is *made*, while the program's timer runs
from when it is *received*: `Pass` may be up to `MaxDelay` after `Press`, and the
timer is only looked at when nothing is posted, as Windows has it.

## 3. The runs

Passing runs:

| run | what it shows | bounds |
|---|---|---|
| `IdleTracking` | type, `TimerArmed`, `AbsenceNoticed`, `InputNoticed`, `NoFalseIdle`, `ReturnIsReal` | two settings of the thresholds, latency 1, `GetLastInputInfo` may fail, clock to 11; 571 thousand states |
| `TimeLog` | type, `PointerIsDurable`, `MemoryMatchesDisk`, `DialogMatchesDisk`, `HandlerMatchesRecord`, `NoOrphans`, `Chronological`, `RecordsLieInThePast`, `HistoryFrozen`, `ImplementsWorkLog` | two clock units to a second, a day of six seconds that changes within the run, clock to 9, three records, two task names, a change of the thresholds, the process ends anywhere; 1.64 million states |
| `Store` | type, `Durable`, `LeftOpenOnlyUnderTheBox`, `IdsAreTrue`, `OneStoreAtATime` | three objects, two values, no bound on time; 97 thousand states |
| `Schema` | type, `NeverHalfRebuilt`, `NothingLost`, `ReadyIsComplete`, `Migrated` | the three tables with the code's own columns, from every prefix of them, three failures; 80 thousand states |
| `Reports` | type, `DayLinesAreExact`, `WeekLinesAreExact`, `BalloonForetellsLog`, `FallsOnlyByLoss` | three records in seven days of two seconds, weeks of three days, months of four, years of two months, thresholds of one second, sums modulo 128; 621 thousand states |
| `IdleDialog` | type, `OneChecked`, `AnswerIsLastChoice`, `UntouchedKeepsStart`, `ShiftTabUndoesTab` | two times of day, two texts, four dates; 61 thousand states |
| `SystemTray` | type, `IconsOfTheLiving`, `QuietDoubleClick`, `ClickAnswered` | four presses, two processes, one death of the shell, delay 1 under a margin of 2; 100 thousand states |

The properties, in short:

* `TimerArmed`: a handler that tracks has a timer, whatever its callbacks do,
  unless `GetLastInputInfo` failed.
* `AbsenceNoticed`, `InputNoticed`: how long an absence, or a return, can go
  unnoticed at most. `NoFalseIdle`: an absence is never noticed before
  `stopTimeMs` has passed. `ReturnIsReal`: from the time handed to `onReturn` on,
  the user was at work.
* `PointerIsDurable`: after a crash anywhere, the options row points at an
  existing record and every record at an existing task.
* `MemoryMatchesDisk`: between handlers the file says what `opts` says.
* `DialogMatchesDisk`: the idle dialog's copy of the record is never stale and
  never the record being counted.
* `HandlerMatchesRecord`: USING means a record is open, and under the open dialog
  nothing is counted, unless tracking was switched on there.
* `NoOrphans`: an open record is the one being counted, unless the process ended
  between the two stores that open one or tracking was switched on under the
  dialog.
* `Chronological`: no time is counted twice but for two seconds at a seam, unless
  the user picked an end before the record's start or in the future.
* `RecordsLieInThePast`: a closed record has no negative length and does not end
  in the future, but for the seconds the seams add.
* `HistoryFrozen`: records are only added, and none changes but the one being
  counted and the one the dialog is about.
* `ImplementsWorkLog`: every step is one that `WorkLog` allows.
* `Durable`: what a store that returned has written is in the file, unless a
  COMMIT was refused; `LeftOpenOnlyUnderTheBox`: after a refused COMMIT only
  handlers under the message box still store anything (and lose it).
* `IdsAreTrue`: no object has the id of another's row, whatever was rolled back.
* `OneStoreAtATime`: the file goes from one whole store to the next.
* `NeverHalfRebuilt`, `NothingLost`, `ReadyIsComplete`: wherever `createTables`
  stops, each table is an old or a new one, every value is in its column, and
  once it has returned all columns and indexes are there. `Migrated`: in the end
  they are, for good.
* `DayLinesAreExact`, `WeekLinesAreExact`: a line is the sum of its day's, or its
  calendar week's, records. `BalloonForetellsLog`: what `calcTodayWork` says now
  is what `showLog` will print for today. `FallsOnlyByLoss`: in the course of a day
  it falls by no more than what a record loses, the break at `OnIdle` or as much as
  an answer or a recovery moves its end back, and by two seconds at the seams when
  an answer adds records, unless a record begun before midnight is ended or the
  process ends before it points at a new record.
* `OneChecked`, `AnswerIsLastChoice`: one button, and the answer is the choice
  made last. `UntouchedKeepsStart`: a time the user has not touched is the time he
  went away. `ShiftTabUndoesTab`: the two switches of `ProcessIdleMessage` are
  each other's inverse along the checked row.
* `IconsOfTheLiving`: the shell lists the running program's icon, and otherwise
  only icons of killed processes. `QuietDoubleClick`: no balloon for half of a
  double click. `ClickAnswered`: every click is answered.

Why the bounds are enough. Thresholds of one unit let a whole cycle (return, work,
absence, dialog, answer) pass in five or six units, so `TimeLog`'s clock has room
for one with a crash, a start and a recovery in it; three records are one session
and the two that `ActionLogAndBack` adds. Two units to a second make time() and
the tick count round differently, and `Epoch` is half way through a day, so that
midnight comes in the middle of the run. `TickMod` and `Epoch` are just large
enough for the two assumptions under which the properties of time are proved
(section 5): tick counts do not wrap, and no computed moment is 0. Every exception
a property states is needed: with it taken out TLC finds a violation, within these
bounds but for two. The conjunct on `Orphans` in `FallsOnlyByLoss` takes ints that
overflow: TLC finds the fall with days of four seconds, `Epoch = 32` and a clock
that stops four seconds later, and the rest of the bounds as they are.
`Chronological`'s second second takes a record started a second in the future, a
crash, a recovery and a return at the right phase of the half seconds, which TLC
finds with `MaxClock = 10` and `Epoch` a multiple of the day, not in the run kept
here.

In `IdleTracking` the two settings make the polling period the minimum, or
different in each state. In `Store` two objects are enough for one to take the
other's id, and the third one joins a transaction that was left open. `Schema`
needs no bound but the number of failures: three reach every table after a failure
in each of the others. In `Reports` seven days are more than two weeks, cross the
end of a month and reach into another year, three records make a gap on either
side of a neighbour, and two records left open overflow the sum. `IdleDialog`'s
dates are a day in January, one that the month before does not have, and two
ordinary ones. In `SystemTray` four presses are two double clicks, or one with a
click on either side.

Runs in which TLC finds a disagreement between the code and what the repository
says of it:

| run | property | what happens |
|---|---|---|
| `ReturnAssertion` | `OnReturnAssertion` (`TimeLog.cpp:316`) | tracking is switched off and on under the open idle dialog, a record is opened, and the answer "Log this break" opens another: the assertion fails, and the first record stays open for ever |
| `OldTask` | `BackToOldTask` (`WorkTimeLog.rc:119`) | "keep counting old task" counts task 1 |
| `IgnoredBreak` | `RecoveryKeepsTime` (`WorkTimeLog.rc:118`) | "Ignore this break and keep counting", then a crash before the next crash check: recovery ends the record before the break, earlier than the file had it. It takes a last check that is older than the end the file had: a stop time below the five minutes of `TIMER_CRASH` (the options allow it), or a machine suspended in between |
| `WrapNoFalseIdle` | `NoFalseIdle` (`README.md:1`) | when the tick count wraps (every 49.7 days), a user at work is said to have left; a return can go unnoticed then, too |
| `TaskbarRestart` | `IconReturns` (`SystemTraySDK.cpp:761`) | the shell restarts, and `OnTaskbarCreated` does not add the icon again: `m_bShowIconPending` is FALSE after a `Create` that succeeded |

Behaviour met on the way that contradicts no text of the repository, and stands as
a named exception in a property instead of in a run: the pickers are given
`tm_mon`, which counts from 0, as a month that counts from 1, and refuse the date
on many days (`TimeLog.cpp:772`, `proposed` in `UntouchedKeepsStart`); Return is
OK on the Cancel button, too (1156); `showLog` merges two weeks across the end of
a month when more than a week passes without a record (382, `AcrossMonths`);
`calcTodayWork` ends the day `24 * 60 * 60 * 1000` seconds after midnight and
forgets a record begun before it once that is ended (421, `EndsYesterdays`); a
record whose pointer was never stored stays open and takes its whole start time off
the sums of its day (321, `CutShort`), and when that happens twice on a day, the int
overflows and the time worked today may fall from the largest int to the smallest
(430, the conjunct on `Orphans` in `FallsOnlyByLoss`); `OnSettingChange` cannot
be reached (`SystemTraySDK.cpp:889` compares the message's `wParam` with a timer's
id).

Deadlock is checked wherever the user can always act. `Reports`, `SystemTray` and
`TaskbarRestart` say `CHECK_DEADLOCK FALSE`: their bounds on the clock, on the
presses and on the starts end every behaviour.

## 4. Fairness

`TimeLog`, `IdleTracking`, `Store`, `Reports` and `IdleDialog` assume none. What
must happen "eventually" there is stated as a bound: in `IdleTracking` the clock
cannot pass the moment a timer has been due for `Latency`, and the properties say
how late an absence or a return is noticed. This is what the code justifies: the
loop handles a due timer as soon as it gets to it, and nothing else makes the user
come back or answer a dialog.

`Schema` assumes `WF_vars(Statement)`, the program executes its next statement,
and `WF_vars(Open)`, the user starts a program that has ended again: without
either, an unfinished migration stays one. Failures are not fair, and there are at
most `MaxFails` of them.

`SystemTray` assumes that the shell passes clicks on (`WF_vars(Pass)`), time
passes (`WF_vars(Tick)`) and the message loop takes what is posted
(`WF_vars(Handle)`). `SF_vars(OnClickTimer)` is strong because Windows makes
WM_TIMER only when nothing else is posted: a due timer is disabled whenever the
user clicks again, and is handled if the queue is empty again and again.

## 5. What is proved

All theorems hold for all values of the constants that satisfy the modules'
assumptions (any number of tasks, any thresholds, any length of the day, any tick
modulus, any bounds, crashes or none).

### TimeLogProofs, part 1: state invariants of the program

`Invariance` proves that `IInv` is an invariant of `Spec`:

    IInv == TypeOK /\ PointerIsDurable /\ MemoryMatchesDisk /\ DialogMatchesDisk
            /\ HandlerMatchesRecord /\ DefaultTaskExists /\ OneOptionsRow
            /\ Armed(uih)

The first five are the theorems `TypeCorrect`, `AlwaysLoadable`,
`MemoryIsStored`, `DialogIsFresh` and `HandlerAgrees`. They are not inductive
on their own. `OnReturn` opens a record of task 1, so `PointerIsDurable` needs
that the task exists while the program runs; reading the options row gives back
what was stored only if there is one row; and `HandlerMatchesRecord` says that a
handler that does not track stays where it is, which needs that no timer is
pending in it (`Armed`). `DialogMatchesDisk` needs `HandlerMatchesRecord`: a
record opened under the dialog must have another id.

The argument goes by stores. `DiskOK(d)` says that an image of the file can be
loaded. `UpdateTime`, `InsertTime`, `OptionsStored` and `ComboTaskStored` say
what each store does to such an image; `RecordOpened` and `RecordUpdated` combine
them; `ReturnKeepsIInv` and `DieKeepsIInv` say what is left to show of a
handler that returns and of one that is cut short. Each action then has one
lemma. The handler enters only through `UserIdleHandlerProofs`: the types of its
methods, what each does to `state` and `tracking`, and which callback goes with
which change of state (`OnTimerType`).

### TimeLogProofs, part 2: the program implements WorkLog

`Refinement` is `Spec => ImplementsWorkLog`, with the mapping of section 2. It
rests on `IInv` and on `Forgotten` (a program that does not run asks nothing and
knows nothing). `Grown(a, b, k, n)` says that
`b` is `a` with record `k` possibly ended differently and `n` records added;
`CutOff(d)` that a process may end with the image `d`; `Logged(d, n)` that `d`
has the seams of an answer that added `n` records. Every image of every handler is
shown to be `CutOff`, and the last one to be the result of one `WorkLog` action.
`HistoryIsFrozen` (`HistoryFrozen`) follows: `WorkLog` writes to the record it
counts, to the one it asks about, or adds (`NextWrites`).

### TimeLogProofs, part 3: what the records say of time

`NoneIsForgotten` proves `NoOrphans`, `RecordsArePast` `RecordsLieInThePast`, and
`RecordsFollow` `Chronological`. The first one assumes `LateEpoch`, `Epoch >
SecsPerDay + TickMod \div MsPerSec`: the code stores "not ended" as the moment 0,
so the moments it computes must not be 0, and the earliest of them lies a day
(time of day picked) or a turn of the tick count (the argument of a callback)
before the present. The other two assume `NoWrap`, `MaxClock < TickMod`: while
the tick count wraps, what a callback subtracts from time() is not the time that
has passed.

The inductive invariant `TimesInv` has one part for each assumption. `TidyInv`:
every start is positive, only the record that is pointed at is open, and the day
of the question is not day 0. `SaneInv`: `Past` and `InOrder` are the two
properties, with the starts bounded as well; they are kept because the record that
may still get another end is the last one; because the record being counted did
not start after the handler entered USING (`Begun`), which is what makes the time
handed to `OnIdle` lie after it; and because, while nothing is counted, all
records had ended when the handler last changed its state (`Waiting`), which is
what makes the time handed to `OnReturn` lie after them. `FloorSum` is the one
fact of arithmetic: rounding two parts loses no less than rounding their sum, so
that time() less a rounded difference of ticks is never earlier than the moment
meant, rounded. Each image of each handler must satisfy `Tidy` and `Sane`, since
the process may end at it; where it does not satisfy `Tidy`, it `LeavesOrphan` and
`Die` says so in `odd`.

### IdleTrackingProofs

`TypeCorrect` and `TimerIsKept` (`TimerArmed`) hold for any tick modulus;
`NoAbsenceIsInvented`, `AbsencesAreNoticed`, `InputsAreNoticed` and `ReturnsAreReal`
while the tick count does not wrap. That they need it is what `WrapNoFalseIdle`
shows. The invariant bounds the *pending timer*, not the time that has passed:
`InputSeen` (it expires within a period of the first unseen input), `AbsenceSeen`
(the state USING is not much younger than the last input, and the timer not set
far beyond it), `ReturnSeen` (the pauses between the looks), and `InTime` (no timer
is overdue by more than `Latency`) turns such a bound into one on the clock.

### StoreProofs

The type invariant, `Durable`, `LeftOpenOnlyUnderTheBox`, `IdsAreTrue` and
`OneStoreAtATime` for any objects and values (`TypeCorrect`, `StoresAreDurable`,
`LeftOpenMeansBoxed`, `IdsStayTrue`, `StoresAreAtomic`). The invariant says, for
every point of a call, what the connection holds beyond the file: `OwnTransaction`
while no COMMIT has been refused, `JoinedTransaction` after one was. `Durable`
needs `Ids`: a COMMIT disturbs no other object's row because no other object has
its id; and `Ids` must hold in the file as well as in the connection's view, since
a rollback goes back to the file. `StoresAreAtomic` is what allows `TimeLog` to
write the file in one step per store.

### SchemaProofs

`TypeCorrect`, `TablesAreWhole` (`NeverHalfRebuilt`), `ValuesAreKept`
(`NothingLost`) and `ReadyMeansComplete` (`ReadyIsComplete`), for the code's three
tables, any prefix of their columns an older version may have had, any indexes on
them, and any number of failures and ends of the process. `IInv` has two halves.
Of the file it says that every table is `Whole` between transactions: it has the
old columns or the new ones, no `TMP_OLD_...` beside it, and `Keeps` every value
of the older version. Of the transaction, `Before(t)` says for each point of
`createTable` what it has made of its table so far, and that the other tables are
as in the file; `old`, which an earlier `SELECT` has read, is still what the file
has. From `Before` it follows that a rollback loses nothing, that `Copy` finds
every value under its name, and also `NoneIsRefused`: a statement that SQLite must
refuse never comes up, so that no file makes every start fail.

### ReportsProofs

All of the module's properties, for any log, any calendar (lengths of the day,
the week, the month and the year) and any width of an int: `TypeCorrect`,
`DaysAreExact`, `WeeksAreExact`, `ReportsAgree` (`BalloonForetellsLog`) and
`TodayFallsByLoss` (`FallsOnlyByLoss`). All but `TypeCorrect` and `ReportsAgree`
assume `Before2038`, `Epoch + MaxClock + 2 * (MaxRows + 1) < IntRange \div 2`: the
clock fits an int, with two seconds to spare for every record; so does then the
length of one record that was left open (an end of 0 less a start). `ReportsAgree`
needs no such assumption: ints that overflow overflow alike in both reports
(`Int32Adds`).

The argument has three layers. `IInv` is about the log. Records stand in the order
of their starts, and each ends at most two seconds after the next one begins,
unless that one is open or at most a second long (`InTurn`): the overlap that the
seams make, where an answer begins a record a second after an end and a recovery
ends one a second after its start. None begins more than one second, or ends more
than two, after the handler's last change of state (`Recorded`). The record being
counted, or asked about, may be ended at any later time: those before it end by
then, but for the two seconds, and those behind it are open or short (`Pointed`,
`Latest`). The middle layer is about the loop of `showLog` over any ordered rows:
`Reached` says that behind n rows the lines stand for the units (days, or weeks)
before that of row n, in order and none twice (`Exact`), and that what is kept is
the sum of n's unit so far; `NextReached` shows that it is kept by a turn of the
loop, provided that the page is turned just where the unit changes
(`TurnsAreUnits`). It is, for days since a date determines its day
(`DateTellsDay`), and for weeks by `NextWeekIsExact`, which is where
`AcrossMonths` comes from: the weekday falls or the day of the month grows by a
week just when the week is another one, if less than a week has passed or the
month is the same. The third layer bounds the sums: none exceeds the time since
`Epoch` by more than two seconds per record (`SumsEnd`), and with one open record
none is less than `-now` by more than that (`SumsBegin`), so that they fit
(`SumsFit`). For `TodayFallsByLoss` one lemma per action says by how much the
exact sum can fall (`Falls`), and `WorkFits` that it is the one the program's ints
show.

`Pages` and `Parts` are recursive functions, and what they compute is proved by
induction over the number of rows. The library's induction rule takes an operator
and cannot be used, but its theorem on minimal elements of well-founded relations
takes a set: `LeastNumber` gets from it that a set of numbers has a least one,
`Induction` that a set which has 0 and the successor of each of its numbers has
all of them, and `Recursion` that a function given by its steps exists.

### IdleDialogProofs and SystemTrayProofs

`OneIsChecked` and `AnsweredAsChosen`, from `ChoiceChecked`: the one button that is
checked is the choice made last. `UntouchedAnswersStart` (`UntouchedKeepsStart`)
rests on `UntouchedShowStart`: while the pickers took the date, one the user has not
changed shows the time he went away. `TypeCorrect` needs that the focus moves to a
control whichever key is pressed: `Following` and `Preceding` choose the nearest
control, and there is one (`Least`, from the same theorem on minimal elements).
`KeysAreInverse` (`ShiftTabUndoesTab`) follows from what `NearestIsFound` gives
for each stop of the row (`AlongTheRow`, `AroundTheDialog`).

`TypeCorrect`; `IconsAreOfTheLiving`; and `DoubleClicksAreQuiet` for any
double-click time, any margin and any delay below it. `TimerStopped` says that the
timer set by a first half cannot be due before the second half is posted,
`TimerCovers` that it has the margin to go when the last press can no longer
become a first half, and `HalvesPosted` and `HalvesPassing` that first halves
which are still on their way are followed by second ones. The four hold while the
shell lists the icon: a shell that dies takes second halves with it, and balloons
too.

### Only model-checked

The liveness properties `Migrated` and `ClickAnswered`: liveness under fairness and
`ENABLED` are out of the prover's reach. Every invariant and every action property
of a passing run is a theorem.

## 6. What is not modelled, and why

* SQLite (`lib/`), 104 thousand of the repository's 109 thousand lines: vendored.
  What its failing statements leave behind is in `Store` and `Schema`, as the code
  meets it.
* A power cut: with `PRAGMA synchronous = OFF` what survives depends on the file
  system.
* The message box that reports a failed store, whose own loop still dispatches
  timers: `TimeLog` ends the process at the failed store; `Store` has the stores
  made under the box, but not what the handlers there do to `opts`.
* Two instances of the program over one file, a clock that is set back, summer
  time.
* A failing `GetLastInputInfo` inside the whole program (it is in
  `IdleTracking`).
* Text, the texts of balloons and tooltips, the About dialog, icon animation; what
  the program never calls: `remove`, `dropTable`, the range queries,
  `CSystemTray`'s `HideIcon`, `ShowIcon`, `SetIcon`, `SetIconList` (which reads
  one icon more than it is given, at 432), `MoveToRight`, animation and menus by position,
  and `OnSettingChange`, which cannot be reached.

## 7. What is left

1. A handler's sequence of stores with one that throws in the middle and the
   process going on under the message box: `Store`'s outcomes in `TimeLog`.
2. Two instances of the program over one file: `TimeLog`'s handlers of each, with
   the other's stores in between.
