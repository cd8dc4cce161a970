------------------------------- MODULE Reports -------------------------------
(***************************************************************************)
(* The two reports of TimeLog.cpp: showLog, which prints a line per day    *)
(* and per week when the program starts, and calcTodayWork, the "Time      *)
(* worked today" of the main window and of the balloon.  Both are          *)
(* functions of the log; here the log grows as OnReturn, OnIdle, the       *)
(* answers to the idle dialog and the ends of the process make it grow,    *)
(* and the reports are compared with the sums they are meant to be.        *)
(*                                                                         *)
(* The handlers are those of TimeLog, less what the reports do not read:   *)
(* tasks, options and milliseconds.  Two things only TimeLog has are left  *)
(* out: tracking switched on while the idle dialog is open, and answers    *)
(* that end a record before its start or in the future.                    *)
(*                                                                         *)
(* A date is what localtime_s makes of a time, without summer time.        *)
(***************************************************************************)
EXTENDS Integers, Sequences

CONSTANTS
  SecsPerDay,    \* 24 * 60 * 60
  DaysPerWeek,   \* 7
  DaysPerMonth,  \* every month is as long
  MonthsPerYear, \* 12
  IntRange,      \* an int holds this many values (2^32)
  Epoch,         \* time() at first, a midnight
  StartTime,     \* the least startTimeMs the user can set, in seconds
  StopTime,      \* the least stopTimeMs
  MaxClock,      \* bound: time() stops this long after Epoch
  MaxRows        \* bound: no record is added beyond this many

ASSUME ReportsAssumption ==
  /\ {SecsPerDay, DaysPerWeek, DaysPerMonth, MonthsPerYear} \subseteq Nat \ {0}
  /\ DaysPerMonth >= DaysPerWeek
  /\ IntRange \in Nat \ {0} /\ IntRange % 2 = 0
  /\ Epoch \in Nat /\ Epoch % SecsPerDay = 0 /\ Epoch > 0
  /\ {StartTime, StopTime} \subseteq Nat \ {0}
  /\ {MaxClock, MaxRows} \subseteq Nat

VARIABLES
  now,    \* time()
  log,    \* the table Time, in the order of "start"
  cur,    \* the record being counted, or 0
  asked,  \* the record the idle dialog is about, or 0
  since   \* lastStateChangeTime of the idle handler, as a time

vars == <<now, log, cur, asked, since>>

Row == [start : Nat, end : Nat]

Int32(x) == ((x + IntRange \div 2) % IntRange) - IntRange \div 2

-----------------------------------------------------------------------------
(* The calendar. *)

Day(t) == t \div SecsPerDay
Midnight(t) == Day(t) * SecsPerDay

localtime(t) ==
  LET month == Day(t) \div DaysPerMonth IN
  [mday |-> (Day(t) % DaysPerMonth) + 1,
   mon  |-> month % MonthsPerYear,
   year |-> month \div MonthsPerYear,
   wday |-> Day(t) % DaysPerWeek]

ZeroDate == [mday |-> 0, mon |-> 0, year |-> 0, wday |-> 0]

-----------------------------------------------------------------------------
(* showLog.  "text" is the sequence of its lines. *)

appendLine(text, kind, date, total) ==
  IF total <= 0 THEN text
  ELSE Append(text, [kind |-> kind, date |-> date, total |-> total])

SameDate_NoMonth(a, b) == a.mday = b.mday
SameDate(a, b) == a.mday = b.mday /\ a.mon = b.mon /\ a.year = b.year

NextWeek_NoGap(last, tm) == tm.wday < last.wday
NextWeek(last, tm) ==
  \/ tm.wday < last.wday
  \/ tm.mday >= last.mday + DaysPerWeek

Started == [text |-> <<>>, last |-> ZeroDate, total |-> 0, weekTotal |-> 0]

(* What the loop does when a record is of another day than the last one. *)
DayLine(s) == appendLine(s.text, "day", s.last, s.total)
WeekLine(text, s) == appendLine(text, "week", s.last, s.weekTotal)

TurnPage(s, tm) ==
  IF SameDate(s.last, tm) THEN s
  ELSE LET over == NextWeek(s.last, tm) IN
       [text      |-> IF over THEN WeekLine(DayLine(s), s) ELSE DayLine(s),
        last      |-> tm,
        total     |-> 0,
        weekTotal |-> IF over THEN 0 ELSE s.weekTotal]

AddRecord(s, r) ==
  LET page == TurnPage(s, localtime(r.start))
      diff == Int32(r.end - r.start)
  IN  [page EXCEPT !.total = Int32(@ + diff), !.weekTotal = Int32(@ + diff)]

(* The state of the loop after each of its records.                         *)
Pages(rows) ==
  LET Page[n \in 0 .. Len(rows)] ==
        IF n = 0 THEN Started ELSE AddRecord(Page[n - 1], rows[n])
  IN  Page

showLog(rows) == LET s == Pages(rows)[Len(rows)] IN WeekLine(DayLine(s), s)

-----------------------------------------------------------------------------
(* calcTodayWork.  The day ends, by a slip of the factor 1000, a thousand  *)
(* days after it began.                                                    *)

Length(r) == r.end - r.start

(* sum(end - start) of the first so many rows, as far as they are in I.     *)
Parts(rows, I) ==
  LET Part[n \in 0 .. Len(rows)] ==
        IF n = 0 THEN 0 ELSE Part[n - 1] + (IF n \in I THEN Length(rows[n]) ELSE 0)
  IN  Part

Sum(rows, I) == Parts(rows, I)[Len(rows)]

TodayRows_Last24Hours ==
  {i \in DOMAIN log : log[i].start >= now - SecsPerDay /\ i # cur}
TodayRows_CurToo ==
  {i \in DOMAIN log : log[i].start >= Midnight(now)}
TodayRows ==
  LET start == Midnight(now)
      end   == start + SecsPerDay * 1000
  IN  {i \in DOMAIN log : log[i].start >= start /\ log[i].end < end /\ i # cur}

calcTodayWork ==
  LET total == Int32(Sum(log, TodayRows)) IN
  IF cur > 0 THEN Int32(total + (now - log[cur].start)) ELSE total

-----------------------------------------------------------------------------
(* The log. *)

Larger(a, b) == IF a > b THEN a ELSE b

(* The place of a record that starts at t, behind those that do so too.     *)
Place(rows, p, t) ==
  /\ p \in 1 .. (Len(rows) + 1)
  /\ \A i \in DOMAIN rows : i < p <=> rows[i].start <= t

Insert(rows, p, r) ==
  [i \in 1 .. (Len(rows) + 1) |-> IF i < p THEN rows[i] ELSE IF i = p THEN r ELSE rows[i - 1]]

EndedAt(i, time) == [log EXCEPT ![i].end = time]

(* A record is stored, and then the options row that points at it, unless   *)
(* the process ends in between.                                             *)
Counts(rows, start) ==
  \E p \in 1 .. (Len(rows) + 1) :
    /\ Place(rows, p, start)
    /\ log' = Insert(rows, p, [start |-> start, end |-> 0])
    /\ cur' \in {p, 0}

Room(n) == Len(log) + n <= MaxRows

(* The user came back at "time": after the handler's last change of state,  *)
(* and long enough ago to have been told from a passing touch.              *)
OnReturn_Unstored(time) ==
  /\ cur = 0 /\ asked = 0
  /\ cur' = Len(log) + 1
  /\ UNCHANGED <<now, log, asked, since>>
OnReturn(time) ==
  /\ cur = 0 /\ asked = 0
  /\ Room(1)
  /\ time >= since /\ time + StartTime <= now
  /\ Counts(log, time)
  /\ since' = now
  /\ UNCHANGED <<now, asked>>

(* He left at "time".                                                       *)
OnIdle(time) ==
  /\ cur > 0
  /\ time >= since /\ time + StopTime <= now
  /\ log' = EndedAt(cur, time)
  /\ cur' = 0 /\ asked' = cur
  /\ since' = now
  /\ UNCHANGED now

(* The times the user can pick, on the day the break began; the proposed    *)
(* one is that of the break.                                                *)
Picks ==
  {log[asked].end} \cup
    {t \in log[asked].start .. now : Day(t) = Day(log[asked].end)}

Answered == asked' = 0 /\ since' = now /\ UNCHANGED now

(* Also what is left when the process ends while the dialog is open, or     *)
(* after FixLogEndTime in one of its answers.                               *)
ActionStop(pick) ==
  /\ asked > 0 /\ pick \in Picks
  /\ log' = EndedAt(asked, pick)
  /\ Answered
  /\ UNCHANGED cur

ActionIgnore ==
  /\ asked > 0
  /\ cur' = asked
  /\ Answered
  /\ UNCHANGED log

ActionSwitch(pick) ==
  /\ asked > 0 /\ pick \in Picks
  /\ Room(1)
  /\ Counts(EndedAt(asked, pick), pick + 1)
  /\ Answered

ActionLogAndBack(pick) ==
  /\ asked > 0 /\ pick \in Picks
  /\ Room(2)
  /\ \E p \in 1 .. (Len(log) + 1) :
       LET other == [start |-> pick + 1, end |-> now - 1]
           rows  == Insert(EndedAt(asked, pick), p, other)
       IN  /\ Place(EndedAt(asked, pick), p, pick + 1)
           /\ Counts(rows, now) \/ (log' = rows /\ cur' = 0)
  /\ Answered

(* WM_CLOSE of the main window. *)
Close ==
  /\ cur > 0
  /\ log' = EndedAt(cur, now)
  /\ cur' = 0 /\ since' = now
  /\ UNCHANGED <<now, asked>>

(* The next start after the process ended while a record was being counted; *)
(* "check" is lastCheck.                                                    *)
recoverFromCrash(check) ==
  /\ cur > 0
  /\ log' = EndedAt(cur, Larger(check, log[cur].start + 1))
  /\ cur' = 0 /\ since' = now
  /\ UNCHANGED <<now, asked>>

Tick ==
  /\ now < Epoch + MaxClock
  /\ now' = now + 1
  /\ UNCHANGED <<log, cur, asked, since>>

Init ==
  /\ now = Epoch
  /\ log = <<>>
  /\ cur = 0 /\ asked = 0
  /\ since = now

Next ==
  \/ \E time \in since .. now : OnReturn(time) \/ OnIdle(time)
  \/ \E pick \in Epoch .. now :
       ActionStop(pick) \/ ActionSwitch(pick) \/ ActionLogAndBack(pick)
  \/ ActionIgnore \/ Close
  \/ \E check \in Epoch .. now : recoverFromCrash(check)
  \/ Tick

Spec == Init /\ [][Next]_vars

-----------------------------------------------------------------------------
(* Properties. *)

(* The variables hold what they are declared to hold. *)
TypeOK ==
  /\ now \in Nat
  /\ log \in Seq(Row)
  /\ {cur, asked} \subseteq 0 .. Len(log)
  /\ since \in Nat

Orphans == {i \in DOMAIN log : log[i].end = 0 /\ i # cur}
AtMostOne(S) == \A a, b \in S : a = b

(* The days and the weeks of the records, by their numbers.                 *)
DayOf(rows) == [i \in DOMAIN rows |-> Day(rows[i].start)]
WeekOf(rows) == [i \in DOMAIN rows |-> Day(rows[i].start) \div DaysPerWeek]

RowsOf(unit, u) == {i \in DOMAIN unit : unit[i] = u}
Total(rows, unit, u) == Sum(rows, RowsOf(unit, u))

LinesOf(text, kind) == {k \in DOMAIN text : text[k].kind = kind}

(* A line stands for a day or week: its total, at the date of one of its    *)
(* records.                                                                 *)
Dated(line, rows, unit, u) == \E i \in RowsOf(unit, u) : line.date = localtime(rows[i].start)

Shows(line, rows, unit, u) ==
  line.total = Total(rows, unit, u) /\ Dated(line, rows, unit, u)

(* The lines come in the order of time, and no two stand for the same.      *)
InOrder(text, kind, rows, unit) ==
  \A k, m \in LinesOf(text, kind), i, j \in DOMAIN rows :
    /\ k < m
    /\ text[k].date = localtime(rows[i].start)
    /\ text[m].date = localtime(rows[j].start)
    => unit[i] < unit[j]

(* A day with work has one line with the sum of its records, and no other  *)
(* day has a line, wherever the days fall in their weeks, months and years *)
(* and whatever was left open on other days.  A record left open on the    *)
(* day itself makes its total negative and hides the day; two of them make *)
(* the int overflow, and the line shows work that never was.               *)
DayLinesAreExact ==
  cur = 0 =>
    LET text == showLog(log)
        unit == DayOf(log)
        Works(i) == Total(log, unit, unit[i]) > 0
    IN  /\ \A i \in DOMAIN log : Works(i) =>
             \E k \in LinesOf(text, "day") : Shows(text[k], log, unit, unit[i])
        /\ (\A i \in DOMAIN log : AtMostOne(RowsOf(unit, unit[i]) \cap Orphans)) =>
             \A k \in LinesOf(text, "day") :
               \E i \in DOMAIN log : Works(i) /\ Shows(text[k], log, unit, unit[i])
        /\ InOrder(text, "day", log, unit)

(* The week lines are the sums of the calendar weeks, in order.  The loop  *)
(* sees a new week when the weekday falls or the day of the month grows by *)
(* a week; it merges two weeks when neither is so: more than a week passes *)
(* without a record, across the end of a month, to a later or equal        *)
(* weekday.                                                                *)
AcrossMonths(i) ==
  /\ Day(log[i + 1].start) - Day(log[i].start) >= DaysPerWeek
  /\ Day(log[i].start) \div DaysPerMonth # Day(log[i + 1].start) \div DaysPerMonth

WeekLinesAreExact ==
  cur = 0 /\ Orphans = {} /\ (\A i \in DOMAIN log : i + 1 \in DOMAIN log => ~AcrossMonths(i)) =>
    LET text == showLog(log)
        unit == WeekOf(log)
        Works(i) == Total(log, unit, unit[i]) > 0
    IN  /\ \A i \in DOMAIN log : Works(i) =>
             \E k \in LinesOf(text, "week") : Shows(text[k], log, unit, unit[i])
        /\ \A k \in LinesOf(text, "week") :
             \E i \in DOMAIN log : Works(i) /\ Shows(text[k], log, unit, unit[i])
        /\ InOrder(text, "week", log, unit)

(* The two reports agree: what the window says was worked today is the     *)
(* line the next start would print for today if the record were ended now, *)
(* and there is no such line when it says nothing was.  (calcTodayWork     *)
(* counts the whole of a record begun before midnight, as long as it is    *)
(* the one being counted; showLog counts it on the day it began.  A record *)
(* may begin a second ahead of the clock, and then after midnight.)        *)
LogIfClosed == IF cur = 0 THEN log ELSE EndedAt(cur, now)

BalloonForetellsLog ==
  /\ cur = 0 \/ log[cur].start >= Midnight(now)
  /\ \A i \in DOMAIN log : Day(log[i].start) <= Day(now)
  =>
    LET text  == showLog(LogIfClosed)
        today == {k \in LinesOf(text, "day") : text[k].date = localtime(now)}
    IN  IF calcTodayWork > 0
          THEN \E k \in today : text[k].total = calcTodayWork
          ELSE today = {}

(* In the course of a day the time worked today falls only by what a record *)
(* loses: at OnIdle by the break, at an answer and at recovery by as much   *)
(* as the end moves back, and never by more than that, whether the record   *)
(* is counted as the current one or by the query; an answer that adds       *)
(* records may cost two seconds at the seams.  (But it falls by the whole   *)
(* of a record begun before midnight when that one is ended: counted until  *)
(* then, it is not one of today's records after.  It falls below zero when  *)
(* the process ends before it can point at a new record, and may fall from  *)
(* the largest int to the smallest when that happened twice on a day.)      *)
Until(i) == IF i = cur THEN now ELSE log[i].end

Lost(i) == IF i = 0 THEN 0 ELSE Larger(0, Until(i) - Until(i)')
Seams == IF Len(log') > Len(log) THEN 2 ELSE 0

EndsYesterdays == cur > 0 /\ cur' = 0 /\ log[cur].start < Midnight(now)
CutShort == cur' = 0 /\ Len(log') > Len(log)

FallsOnlyByLoss ==
  [][\A i \in {cur, asked} :
       /\ i > 0 \/ (cur = 0 /\ asked = 0)
       /\ Day(now') = Day(now)
       /\ AtMostOne(TodayRows \cap Orphans)
       /\ ~EndsYesterdays /\ ~CutShort
       => calcTodayWork' >= calcTodayWork - Lost(i) - Seams]_vars
=============================================================================
