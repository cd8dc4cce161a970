--------------------------- MODULE UserIdleHandler ---------------------------
(***************************************************************************)
(* The class UserIdleHandler: a polling timer that watches the time of the *)
(* last keyboard or mouse input and decides whether the user is away       *)
(* (IDLE), has just come back (TRYING_TO_USE) or is working (USING).       *)
(*                                                                         *)
(* The class is a singleton driven by one thread, so its methods are       *)
(* written here as functions from the object to the object: "u" is the     *)
(* object before the call and "c" the true time, in milliseconds, at which *)
(* the call is made.  IdleTracking.tla runs them against a user and a      *)
(* clock; TimeLog.tla calls them from the program's event handlers.        *)
(***************************************************************************)
EXTENDS Integers

CONSTANTS
  TickMod,     \* GetTickCount() counts milliseconds modulo this (2^32)
  MsPerSec,    \* milliseconds in one unit of time() (1000)
  MinPeriod,   \* shortest polling period (100)
  Epoch        \* time() when the clock of the model reads 0

ASSUME HandlerAssumption ==
  /\ TickMod \in Nat \ {0}
  /\ MsPerSec \in Nat \ {0}
  /\ MinPeriod \in Nat \ {0}
  /\ Epoch \in Nat \ {0}

IDLE == "IDLE"
USING == "USING"
TRYING_TO_USE == "TRYING_TO_USE"
States == {IDLE, USING, TRYING_TO_USE}

NoTimer == -1  \* hTimer == NULL; any other value is the time the timer is due

(* The three thresholds the Options dialog edits. *)
Thresholds == [stopTimeMs : Nat, startTimeMs : Nat, idleDuringStartTimeMs : Nat]

Handler == [state : States, tracking : BOOLEAN, hTimer : Int,
            lastStateChangeTime : Nat, thr : Thresholds]

-----------------------------------------------------------------------------
(* The two system clocks, and DWORD subtraction. *)

GetTickCount(c) == c % TickMod
TimeOf(c) == Epoch + (c \div MsPerSec)
Since(now, then) == (now - then) % TickMod

Larger(a, b) == IF a > b THEN a ELSE b

-----------------------------------------------------------------------------
(* Construction, arming and disarming the timer. *)

NewHandler ==
  [state |-> IDLE, tracking |-> FALSE, hTimer |-> NoTimer,
   lastStateChangeTime |-> 0,
   thr |-> [stopTimeMs |-> 1000, startTimeMs |-> 1000,
            idleDuringStartTimeMs |-> 200]]

Threshold(u) ==
  CASE u.state = TRYING_TO_USE -> u.thr.idleDuringStartTimeMs
    [] u.state = USING         -> u.thr.stopTimeMs
    [] OTHER                   -> u.thr.startTimeMs

Period(u) == Larger(MinPeriod, Threshold(u) \div 3)

KillTimer(u) == [u EXCEPT !.hTimer = NoTimer]

StartTimer(u, c) ==
  [u EXCEPT !.hTimer = IF u.tracking THEN c + Period(u) ELSE NoTimer]

-----------------------------------------------------------------------------
(* The methods the program calls. *)

StartTracking_Unset(u, c) ==
  StartTimer([u EXCEPT !.tracking = TRUE, !.lastStateChangeTime = -1], c)
StartTracking(u, c) ==
  StartTimer([u EXCEPT !.tracking = TRUE,
                       !.lastStateChangeTime = GetTickCount(c)], c)

StopTracking_TimerKept(u) == [u EXCEPT !.tracking = FALSE]
StopTracking(u) == KillTimer([u EXCEPT !.tracking = FALSE])

Rearm_Not(u, c) == u
Rearm(u, c) == IF u.tracking THEN StartTimer(u, c) ELSE u

SetIsIdle(u, isIdle, c) ==
  Rearm([u EXCEPT !.state = IF isIdle THEN IDLE ELSE USING,
                  !.lastStateChangeTime = GetTickCount(c)], c)

(* setStopTimeMs, setStartTimeMs and setIdleDuringStartTimeMs, which the   *)
(* program always calls together: each does nothing when its value is the  *)
(* one already set, and otherwise re-arms a running timer.                 *)
SetThresholds(u, thr, c) ==
  IF thr = u.thr THEN u ELSE Rearm([u EXCEPT !.thr = thr], c)

-----------------------------------------------------------------------------
(* onTimer.  "li" is the true time of the last input; the result is the    *)
(* object as it is when the callbacks run ("call" names the list of        *)
(* callbacks, "ms" is what is subtracted from time() for their argument).  *)
(* The timer that fired is dead by then; the caller re-arms it with        *)
(* StartTimer once the callbacks have returned.                            *)

InputTime(u, li) == Larger(GetTickCount(li), u.lastStateChangeTime)

Quiet(u) == [u |-> u, call |-> "none", ms |-> 0]

Enter(u, state, tick) ==
  [u EXCEPT !.state = state, !.lastStateChangeTime = tick]

PollIdle(u, li) ==
  IF InputTime(u, li) > u.lastStateChangeTime
    THEN Quiet(Enter(u, TRYING_TO_USE, InputTime(u, li)))
    ELSE Quiet(u)

PollTrying_NoPauseCheck(u, c, li) ==
  LET now   == GetTickCount(c)
      using == Since(now, u.lastStateChangeTime)
  IN  IF using > u.thr.startTimeMs
        THEN [u |-> Enter(u, USING, now), call |-> "onReturn", ms |-> using]
      ELSE Quiet(u)
PollTrying(u, c, li) ==
  LET now   == GetTickCount(c)
      using == Since(now, u.lastStateChangeTime)
  IN  IF Since(now, InputTime(u, li)) > u.thr.idleDuringStartTimeMs
        THEN Quiet(Enter(u, IDLE, now))
      ELSE IF using > u.thr.startTimeMs
        THEN [u |-> Enter(u, USING, now), call |-> "onReturn", ms |-> using]
      ELSE Quiet(u)

PollUsing_SinceChange(u, c, li) ==
  LET now  == GetTickCount(c)
      away == Since(now, u.lastStateChangeTime)
  IN  IF away > u.thr.stopTimeMs
        THEN [u |-> Enter(u, IDLE, now), call |-> "onIdle", ms |-> away]
        ELSE Quiet(u)
PollUsing_Refreshed(u, c, li) ==
  LET now  == GetTickCount(c)
      away == Since(now, InputTime(u, li))
  IN  IF away > u.thr.stopTimeMs
        THEN [u |-> Enter(u, IDLE, now), call |-> "onIdle", ms |-> away]
        ELSE Quiet(Enter(u, USING, now))
PollUsing(u, c, li) ==
  LET now  == GetTickCount(c)
      away == Since(now, InputTime(u, li))
  IN  IF away > u.thr.stopTimeMs
        THEN [u |-> Enter(u, IDLE, now), call |-> "onIdle", ms |-> away]
        ELSE Quiet(u)

OnTimer(u, c, li) ==
  LET k == KillTimer(u) IN
  CASE u.state = TRYING_TO_USE -> PollTrying(k, c, li)
    [] u.state = USING         -> PollUsing(k, c, li)
    [] OTHER                   -> PollIdle(k, li)

(* The argument of the callbacks: time() less the whole seconds of "ms". *)
CallbackTime_Millis(c, ms) == TimeOf(c) - ms
CallbackTime(c, ms) == TimeOf(c) - (ms \div MsPerSec)

(* The timer has expired and its message can be dispatched. *)
TimerDue(u, c) == u.hTimer # NoTimer /\ c >= u.hTimer
=============================================================================
