----------------------------- MODULE IdleTracking -----------------------------
(***************************************************************************)
(* One UserIdleHandler against a user and a clock: when does it say that   *)
(* the user has left or come back, and how long after the fact?            *)
(*                                                                         *)
(* The message loop dispatches an expired timer at most Latency after it   *)
(* is due: Tick does not let time pass that point.                         *)
(***************************************************************************)
EXTENDS UserIdleHandler

CONSTANTS
  ThrChoices,  \* the values the three thresholds are given
  Latency,     \* longest delay of a timer message
  MayFail,     \* can GetLastInputInfo fail?
  MaxClock     \* bound: the clock stops here

ASSUME IdleTrackingAssumption ==
  /\ ThrChoices \subseteq Thresholds
  /\ Latency \in Nat
  /\ MayFail \in BOOLEAN
  /\ MaxClock \in Nat

VARIABLES
  clock,      \* the true time, in milliseconds
  lastInput,  \* when the user last touched the keyboard or the mouse
  uih,        \* the handler
  lastCall,   \* history: when one of its methods was last called
  unseen,     \* history: the first input since the last call or change of state
  gap,        \* history: longest pause between inputs while TRYING_TO_USE
  failed      \* history: has GetLastInputInfo failed since tracking started?

NoInput == -1  \* the value of "unseen" when there is none

vars == <<clock, lastInput, uih, lastCall, unseen, gap, failed>>

-----------------------------------------------------------------------------
(* The handler.  A callback of onIdle may stop the tracking (OnIdle does,  *)
(* when a record is open).                                                 *)

Polled == OnTimer(uih, clock, lastInput)

AfterCallback(stops) == IF stops THEN StopTracking(Polled.u) ELSE Polled.u

Poll ==
  /\ TimerDue(uih, clock)
  /\ \E stops \in {FALSE, Polled.call = "onIdle"} :
       uih' = StartTimer(AfterCallback(stops), clock)
  /\ gap' = IF uih.state # TRYING_TO_USE THEN 0 ELSE gap
  /\ unseen' = IF uih'.state # uih.state THEN NoInput ELSE unseen
  /\ UNCHANGED <<clock, lastInput, lastCall, failed>>

(* onTimer returns before it re-arms the timer it has killed. *)
PollFails ==
  /\ MayFail
  /\ TimerDue(uih, clock)
  /\ uih' = KillTimer(uih)
  /\ failed' = TRUE
  /\ UNCHANGED <<clock, lastInput, lastCall, unseen, gap>>

(* A method is called; it has left the handler as "u". *)
Called(u) ==
  /\ uih' = u
  /\ lastCall' = clock
  /\ gap' = 0
  /\ unseen' = NoInput
  /\ UNCHANGED <<clock, lastInput>>

CallStartTracking == Called(StartTracking(uih, clock)) /\ failed' = FALSE
CallStopTracking == Called(StopTracking(uih)) /\ UNCHANGED failed

(* The remaining methods re-arm the timer of a handler that is tracking.   *)
Rearmed == failed' = (failed /\ ~uih.tracking)

CallSetIsIdle(isIdle) == Called(SetIsIdle(uih, isIdle, clock)) /\ Rearmed
CallSetThresholds(thr) ==
  /\ thr # uih.thr
  /\ Called(SetThresholds(uih, thr, clock))
  /\ Rearmed

-----------------------------------------------------------------------------
(* The world. *)

Input ==
  /\ lastInput # clock
  /\ lastInput' = clock
  /\ gap' = Larger(gap, clock - lastInput)
  /\ unseen' = IF unseen = NoInput /\ GetTickCount(clock) # uih.lastStateChangeTime
                 THEN clock ELSE unseen
  /\ UNCHANGED <<clock, uih, lastCall, failed>>

Tick ==
  /\ clock < MaxClock
  /\ uih.hTimer # NoTimer => clock < uih.hTimer + Latency
  /\ clock' = clock + 1
  /\ UNCHANGED <<lastInput, uih, lastCall, unseen, gap, failed>>

Init ==
  /\ clock = 0
  /\ lastInput = 0
  /\ uih = NewHandler
  /\ lastCall = 0
  /\ unseen = NoInput
  /\ gap = 0
  /\ failed = FALSE

Next ==
  \/ Poll \/ PollFails
  \/ CallStartTracking \/ CallStopTracking
  \/ \E isIdle \in BOOLEAN : CallSetIsIdle(isIdle)
  \/ \E thr \in ThrChoices : CallSetThresholds(thr)
  \/ Input \/ Tick

Spec == Init /\ [][Next]_vars

-----------------------------------------------------------------------------
(* Properties. *)

(* The variables hold what they are declared to hold. *)
TypeOK ==
  /\ clock \in Nat /\ lastInput \in Nat /\ lastCall \in Nat
  /\ unseen \in Nat \cup {NoInput} /\ gap \in Nat
  /\ uih \in Handler
  /\ failed \in BOOLEAN

(* A handler that tracks has a timer pending, however its methods and its  *)
(* callbacks interleave, and one that does not track has none; only a      *)
(* failure of GetLastInputInfo leaves it tracking without a timer.         *)
TimerArmed == ~failed => (uih.tracking <=> uih.hTimer # NoTimer)

(* The user is never said to have left before all of stopTimeMs has passed *)
(* since his last input.                                                   *)
NoFalseIdle ==
  [][Poll /\ uih.state = USING /\ uih'.state = IDLE
       => clock - lastInput > uih.thr.stopTimeMs]_vars

(* The longest time from one look at the user to the next. *)
Step == Period(uih) + Latency

(* A user who has left is noticed: a handler that tracks in the state      *)
(* USING has seen an input or a call no longer ago than stopTimeMs and one *)
(* polling period, and idleDuringStartTimeMs more, the longest pause it    *)
(* overlooks when it enters that state.                                    *)
AbsenceNoticed ==
  uih.tracking /\ ~failed /\ uih.state = USING =>
    clock - Larger(lastInput, lastCall)
      <= uih.thr.stopTimeMs + uih.thr.idleDuringStartTimeMs + Step

(* A user who comes back is noticed: a handler that tracks in the state    *)
(* IDLE does not leave an input unseen for more than one polling period.   *)
(* (Input in the very tick of the change of state does not count.)         *)
InputNoticed ==
  uih.tracking /\ ~failed /\ uih.state = IDLE /\ unseen # NoInput
    => clock - unseen <= Step

(* The time the handler hands to onReturn, the time it entered             *)
(* TRYING_TO_USE, is one from which on the user has been at work: no pause *)
(* between two inputs was longer than idleDuringStartTimeMs and a period,  *)
(* or, for the first pause, than the two periods between the look that saw *)
(* the first input and the look after it.                                  *)
FirstPause == Period([uih EXCEPT !.state = IDLE]) + Latency + Step

ReturnIsReal ==
  [][Poll /\ uih.state = TRYING_TO_USE /\ uih'.state = USING
       /\ lastCall < uih.lastStateChangeTime
       => Larger(gap, clock - lastInput)
            <= Larger(uih.thr.idleDuringStartTimeMs + Step, FirstPause)]_vars
=============================================================================
