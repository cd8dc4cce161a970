-------------------------- MODULE IdleTrackingProofs --------------------------
(* The idle handler against any user and any sequence of calls, for all    *)
(* values of the constants: its timer is never lost, and while the tick    *)
(* count does not wrap no absence is invented and none, and no return,     *)
(* goes unnoticed for longer than the thresholds and the polling allow.    *)
EXTENDS IdleTracking, UserIdleHandlerProofs

(* GetTickCount does not start again from 0 within the time considered.    *)
NoWrap == MaxClock < TickMod

Entered == uih.lastStateChangeTime
Timed == uih.hTimer # NoTimer
LastSeen == Larger(lastInput, lastCall)

TypeInv ==
  /\ TypeOK
  /\ lastInput <= clock
  /\ uih.hTimer \in Nat \cup {NoTimer}
  /\ Armed(uih)
  /\ TimerArmed

(* Nothing happens in the future, and the pending timer belongs to the     *)
(* present state and is not overdue.                                       *)
InTime ==
  /\ clock <= MaxClock /\ lastCall <= clock /\ Entered <= clock
  /\ Timed => clock <= uih.hTimer + Latency /\ uih.hTimer <= clock + Period(uih)

(* An input that has not been seen will be seen by the pending timer.      *)
InputSeen ==
  uih.state = IDLE /\ unseen # NoInput =>
    /\ lastInput > Entered
    /\ unseen <= clock
    /\ Timed => uih.hTimer <= unseen + Period(uih)

(* The state of a user at work is not much younger than his last input,    *)
(* and the timer that looks at him is not set far beyond it.               *)
AbsenceSeen ==
  /\ uih.state = TRYING_TO_USE => Entered <= LastSeen
  /\ uih.state = USING =>
       /\ Entered <= LastSeen + uih.thr.idleDuringStartTimeMs
       /\ Timed => uih.hTimer <= LastSeen + uih.thr.stopTimeMs
                                   + uih.thr.idleDuringStartTimeMs + Period(uih)

(* From the first input after an absence on, no look at the user comes     *)
(* later after an input than this.                                         *)
Longest == Larger(uih.thr.idleDuringStartTimeMs + Step, FirstPause)

ReturnSeen ==
  /\ uih.state = IDLE /\ Timed /\ lastInput > Entered /\ lastCall <= lastInput =>
       uih.hTimer <= lastInput + Period(uih)
  /\ uih.state = TRYING_TO_USE /\ Timed /\ lastCall < Entered =>
       /\ gap <= Longest
       /\ uih.hTimer + Latency <= lastInput + Longest

IInv == TypeInv /\ InTime /\ InputSeen /\ AbsenceSeen /\ ReturnSeen

-----------------------------------------------------------------------------
(* Clocks that do not wrap. *)

(* Until it wraps, the tick count is the time.                             *)
LEMMA TickIsTime ==
  ASSUME NoWrap, NEW c \in Nat, c <= MaxClock
  PROVE  GetTickCount(c) = c
  <1>1. c < TickMod /\ TickMod \in Nat \ {0}
    BY HandlerAssumption, IdleTrackingAssumption DEF NoWrap
  <1>2. QED BY <1>1 DEF GetTickCount

(* And the difference of two tick counts is the time in between.           *)
LEMMA SinceIsDifference ==
  ASSUME NoWrap, NEW a \in Nat, NEW b \in Nat, b <= a, a <= MaxClock
  PROVE  Since(a, b) = a - b
  <1>1. a - b \in Nat /\ a - b < TickMod /\ TickMod \in Nat \ {0}
    BY HandlerAssumption, IdleTrackingAssumption DEF NoWrap
  <1>2. QED BY <1>1 DEF Since

(* The period depends on the state and the thresholds, and is never 0.     *)
LEMMA Periods ==
  ASSUME NEW u \in Handler
  PROVE  /\ Period(u) \in Nat \ {0}
         /\ Period([u EXCEPT !.state = IDLE]) \in Nat \ {0}
         /\ \A v \in Handler : v.thr = u.thr =>
              /\ v.state = u.state => Period(v) = Period(u)
              /\ v.state = IDLE => Period(v) = Period([u EXCEPT !.state = IDLE])
              /\ Period([v EXCEPT !.state = IDLE]) = Period([u EXCEPT !.state = IDLE])
  <1>1. ASSUME NEW v \in Handler PROVE Period(v) \in Nat \ {0}
    <2>1. Period(v) \in Nat
      BY PeriodType
    <2>2. Period(v) >= MinPeriod
      <3>1. Threshold(v) \in Nat
        BY DEF Threshold, Handler, Thresholds, States
      <3>2. Threshold(v) \div 3 \in Nat
        BY <3>1
      <3>3. QED BY <3>2, HandlerAssumption DEF Period, Larger
    <2>3. QED BY <2>1, <2>2, HandlerAssumption
  <1>. DEFINE w(v) == [v EXCEPT !.state = IDLE]
  <1>2. ASSUME NEW v \in Handler
        PROVE  w(v) \in Handler /\ w(v).state = IDLE /\ w(v).thr = v.thr
    BY DEF Handler, States, IDLE
  <1>. HIDE DEF w
  <1>3. ASSUME NEW v \in Handler, NEW x \in Handler, v.thr = x.thr, v.state = x.state
        PROVE  Period(v) = Period(x)
    BY <1>3 DEF Period, Threshold
  <1>4. Period(w(u)) \in Nat \ {0}
    BY <1>1, <1>2
  <1>5. ASSUME NEW v \in Handler, v.thr = u.thr
        PROVE  /\ v.state = u.state => Period(v) = Period(u)
               /\ v.state = IDLE => Period(v) = Period(w(u))
               /\ Period(w(v)) = Period(w(u))
    BY <1>2, <1>3, <1>5
  <1>6. QED BY <1>1, <1>4, <1>5 DEF w

(* What a poll sees and does, while the tick count does not wrap.          *)
LEMMA PollSees ==
  ASSUME NoWrap, NEW u \in Handler, NEW c \in Nat, c <= MaxClock,
         NEW li \in Nat, li <= c, u.lastStateChangeTime <= c,
         NEW v, v = OnTimer(u, c, li).u
  PROVE  LET since == u.lastStateChangeTime
             away  == c - Larger(li, since)
         IN  /\ v \in Handler /\ v.thr = u.thr /\ v.tracking = u.tracking
             /\ u.state = IDLE =>
                  \/ li > since /\ v.state = TRYING_TO_USE /\ v.lastStateChangeTime = li
                  \/ li <= since /\ v.state = IDLE /\ v.lastStateChangeTime = since
             /\ u.state = TRYING_TO_USE =>
                  \/ v.state = IDLE /\ v.lastStateChangeTime = c
                  \/ /\ away <= u.thr.idleDuringStartTimeMs
                     /\ v.state = USING /\ v.lastStateChangeTime = c
                  \/ /\ away <= u.thr.idleDuringStartTimeMs
                     /\ v.state = TRYING_TO_USE /\ v.lastStateChangeTime = since
             /\ u.state = USING =>
                  \/ /\ away > u.thr.stopTimeMs
                     /\ v.state = IDLE /\ v.lastStateChangeTime = c
                  \/ /\ away <= u.thr.stopTimeMs
                     /\ v.state = USING /\ v.lastStateChangeTime = since
  <1>. DEFINE k == KillTimer(u)
              since == u.lastStateChangeTime
              in == Larger(li, since)
  <1>1. /\ k \in Handler /\ k.thr = u.thr /\ k.tracking = u.tracking /\ k.state = u.state
        /\ k.lastStateChangeTime = since /\ since \in Nat
    BY TrackingTypes DEF KillTimer, Handler
  <1>. HIDE DEF k
  <1>2. GetTickCount(c) = c /\ GetTickCount(li) = li
    BY TickIsTime, IdleTrackingAssumption
  <1>3. InputTime(k, li) = in /\ in \in Nat /\ in <= c
    BY <1>1, <1>2 DEF InputTime, Larger
  <1>. HIDE DEF since, in
  <1>4. Since(GetTickCount(c), InputTime(k, li)) = c - in
    BY <1>2, <1>3, SinceIsDifference
  <1>5. ASSUME NEW s \in States, NEW t \in Nat
        PROVE  /\ Enter(k, s, t) \in Handler
               /\ Enter(k, s, t).tracking = u.tracking
               /\ Enter(k, s, t).thr = u.thr
               /\ Enter(k, s, t).state = s
               /\ Enter(k, s, t).lastStateChangeTime = t
    BY <1>1 DEF Enter, Handler
  <1>6. IDLE \in States /\ USING \in States /\ TRYING_TO_USE \in States
        /\ USING # IDLE /\ USING # TRYING_TO_USE /\ IDLE # TRYING_TO_USE
    BY DEF States, IDLE, USING, TRYING_TO_USE
  <1>7. CASE u.state = IDLE
    <2>1. v = PollIdle(k, li).u
      BY <1>6, <1>7 DEF OnTimer, k
    <2>2. CASE in > since
      <3>1. v = Enter(k, TRYING_TO_USE, in)
        BY <1>1, <1>3, <2>1, <2>2 DEF PollIdle, Quiet
      <3>2. in = li /\ li > since
        BY <1>1, <2>2 DEF in, Larger
      <3>3. QED BY <1>3, <1>5, <1>6, <1>7, <3>1, <3>2 DEF since
    <2>3. CASE ~(in > since)
      <3>1. v = k
        BY <1>1, <1>3, <2>1, <2>3 DEF PollIdle, Quiet
      <3>2. li <= since
        BY <1>1, <2>3 DEF in, Larger
      <3>3. QED BY <1>1, <1>6, <1>7, <3>1, <3>2 DEF since
    <2>4. QED BY <2>2, <2>3
  <1>8. CASE u.state = TRYING_TO_USE
    <2>1. v = PollTrying(k, c, li).u
      BY <1>6, <1>8 DEF OnTimer, k
    <2>2. CASE c - in > u.thr.idleDuringStartTimeMs
      <3>1. v = Enter(k, IDLE, c)
        BY <1>1, <1>2, <1>4, <2>1, <2>2 DEF PollTrying, Quiet
      <3>2. QED BY <1>5, <1>6, <1>8, <3>1 DEF since
    <2>3. CASE ~(c - in > u.thr.idleDuringStartTimeMs)
      <3>1. c - in <= u.thr.idleDuringStartTimeMs
        BY <1>3, <2>3 DEF Handler, Thresholds
      <3>2. v = Enter(k, USING, c) \/ v = k
        BY <1>1, <1>2, <1>4, <2>1, <2>3 DEF PollTrying, Quiet
      <3>3. CASE v = Enter(k, USING, c)
        BY <1>5, <1>6, <1>8, <3>1, <3>3 DEF since, in
      <3>4. CASE v = k
        BY <1>1, <1>6, <1>8, <3>1, <3>4 DEF since, in
      <3>5. QED BY <3>2, <3>3, <3>4
    <2>4. QED BY <2>2, <2>3
  <1>9. CASE u.state = USING
    <2>1. v = PollUsing(k, c, li).u
      BY <1>6, <1>9 DEF OnTimer, k
    <2>2. CASE c - in > u.thr.stopTimeMs
      <3>1. v = Enter(k, IDLE, c)
        BY <1>1, <1>2, <1>4, <2>1, <2>2 DEF PollUsing
      <3>2. QED BY <1>5, <1>6, <1>9, <2>2, <3>1 DEF since, in
    <2>3. CASE ~(c - in > u.thr.stopTimeMs)
      <3>1. c - in <= u.thr.stopTimeMs
        BY <1>3, <2>3 DEF Handler, Thresholds
      <3>2. v = k
        BY <1>1, <1>2, <1>4, <2>1, <2>3 DEF PollUsing, Quiet
      <3>3. QED BY <1>1, <1>6, <1>9, <3>1, <3>2 DEF since, in
    <2>4. QED BY <2>2, <2>3
  <1>10. u.state \in States
    BY DEF Handler
  <1>11. QED BY <1>7, <1>8, <1>9, <1>10 DEF States

-----------------------------------------------------------------------------
(* What the methods leave behind. *)

(* "v" is "u" with its timer set to the next look, or with none.           *)
Looks(v, u, c) ==
  /\ v \in Handler
  /\ v.thr = u.thr /\ v.state = u.state /\ v.tracking = u.tracking
  /\ v.lastStateChangeTime = u.lastStateChangeTime
  /\ v.tracking <=> v.hTimer # NoTimer
  /\ v.hTimer \in {NoTimer, c + Period(v)}

(* startTimer sets the timer of a handler that tracks.                     *)
LEMMA TimerStarted ==
  ASSUME NEW u \in Handler, NEW c \in Nat
  PROVE  Looks(StartTimer(u, c), u, c)
  <1>. DEFINE v == StartTimer(u, c)
  <1>1. v \in Handler
    BY StartTimerType
  <1>2. /\ v.thr = u.thr /\ v.state = u.state /\ v.tracking = u.tracking
        /\ v.lastStateChangeTime = u.lastStateChangeTime
        /\ v.hTimer = IF u.tracking THEN c + Period(u) ELSE NoTimer
    BY DEF StartTimer, Handler
  <1>. HIDE DEF v
  <1>3. Period(v) = Period(u) /\ Period(u) \in Nat
    BY <1>1, <1>2, Periods
  <1>4. c + Period(u) # NoTimer
    BY <1>3 DEF NoTimer
  <1>5. u.tracking \in BOOLEAN
    BY DEF Handler
  <1>6. QED BY <1>1, <1>2, <1>3, <1>4, <1>5 DEF Looks, v

(* Re-arming leaves a handler that does not track as it is, without one.   *)
LEMMA TimerRestarted ==
  ASSUME NEW u \in Handler, NEW c \in Nat, Armed(u)
  PROVE  Looks(Rearm(u, c), u, c)
  <1>1. CASE u.tracking
    BY <1>1, TimerStarted DEF Rearm
  <1>2. CASE ~u.tracking
    <2>1. Rearm(u, c) = u /\ u.hTimer = NoTimer
      BY <1>2 DEF Rearm, Armed
    <2>2. QED BY <1>2, <2>1 DEF Looks
  <1>3. QED BY <1>1, <1>2

(* A call of a method leaves a handler with a timer or one that does not   *)
(* track, in no state it did not enter now or before.                      *)
Methods ==
  {StartTracking(uih, clock), StopTracking(uih)}
    \cup {SetIsIdle(uih, isIdle, clock) : isIdle \in BOOLEAN}
    \cup {SetThresholds(uih, thr, clock) : thr \in ThrChoices \ {uih.thr}}

(* Every method leaves the timer set, or none when it does not track.      *)
LEMMA MethodCalled ==
  ASSUME TypeInv, NEW u \in Methods
  PROVE  /\ Looks(u, u, clock)
         /\ u.lastStateChangeTime \in {Entered, GetTickCount(clock)}
  <1>. DEFINE now == GetTickCount(clock)
  <1>1. uih \in Handler /\ clock \in Nat /\ Armed(uih)
    BY DEF TypeInv, TypeOK
  <1>2. now \in Nat
    BY <1>1, ClockTypes
  <1>3. CASE u = StartTracking(uih, clock)
    <2>. DEFINE v == [uih EXCEPT !.tracking = TRUE, !.lastStateChangeTime = now]
    <2>1. u = StartTimer(v, clock)
      BY <1>3 DEF StartTracking
    <2>. HIDE DEF now
    <2>2. v \in Handler /\ v.lastStateChangeTime = now
      BY <1>1, <1>2 DEF Handler
    <2>. HIDE DEF v
    <2>3. Looks(u, v, clock)
      BY <1>1, <2>1, <2>2, TimerStarted
    <2>4. QED BY <2>2, <2>3 DEF Looks, now
  <1>4. CASE u = StopTracking(uih)
    <2>1. /\ u \in Handler /\ ~u.tracking /\ u.hTimer = NoTimer
          /\ u.lastStateChangeTime = uih.lastStateChangeTime
      BY <1>1, <1>4, TrackingTypes DEF StopTracking, KillTimer, Handler
    <2>2. QED BY <2>1 DEF Looks, Entered
  <1>5. CASE \E isIdle \in BOOLEAN : u = SetIsIdle(uih, isIdle, clock)
    <2>1. PICK isIdle \in BOOLEAN : u = SetIsIdle(uih, isIdle, clock)
      BY <1>5
    <2>. DEFINE v == [uih EXCEPT !.state = IF isIdle THEN IDLE ELSE USING,
                                 !.lastStateChangeTime = now]
    <2>2. u = Rearm(v, clock)
      BY <2>1 DEF SetIsIdle
    <2>. HIDE DEF now
    <2>3. v \in Handler /\ v.lastStateChangeTime = now /\ Armed(v)
      BY <1>1, <1>2 DEF Handler, States, IDLE, USING, Armed
    <2>. HIDE DEF v
    <2>4. Looks(u, v, clock)
      BY <1>1, <2>2, <2>3, TimerRestarted
    <2>5. QED BY <2>3, <2>4 DEF Looks, now
  <1>6. CASE \E thr \in ThrChoices \ {uih.thr} : u = SetThresholds(uih, thr, clock)
    <2>1. PICK thr \in ThrChoices \ {uih.thr} : u = SetThresholds(uih, thr, clock)
      BY <1>6
    <2>. DEFINE v == [uih EXCEPT !.thr = thr]
    <2>2. u = Rearm(v, clock)
      BY <2>1 DEF SetThresholds
    <2>3. v \in Handler /\ v.lastStateChangeTime = Entered /\ Armed(v)
      BY <1>1, <2>1, IdleTrackingAssumption DEF Handler, Armed, Entered
    <2>. HIDE DEF v
    <2>4. Looks(u, v, clock)
      BY <1>1, <2>2, <2>3, TimerRestarted
    <2>5. QED BY <2>3, <2>4 DEF Looks
  <1>7. QED BY <1>3, <1>4, <1>5, <1>6 DEF Methods

(* Next, by what calls what. *)
Call ==
  /\ \E u \in Methods : Called(u)
  /\ failed' \in BOOLEAN

(* The five kinds of step.                                                 *)
LEMMA NextCases ==
  ASSUME TypeInv, Next
  PROVE  Poll \/ PollFails \/ Call \/ Input \/ Tick
  <1>1. CASE CallStartTracking
    BY <1>1 DEF CallStartTracking, Call, Methods
  <1>2. CASE CallStopTracking
    BY <1>2 DEF CallStopTracking, Call, Methods, TypeInv, TypeOK
  <1>3. CASE \E isIdle \in BOOLEAN : CallSetIsIdle(isIdle)
    BY <1>3 DEF CallSetIsIdle, Call, Methods, Rearmed
  <1>4. CASE \E thr \in ThrChoices : CallSetThresholds(thr)
    BY <1>4 DEF CallSetThresholds, Call, Methods, Rearmed
  <1>5. QED BY <1>1, <1>2, <1>3, <1>4 DEF Next

-----------------------------------------------------------------------------
(* Types, and the timer, which the wrap of the tick count does not touch.  *)

(* After a poll the timer is set again, unless the callback has stopped    *)
(* the tracking.                                                           *)
LEMMA PollLeaves ==
  ASSUME TypeInv, Poll, NEW v, v = Polled.u
  PROVE  /\ uih' \in Handler /\ v \in Handler
         /\ uih'.thr = v.thr /\ uih'.state = v.state
         /\ uih'.lastStateChangeTime = v.lastStateChangeTime
         /\ uih'.tracking <=> uih'.hTimer # NoTimer
         /\ uih'.hTimer \in {NoTimer, clock + Period(uih')}
  <1>1. uih \in Handler /\ clock \in Nat /\ lastInput \in Nat
    BY DEF TypeInv, TypeOK
  <1>2. v \in Handler
    BY <1>1, OnTimerType DEF Polled, Outcome
  <1>3. PICK stops \in BOOLEAN : uih' = StartTimer(AfterCallback(stops), clock)
    BY DEF Poll
  <1>. DEFINE w == AfterCallback(stops)
  <1>4. /\ w \in Handler /\ w.thr = v.thr /\ w.state = v.state
        /\ w.lastStateChangeTime = v.lastStateChangeTime
    <2>1. w = v \/ w = StopTracking(v)
      BY DEF AfterCallback
    <2>2. /\ StopTracking(v) \in Handler
          /\ StopTracking(v).thr = v.thr /\ StopTracking(v).state = v.state
          /\ StopTracking(v).lastStateChangeTime = v.lastStateChangeTime
      BY <1>1, <1>2, TrackingTypes DEF StopTracking, KillTimer, Handler
    <2>3. QED BY <1>2, <2>1, <2>2
  <1>. HIDE DEF w
  <1>5. Looks(uih', w, clock)
    BY <1>1, <1>3, <1>4, TimerStarted DEF w
  <1>6. QED BY <1>2, <1>4, <1>5 DEF Looks

(* A new handler has no timer and does not track.                          *)
LEMMA InitType == Init => TypeInv
  <1>1. SUFFICES ASSUME Init PROVE TypeInv
    OBVIOUS
  <1>2. uih = NewHandler /\ uih \in Handler
    BY <1>1, NewHandlerType DEF Init
  <1>3. uih.hTimer = NoTimer /\ uih.tracking = FALSE
    BY <1>2 DEF NewHandler
  <1>4. TypeOK /\ lastInput <= clock
    <2>1. clock = 0 /\ lastInput = 0 /\ lastCall = 0 /\ unseen = NoInput /\ gap = 0
      BY <1>1 DEF Init
    <2>2. failed \in BOOLEAN
      BY <1>1 DEF Init
    <2>3. QED BY <1>2, <2>1, <2>2 DEF TypeOK
  <1>5. Armed(uih) /\ TimerArmed
    BY <1>3 DEF Armed, TimerArmed
  <1>6. QED BY <1>3, <1>4, <1>5 DEF TypeInv

(* Every step keeps the types and the timer.                               *)
LEMMA NextKeepsType ==
  ASSUME TypeInv, [Next]_vars
  PROVE  TypeInv'
  <1>1. /\ clock \in Nat /\ lastInput \in Nat /\ lastCall \in Nat /\ lastInput <= clock
        /\ unseen \in Nat \cup {NoInput} /\ gap \in Nat
        /\ uih \in Handler /\ failed \in BOOLEAN
        /\ uih.hTimer \in Nat \cup {NoTimer} /\ Armed(uih) /\ TimerArmed
    BY DEF TypeInv, TypeOK
  <1>2. NoInput \in Nat \cup {NoInput}
    OBVIOUS
  <1>3. CASE Poll
    <2>1. /\ uih' \in Handler
          /\ uih'.tracking <=> uih'.hTimer # NoTimer
          /\ uih'.hTimer \in {NoTimer, clock + Period(uih')}
      BY <1>3, PollLeaves
    <2>2. uih'.hTimer \in Nat \cup {NoTimer}
      BY <1>1, <2>1, PeriodType
    <2>3. /\ UNCHANGED <<clock, lastInput, lastCall, failed>>
          /\ gap' \in Nat /\ unseen' \in Nat \cup {NoInput}
      BY <1>1, <1>2, <1>3 DEF Poll
    <2>4. QED BY <1>1, <2>1, <2>2, <2>3 DEF TypeInv, TypeOK, Armed, TimerArmed
  <1>4. CASE PollFails
    <2>1. /\ uih' = KillTimer(uih) /\ failed' = TRUE
          /\ UNCHANGED <<clock, lastInput, lastCall, unseen, gap>>
      BY <1>4 DEF PollFails
    <2>2. uih' \in Handler /\ uih'.hTimer = NoTimer
      BY <1>1, <2>1, TrackingTypes DEF KillTimer, Handler
    <2>3. QED BY <1>1, <2>1, <2>2 DEF TypeInv, TypeOK, Armed, TimerArmed
  <1>5. CASE Call
    <2>1. PICK u \in Methods : Called(u)
      BY <1>5 DEF Call
    <2>2. /\ uih' = u /\ lastCall' = clock /\ gap' = 0 /\ unseen' = NoInput
          /\ UNCHANGED <<clock, lastInput>> /\ failed' \in BOOLEAN
      BY <1>5, <2>1 DEF Call, Called
    <2>3. Looks(uih', uih', clock)
      BY <2>2, MethodCalled
    <2>4. uih'.hTimer \in Nat \cup {NoTimer}
      BY <1>1, <2>3, PeriodType DEF Looks
    <2>5. QED BY <1>1, <1>2, <2>2, <2>3, <2>4 DEF TypeInv, TypeOK, Armed, TimerArmed, Looks
  <1>6. CASE Input
    <2>1. /\ lastInput' = clock /\ gap' = Larger(gap, clock - lastInput)
          /\ unseen' \in {unseen, clock}
          /\ UNCHANGED <<clock, uih, lastCall, failed>>
      BY <1>6 DEF Input
    <2>2. gap' \in Nat
      BY <1>1, <2>1 DEF Larger
    <2>3. QED BY <1>1, <2>1, <2>2 DEF TypeInv, TypeOK, Armed, TimerArmed
  <1>7. CASE Tick
    <2>1. clock' = clock + 1 /\ UNCHANGED <<lastInput, uih, lastCall, unseen, gap, failed>>
      BY <1>7 DEF Tick
    <2>2. clock' \in Nat /\ lastInput' <= clock'
      BY <1>1, <2>1
    <2>3. QED BY <1>1, <2>1, <2>2 DEF TypeInv, TypeOK, Armed, TimerArmed
  <1>8. CASE UNCHANGED vars
    BY <1>1, <1>8 DEF vars, TypeInv, TypeOK, Armed, TimerArmed
  <1>9. QED BY <1>3, <1>4, <1>5, <1>6, <1>7, <1>8, NextCases

(* Every variable always holds a value of its type.                        *)
THEOREM TypeCorrect == Spec => []TypeOK
  <1>1. Init => TypeInv
    BY InitType
  <1>2. TypeInv /\ [Next]_vars => TypeInv'
    BY NextKeepsType
  <1>3. TypeInv => TypeOK
    BY DEF TypeInv
  <1>4. QED BY <1>1, <1>2, <1>3, PTL DEF Spec

(* A handler that tracks has a timer pending and no other handler has one, *)
(* whatever methods and callbacks are called, and whatever the tick count  *)
(* does, unless GetLastInputInfo has failed.                               *)
THEOREM TimerIsKept == Spec => []TimerArmed
  <1>1. Init => TypeInv
    BY InitType
  <1>2. TypeInv /\ [Next]_vars => TypeInv'
    BY NextKeepsType
  <1>3. TypeInv => TimerArmed
    BY DEF TypeInv
  <1>4. QED BY <1>1, <1>2, <1>3, PTL DEF Spec

-----------------------------------------------------------------------------
(* How late anything is noticed, while the tick count does not wrap.       *)

(* The states are three. *)
LEMMA ThreeStates ==
  IDLE # USING /\ IDLE # TRYING_TO_USE /\ USING # TRYING_TO_USE
BY DEF IDLE, USING, TRYING_TO_USE

(* What Longest is longer than. *)
LEMMA LongestBounds ==
  ASSUME NEW u \in Handler
  PROVE  LET idle   == u.thr.idleDuringStartTimeMs
             step   == Period(u) + Latency
             first  == Period([u EXCEPT !.state = IDLE]) + Latency + step
             longer == Larger(idle + step, first)
         IN  longer \in Nat /\ longer >= idle + step /\ longer >= first
  <1>1. u.thr.idleDuringStartTimeMs \in Nat
    BY DEF Handler, Thresholds
  <1>2. /\ Period(u) \in Nat /\ Period([u EXCEPT !.state = IDLE]) \in Nat
        /\ Latency \in Nat
    BY Periods, IdleTrackingAssumption
  <1>3. QED BY <1>1, <1>2 DEF Larger

(* A handler whose timer has just been set is looked at in time.           *)
LEMMA TimerIsFresh ==
  ASSUME TypeInv, uih' \in Handler, clock' = clock,
         uih'.hTimer \in {NoTimer, clock + Period(uih')}
  PROVE  /\ Period(uih') \in Nat /\ Period(uih)' = Period(uih')
         /\ Timed' => uih'.hTimer = clock + Period(uih')
         /\ Timed' => clock' <= uih'.hTimer + Latency
         /\ Timed' => uih'.hTimer <= clock' + Period(uih')
  <1>1. Period(uih') \in Nat /\ clock \in Nat /\ Latency \in Nat
    BY PeriodType, IdleTrackingAssumption DEF TypeInv, TypeOK
  <1>2. Timed' => uih'.hTimer = clock + Period(uih')
    BY DEF Timed
  <1>3. QED BY <1>1, <1>2

(* Nothing is due at first.                                                *)
LEMMA InitIInv ==
  ASSUME NoWrap, Init
  PROVE  IInv
  <1>1. TypeInv
    BY InitType
  <1>2. uih.hTimer = NoTimer /\ uih.state = IDLE /\ uih.lastStateChangeTime = 0
    BY DEF Init, NewHandler
  <1>3. clock = 0 /\ lastInput = 0 /\ lastCall = 0 /\ unseen = NoInput
    BY DEF Init
  <1>4. InTime
    BY <1>2, <1>3, IdleTrackingAssumption DEF InTime, Entered, Timed
  <1>5. InputSeen /\ AbsenceSeen /\ ReturnSeen
    BY <1>2, <1>3, ThreeStates DEF InputSeen, AbsenceSeen, ReturnSeen, Timed
  <1>6. QED BY <1>1, <1>4, <1>5 DEF IInv

(* A call counts as a sign of the user, and sets the timer anew.           *)
LEMMA CallKeepsIInv ==
  ASSUME NoWrap, IInv, Call, TypeInv'
  PROVE  IInv'
  <1>1. TypeInv /\ InTime
    BY DEF IInv
  <1>2. PICK u \in Methods : Called(u)
    BY DEF Call
  <1>3. /\ uih' = u /\ lastCall' = clock /\ unseen' = NoInput
        /\ UNCHANGED <<clock, lastInput>>
    BY <1>2 DEF Called
  <1>4. /\ Looks(uih', uih', clock)
        /\ Entered' \in {Entered, GetTickCount(clock)}
    BY <1>1, <1>3, MethodCalled DEF Entered
  <1>5. /\ clock \in Nat /\ clock <= MaxClock
        /\ lastInput \in Nat /\ lastInput <= clock /\ Entered \in Nat /\ Entered <= clock
    BY <1>1 DEF TypeInv, TypeOK, InTime, Entered, Handler
  <1>6. Entered' \in Nat /\ Entered' <= clock
    BY <1>4, <1>5, TickIsTime
  <1>7. /\ uih' \in Handler /\ uih'.hTimer \in {NoTimer, clock + Period(uih')}
    BY <1>4 DEF Looks
  <1>8. /\ Period(uih') \in Nat
        /\ Timed' => uih'.hTimer = clock + Period(uih')
        /\ Timed' => clock' <= uih'.hTimer + Latency
        /\ Timed' => uih'.hTimer <= clock' + Period(uih')
    BY <1>1, <1>3, <1>7, TimerIsFresh
  <1>9. InTime'
    BY <1>3, <1>5, <1>6, <1>8 DEF InTime
  <1>10. InputSeen'
    BY <1>3 DEF InputSeen
  <1>11. LastSeen' = clock
    BY <1>3, <1>5 DEF LastSeen, Larger
  <1>12. /\ uih'.thr.idleDuringStartTimeMs \in Nat
         /\ uih'.thr.stopTimeMs \in Nat
    BY <1>7 DEF Handler, Thresholds
  <1>13. /\ Entered' <= LastSeen'
         /\ Entered' <= LastSeen' + uih'.thr.idleDuringStartTimeMs
    BY <1>5, <1>6, <1>11, <1>12
  <1>14. Timed' => uih'.hTimer <= LastSeen' + uih'.thr.stopTimeMs
                                  + uih'.thr.idleDuringStartTimeMs + Period(uih')
    BY <1>5, <1>8, <1>11, <1>12
  <1>15. AbsenceSeen'
    BY <1>13, <1>14 DEF AbsenceSeen
  <1>16. ~(lastCall' < Entered')
    BY <1>3, <1>5, <1>6
  <1>17. Timed' /\ lastCall' <= lastInput' => uih'.hTimer <= lastInput' + Period(uih')
    BY <1>3, <1>5, <1>8
  <1>18. ReturnSeen'
    BY <1>16, <1>17 DEF ReturnSeen
  <1>19. QED BY <1>9, <1>10, <1>15, <1>18 DEF IInv

(* A failure of GetLastInputInfo leaves no timer to be late.               *)
LEMMA PollFailsKeepsIInv ==
  ASSUME IInv, PollFails, TypeInv'
  PROVE  IInv'
  <1>1. /\ uih' = KillTimer(uih) /\ UNCHANGED <<clock, lastInput, lastCall, unseen, gap>>
        /\ uih \in Handler
    BY DEF PollFails, IInv, TypeInv, TypeOK
  <1>2. /\ uih'.hTimer = NoTimer /\ uih'.state = uih.state /\ uih'.thr = uih.thr
        /\ uih'.lastStateChangeTime = uih.lastStateChangeTime
    BY <1>1 DEF KillTimer, Handler
  <1>3. InTime' /\ InputSeen' /\ AbsenceSeen'
    BY <1>1, <1>2 DEF IInv, InTime, InputSeen, AbsenceSeen, Timed, Entered, LastSeen
  <1>4. ReturnSeen'
    BY <1>2 DEF ReturnSeen, Timed
  <1>5. QED BY <1>3, <1>4 DEF IInv

(* An input is seen by the timer that is pending when it comes.            *)
LEMMA InputKeepsIInv ==
  ASSUME NoWrap, IInv, Input, TypeInv'
  PROVE  IInv'
  <1>. DEFINE P == Period(uih)
              idle == uih.thr.idleDuringStartTimeMs
              stop == uih.thr.stopTimeMs
  <1>1. /\ lastInput' = clock /\ gap' = Larger(gap, clock - lastInput)
        /\ unseen' = IF unseen = NoInput /\ GetTickCount(clock) # Entered THEN clock ELSE unseen
        /\ UNCHANGED <<clock, uih, lastCall, failed>>
    BY DEF Input, Entered
  <1>2. /\ clock \in Nat /\ lastInput \in Nat /\ lastInput <= clock
        /\ lastCall \in Nat /\ gap \in Nat /\ uih \in Handler
        /\ unseen \in Nat \cup {NoInput}
        /\ uih.hTimer \in Nat \cup {NoTimer}
    BY DEF IInv, TypeInv, TypeOK
  <1>3. /\ Entered \in Nat /\ idle \in Nat /\ stop \in Nat /\ P \in Nat /\ Latency \in Nat
    BY <1>2, PeriodType, IdleTrackingAssumption DEF Handler, Thresholds, Entered
  <1>. HIDE DEF P, idle, stop
  <1>4. /\ clock <= MaxClock /\ lastCall <= clock /\ Entered <= clock
        /\ Timed => clock <= uih.hTimer + Latency /\ uih.hTimer <= clock + P
    BY DEF IInv, InTime, P
  <1>5. Timed => uih.hTimer \in Nat
    BY <1>2 DEF Timed
  <1>6. Entered' = Entered /\ Timed' = Timed
    BY <1>1 DEF Entered, Timed
  <1>7. InTime'
    BY <1>1, <1>4, <1>6 DEF InTime, P
  <1>8. InputSeen'
    <2>1. SUFFICES ASSUME uih.state = IDLE, unseen' # NoInput
                   PROVE  /\ clock > Entered
                          /\ unseen' <= clock
                          /\ Timed => uih.hTimer <= unseen' + P
      BY <1>1, <1>6 DEF InputSeen, P
    <2>2. CASE unseen = NoInput
      <3>1. GetTickCount(clock) # Entered /\ unseen' = clock
        BY <1>1, <2>1, <2>2
      <3>2. clock # Entered
        BY <1>2, <1>4, <3>1, TickIsTime
      <3>3. clock > Entered
        BY <1>2, <1>3, <1>4, <3>2
      <3>4. QED BY <1>2, <1>4, <3>1, <3>3
    <2>3. CASE unseen # NoInput
      <3>1. /\ unseen' = unseen /\ lastInput > Entered /\ unseen <= clock
            /\ Timed => uih.hTimer <= unseen + P
        BY <1>1, <2>1, <2>3 DEF IInv, InputSeen, P
      <3>2. QED BY <1>2, <1>3, <3>1
    <2>4. QED BY <2>2, <2>3
  <1>9. LastSeen \in Nat /\ LastSeen' \in Nat /\ LastSeen' >= LastSeen
    BY <1>1, <1>2, <1>4 DEF LastSeen, Larger
  <1>10. AbsenceSeen'
    <2>1. uih.state = TRYING_TO_USE => Entered <= LastSeen'
      BY <1>3, <1>9 DEF IInv, AbsenceSeen
    <2>2. ASSUME uih.state = USING PROVE Entered <= LastSeen' + idle
      <3>1. Entered <= LastSeen + idle
        BY <2>2 DEF IInv, AbsenceSeen, idle
      <3>2. idle \in Nat /\ Entered \in Nat
        BY <1>3
      <3>3. ASSUME NEW a \in Nat, NEW b \in Nat, NEW l \in Nat, NEW i \in Nat,
                   a <= l + i, l <= b
            PROVE  a <= b + i
        BY <3>3
      <3>4. QED BY <1>9, <3>1, <3>2, <3>3
    <2>3. ASSUME uih.state = USING, Timed
          PROVE  uih.hTimer <= LastSeen' + stop + idle + P
      <3>1. uih.hTimer <= LastSeen + stop + idle + P
        BY <2>3 DEF IInv, AbsenceSeen, idle, stop, P
      <3>2. QED BY <1>3, <1>5, <1>9, <2>3, <3>1
    <2>4. QED BY <1>1, <1>6, <2>1, <2>2, <2>3 DEF AbsenceSeen, idle, stop, P
  <1>11. ReturnSeen'
    <2>1. Timed => uih.hTimer <= clock + P
      BY <1>4
    <2>2. ASSUME uih.state = TRYING_TO_USE, Timed, lastCall < Entered
          PROVE  gap' <= Longest /\ uih.hTimer + Latency <= clock + Longest
      <3>1. gap <= Longest /\ uih.hTimer + Latency <= lastInput + Longest
        BY <2>2 DEF IInv, ReturnSeen
      <3>2. Longest \in Nat
        BY <1>2, LongestBounds DEF Longest, Step, FirstPause
      <3>3. clock - lastInput <= Longest
        BY <1>2, <1>3, <1>4, <1>5, <2>2, <3>1, <3>2
      <3>4. QED BY <1>1, <1>2, <1>3, <1>5, <2>2, <3>1, <3>2, <3>3 DEF Larger
    <2>3. Longest' = Longest
      BY <1>1 DEF Longest, Step, FirstPause
    <2>4. QED BY <1>1, <1>6, <2>1, <2>2, <2>3 DEF ReturnSeen, P
  <1>12. QED BY <1>7, <1>8, <1>10, <1>11 DEF IInv

(* Time does not pass an overdue timer.                                    *)
LEMMA TickKeepsIInv ==
  ASSUME IInv, Tick, TypeInv'
  PROVE  IInv'
  <1>1. /\ clock < MaxClock /\ clock' = clock + 1
        /\ Timed => clock < uih.hTimer + Latency
        /\ UNCHANGED <<lastInput, uih, lastCall, unseen, gap, failed>>
    BY DEF Tick, Timed
  <1>2. /\ clock \in Nat /\ MaxClock \in Nat /\ Latency \in Nat /\ Period(uih) \in Nat
        /\ uih.hTimer \in Nat \cup {NoTimer} /\ lastCall \in Nat /\ Entered \in Nat
        /\ unseen \in Nat \cup {NoInput}
    BY PeriodType, IdleTrackingAssumption DEF IInv, TypeInv, TypeOK, Handler, Entered
  <1>3. Timed => uih.hTimer \in Nat
    BY <1>2 DEF Timed
  <1>4. /\ Entered' = Entered /\ Timed' = Timed /\ LastSeen' = LastSeen
        /\ Period(uih)' = Period(uih) /\ Longest' = Longest
    BY <1>1 DEF Entered, Timed, LastSeen, Longest, Step, FirstPause
  <1>5. InTime'
    <2>1. /\ clock <= MaxClock /\ lastCall <= clock /\ Entered <= clock
          /\ Timed => clock <= uih.hTimer + Latency /\ uih.hTimer <= clock + Period(uih)
      BY DEF IInv, InTime
    <2>2. clock' <= MaxClock /\ lastCall <= clock' /\ Entered <= clock'
      BY <1>1, <1>2, <2>1
    <2>3. Timed => clock' <= uih.hTimer + Latency /\ uih.hTimer <= clock' + Period(uih)
      BY <1>1, <1>2, <1>3, <2>1
    <2>4. QED BY <1>1, <1>4, <2>2, <2>3 DEF InTime
  <1>6. InputSeen'
    <2>1. uih.state = IDLE /\ unseen # NoInput =>
            /\ lastInput > Entered /\ unseen <= clock
            /\ Timed => uih.hTimer <= unseen + Period(uih)
      BY DEF IInv, InputSeen
    <2>2. unseen <= clock /\ unseen # NoInput => unseen <= clock'
      BY <1>1, <1>2
    <2>3. QED BY <1>1, <1>4, <2>1, <2>2 DEF InputSeen
  <1>7. AbsenceSeen'
    BY <1>1, <1>4 DEF IInv, AbsenceSeen
  <1>8. ReturnSeen'
    BY <1>1, <1>4 DEF IInv, ReturnSeen
  <1>9. QED BY <1>5, <1>6, <1>7, <1>8 DEF IInv

(* A poll that finds the user where it left him looks again in time; one   *)
(* that finds him elsewhere enters the state with a date that is right.    *)
LEMMA PollKeepsIInv ==
  ASSUME NoWrap, IInv, Poll, TypeInv'
  PROVE  IInv'
  <1>. DEFINE v == Polled.u
              c == clock
              li == lastInput
              since == Entered
              idle == uih.thr.idleDuringStartTimeMs
              stop == uih.thr.stopTimeMs
              next == Period(uih')
              first == Period([uih' EXCEPT !.state = IDLE])
  <1>1. TypeInv /\ InTime /\ InputSeen /\ AbsenceSeen /\ ReturnSeen
    BY DEF IInv
  <1>2. /\ uih \in Handler /\ c \in Nat /\ li \in Nat /\ lastCall \in Nat /\ gap \in Nat
        /\ li <= c /\ lastCall <= c /\ c <= MaxClock /\ since <= c /\ since \in Nat
        /\ Latency \in Nat /\ idle \in Nat /\ stop \in Nat
    BY <1>1, IdleTrackingAssumption
       DEF TypeInv, TypeOK, InTime, Handler, Thresholds, Entered
  <1>3. /\ Timed /\ uih.hTimer \in Nat /\ c <= uih.hTimer + Latency
        /\ uih.state # TRYING_TO_USE => gap' = 0
        /\ uih.state = TRYING_TO_USE => gap' = gap
        /\ unseen' = IF uih'.state # uih.state THEN NoInput ELSE unseen
        /\ UNCHANGED <<clock, lastInput, lastCall>>
    BY <1>1 DEF Poll, TimerDue, Timed, TypeInv, InTime
  <1>4. /\ uih' \in Handler
        /\ uih'.thr = v.thr /\ uih'.state = v.state
        /\ uih'.lastStateChangeTime = v.lastStateChangeTime
        /\ uih'.hTimer \in {NoTimer, c + Period(uih')}
    BY <1>1, PollLeaves
  <1>5. /\ v.thr = uih.thr
        /\ uih.state = IDLE =>
             \/ li > since /\ v.state = TRYING_TO_USE /\ v.lastStateChangeTime = li
             \/ li <= since /\ v.state = IDLE /\ v.lastStateChangeTime = since
        /\ uih.state = TRYING_TO_USE =>
             \/ v.state = IDLE /\ v.lastStateChangeTime = c
             \/ /\ c - Larger(li, since) <= idle
                /\ v.state = USING /\ v.lastStateChangeTime = c
             \/ /\ c - Larger(li, since) <= idle
                /\ v.state = TRYING_TO_USE /\ v.lastStateChangeTime = since
        /\ uih.state = USING =>
             \/ v.state = IDLE /\ v.lastStateChangeTime = c
             \/ /\ c - Larger(li, since) <= stop
                /\ v.state = USING /\ v.lastStateChangeTime = since
    BY <1>2, PollSees DEF Polled, Entered
  <1>6. /\ next \in Nat /\ Period(uih)' = next
        /\ Timed' => uih'.hTimer = c + next
        /\ Timed' => clock' <= uih'.hTimer + Latency
        /\ Timed' => uih'.hTimer <= clock' + next
    BY <1>1, <1>3, <1>4, TimerIsFresh
  <1>7. /\ uih'.thr = uih.thr
        /\ uih'.thr.idleDuringStartTimeMs = idle /\ uih'.thr.stopTimeMs = stop
    BY <1>4, <1>5
  <1>8. LastSeen \in Nat /\ LastSeen' = LastSeen /\ LastSeen >= li /\ LastSeen >= lastCall
        /\ (lastCall <= li => LastSeen = li)
        /\ (since <= LastSeen /\ lastCall < since => since <= li)
    BY <1>2, <1>3 DEF LastSeen, Larger
  <1>9. /\ Longest' \in Nat
        /\ Longest' >= idle + (next + Latency)
        /\ Longest' >= first + Latency + (next + Latency)
    <2>1. Longest' = Larger(idle + (next + Latency), first + Latency + (next + Latency))
      BY <1>7 DEF Longest, Step, FirstPause
    <2>2. QED BY <1>4, <1>7, <2>1, LongestBounds
  <1>10. /\ uih.state = IDLE => Period(uih) = first
         /\ first \in Nat
         /\ uih'.state = uih.state => next = Period(uih) /\ Longest' = Longest
    <2>1. /\ uih.state = IDLE => Period(uih) = Period([uih EXCEPT !.state = IDLE])
          /\ uih'.state = uih.state => next = Period(uih)
          /\ first = Period([uih EXCEPT !.state = IDLE])
          /\ first \in Nat
      BY <1>2, <1>4, <1>7, Periods
    <2>2. uih'.state = uih.state => Longest' = Longest
      BY <1>7, <2>1 DEF Longest, Step, FirstPause
    <2>3. QED BY <2>1, <2>2
  <1>11. Entered' = v.lastStateChangeTime
    BY <1>4 DEF Entered
  <1>12. InTime'
    <2>1. Entered' <= c
      <3>1. uih.state \in {IDLE, USING, TRYING_TO_USE}
        BY <1>2 DEF Handler, States
      <3>2. v.lastStateChangeTime \in {li, since, c}
        BY <1>5, <3>1
      <3>3. QED BY <1>2, <1>11, <3>2
    <2>2. QED BY <1>2, <1>3, <1>6, <2>1 DEF InTime
  <1>. HIDE DEF v, since, idle, stop, next, first
  (* He has left: nothing is due. *)
  <1>13. CASE uih.state # IDLE /\ v.state = IDLE
    <2>1. Entered' = c
      BY <1>5, <1>11, <1>13, ThreeStates, <1>2 DEF Handler, States
    <2>2. uih'.state = IDLE /\ unseen' = NoInput
      BY <1>3, <1>4, <1>13
    <2>3. ~(lastInput' > Entered')
      BY <1>2, <1>3, <2>1
    <2>4. InputSeen' /\ AbsenceSeen' /\ ReturnSeen'
      BY <2>2, <2>3, ThreeStates DEF InputSeen, AbsenceSeen, ReturnSeen
    <2>5. QED BY <1>12, <2>4 DEF IInv
  (* He is still away. *)
  <1>14. CASE uih.state = IDLE /\ v.state = IDLE
    <2>1. li <= since /\ Entered' = since
      BY <1>5, <1>11, <1>14, ThreeStates
    <2>2. uih'.state = IDLE /\ unseen' = unseen
      BY <1>3, <1>4, <1>14
    <2>3. ~(lastInput' > Entered')
      BY <1>2, <1>3, <2>1
    <2>4. unseen = NoInput
      <3>1. ~(lastInput > Entered)
        BY <1>2, <2>1 DEF since
      <3>2. QED BY <1>1, <1>14, <3>1 DEF InputSeen
    <2>5. InputSeen' /\ AbsenceSeen' /\ ReturnSeen'
      BY <2>2, <2>3, <2>4, ThreeStates DEF InputSeen, AbsenceSeen, ReturnSeen
    <2>6. QED BY <1>12, <2>5 DEF IInv
  (* He is seen for the first time. *)
  <1>15. CASE uih.state = IDLE /\ v.state = TRYING_TO_USE
    <2>1. li > since /\ Entered' = li
      BY <1>5, <1>11, <1>15, ThreeStates
    <2>2. uih'.state = TRYING_TO_USE /\ gap' = 0
      BY <1>3, <1>4, <1>15, ThreeStates
    <2>3. InputSeen' /\ AbsenceSeen'
      BY <1>2, <1>8, <2>1, <2>2, ThreeStates DEF InputSeen, AbsenceSeen
    <2>4. ASSUME Timed', lastCall < li
          PROVE  gap' <= Longest' /\ uih'.hTimer + Latency <= li + Longest'
      <3>1. uih.hTimer <= li + first
        BY <1>1, <1>2, <1>3, <1>10, <1>15, <2>1, <2>4 DEF ReturnSeen, since
      <3>2. c + next + Latency <= li + (first + Latency + (next + Latency))
        BY <1>2, <1>3, <1>6, <1>10, <3>1
      <3>3. QED BY <1>2, <1>6, <1>9, <1>10, <2>2, <2>4, <3>2
    <2>5. ReturnSeen'
      BY <1>3, <2>1, <2>2, <2>4, ThreeStates DEF ReturnSeen
    <2>6. QED BY <1>12, <2>3, <2>5 DEF IInv
  (* He has not paused since. *)
  <1>16. CASE uih.state = TRYING_TO_USE /\ v.state = TRYING_TO_USE
    <2>1. c - Larger(li, since) <= idle /\ Entered' = since
      BY <1>5, <1>11, <1>16, ThreeStates
    <2>2. uih'.state = TRYING_TO_USE /\ gap' = gap
      BY <1>3, <1>4, <1>16, ThreeStates
    <2>3. since <= LastSeen
      BY <1>1, <1>16 DEF AbsenceSeen, since
    <2>4. InputSeen' /\ AbsenceSeen'
      BY <1>8, <2>1, <2>2, <2>3, ThreeStates DEF InputSeen, AbsenceSeen
    <2>5. ASSUME Timed', lastCall < since
          PROVE  gap' <= Longest' /\ uih'.hTimer + Latency <= li + Longest'
      <3>1. since <= li
        BY <1>8, <2>3, <2>5
      <3>2. c - li <= idle
        BY <1>2, <2>1, <3>1 DEF Larger
      <3>3. c + next + Latency <= li + (idle + (next + Latency))
        BY <1>2, <1>6, <3>2
      <3>4. gap <= Longest
        BY <1>1, <1>3, <1>16, <2>5 DEF ReturnSeen, since
      <3>5. gap' <= Longest'
        BY <1>4, <1>10, <1>16, <2>2, <3>4
      <3>6. QED BY <1>2, <1>6, <1>9, <1>10, <2>5, <3>3, <3>5
    <2>6. ReturnSeen'
      BY <1>3, <2>1, <2>2, <2>5, ThreeStates DEF ReturnSeen
    <2>7. QED BY <1>12, <2>4, <2>6 DEF IInv
  (* He is at work now. *)
  <1>17. CASE uih.state = TRYING_TO_USE /\ v.state = USING
    <2>1. c - Larger(li, since) <= idle /\ Entered' = c
      BY <1>5, <1>11, <1>17, ThreeStates
    <2>2. uih'.state = USING
      BY <1>4, <1>17
    <2>3. since <= LastSeen
      BY <1>1, <1>17 DEF AbsenceSeen, since
    <2>4. c <= LastSeen + idle
      BY <1>2, <1>8, <2>1, <2>3 DEF Larger
    <2>5. Timed' => uih'.hTimer <= LastSeen + stop + idle + next
      BY <1>2, <1>6, <1>8, <2>4
    <2>6. AbsenceSeen'
      BY <1>6, <1>7, <1>8, <2>1, <2>2, <2>4, <2>5, ThreeStates DEF AbsenceSeen
    <2>7. InputSeen' /\ ReturnSeen'
      BY <2>2, ThreeStates DEF InputSeen, ReturnSeen
    <2>8. QED BY <1>12, <2>6, <2>7 DEF IInv
  (* He is still at work. *)
  <1>18. CASE uih.state = USING /\ v.state = USING
    <2>1. c - Larger(li, since) <= stop /\ Entered' = since
      BY <1>5, <1>11, <1>18, ThreeStates
    <2>2. uih'.state = USING
      BY <1>4, <1>18
    <2>3. since <= LastSeen + idle
      BY <1>1, <1>18 DEF AbsenceSeen, since, idle
    <2>4. c <= LastSeen + stop + idle
      BY <1>2, <1>8, <2>1, <2>3 DEF Larger
    <2>5. Timed' => uih'.hTimer <= LastSeen + stop + idle + next
      BY <1>2, <1>6, <1>8, <2>4
    <2>6. AbsenceSeen'
      BY <1>6, <1>7, <1>8, <2>1, <2>2, <2>3, <2>5, ThreeStates DEF AbsenceSeen
    <2>7. InputSeen' /\ ReturnSeen'
      BY <2>2, ThreeStates DEF InputSeen, ReturnSeen
    <2>8. QED BY <1>12, <2>6, <2>7 DEF IInv
  <1>19. QED
    <2>1. uih.state \in {IDLE, USING, TRYING_TO_USE}
      BY <1>2 DEF Handler, States
    <2>2. QED BY <1>5, <1>13, <1>14, <1>15, <1>16, <1>17, <1>18, <2>1, ThreeStates

(* Every step keeps the invariant.                                         *)
LEMMA NextKeepsIInv ==
  ASSUME NoWrap, IInv, [Next]_vars
  PROVE  IInv'
  <1>1. TypeInv /\ TypeInv'
    BY NextKeepsType DEF IInv
  <1>2. CASE Poll
    BY <1>1, <1>2, PollKeepsIInv
  <1>3. CASE PollFails
    BY <1>1, <1>3, PollFailsKeepsIInv
  <1>4. CASE Call
    BY <1>1, <1>4, CallKeepsIInv
  <1>5. CASE Input
    BY <1>1, <1>5, InputKeepsIInv
  <1>6. CASE Tick
    BY <1>1, <1>6, TickKeepsIInv
  <1>7. CASE UNCHANGED vars
    BY <1>1, <1>7 DEF vars, IInv, InTime, InputSeen, AbsenceSeen, ReturnSeen, Entered, Timed,
                      LastSeen, Longest, Step, FirstPause
  <1>8. QED BY <1>1, <1>2, <1>3, <1>4, <1>5, <1>6, <1>7, NextCases

(* A user at work is never said to have left before all of stopTimeMs has  *)
(* passed since his last input, while the tick count does not wrap.        *)
THEOREM NoAbsenceIsInvented == NoWrap => (Spec => NoFalseIdle)
  <1>. SUFFICES ASSUME NoWrap PROVE Spec => NoFalseIdle
    OBVIOUS
  <1>. DEFINE A == Poll /\ uih.state = USING /\ uih'.state = IDLE
                     => clock - lastInput > uih.thr.stopTimeMs
  <1>1. Init => IInv
    BY InitIInv
  <1>2. IInv /\ [Next]_vars => IInv'
    BY NextKeepsIInv
  <1>3. ASSUME IInv, Poll, uih.state = USING, uih'.state = IDLE
        PROVE  clock - lastInput > uih.thr.stopTimeMs
    <2>. DEFINE v == Polled.u
    <2>1. /\ uih \in Handler /\ clock \in Nat /\ lastInput \in Nat /\ lastInput <= clock
          /\ clock <= MaxClock /\ Entered <= clock /\ Entered \in Nat
          /\ uih.thr.stopTimeMs \in Nat
      BY <1>3 DEF IInv, TypeInv, TypeOK, InTime, Handler, Thresholds, Entered
    <2>2. v.state = IDLE
      BY <1>3, PollLeaves DEF IInv
    <2>3. clock - Larger(lastInput, Entered) > uih.thr.stopTimeMs
      BY <1>3, <2>1, <2>2, PollSees, ThreeStates DEF Polled, Entered
    <2>4. QED BY <2>1, <2>3 DEF Larger
  <1>4. IInv /\ [Next]_vars => [A]_vars
    BY <1>3
  <1>5. QED BY <1>1, <1>2, <1>4, PTL DEF Spec, NoFalseIdle

(* A user who has left is noticed within the thresholds and one polling    *)
(* period after his last input, or the last call of a method.              *)
THEOREM AbsencesAreNoticed == NoWrap => (Spec => []AbsenceNoticed)
  <1>. SUFFICES ASSUME NoWrap PROVE Spec => []AbsenceNoticed
    OBVIOUS
  <1>1. Init => IInv
    BY InitIInv
  <1>2. IInv /\ [Next]_vars => IInv'
    BY NextKeepsIInv
  <1>3. IInv => AbsenceNoticed
    <2>1. SUFFICES ASSUME IInv, uih.tracking, ~failed, uih.state = USING
                   PROVE  clock - LastSeen
                            <= uih.thr.stopTimeMs + uih.thr.idleDuringStartTimeMs + Step
      BY DEF AbsenceNoticed, LastSeen
    <2>2. Timed
      BY <2>1 DEF IInv, TypeInv, TimerArmed, Timed
    <2>3. /\ clock \in Nat /\ uih.hTimer \in Nat /\ LastSeen \in Nat
          /\ uih.thr.stopTimeMs \in Nat /\ uih.thr.idleDuringStartTimeMs \in Nat
          /\ Period(uih) \in Nat /\ Latency \in Nat
      BY <2>1, <2>2, PeriodType, IdleTrackingAssumption
         DEF IInv, TypeInv, TypeOK, Handler, Thresholds, LastSeen, Larger, Timed
    <2>4. clock <= uih.hTimer + Latency
      BY <2>1, <2>2 DEF IInv, InTime
    <2>5. uih.hTimer <= LastSeen + uih.thr.stopTimeMs + uih.thr.idleDuringStartTimeMs + Period(uih)
      BY <2>1, <2>2 DEF IInv, AbsenceSeen
    <2>6. QED BY <2>3, <2>4, <2>5 DEF Step
  <1>4. QED BY <1>1, <1>2, <1>3, PTL DEF Spec

(* A user who comes back is noticed within one polling period. *)
THEOREM InputsAreNoticed == NoWrap => (Spec => []InputNoticed)
  <1>. SUFFICES ASSUME NoWrap PROVE Spec => []InputNoticed
    OBVIOUS
  <1>1. Init => IInv
    BY InitIInv
  <1>2. IInv /\ [Next]_vars => IInv'
    BY NextKeepsIInv
  <1>3. IInv => InputNoticed
    <2>1. SUFFICES ASSUME IInv, uih.tracking, ~failed, uih.state = IDLE, unseen # NoInput
                   PROVE  clock - unseen <= Step
      BY DEF InputNoticed
    <2>2. Timed
      BY <2>1 DEF IInv, TypeInv, TimerArmed, Timed
    <2>3. /\ clock \in Nat /\ uih.hTimer \in Nat /\ unseen \in Nat
          /\ Period(uih) \in Nat /\ Latency \in Nat
      BY <2>1, <2>2, PeriodType, IdleTrackingAssumption DEF IInv, TypeInv, TypeOK, Timed
    <2>4. clock <= uih.hTimer + Latency /\ uih.hTimer <= unseen + Period(uih)
      BY <2>1, <2>2 DEF IInv, InTime, InputSeen
    <2>5. QED BY <2>3, <2>4 DEF Step
  <1>4. QED BY <1>1, <1>2, <1>3, PTL DEF Spec

(* From the time handed to onReturn on, the user has paused no longer than *)
(* the thresholds and the polling let him.                                 *)
THEOREM ReturnsAreReal == NoWrap => (Spec => ReturnIsReal)
  <1>. SUFFICES ASSUME NoWrap PROVE Spec => ReturnIsReal
    OBVIOUS
  <1>. DEFINE A == Poll /\ uih.state = TRYING_TO_USE /\ uih'.state = USING
                     /\ lastCall < uih.lastStateChangeTime
                     => Larger(gap, clock - lastInput)
                          <= Larger(uih.thr.idleDuringStartTimeMs + Step, FirstPause)
  <1>1. Init => IInv
    BY InitIInv
  <1>2. IInv /\ [Next]_vars => IInv'
    BY NextKeepsIInv
  <1>3. ASSUME IInv, Poll, uih.state = TRYING_TO_USE, lastCall < Entered
        PROVE  Larger(gap, clock - lastInput) <= Longest
    <2>1. Timed /\ uih \in Handler
      BY <1>3 DEF Poll, TimerDue, Timed, IInv, TypeInv, TypeOK
    <2>2. Longest \in Nat
      BY <2>1, LongestBounds DEF Longest, Step, FirstPause
    <2>3. /\ clock \in Nat /\ lastInput \in Nat /\ gap \in Nat /\ uih.hTimer \in Nat
          /\ Latency \in Nat
      BY <1>3, <2>1, IdleTrackingAssumption DEF IInv, TypeInv, TypeOK, Timed
    <2>4. gap <= Longest /\ uih.hTimer + Latency <= lastInput + Longest
      BY <1>3, <2>1 DEF IInv, ReturnSeen
    <2>5. clock <= uih.hTimer + Latency
      BY <1>3, <2>1 DEF IInv, InTime
    <2>6. clock - lastInput <= Longest
      BY <2>2, <2>3, <2>4, <2>5
    <2>7. QED BY <2>4, <2>6 DEF Larger
  <1>4. IInv /\ [Next]_vars => [A]_vars
    BY <1>3 DEF Longest, Entered
  <1>5. QED BY <1>1, <1>2, <1>4, PTL DEF Spec, ReturnIsReal
=============================================================================
