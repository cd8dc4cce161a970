------------------------ MODULE UserIdleHandlerProofs ------------------------
(* Facts about the handler's operators: their types, and what a poll can   *)
(* make of the handler's state.                                            *)
EXTENDS UserIdleHandler, TLAPS

Outcome == [u : Handler, call : {"none", "onReturn", "onIdle"}, ms : Nat]

(* A remainder by a positive number is a natural number. *)
LEMMA ModType ==
  ASSUME NEW a \in Int, NEW m \in Nat \ {0}
  PROVE  a % m \in Nat
OBVIOUS

(* A quotient by a positive number is an integer, a natural number when    *)
(* the dividend is one.                                                    *)
LEMMA DivType ==
  ASSUME NEW a \in Int, NEW m \in Nat \ {0}
  PROVE  a \div m \in Int /\ (a \in Nat => a \div m \in Nat)
OBVIOUS

(* Readings of the system clocks are natural numbers, and so is the time   *)
(* between two readings.                                                   *)
LEMMA ClockTypes ==
  ASSUME NEW c \in Nat
  PROVE  GetTickCount(c) \in Nat /\ TimeOf(c) \in Nat
  <1>1. GetTickCount(c) \in Nat
    BY ModType, HandlerAssumption DEF GetTickCount
  <1>2. TimeOf(c) \in Nat
    BY DivType, HandlerAssumption DEF TimeOf
  <1>3. QED BY <1>1, <1>2

(* The time between two readings of the tick count is a natural number.    *)
LEMMA SinceType ==
  ASSUME NEW a \in Int, NEW b \in Int
  PROVE  Since(a, b) \in Nat
  <1>1. a - b \in Int
    OBVIOUS
  <1>2. QED BY <1>1, ModType, HandlerAssumption DEF Since

(* The polling period is a natural number. *)
LEMMA PeriodType ==
  ASSUME NEW u \in Handler
  PROVE  Period(u) \in Nat
  <1>1. Threshold(u) \in Nat
    BY DEF Threshold, Handler, Thresholds, States
  <1>2. Threshold(u) \div 3 \in Nat
    BY <1>1
  <1>3. QED BY <1>2, HandlerAssumption DEF Period, Larger

(* Every method leaves a handler a handler. *)
LEMMA StartTimerType ==
  ASSUME NEW u \in Handler, NEW c \in Nat
  PROVE  StartTimer(u, c) \in Handler
  <1>1. c + Period(u) \in Int
    BY PeriodType
  <1>2. QED BY <1>1 DEF StartTimer, Handler, NoTimer

(* The constructor makes a handler.                                        *)
LEMMA NewHandlerType == NewHandler \in Handler
BY DEF NewHandler, Handler, NoTimer, Thresholds, States, IDLE

(* startTracking and stopTracking leave a handler a handler.               *)
LEMMA TrackingTypes ==
  ASSUME NEW u \in Handler, NEW c \in Nat
  PROVE  /\ KillTimer(u) \in Handler
         /\ StopTracking(u) \in Handler
         /\ StartTracking(u, c) \in Handler
         /\ Rearm(u, c) \in Handler
  <1>. DEFINE t == GetTickCount(c)
  <1>1. t \in Nat
    BY ClockTypes
  <1>. HIDE DEF t
  <1>2. \A v \in Handler : KillTimer(v) \in Handler
    BY DEF KillTimer, Handler, NoTimer
  <1>3. StopTracking(u) \in Handler
    <2>1. [u EXCEPT !.tracking = FALSE] \in Handler
      BY DEF Handler
    <2>2. QED BY <2>1, <1>2 DEF StopTracking
  <1>4. StartTracking(u, c) \in Handler
    <2>1. [u EXCEPT !.tracking = TRUE, !.lastStateChangeTime = t] \in Handler
      BY <1>1 DEF Handler
    <2>2. QED BY <2>1, StartTimerType DEF StartTracking, t
  <1>5. Rearm(u, c) \in Handler
    BY StartTimerType DEF Rearm
  <1>6. QED BY <1>2, <1>3, <1>4, <1>5

(* setIsIdle leaves a handler a handler.                                   *)
LEMMA SetIsIdleType ==
  ASSUME NEW u \in Handler, NEW b \in BOOLEAN, NEW c \in Nat
  PROVE  SetIsIdle(u, b, c) \in Handler
  <1>. DEFINE t == GetTickCount(c)
              v == [u EXCEPT !.state = IF b THEN IDLE ELSE USING, !.lastStateChangeTime = t]
  <1>1. t \in Nat
    BY ClockTypes
  <1>2. SetIsIdle(u, b, c) = Rearm(v, c)
    BY DEF SetIsIdle
  <1>. HIDE DEF t
  <1>3. v \in Handler
    BY <1>1 DEF Handler, States, IDLE, USING
  <1>4. QED BY <1>2, <1>3, TrackingTypes

(* So do the setters of the thresholds.                                    *)
LEMMA SetThresholdsType ==
  ASSUME NEW u \in Handler, NEW thr \in Thresholds, NEW c \in Nat
  PROVE  SetThresholds(u, thr, c) \in Handler
  <1>1. [u EXCEPT !.thr = thr] \in Handler
    BY DEF Handler
  <1>2. QED BY <1>1, TrackingTypes DEF SetThresholds

(* What a method does to the state and to "tracking"; none leaves a timer  *)
(* pending in a handler that does not track.                               *)
Armed(u) == u.hTimer # NoTimer => u.tracking

(* Arming the timer changes neither the state nor "tracking".              *)
LEMMA StartTimerEffect ==
  ASSUME NEW u \in Handler, NEW c \in Nat
  PROVE  /\ StartTimer(u, c).state = u.state
         /\ StartTimer(u, c).tracking = u.tracking
         /\ Armed(StartTimer(u, c))
BY DEF StartTimer, Handler, Armed

(* startTracking and stopTracking change "tracking" and not the state.     *)
LEMMA TrackingEffect ==
  ASSUME NEW u \in Handler, NEW c \in Nat
  PROVE  /\ StartTracking(u, c).state = u.state
         /\ StartTracking(u, c).tracking = TRUE
         /\ StopTracking(u).state = u.state
         /\ StopTracking(u).tracking = FALSE
         /\ Armed(StartTracking(u, c))
         /\ Armed(StopTracking(u))
  <1>. DEFINE v == [u EXCEPT !.tracking = TRUE, !.lastStateChangeTime = GetTickCount(c)]
  <1>1. v \in Handler /\ v.state = u.state /\ v.tracking = TRUE
    <2>1. GetTickCount(c) \in Nat
      BY ClockTypes
    <2>2. QED BY <2>1 DEF Handler
  <1>2. StartTracking(u, c) = StartTimer(v, c)
    BY DEF StartTracking
  <1>. HIDE DEF v
  <1>3. /\ StartTracking(u, c).state = u.state
        /\ StartTracking(u, c).tracking = TRUE
        /\ Armed(StartTracking(u, c))
    BY <1>1, <1>2, StartTimerEffect
  <1>. DEFINE w == [u EXCEPT !.tracking = FALSE]
  <1>4. w \in Handler /\ w.state = u.state /\ w.tracking = FALSE
    BY DEF Handler
  <1>5. StopTracking(u) = [w EXCEPT !.hTimer = NoTimer]
    BY DEF StopTracking, KillTimer
  <1>. HIDE DEF w
  <1>6. /\ StopTracking(u).state = u.state
        /\ StopTracking(u).tracking = FALSE
        /\ Armed(StopTracking(u))
    BY <1>4, <1>5 DEF Handler, Armed
  <1>7. QED BY <1>3, <1>6

(* Arming the timer again changes nothing but the timer.                   *)
LEMMA RearmEffect ==
  ASSUME NEW u \in Handler, NEW c \in Nat, Armed(u)
  PROVE  /\ Rearm(u, c).state = u.state
         /\ Rearm(u, c).tracking = u.tracking
         /\ Armed(Rearm(u, c))
BY StartTimerEffect DEF Rearm

(* setIsIdle sets the state and not "tracking".                            *)
LEMMA SetIsIdleEffect ==
  ASSUME NEW u \in Handler, NEW b \in BOOLEAN, NEW c \in Nat, Armed(u)
  PROVE  /\ SetIsIdle(u, b, c).state = IF b THEN IDLE ELSE USING
         /\ SetIsIdle(u, b, c).tracking = u.tracking
         /\ Armed(SetIsIdle(u, b, c))
  <1>. DEFINE v == [u EXCEPT !.state = IF b THEN IDLE ELSE USING,
                             !.lastStateChangeTime = GetTickCount(c)]
  <1>1. /\ v \in Handler
        /\ v.state = (IF b THEN IDLE ELSE USING)
        /\ v.tracking = u.tracking
        /\ Armed(v)
    <2>1. GetTickCount(c) \in Nat
      BY ClockTypes
    <2>2. QED BY <2>1 DEF Handler, States, IDLE, USING, Armed
  <1>2. SetIsIdle(u, b, c) = Rearm(v, c)
    BY DEF SetIsIdle
  <1>. HIDE DEF v
  <1>3. QED BY <1>1, <1>2, RearmEffect

(* What the setters of the thresholds leave alone.                         *)
LEMMA SetThresholdsEffect ==
  ASSUME NEW u \in Handler, NEW thr \in Thresholds, NEW c \in Nat, Armed(u)
  PROVE  /\ SetThresholds(u, thr, c).state = u.state
         /\ SetThresholds(u, thr, c).tracking = u.tracking
         /\ Armed(SetThresholds(u, thr, c))
  <1>. DEFINE v == [u EXCEPT !.thr = thr]
  <1>1. /\ v \in Handler
        /\ v.state = u.state
        /\ v.tracking = u.tracking
        /\ Armed(v)
    BY DEF Handler, Armed
  <1>2. SetThresholds(u, thr, c) = IF thr = u.thr THEN u ELSE Rearm(v, c)
    BY DEF SetThresholds
  <1>. HIDE DEF v
  <1>3. QED BY <1>1, <1>2, RearmEffect

(* A poll leaves a handler, and each callback belongs to one change of     *)
(* state: onReturn to entering USING, onIdle to leaving it.                *)
LEMMA OnTimerType ==
  ASSUME NEW u \in Handler, NEW c \in Nat, NEW li \in Nat
  PROVE  /\ OnTimer(u, c, li) \in Outcome
         /\ OnTimer(u, c, li).u.tracking = u.tracking
         /\ OnTimer(u, c, li).call = "onReturn" =>
              OnTimer(u, c, li).u.state = USING /\ u.state # USING
         /\ OnTimer(u, c, li).call = "onIdle" =>
              OnTimer(u, c, li).u.state = IDLE /\ u.state = USING
         /\ OnTimer(u, c, li).call = "none" =>
              (OnTimer(u, c, li).u.state = USING <=> u.state = USING)
  <1>. DEFINE k == KillTimer(u)
              now == GetTickCount(c)
              in == InputTime(k, li)
  <1>1. k \in Handler /\ k.tracking = u.tracking /\ k.state = u.state
    BY TrackingTypes DEF KillTimer, Handler
  <1>. HIDE DEF k
  <1>2. now \in Nat /\ GetTickCount(li) \in Nat
    BY ClockTypes
  <1>3. in \in Nat
    BY <1>1, <1>2 DEF InputTime, Larger, Handler
  <1>4. Since(now, in) \in Nat /\ Since(now, k.lastStateChangeTime) \in Nat
    BY <1>1, <1>2, <1>3, SinceType DEF Handler
  <1>. HIDE DEF now, in
  <1>5. ASSUME NEW s \in States, NEW t \in Nat
        PROVE  /\ Enter(k, s, t) \in Handler
               /\ Enter(k, s, t).tracking = u.tracking
               /\ Enter(k, s, t).state = s
    BY <1>1 DEF Enter, Handler
  <1>6. /\ Quiet(k) \in Outcome
        /\ Quiet(k).u = k
        /\ Quiet(k).call = "none"
    BY <1>1 DEF Quiet, Outcome
  <1>7. IDLE \in States /\ USING \in States /\ TRYING_TO_USE \in States
        /\ USING # IDLE /\ USING # TRYING_TO_USE /\ IDLE # TRYING_TO_USE
    BY DEF States, IDLE, USING, TRYING_TO_USE
  <1>8. CASE u.state = TRYING_TO_USE
    <2>1. OnTimer(u, c, li) = PollTrying(k, c, li)
      BY <1>8, <1>7 DEF OnTimer, k
    <2>2. CASE Since(now, in) > k.thr.idleDuringStartTimeMs
      <3>1. OnTimer(u, c, li) = Quiet(Enter(k, IDLE, now))
        BY <2>1, <2>2 DEF PollTrying, now, in
      <3>2. QED BY <3>1, <1>2, <1>5, <1>7, <1>8 DEF Quiet, Outcome
    <2>3. CASE /\ ~(Since(now, in) > k.thr.idleDuringStartTimeMs)
               /\ Since(now, k.lastStateChangeTime) > k.thr.startTimeMs
      <3>1. OnTimer(u, c, li) = [u |-> Enter(k, USING, now), call |-> "onReturn",
                                 ms |-> Since(now, k.lastStateChangeTime)]
        BY <2>1, <2>3 DEF PollTrying, now, in
      <3>2. QED BY <3>1, <1>2, <1>4, <1>5, <1>7, <1>8 DEF Outcome
    <2>4. CASE /\ ~(Since(now, in) > k.thr.idleDuringStartTimeMs)
               /\ ~(Since(now, k.lastStateChangeTime) > k.thr.startTimeMs)
      <3>1. OnTimer(u, c, li) = Quiet(k)
        BY <2>1, <2>4 DEF PollTrying, now, in
      <3>2. QED BY <3>1, <1>1, <1>6, <1>7, <1>8
    <2>5. QED BY <2>2, <2>3, <2>4
  <1>9. CASE u.state = USING
    <2>1. OnTimer(u, c, li) = PollUsing(k, c, li)
      BY <1>9, <1>7 DEF OnTimer, k
    <2>2. CASE Since(now, in) > k.thr.stopTimeMs
      <3>1. OnTimer(u, c, li) = [u |-> Enter(k, IDLE, now), call |-> "onIdle",
                                 ms |-> Since(now, in)]
        BY <2>1, <2>2 DEF PollUsing, now, in
      <3>2. QED BY <3>1, <1>2, <1>4, <1>5, <1>7, <1>9 DEF Outcome
    <2>3. CASE ~(Since(now, in) > k.thr.stopTimeMs)
      <3>1. OnTimer(u, c, li) = Quiet(k)
        BY <2>1, <2>3 DEF PollUsing, now, in
      <3>2. QED BY <3>1, <1>1, <1>6, <1>7, <1>9
    <2>4. QED BY <2>2, <2>3
  <1>10. CASE u.state = IDLE
    <2>1. OnTimer(u, c, li) = PollIdle(k, li)
      BY <1>10, <1>7 DEF OnTimer, k
    <2>2. CASE in > k.lastStateChangeTime
      <3>1. OnTimer(u, c, li) = Quiet(Enter(k, TRYING_TO_USE, in))
        BY <2>1, <2>2 DEF PollIdle, in
      <3>2. QED BY <3>1, <1>3, <1>5, <1>7, <1>10 DEF Quiet, Outcome
    <2>3. CASE ~(in > k.lastStateChangeTime)
      <3>1. OnTimer(u, c, li) = Quiet(k)
        BY <2>1, <2>3 DEF PollIdle, in
      <3>2. QED BY <3>1, <1>1, <1>6, <1>7, <1>10
    <2>4. QED BY <2>2, <2>3
  <1>11. u.state \in States
    BY DEF Handler
  <1>12. QED BY <1>8, <1>9, <1>10, <1>11 DEF States
=============================================================================
