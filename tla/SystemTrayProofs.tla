--------------------------- MODULE SystemTrayProofs ---------------------------
(* The tray icon, proved for all values of the constants: which icons the  *)
(* shell lists, and that no balloon answers a press that became half of a  *)
(* double click.                                                           *)
EXTENDS SystemTray, SequenceTheorems, TLAPS

Click == [event : {"down", "dblclk"}, press : Nat, age : Nat]
Message == [event : Events, press : Nat]

(* The types the proofs rest on: queues are sequences, clicks are passed   *)
(* on in time, and a process that does not run has nothing to receive.     *)
TrayType ==
  /\ shell \in {"up", "down"}
  /\ running \in BOOLEAN
  /\ process \in Nat
  /\ running => ~flags.m_bShowIconPending /\ ~flags.m_bRemoved
  /\ shell = "down" => icons = {}
  /\ running => shell = "up" \/ gone

ClickType ==
  /\ presses \in Nat
  /\ armedBy \in 0 .. presses
  /\ \A p \in doubled : p \in Nat /\ p < presses
  /\ sinceDown \in 0 .. Never
  /\ lclick \in Off .. ClickTimer
  /\ passing \in Seq(Click)
  /\ \A i \in DOMAIN passing : passing[i].press <= presses /\ passing[i].age <= MaxDelay
  /\ inbox \in Seq(Message)
  /\ \A i \in DOMAIN inbox : inbox[i].press <= presses
  /\ ~running => lclick = Off /\ inbox = <<>> /\ passing = <<>>

-----------------------------------------------------------------------------
(* The second half of a double click is never late. *)

IsDouble(m) == m.event = "dblclk"
IsHalf(m) == m.event = "down" /\ m.press \in doubled

(* The timer that the first half has set is not due until the second half  *)
(* has been posted, whatever part of MaxDelay the shell still takes.       *)
TimerStopped ==
  lclick # Off /\ armedBy \in doubled =>
    \/ \E i \in DOMAIN inbox : IsDouble(inbox[i])
    \/ \E i \in DOMAIN passing : IsDouble(passing[i]) /\ lclick + passing[i].age > MaxDelay

(* While the last press can still become a first half, its timer has at    *)
(* least the margin to go when it can no longer.                           *)
TimerCovers ==
  lclick # Off /\ armedBy = presses /\ sinceDown <= DoubleClickTime =>
    lclick + sinceDown >= ClickTimer

(* First halves that have not been handled are followed by second ones.    *)
HalvesPosted ==
  \A i \in DOMAIN inbox : IsHalf(inbox[i]) =>
    \/ \E j \in DOMAIN inbox : j > i /\ IsDouble(inbox[j])
    \/ \E j \in DOMAIN passing : IsDouble(passing[j])

HalvesPassing ==
  \A i \in DOMAIN passing : IsHalf(passing[i]) =>
    \E j \in DOMAIN passing : j > i /\ IsDouble(passing[j])

(* When the shell has died it has taken second halves with it; but then it *)
(* does not list the icon any more, and there is no balloon.               *)
Paired == Listed => TimerStopped /\ TimerCovers /\ HalvesPosted /\ HalvesPassing

IInv == TrayType /\ ClickType /\ IconsOfTheLiving /\ Paired

-----------------------------------------------------------------------------
(* The icons. *)

IconInv == TrayType /\ IconsOfTheLiving

(* The first process is numbered 1, and 0 lists no icon. *)
LEMMA InitIcons == Init => IconInv
  <1>1. SUFFICES ASSUME Init PROVE IconInv
    OBVIOUS
  <1>2. shell = "up" /\ icons = {} /\ process = 0 /\ running = FALSE
    BY <1>1 DEF Init
  <1>3. process \in Nat
    BY <1>2
  <1>4. QED BY <1>2, <1>3 DEF IconInv, TrayType, IconsOfTheLiving

(* Every step keeps track of whose icons the shell lists. *)
LEMMA NextKeepsIcons ==
  ASSUME IconInv, [Next]_vars
  PROVE  IconInv'
  <1>. USE DEF IconInv, TrayType, IconsOfTheLiving
  <1>1. CASE Start
    <2>1. /\ ~running /\ process' \in Nat
          /\ UNCHANGED <<shell, killed>> /\ gone' = FALSE
      BY <1>1 DEF Start
    <2>2. CASE shell = "up"
      <3>1. /\ icons' = icons \cup {process'} /\ running' = TRUE
            /\ ~flags'.m_bRemoved /\ ~flags'.m_bShowIconPending
        BY <1>1, <2>2 DEF Start, Continues
      <3>2. QED BY <2>1, <2>2, <3>1
    <2>3. CASE shell # "up"
      <3>1. icons' = icons /\ ~running' /\ running' \in BOOLEAN
        BY <1>1, <2>3 DEF Start, Continues
      <3>2. QED BY <2>1, <2>3, <3>1
    <2>4. QED BY <2>2, <2>3
  <1>2. CASE TaskbarCreated
    <2>1. UNCHANGED flags /\ UNCHANGED icons
      BY <1>2 DEF TaskbarCreated
    <2>2. QED BY <1>2, <2>1 DEF TaskbarCreated, clickVars, pressVars
  <1>3. CASE OnExit
    BY <1>3 DEF OnExit, RemoveIcon, NoWindows
  <1>4. CASE Kill
    BY <1>4 DEF Kill, NoWindows
  <1>5. CASE ShellDies \/ ShellStarts
    BY <1>5 DEF ShellDies, ShellStarts, clickVars, pressVars
  <1>6. CASE DropGhost
    BY <1>6 DEF DropGhost, clickVars, pressVars
  <1>7. CASE \/ Press \/ Pass \/ Choose \/ Tick
             \/ OnButtonDown \/ OnDoubleClick \/ OnShowHide \/ OnMinimize \/ OnClickTimer
             \/ UNCHANGED vars
    <2>1. UNCHANGED <<trayVars, process, running, killed>>
      BY <1>7 DEF Press, Pass, Choose, Tick, OnButtonDown, OnDoubleClick, OnShowHide,
                  OnMinimize, OnClickTimer, Unmoved, vars
    <2>2. QED BY <2>1 DEF trayVars
  <1>8. QED BY <1>1, <1>2, <1>3, <1>4, <1>5, <1>6, <1>7 DEF Next, Handle

(* The shell lists the icon of the running program unless the shell has    *)
(* restarted, and no icon of a process that ended by itself.               *)
THEOREM IconsAreOfTheLiving == Spec => []IconsOfTheLiving
  <1>1. Init => IconInv
    BY InitIcons
  <1>2. IconInv /\ [Next]_vars => IconInv'
    BY NextKeepsIcons
  <1>3. IconInv => IconsOfTheLiving
    BY DEF IconInv
  <1>4. QED BY <1>1, <1>2, <1>3, PTL DEF Spec

-----------------------------------------------------------------------------
(* The clicks. *)

(* The constants are numbers, and the margin is longer than the delay.     *)
LEMMA Times ==
  /\ DoubleClickTime \in Nat /\ Margin \in Nat /\ MaxDelay \in Nat
  /\ MaxDelay < Margin
  /\ Never \in Nat /\ ClickTimer \in Nat
  /\ ClickTimer = DoubleClickTime + Margin
  /\ Never = DoubleClickTime + 1
BY SystemTrayAssumption DEF Never, ClickTimer

(* An appended message is the last, and the others stay where they were.   *)
LEMMA Appended ==
  ASSUME NEW S, NEW s \in Seq(S), NEW e \in S, NEW r, r = Append(s, e)
  PROVE  /\ r \in Seq(S) /\ Len(s) \in Nat
         /\ DOMAIN s = 1 .. Len(s) /\ DOMAIN r = 1 .. (Len(s) + 1)
         /\ \A i \in DOMAIN s : i \in DOMAIN r /\ r[i] = s[i]
         /\ Len(s) + 1 \in DOMAIN r /\ r[Len(s) + 1] = e
  <1>1. /\ r \in Seq(S) /\ Len(r) = Len(s) + 1
        /\ \A i \in 1 .. Len(s) : r[i] = s[i]
        /\ r[Len(s) + 1] = e
    BY AppendProperties
  <1>2. Len(s) \in Nat /\ DOMAIN s = 1 .. Len(s) /\ DOMAIN r = 1 .. Len(r)
    BY <1>1, LenProperties
  <1>3. QED BY <1>1, <1>2

(* Without the first message the others are one place further on.          *)
LEMMA FirstTaken ==
  ASSUME NEW S, NEW s \in Seq(S), s # <<>>, NEW r, r = Tail(s)
  PROVE  /\ r \in Seq(S) /\ Len(s) \in Nat \ {0} /\ Head(s) = s[1]
         /\ DOMAIN s = 1 .. Len(s) /\ DOMAIN r = 1 .. (Len(s) - 1)
         /\ \A i \in DOMAIN r : i + 1 \in DOMAIN s /\ r[i] = s[i + 1]
         /\ \A i \in DOMAIN s \ {1} : i - 1 \in DOMAIN r /\ r[i - 1] = s[i]
  <1>1. /\ r \in Seq(S) /\ Len(r) = Len(s) - 1
        /\ \A i \in 1 .. Len(r) : r[i] = s[i + 1]
    BY HeadTailProperties
  <1>2. /\ Len(s) \in Nat \ {0} /\ DOMAIN s = 1 .. Len(s)
        /\ DOMAIN r = 1 .. (Len(s) - 1)
    BY <1>1, EmptySeq, LenProperties
  <1>3. Head(s) = s[1]
    OBVIOUS
  <1>4. \A i \in DOMAIN s \ {1} : i - 1 \in DOMAIN r /\ r[i - 1] = s[i]
    <2>1. SUFFICES ASSUME NEW i \in DOMAIN s \ {1}
                   PROVE  i - 1 \in DOMAIN r /\ r[i - 1] = s[i]
      OBVIOUS
    <2>2. i - 1 \in 1 .. (Len(s) - 1) /\ (i - 1) + 1 = i
      BY <1>2
    <2>3. r[i - 1] = s[(i - 1) + 1]
      BY <1>1, <2>2
    <2>4. QED BY <1>2, <2>2, <2>3
  <1>5. QED BY <1>1, <1>2, <1>3, <1>4

(* A step in which the shell does not list the icon any more, or that      *)
(* changes nothing the clicks depend on.                                   *)
LEMMA ClicksUntouched ==
  ASSUME IInv, UNCHANGED <<presses, armedBy, doubled, sinceDown, lclick, passing, inbox>>,
         running' = running, Listed' => Listed
  PROVE  ClickType' /\ Paired'
BY DEF IInv, ClickType, Paired, TimerStopped, TimerCovers, HalvesPosted, HalvesPassing,
       IsHalf, IsDouble

(* A new process has been clicked on by nobody.                            *)
LEMMA StartKeepsClicks ==
  ASSUME IInv, Start
  PROVE  ClickType' /\ Paired'
  <1>1. /\ ~running /\ sinceDown' = Never
        /\ UNCHANGED <<presses, armedBy, doubled, lclick, passing, inbox>>
    BY DEF Start
  <1>2. lclick = Off /\ inbox = <<>> /\ passing = <<>>
    BY <1>1 DEF IInv, ClickType
  <1>3. Never \in 0 .. Never
    BY Times
  <1>4. ClickType'
    BY <1>1, <1>2, <1>3 DEF IInv, ClickType
  <1>5. DOMAIN inbox' = {} /\ DOMAIN passing' = {}
    BY <1>1, <1>2
  <1>6. Paired'
    BY <1>1, <1>2, <1>5 DEF Paired, TimerStopped, TimerCovers, HalvesPosted, HalvesPassing
  <1>7. QED BY <1>4, <1>6

(* The end of the program takes its messages and timers with it. *)
LEMMA EndKeepsClicks ==
  ASSUME IInv, NoWindows, UNCHANGED <<armedBy, pressVars>>
  PROVE  ClickType' /\ Paired'
  <1>1. /\ ~running' /\ lclick' = Off /\ inbox' = <<>> /\ passing' = <<>>
        /\ UNCHANGED <<presses, armedBy, doubled, sinceDown>>
    BY DEF NoWindows, pressVars
  <1>2. /\ Off \in Off .. ClickTimer
        /\ <<>> \in Seq(Click) /\ <<>> \in Seq(Message) /\ DOMAIN <<>> = {}
    BY Times, EmptySeq DEF Off
  <1>3. ClickType'
    BY <1>1, <1>2 DEF IInv, ClickType
  <1>4. QED BY <1>1, <1>3 DEF Paired, Listed

(* The shell takes the clicks it has not passed on with it, and the icon.  *)
LEMMA ShellDiesKeepsClicks ==
  ASSUME IInv, ShellDies
  PROVE  ClickType' /\ Paired'
  <1>1. /\ icons' = {} /\ passing' = <<>> /\ sinceDown' = Never
        /\ UNCHANGED <<presses, armedBy, doubled, lclick, inbox, running>>
    BY DEF ShellDies
  <1>2. Never \in 0 .. Never /\ <<>> \in Seq(Click) /\ DOMAIN <<>> = {}
    BY Times, EmptySeq
  <1>3. ClickType'
    BY <1>1, <1>2 DEF IInv, ClickType
  <1>4. QED BY <1>1, <1>3 DEF Paired, Listed

(* A press: the second half of a double click comes while the first one's  *)
(* timer has at least the margin to go, and that is longer than MaxDelay.  *)
LEMMA PressKeepsClicks ==
  ASSUME IInv, Press
  PROVE  ClickType' /\ Paired'
  <1>. DEFINE double == sinceDown <= DoubleClickTime
              new == [event |-> IF double THEN "dblclk" ELSE "down",
                      press |-> presses', age |-> 0]
              n == Len(passing) + 1
  <1>1. /\ Listed /\ presses' = presses + 1
        /\ sinceDown' = IF double THEN Never ELSE 0
        /\ doubled' = IF double THEN doubled \cup {presses} ELSE doubled
        /\ passing' = Append(passing, new)
        /\ UNCHANGED <<inbox, lclick, armedBy, running>>
    BY DEF Press
  <1>2. /\ presses \in Nat /\ armedBy \in 0 .. presses /\ lclick \in Off .. ClickTimer
        /\ \A p \in doubled : p \in Nat /\ p < presses
        /\ passing \in Seq(Click)
        /\ sinceDown \in 0 .. Never
        /\ \A i \in DOMAIN passing : passing[i].press <= presses /\ passing[i].age <= MaxDelay
        /\ inbox \in Seq(Message)
        /\ \A i \in DOMAIN inbox : inbox[i].press <= presses
        /\ running
    BY <1>1 DEF IInv, ClickType, Listed
  <1>3. new \in Click /\ new.press = presses + 1 /\ new.age = 0
    BY <1>1, <1>2 DEF Click
  <1>4. new.event = IF double THEN "dblclk" ELSE "down"
    OBVIOUS
  <1>. HIDE DEF new
  <1>5. /\ passing' \in Seq(Click) /\ Len(passing) \in Nat
        /\ DOMAIN passing = 1 .. Len(passing) /\ DOMAIN passing' = 1 .. n
        /\ \A i \in DOMAIN passing : i \in DOMAIN passing' /\ passing'[i] = passing[i]
        /\ n \in DOMAIN passing' /\ passing'[n] = new
    BY <1>1, <1>2, <1>3, Appended
  <1>6. /\ \A i \in DOMAIN passing : passing[i] \in Click
        /\ \A i \in DOMAIN inbox : inbox[i] \in Message
        /\ DOMAIN inbox = 1 .. Len(inbox) /\ Len(inbox) \in Nat
    BY <1>2, ElementOfSeq, LenProperties
  <1>7. ClickType'
    <2>1. sinceDown' \in 0 .. Never
      BY <1>1, Times
    <2>2. \A p \in doubled' : p \in Nat /\ p < presses'
      BY <1>1, <1>2
    <2>3. \A i \in DOMAIN passing' : passing'[i].press <= presses' /\ passing'[i].age <= MaxDelay
      <3>1. SUFFICES ASSUME NEW i \in DOMAIN passing'
                     PROVE  passing'[i].press <= presses' /\ passing'[i].age <= MaxDelay
        OBVIOUS
      <3>2. CASE i = n
        BY <1>1, <1>2, <1>3, <1>5, <3>2, Times
      <3>3. CASE i # n
        <4>1. i \in DOMAIN passing
          BY <1>5, <3>3
        <4>2. passing'[i] = passing[i] /\ passing[i].press \in Nat
          BY <1>5, <1>6, <4>1 DEF Click
        <4>3. QED BY <1>1, <1>2, <4>1, <4>2
      <3>4. QED BY <3>2, <3>3
    <2>4. \A i \in DOMAIN inbox' : inbox'[i].press <= presses'
      BY <1>1, <1>2, <1>6 DEF Message
    <2>5. armedBy' \in 0 .. presses' /\ presses' \in Nat
      BY <1>1, <1>2
    <2>6. QED BY <1>1, <1>2, <1>5, <2>1, <2>2, <2>3, <2>4, <2>5 DEF ClickType
  <1>8. TimerStopped /\ TimerCovers /\ HalvesPosted /\ HalvesPassing
    BY <1>1 DEF IInv, Paired
  <1>9. CASE double
    <2>1. IsDouble(passing'[n]) /\ passing'[n].age = 0
      BY <1>3, <1>4, <1>5, <1>9 DEF IsDouble
    <2>2. TimerStopped'
      <3>1. SUFFICES ASSUME lclick' # Off, armedBy' \in doubled'
                     PROVE  \/ \E i \in DOMAIN inbox' : IsDouble(inbox'[i])
                            \/ \E i \in DOMAIN passing' :
                                 IsDouble(passing'[i]) /\ lclick' + passing'[i].age > MaxDelay
        BY DEF TimerStopped, IsDouble
      <3>2. CASE armedBy \in doubled
        BY <1>1, <1>5, <1>8, <3>1, <3>2 DEF TimerStopped
      <3>3. CASE armedBy = presses
        <4>1. lclick + sinceDown >= ClickTimer
          BY <1>1, <1>8, <1>9, <3>1, <3>3 DEF TimerCovers
        <4>2. lclick + 0 > MaxDelay
          BY <1>2, <1>9, <4>1, Times DEF Off
        <4>3. QED BY <1>1, <1>5, <2>1, <4>2
      <3>4. QED BY <1>1, <1>9, <3>1, <3>2, <3>3
    <2>3. TimerCovers'
      BY <1>1, <1>9, Times DEF TimerCovers
    <2>4. HalvesPosted'
      BY <1>5, <2>1 DEF HalvesPosted, IsDouble
    <2>5. HalvesPassing'
      <3>1. SUFFICES ASSUME NEW i \in DOMAIN passing', IsHalf(passing[i])'
                     PROVE  \E j \in DOMAIN passing' : j > i /\ IsDouble(passing'[j])
        BY DEF HalvesPassing, IsDouble
      <3>2. i # n
        BY <2>1, <3>1 DEF IsDouble, IsHalf
      <3>3. n > i
        BY <1>5, <3>1, <3>2
      <3>4. QED BY <1>5, <2>1, <3>3
    <2>6. QED BY <1>7, <2>2, <2>3, <2>4, <2>5 DEF Paired
  <1>10. CASE ~double
    <2>1. passing'[n].press \notin doubled' /\ doubled' = doubled /\ sinceDown' = 0
      <3>1. presses + 1 \notin doubled
        BY <1>2
      <3>2. QED BY <1>1, <1>3, <1>5, <1>10, <3>1
    <2>2. TimerStopped'
      BY <1>1, <1>5, <1>8, <2>1 DEF TimerStopped, IsDouble
    <2>3. TimerCovers'
      BY <1>1, <1>2 DEF TimerCovers
    <2>4. HalvesPosted'
      BY <1>1, <1>5, <1>8, <2>1 DEF HalvesPosted, IsHalf, IsDouble
    <2>5. HalvesPassing'
      <3>1. SUFFICES ASSUME NEW i \in DOMAIN passing', IsHalf(passing[i])'
                     PROVE  \E j \in DOMAIN passing' : j > i /\ IsDouble(passing'[j])
        BY DEF HalvesPassing, IsDouble
      <3>2. i \in DOMAIN passing
        BY <1>5, <2>1, <3>1 DEF IsHalf
      <3>3. IsHalf(passing[i])
        BY <1>5, <2>1, <3>1, <3>2 DEF IsHalf
      <3>4. QED BY <1>5, <1>8, <3>2, <3>3 DEF HalvesPassing
    <2>6. QED BY <1>7, <2>2, <2>3, <2>4, <2>5 DEF Paired
  <1>11. QED BY <1>9, <1>10

(* The shell posts the oldest click.                                       *)
LEMMA PassKeepsClicks ==
  ASSUME IInv, Pass
  PROVE  ClickType' /\ Paired'
  <1>. DEFINE h == passing[1]
              msg == [event |-> h.event, press |-> h.press]
              n == Len(inbox) + 1
  <1>1. /\ running /\ passing # <<>> /\ passing' = Tail(passing)
        /\ UNCHANGED <<lclick, armedBy, presses, doubled, sinceDown, running, process, icons>>
        /\ inbox' = Append(inbox, [event |-> Head(passing).event, press |-> Head(passing).press])
    BY DEF Pass, pressVars, trayVars
  <1>2. /\ passing \in Seq(Click) /\ inbox \in Seq(Message) /\ presses \in Nat
        /\ \A i \in DOMAIN passing : passing[i].press <= presses /\ passing[i].age <= MaxDelay
        /\ \A i \in DOMAIN inbox : inbox[i].press <= presses
    BY DEF IInv, ClickType
  <1>3. /\ passing' \in Seq(Click) /\ Len(passing) \in Nat \ {0} /\ Head(passing) = h
        /\ DOMAIN passing = 1 .. Len(passing) /\ DOMAIN passing' = 1 .. (Len(passing) - 1)
        /\ \A i \in DOMAIN passing' : i + 1 \in DOMAIN passing /\ passing'[i] = passing[i + 1]
        /\ \A i \in DOMAIN passing \ {1} : i - 1 \in DOMAIN passing' /\ passing'[i - 1] = passing[i]
    BY <1>1, <1>2, FirstTaken
  <1>4. 1 \in DOMAIN passing /\ h \in Click
    BY <1>2, <1>3, ElementOfSeq
  <1>5. msg \in Message /\ msg.event = h.event /\ msg.press = h.press
    BY <1>4 DEF Click, Message, Events
  <1>6. inbox' = Append(inbox, msg)
    BY <1>1, <1>3
  <1>. HIDE DEF msg
  <1>7. /\ inbox' \in Seq(Message) /\ Len(inbox) \in Nat
        /\ DOMAIN inbox = 1 .. Len(inbox) /\ DOMAIN inbox' = 1 .. n
        /\ \A i \in DOMAIN inbox : i \in DOMAIN inbox' /\ inbox'[i] = inbox[i]
        /\ n \in DOMAIN inbox' /\ inbox'[n] = msg
    BY <1>2, <1>5, <1>6, Appended
  <1>. HIDE DEF h
  <1>8. ClickType'
    <2>1. \A i \in DOMAIN passing' : passing'[i].press <= presses' /\ passing'[i].age <= MaxDelay
      BY <1>1, <1>2, <1>3
    <2>2. h.press <= presses
      BY <1>2, <1>4 DEF h
    <2>3. \A i \in DOMAIN inbox' : inbox'[i].press <= presses'
      <3>1. SUFFICES ASSUME NEW i \in DOMAIN inbox' PROVE inbox'[i].press <= presses'
        OBVIOUS
      <3>2. CASE i = n
        BY <1>1, <1>5, <1>7, <2>2, <3>2
      <3>3. CASE i # n
        <4>1. i \in DOMAIN inbox
          BY <1>7, <3>3
        <4>2. QED BY <1>1, <1>2, <1>7, <4>1
      <3>4. QED BY <3>2, <3>3
    <2>4. QED BY <1>1, <1>3, <1>7, <2>1, <2>3 DEF IInv, ClickType
  <1>9. CASE ~Listed
    BY <1>1, <1>8, <1>9 DEF Paired, Listed
  <1>10. CASE Listed
    <2>1. TimerStopped /\ TimerCovers /\ HalvesPosted /\ HalvesPassing
      BY <1>10 DEF IInv, Paired
    (* A second half in the shell is posted now, or stays where it was. *)
    <2>2. ASSUME NEW j \in DOMAIN passing, IsDouble(passing[j])
          PROVE  \/ j = 1 /\ IsDouble(inbox'[n])
                 \/ j # 1 /\ j - 1 \in DOMAIN passing' /\ passing'[j - 1] = passing[j]
      BY <1>3, <1>5, <1>7, <2>2 DEF IsDouble, h
    <2>3. TimerStopped'
      <3>1. SUFFICES ASSUME lclick' # Off, armedBy' \in doubled'
                     PROVE  \/ \E i \in DOMAIN inbox' : IsDouble(inbox'[i])
                            \/ \E i \in DOMAIN passing' :
                                 IsDouble(passing'[i]) /\ lclick' + passing'[i].age > MaxDelay
        BY DEF TimerStopped, IsDouble
      <3>2. \/ \E i \in DOMAIN inbox : IsDouble(inbox[i])
            \/ \E i \in DOMAIN passing : IsDouble(passing[i]) /\ lclick + passing[i].age > MaxDelay
        BY <1>1, <2>1, <3>1 DEF TimerStopped
      <3>3. CASE \E i \in DOMAIN inbox : IsDouble(inbox[i])
        BY <1>7, <3>3
      <3>4. CASE \E i \in DOMAIN passing : IsDouble(passing[i]) /\ lclick + passing[i].age > MaxDelay
        <4>1. PICK i \in DOMAIN passing : IsDouble(passing[i]) /\ lclick + passing[i].age > MaxDelay
          BY <3>4
        <4>2. CASE i = 1
          BY <1>7, <2>2, <4>1, <4>2
        <4>3. CASE i # 1
          <5>1. i - 1 \in DOMAIN passing' /\ passing'[i - 1] = passing[i]
            BY <2>2, <4>1, <4>3
          <5>2. QED BY <1>1, <4>1, <5>1
        <4>4. QED BY <4>2, <4>3
      <3>5. QED BY <3>2, <3>3, <3>4
    <2>4. TimerCovers'
      BY <1>1, <2>1 DEF TimerCovers
    <2>5. HalvesPosted'
      <3>1. SUFFICES ASSUME NEW i \in DOMAIN inbox', IsHalf(inbox[i])'
                     PROVE  \/ \E j \in DOMAIN inbox' : j > i /\ IsDouble(inbox'[j])
                            \/ \E j \in DOMAIN passing' : IsDouble(passing'[j])
        BY DEF HalvesPosted, IsDouble
      <3>2. CASE i # n
        <4>1. i \in DOMAIN inbox /\ i < n
          BY <1>7, <3>2
        <4>2. IsHalf(inbox[i])
          BY <1>1, <1>7, <3>1, <4>1 DEF IsHalf
        <4>3. CASE \E j \in DOMAIN inbox : j > i /\ IsDouble(inbox[j])
          BY <1>7, <4>3
        <4>4. CASE \E j \in DOMAIN passing : IsDouble(passing[j])
          <5>1. PICK j \in DOMAIN passing : IsDouble(passing[j])
            BY <4>4
          <5>2. QED BY <1>7, <2>2, <4>1, <5>1
        <4>5. QED BY <2>1, <4>1, <4>2, <4>3, <4>4 DEF HalvesPosted
      <3>3. CASE i = n
        <4>1. IsHalf(passing[1])
          BY <1>1, <1>5, <1>7, <3>1, <3>3 DEF IsHalf, h
        <4>2. PICK j \in DOMAIN passing : j > 1 /\ IsDouble(passing[j])
          BY <1>4, <2>1, <4>1 DEF HalvesPassing
        <4>3. QED BY <2>2, <4>2
      <3>4. QED BY <3>2, <3>3
    <2>6. HalvesPassing'
      <3>1. SUFFICES ASSUME NEW i \in DOMAIN passing', IsHalf(passing[i])'
                     PROVE  \E j \in DOMAIN passing' : j > i /\ IsDouble(passing'[j])
        BY DEF HalvesPassing, IsDouble
      <3>2. i \in Nat \ {0} /\ i + 1 \in DOMAIN passing /\ passing'[i] = passing[i + 1]
        BY <1>3
      <3>3. IsHalf(passing[i + 1])
        BY <1>1, <3>1, <3>2 DEF IsHalf
      <3>4. PICK j \in DOMAIN passing : j > i + 1 /\ IsDouble(passing[j])
        BY <2>1, <3>2, <3>3 DEF HalvesPassing
      <3>5. j \in Nat /\ j # 1 /\ j - 1 > i
        BY <1>3, <3>2, <3>4
      <3>6. QED BY <2>2, <3>4, <3>5
    <2>7. QED BY <1>8, <2>3, <2>4, <2>5, <2>6 DEF Paired
  <1>11. QED BY <1>9, <1>10

(* Time takes from the timer what it adds to the age of the clicks and to  *)
(* the time since the last press.                                          *)
LEMMA TickKeepsClicks ==
  ASSUME IInv, Tick
  PROVE  ClickType' /\ Paired'
  <1>. DEFINE Aged(i) == [passing[i] EXCEPT !.age = @ + 1]
  <1>1. /\ \A i \in DOMAIN passing : passing[i].age < MaxDelay
        /\ passing' = [i \in DOMAIN passing |-> Aged(i)]
        /\ sinceDown' = IF sinceDown = Never THEN Never ELSE sinceDown + 1
        /\ lclick' = IF lclick > 0 THEN lclick - 1 ELSE lclick
        /\ UNCHANGED <<inbox, armedBy, presses, doubled, running, process, icons>>
    BY DEF Tick, trayVars
  <1>2. /\ passing \in Seq(Click) /\ inbox \in Seq(Message) /\ presses \in Nat
        /\ \A i \in DOMAIN passing : passing[i].press <= presses /\ passing[i].age <= MaxDelay
        /\ sinceDown \in 0 .. Never /\ lclick \in Off .. ClickTimer
        /\ ~running => lclick = Off /\ inbox = <<>> /\ passing = <<>>
    BY DEF IInv, ClickType
  <1>3. /\ Len(passing) \in Nat /\ DOMAIN passing = 1 .. Len(passing)
        /\ \A i \in DOMAIN passing : passing[i] \in Click
    BY <1>2, ElementOfSeq, LenProperties
  <1>4. \A i \in DOMAIN passing : /\ Aged(i) \in Click
                                  /\ Aged(i).event = passing[i].event
                                  /\ Aged(i).press = passing[i].press
                                  /\ Aged(i).age = passing[i].age + 1
    BY <1>3 DEF Click
  <1>. HIDE DEF Aged
  <1>5. /\ DOMAIN passing' = DOMAIN passing
        /\ \A i \in DOMAIN passing : /\ passing'[i].event = passing[i].event
                                     /\ passing'[i].press = passing[i].press
                                     /\ passing'[i].age = passing[i].age + 1
                                     /\ passing[i].age \in Nat
    BY <1>1, <1>3, <1>4 DEF Click
  <1>6. passing' \in Seq(Click)
    <2>1. passing' \in [1 .. Len(passing) -> Click]
      BY <1>1, <1>3, <1>4
    <2>2. QED BY <1>3, <2>1, SeqDef
  <1>7. ClickType'
    <2>1. \A i \in DOMAIN passing' : passing'[i].press <= presses' /\ passing'[i].age <= MaxDelay
      BY <1>1, <1>2, <1>5, Times
    <2>2. sinceDown' \in 0 .. Never
      BY <1>1, <1>2, Times
    <2>3. lclick' \in Off .. ClickTimer
      BY <1>1, <1>2, Times DEF Off
    <2>4. ~running' => lclick' = Off /\ inbox' = <<>> /\ passing' = <<>>
      BY <1>1, <1>2, <1>3, <1>5, <1>6, EmptySeq, LenProperties DEF Off
    <2>5. QED BY <1>1, <1>6, <2>1, <2>2, <2>3, <2>4 DEF IInv, ClickType
  <1>8. CASE ~Listed
    BY <1>1, <1>7, <1>8 DEF Paired, Listed
  <1>9. CASE Listed
    <2>1. TimerStopped /\ TimerCovers /\ HalvesPosted /\ HalvesPassing
      BY <1>9 DEF IInv, Paired
    <2>2. lclick' # Off => lclick # Off /\ lclick \in Nat /\ lclick' \in Nat /\ lclick' + 1 >= lclick
      BY <1>1, <1>2, Times DEF Off
    <2>3. TimerStopped'
      <3>1. SUFFICES ASSUME lclick' # Off, armedBy' \in doubled'
                     PROVE  \/ \E i \in DOMAIN inbox' : IsDouble(inbox'[i])
                            \/ \E i \in DOMAIN passing' :
                                 IsDouble(passing'[i]) /\ lclick' + passing'[i].age > MaxDelay
        BY DEF TimerStopped, IsDouble
      <3>2. CASE \E i \in DOMAIN inbox : IsDouble(inbox[i])
        BY <1>1, <3>2
      <3>3. CASE \E i \in DOMAIN passing : IsDouble(passing[i]) /\ lclick + passing[i].age > MaxDelay
        <4>1. PICK i \in DOMAIN passing : IsDouble(passing[i]) /\ lclick + passing[i].age > MaxDelay
          BY <3>3
        <4>2. lclick' + passing'[i].age > MaxDelay
          BY <1>5, <2>2, <3>1, <4>1, Times
        <4>3. QED BY <1>5, <4>1, <4>2 DEF IsDouble
      <3>4. QED BY <1>1, <2>1, <2>2, <3>1, <3>2, <3>3 DEF TimerStopped
    <2>4. TimerCovers'
      <3>1. SUFFICES ASSUME lclick' # Off, armedBy' = presses', sinceDown' <= DoubleClickTime
                     PROVE  lclick' + sinceDown' >= ClickTimer
        BY DEF TimerCovers, ClickTimer
      <3>2. sinceDown' = sinceDown + 1 /\ sinceDown <= DoubleClickTime
        BY <1>1, <1>2, <3>1, Times
      <3>3. lclick + sinceDown >= ClickTimer
        BY <1>1, <2>1, <2>2, <3>1, <3>2 DEF TimerCovers
      <3>4. QED BY <1>2, <2>2, <3>1, <3>2, <3>3, Times
    <2>5. HalvesPosted' /\ HalvesPassing'
      BY <1>1, <1>5, <2>1 DEF HalvesPosted, HalvesPassing, IsHalf, IsDouble
    <2>6. QED BY <1>7, <2>3, <2>4, <2>5 DEF Paired
  <1>10. QED BY <1>8, <1>9

(* An item of the menu is no click. *)
LEMMA ChooseKeepsClicks ==
  ASSUME IInv, Choose
  PROVE  ClickType' /\ Paired'
  <1>1. PICK item \in {"showHide", "exit"} : inbox' = <<Command(item)>>
    BY DEF Choose
  <1>2. /\ Listed /\ inbox = <<>>
        /\ UNCHANGED <<presses, armedBy, doubled, sinceDown, lclick, passing, running>>
    BY DEF Choose, pressVars
  <1>3. Command(item) \in Message /\ Command(item).press = 0 /\ Command(item).event = item
    BY DEF Command, Message, Events
  <1>4. /\ inbox' \in Seq(Message) /\ DOMAIN inbox' = {1} /\ inbox'[1] = Command(item)
    BY <1>1, <1>3
  <1>5. ClickType'
    <2>1. \A i \in DOMAIN inbox' : inbox'[i].press <= presses'
      BY <1>2, <1>3, <1>4 DEF IInv, ClickType
    <2>2. QED BY <1>2, <1>4, <2>1 DEF IInv, ClickType, Listed
  <1>6. TimerStopped /\ TimerCovers /\ HalvesPassing
    BY <1>2 DEF IInv, Paired
  <1>7. TimerStopped'
    <2>1. ~ \E i \in DOMAIN inbox : IsDouble(inbox[i])
      BY <1>2
    <2>2. QED BY <1>2, <1>6, <2>1 DEF TimerStopped, IsDouble
  <1>8. TimerCovers' /\ HalvesPassing'
    BY <1>2, <1>6 DEF TimerCovers, HalvesPassing, IsHalf, IsDouble
  <1>9. HalvesPosted'
    BY <1>1, <1>3, <1>4 DEF HalvesPosted, IsHalf
  <1>10. QED BY <1>5, <1>7, <1>8, <1>9 DEF Paired

(* Without the first message, first halves are still followed by second    *)
(* ones.                                                                   *)
LEMMA MessageTaken ==
  ASSUME IInv, inbox # <<>>, NEW t, t = Tail(inbox)
  PROVE  /\ t \in Seq(Message)
         /\ \A i \in DOMAIN t : t[i].press <= presses
         /\ HalvesPosted =>
              \A i \in DOMAIN t : IsHalf(t[i]) =>
                \/ \E j \in DOMAIN t : j > i /\ IsDouble(t[j])
                \/ \E j \in DOMAIN passing : IsDouble(passing[j])
         /\ 1 \in DOMAIN inbox /\ Head(inbox) = inbox[1]
         /\ \A j \in DOMAIN inbox : j > 1 => j - 1 \in DOMAIN t /\ t[j - 1] = inbox[j]
  <1>1. inbox \in Seq(Message) /\ \A i \in DOMAIN inbox : inbox[i].press <= presses
    BY DEF IInv, ClickType
  <1>2. /\ t \in Seq(Message) /\ Len(inbox) \in Nat \ {0} /\ Head(inbox) = inbox[1]
        /\ DOMAIN inbox = 1 .. Len(inbox) /\ DOMAIN t = 1 .. (Len(inbox) - 1)
        /\ \A i \in DOMAIN t : i + 1 \in DOMAIN inbox /\ t[i] = inbox[i + 1]
        /\ \A i \in DOMAIN inbox \ {1} : i - 1 \in DOMAIN t /\ t[i - 1] = inbox[i]
    BY <1>1, FirstTaken
  <1>3. \A i \in DOMAIN t : t[i].press <= presses
    BY <1>1, <1>2
  <1>4. ASSUME HalvesPosted, NEW i \in DOMAIN t, IsHalf(t[i])
        PROVE  \/ \E j \in DOMAIN t : j > i /\ IsDouble(t[j])
               \/ \E j \in DOMAIN passing : IsDouble(passing[j])
    <2>1. i \in Nat /\ i + 1 \in DOMAIN inbox /\ IsHalf(inbox[i + 1])
      BY <1>2, <1>4
    <2>2. CASE \E j \in DOMAIN inbox : j > i + 1 /\ IsDouble(inbox[j])
      <3>1. PICK j \in DOMAIN inbox : j > i + 1 /\ IsDouble(inbox[j])
        BY <2>2
      <3>2. j \in Nat /\ j # 1 /\ j - 1 > i
        BY <1>2, <2>1, <3>1
      <3>3. j - 1 \in DOMAIN t /\ t[j - 1] = inbox[j]
        BY <1>2, <3>1, <3>2
      <3>4. QED BY <3>1, <3>2, <3>3
    <2>3. QED BY <1>4, <2>1, <2>2 DEF HalvesPosted
  <1>5. 1 \in DOMAIN inbox
    BY <1>2
  <1>6. \A j \in DOMAIN inbox : j > 1 => j - 1 \in DOMAIN t /\ t[j - 1] = inbox[j]
    BY <1>2
  <1>7. QED BY <1>2, <1>3, <1>4, <1>5, <1>6

(* The timer is set anew: if the press has become a first half, its second *)
(* one comes before the timer is due.                                      *)
LEMMA OnButtonDownKeepsClicks ==
  ASSUME IInv, OnButtonDown
  PROVE  ClickType' /\ Paired'
  <1>1. /\ running /\ inbox # <<>> /\ Head(inbox).event = "down"
        /\ inbox' = Tail(inbox) /\ lclick' = ClickTimer /\ armedBy' = Head(inbox).press
        /\ UNCHANGED <<presses, doubled, sinceDown, passing, running, process, icons>>
    BY DEF OnButtonDown, Receive, Unmoved, pressVars, trayVars
  <1>2. /\ inbox' \in Seq(Message)
        /\ \A i \in DOMAIN inbox' : inbox'[i].press <= presses
        /\ HalvesPosted =>
             \A i \in DOMAIN inbox' : IsHalf(inbox'[i]) =>
               \/ \E j \in DOMAIN inbox' : j > i /\ IsDouble(inbox'[j])
               \/ \E j \in DOMAIN passing : IsDouble(passing[j])
        /\ 1 \in DOMAIN inbox /\ Head(inbox) = inbox[1]
        /\ \A j \in DOMAIN inbox : j > 1 => j - 1 \in DOMAIN inbox' /\ inbox'[j - 1] = inbox[j]
    BY <1>1, MessageTaken
  <1>3. /\ presses \in Nat /\ sinceDown \in 0 .. Never
        /\ inbox \in Seq(Message) /\ passing \in Seq(Click)
        /\ \A i \in DOMAIN inbox : inbox[i].press <= presses
    BY DEF IInv, ClickType
  <1>4. inbox[1] \in Message /\ \A j \in DOMAIN passing : passing[j] \in Click
    BY <1>2, <1>3, ElementOfSeq
  <1>5. ClickType'
    <2>1. armedBy' \in 0 .. presses
      BY <1>1, <1>2, <1>3, <1>4 DEF Message
    <2>2. lclick' \in Off .. ClickTimer
      BY <1>1, Times DEF Off
    <2>3. QED BY <1>1, <1>2, <2>1, <2>2, Times DEF IInv, ClickType, ClickTimer
  <1>6. CASE ~Listed
    BY <1>1, <1>5, <1>6 DEF Paired, Listed
  <1>7. CASE Listed
    <2>1. TimerStopped /\ TimerCovers /\ HalvesPosted /\ HalvesPassing
      BY <1>7 DEF IInv, Paired
    <2>2. TimerStopped'
      <3>1. SUFFICES ASSUME armedBy' \in doubled'
                     PROVE  \/ \E i \in DOMAIN inbox' : IsDouble(inbox'[i])
                            \/ \E i \in DOMAIN passing' :
                                 IsDouble(passing'[i]) /\ lclick' + passing'[i].age > MaxDelay
        BY DEF TimerStopped, IsDouble
      <3>2. IsHalf(inbox[1])
        BY <1>1, <1>2, <3>1 DEF IsHalf
      <3>3. CASE \E j \in DOMAIN inbox : j > 1 /\ IsDouble(inbox[j])
        BY <1>2, <3>3
      <3>4. CASE \E j \in DOMAIN passing : IsDouble(passing[j])
        <4>1. PICK j \in DOMAIN passing : IsDouble(passing[j])
          BY <3>4
        <4>2. passing[j].age \in Nat
          BY <1>4 DEF Click
        <4>3. lclick' + passing[j].age > MaxDelay
          BY <1>1, <4>2, Times
        <4>4. QED BY <1>1, <4>1, <4>3
      <3>5. QED BY <1>2, <2>1, <3>2, <3>3, <3>4 DEF HalvesPosted
    <2>3. TimerCovers'
      <3>1. lclick' + sinceDown' >= ClickTimer
        BY <1>1, <1>3, Times
      <3>2. QED BY <3>1 DEF TimerCovers, ClickTimer
    <2>4. HalvesPosted'
      BY <1>1, <1>2, <2>1 DEF HalvesPosted, IsHalf, IsDouble
    <2>5. HalvesPassing'
      BY <1>1, <2>1 DEF HalvesPassing, IsHalf, IsDouble
    <2>6. QED BY <1>5, <2>2, <2>3, <2>4, <2>5 DEF Paired
  <1>8. QED BY <1>6, <1>7

(* A second half stops the timer. *)
LEMMA OnDoubleClickKeepsClicks ==
  ASSUME IInv, OnDoubleClick
  PROVE  ClickType' /\ Paired'
  <1>. DEFINE t == Tail(inbox)
              c == Command("showHide")
  <1>1. /\ running /\ inbox # <<>> /\ inbox' = Append(t, c) /\ lclick' = Off
        /\ UNCHANGED <<presses, armedBy, doubled, sinceDown, passing, running, process, icons>>
    BY DEF OnDoubleClick, Receive, Unmoved, pressVars, trayVars
  <1>2. c \in Message /\ c.press = 0 /\ c.event = "showHide"
    BY DEF Command, Message, Events
  <1>. HIDE DEF c
  <1>3. /\ t \in Seq(Message)
        /\ \A i \in DOMAIN t : t[i].press <= presses
        /\ HalvesPosted =>
             \A i \in DOMAIN t : IsHalf(t[i]) =>
               \/ \E j \in DOMAIN t : j > i /\ IsDouble(t[j])
               \/ \E j \in DOMAIN passing : IsDouble(passing[j])
    BY <1>1, MessageTaken
  <1>. HIDE DEF t
  <1>4. /\ inbox' \in Seq(Message) /\ Len(t) \in Nat
        /\ DOMAIN t = 1 .. Len(t) /\ DOMAIN inbox' = 1 .. (Len(t) + 1)
        /\ \A i \in DOMAIN t : i \in DOMAIN inbox' /\ inbox'[i] = t[i]
        /\ inbox'[Len(t) + 1] = c
    BY <1>1, <1>2, <1>3, Appended
  <1>5. presses \in Nat
    BY DEF IInv, ClickType
  <1>6. \A i \in DOMAIN inbox' : i \in DOMAIN t \/ inbox'[i] = c
    BY <1>4
  <1>7. ClickType'
    <2>1. \A i \in DOMAIN inbox' : inbox'[i].press <= presses'
      BY <1>1, <1>2, <1>3, <1>4, <1>5, <1>6
    <2>2. Off \in Off .. ClickTimer
      BY Times DEF Off
    <2>3. QED BY <1>1, <1>4, <2>1, <2>2 DEF IInv, ClickType
  <1>8. CASE ~Listed
    BY <1>1, <1>7, <1>8 DEF Paired, Listed
  <1>9. CASE Listed
    <2>1. HalvesPosted /\ HalvesPassing
      BY <1>9 DEF IInv, Paired
    <2>2. TimerStopped' /\ TimerCovers'
      BY <1>1 DEF TimerStopped, TimerCovers
    <2>3. HalvesPosted'
      <3>1. SUFFICES ASSUME NEW i \in DOMAIN inbox', IsHalf(inbox[i])'
                     PROVE  \/ \E j \in DOMAIN inbox' : j > i /\ IsDouble(inbox'[j])
                            \/ \E j \in DOMAIN passing' : IsDouble(passing'[j])
        BY DEF HalvesPosted, IsDouble
      <3>2. i \in DOMAIN t
        BY <1>2, <1>6, <3>1 DEF IsHalf
      <3>3. IsHalf(t[i])
        BY <1>1, <1>4, <3>1, <3>2 DEF IsHalf
      <3>4. QED BY <1>1, <1>3, <1>4, <2>1, <3>2, <3>3
    <2>4. HalvesPassing'
      BY <1>1, <2>1 DEF HalvesPassing, IsHalf, IsDouble
    <2>5. QED BY <1>7, <2>2, <2>3, <2>4 DEF Paired
  <1>10. QED BY <1>8, <1>9

(* A command is no second half. *)
LEMMA OnShowHideKeepsClicks ==
  ASSUME IInv, OnShowHide
  PROVE  ClickType' /\ Paired'
  <1>1. /\ running /\ inbox # <<>> /\ Head(inbox).event = "showHide"
        /\ inbox' = Tail(inbox)
        /\ UNCHANGED <<presses, armedBy, lclick, doubled, sinceDown, passing, running,
                       process, icons>>
    BY DEF OnShowHide, Receive, Unmoved, pressVars, trayVars
  <1>2. /\ inbox' \in Seq(Message)
        /\ \A i \in DOMAIN inbox' : inbox'[i].press <= presses
        /\ HalvesPosted =>
             \A i \in DOMAIN inbox' : IsHalf(inbox'[i]) =>
               \/ \E j \in DOMAIN inbox' : j > i /\ IsDouble(inbox'[j])
               \/ \E j \in DOMAIN passing : IsDouble(passing[j])
        /\ 1 \in DOMAIN inbox /\ Head(inbox) = inbox[1]
        /\ \A j \in DOMAIN inbox : j > 1 => j - 1 \in DOMAIN inbox' /\ inbox'[j - 1] = inbox[j]
    BY <1>1, MessageTaken
  <1>3. ClickType'
    BY <1>1, <1>2 DEF IInv, ClickType
  <1>4. CASE ~Listed
    BY <1>1, <1>3, <1>4 DEF Paired, Listed
  <1>5. CASE Listed
    <2>1. TimerStopped /\ TimerCovers /\ HalvesPosted /\ HalvesPassing
      BY <1>5 DEF IInv, Paired
    <2>2. \A j \in DOMAIN inbox : IsDouble(inbox[j]) => j > 1
      <3>1. ~ IsDouble(inbox[1])
        BY <1>1, <1>2 DEF IsDouble
      <3>2. inbox \in Seq(Message)
        BY DEF IInv, ClickType
      <3>3. \A j \in DOMAIN inbox : j \in Nat \ {0}
        BY <3>2, LenProperties
      <3>4. QED BY <3>1, <3>3
    <2>3. TimerStopped'
      BY <1>1, <1>2, <2>1, <2>2 DEF TimerStopped, IsDouble
    <2>4. TimerCovers' /\ HalvesPassing'
      BY <1>1, <2>1 DEF TimerCovers, HalvesPassing, IsHalf, IsDouble
    <2>5. HalvesPosted'
      BY <1>1, <1>2, <2>1 DEF HalvesPosted, IsHalf, IsDouble
    <2>6. QED BY <1>3, <2>3, <2>4, <2>5 DEF Paired
  <1>6. QED BY <1>4, <1>5

(* The timer stops when it is due. *)
LEMMA OnClickTimerKeepsClicks ==
  ASSUME IInv, OnClickTimer
  PROVE  ClickType' /\ Paired'
  <1>1. /\ lclick' = Off
        /\ UNCHANGED <<presses, armedBy, doubled, sinceDown, inbox, passing, running,
                       process, icons>>
    BY DEF OnClickTimer, Unmoved, pressVars, trayVars
  <1>2. Off \in Off .. ClickTimer
    BY Times DEF Off
  <1>3. ClickType'
    BY <1>1, <1>2 DEF IInv, ClickType
  <1>4. CASE ~Listed
    BY <1>1, <1>3, <1>4 DEF Paired, Listed
  <1>5. CASE Listed
    <2>1. HalvesPosted /\ HalvesPassing
      BY <1>5 DEF IInv, Paired
    <2>2. TimerStopped' /\ TimerCovers'
      BY <1>1 DEF TimerStopped, TimerCovers
    <2>3. HalvesPosted' /\ HalvesPassing'
      BY <1>1, <2>1 DEF HalvesPosted, HalvesPassing, IsHalf, IsDouble
    <2>4. QED BY <1>3, <2>2, <2>3 DEF Paired
  <1>6. QED BY <1>4, <1>5

-----------------------------------------------------------------------------
(* The invariant. *)

(* Nothing is posted or due at first.                                      *)
LEMMA InitIInv == Init => IInv
  <1>1. SUFFICES ASSUME Init PROVE IInv
    OBVIOUS
  <1>2. /\ presses = 0 /\ armedBy = 0 /\ doubled = {} /\ sinceDown = Never /\ lclick = Off
        /\ passing = <<>> /\ inbox = <<>> /\ running = FALSE
    BY <1>1 DEF Init
  <1>3. /\ Never \in 0 .. Never /\ Off \in Off .. ClickTimer /\ DOMAIN <<>> = {}
        /\ <<>> \in Seq(Click) /\ <<>> \in Seq(Message)
    BY Times, EmptySeq DEF Off
  <1>4. ClickType
    BY <1>2, <1>3 DEF ClickType
  <1>5. QED BY <1>1, <1>2, <1>4, InitIcons DEF IInv, IconInv, Paired, Listed

(* Every step keeps the invariant.                                         *)
LEMMA NextKeepsIInv ==
  ASSUME IInv, [Next]_vars
  PROVE  IInv'
  <1>1. IconInv'
    BY NextKeepsIcons DEF IInv, IconInv
  <1>2. ClickType' /\ Paired'
    <2>1. CASE Start
      BY <2>1, StartKeepsClicks
    <2>2. CASE TaskbarCreated
      <3>1. UNCHANGED icons
        BY <2>2 DEF TaskbarCreated, IInv, TrayType
      <3>2. QED BY <2>2, <3>1, ClicksUntouched DEF TaskbarCreated, clickVars, pressVars, Listed
    <2>3. CASE Press
      BY <2>3, PressKeepsClicks
    <2>4. CASE Pass
      BY <2>4, PassKeepsClicks
    <2>5. CASE Choose
      BY <2>5, ChooseKeepsClicks
    <2>6. CASE Tick
      BY <2>6, TickKeepsClicks
    <2>7. CASE ShellDies
      BY <2>7, ShellDiesKeepsClicks
    <2>8. CASE ShellStarts
      BY <2>8, ClicksUntouched DEF ShellStarts, clickVars, pressVars, Listed
    <2>9. CASE DropGhost
      <3>1. Listed' => Listed
        BY <2>9 DEF DropGhost, Listed
      <3>2. QED BY <2>9, <3>1, ClicksUntouched DEF DropGhost, clickVars, pressVars
    <2>10. CASE Kill
      BY <2>10, EndKeepsClicks DEF Kill
    <2>11. CASE OnButtonDown
      BY <2>11, OnButtonDownKeepsClicks
    <2>12. CASE OnDoubleClick
      BY <2>12, OnDoubleClickKeepsClicks
    <2>13. CASE OnShowHide
      BY <2>13, OnShowHideKeepsClicks
    <2>14. CASE OnExit
      BY <2>14, EndKeepsClicks DEF OnExit
    <2>15. CASE OnMinimize
      BY <2>15, ClicksUntouched DEF OnMinimize, Unmoved, trayVars, pressVars, Listed
    <2>16. CASE OnClickTimer
      BY <2>16, OnClickTimerKeepsClicks
    <2>17. CASE UNCHANGED vars
      BY <2>17, ClicksUntouched DEF vars, trayVars, clickVars, pressVars, Listed
    <2>18. QED
      BY <2>1, <2>2, <2>3, <2>4, <2>5, <2>6, <2>7, <2>8, <2>9, <2>10, <2>11, <2>12, <2>13,
         <2>14, <2>15, <2>16, <2>17 DEF Next, Handle
  <1>3. QED BY <1>1, <1>2 DEF IInv, IconInv

(* When the timer is due and nothing is posted, the press that set it was  *)
(* no first half: the second one would be in the shell, and older than     *)
(* clicks get there.                                                       *)
LEMMA TimerIsQuiet ==
  ASSUME IInv, OnClickTimer, Listed
  PROVE  armedBy \notin doubled
  <1>1. SUFFICES ASSUME armedBy \in doubled PROVE FALSE
    OBVIOUS
  <1>2. lclick = 0 /\ DOMAIN inbox = {}
    BY DEF OnClickTimer
  <1>3. PICK i \in DOMAIN passing : IsDouble(passing[i]) /\ lclick + passing[i].age > MaxDelay
    BY <1>1, <1>2 DEF IInv, Paired, TimerStopped, Off
  <1>4. passing[i] \in Click /\ passing[i].age <= MaxDelay
    BY ElementOfSeq, LenProperties DEF IInv, ClickType
  <1>5. QED BY <1>2, <1>3, <1>4, Times DEF Click

(* A press that became the first half of a double click shows no balloon,  *)
(* however late the shell passes the second half on and however late the   *)
(* thread gets to it: TIMER_LCLICK runs longer than both together.         *)
THEOREM DoubleClicksAreQuiet == Spec => QuietDoubleClick
  <1>1. Init => IInv
    BY InitIInv
  <1>2. IInv /\ [Next]_vars => IInv'
    BY NextKeepsIInv
  <1>3. IInv => (OnClickTimer /\ Listed => armedBy \notin doubled)
    BY TimerIsQuiet
  <1>4. IInv /\ [Next]_vars => [OnClickTimer /\ Listed => armedBy \notin doubled]_vars
    BY <1>3
  <1>5. QED BY <1>1, <1>2, <1>4, PTL DEF Spec, QuietDoubleClick

-----------------------------------------------------------------------------
(* What else the variables hold. *)

(* TypeOK says more of the variables than the proofs above need: a click   *)
(* comes from a press, and the icon is hidden just when it is removed. The *)
(* second part is what lets OnTaskbarCreated add no icon but its own.      *)
RestType ==
  /\ icons \subseteq 1 .. process
  /\ \A i \in DOMAIN passing : passing[i].press >= 1
  /\ owed \subseteq {"balloon", "toggle"}
  /\ flags.m_bHidden = flags.m_bRemoved

(* A new process has a number of its own, which the shell may list at once.*)
LEMMA StartKeepsRest ==
  ASSUME IInv, RestType, Start
  PROVE  RestType'
  <1>1. /\ process' = process + 1 /\ process \in Nat
        /\ icons' = icons \/ icons' = icons \cup {process'}
        /\ flags'.m_bHidden = flags'.m_bRemoved
        /\ UNCHANGED <<passing, owed>>
    BY DEF Start, IInv, TrayType
  <1>2. \A p \in 1 .. process : p \in 1 .. process'
    BY <1>1
  <1>3. process' \in 1 .. process'
    BY <1>1
  <1>4. icons' \subseteq 1 .. process'
    BY <1>1, <1>2, <1>3, Zenon DEF RestType
  <1>5. QED BY <1>1, <1>4 DEF RestType

(* The icon is removed only together with m_bHidden and m_bRemoved.        *)
LEMMA ExitKeepsRest ==
  ASSUME RestType, OnExit
  PROVE  RestType'
  <1>1. /\ icons' \subseteq icons /\ process' = process
        /\ flags'.m_bHidden = flags'.m_bRemoved
        /\ passing' = <<>> /\ owed' = {}
    BY DEF OnExit, RemoveIcon, NoWindows, RestType
  <1>2. QED BY <1>1 DEF RestType

(* A press numbers its click. *)
LEMMA PressKeepsRest ==
  ASSUME IInv, RestType, Press
  PROVE  RestType'
  <1>. DEFINE double == sinceDown <= DoubleClickTime
              new == [event |-> IF double THEN "dblclk" ELSE "down",
                      press |-> presses', age |-> 0]
  <1>1. /\ presses' = presses + 1 /\ passing' = Append(passing, new)
        /\ \/ owed' = (owed \ {"balloon"}) \cup {"toggle"}
           \/ owed' = owed \cup {"balloon"}
        /\ UNCHANGED <<icons, process, flags>>
    BY DEF Press, trayVars
  <1>2. presses \in Nat /\ passing \in Seq(Click)
    BY DEF IInv, ClickType
  <1>3. new \in Click /\ new.press = presses + 1
    BY <1>1, <1>2 DEF Click
  <1>. HIDE DEF new
  <1>4. /\ DOMAIN passing = 1 .. Len(passing) /\ DOMAIN passing' = 1 .. (Len(passing) + 1)
        /\ \A i \in DOMAIN passing : passing'[i] = passing[i]
        /\ passing'[Len(passing) + 1] = new /\ Len(passing) \in Nat
    BY <1>1, <1>2, <1>3, Appended
  <1>5. \A i \in DOMAIN passing' : passing'[i].press >= 1
    <2>1. SUFFICES ASSUME NEW i \in DOMAIN passing' PROVE passing'[i].press >= 1
      OBVIOUS
    <2>2. CASE i = Len(passing) + 1
      BY <1>2, <1>3, <1>4, <2>2
    <2>3. CASE i # Len(passing) + 1
      BY <1>4, <2>1, <2>3 DEF RestType
    <2>4. QED BY <2>2, <2>3
  <1>6. QED BY <1>1, <1>5 DEF RestType

(* The clicks the shell still holds are those it held, and perhaps older.  *)
LEMMA ClicksLeft ==
  ASSUME IInv, RestType, Pass \/ Tick
  PROVE  RestType'
  <1>1. passing \in Seq(Click)
    BY DEF IInv, ClickType
  <1>2. \A i \in DOMAIN passing' : passing'[i].press >= 1
    <2>1. CASE Pass
      <3>1. passing # <<>> /\ passing' = Tail(passing)
        BY <2>1 DEF Pass
      <3>2. \A i \in DOMAIN passing' :
              i + 1 \in DOMAIN passing /\ passing'[i] = passing[i + 1]
        BY <1>1, <3>1, FirstTaken
      <3>3. QED BY <3>2 DEF RestType
    <2>2. CASE Tick
      <3>1. passing' = [i \in DOMAIN passing |-> [passing[i] EXCEPT !.age = @ + 1]]
        BY <2>2 DEF Tick
      <3>2. \A i \in DOMAIN passing : passing[i] \in Click
        BY <1>1, ElementOfSeq, LenProperties
      <3>3. \A i \in DOMAIN passing : passing'[i].press = passing[i].press
        BY <3>1, <3>2 DEF Click
      <3>4. DOMAIN passing' = DOMAIN passing
        BY <3>1
      <3>5. QED BY <3>3, <3>4 DEF RestType
    <2>3. QED BY <2>1, <2>2
  <1>3. UNCHANGED <<icons, process, flags, owed>>
    BY DEF Pass, Tick, trayVars
  <1>4. QED BY <1>2, <1>3 DEF RestType

(* Nothing is listed, passed on or owed at first, and every step keeps the *)
(* rest of TypeOK.                                                         *)
LEMMA InitRest == Init => RestType
BY DEF Init, RestType, NotCreated

(* Every message, click and end of a process keeps the types.              *)
LEMMA NextKeepsRest ==
  ASSUME IInv, RestType, [Next]_vars
  PROVE  RestType'
  <1>1. CASE Start
    BY <1>1, StartKeepsRest
  <1>2. CASE TaskbarCreated
    BY <1>2 DEF TaskbarCreated, clickVars, IInv, TrayType, RestType
  <1>3. CASE Press
    BY <1>3, PressKeepsRest
  <1>4. CASE Pass \/ Tick
    BY <1>4, ClicksLeft
  <1>5. CASE ShellDies
    BY <1>5 DEF ShellDies, RestType
  <1>6. CASE DropGhost
    BY <1>6 DEF DropGhost, clickVars, RestType
  <1>7. CASE OnExit
    BY <1>7, ExitKeepsRest
  <1>8. CASE Kill
    BY <1>8 DEF Kill, NoWindows, RestType
  <1>9. CASE \/ Choose \/ ShellStarts \/ OnButtonDown \/ OnDoubleClick \/ OnShowHide
             \/ OnMinimize \/ OnClickTimer \/ UNCHANGED vars
    <2>1. UNCHANGED <<icons, passing, flags, process>> /\ owed' \subseteq owed
      BY <1>9 DEF Choose, ShellStarts, OnButtonDown, OnDoubleClick, OnShowHide, OnMinimize,
                  OnClickTimer, Unmoved, vars, trayVars, clickVars
    <2>2. QED BY <2>1 DEF RestType
  <1>10. QED
    BY <1>1, <1>2, <1>3, <1>4, <1>5, <1>6, <1>7, <1>8, <1>9 DEF Next, Handle

(* The variables hold what they are declared to hold, an icon is hidden    *)
(* just when it is removed, and none is pending while the program runs:    *)
(* InstallIconPending never has anything to install.                       *)
THEOREM TypeCorrect == Spec => []TypeOK
  <1>1. Init => IInv /\ RestType
    BY InitIInv, InitRest
  <1>2. IInv /\ RestType /\ [Next]_vars => (IInv /\ RestType)'
    BY NextKeepsIInv, NextKeepsRest
  <1>3. ASSUME IInv, RestType PROVE TypeOK
    <2>1. \A i \in DOMAIN inbox : inbox[i] \in [event : Events, press : 0 .. presses]
      <3>1. SUFFICES ASSUME NEW i \in DOMAIN inbox
                     PROVE  inbox[i] \in [event : Events, press : 0 .. presses]
        OBVIOUS
      <3>2. inbox[i] \in Message /\ inbox[i].press <= presses /\ presses \in Nat
        BY <1>3, ElementOfSeq, LenProperties DEF IInv, ClickType
      <3>3. QED BY <3>2 DEF Message
    <2>2. \A i \in DOMAIN passing : passing[i] \in
            [event : {"down", "dblclk"}, press : 1 .. presses, age : 0 .. MaxDelay]
      <3>1. SUFFICES ASSUME NEW i \in DOMAIN passing
                     PROVE  passing[i] \in [event : {"down", "dblclk"}, press : 1 .. presses,
                                            age : 0 .. MaxDelay]
        OBVIOUS
      <3>2. /\ passing[i] \in Click /\ presses \in Nat
            /\ passing[i].press <= presses /\ passing[i].age <= MaxDelay
        BY <1>3, ElementOfSeq, LenProperties DEF IInv, ClickType
      <3>3. passing[i].press >= 1
        BY <1>3 DEF RestType
      <3>4. passing[i].press \in 1 .. presses /\ passing[i].age \in 0 .. MaxDelay
        BY <3>2, <3>3, Times DEF Click
      <3>5. QED BY <3>2, <3>4 DEF Click
    <2>3. QED BY <1>3, <2>1, <2>2 DEF IInv, TrayType, ClickType, RestType, TypeOK
  <1>4. QED BY <1>1, <1>2, <1>3, PTL DEF Spec
=============================================================================
