--------------------------- MODULE IdleDialogProofs ---------------------------
(* The idle dialog's answer is the user's last choice, proved for all sets *)
(* of times, texts and dates.                                              *)
EXTENDS IdleDialog, Integers, WellFoundedInduction, TLAPS

(* While the dialog is open the one button that is checked is the choice   *)
(* the user has made last: whatever is typed beside a button checks it and *)
(* takes the mark from each of the other three.                            *)
ChoiceChecked ==
  open => /\ chosen \in Radios
          /\ checked = {chosen}
          /\ answer = NoAnswer

IInv == ChoiceChecked /\ AnswerIsLastChoice

(* Every control with a value stands in the row of a button. *)
LEMMA RowsHaveRadios == \A c \in Pickers \cup Combos : RadioOf[c] \in Radios
BY DEF Pickers, Combos, RadioOf, Radios

(* What a change of a time or a text does to the buttons. *)
LEMMA ChangeChecksRow ==
  ASSUME IInv, open, NEW c \in Pickers \cup Combos, Changed(c)
  PROVE  IInv'
  <1>1. chosen' = RadioOf[c] /\ RadioOf[c] \in Radios
    BY RowsHaveRadios DEF Changed
  <1>2. checked' = {chosen'}
    <2>1. checked \subseteq Radios
      BY DEF IInv, ChoiceChecked
    <2>2. QED BY <1>1, <2>1 DEF Changed, Unchecked, Marked
  <1>3. answer' = answer /\ open' = open
    BY DEF Changed
  <1>4. answer = NoAnswer
    BY DEF IInv, ChoiceChecked
  <1>5. QED BY <1>1, <1>2, <1>3, <1>4 DEF IInv, ChoiceChecked, AnswerIsLastChoice, NoAnswer

(* The buttons are asked in turn, and only one is checked. *)
LEMMA CheckedIsChosen ==
  ASSUME IInv, open
  PROVE  CheckedAction = chosen
  <1>1. chosen \in Radios /\ checked = {chosen}
    BY DEF IInv, ChoiceChecked
  <1>2. QED BY <1>1 DEF CheckedAction, Radios

(* The invariant holds while no dialog is open.                            *)
LEMMA InitIInv == Init => IInv
BY DEF Init, IInv, ChoiceChecked, AnswerIsLastChoice, NoAnswer

(* Every message that the dialog handles keeps it.                         *)
LEMMA NextKeepsIInv ==
  ASSUME IInv, [Next]_vars
  PROVE  IInv'
  <1>1. CASE ShowIdleDlg
    BY <1>1 DEF ShowIdleDlg, IInv, ChoiceChecked, AnswerIsLastChoice, NoAnswer, Radios
  <1>2. CASE Check
    BY <1>2 DEF Check, IInv, ChoiceChecked, AnswerIsLastChoice, NoAnswer
  <1>3. CASE ChangeTime
    BY <1>3, ChangeChecksRow DEF ChangeTime
  <1>4. CASE ChangeText
    BY <1>4, ChangeChecksRow DEF ChangeText
  <1>5. CASE OnOK
    <2>1. answer'.button = "OK" /\ answer'.action = CheckedAction
      BY <1>5 DEF OnOK, Answer
    <2>2. CheckedAction = chosen
      BY <1>5, CheckedIsChosen DEF OnOK
    <2>3. ~open' /\ chosen' = chosen
      BY <1>5 DEF OnOK, Kept
    <2>4. QED BY <2>1, <2>2, <2>3 DEF IInv, ChoiceChecked, AnswerIsLastChoice
  <1>6. CASE OnCancel
    <2>1. answer'.button = "CANCEL" /\ answer'.action = "IGNORE"
      BY <1>6 DEF OnCancel, Answer
    <2>2. ~open'
      BY <1>6 DEF OnCancel
    <2>3. QED BY <2>1, <2>2 DEF IInv, ChoiceChecked, AnswerIsLastChoice
  <1>7. CASE Point \/ Move \/ UNCHANGED vars
    BY <1>7 DEF Point, Move, vars, IInv, ChoiceChecked, AnswerIsLastChoice
  <1>8. QED BY <1>1, <1>2, <1>3, <1>4, <1>5, <1>6, <1>7 DEF Next

(* Whatever the user clicks, types and tabs to in the idle dialog, one     *)
(* radio button is checked.                                                *)
THEOREM OneIsChecked == Spec => []OneChecked
  <1>1. Init => IInv
    BY InitIInv
  <1>2. IInv /\ [Next]_vars => IInv'
    BY NextKeepsIInv
  <1>3. IInv => OneChecked
    BY DEF IInv, ChoiceChecked, OneChecked
  <1>4. QED BY <1>1, <1>2, <1>3, PTL DEF Spec

(* OK gives the answer the user chose last, and every other way out of the *)
(* dialog keeps counting.                                                  *)
THEOREM AnsweredAsChosen == Spec => []AnswerIsLastChoice
  <1>1. Init => IInv
    BY InitIInv
  <1>2. IInv /\ [Next]_vars => IInv'
    BY NextKeepsIInv
  <1>3. IInv => AnswerIsLastChoice
    BY DEF IInv
  <1>4. QED BY <1>1, <1>2, <1>3, PTL DEF Spec

-----------------------------------------------------------------------------
(* The time that is answered. *)

(* A picker the user has not changed shows the time the pickers took over. *)
UntouchedShowStart ==
  proposed => \A p \in Pickers \ touched : pick[p] = idleTime

TimeInv ==
  /\ pick \in [Pickers -> TimesOfDay]
  /\ open => answer = NoAnswer
  /\ UntouchedShowStart
  /\ UntouchedKeepsStart

(* Each radio button but the last one has a picker.                        *)
LEMMA PickersOfRadios ==
  /\ DOMAIN PickerOf = Radios \ {"IGNORE"}
  /\ \A r \in DOMAIN PickerOf : PickerOf[r] \in Pickers
BY DEF PickerOf, Radios, Pickers

(* A dialog that is not open has not answered.                             *)
LEMMA InitTimeInv == Init => TimeInv
BY DEF Init, TimeInv, UntouchedShowStart, UntouchedKeepsStart, Pickers, NoAnswer

(* An answer is read off the pickers, and asked for anew with the dialog.  *)
LEMMA NextKeepsTimeInv ==
  ASSUME TimeInv, [Next]_vars
  PROVE  TimeInv'
  <1>. USE DEF TimeInv, UntouchedShowStart, UntouchedKeepsStart
  <1>1. CASE ShowIdleDlg
    <2>1. PICK now \in TimesOfDay, time \in TimesOfDay, date \in Dates :
            /\ idleTime' = time
            /\ pick' = Proposal(now, time, date)
            /\ proposed' = DateAccepted(date)
      BY <1>1 DEF ShowIdleDlg
    <2>2. pick' \in [Pickers -> TimesOfDay] /\ UntouchedShowStart'
      BY <2>1 DEF Proposal
    <2>3. answer' = NoAnswer
      BY <1>1 DEF ShowIdleDlg
    <2>4. UntouchedKeepsStart'
      BY <2>3, PickersOfRadios DEF NoAnswer, Radios
    <2>5. QED BY <2>2, <2>3, <2>4
  <1>2. CASE ChangeTime
    <2>1. PICK t \in TimesOfDay : pick' = [pick EXCEPT ![focus] = t]
      BY <1>2 DEF ChangeTime
    <2>2. /\ focus \in Pickers /\ touched' = touched \cup {focus}
          /\ UNCHANGED <<open, idleTime, proposed, answer>>
          /\ open
      BY <1>2 DEF ChangeTime, Changed
    <2>3. pick' \in [Pickers -> TimesOfDay] /\ UntouchedShowStart'
      BY <2>1, <2>2
    <2>4. answer' = NoAnswer
      BY <2>2
    <2>5. UntouchedKeepsStart'
      BY <2>4, PickersOfRadios DEF NoAnswer, Radios
    <2>6. QED BY <2>2, <2>3, <2>4, <2>5
  <1>3. CASE OnOK
    <2>1. ~open' /\ UNCHANGED <<pick, touched, idleTime, proposed>>
      BY <1>3 DEF OnOK, Kept
    <2>2. ASSUME NEW r \in DOMAIN PickerOf, answer'.action = r
          PROVE  answer'.end = pick[PickerOf[r]]
      BY <1>3, <2>2 DEF OnOK, Answer
    <2>3. UntouchedKeepsStart'
      BY <2>1, <2>2, PickersOfRadios
    <2>4. QED BY <2>1, <2>3
  <1>4. CASE OnCancel
    <2>1. answer'.action = "IGNORE"
      BY <1>4 DEF OnCancel, Answer
    <2>2. UntouchedKeepsStart'
      BY <2>1, PickersOfRadios
    <2>3. ~open' /\ UNCHANGED <<pick, touched, idleTime, proposed>>
      BY <1>4 DEF OnCancel, Kept
    <2>4. QED BY <2>2, <2>3
  <1>5. CASE Check \/ Point \/ ChangeText \/ Move \/ UNCHANGED vars
    <2>1. UNCHANGED <<open, pick, touched, idleTime, proposed, answer>>
      BY <1>5 DEF Check, Point, ChangeText, Changed, Move, vars
    <2>2. QED BY <2>1
  <1>6. QED BY <1>1, <1>2, <1>3, <1>4, <1>5 DEF Next

(* OK without a look at the time answers that the break began when the     *)
(* user went away, on every day whose date the pickers take.               *)
THEOREM UntouchedAnswersStart == Spec => []UntouchedKeepsStart
  <1>1. TimeInv => UntouchedKeepsStart
    BY DEF TimeInv
  <1>2. QED BY <1>1, InitTimeInv, NextKeepsTimeInv, PTL DEF Spec

-----------------------------------------------------------------------------
(* The keyboard. *)

(* The places of the controls, each its own.                               *)
LEMMA Places ==
  /\ Controls = {"STOP", "IGNORE", "LOG_AND_BACK", "SWITCH", "STOP_TIME",
                 "LOG_AND_BACK_TIME", "LOG_AND_BACK_TASK", "SWITCH_TIME", "SWITCH_TASK",
                 "OK", "CANCEL"}
  /\ ZOrder["STOP"] = 1 /\ ZOrder["IGNORE"] = 2 /\ ZOrder["LOG_AND_BACK"] = 3
  /\ ZOrder["SWITCH"] = 4 /\ ZOrder["STOP_TIME"] = 5 /\ ZOrder["LOG_AND_BACK_TIME"] = 6
  /\ ZOrder["LOG_AND_BACK_TASK"] = 7 /\ ZOrder["SWITCH_TIME"] = 8
  /\ ZOrder["SWITCH_TASK"] = 9 /\ ZOrder["OK"] = 10 /\ ZOrder["CANCEL"] = 11
BY DEF Controls, ZOrder

(* A nonempty set of numbers has a least one, and of a number of things    *)
(* there is one with the least measure.                                    *)
Below == {ss \in Nat \X Nat : ss[1] < ss[2]}

(* The order of the numbers is well founded.                               *)
LEMMA LeastNumber ==
  ASSUME NEW T \in SUBSET Nat, T # {}
  PROVE  \E n \in T : \A m \in T : n <= m
  <1>1. IsWellFoundedOn(Below, Nat)
    BY NatLessThanWellFounded DEF OpToRel, Below
  <1>2. \E n \in T : \A m \in T : ~(<<m, n>> \in Below)
    BY <1>1, WFMin
  <1>3. PICK n \in T : \A m \in T : ~(<<m, n>> \in Below)
    BY <1>2
  <1>4. ASSUME NEW m \in T PROVE n <= m
    <2>1. m \in Nat /\ n \in Nat /\ ~(<<m, n>> \in Below)
      BY <1>3
    <2>2. <<m, n>> \in Nat \X Nat
      BY <2>1
    <2>3. ~(m < n)
      BY <2>1, <2>2 DEF Below
    <2>4. QED BY <2>1, <2>3
  <1>5. QED BY <1>3, <1>4

(* Of a number of things there is one with the least measure.              *)
LEMMA Least ==
  ASSUME NEW S, S # {}, NEW f, \A d \in S : f[d] \in Nat
  PROVE  \E d \in S : \A e \in S : f[d] <= f[e]
  <1>. DEFINE T == {f[d] : d \in S}
  <1>1. T \in SUBSET Nat /\ T # {}
    OBVIOUS
  <1>2. \E n \in T : \A m \in T : n <= m
    <2>. HIDE DEF T
    <2>. QED BY <1>1, LeastNumber
  <1>3. QED BY <1>2

(* The number of steps is positive, and tells the controls apart.          *)
LEMMA StepsAreNumbers ==
  ASSUME NEW c \in Controls, NEW d \in Controls
  PROVE  Steps(c, d) \in 1 .. 11
BY Places DEF Steps

(* Tab and Shift-Tab find a control from any one: c itself is a tab stop.  *)
LEMMA FocusStaysInside ==
  ASSUME NEW c \in Controls
  PROVE  Following(c) \in Controls /\ Preceding(c) \in Controls
  <1>. DEFINE S == TabStops(c)
              f == [d \in S |-> Steps(c, d)]
              g == [d \in S |-> Steps(d, c)]
  <1>1. S \subseteq Controls /\ c \in S
    BY DEF TabStops
  <1>2. \A d \in S : f[d] \in Nat /\ g[d] \in Nat
    BY <1>1, StepsAreNumbers
  <1>3. \E d \in S : \A e \in S : f[d] <= f[e]
    <2>. HIDE DEF S, f
    <2>. QED BY <1>1, <1>2, Least
  <1>4. \E d \in S : \A e \in S : g[d] <= g[e]
    <2>. HIDE DEF S, g
    <2>. QED BY <1>1, <1>2, Least
  <1>5. Following(c) \in S
    <2>1. \E d \in S : \A e \in S : Steps(c, d) <= Steps(c, e)
      BY <1>3
    <2>2. QED BY <2>1, Zenon DEF Following
  <1>6. Preceding(c) \in S
    <2>1. \E d \in S : \A e \in S : Steps(d, c) <= Steps(e, c)
      BY <1>4
    <2>2. QED BY <2>1, Zenon DEF Preceding
  <1>7. QED BY <1>1, <1>5, <1>6

(* The nearest tab stop is the one that Tab finds, and Shift-Tab the other *)
(* way round.                                                              *)
LEMMA NearestIsFound ==
  ASSUME NEW c \in Controls, NEW d \in TabStops(c)
  PROVE  /\ (\A e \in TabStops(c) \ {d} : Steps(c, d) < Steps(c, e)) => Following(c) = d
         /\ (\A e \in TabStops(c) \ {d} : Steps(d, c) < Steps(e, c)) => Preceding(c) = d
  <1>1. TabStops(c) \subseteq Controls
    BY DEF TabStops
  <1>2. \A e \in TabStops(c) : Steps(c, e) \in Nat /\ Steps(e, c) \in Nat
    BY <1>1, StepsAreNumbers
  <1>3. ASSUME \A e \in TabStops(c) \ {d} : Steps(c, d) < Steps(c, e)
        PROVE  Following(c) = d
    <2>1. \A e \in TabStops(c) : Steps(c, d) <= Steps(c, e)
      BY <1>2, <1>3
    <2>2. \A e \in TabStops(c) : Steps(c, e) <= Steps(c, d) => e = d
      BY <1>2, <1>3
    <2>3. \E e \in TabStops(c) : \A h \in TabStops(c) : Steps(c, e) <= Steps(c, h)
      BY <2>1
    <2>4. /\ Following(c) \in TabStops(c)
          /\ \A h \in TabStops(c) : Steps(c, Following(c)) <= Steps(c, h)
      BY <2>3, Zenon DEF Following
    <2>5. QED BY <2>2, <2>4
  <1>4. ASSUME \A e \in TabStops(c) \ {d} : Steps(d, c) < Steps(e, c)
        PROVE  Preceding(c) = d
    <2>1. \A e \in TabStops(c) : Steps(d, c) <= Steps(e, c)
      BY <1>2, <1>4
    <2>2. \A e \in TabStops(c) : Steps(e, c) <= Steps(d, c) => e = d
      BY <1>2, <1>4
    <2>3. \E e \in TabStops(c) : \A h \in TabStops(c) : Steps(e, c) <= Steps(h, c)
      BY <2>1
    <2>4. /\ Preceding(c) \in TabStops(c)
          /\ \A h \in TabStops(c) : Steps(Preceding(c), c) <= Steps(h, c)
      BY <2>3, Zenon DEF Preceding
    <2>5. QED BY <2>2, <2>4
  <1>5. QED BY <1>3, <1>4

(* Once around from Cancel is the button that is checked; the two tasks    *)
(* stand right after their times.                                          *)
LEMMA AroundTheDialog ==
  ASSUME NEW r \in Radios, checked = {r}
  PROVE  /\ Following("OK") = "CANCEL" /\ Preceding("CANCEL") = "OK"
         /\ Following("CANCEL") = r /\ Preceding(r) = "CANCEL"
         /\ Following("LOG_AND_BACK_TIME") = "LOG_AND_BACK_TASK"
         /\ Preceding("LOG_AND_BACK_TASK") = "LOG_AND_BACK_TIME"
         /\ Following("SWITCH_TIME") = "SWITCH_TASK"
         /\ Preceding("SWITCH_TASK") = "SWITCH_TIME"
  <1>1. Following("OK") = "CANCEL" /\ Preceding("CANCEL") = "OK"
    <2>1. "OK" \in Controls /\ "CANCEL" \in TabStops("OK")
      BY Places DEF TabStops, Radios
    <2>2. "CANCEL" \in Controls /\ "OK" \in TabStops("CANCEL")
      BY Places DEF TabStops, Radios
    <2>3. \A e \in TabStops("OK") \ {"CANCEL"} : Steps("OK", "CANCEL") < Steps("OK", e)
      BY Places DEF TabStops, Steps, Radios
    <2>4. \A e \in TabStops("CANCEL") \ {"OK"} : Steps("OK", "CANCEL") < Steps(e, "CANCEL")
      BY Places DEF TabStops, Steps, Radios
    <2>5. QED BY <2>1, <2>2, <2>3, <2>4, NearestIsFound
  <1>2. Following("CANCEL") = r /\ Preceding(r) = "CANCEL"
    <2>1. "CANCEL" \in Controls /\ r \in TabStops("CANCEL")
      BY Places DEF TabStops, Radios
    <2>2. r \in Controls /\ "CANCEL" \in TabStops(r)
      BY Places DEF TabStops, Radios
    <2>3. \A e \in TabStops("CANCEL") \ {r} : Steps("CANCEL", r) < Steps("CANCEL", e)
      BY Places DEF TabStops, Steps, Radios
    <2>4. \A e \in TabStops(r) \ {"CANCEL"} : Steps("CANCEL", r) < Steps(e, r)
      BY Places DEF TabStops, Steps, Radios
    <2>5. QED BY <2>1, <2>2, <2>3, <2>4, NearestIsFound
  <1>3. /\ Following("LOG_AND_BACK_TIME") = "LOG_AND_BACK_TASK"
        /\ Preceding("LOG_AND_BACK_TASK") = "LOG_AND_BACK_TIME"
    <2>1. "LOG_AND_BACK_TIME" \in Controls /\ "LOG_AND_BACK_TASK" \in TabStops("LOG_AND_BACK_TIME")
      BY Places DEF TabStops, Radios
    <2>2. "LOG_AND_BACK_TASK" \in Controls /\ "LOG_AND_BACK_TIME" \in TabStops("LOG_AND_BACK_TASK")
      BY Places DEF TabStops, Radios
    <2>3. \A e \in TabStops("LOG_AND_BACK_TIME") \ {"LOG_AND_BACK_TASK"} :
            Steps("LOG_AND_BACK_TIME", "LOG_AND_BACK_TASK") < Steps("LOG_AND_BACK_TIME", e)
      BY Places DEF TabStops, Steps, Radios
    <2>4. \A e \in TabStops("LOG_AND_BACK_TASK") \ {"LOG_AND_BACK_TIME"} :
            Steps("LOG_AND_BACK_TIME", "LOG_AND_BACK_TASK") < Steps(e, "LOG_AND_BACK_TASK")
      BY Places DEF TabStops, Steps, Radios
    <2>5. QED BY <2>1, <2>2, <2>3, <2>4, NearestIsFound
  <1>4. /\ Following("SWITCH_TIME") = "SWITCH_TASK"
        /\ Preceding("SWITCH_TASK") = "SWITCH_TIME"
    <2>1. "SWITCH_TIME" \in Controls /\ "SWITCH_TASK" \in TabStops("SWITCH_TIME")
      BY Places DEF TabStops, Radios
    <2>2. "SWITCH_TASK" \in Controls /\ "SWITCH_TIME" \in TabStops("SWITCH_TASK")
      BY Places DEF TabStops, Radios
    <2>3. \A e \in TabStops("SWITCH_TIME") \ {"SWITCH_TASK"} :
            Steps("SWITCH_TIME", "SWITCH_TASK") < Steps("SWITCH_TIME", e)
      BY Places DEF TabStops, Steps, Radios
    <2>4. \A e \in TabStops("SWITCH_TASK") \ {"SWITCH_TIME"} :
            Steps("SWITCH_TIME", "SWITCH_TASK") < Steps(e, "SWITCH_TASK")
      BY Places DEF TabStops, Steps, Radios
    <2>5. QED BY <2>1, <2>2, <2>3, <2>4, NearestIsFound
  <1>5. QED BY <1>1, <1>2, <1>3, <1>4

(* Where the two keys go from the controls of the row that is checked.     *)
LEMMA AlongTheRow ==
  ASSUME NEW r \in Radios, checked = {r}, NEW c \in Controls, InRow(c)
  PROVE  InRow(Tab(c)) /\ ShiftTab(Tab(c)) = c
  <1>1. GotoDlgCtrlMaybeRadio(r) = r
    <2>1. ZOrder[r] <= ZOrder[r]
      BY Places DEF Radios
    <2>2. \E s \in checked : \A q \in checked : ZOrder[s] <= ZOrder[q]
      BY <2>1
    <2>3. (CHOOSE s \in checked : \A q \in checked : ZOrder[s] <= ZOrder[q]) \in checked
      BY <2>2, Zenon
    <2>4. QED BY <2>3 DEF GotoDlgCtrlMaybeRadio
  <1>2. c \in {"OK", "CANCEL", r} \/ (c \in DOMAIN RadioOf /\ RadioOf[c] = r)
    BY DEF InRow
  <1>3. DOMAIN RadioOf = {"STOP_TIME", "LOG_AND_BACK_TIME", "LOG_AND_BACK_TASK",
                          "SWITCH_TIME", "SWITCH_TASK"}
    BY DEF RadioOf
  <1>4. CASE c = "CANCEL"
    <2>1. Tab(c) = r /\ ShiftTab(r) = "CANCEL"
      BY <1>4, AroundTheDialog DEF Tab, ShiftTab, Radios
    <2>2. QED BY <1>4, <2>1 DEF InRow
  <1>5. CASE c = "OK"
    <2>1. Tab(c) = "CANCEL" /\ ShiftTab("CANCEL") = "OK"
      BY <1>5, AroundTheDialog DEF Tab, ShiftTab
    <2>2. QED BY <1>5, <2>1 DEF InRow
  <1>6. CASE r = "STOP"
    <2>1. c = "STOP" => Tab(c) = "STOP_TIME" /\ ShiftTab("STOP_TIME") = "STOP"
      BY DEF Tab, ShiftTab
    <2>2. c = "STOP_TIME" => Tab(c) = "OK" /\ ShiftTab("OK") = "STOP_TIME"
      BY <1>6 DEF Tab, ShiftTab, FromOK
    <2>3. c \in {"OK", "CANCEL", "STOP", "STOP_TIME"}
      BY <1>2, <1>3, <1>6 DEF RadioOf
    <2>4. InRow("OK") /\ InRow("STOP_TIME")
      BY <1>3, <1>6 DEF InRow, RadioOf
    <2>5. QED BY <1>4, <1>5, <2>1, <2>2, <2>3, <2>4
  <1>7. CASE r = "IGNORE"
    <2>1. c = "IGNORE" => Tab(c) = "OK" /\ ShiftTab("OK") = "IGNORE"
      BY <1>1, <1>7 DEF Tab, ShiftTab, FromOK
    <2>2. c \in {"OK", "CANCEL", "IGNORE"}
      BY <1>2, <1>3, <1>7 DEF RadioOf
    <2>3. InRow("OK")
      BY DEF InRow
    <2>4. QED BY <1>4, <1>5, <2>1, <2>2, <2>3
  <1>8. CASE r = "LOG_AND_BACK"
    <2>1. c = "LOG_AND_BACK" => /\ Tab(c) = "LOG_AND_BACK_TIME"
                                /\ ShiftTab("LOG_AND_BACK_TIME") = "LOG_AND_BACK"
      BY <1>1, <1>8 DEF Tab, ShiftTab, RadioOf
    <2>2. c = "LOG_AND_BACK_TIME" => /\ Tab(c) = "LOG_AND_BACK_TASK"
                                     /\ ShiftTab("LOG_AND_BACK_TASK") = "LOG_AND_BACK_TIME"
      BY AroundTheDialog DEF Tab, ShiftTab
    <2>3. c = "LOG_AND_BACK_TASK" => Tab(c) = "OK" /\ ShiftTab("OK") = "LOG_AND_BACK_TASK"
      BY <1>8 DEF Tab, ShiftTab, FromOK
    <2>4. c \in {"OK", "CANCEL", "LOG_AND_BACK", "LOG_AND_BACK_TIME", "LOG_AND_BACK_TASK"}
      BY <1>2, <1>3, <1>8 DEF RadioOf
    <2>5. InRow("OK") /\ InRow("LOG_AND_BACK_TIME") /\ InRow("LOG_AND_BACK_TASK")
      BY <1>3, <1>8 DEF InRow, RadioOf
    <2>6. QED BY <1>4, <1>5, <2>1, <2>2, <2>3, <2>4, <2>5
  <1>9. CASE r = "SWITCH"
    <2>1. c = "SWITCH" => Tab(c) = "SWITCH_TIME" /\ ShiftTab("SWITCH_TIME") = "SWITCH"
      BY <1>1, <1>9 DEF Tab, ShiftTab, RadioOf
    <2>2. c = "SWITCH_TIME" => /\ Tab(c) = "SWITCH_TASK"
                               /\ ShiftTab("SWITCH_TASK") = "SWITCH_TIME"
      BY AroundTheDialog DEF Tab, ShiftTab
    <2>3. c = "SWITCH_TASK" => Tab(c) = "OK" /\ ShiftTab("OK") = "SWITCH_TASK"
      BY <1>9 DEF Tab, ShiftTab, FromOK
    <2>4. c \in {"OK", "CANCEL", "SWITCH", "SWITCH_TIME", "SWITCH_TASK"}
      BY <1>2, <1>3, <1>9 DEF RadioOf
    <2>5. InRow("OK") /\ InRow("SWITCH_TIME") /\ InRow("SWITCH_TASK")
      BY <1>3, <1>9 DEF InRow, RadioOf
    <2>6. QED BY <1>4, <1>5, <2>1, <2>2, <2>3, <2>4, <2>5
  <1>10. QED BY <1>6, <1>7, <1>8, <1>9 DEF Radios

(* While the dialog is open, Tab along the row that is checked is taken    *)
(* back by Shift-Tab, from every control of it and from OK and Cancel.     *)
THEOREM KeysAreInverse == Spec => []ShiftTabUndoesTab
  <1>1. Init => IInv
    BY InitIInv
  <1>2. IInv /\ [Next]_vars => IInv'
    BY NextKeepsIInv
  <1>3. IInv => ShiftTabUndoesTab
    BY AlongTheRow DEF IInv, ChoiceChecked, ShiftTabUndoesTab
  <1>4. QED BY <1>1, <1>2, <1>3, PTL DEF Spec

-----------------------------------------------------------------------------
(* What the variables hold. *)

(* The two keys leave the focus on a control of the dialog, whichever      *)
(* buttons are checked.                                                    *)
LEMMA KeysStayInside ==
  ASSUME checked \subseteq Radios, NEW c \in Controls
  PROVE  Tab(c) \in Controls /\ ShiftTab(c) \in Controls
  <1>1. \A d \in Controls : GotoDlgCtrlMaybeRadio(d) \in Controls
    <2>1. SUFFICES ASSUME NEW d \in Controls PROVE GotoDlgCtrlMaybeRadio(d) \in Controls
      OBVIOUS
    <2>2. CASE checked = {}
      BY <2>2 DEF GotoDlgCtrlMaybeRadio
    <2>3. CASE checked # {}
      <3>1. \A r \in checked : ZOrder[r] \in Nat
        BY Places DEF Radios
      <3>2. \E r \in checked : \A q \in checked : ZOrder[r] <= ZOrder[q]
        BY <2>3, <3>1, Least
      <3>3. GotoDlgCtrlMaybeRadio(d) \in checked
        BY <2>3, <3>2, Zenon DEF GotoDlgCtrlMaybeRadio
      <3>4. QED BY <3>3, Places DEF Radios
    <2>4. QED BY <2>2, <2>3
  <1>2. Following(c) \in Controls /\ Preceding(c) \in Controls
    BY FocusStaysInside
  <1>3. Tab(c) \in Controls
    BY <1>2, Places DEF Tab
  <1>4. \A d \in {"STOP", "IGNORE", "LOG_AND_BACK", "SWITCH"} : d \in Controls
    BY Places
  <1>5. ShiftTab(c) \in Controls
    <2>1. FromOK \in Controls
      BY <1>1, Places DEF FromOK
    <2>2. c \in {"LOG_AND_BACK_TIME", "SWITCH_TIME"} => RadioOf[c] \in Controls
      BY Places DEF RadioOf
    <2>3. QED BY <1>1, <1>2, <2>1, <2>2, Places DEF ShiftTab
  <1>6. QED BY <1>3, <1>5

(* The variables have their types while no dialog is open.                 *)
LEMMA InitTypeOK == Init => TypeOK
BY Places, IdleDialogAssumption
   DEF Init, TypeOK, Radios, Pickers, Combos, NoAnswer

(* Every step keeps the types: what is typed checks a button of the dialog *)
(* and what is shown is what it was given.                                 *)
LEMMA NextKeepsTypeOK ==
  ASSUME TypeOK, [Next]_vars
  PROVE  TypeOK'
  <1>1. /\ checked \subseteq Radios /\ focus \in Controls /\ chosen \in Radios
        /\ pick \in [Pickers -> TimesOfDay] /\ text \in [Combos -> Texts]
        /\ touched \subseteq Pickers /\ (open => answer = NoAnswer)
    BY DEF TypeOK
  <1>2. Radios \subseteq Controls
    BY Places DEF Radios
  <1>3. CASE ShowIdleDlg
    <2>1. pick' \in [Pickers -> TimesOfDay]
      BY <1>3 DEF ShowIdleDlg, Proposal
    <2>2. text' \in [Combos -> Texts]
      BY <1>3, IdleDialogAssumption DEF ShowIdleDlg
    <2>3. /\ checked' = {"STOP"} /\ focus' = "STOP" /\ touched' = {} /\ chosen' = "STOP"
          /\ answer' = NoAnswer
      BY <1>3 DEF ShowIdleDlg
    <2>4. QED BY <1>2, <2>1, <2>2, <2>3 DEF TypeOK, Radios
  <1>4. CASE Check
    BY <1>1, <1>2, <1>4 DEF Check, TypeOK
  <1>5. CASE Point
    BY <1>1, <1>5 DEF Point, TypeOK
  <1>6. ASSUME ChangeTime \/ ChangeText PROVE TypeOK'
    <2>1. focus \in Pickers \cup Combos /\ Changed(focus)
      BY <1>6 DEF ChangeTime, ChangeText
    <2>2. /\ checked' \subseteq Radios /\ chosen' \in Radios
          /\ UNCHANGED <<open, focus, answer>>
      BY <1>1, <2>1, RowsHaveRadios DEF Changed, Marked
    <2>3. pick' \in [Pickers -> TimesOfDay] /\ text' \in [Combos -> Texts]
      BY <1>1, <1>6 DEF ChangeTime, ChangeText
    <2>4. touched' \subseteq Pickers
      BY <1>1, <1>6 DEF ChangeTime, ChangeText
    <2>5. QED BY <1>1, <2>2, <2>3, <2>4 DEF TypeOK
  <1>7. CASE Move
    <2>1. focus' \in Controls
      BY <1>1, <1>7, KeysStayInside DEF Move
    <2>2. QED BY <1>1, <1>7, <2>1 DEF Move, TypeOK
  <1>8. CASE OnOK \/ OnCancel
    BY <1>1, <1>8 DEF OnOK, OnCancel, Kept, TypeOK
  <1>9. CASE UNCHANGED vars
    BY <1>1, <1>9 DEF vars, TypeOK
  <1>10. QED BY <1>3, <1>4, <1>5, <1>6, <1>7, <1>8, <1>9 DEF Next

(* The variables hold what they are declared to hold: Tab and Shift-Tab    *)
(* always find a control to go to, and there is no answer while the dialog *)
(* is open.                                                                *)
THEOREM TypeCorrect == Spec => []TypeOK
  <1>1. QED BY InitTypeOK, NextKeepsTypeOK, PTL DEF Spec
=============================================================================
