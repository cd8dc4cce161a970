------------------------------ MODULE IdleDialog ------------------------------
(***************************************************************************)
(* The dialog that asks what a break was: the radio buttons, time pickers   *)
(* and combo boxes of IDD_IDLE, IdleWndProc, which keeps them together, and *)
(* ProcessIdleMessage, which moves the focus.  What the program does with   *)
(* the answer is in TimeLog.                                                *)
(***************************************************************************)
EXTENDS Naturals

CONSTANTS
  TimesOfDay,   \* times of the day the pickers can show
  Texts,        \* texts a combo box can hold
  NoText,       \* the empty one
  Dates         \* days of the year, as <<tm_mon, tm_mday>>

ASSUME IdleDialogAssumption ==
  /\ NoText \in Texts
  /\ Dates \subseteq (0 .. 11) \X (1 .. 31)

VARIABLES
  open,      \* hIdleDlg # NULL
  checked,   \* the radio buttons that are checked
  focus,     \* the control that has the focus
  pick,      \* what the pickers show
  text,      \* what the combo boxes hold
  idleTime,  \* data->idleTime: its time of day
  proposed,  \* history: the pickers took idleTime over
  touched,   \* history: the pickers the user has changed
  chosen,    \* history: the choice the user has made last
  answer     \* history: the last answer: by which button, what, until when, which task

vars == <<open, checked, focus, pick, text, idleTime, proposed, touched, chosen, answer>>

-----------------------------------------------------------------------------
(* The controls, and their places in the order of WorkTimeLog.rc. *)

Radios == {"STOP", "IGNORE", "LOG_AND_BACK", "SWITCH"}
Pickers == {"STOP_TIME", "LOG_AND_BACK_TIME", "SWITCH_TIME"}
Combos == {"LOG_AND_BACK_TASK", "SWITCH_TASK"}

ZOrder ==
  [STOP |-> 1, IGNORE |-> 2, LOG_AND_BACK |-> 3, SWITCH |-> 4, STOP_TIME |-> 5,
   LOG_AND_BACK_TIME |-> 6, LOG_AND_BACK_TASK |-> 7, SWITCH_TIME |-> 8,
   SWITCH_TASK |-> 9, OK |-> 10, CANCEL |-> 11]

Controls == DOMAIN ZOrder

RadioOf ==
  [STOP_TIME |-> "STOP", LOG_AND_BACK_TIME |-> "LOG_AND_BACK",
   LOG_AND_BACK_TASK |-> "LOG_AND_BACK", SWITCH_TIME |-> "SWITCH",
   SWITCH_TASK |-> "SWITCH"]

PickerOf == [STOP |-> "STOP_TIME", LOG_AND_BACK |-> "LOG_AND_BACK_TIME", SWITCH |-> "SWITCH_TIME"]
ComboOf == [LOG_AND_BACK |-> "LOG_AND_BACK_TASK", SWITCH |-> "SWITCH_TASK"]

NoAnswer == [button |-> "none", action |-> "none", end |-> 0, task |-> NoText]

-----------------------------------------------------------------------------
(* WM_INITDIALOG *)

(* The month is given to the pickers as tm_mon, one less than SYSTEMTIME    *)
(* has it: in January, and on days the month before does not have, the      *)
(* date is not valid and a picker goes on to show the time it was made at.  *)
(* (In a year that is no leap year.)                                        *)
DaysIn(month) ==
  CASE month = 2 -> 28
    [] month \in {4, 6, 9, 11} -> 30
    [] OTHER -> 31

DateAccepted(date) == LET month == date[1] IN month >= 1 /\ date[2] <= DaysIn(month)

Proposal_NotSwitch(now, time, date) ==
  [c \in Pickers |-> IF DateAccepted(date) /\ c # "SWITCH_TIME" THEN time ELSE now]
Proposal(now, time, date) ==
  [c \in Pickers |-> IF DateAccepted(date) THEN time ELSE now]

ShowIdleDlg ==
  /\ ~open
  /\ open' = TRUE
  /\ \E now \in TimesOfDay, time \in TimesOfDay, date \in Dates :
       /\ idleTime' = time
       /\ pick' = Proposal(now, time, date)
       /\ proposed' = DateAccepted(date)
  /\ text' = [c \in Combos |-> NoText]
  /\ checked' = {"STOP"}
  /\ focus' = "STOP"
  /\ touched' = {}
  /\ chosen' = "STOP"
  /\ answer' = NoAnswer

-----------------------------------------------------------------------------
(* What the user does to the controls. *)

(* A click, the space bar or an arrow key: BS_AUTORADIOBUTTON unchecks the  *)
(* others of the group by itself.                                           *)
Check ==
  /\ open
  /\ \E r \in Radios : checked' = {r} /\ focus' = r /\ chosen' = r
  /\ UNCHANGED <<open, pick, text, idleTime, proposed, touched, answer>>

(* The mouse takes the focus to a control that is no radio button.          *)
Point ==
  /\ open
  /\ focus' \in Controls \ Radios
  /\ UNCHANGED <<open, checked, pick, text, idleTime, proposed, touched, chosen, answer>>

(* DTN_DATETIMECHANGE, CBN_EDITCHANGE and CBN_SELCHANGE check the button of *)
(* the control's row and uncheck the other three.                           *)
Unchecked_NotSwitch(c) ==
  CASE c = "STOP_TIME" -> {"IGNORE", "LOG_AND_BACK"}
    [] OTHER -> Radios \ {RadioOf[c]}
Unchecked(c) == Radios \ {RadioOf[c]}

Marked_WrongRow(c) == IF c = "SWITCH_TASK" THEN "LOG_AND_BACK" ELSE RadioOf[c]
Marked(c) == RadioOf[c]

Changed(c) ==
  /\ checked' = (checked \ Unchecked(c)) \cup {Marked(c)}
  /\ chosen' = RadioOf[c]
  /\ UNCHANGED <<open, focus, idleTime, proposed, answer>>

ChangeTime ==
  /\ open /\ focus \in Pickers
  /\ \E t \in TimesOfDay \ {pick[focus]} : pick' = [pick EXCEPT ![focus] = t]
  /\ touched' = touched \cup {focus}
  /\ Changed(focus)
  /\ UNCHANGED text

ChangeText ==
  /\ open /\ focus \in Combos
  /\ \E n \in Texts \ {text[focus]} : text' = [text EXCEPT ![focus] = n]
  /\ Changed(focus)
  /\ UNCHANGED <<pick, touched>>

-----------------------------------------------------------------------------
(* ProcessIdleMessage: Tab and Shift-Tab, and IsDialogMessage for the rest. *)

(* The tab stops, and the control that has the focus, which may be none: an *)
(* unchecked radio button is none.                                          *)
TabStops(c) == {d \in Controls : d \in Radios \ {c} => d \in checked}

(* How far d comes after c, around the end.                                 *)
Steps(c, d) ==
  IF ZOrder[d] > ZOrder[c] THEN ZOrder[d] - ZOrder[c] ELSE ZOrder[d] + 11 - ZOrder[c]

Following(c) ==
  CHOOSE d \in TabStops(c) : \A e \in TabStops(c) : Steps(c, d) <= Steps(c, e)
Preceding(c) ==
  CHOOSE d \in TabStops(c) : \A e \in TabStops(c) : Steps(d, c) <= Steps(e, c)

(* The first button that is checked.                                        *)
GotoDlgCtrlMaybeRadio(c) ==
  IF checked = {} THEN c
  ELSE CHOOSE r \in checked : \A s \in checked : ZOrder[r] <= ZOrder[s]

Tab(c) ==
  CASE c = "STOP" -> "STOP_TIME"
    [] c = "LOG_AND_BACK" -> "LOG_AND_BACK_TIME"
    [] c = "SWITCH" -> "SWITCH_TIME"
    [] c \in {"STOP_TIME", "IGNORE", "LOG_AND_BACK_TASK", "SWITCH_TASK"} -> "OK"
    [] OTHER -> Following(c)

FromOK_First ==
  CASE "STOP" \in checked -> "STOP_TIME"
    [] "IGNORE" \in checked -> GotoDlgCtrlMaybeRadio("IGNORE")
    [] "LOG_AND_BACK" \in checked -> "LOG_AND_BACK_TIME"
    [] "SWITCH" \in checked -> "SWITCH_TIME"
    [] OTHER -> "OK"
FromOK ==
  CASE "STOP" \in checked -> "STOP_TIME"
    [] "IGNORE" \in checked -> GotoDlgCtrlMaybeRadio("IGNORE")
    [] "LOG_AND_BACK" \in checked -> "LOG_AND_BACK_TASK"
    [] "SWITCH" \in checked -> "SWITCH_TASK"
    [] OTHER -> "OK"

ShiftTab(c) ==
  CASE c = "STOP_TIME" -> "STOP"
    [] c \in {"LOG_AND_BACK_TIME", "SWITCH_TIME"} -> GotoDlgCtrlMaybeRadio(RadioOf[c])
    [] c = "OK" -> FromOK
    [] OTHER -> Preceding(c)

Move ==
  /\ open
  /\ focus' \in {Tab(focus), ShiftTab(focus)}
  /\ UNCHANGED <<open, checked, pick, text, idleTime, proposed, touched, chosen, answer>>

-----------------------------------------------------------------------------
(* The answers. *)

Answer(button, action) ==
  [button |-> button,
   action |-> action,
   end    |-> IF action \in DOMAIN PickerOf THEN pick[PickerOf[action]] ELSE idleTime,
   task   |-> IF action \in DOMAIN ComboOf THEN text[ComboOf[action]] ELSE NoText]

Kept == UNCHANGED <<checked, focus, pick, text, idleTime, proposed, touched, chosen>>

(* The four buttons are asked in turn. *)
CheckedAction ==
  CASE "STOP" \in checked -> "STOP"
    [] "IGNORE" \in checked -> "IGNORE"
    [] "LOG_AND_BACK" \in checked -> "LOG_AND_BACK"
    [] "SWITCH" \in checked -> "SWITCH"
    [] OTHER -> "none"

(* The button, and Return wherever the focus is, on Cancel too. *)
OnOK ==
  /\ open
  /\ answer' = Answer("OK", CheckedAction)
  /\ open' = FALSE
  /\ Kept

(* Cancel, Escape and WM_CLOSE *)
OnCancel_StaysOpen ==
  /\ open
  /\ answer' = Answer("CANCEL", "IGNORE")
  /\ UNCHANGED open
  /\ Kept
OnCancel ==
  /\ open
  /\ answer' = Answer("CANCEL", "IGNORE")
  /\ open' = FALSE
  /\ Kept

Init ==
  /\ open = FALSE /\ checked = {} /\ focus = "STOP"
  /\ pick \in {[c \in Pickers |-> t] : t \in TimesOfDay}
  /\ text = [c \in Combos |-> NoText]
  /\ idleTime \in TimesOfDay
  /\ proposed = FALSE /\ touched = {} /\ chosen = "STOP" /\ answer = NoAnswer

Next ==
  ShowIdleDlg \/ Check \/ Point \/ ChangeTime \/ ChangeText \/ Move \/ OnOK \/ OnCancel

Spec == Init /\ [][Next]_vars
-----------------------------------------------------------------------------
(* Properties. *)

(* The variables hold what they are declared to hold, and an answer ends    *)
(* the dialog.                                                              *)
TypeOK ==
  /\ checked \subseteq Radios
  /\ focus \in Controls
  /\ pick \in [Pickers -> TimesOfDay]
  /\ text \in [Combos -> Texts]
  /\ touched \subseteq Pickers
  /\ chosen \in Radios
  /\ open => answer = NoAnswer

(* Whatever the user clicks, types and tabs to, one button is checked.      *)
OneChecked == open => \E r \in Radios : checked = {r}

(* OK does what the user chose last, be it by a button or by what he typed  *)
(* beside it; closing the dialog in any other way keeps counting.           *)
AnswerIsLastChoice ==
  /\ answer.button = "OK" => answer.action = chosen
  /\ answer.button = "CANCEL" => answer.action = "IGNORE"

(* A break whose time the user has not changed starts when he went away, on *)
(* the days on which the pickers take the date.                             *)
UntouchedKeepsStart ==
  \A r \in DOMAIN PickerOf :
    answer.action = r /\ PickerOf[r] \notin touched /\ proposed => answer.end = idleTime

(* Along the row that is checked, Shift-Tab takes Tab back, and neither     *)
(* leaves the row but for OK and Cancel.                                    *)
InRow(c) ==
  \/ c \in {"OK", "CANCEL"} \cup checked
  \/ c \in DOMAIN RadioOf /\ RadioOf[c] \in checked

ShiftTabUndoesTab ==
  open => \A c \in Controls : InRow(c) => InRow(Tab(c)) /\ ShiftTab(Tab(c)) = c
=============================================================================
