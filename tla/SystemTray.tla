------------------------------ MODULE SystemTray ------------------------------
(***************************************************************************)
(* The icon in the notification area: CSystemTray, as far as the program    *)
(* uses it, the clicks on the icon (WM_TRAY_NOTIFY and TIMER_LCLICK of      *)
(* MainWndProc) and the shell that shows it, which may die and come back.   *)
(* Time passes in ticks; a click takes up to MaxDelay of them to arrive.    *)
(***************************************************************************)
EXTENDS Integers, Sequences

CONSTANTS
  DoubleClickTime,   \* GetDoubleClickTime()
  Margin,            \* the 100 ms MainWndProc adds to it
  MaxDelay,          \* the longest the shell takes to pass a click on
  MaxPresses,        \* bound: presses of the left button
  MaxStarts,         \* bound: starts of the program
  MaxRestarts        \* bound: restarts of the shell

ASSUME SystemTrayAssumption ==
  /\ {DoubleClickTime, Margin, MaxDelay, MaxPresses, MaxStarts, MaxRestarts} \subseteq Nat
  /\ MaxDelay < Margin

VARIABLES
  shell,       \* "up" or "down"
  icons,       \* the processes whose icon the shell lists
  restarts,    \* restarts of the shell so far
  created,     \* TaskbarCreated is on its way to m_hWnd
  process,     \* the number of the process
  running,     \* whether it runs
  flags,       \* m_bHidden, m_bRemoved and m_bShowIconPending
  visible,     \* WS_VISIBLE of the main window
  sinceDown,   \* the shell's: ticks since a press that a double click can follow
  passing,     \* clicks the shell has not posted yet, and their age
  inbox,       \* messages posted to the main window
  lclick,      \* ticks until TIMER_LCLICK is due, or Off
  presses,     \* presses so far
  doubled,     \* history: the presses the next one made a double click
  armedBy,     \* history: the press that set TIMER_LCLICK
  owed,        \* history: what the clicks have asked for and not got
  killed,      \* history: the processes that did not end by themselves
  gone         \* history: the shell has restarted since the icon was added

trayVars == <<shell, icons, restarts, created, flags, gone>>
pressVars == <<sinceDown, presses, doubled>>
clickVars == <<visible, passing, inbox, lclick, armedBy, owed, pressVars>>
vars == <<trayVars, clickVars, process, running, killed>>

Off == -1
Never == DoubleClickTime + 1   \* too long ago for a double click

Command(id) == [event |-> id, press |-> 0]   \* WM_COMMAND

Listed == running /\ process \in icons

NotCreated == [m_bHidden |-> TRUE, m_bRemoved |-> TRUE, m_bShowIconPending |-> FALSE]

-----------------------------------------------------------------------------
(* CSystemTray *)

(* Create: its result is that of NIM_ADD, and _tWinMain returns at once     *)
(* when it is FALSE.                                                        *)
Continues_Always == TRUE
Continues == shell = "up"

Start ==
  /\ ~running
  /\ process < MaxStarts
  /\ process' = process + 1
  /\ LET bResult == shell = "up"
     IN  /\ icons' = IF bResult THEN icons \cup {process'} ELSE icons
         /\ flags' = [m_bHidden |-> ~bResult, m_bRemoved |-> ~bResult,
                      m_bShowIconPending |-> ~bResult]
  /\ running' = Continues
  /\ visible' = FALSE
  /\ gone' = FALSE
  /\ sinceDown' = Never
  /\ UNCHANGED <<shell, restarts, created, passing, inbox, lclick, armedBy, owed,
                 presses, doubled, killed>>

(* RemoveIcon, in the destructor. *)
RemoveIcon_Nothing == UNCHANGED <<icons, flags>>
RemoveIcon ==
  LET deletes == ~flags.m_bRemoved /\ shell = "up" /\ process \in icons
  IN  /\ icons' = IF deletes THEN icons \ {process} ELSE icons
      /\ flags' = [m_bHidden |-> flags.m_bHidden \/ deletes,
                   m_bRemoved |-> flags.m_bRemoved \/ deletes,
                   m_bShowIconPending |-> FALSE]

(* The windows are gone: messages and timers with them. *)
NoWindows ==
  /\ running' = FALSE
  /\ created' = FALSE
  /\ passing' = <<>>
  /\ inbox' = <<>>
  /\ lclick' = Off
  /\ owed' = {}

(* OnTaskbarCreated: InstallIconPending, for an icon that is pending and    *)
(* not hidden; the icon is pending only when it could not be created, and   *)
(* is hidden then.                                                          *)
TaskbarCreated ==
  /\ running /\ created
  /\ created' = FALSE
  /\ IF ~flags.m_bShowIconPending \/ flags.m_bHidden
       THEN UNCHANGED <<flags, icons>>
       ELSE LET added == shell = "up"
            IN  /\ icons' = IF added THEN icons \cup {process} ELSE icons
                /\ flags' = [flags EXCEPT !.m_bHidden = ~added,
                                          !.m_bShowIconPending = added]
  /\ UNCHANGED <<shell, restarts, gone, clickVars, process, running, killed>>

-----------------------------------------------------------------------------
(* The user and the shell. *)

(* A press close enough to the one before is a double click; the one after  *)
(* a double click begins anew.                                              *)
Press ==
  /\ Listed /\ shell = "up"
  /\ presses < MaxPresses
  /\ presses' = presses + 1
  /\ LET double == sinceDown <= DoubleClickTime
         event  == IF double THEN "dblclk" ELSE "down"
     IN  /\ sinceDown' = IF double THEN Never ELSE 0
         /\ doubled' = IF double THEN doubled \cup {presses} ELSE doubled
         /\ passing' = Append(passing, [event |-> event, press |-> presses', age |-> 0])
         /\ owed' = IF double THEN (owed \ {"balloon"}) \cup {"toggle"}
                              ELSE owed \cup {"balloon"}
  /\ UNCHANGED <<trayVars, visible, inbox, lclick, armedBy, process, running, killed>>

Pass ==
  /\ running /\ passing # <<>>
  /\ inbox' = Append(inbox, [event |-> Head(passing).event, press |-> Head(passing).press])
  /\ passing' = Tail(passing)
  /\ UNCHANGED <<trayVars, visible, lclick, armedBy, owed, pressVars, process, running,
                 killed>>

(* An item of the menu that the right button brings up. *)
Choose ==
  /\ Listed /\ shell = "up" /\ inbox = <<>>
  /\ \E item \in {"showHide", "exit"} : inbox' = <<Command(item)>>
  /\ UNCHANGED <<trayVars, visible, passing, lclick, armedBy, owed, pressVars, process,
                 running, killed>>

Tick ==
  /\ \A i \in DOMAIN passing : passing[i].age < MaxDelay
  /\ passing' = [i \in DOMAIN passing |-> [passing[i] EXCEPT !.age = @ + 1]]
  /\ sinceDown' = IF sinceDown = Never THEN Never ELSE sinceDown + 1
  /\ lclick' = IF lclick > 0 THEN lclick - 1 ELSE lclick
  /\ UNCHANGED <<trayVars, visible, inbox, armedBy, owed, presses, doubled, process,
                 running, killed>>

(* The icons live in the shell, and so do clicks it has not passed on. *)
ShellDies ==
  /\ shell = "up"
  /\ restarts < MaxRestarts
  /\ shell' = "down"
  /\ restarts' = restarts + 1
  /\ icons' = {}
  /\ gone' = TRUE
  /\ passing' = <<>>
  /\ sinceDown' = Never
  /\ owed' = {}
  /\ UNCHANGED <<created, flags, visible, inbox, lclick, armedBy, presses, doubled,
                 process, running, killed>>

ShellStarts ==
  /\ shell = "down"
  /\ shell' = "up"
  /\ created' = running
  /\ UNCHANGED <<icons, restarts, flags, gone, clickVars, process, running, killed>>

(* The shell removes the icon of a dead process when the mouse moves over it. *)
DropGhost ==
  /\ \E p \in icons : (p # process \/ ~running) /\ icons' = icons \ {p}
  /\ UNCHANGED <<shell, restarts, created, flags, gone, clickVars, process, running, killed>>

Kill ==
  /\ running
  /\ killed' = killed \cup {process}
  /\ NoWindows
  /\ UNCHANGED <<shell, icons, restarts, flags, gone, visible, armedBy, pressVars, process>>

-----------------------------------------------------------------------------
(* MainWndProc *)

Receive(event) == running /\ inbox # <<>> /\ Head(inbox).event = event

Unmoved == UNCHANGED <<trayVars, passing, pressVars, process, running, killed>>

ClickTimer_NoMargin == DoubleClickTime
ClickTimer == DoubleClickTime + Margin

OnButtonDown_NotWhileVisible ==
  /\ Receive("down")
  /\ inbox' = Tail(inbox)
  /\ lclick' = IF visible THEN lclick ELSE ClickTimer
  /\ armedBy' = Head(inbox).press
  /\ UNCHANGED <<visible, owed>> /\ Unmoved
OnButtonDown ==
  /\ Receive("down")
  /\ inbox' = Tail(inbox)
  /\ lclick' = ClickTimer
  /\ armedBy' = Head(inbox).press
  /\ UNCHANGED <<visible, owed>> /\ Unmoved

(* OnTrayNotification posts the default item of the menu, the first one. *)
OnDoubleClick ==
  /\ Receive("dblclk")
  /\ lclick' = Off
  /\ inbox' = Append(Tail(inbox), Command("showHide"))
  /\ UNCHANGED <<visible, armedBy, owed>> /\ Unmoved

OnShowHide ==
  /\ Receive("showHide")
  /\ inbox' = Tail(inbox)
  /\ visible' = ~visible
  /\ owed' = owed \ {"toggle"}
  /\ UNCHANGED <<lclick, armedBy>> /\ Unmoved

OnMinimize ==
  /\ running /\ visible /\ inbox = <<>>
  /\ visible' = FALSE
  /\ UNCHANGED <<inbox, lclick, armedBy, owed>> /\ Unmoved

(* WM_CLOSE, WM_DESTROY and the destructors *)
OnExit ==
  /\ Receive("exit")
  /\ RemoveIcon
  /\ NoWindows
  /\ UNCHANGED <<shell, restarts, gone, visible, armedBy, pressVars, process, killed>>

(* TIMER_LCLICK; Windows makes a WM_TIMER only when nothing is posted.      *)
(* ShowBalloon works on an icon the shell lists.                            *)
OnClickTimer ==
  /\ running /\ lclick = 0 /\ inbox = <<>>
  /\ lclick' = Off
  /\ owed' = IF Listed THEN owed \ {"balloon"} ELSE owed
  /\ UNCHANGED <<visible, inbox, armedBy>> /\ Unmoved

-----------------------------------------------------------------------------
Init ==
  /\ shell = "up" /\ icons = {} /\ restarts = 0 /\ created = FALSE
  /\ process = 0 /\ running = FALSE /\ flags = NotCreated /\ visible = FALSE
  /\ sinceDown = Never /\ passing = <<>> /\ inbox = <<>> /\ lclick = Off
  /\ presses = 0 /\ doubled = {} /\ armedBy = 0
  /\ owed = {} /\ killed = {} /\ gone = FALSE

Handle == OnButtonDown \/ OnDoubleClick \/ OnShowHide \/ OnExit

Next ==
  \/ Start \/ TaskbarCreated
  \/ Press \/ Pass \/ Choose \/ Tick \/ ShellDies \/ ShellStarts \/ DropGhost \/ Kill
  \/ Handle \/ OnMinimize \/ OnClickTimer

(* The message loop runs, the shell passes clicks on, time passes; and the  *)
(* loop, each time it finds nothing posted, looks at the timers before the  *)
(* user can post again: not for ever is the user the faster one.            *)
Fairness ==
  WF_vars(Pass) /\ WF_vars(Tick) /\ WF_vars(Handle) /\ SF_vars(OnClickTimer)

Spec == Init /\ [][Next]_vars /\ Fairness

-----------------------------------------------------------------------------
(* Properties. *)

Events == {"down", "dblclk", "showHide", "exit"}

(* The variables hold what they are declared to hold, an icon is hidden     *)
(* just when it is removed, and none is pending while the program runs.     *)
TypeOK ==
  /\ shell \in {"up", "down"}
  /\ icons \subseteq 1 .. process
  /\ \A i \in DOMAIN inbox : inbox[i] \in [event : Events, press : 0 .. presses]
  /\ \A i \in DOMAIN passing : 
       passing[i] \in [event : {"down", "dblclk"}, press : 1 .. presses, age : 0 .. MaxDelay]
  /\ lclick \in Off .. ClickTimer
  /\ owed \subseteq {"balloon", "toggle"}
  /\ flags.m_bHidden = flags.m_bRemoved
  /\ running => ~flags.m_bShowIconPending /\ ~flags.m_bRemoved
  /\ lclick # Off \/ inbox # <<>> \/ passing # <<>> => running

(* The balloon is the answer to a single click: a press that became the     *)
(* first half of a double click shows none, however late the shell passes   *)
(* the second half on and however late the thread gets to it.               *)
QuietDoubleClick == [][OnClickTimer /\ Listed => armedBy \notin doubled]_vars

(* A click on the icon is answered, unless the shell or the program ends:   *)
(* the last single click by a balloon, a double click by showing or hiding  *)
(* the window.                                                              *)
ClickAnswered == \A a \in {"balloon", "toggle"} : a \in owed ~> a \notin owed

(* The shell lists the icon of the running program, unless the shell has    *)
(* restarted meanwhile, and otherwise only icons of processes that were     *)
(* killed: no end of the program by itself leaves one behind.               *)
IconsOfTheLiving ==
  /\ running /\ ~gone => process \in icons
  /\ icons \subseteq killed \cup (IF running THEN {process} ELSE {})

(* "This is called whenever the taskbar is created (eg after explorer       *)
(* crashes and restarts": the icon is back when OnTaskbarCreated returns.   *)
IconReturns == [][TaskbarCreated => process \in icons']_vars
=============================================================================
