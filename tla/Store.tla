-------------------------------- MODULE Store --------------------------------
(***************************************************************************)
(* One store() of a Task, a Time or an Options object, step by step, over   *)
(* a connection whose statements can fail: the class Transaction of         *)
(* SQLite.cpp and the three functions store(db, obj), which are the same    *)
(* but for the columns.  TimeLog takes a store to be one step; this module  *)
(* says when it is.                                                         *)
(*                                                                          *)
(* An exception unwinds to the end of _tWinMain, whose message box goes on  *)
(* dispatching timers and windows' messages: handlers run and store under   *)
(* it.  An exception out of one of those finds no handler any more, and     *)
(* the process ends.                                                        *)
(***************************************************************************)
EXTENDS Naturals, Sequences

CONSTANTS
  Objects,   \* the objects the program may hold in memory
  Values,    \* what their fields may say
  None       \* not an object and not a value

ASSUME StoreAssumption == None \notin Objects /\ None \notin Values

VARIABLES
  file,   \* the committed rows of timelog.db; a row's id is its position
  work,   \* the rows as the connection sees them
  open,   \* is a transaction open, that is: is autocommit off?
  phase,  \* "gone": no process; "running"; "boxed": the message box is up
  id,     \* the id of each object, 0 for the code's -1
  ret,    \* history: the value of each object's last store that returned
  call,   \* the store() being executed
  busy    \* history: a COMMIT of this process failed with SQLITE_BUSY

vars == <<file, work, open, phase, id, ret, call, busy>>

Row == [who : Objects, val : Values]

NoCall == [pc |-> "ready", who |-> None, val |-> None,
           valid |-> FALSE, finished |-> FALSE, newId |-> 0]

(* INSERT OR REPLACE.  A new row's id is the largest one plus 1.  An id is  *)
(* never one that no row has (IdsAreTrue), so a replacement replaces.       *)
Put(d, i, row) == IF i > 0 THEN [d EXCEPT ![i] = row] ELSE Append(d, row)
LastInsertRowID(d, i) == IF i > 0 THEN i ELSE Len(d) + 1

CallRow_NotBound == [who |-> call.who, val |-> None]
CallRow == [who |-> call.who, val |-> call.val]

-----------------------------------------------------------------------------
(* The process. *)

HasRow(o) == \E i \in DOMAIN file : file[i].who = o
RowOf(o) == CHOOSE i \in DOMAIN file : file[i].who = o

(* The program opens the file and queries its objects. *)
Open ==
  /\ phase = "gone"
  /\ phase' = "running"
  /\ id' = [o \in Objects |-> IF HasRow(o) THEN RowOf(o) ELSE 0]
  /\ ret' = [o \in Objects |-> IF HasRow(o) THEN file[RowOf(o)].val ELSE None]
  /\ UNCHANGED <<file, work, open, call, busy>>

(* The process ends; SQLite rolls back what was not committed. *)
ProcessEnds ==
  /\ phase' = "gone"
  /\ open' = FALSE
  /\ work' = file
  /\ id' = [o \in Objects |-> 0]
  /\ ret' = [o \in Objects |-> None]
  /\ call' = NoCall
  /\ busy' = FALSE
  /\ UNCHANGED file

(* A kill, a logoff, or the end of _tWinMain. *)
End == phase # "gone" /\ ProcessEnds

(* The exception leaves store(). *)
Throw ==
  \/ /\ phase = "running"
     /\ phase' = "boxed"
     /\ call' = NoCall
     /\ UNCHANGED <<file, id, ret, busy>>
  \/ phase = "boxed" /\ ProcessEnds

-----------------------------------------------------------------------------
(* store(db, obj) *)

(* The constructor of Transaction. *)
Begin(o, v) ==
  /\ phase # "gone"
  /\ call.pc = "ready"
  /\ call' = [NoCall EXCEPT !.pc = "begun", !.who = o, !.val = v, !.valid = ~open]
  /\ open' = TRUE
  /\ UNCHANGED <<file, work, phase, id, ret, busy>>

(* Its BEGIN fails: a constructor that throws is not followed by a          *)
(* destructor.                                                              *)
BeginFails ==
  /\ phase # "gone"
  /\ call.pc = "ready"
  /\ ~open
  /\ Throw
  /\ phase = "running" => UNCHANGED <<work, open>>

Insert_SetsId ==
  /\ call.pc = "begun"
  /\ work' = Put(work, id[call.who], CallRow)
  /\ call' = [call EXCEPT !.pc = "inserted",
                          !.newId = LastInsertRowID(work, id[call.who])]
  /\ id' = [id EXCEPT ![call.who] = LastInsertRowID(work, @)]
  /\ UNCHANGED <<file, open, phase, ret, busy>>
Insert ==
  /\ call.pc = "begun"
  /\ work' = Put(work, id[call.who], CallRow)
  /\ call' = [call EXCEPT !.pc = "inserted",
                          !.newId = LastInsertRowID(work, id[call.who])]
  /\ UNCHANGED <<file, open, phase, id, ret, busy>>

(* Most errors undo the statement; a full disk, an I/O error or lack of     *)
(* memory can make SQLite roll back the whole transaction by itself.        *)
InsertFails ==
  /\ call.pc = "begun"
  /\ call' = [call EXCEPT !.pc = "thrown"]
  /\ \/ UNCHANGED <<work, open>>
     \/ work' = file /\ open' = FALSE
  /\ UNCHANGED <<file, phase, id, ret, busy>>

(* trans.commit(), which does nothing in a transaction that is not valid. *)
Commit_AnyTransaction ==
  /\ call.pc = "inserted"
  /\ call' = [call EXCEPT !.pc = "committed", !.finished = TRUE]
  /\ file' = work
  /\ open' = FALSE
  /\ UNCHANGED <<work, phase, id, ret, busy>>
Commit ==
  /\ call.pc = "inserted"
  /\ call' = [call EXCEPT !.pc = "committed", !.finished = TRUE]
  /\ IF call.valid THEN file' = work /\ open' = FALSE
                   ELSE UNCHANGED <<file, open>>
  /\ UNCHANGED <<work, phase, id, ret, busy>>

(* A COMMIT refused with SQLITE_BUSY (a reader has the file) leaves the     *)
(* transaction open; any other error rolls it back.                         *)
CommitFails ==
  /\ call.pc = "inserted"
  /\ call.valid
  /\ call' = [call EXCEPT !.pc = "thrown", !.finished = TRUE]
  /\ \/ busy' = TRUE /\ UNCHANGED <<work, open>>
     \/ work' = file /\ open' = FALSE /\ UNCHANGED busy
  /\ UNCHANGED <<file, phase, id, ret>>

(* obj->id = id, and the return. *)
Report ==
  /\ call.pc = "committed"
  /\ id' = [id EXCEPT ![call.who] = call.newId]
  /\ ret' = [ret EXCEPT ![call.who] = call.val]
  /\ call' = NoCall
  /\ UNCHANGED <<file, work, open, phase, busy>>

(* The destructor of Transaction while an exception unwinds the stack.  It  *)
(* rolls back a transaction that is valid and not finished; when SQLite has *)
(* done so already, ROLLBACK fails, and an exception thrown by a destructor *)
(* then ends the process.                                                   *)
MustRollBack == call.valid /\ ~call.finished

Destroy_NoRollback ==
  /\ call.pc = "thrown"
  /\ Throw
  /\ phase = "running" => UNCHANGED <<work, open>>
Destroy ==
  /\ call.pc = "thrown"
  /\ \/ ~MustRollBack /\ Throw /\ (phase = "running" => UNCHANGED <<work, open>>)
     \/ MustRollBack /\ open /\ Throw /\ work' = file /\ open' = FALSE
     \/ MustRollBack /\ ~open /\ ProcessEnds

-----------------------------------------------------------------------------
Init ==
  /\ file = <<>>
  /\ work = <<>>
  /\ open = FALSE
  /\ phase = "gone"
  /\ id = [o \in Objects |-> 0]
  /\ ret = [o \in Objects |-> None]
  /\ call = NoCall
  /\ busy = FALSE

Next ==
  \/ Open \/ End
  \/ \E o \in Objects, v \in Values : Begin(o, v)
  \/ BeginFails
  \/ Insert \/ InsertFails
  \/ Commit \/ CommitFails
  \/ Report \/ Destroy

Spec == Init /\ [][Next]_vars

-----------------------------------------------------------------------------
(* Properties. *)

(* The variables hold what they are declared to hold. *)
TypeOK ==
  /\ file \in Seq(Row)
  /\ work \in Seq(Row)
  /\ open \in BOOLEAN
  /\ phase \in {"gone", "running", "boxed"}
  /\ id \in [Objects -> Nat]
  /\ ret \in [Objects -> Values \cup {None}]
  /\ call \in [pc : {"ready", "begun", "inserted", "committed", "thrown"},
               who : Objects \cup {None}, val : Values \cup {None},
               valid : BOOLEAN, finished : BOOLEAN, newId : Nat]
  /\ busy \in BOOLEAN

(* An object whose store() returned is in the file as it was then, whatever *)
(* stores of it or of others have failed since; only a COMMIT refused with  *)
(* SQLITE_BUSY breaks this promise.                                         *)
Kept(o) == id[o] \in DOMAIN file /\ file[id[o]] = [who |-> o, val |-> ret[o]]

Durable ==
  ~busy => \A o \in Objects :
             ret[o] # None /\ ~(call.pc = "committed" /\ call.who = o) => Kept(o)

(* A transaction outlives the store() that began it only when its COMMIT    *)
(* was refused, and then the message box is up: the stores that join it and *)
(* are lost with it are those of the handlers that run under the box.       *)
LeftOpenOnlyUnderTheBox ==
  open /\ call.pc = "ready" => busy /\ phase = "boxed"

(* An object's id is that of its own row, whatever has been rolled back:    *)
(* otherwise its next INSERT OR REPLACE would overwrite another object.     *)
IdsAreTrue ==
  call.pc # "thrown" =>
    \A o \in Objects : id[o] > 0 => id[o] \in DOMAIN work /\ work[id[o]].who = o

(* The file goes from one store's result to the next one's: it never takes  *)
(* two stores at once, nor part of one, nor one that threw.                 *)
OneStoreAtATime ==
  [][file' # file => /\ file' = Put(file, id[call.who], CallRow)
                     /\ call'.pc = "committed"]_vars
=============================================================================
