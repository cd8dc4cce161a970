-------------------------------- MODULE Schema --------------------------------
(***************************************************************************)
(* createTables of TimeLog.cpp: the three functions createTable, which      *)
(* create a table, or rebuild one that an older version of the program has  *)
(* left with fewer columns.  Each runs in one Transaction, statement by     *)
(* statement; any statement may fail and the process may end before any of  *)
(* them, and then the user starts the program again.                        *)
(***************************************************************************)
EXTENDS Naturals, Sequences, SequencesExt

CONSTANTS
  Default,   \* the value a column gets that the old table did not have
  MaxFails   \* bound: failures and ends of the process in mid-migration

ASSUME SchemaAssumption == MaxFails \in Nat

VARIABLES
  file,    \* the committed tables of timelog.db
  work,    \* the tables as the connection sees them
  phase,   \* "gone": no process; "running": in createTables; "ready": past it
  step,    \* the next statement of createTable
  todo,    \* the tables whose createTable has not returned yet
  old,     \* oldTable: the columns the SELECT found, <<>> if there is no table
  fails,   \* failures so far
  orig     \* history: the file as the older version left it

vars == <<file, work, phase, step, todo, old, fails, orig>>

Columns ==
  [Task    |-> <<"id", "name">>,
   Time    |-> <<"id", "taskID", "start", "end">>,
   Options |-> <<"id", "currentTimeID", "lastCheck", "autoTrack", "stopTimeMs",
                 "startTimeMs", "idleDuringStartTimeMs", "showBallons">>]

Indexes == [Task |-> {}, Time |-> {"start", "end"}, Options |-> {}]

Tables == DOMAIN Columns
createTables == <<"Task", "Time", "Options">>

(* A table is its columns, its rows, each of which gives every column a     *)
(* value, and the columns that have an index.                               *)
Absent == [cols |-> <<>>, rows |-> {}, idx |-> {}]
NewTable(u) == [cols |-> Columns[u], rows |-> {}, idx |-> {}]

(* What an older version left: the first n columns, some of the indexes on  *)
(* them and a row in which each column has a value of its own.              *)
OldTable(u, n, idx) ==
  IF n = 0 THEN Absent
  ELSE LET cols == SubSeq(Columns[u], 1, n)
       IN  [cols |-> cols,
            rows |-> {[c \in ToSet(cols) |-> c]},
            idx |-> idx \cap Indexes[u] \cap ToSet(cols)]

Only(main) == [main |-> main, tmp |-> Absent]

-----------------------------------------------------------------------------
(* The statements of createTable of the first table still to do. *)

t == Head(todo)

(* Whether a column is missing; and the columns INSERT INTO t(...) SELECT   *)
(* ... names: those of oldTable.                                            *)
Missing_Second == Columns[t][2] \notin ToSet(old')
Missing == \E c \in ToSet(Columns[t]) : c \notin ToSet(old')

Copied_NotTheLast == ToSet(old) \ {Columns[t][Len(Columns[t]) - 1]}
Copied_All == ToSet(Columns[t])
Copied == ToSet(old)

(* Two tables cannot have one name, and SELECT cannot name a column that is *)
(* not there: SQLite refuses the statement.                                 *)
Accepted ==
  /\ step = "rename" => work[t].tmp = Absent
  /\ step = "create" => work[t].main = Absent
  /\ step = "insert" => Copied \subseteq ToSet(work[t].tmp.cols)

At(s) == phase = "running" /\ step = s /\ Accepted

Goto(s) ==
  /\ step' = s
  /\ UNCHANGED <<file, phase, todo, fails, orig>>

Begin == At("begin") /\ Goto("select") /\ UNCHANGED <<work, old>>

Select ==
  /\ At("select")
  /\ old' = work[t].main.cols
  /\ Goto(IF old' = <<>> THEN "createNew" ELSE IF Missing THEN "rename" ELSE "index")
  /\ UNCHANGED work

(* CREATE TABLE IF NOT EXISTS *)
CreateNew ==
  /\ At("createNew")
  /\ work' = [work EXCEPT ![t].main = IF @ = Absent THEN NewTable(t) ELSE @]
  /\ Goto("index")
  /\ UNCHANGED old

(* A renamed table takes its indexes, and their names, with it. *)
Rename ==
  /\ At("rename")
  /\ work' = [work EXCEPT ![t] = [main |-> Absent, tmp |-> @.main]]
  /\ Goto("create")
  /\ UNCHANGED old

Create ==
  /\ At("create")
  /\ work' = [work EXCEPT ![t].main = NewTable(t)]
  /\ Goto("insert")
  /\ UNCHANGED old

Copy(row) ==
  [c \in ToSet(Columns[t]) |-> IF c \in Copied THEN row[c] ELSE Default]

Insert ==
  /\ At("insert")
  /\ work' = [work EXCEPT ![t].main.rows = @ \cup {Copy(row) : row \in work[t].tmp.rows}]
  /\ Goto("drop")
  /\ UNCHANGED old

Drop_Skipped == At("drop") /\ Goto("index") /\ UNCHANGED <<work, old>>
Drop ==
  /\ At("drop")
  /\ work' = [work EXCEPT ![t].tmp = Absent]
  /\ Goto("index")
  /\ UNCHANGED old

(* CREATE INDEX IF NOT EXISTS: an index of that name may be on either table. *)
Index ==
  /\ At("index")
  /\ work' = [work EXCEPT ![t].main.idx = @ \cup (Indexes[t] \ work[t].tmp.idx)]
  /\ Goto("commit")
  /\ UNCHANGED old

Commit ==
  /\ At("commit")
  /\ file' = work
  /\ todo' = Tail(todo)
  /\ step' = "begin"
  /\ phase' = IF Tail(todo) = <<>> THEN "ready" ELSE phase
  /\ UNCHANGED <<work, old, fails, orig>>

-----------------------------------------------------------------------------
(* Starts, failures and ends. *)

Open ==
  /\ phase = "gone"
  /\ phase' = "running"
  /\ step' = "begin"
  /\ todo' = createTables
  /\ UNCHANGED <<file, work, old, fails, orig>>

(* The process ends; what was not committed is rolled back: by the          *)
(* destructor of Transaction, or by SQLite when the file is opened again.   *)
Gone_NoTransaction ==
  /\ phase' = "gone"
  /\ todo' = <<>>
  /\ file' = work
  /\ UNCHANGED <<work, step, old, orig>>
Gone_NotRolledBack ==
  /\ phase' = "gone"
  /\ todo' = <<>>
  /\ UNCHANGED <<file, work, step, old, orig>>
Gone ==
  /\ phase' = "gone"
  /\ todo' = <<>>
  /\ work' = file
  /\ UNCHANGED <<file, step, old, orig>>

(* A statement throws, or the process ends, before createTables returns.    *)
(* Under the message box nothing runs: there is no window yet.              *)
Fail ==
  /\ phase = "running"
  /\ Accepted => fails < MaxFails
  /\ fails' = IF Accepted THEN fails + 1 ELSE fails
  /\ Gone

Close ==
  /\ phase = "ready"
  /\ Gone
  /\ UNCHANGED fails

Init ==
  /\ \E n \in [Tables -> 0 .. 8], idx \in SUBSET Indexes.Time :
       /\ \A u \in Tables : n[u] <= Len(Columns[u])
       /\ orig = [u \in Tables |-> OldTable(u, n[u], idx)]
  /\ file = [u \in Tables |-> Only(orig[u])]
  /\ work = file
  /\ phase = "gone"
  /\ step = "begin"
  /\ todo = <<>>
  /\ old = <<>>
  /\ fails = 0

Statement ==
  Begin \/ Select \/ CreateNew \/ Rename \/ Create \/ Insert \/ Drop \/ Index \/ Commit

Next == Statement \/ Open \/ Fail \/ Close

(* The program executes its next statement, and the user starts it again.   *)
Fairness == WF_vars(Statement) /\ WF_vars(Open)

Spec == Init /\ [][Next]_vars /\ Fairness

-----------------------------------------------------------------------------
(* Properties. *)

(* The variables hold what they are declared to hold, and only inside a     *)
(* transaction do the tables differ from the file.                          *)
TypeOK ==
  /\ \A u \in Tables : \A d \in {file[u].main, work[u].main, work[u].tmp} :
       /\ d.cols \in {SubSeq(Columns[u], 1, n) : n \in 0 .. Len(Columns[u])}
       /\ \A row \in d.rows : DOMAIN row = ToSet(d.cols)
       /\ d.idx \subseteq Indexes[u] \cap ToSet(d.cols)
  /\ phase \in {"gone", "running", "ready"}
  /\ todo \in {<<>>} \cup {SubSeq(createTables, n, 3) : n \in 1 .. 3}
  /\ phase = "running" <=> todo # <<>>
  /\ work # file => phase = "running" /\ step \notin {"begin", "select"}
  /\ fails \in 0 .. MaxFails

(* Whatever failed, and wherever, the file holds each table as the older    *)
(* version left it or as this one wants it, and no table that is half       *)
(* rebuilt: the next start finds nothing it cannot deal with.               *)
NeverHalfRebuilt ==
  \A u \in Tables :
    /\ file[u].tmp = Absent
    /\ file[u].main.cols \in {orig[u].cols, Columns[u]}

(* No value the older version stored is lost, or moved to another column.   *)
NothingLost ==
  \A u \in Tables : \A row \in orig[u].rows :
    \E r \in file[u].main.rows : \A c \in DOMAIN row : r[c] = row[c]

(* When createTables has returned, the positions by which constructors read *)
(* columns and store() writes them are right: every table has all columns,  *)
(* in their order, and the indexes, which the rebuilding took away.         *)
Complete(u) == file[u].main.cols = Columns[u] /\ file[u].main.idx = Indexes[u]

ReadyIsComplete == phase = "ready" => \A u \in Tables : Complete(u)

(* After finitely many failures, and as long as the user starts the program *)
(* again, the file is complete for good: no failure leaves it in a state in *)
(* which createTable fails for ever.                                        *)
Migrated == <>[](\A u \in Tables : Complete(u))
=============================================================================
