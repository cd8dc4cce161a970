----------------------------- MODULE SchemaProofs -----------------------------
(* createTables, proved for any number of failures: what the file holds     *)
(* between and inside the transactions, and that no statement is refused.   *)
EXTENDS Schema, SequenceTheorems, TLAPS

-----------------------------------------------------------------------------
(* The inductive invariant. *)

(* A table of the shape "cols": each row gives each column a value.         *)
Shape(u, d, cols) ==
  /\ d = [cols |-> d.cols, rows |-> d.rows, idx |-> d.idx]
  /\ d.cols = cols
  /\ \A row \in d.rows : DOMAIN row = ToSet(cols)
  /\ d.idx \subseteq Indexes[u] \cap ToSet(cols)

(* The values of the older version are there. *)
Keeps(u, d) ==
  \A row \in orig[u].rows : \E r \in d.rows : \A c \in DOMAIN row : r[c] = row[c]

OldCols(u) == {SubSeq(Columns[u], 1, n) : n \in 0 .. Len(Columns[u])}

OrigOK ==
  \A u \in Tables :
    /\ orig[u].cols \in OldCols(u)
    /\ Shape(u, orig[u], orig[u].cols)
    /\ orig[u].cols = <<>> => orig[u] = Absent

(* A table as it is outside of transactions: the old columns or the new.    *)
Whole(u, T) ==
  /\ T = [main |-> T.main, tmp |-> T.tmp]
  /\ T.tmp = Absent
  /\ Keeps(u, T.main)
  /\ T.main.cols = <<>> => T.main = Absent
  /\ \E cols \in {orig[u].cols, Columns[u]} : Shape(u, T.main, cols)

Rebuilt(u, T) ==
  /\ T = [main |-> T.main, tmp |-> T.tmp]
  /\ T.tmp = Absent
  /\ Keeps(u, T.main)
  /\ Shape(u, T.main, Columns[u])

(* What the transaction has made of table "u" before each of its statements *)
Before(u) ==
  /\ step \in {"begin", "select"} => work[u] = file[u]
  /\ step = "createNew" => work[u] = file[u] /\ file[u].main.cols = <<>>
  /\ step \in {"rename", "create", "insert", "drop"} =>
       /\ old = file[u].main.cols
       /\ old = orig[u].cols
  /\ step = "rename" => work[u] = file[u]
  /\ step = "create" => work[u] = [main |-> Absent, tmp |-> file[u].main]
  /\ step = "insert" => work[u] = [main |-> NewTable(u), tmp |-> file[u].main]
  /\ step = "drop" => /\ work[u] = [main |-> work[u].main, tmp |-> work[u].tmp]
                      /\ work[u].tmp = file[u].main
                      /\ Keeps(u, work[u].main)
                      /\ Shape(u, work[u].main, Columns[u])
  /\ step \in {"index", "commit"} => Rebuilt(u, work[u])
  /\ step = "commit" => work[u].main.idx = Indexes[u]

Steps ==
  {"begin", "select", "createNew", "rename", "create", "insert", "drop", "index", "commit"}

Todos == {createTables, <<"Time", "Options">>, <<"Options">>, <<>>}

Transaction ==
  phase = "running" => Before(t) /\ \A u \in Tables \ {t} : work[u] = file[u]

Done == phase # "gone" => \A u \in Tables \ ToSet(todo) : Complete(u)

IInv ==
  /\ file = [u \in Tables |-> file[u]]
  /\ work = [u \in Tables |-> work[u]]
  /\ \A u \in Tables : Whole(u, file[u])
  /\ OrigOK
  /\ phase \in {"gone", "running", "ready"}
  /\ step \in Steps
  /\ todo \in Todos
  /\ phase = "running" <=> todo # <<>>
  /\ phase # "running" => work = file
  /\ Transaction
  /\ Done
  /\ fails \in 0 .. MaxFails

StatementsAccepted == phase = "running" => Accepted

-----------------------------------------------------------------------------
(* The tables of the program. *)

Names ==
  {"id", "name", "taskID", "start", "end", "currentTimeID", "lastCheck", "autoTrack",
   "stopTimeMs", "startTimeMs", "idleDuringStartTimeMs", "showBallons"}

(* No two columns of a table have one name, and its indexes are on columns. *)
LEMMA TheTables ==
  /\ Tables = {"Task", "Time", "Options"}
  /\ \A u \in Tables :
       /\ Columns[u] \in Seq(Names)
       /\ Columns[u] # <<>>
       /\ \A i, j \in DOMAIN Columns[u] : Columns[u][i] = Columns[u][j] => i = j
       /\ Indexes[u] \subseteq ToSet(Columns[u])
  <1>1. Tables = {"Task", "Time", "Options"}
    BY DEF Tables, Columns
  <1>2. ASSUME NEW u \in Tables
        PROVE  /\ Columns[u] \in Seq(Names)
               /\ Columns[u] # <<>>
               /\ \A i, j \in DOMAIN Columns[u] : Columns[u][i] = Columns[u][j] => i = j
    <2>1. CASE u = "Task"
      BY <2>1 DEF Columns, Names
    <2>2. CASE u = "Time"
      <3>. DEFINE s == <<"id", "taskID", "start", "end">>
      <3>1. Columns[u] = s
        BY <2>2 DEF Columns
      <3>2. s \in Seq(Names) /\ s # <<>> /\ DOMAIN s = 1 .. 4
        BY DEF Names
      <3>3. s[1] = "id" /\ s[2] = "taskID" /\ s[3] = "start" /\ s[4] = "end"
        OBVIOUS
      <3>. HIDE DEF s
      <3>4. \A i, j \in 1 .. 4 : s[i] = s[j] => i = j
        BY <3>3
      <3>5. QED BY <3>1, <3>2, <3>4
    <2>3. CASE u = "Options"
      <3>. DEFINE s == <<"id", "currentTimeID", "lastCheck", "autoTrack", "stopTimeMs",
                         "startTimeMs", "idleDuringStartTimeMs", "showBallons">>
      <3>1. Columns[u] = s
        BY <2>3 DEF Columns
      <3>2. s \in Seq(Names) /\ s # <<>> /\ DOMAIN s = 1 .. 8
        BY DEF Names
      <3>3. /\ s[1] = "id" /\ s[2] = "currentTimeID" /\ s[3] = "lastCheck"
            /\ s[4] = "autoTrack" /\ s[5] = "stopTimeMs" /\ s[6] = "startTimeMs"
            /\ s[7] = "idleDuringStartTimeMs" /\ s[8] = "showBallons"
        OBVIOUS
      <3>. HIDE DEF s
      <3>4. \A i, j \in 1 .. 8 : s[i] = s[j] => i = j
        BY <3>3
      <3>5. QED BY <3>1, <3>2, <3>4
    <2>4. QED BY <1>1, <2>1, <2>2, <2>3
  <1>3. ASSUME NEW u \in Tables
        PROVE  Indexes[u] \subseteq ToSet(Columns[u])
    BY <1>1 DEF Columns, Indexes, ToSet
  <1>4. QED BY <1>1, <1>2, <1>3

(* The columns of an old table are the first ones of the new one. *)
LEMMA OldColumns ==
  ASSUME NEW u \in Tables, NEW cols \in OldCols(u)
  PROVE  /\ cols \in Seq(Names)
         /\ ToSet(cols) \subseteq ToSet(Columns[u])
         /\ (\A c \in ToSet(Columns[u]) : c \in ToSet(cols)) => cols = Columns[u]
  <1>1. PICK n \in 0 .. Len(Columns[u]) : cols = SubSeq(Columns[u], 1, n)
    BY DEF OldCols
  <1>2. Columns[u] \in Seq(Names) /\ Len(Columns[u]) \in Nat
        /\ DOMAIN Columns[u] = 1 .. Len(Columns[u])
    BY TheTables, LenProperties
  <1>3. /\ cols \in Seq(Names)
        /\ Len(cols) = n
        /\ \A i \in 1 .. n : cols[i] = Columns[u][i]
        /\ DOMAIN cols = 1 .. n
    BY <1>1, <1>2
  <1>4. ToSet(cols) \subseteq ToSet(Columns[u])
    BY <1>2, <1>3 DEF ToSet
  <1>5. ASSUME \A c \in ToSet(Columns[u]) : c \in ToSet(cols)
        PROVE  cols = Columns[u]
    <2>1. Len(Columns[u]) \in DOMAIN Columns[u]
      BY <1>2, TheTables, EmptySeq
    <2>2. PICK i \in 1 .. n : Columns[u][Len(Columns[u])] = Columns[u][i]
      BY <1>3, <1>5, <2>1 DEF ToSet
    <2>3. i = Len(Columns[u])
      BY <1>2, <2>1, <2>2, TheTables
    <2>4. n = Len(Columns[u])
      BY <1>2, <2>3
    <2>5. QED BY <1>2, <1>3, <2>4
  <1>6. QED BY <1>3, <1>4, <1>5

-----------------------------------------------------------------------------
(* The statements. *)

(* While createTables runs there is a first table still to do. *)
LEMMA FirstToDo ==
  ASSUME todo \in Todos, todo # <<>>
  PROVE  /\ t \in Tables
         /\ t \in ToSet(todo)
         /\ Tail(todo) \in Todos
         /\ ToSet(Tail(todo)) = ToSet(todo) \ {t}
  <1>1. CASE todo = createTables
    BY <1>1, TheTables DEF t, Todos, createTables, ToSet
  <1>2. CASE todo = <<"Time", "Options">>
    BY <1>2, TheTables DEF t, Todos, createTables, ToSet
  <1>3. CASE todo = <<"Options">>
    BY <1>3, TheTables DEF t, Todos, createTables, ToSet
  <1>4. QED BY <1>1, <1>2, <1>3 DEF Todos

(* A statement inside a transaction concerns one table, and not the file.  *)
LEMMA StatementKeepsIInv ==
  ASSUME IInv, phase = "running", NEW s \in Steps, Goto(s),
         work' = [work EXCEPT ![t] = work'[t]],
         Before(t)'
  PROVE  IInv'
  <1>1. UNCHANGED <<file, phase, todo, fails, orig>> /\ step' = s
    BY DEF Goto
  <1>2. t' = t /\ t \in Tables
    BY <1>1, FirstToDo DEF IInv, t
  <1>3. work' = [u \in Tables |-> work'[u]] /\ \A u \in Tables \ {t} : work'[u] = work[u]
    BY <1>2 DEF IInv
  <1>4. Transaction'
    BY <1>1, <1>2, <1>3 DEF IInv, Transaction
  <1>5. (\A u \in Tables : Whole(u, file[u]))' /\ OrigOK'
    BY <1>1 DEF IInv, Whole, Keeps, OrigOK
  <1>6. Done'
    BY <1>1 DEF IInv, Done, Complete
  <1>7. QED BY <1>1, <1>3, <1>4, <1>5, <1>6 DEF IInv

(* A table that is rebuilt stays so while its transaction goes on. *)
LEMMA RebuiltNow ==
  ASSUME orig' = orig, t' = t, Rebuilt(t, work'[t])
  PROVE  Rebuilt(t, work[t])'
BY DEF Rebuilt, Keeps

(* BEGIN and the look at the columns, which may find that some are missing. *)
LEMMA BeginKeepsIInv ==
  ASSUME IInv, Begin
  PROVE  IInv'
  <1>1. /\ phase = "running" /\ step = "begin" /\ Goto("select")
        /\ work' = work /\ file' = file /\ step' = "select" /\ t' = t
    BY DEF Begin, At, Goto, t
  <1>2. work[t] = file[t]
    BY <1>1 DEF IInv, Transaction, Before
  <1>3. Before(t)'
    BY <1>1, <1>2 DEF Before
  <1>4. work' = [work EXCEPT ![t] = work'[t]]
    BY <1>1 DEF IInv
  <1>5. QED BY <1>1, <1>3, <1>4, StatementKeepsIInv DEF Steps

(* SELECT finds the columns an older version left, or all of them.         *)
LEMMA SelectKeepsIInv ==
  ASSUME IInv, Select
  PROVE  IInv'
  <1>. DEFINE s == IF old' = <<>> THEN "createNew" ELSE IF Missing THEN "rename" ELSE "index"
  <1>1. /\ phase = "running" /\ step = "select"
        /\ old' = work[t].main.cols /\ Goto(s) /\ work' = work
    BY DEF Select, At
  <1>2. file' = file /\ orig' = orig /\ step' = s /\ t' = t
    BY <1>1 DEF Goto, t
  <1>3. t \in Tables
    BY <1>1, FirstToDo DEF IInv
  <1>4. work[t] = file[t] /\ Whole(t, file[t])
    BY <1>1, <1>3 DEF IInv, Transaction, Before
  <1>5. /\ old' \in {orig[t].cols, Columns[t]}
        /\ orig[t].cols \in OldCols(t)
        /\ Shape(t, file[t].main, old')
        /\ old' = file[t].main.cols
    BY <1>1, <1>3, <1>4 DEF Whole, Shape, IInv, OrigOK
  <1>6. Missing => old' # Columns[t]
    BY DEF Missing
  <1>7. ~Missing => old' = Columns[t]
    BY <1>3, <1>5, OldColumns DEF Missing
  <1>8. ~Missing => Rebuilt(t, work[t])
    BY <1>4, <1>5, <1>7 DEF Whole, Rebuilt
  <1>. HIDE DEF Missing
  <1>9. Before(t)'
    <2>1. CASE old' = <<>>
      BY <1>1, <1>2, <1>4, <1>5, <2>1 DEF Before
    <2>2. CASE old' # <<>> /\ Missing
      BY <1>1, <1>2, <1>4, <1>5, <1>6, <2>2 DEF Before
    <2>3. CASE old' # <<>> /\ ~Missing
      <3>1. Rebuilt(t, work[t])'
        BY <1>1, <1>2, <1>8, <2>3 DEF Rebuilt, Keeps
      <3>2. QED BY <1>1, <1>2, <2>3, <3>1 DEF Before
    <2>4. QED BY <2>1, <2>2, <2>3
  <1>10. work' = [work EXCEPT ![t] = work'[t]]
    BY <1>1 DEF IInv
  <1>11. s \in Steps
    BY DEF Steps
  <1>12. QED BY <1>1, <1>9, <1>10, <1>11, StatementKeepsIInv

(* A table that was not there is made as this version wants it. *)
LEMMA CreateNewKeepsIInv ==
  ASSUME IInv, CreateNew
  PROVE  IInv'
  <1>1. /\ phase = "running" /\ step = "createNew" /\ Goto("index")
        /\ work' = [work EXCEPT ![t].main = IF @ = Absent THEN NewTable(t) ELSE @]
    BY DEF CreateNew, At
  <1>2. orig' = orig /\ step' = "index" /\ t' = t /\ file' = file
    BY <1>1 DEF Goto, t
  <1>3. t \in Tables
    BY <1>1, FirstToDo DEF IInv
  <1>4. work[t] = file[t] /\ Whole(t, file[t]) /\ file[t].main.cols = <<>>
    BY <1>1, <1>3 DEF IInv, Transaction, Before
  <1>5. work[t] = [main |-> Absent, tmp |-> Absent]
    BY <1>4 DEF Whole
  <1>6. work'[t] = [main |-> NewTable(t), tmp |-> Absent]
    BY <1>1, <1>3, <1>5 DEF IInv
  <1>7. orig[t] = Absent
    <2>1. file[t].main.cols \in {orig[t].cols, Columns[t]}
      BY <1>4 DEF Whole, Shape
    <2>2. Columns[t] # <<>>
      BY <1>3, TheTables
    <2>3. orig[t].cols = <<>>
      BY <1>4, <2>1, <2>2
    <2>4. QED BY <1>3, <2>3 DEF IInv, OrigOK
  <1>8. Rebuilt(t, work[t])'
    <2>1. Shape(t, NewTable(t), Columns[t])
      BY DEF Shape, NewTable
    <2>2. Keeps(t, NewTable(t))
      BY <1>7 DEF Keeps, Absent
    <2>3. work'[t].main = NewTable(t) /\ work'[t].tmp = Absent
      BY <1>6
    <2>4. Rebuilt(t, work'[t])
      BY <1>6, <2>1, <2>2, <2>3 DEF Rebuilt
    <2>5. QED BY <1>2, <2>4, RebuiltNow
  <1>9. Before(t)'
    BY <1>2, <1>8 DEF Before
  <1>10. work' = [work EXCEPT ![t] = work'[t]]
    BY <1>1, <1>3 DEF IInv
  <1>11. QED BY <1>1, <1>9, <1>10, StatementKeepsIInv DEF Steps

(* An old table is put aside, with its rows. *)
LEMMA RenameKeepsIInv ==
  ASSUME IInv, Rename
  PROVE  IInv'
  <1>1. /\ phase = "running" /\ step = "rename" /\ Goto("create") /\ old' = old
        /\ work' = [work EXCEPT ![t] = [main |-> Absent, tmp |-> @.main]]
    BY DEF Rename, At
  <1>2. orig' = orig /\ step' = "create" /\ t' = t /\ file' = file
    BY <1>1 DEF Goto, t
  <1>3. t \in Tables
    BY <1>1, FirstToDo DEF IInv
  <1>4. work[t] = file[t] /\ old = file[t].main.cols /\ old = orig[t].cols
    BY <1>1 DEF IInv, Transaction, Before
  <1>5. work'[t] = [main |-> Absent, tmp |-> file[t].main]
    BY <1>1, <1>3, <1>4 DEF IInv
  <1>6. Before(t)'
    BY <1>1, <1>2, <1>4, <1>5 DEF Before
  <1>7. work' = [work EXCEPT ![t] = work'[t]]
    BY <1>1, <1>3 DEF IInv
  <1>8. QED BY <1>1, <1>6, <1>7, StatementKeepsIInv DEF Steps

(* CREATE TABLE makes an empty table beside the renamed one.               *)
LEMMA CreateKeepsIInv ==
  ASSUME IInv, Create
  PROVE  IInv'
  <1>1. /\ phase = "running" /\ step = "create" /\ Goto("insert") /\ old' = old
        /\ work' = [work EXCEPT ![t].main = NewTable(t)]
    BY DEF Create, At
  <1>2. orig' = orig /\ step' = "insert" /\ t' = t /\ file' = file
    BY <1>1 DEF Goto, t
  <1>3. t \in Tables
    BY <1>1, FirstToDo DEF IInv
  <1>4. /\ work[t] = [main |-> Absent, tmp |-> file[t].main]
        /\ old = file[t].main.cols /\ old = orig[t].cols
    BY <1>1 DEF IInv, Transaction, Before
  <1>5. work'[t] = [main |-> NewTable(t), tmp |-> file[t].main]
    BY <1>1, <1>3, <1>4 DEF IInv
  <1>6. Before(t)'
    BY <1>1, <1>2, <1>4, <1>5 DEF Before
  <1>7. work' = [work EXCEPT ![t] = work'[t]]
    BY <1>1, <1>3 DEF IInv
  <1>8. QED BY <1>1, <1>6, <1>7, StatementKeepsIInv DEF Steps

(* The copy of a row gives every column a value, the old ones their own.   *)
LEMMA CopyKeepsValues ==
  ASSUME NEW row, DOMAIN row = ToSet(old)
  PROVE  /\ DOMAIN Copy(row) = ToSet(Columns[t])
         /\ \A c \in ToSet(Columns[t]) \cap ToSet(old) : Copy(row)[c] = row[c]
BY DEF Copy, Copied

(* INSERT copies every value into the column of its name.                  *)
LEMMA InsertKeepsIInv ==
  ASSUME IInv, Insert
  PROVE  IInv'
  <1>1. /\ phase = "running" /\ step = "insert" /\ Goto("drop") /\ old' = old
        /\ work' = [work EXCEPT ![t].main.rows = @ \cup {Copy(row) : row \in work[t].tmp.rows}]
    BY DEF Insert, At
  <1>2. orig' = orig /\ step' = "drop" /\ t' = t /\ file' = file
    BY <1>1 DEF Goto, t
  <1>3. t \in Tables
    BY <1>1, FirstToDo DEF IInv
  <1>4. /\ work[t] = [main |-> NewTable(t), tmp |-> file[t].main]
        /\ old = file[t].main.cols /\ old = orig[t].cols
    BY <1>1 DEF IInv, Transaction, Before
  <1>5. /\ \A row \in file[t].main.rows : DOMAIN row = ToSet(old)
        /\ \A row \in orig[t].rows : DOMAIN row = ToSet(old)
        /\ Keeps(t, file[t].main)
        /\ ToSet(old) \subseteq ToSet(Columns[t])
    <2>1. Whole(t, file[t]) /\ Shape(t, orig[t], orig[t].cols) /\ orig[t].cols \in OldCols(t)
      BY <1>3 DEF IInv, OrigOK
    <2>2. \A row \in file[t].main.rows : DOMAIN row = ToSet(old)
      BY <1>4, <2>1 DEF Whole, Shape
    <2>3. QED BY <1>3, <1>4, <2>1, <2>2, OldColumns DEF Whole, Shape
  <1>. DEFINE copies == {Copy(row) : row \in file[t].main.rows}
  <1>6. work'[t] = [main |-> [cols |-> Columns[t], rows |-> copies, idx |-> {}],
                    tmp |-> file[t].main]
    <2>1. work[t].main = NewTable(t) /\ work[t].tmp = file[t].main
      BY <1>4
    <2>2. work'[t] = [work[t] EXCEPT !.main.rows = @ \cup {Copy(row) : row \in work[t].tmp.rows}]
      BY <1>1, <1>3 DEF IInv
    <2>3. work'[t] = [work[t] EXCEPT !.main.rows = @ \cup copies]
      BY <2>1, <2>2
    <2>. HIDE DEF copies
    <2>4. work[t].main.rows \cup copies = copies
      BY <2>1 DEF NewTable
    <2>5. work'[t] = [work[t] EXCEPT !.main.rows = copies]
      BY <2>3, <2>4
    <2>. DEFINE new == [work[t].main EXCEPT !.rows = copies]
    <2>6. new = [cols |-> Columns[t], rows |-> copies, idx |-> {}]
      BY <2>1 DEF NewTable
    <2>7. work'[t] = [work[t] EXCEPT !.main = new]
      BY <2>5
    <2>. HIDE DEF new
    <2>8. work'[t] = [main |-> new, tmp |-> file[t].main]
      BY <1>4, <2>7
    <2>9. QED BY <2>6, <2>8
  <1>7. Shape(t, work[t].main, Columns[t])'
    <2>1. \A r \in copies : DOMAIN r = ToSet(Columns[t])
      BY <1>5, CopyKeepsValues
    <2>. HIDE DEF copies
    <2>2. QED BY <1>2, <1>6, <2>1 DEF Shape
  <1>8. Keeps(t, work[t].main)'
    <2>1. ASSUME NEW row \in orig[t].rows
          PROVE  \E r \in copies : \A c \in DOMAIN row : r[c] = row[c]
      <3>1. PICK r \in file[t].main.rows : \A c \in DOMAIN row : r[c] = row[c]
        BY <1>5 DEF Keeps
      <3>2. \A c \in DOMAIN row : Copy(r)[c] = r[c]
        BY <1>5, CopyKeepsValues
      <3>3. QED BY <3>1, <3>2
    <2>. HIDE DEF copies
    <2>2. QED BY <1>2, <1>6, <2>1 DEF Keeps
  <1>. HIDE DEF copies
  <1>9. work'[t] = [main |-> work'[t].main, tmp |-> work'[t].tmp] /\ work'[t].tmp = file[t].main
    BY <1>6
  <1>10. Before(t)'
    BY <1>1, <1>2, <1>4, <1>7, <1>8, <1>9 DEF Before
  <1>11. work' = [work EXCEPT ![t] = work'[t]]
    BY <1>1, <1>3 DEF IInv
  <1>12. QED BY <1>1, <1>10, <1>11, StatementKeepsIInv DEF Steps

(* DROP TABLE takes away what has been copied.                             *)
LEMMA DropKeepsIInv ==
  ASSUME IInv, Drop
  PROVE  IInv'
  <1>1. /\ phase = "running" /\ step = "drop" /\ Goto("index")
        /\ work' = [work EXCEPT ![t].tmp = Absent]
    BY DEF Drop, At
  <1>2. orig' = orig /\ step' = "index" /\ t' = t /\ file' = file
    BY <1>1 DEF Goto, t
  <1>3. t \in Tables
    BY <1>1, FirstToDo DEF IInv
  <1>4. /\ work[t] = [main |-> work[t].main, tmp |-> work[t].tmp]
        /\ Keeps(t, work[t].main)
        /\ Shape(t, work[t].main, Columns[t])
    BY <1>1 DEF IInv, Transaction, Before
  <1>5. work'[t] = [main |-> work[t].main, tmp |-> Absent]
    BY <1>1, <1>3, <1>4 DEF IInv
  <1>6. Rebuilt(t, work[t])'
    BY <1>2, <1>4, <1>5 DEF Rebuilt, Keeps, Shape
  <1>7. Before(t)'
    BY <1>2, <1>6 DEF Before
  <1>8. work' = [work EXCEPT ![t] = work'[t]]
    BY <1>1, <1>3 DEF IInv
  <1>9. QED BY <1>1, <1>7, <1>8, StatementKeepsIInv DEF Steps

(* Dropping the old table has freed the names of its indexes. *)
LEMMA IndexKeepsIInv ==
  ASSUME IInv, Index
  PROVE  IInv'
  <1>1. /\ phase = "running" /\ step = "index" /\ Goto("commit")
        /\ work' = [work EXCEPT ![t].main.idx = @ \cup (Indexes[t] \ work[t].tmp.idx)]
    BY DEF Index, At
  <1>2. orig' = orig /\ step' = "commit" /\ t' = t /\ file' = file
    BY <1>1 DEF Goto, t
  <1>3. t \in Tables
    BY <1>1, FirstToDo DEF IInv
  <1>4. Rebuilt(t, work[t])
    BY <1>1 DEF IInv, Transaction, Before
  <1>5. PICK d : /\ d = work[t].main /\ work[t].tmp = Absent
                 /\ work[t] = [main |-> d, tmp |-> Absent]
                 /\ d = [cols |-> Columns[t], rows |-> d.rows, idx |-> d.idx]
                 /\ d.idx \subseteq Indexes[t]
                 /\ \A row \in d.rows : DOMAIN row = ToSet(Columns[t])
                 /\ Keeps(t, d)
    BY <1>4 DEF Rebuilt, Shape
  <1>6. work'[t] = [main |-> [d EXCEPT !.idx = Indexes[t]], tmp |-> Absent]
    <2>1. work[t].tmp.idx = {}
      BY <1>5 DEF Absent
    <2>2. work'[t] = [work[t] EXCEPT !.main.idx = @ \cup Indexes[t]]
      BY <1>1, <1>3, <2>1 DEF IInv
    <2>3. d.idx \cup Indexes[t] = Indexes[t]
      BY <1>5
    <2>4. QED BY <1>5, <2>2, <2>3
  <1>7. /\ work'[t].main = [cols |-> Columns[t], rows |-> d.rows, idx |-> Indexes[t]]
        /\ work'[t].tmp = Absent
        /\ work'[t] = [main |-> work'[t].main, tmp |-> work'[t].tmp]
    BY <1>5, <1>6
  <1>8. Shape(t, work'[t].main, Columns[t]) /\ Keeps(t, work'[t].main)
        /\ work'[t].main.idx = Indexes[t]
    BY <1>3, <1>5, <1>7, TheTables DEF Shape, Keeps
  <1>9. Rebuilt(t, work[t])'
    BY <1>2, <1>7, <1>8, RebuiltNow DEF Rebuilt
  <1>10. Before(t)'
    BY <1>2, <1>8, <1>9 DEF Before
  <1>11. work' = [work EXCEPT ![t] = work'[t]]
    BY <1>1, <1>3 DEF IInv
  <1>12. QED BY <1>1, <1>10, <1>11, StatementKeepsIInv DEF Steps

(* COMMIT moves the file to the table as this version wants it.            *)
LEMMA CommitKeepsIInv ==
  ASSUME IInv, Commit
  PROVE  IInv'
  <1>1. /\ phase = "running" /\ step = "commit"
        /\ file' = work /\ todo' = Tail(todo) /\ step' = "begin"
        /\ phase' = (IF Tail(todo) = <<>> THEN "ready" ELSE phase)
        /\ UNCHANGED <<work, old, fails, orig>>
    BY DEF Commit, At
  <1>2. /\ t \in Tables
        /\ Tail(todo) \in Todos
        /\ ToSet(Tail(todo)) = ToSet(todo) \ {t}
    BY <1>1, FirstToDo DEF IInv
  <1>3. /\ Rebuilt(t, work[t]) /\ work[t].main.idx = Indexes[t]
        /\ \A u \in Tables \ {t} : work[u] = file[u]
    BY <1>1 DEF IInv, Transaction, Before
  <1>4. Whole(t, work[t])
    BY <1>2, <1>3, TheTables DEF Rebuilt, Whole, Shape
  <1>5. (\A u \in Tables : Whole(u, file[u]))'
    <2>1. \A u \in Tables : Whole(u, work[u])
      BY <1>3, <1>4 DEF IInv
    <2>2. QED BY <1>1, <2>1 DEF Whole, Keeps
  <1>6. OrigOK'
    BY <1>1 DEF IInv, OrigOK
  <1>7. Done'
    <2>1. ASSUME NEW u \in Tables \ ToSet(todo') PROVE Complete(u)'
      <3>1. CASE u = t
        BY <1>1, <1>3, <3>1 DEF Complete, Rebuilt, Shape
      <3>2. CASE u # t
        <4>1. u \in Tables \ ToSet(todo)
          BY <1>1, <1>2, <2>1, <3>2
        <4>2. QED BY <1>1, <1>3, <3>2, <4>1 DEF IInv, Done, Complete
      <3>3. QED BY <3>1, <3>2
    <2>2. QED BY <2>1 DEF Done
  <1>8. Transaction'
    BY <1>1, <1>2, FirstToDo DEF Transaction, Before
  <1>9. file' = [u \in Tables |-> file'[u]] /\ work' = [u \in Tables |-> work'[u]]
    BY <1>1 DEF IInv
  <1>10. phase' \in {"gone", "running", "ready"} /\ (phase' = "running" <=> todo' # <<>>)
    BY <1>1
  <1>11. QED BY <1>1, <1>2, <1>5, <1>6, <1>7, <1>8, <1>9, <1>10 DEF IInv, Steps

-----------------------------------------------------------------------------
(* Starts, failures and ends. *)

(* A new process starts from what the file holds.                          *)
LEMMA OpenKeepsIInv ==
  ASSUME IInv, Open
  PROVE  IInv'
  <1>1. /\ phase = "gone" /\ phase' = "running" /\ step' = "begin" /\ todo' = createTables
        /\ UNCHANGED <<file, work, old, fails, orig>>
    BY DEF Open
  <1>2. ToSet(todo') = Tables /\ todo' \in Todos /\ todo' # <<>>
    BY <1>1, TheTables DEF createTables, ToSet, Todos
  <1>3. Transaction'
    BY <1>1 DEF IInv, Transaction, Before
  <1>4. Done'
    BY <1>2 DEF Done
  <1>5. (\A u \in Tables : Whole(u, file[u]))' /\ OrigOK'
    BY <1>1 DEF IInv, Whole, Keeps, OrigOK
  <1>6. QED BY <1>1, <1>2, <1>3, <1>4, <1>5 DEF IInv, Steps

(* Whatever a transaction has done so far, the rollback undoes it.         *)
LEMMA GoneKeepsIInv ==
  ASSUME IInv, Gone, fails' \in 0 .. MaxFails
  PROVE  IInv'
  <1>1. /\ phase' = "gone" /\ todo' = <<>> /\ work' = file
        /\ UNCHANGED <<file, step, old, orig>>
    BY DEF Gone
  <1>2. Transaction' /\ Done'
    BY <1>1 DEF Transaction, Done
  <1>3. (\A u \in Tables : Whole(u, file[u]))' /\ OrigOK'
    BY <1>1 DEF IInv, Whole, Keeps, OrigOK
  <1>4. QED BY <1>1, <1>2, <1>3 DEF IInv, Todos

(* A failure leaves the file as it was before the transaction.             *)
LEMMA FailKeepsIInv ==
  ASSUME IInv, Fail
  PROVE  IInv'
  <1>1. Gone /\ (Accepted => fails < MaxFails)
        /\ fails' = IF Accepted THEN fails + 1 ELSE fails
    BY DEF Fail
  <1>2. fails' \in 0 .. MaxFails
    BY <1>1, SchemaAssumption DEF IInv
  <1>3. QED BY <1>1, <1>2, GoneKeepsIInv

(* The end of the program leaves the file as it is.                        *)
LEMMA CloseKeepsIInv ==
  ASSUME IInv, Close
  PROVE  IInv'
  <1>1. Gone /\ fails' = fails
    BY DEF Close
  <1>2. QED BY <1>1, GoneKeepsIInv DEF IInv

(* What the older version left is what there is to keep. *)
LEMMA OldTables ==
  ASSUME NEW u \in Tables, NEW n \in 0 .. Len(Columns[u]), NEW idx,
         NEW d, d = OldTable(u, n, idx)
  PROVE  /\ d.cols \in OldCols(u)
         /\ Shape(u, d, d.cols)
         /\ d.cols = <<>> => d = Absent
  <1>1. Columns[u] \in Seq(Names) /\ Len(Columns[u]) \in Nat
    BY TheTables, LenProperties
  <1>2. CASE n = 0
    <2>1. d = Absent
      BY <1>2 DEF OldTable
    <2>2. SubSeq(Columns[u], 1, 0) = <<>>
      BY <1>1
    <2>3. <<>> \in OldCols(u)
      BY <1>2, <2>2 DEF OldCols
    <2>4. QED BY <2>1, <2>3 DEF Absent, Shape
  <1>3. CASE n # 0
    <2>. DEFINE cols == SubSeq(Columns[u], 1, n)
    <2>1. d = [cols |-> cols, rows |-> {[c \in ToSet(cols) |-> c]},
               idx |-> idx \cap Indexes[u] \cap ToSet(cols)]
      BY <1>3 DEF OldTable
    <2>2. cols \in OldCols(u)
      BY DEF OldCols
    <2>3. cols # <<>>
      BY <1>1, <1>3
    <2>. HIDE DEF cols
    <2>4. QED BY <2>1, <2>2, <2>3 DEF Shape
  <1>4. QED BY <1>2, <1>3

(* What an older version, or none, has left is whole.                      *)
LEMMA InitIInv == Init => IInv
  <1>1. SUFFICES ASSUME Init PROVE IInv
    OBVIOUS
  <1>2. PICK n \in [Tables -> 0 .. 8], idx \in SUBSET Indexes.Time :
          /\ \A u \in Tables : n[u] <= Len(Columns[u])
          /\ orig = [u \in Tables |-> OldTable(u, n[u], idx)]
    BY <1>1 DEF Init
  <1>3. OrigOK
    <2>1. ASSUME NEW u \in Tables
          PROVE  n[u] \in 0 .. Len(Columns[u]) /\ orig[u] = OldTable(u, n[u], idx)
      <3>1. Len(Columns[u]) \in Nat
        BY TheTables, LenProperties
      <3>2. QED BY <1>2, <3>1
    <2>2. QED BY <2>1, OldTables DEF OrigOK
  <1>4. /\ file = [u \in Tables |-> Only(orig[u])] /\ work = file
        /\ phase = "gone" /\ step = "begin" /\ todo = <<>> /\ fails = 0
    BY <1>1 DEF Init
  <1>5. ASSUME NEW u \in Tables PROVE Whole(u, file[u])
    <2>1. file[u] = [main |-> orig[u], tmp |-> Absent]
      BY <1>4 DEF Only
    <2>2. file[u].main = orig[u] /\ file[u].tmp = Absent
      BY <2>1
    <2>3. QED BY <1>3, <2>1, <2>2 DEF OrigOK, Whole, Keeps
  <1>6. Transaction /\ Done
    BY <1>4 DEF Transaction, Done
  <1>7. QED BY <1>3, <1>4, <1>5, <1>6, SchemaAssumption DEF IInv, Steps, Todos

(* Every statement, failure, end and start keeps the invariant.            *)
LEMMA NextKeepsIInv == IInv /\ [Next]_vars => IInv'
  <1>1. SUFFICES ASSUME IInv, [Next]_vars PROVE IInv'
    OBVIOUS
  <1>2. CASE Begin
    BY <1>1, <1>2, BeginKeepsIInv
  <1>3. CASE Select
    BY <1>1, <1>3, SelectKeepsIInv
  <1>4. CASE CreateNew
    BY <1>1, <1>4, CreateNewKeepsIInv
  <1>5. CASE Rename
    BY <1>1, <1>5, RenameKeepsIInv
  <1>6. CASE Create
    BY <1>1, <1>6, CreateKeepsIInv
  <1>7. CASE Insert
    BY <1>1, <1>7, InsertKeepsIInv
  <1>8. CASE Drop
    BY <1>1, <1>8, DropKeepsIInv
  <1>9. CASE Index
    BY <1>1, <1>9, IndexKeepsIInv
  <1>10. CASE Commit
    BY <1>1, <1>10, CommitKeepsIInv
  <1>11. CASE Open
    BY <1>1, <1>11, OpenKeepsIInv
  <1>12. CASE Fail
    BY <1>1, <1>12, FailKeepsIInv
  <1>13. CASE Close
    BY <1>1, <1>13, CloseKeepsIInv
  <1>14. CASE UNCHANGED vars
    <2>1. UNCHANGED <<file, work, phase, step, todo, old, fails, orig>> /\ t' = t
      BY <1>14 DEF vars, t
    <2>2. (\A u \in Tables : Whole(u, file[u]))' /\ OrigOK'
      BY <1>1, <2>1 DEF IInv, Whole, Keeps, OrigOK
    <2>3. Transaction' /\ Done'
      BY <1>1, <2>1 DEF IInv, Transaction, Before, Rebuilt, Keeps, Done, Complete
    <2>4. QED BY <1>1, <2>1, <2>2, <2>3 DEF IInv
  <1>15. QED
    BY <1>1, <1>2, <1>3, <1>4, <1>5, <1>6, <1>7, <1>8, <1>9, <1>10, <1>11, <1>12,
       <1>13, <1>14 DEF Next, Statement

-----------------------------------------------------------------------------
(* The theorems. *)

(* IInv holds in every state that the program can reach, whatever fails:   *)
(* the file has whole tables with all old values, and the transaction is   *)
(* where its step says it is.                                              *)
THEOREM Invariance == Spec => []IInv
  BY InitIInv, NextKeepsIInv, PTL DEF Spec

(* The variables hold what they are declared to hold, and the tables differ *)
(* from the file only inside of a transaction of createTable.              *)
THEOREM TypeCorrect == Spec => []TypeOK
  <1>1. IInv => TypeOK
    <2>1. SUFFICES ASSUME IInv PROVE TypeOK
      OBVIOUS
    <2>. DEFINE OK(u, d) == /\ d.cols \in OldCols(u)
                            /\ \A row \in d.rows : DOMAIN row = ToSet(d.cols)
                            /\ d.idx \subseteq Indexes[u] \cap ToSet(d.cols)
    <2>2. ASSUME NEW u \in Tables, NEW d, NEW cols \in {orig[u].cols, Columns[u], <<>>},
                 Shape(u, d, cols)
          PROVE  OK(u, d)
      <3>1. Columns[u] \in Seq(Names) /\ Len(Columns[u]) \in Nat
        BY TheTables, LenProperties
      <3>2. Columns[u] = SubSeq(Columns[u], 1, Len(Columns[u])) /\ <<>> = SubSeq(Columns[u], 1, 0)
        BY <3>1
      <3>3. cols \in OldCols(u)
        <4>1. Columns[u] \in OldCols(u) /\ <<>> \in OldCols(u)
          BY <3>1, <3>2 DEF OldCols
        <4>2. QED BY <2>1, <4>1 DEF IInv, OrigOK
      <3>4. QED BY <2>2, <3>3 DEF Shape
    <2>3. \A u \in Tables : Shape(u, Absent, <<>>) /\ Shape(u, NewTable(u), Columns[u])
      BY DEF Shape, Absent, NewTable
    <2>4. ASSUME NEW u \in Tables PROVE OK(u, file[u].main) /\ OK(u, file[u].tmp)
      <3>1. Whole(u, file[u])
        BY <2>1 DEF IInv
      <3>2. QED BY <2>2, <2>3, <3>1 DEF Whole
    <2>5. ASSUME NEW u \in Tables PROVE OK(u, work[u].main) /\ OK(u, work[u].tmp)
      <3>1. CASE work[u] = file[u]
        BY <2>4, <3>1
      <3>2. CASE work[u] # file[u]
        <4>1. phase = "running" /\ u = t /\ Before(u)
          BY <2>1, <3>2 DEF IInv, Transaction
        <4>2. step \in {"create", "insert", "drop", "index", "commit"}
          BY <2>1, <3>2, <4>1 DEF IInv, Before, Steps
        <4>3. CASE step = "create"
          BY <2>2, <2>3, <2>4, <4>1, <4>3 DEF Before
        <4>4. CASE step = "insert"
          BY <2>2, <2>3, <2>4, <4>1, <4>4 DEF Before
        <4>5. CASE step = "drop"
          BY <2>2, <2>4, <4>1, <4>5 DEF Before
        <4>6. CASE step \in {"index", "commit"}
          BY <2>2, <2>3, <4>1, <4>6 DEF Before, Rebuilt
        <4>7. QED BY <4>2, <4>3, <4>4, <4>5, <4>6
      <3>3. QED BY <3>1, <3>2
    <2>6. todo \in {<<>>} \cup {SubSeq(createTables, n, 3) : n \in 1 .. 3}
      <3>1. /\ createTables = SubSeq(createTables, 1, 3)
            /\ <<"Time", "Options">> = SubSeq(createTables, 2, 3)
            /\ <<"Options">> = SubSeq(createTables, 3, 3)
        BY DEF createTables
      <3>2. QED BY <2>1, <3>1 DEF IInv, Todos
    <2>7. work # file => phase = "running" /\ step \notin {"begin", "select"}
      <3>1. ASSUME phase = "running", step \in {"begin", "select"}
            PROVE  \A u \in Tables : work[u] = file[u]
        BY <2>1, <3>1 DEF IInv, Transaction, Before
      <3>2. QED BY <2>1, <3>1 DEF IInv
    <2>8. QED BY <2>1, <2>4, <2>5, <2>6, <2>7 DEF IInv, TypeOK, OldCols
  <1>2. QED BY <1>1, Invariance, PTL

(* No failure leaves a table in the file that is half rebuilt. *)
THEOREM TablesAreWhole == Spec => []NeverHalfRebuilt
  <1>1. IInv => NeverHalfRebuilt
    BY DEF IInv, Whole, Shape, NeverHalfRebuilt
  <1>2. QED BY <1>1, Invariance, PTL

(* No failure, and no rebuilding, loses a value the older version stored.  *)
THEOREM ValuesAreKept == Spec => []NothingLost
  <1>1. IInv => NothingLost
    BY DEF IInv, Whole, Keeps, NothingLost
  <1>2. QED BY <1>1, Invariance, PTL

(* Past createTables the file has all tables, columns and indexes.         *)
THEOREM ReadyMeansComplete == Spec => []ReadyIsComplete
  <1>1. IInv => ReadyIsComplete
    <2>1. SUFFICES ASSUME IInv, phase = "ready" PROVE \A u \in Tables : Complete(u)
      BY DEF ReadyIsComplete
    <2>2. todo = <<>> /\ ToSet(todo) = {}
      BY <2>1 DEF IInv, ToSet
    <2>3. QED BY <2>1, <2>2 DEF IInv, Done
  <1>2. QED BY <1>1, Invariance, PTL

(* SQLite never refuses a statement of createTable for the tables it finds: *)
(* no state of the file makes every start fail.                            *)
THEOREM NoneIsRefused == Spec => []StatementsAccepted
  <1>1. IInv => StatementsAccepted
    <2>1. SUFFICES ASSUME IInv, phase = "running" PROVE Accepted
      BY DEF StatementsAccepted
    <2>2. t \in Tables /\ Whole(t, file[t]) /\ orig[t].cols \in OldCols(t)
      BY <2>1, FirstToDo DEF IInv, OrigOK
    <2>3. Before(t)
      BY <2>1 DEF IInv, Transaction
    <2>4. step = "rename" => work[t].tmp = Absent
      BY <2>2, <2>3 DEF Before, Whole
    <2>5. step = "create" => work[t].main = Absent
      BY <2>3 DEF Before
    <2>6. step = "insert" => Copied \subseteq ToSet(work[t].tmp.cols)
      BY <2>3 DEF Before, Copied
    <2>7. QED BY <2>4, <2>5, <2>6 DEF Accepted
  <1>2. QED BY <1>1, Invariance, PTL
=============================================================================
