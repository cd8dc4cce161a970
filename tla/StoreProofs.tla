----------------------------- MODULE StoreProofs -----------------------------
(* The inductive invariant of Store and its theorems. *)
EXTENDS Store, TLAPS

-----------------------------------------------------------------------------
(* The invariant. *)

(* The ids in memory are those of the objects' own rows in the image "d". *)
IdsIn(d) == \A o \in Objects : id[o] > 0 => id[o] \in DOMAIN d /\ d[id[o]].who = o

(* Without a process nothing is going on. *)
Gone == phase = "gone" => ~busy /\ call = NoCall

(* What a call knows of itself. *)
CallOK ==
  /\ call.pc # "ready" => call.who \in Objects /\ call.val \in Values
  /\ call.pc \in {"inserted", "committed"} =>
       /\ call.newId \in DOMAIN work
       /\ work[call.newId] = CallRow

(* As long as no COMMIT was refused, the transaction is the call's own, and *)
(* what it has pending is the call's own row.                               *)
OwnTransaction ==
  ~busy =>
    /\ call.pc \in {"ready", "committed"} => ~open /\ work = file
    /\ call.pc \in {"begun", "inserted"} => call.valid /\ ~call.finished /\ open
    /\ call.pc \in {"begun", "thrown"} => work = file
    /\ call.pc = "inserted" => work = Put(file, id[call.who], CallRow)
    /\ call.pc = "thrown" => call.valid /\ (open => ~call.finished)

(* After one was, every later call joins the transaction it left open.      *)
JoinedTransaction ==
  busy =>
    /\ call.pc # "thrown" => open /\ phase = "boxed" /\ ~call.valid
    /\ call.pc = "thrown" /\ call.valid => open /\ call.finished
    /\ call.pc = "thrown" /\ ~call.valid => phase = "boxed"

(* Ids stay true through a rollback: in the file while nothing is left      *)
(* open, and in the connection's view unless the process is about to end.   *)
Ids ==
  /\ ~busy => IdsIn(file)
  /\ call.pc # "thrown" \/ call.valid => IdsIn(work)

IInv ==
  /\ TypeOK
  /\ Durable
  /\ Gone
  /\ CallOK
  /\ OwnTransaction
  /\ JoinedTransaction
  /\ Ids

-----------------------------------------------------------------------------
(* Rows. *)

(* A store changes or adds one row, whose id is the one SQLite reports.     *)
LEMMA PutRow ==
  ASSUME NEW d \in Seq(Row), NEW i \in Nat, NEW row \in Row,
         i > 0 => i \in DOMAIN d
  PROVE  /\ Put(d, i, row) \in Seq(Row)
         /\ LastInsertRowID(d, i) \in Nat
         /\ LastInsertRowID(d, i) > 0
         /\ LastInsertRowID(d, i) \in DOMAIN Put(d, i, row)
         /\ Put(d, i, row)[LastInsertRowID(d, i)] = row
         /\ \A k \in DOMAIN d : /\ k \in DOMAIN Put(d, i, row)
                                /\ k # i => Put(d, i, row)[k] = d[k]
BY DEF Put, LastInsertRowID

(* A store by an object of its own row leaves every id true.                *)
LEMMA PutKeepsIds ==
  ASSUME NEW d \in Seq(Row), NEW o \in Objects, NEW row \in Row, row.who = o,
         id \in [Objects -> Nat], IdsIn(d)
  PROVE  IdsIn(Put(d, id[o], row))
<1>1. id[o] \in Nat /\ (id[o] > 0 => id[o] \in DOMAIN d)
  BY DEF IdsIn
<1>2. \A k \in DOMAIN d : /\ k \in DOMAIN Put(d, id[o], row)
                          /\ k # id[o] => Put(d, id[o], row)[k] = d[k]
  BY <1>1, PutRow
<1>3. id[o] > 0 => Put(d, id[o], row)[id[o]] = row
  BY <1>1, PutRow DEF LastInsertRowID
<1> QED
  BY <1>1, <1>2, <1>3 DEF IdsIn

-----------------------------------------------------------------------------
(* The end of the process, and an exception that leaves a store. *)

(* The file outlives the process; everything else starts afresh.            *)
LEMMA ProcessEndsKeepsIInv ==
  IInv /\ ProcessEnds => IInv'
<1> SUFFICES ASSUME IInv, ProcessEnds PROVE IInv'
  OBVIOUS
<1> USE DEF ProcessEnds, NoCall
<1>1. TypeOK'
  BY DEF IInv, TypeOK
<1>2. Durable'
  BY DEF Durable
<1>3. Gone' /\ CallOK'
  BY DEF Gone, CallOK
<1>4. OwnTransaction' /\ JoinedTransaction'
  BY DEF OwnTransaction, JoinedTransaction
<1>5. Ids'
  BY DEF Ids, IdsIn
<1> QED
  BY <1>1, <1>2, <1>3, <1>4, <1>5 DEF IInv

(* The message box comes up over a connection in one of two states: clean,  *)
(* or with the transaction open that a refused COMMIT left.                 *)
LEMMA ThrownToBox ==
  ASSUME IInv, phase = "running", phase' = "boxed", call' = NoCall,
         UNCHANGED <<file, id, ret, busy>>,
         work' \in Seq(Row), open' \in BOOLEAN,
         ~busy => work' = file /\ ~open',
         busy => work' = work /\ open' /\ (call.pc # "thrown" \/ call.valid),
         call.pc # "committed"
  PROVE  IInv'
<1>1. TypeOK'
  BY DEF IInv, TypeOK, NoCall
<1>2. Durable'
  BY DEF IInv, Durable, Kept, NoCall
<1>3. Gone' /\ CallOK'
  BY DEF Gone, CallOK, NoCall
<1>4. OwnTransaction' /\ JoinedTransaction'
  BY DEF OwnTransaction, JoinedTransaction, NoCall, IInv, TypeOK
<1>5. Ids'
  <2>1. ~busy => IdsIn(file)' /\ IdsIn(work)'
    BY DEF IInv, Ids, IdsIn
  <2>2. busy => IdsIn(work)'
    BY DEF IInv, Ids, IdsIn
  <2> QED
    BY <2>1, <2>2 DEF Ids, IInv, TypeOK
<1> QED
  BY <1>1, <1>2, <1>3, <1>4, <1>5 DEF IInv

-----------------------------------------------------------------------------
(* The steps. *)

(* What is queried from the file has the id of its row.                     *)
LEMMA OpenKeepsIInv == IInv /\ Open => IInv'
<1> SUFFICES ASSUME IInv, Open PROVE IInv'
  OBVIOUS
<1>1. ~busy /\ call = NoCall /\ work = file /\ ~open
  BY DEF IInv, Open, Gone, OwnTransaction, NoCall
<1>2. \A o \in Objects : HasRow(o) => /\ RowOf(o) \in DOMAIN file
                                      /\ file[RowOf(o)].who = o
  BY DEF HasRow, RowOf
<1>3. \A o \in Objects : HasRow(o) => /\ RowOf(o) \in Nat
                                      /\ file[RowOf(o)] \in Row
  BY <1>2 DEF IInv, TypeOK
<1>4. TypeOK'
  BY <1>3 DEF IInv, TypeOK, Open, Row
<1>5. Durable'
  <2> SUFFICES ASSUME NEW o \in Objects, ret'[o] # None
               PROVE  Kept(o)'
    BY DEF Durable
  <2>1. HasRow(o) /\ id'[o] = RowOf(o) /\ ret'[o] = file[RowOf(o)].val
    BY DEF Open
  <2>2. file[RowOf(o)] = [who |-> o, val |-> file[RowOf(o)].val]
    BY <2>1, <1>2, <1>3 DEF Row
  <2> QED
    BY <2>1, <2>2, <1>2 DEF Kept, Open
<1>6. Gone' /\ CallOK'
  BY <1>1 DEF Gone, CallOK, Open, NoCall
<1>7. OwnTransaction' /\ JoinedTransaction'
  BY <1>1 DEF OwnTransaction, JoinedTransaction, Open, NoCall
<1>8. Ids'
  <2>1. IdsIn(file)'
    BY <1>2 DEF IdsIn, Open
  <2> QED
    BY <2>1, <1>1 DEF Ids, IdsIn, Open
<1> QED
  BY <1>4, <1>5, <1>6, <1>7, <1>8 DEF IInv

(* A constructor that succeeds opens a transaction or joins the open one.   *)
LEMMA BeginKeepsIInv ==
  ASSUME IInv, NEW o \in Objects, NEW v \in Values, Begin(o, v)
  PROVE  IInv'
<1> USE DEF Begin, NoCall
<1>1. TypeOK'
  BY DEF IInv, TypeOK
<1>2. Durable'
  BY DEF IInv, Durable, Kept
<1>3. Gone' /\ CallOK'
  BY DEF Gone, CallOK
<1>4. OwnTransaction' /\ JoinedTransaction'
  BY DEF OwnTransaction, JoinedTransaction, IInv, TypeOK
<1>5. Ids'
  BY DEF IInv, Ids, IdsIn
<1> QED
  BY <1>1, <1>2, <1>3, <1>4, <1>5 DEF IInv

(* A constructor that throws leaves nothing open.                           *)
LEMMA BeginFailsKeepsIInv == IInv /\ BeginFails => IInv'
<1> SUFFICES ASSUME IInv, BeginFails PROVE IInv'
  OBVIOUS
<1>1. ~busy /\ work = file
  BY DEF IInv, BeginFails, JoinedTransaction, OwnTransaction, TypeOK
<1>2. CASE phase = "running"
  <2>1. /\ phase' = "boxed" /\ call' = NoCall
        /\ UNCHANGED <<file, id, ret, busy, work, open>>
    BY <1>2 DEF BeginFails, Throw
  <2> QED
    BY <1>1, <1>2, <2>1, ThrownToBox DEF BeginFails, IInv, TypeOK
<1>3. CASE phase = "boxed"
  BY <1>3, ProcessEndsKeepsIInv DEF BeginFails, Throw
<1> QED
  BY <1>2, <1>3 DEF BeginFails, Throw

(* The row is pending under the id SQLite reports; the ids in memory are    *)
(* those of the rows they were of.                                          *)
LEMMA InsertKeepsIInv == IInv /\ Insert => IInv'
<1> SUFFICES ASSUME IInv, Insert PROVE IInv'
  OBVIOUS
<1> DEFINE o == call.who
           i == id[o]
<1>1. o \in Objects /\ i \in Nat /\ CallRow \in Row /\ CallRow.who = o
  BY DEF IInv, TypeOK, CallOK, Insert, CallRow, Row
<1>2. i > 0 => i \in DOMAIN work
  BY <1>1 DEF IInv, Ids, IdsIn, Insert
<1>3. work \in Seq(Row) /\ id \in [Objects -> Nat] /\ IdsIn(work)
  BY DEF IInv, TypeOK, Ids, Insert
<1>4. /\ work' = Put(work, i, CallRow)
      /\ call' = [call EXCEPT !.pc = "inserted", !.newId = LastInsertRowID(work, i)]
      /\ UNCHANGED <<file, open, phase, id, ret, busy>>
  BY DEF Insert
<1>5. call'.newId = LastInsertRowID(work, i) /\ CallRow' = CallRow /\ call'.pc = "inserted"
      /\ call'.who = call.who /\ call'.val = call.val /\ call'.valid = call.valid
      /\ call'.finished = call.finished
  BY <1>4 DEF CallRow, IInv, TypeOK
<1>6. /\ work' \in Seq(Row)
      /\ call'.newId \in Nat
      /\ call'.newId \in DOMAIN work'
      /\ work'[call'.newId] = CallRow
  <2> HIDE DEF i, o
  <2> QED BY <1>1, <1>2, <1>3, <1>4, <1>5, PutRow
<1>7. IdsIn(work)'
  <2>1. IdsIn(Put(work, id[o], CallRow))
    <3> HIDE DEF o
    <3> QED BY <1>1, <1>3, PutKeepsIds
  <2> QED
    BY <2>1, <1>4 DEF IdsIn
<1> HIDE DEF i, o
<1>8. TypeOK'
  BY <1>4, <1>6 DEF IInv, TypeOK
<1>9. Durable'
  BY <1>4, <1>5 DEF IInv, Durable, Kept, Insert
<1>10. Gone' /\ CallOK'
  <2>1. phase # "gone"
    BY DEF IInv, Gone, NoCall, Insert
  <2> QED
    BY <2>1, <1>1, <1>4, <1>5, <1>6 DEF Gone, CallOK, IInv, Insert
<1>11. OwnTransaction' /\ JoinedTransaction'
  BY <1>4, <1>5 DEF IInv, OwnTransaction, JoinedTransaction, Insert, o, i
<1>12. Ids'
  BY <1>4, <1>5, <1>7 DEF IInv, Ids, IdsIn
<1> QED
  BY <1>8, <1>9, <1>10, <1>11, <1>12 DEF IInv

(* A failed INSERT leaves nothing of its own behind.                        *)
LEMMA InsertFailsKeepsIInv == IInv /\ InsertFails => IInv'
<1> SUFFICES ASSUME IInv, InsertFails PROVE IInv'
  OBVIOUS
<1>1. /\ call'.pc = "thrown" /\ call.pc = "begun"
      /\ call'.who = call.who /\ call'.val = call.val /\ call'.valid = call.valid
      /\ call'.finished = call.finished
      /\ UNCHANGED <<file, phase, id, ret, busy>>
      /\ (work' = work /\ open' = open) \/ (work' = file /\ open' = FALSE)
  BY DEF InsertFails, IInv, TypeOK
<1>2. TypeOK'
  BY DEF IInv, TypeOK, InsertFails
<1>3. Durable'
  BY <1>1 DEF IInv, Durable, Kept
<1>4. Gone' /\ CallOK'
  BY <1>1 DEF IInv, Gone, CallOK, NoCall
<1>5. OwnTransaction' /\ JoinedTransaction'
  BY <1>1 DEF IInv, OwnTransaction, JoinedTransaction
<1>6. Ids'
  BY <1>1 DEF IInv, Ids, IdsIn, JoinedTransaction, OwnTransaction
<1> QED
  BY <1>2, <1>3, <1>4, <1>5, <1>6 DEF IInv

(* COMMIT makes the call's own row durable and disturbs no other.           *)
LEMMA CommitKeepsIInv == IInv /\ Commit => IInv'
<1> SUFFICES ASSUME IInv, Commit PROVE IInv'
  OBVIOUS
<1>1. /\ call'.pc = "committed" /\ call.pc = "inserted"
      /\ call'.who = call.who /\ call'.val = call.val /\ call'.valid = call.valid
      /\ call'.newId = call.newId
      /\ UNCHANGED <<work, phase, id, ret, busy>>
      /\ call.valid => file' = work /\ open' = FALSE
      /\ ~call.valid => UNCHANGED <<file, open>>
  BY DEF Commit, IInv, TypeOK
<1>2. call.valid <=> ~busy
  BY <1>1 DEF IInv, TypeOK, OwnTransaction, JoinedTransaction
<1>3. TypeOK'
  BY DEF IInv, TypeOK, Commit
<1>4. Durable'
  <2> SUFFICES ASSUME ~busy, NEW o \in Objects, ret[o] # None, o # call.who
               PROVE  Kept(o)'
    BY <1>1 DEF Durable
  <2>1. /\ file' = Put(file, id[call.who], CallRow)
        /\ call.who \in Objects
        /\ id \in [Objects -> Nat]
        /\ file \in Seq(Row)
        /\ CallRow \in Row
        /\ Kept(o)
        /\ IdsIn(file)
    BY <1>1, <1>2 DEF IInv, OwnTransaction, CallOK, TypeOK, CallRow, Row, Durable, Ids
  <2>2. id[call.who] > 0 => /\ id[call.who] \in DOMAIN file
                            /\ file[id[call.who]].who = call.who
    BY <2>1 DEF IdsIn
  <2>3. id[o] \in DOMAIN file /\ file[id[o]].who = o
    BY <2>1 DEF Kept
  <2>4. id[o] # id[call.who]
    BY <2>1, <2>2, <2>3
  <2>5. id[o] \in DOMAIN file' /\ file'[id[o]] = file[id[o]]
    <3>1. id[call.who] \in Nat
      BY <2>1
    <3>2. \A k \in DOMAIN file :
            /\ k \in DOMAIN Put(file, id[call.who], CallRow)
            /\ k # id[call.who] => Put(file, id[call.who], CallRow)[k] = file[k]
      BY <2>1, <2>2, <3>1, PutRow
    <3> QED
      BY <2>1, <2>3, <2>4, <3>2
  <2> QED
    BY <2>1, <2>5, <1>1 DEF Kept
<1>5. Gone' /\ CallOK'
  BY <1>1 DEF IInv, Gone, CallOK, CallRow, NoCall
<1>6. OwnTransaction' /\ JoinedTransaction'
  BY <1>1, <1>2 DEF IInv, OwnTransaction, JoinedTransaction
<1>7. Ids'
  BY <1>1, <1>2 DEF IInv, Ids, IdsIn
<1> QED
  BY <1>3, <1>4, <1>5, <1>6, <1>7 DEF IInv

(* A COMMIT that fails is rolled back, or leaves its transaction open.      *)
LEMMA CommitFailsKeepsIInv == IInv /\ CommitFails => IInv'
<1> SUFFICES ASSUME IInv, CommitFails PROVE IInv'
  OBVIOUS
<1>1. /\ call'.pc = "thrown" /\ call.pc = "inserted"
      /\ call'.who = call.who /\ call'.val = call.val
      /\ call'.valid /\ call.valid /\ call'.finished
      /\ UNCHANGED <<file, phase, id, ret>>
      /\ (busy' = TRUE /\ UNCHANGED <<work, open>>)
           \/ (work' = file /\ open' = FALSE /\ UNCHANGED busy)
  BY DEF CommitFails, IInv, TypeOK
<1>2. ~busy /\ open
  BY <1>1 DEF IInv, TypeOK, OwnTransaction, JoinedTransaction
<1>3. TypeOK'
  BY DEF IInv, TypeOK, CommitFails
<1>4. Durable'
  BY <1>1 DEF IInv, Durable, Kept
<1>5. Gone' /\ CallOK'
  BY <1>1 DEF IInv, Gone, CallOK, NoCall
<1>6. OwnTransaction' /\ JoinedTransaction'
  <2>1. CASE busy' = TRUE /\ UNCHANGED <<work, open>>
    BY <2>1, <1>1, <1>2 DEF OwnTransaction, JoinedTransaction
  <2>2. CASE work' = file /\ open' = FALSE /\ UNCHANGED busy
    BY <2>2, <1>1, <1>2 DEF OwnTransaction, JoinedTransaction
  <2> QED
    BY <2>1, <2>2, <1>1
<1>7. Ids'
  BY <1>1, <1>2 DEF IInv, Ids, IdsIn
<1> QED
  BY <1>3, <1>4, <1>5, <1>6, <1>7 DEF IInv

(* The object gets the id of the row that was stored for it.                *)
LEMMA ReportKeepsIInv == IInv /\ Report => IInv'
<1> SUFFICES ASSUME IInv, Report PROVE IInv'
  OBVIOUS
<1>1. /\ call.who \in Objects /\ call.val \in Values
      /\ call.newId \in DOMAIN work /\ work[call.newId] = CallRow
  BY DEF IInv, CallOK, Report
<1>2. CallRow = [who |-> call.who, val |-> call.val]
  BY DEF CallRow
<1>3. TypeOK'
  BY <1>1 DEF IInv, TypeOK, Report, NoCall
<1>4. Durable'
  <2> SUFFICES ASSUME ~busy, NEW o \in Objects, ret'[o] # None
               PROVE  Kept(o)'
    BY DEF Durable, Report
  <2>1. work = file
    BY DEF IInv, OwnTransaction, Report
  <2>2. CASE o = call.who
    <3>1. id'[o] = call.newId /\ ret'[o] = call.val
      BY <2>2 DEF Report, IInv, TypeOK
    <3> QED
      BY <3>1, <2>1, <2>2, <1>1, <1>2 DEF Kept, Report
  <2>3. CASE o # call.who
    BY <2>3 DEF Kept, Report, IInv, Durable, TypeOK
  <2> QED
    BY <2>2, <2>3
<1>5. Gone' /\ CallOK'
  BY DEF IInv, Gone, CallOK, NoCall, Report
<1>6. OwnTransaction' /\ JoinedTransaction'
  BY DEF IInv, OwnTransaction, JoinedTransaction, NoCall, Report
<1>7. Ids'
  <2>1. IdsIn(work)'
    BY <1>1, <1>2 DEF IInv, TypeOK, Ids, IdsIn, Report
  <2>2. ~busy => work = file
    BY DEF IInv, OwnTransaction, Report
  <2> QED
    BY <2>1, <2>2 DEF Ids, IdsIn, Report
<1> QED
  BY <1>3, <1>4, <1>5, <1>6, <1>7 DEF IInv

(* The destructor rolls back, or the process is over.                       *)
LEMMA DestroyKeepsIInv == IInv /\ Destroy => IInv'
<1> SUFFICES ASSUME IInv, Destroy PROVE IInv'
  OBVIOUS
<1>1. call.pc = "thrown"
  BY DEF Destroy
<1>2. CASE ProcessEnds
  BY <1>2, ProcessEndsKeepsIInv
<1>3. CASE ~ProcessEnds
  <2>1. /\ phase = "running" /\ phase' = "boxed" /\ call' = NoCall
        /\ UNCHANGED <<file, id, ret, busy>>
    BY <1>3 DEF Destroy, Throw
  <2>2. CASE ~MustRollBack /\ UNCHANGED <<work, open>>
    <3>1. ~busy => work' = file /\ ~open'
      BY <1>1, <2>2 DEF IInv, OwnTransaction, MustRollBack
    <3>2. busy => work' = work /\ open' /\ call.valid
      BY <1>1, <2>1, <2>2 DEF IInv, JoinedTransaction
    <3>3. work' \in Seq(Row) /\ open' \in BOOLEAN
      BY <2>2 DEF IInv, TypeOK
    <3> QED
      BY <1>1, <2>1, <3>1, <3>2, <3>3, ThrownToBox
  <2>3. CASE MustRollBack /\ work' = file /\ open' = FALSE
    <3>1. ~busy
      BY <1>1, <2>1, <2>3 DEF IInv, TypeOK, JoinedTransaction, MustRollBack
    <3>2. work' \in Seq(Row) /\ open' \in BOOLEAN
      BY <2>3 DEF IInv, TypeOK
    <3> QED
      BY <1>1, <2>1, <2>3, <3>1, <3>2, ThrownToBox
  <2> QED
    BY <1>3, <2>1, <2>2, <2>3 DEF Destroy
<1> QED
  BY <1>2, <1>3

-----------------------------------------------------------------------------
(* The theorems. *)

(* Before the first start the file is empty and nothing is going on.        *)
LEMMA InitIInv == Init => IInv
<1> SUFFICES ASSUME Init PROVE IInv
  OBVIOUS
<1> USE DEF Init, NoCall
<1>1. TypeOK
  <2>1. <<>> \in Seq(Row)
    OBVIOUS
  <2> QED
    BY <2>1 DEF TypeOK
<1>2. Durable /\ Gone /\ CallOK
  BY DEF Durable, Gone, CallOK
<1>3. OwnTransaction /\ JoinedTransaction /\ Ids
  BY DEF OwnTransaction, JoinedTransaction, Ids, IdsIn
<1> QED
  BY <1>1, <1>2, <1>3 DEF IInv

(* Every step keeps the invariant.                                          *)
LEMMA NextKeepsIInv == IInv /\ [Next]_vars => IInv'
<1> SUFFICES ASSUME IInv, [Next]_vars PROVE IInv'
  OBVIOUS
<1>1. CASE Open
  BY <1>1, OpenKeepsIInv
<1>2. CASE End
  BY <1>2, ProcessEndsKeepsIInv DEF End
<1>3. CASE \E o \in Objects, v \in Values : Begin(o, v)
  BY <1>3, BeginKeepsIInv
<1>4. CASE BeginFails
  BY <1>4, BeginFailsKeepsIInv
<1>5. CASE Insert
  BY <1>5, InsertKeepsIInv
<1>6. CASE InsertFails
  BY <1>6, InsertFailsKeepsIInv
<1>7. CASE Commit
  BY <1>7, CommitKeepsIInv
<1>8. CASE CommitFails
  BY <1>8, CommitFailsKeepsIInv
<1>9. CASE Report
  BY <1>9, ReportKeepsIInv
<1>10. CASE Destroy
  BY <1>10, DestroyKeepsIInv
<1>11. CASE UNCHANGED vars
  BY <1>11 DEF vars, IInv, TypeOK, Durable, Kept, Gone, CallOK, CallRow,
               OwnTransaction, JoinedTransaction, Ids, IdsIn
<1> QED
  BY <1>1, <1>2, <1>3, <1>4, <1>5, <1>6, <1>7, <1>8, <1>9, <1>10, <1>11 DEF Next

(* IInv is an invariant: whichever statements fail, whenever.               *)
THEOREM Invariance == Spec => []IInv
BY InitIInv, NextKeepsIInv, PTL DEF Spec

(* The type invariant: statements, calls and objects stay what they are,    *)
(* whichever statement fails.                                               *)
THEOREM TypeCorrect == Spec => []TypeOK
<1>1. IInv => TypeOK
  BY DEF IInv
<1> QED
  BY <1>1, Invariance, PTL

(* An object whose store() returned is in the file, unless a COMMIT was     *)
(* refused in this run of the program.                                      *)
THEOREM StoresAreDurable == Spec => []Durable
<1>1. IInv => Durable
  BY DEF IInv
<1> QED
  BY <1>1, Invariance, PTL

(* A transaction left open means that the program is under its message box. *)
THEOREM LeftOpenMeansBoxed == Spec => []LeftOpenOnlyUnderTheBox
<1>1. IInv => LeftOpenOnlyUnderTheBox
  BY DEF IInv, TypeOK, OwnTransaction, JoinedTransaction, LeftOpenOnlyUnderTheBox
<1> QED
  BY <1>1, Invariance, PTL

(* No object ever has the id of another object's row.                       *)
THEOREM IdsStayTrue == Spec => []IdsAreTrue
<1>1. IInv => IdsAreTrue
  BY DEF IInv, Ids, IdsIn, IdsAreTrue
<1> QED
  BY <1>1, Invariance, PTL

(* The file moves from the result of one whole store() to that of another,  *)
(* which is what TimeLog takes for granted.                                 *)
THEOREM StoresAreAtomic == Spec => OneStoreAtATime
<1>1. IInv /\ [Next]_vars =>
        [file' # file => /\ file' = Put(file, id[call.who], CallRow)
                         /\ call'.pc = "committed"]_vars
  <2> SUFFICES ASSUME IInv, [Next]_vars, file' # file
               PROVE  /\ file' = Put(file, id[call.who], CallRow)
                      /\ call'.pc = "committed"
    OBVIOUS
  <2>1. Commit /\ call.valid
    BY DEF Next, vars, Open, End, ProcessEnds, Begin, BeginFails, Throw, Insert,
           InsertFails, Commit, CommitFails, Report, Destroy
  <2>2. ~busy
    BY <2>1 DEF IInv, TypeOK, JoinedTransaction, Commit
  <2> QED
    BY <2>1, <2>2 DEF IInv, TypeOK, OwnTransaction, Commit
<1> QED
  BY <1>1, Invariance, PTL DEF Spec, OneStoreAtATime
=============================================================================
