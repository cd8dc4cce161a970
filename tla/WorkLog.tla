------------------------------- MODULE WorkLog -------------------------------
(***************************************************************************)
(* What the program promises of timelog.db: a log of records that only     *)
(* grows, one of which may be counted ("cur") and one of which may be the  *)
(* record a question about a break is about ("asked").                     *)
(*                                                                         *)
(* A handler writes the log first and the pointer to the record being      *)
(* counted last.  So when the process ends inside a handler, the log may   *)
(* be ahead of the pointer, and the question is forgotten: that is Cut.    *)
(* TimeLog implements this module.                                         *)
(***************************************************************************)
EXTENDS Integers, Sequences

VARIABLES
  log,    \* the records; each is a task, a start and an end (0: none yet)
  cur,    \* the record being counted, or 0
  asked,  \* the record the user is being asked about, or 0
  forced  \* was tracking switched on while he was being asked?

vars == <<log, cur, asked, forced>>

-----------------------------------------------------------------------------
(* What a handler may do to the log. *)

Unended(i) == log'[i].end = 0

(* Record i, and no other one, may get another end; n records are added.   *)
Writes(i, n) ==
  /\ Len(log') = Len(log) + n
  /\ \A j \in DOMAIN log :
       IF j = i THEN log'[j] = [log[j] EXCEPT !.end = log'[j].end]
                ELSE log'[j] = log[j]

(* Time goes on from record i to record j without a gap or an overlap. *)
Follows(i, j) == log'[j].start = log'[i].end + 1

(* The break is over: record "asked" is given its end, the n records after *)
(* it follow one another, and the last one is open.                        *)
BreakLogged(n) ==
  LET new == Len(log) + 1 IN
  /\ Writes(asked, n)
  /\ n >= 1 => Follows(asked, new)
  /\ n = 2 => Follows(new, new + 1)

-----------------------------------------------------------------------------
(* The user comes to work.  Nobody watches for that while a record is      *)
(* being counted or a question is open, unless tracking was switched on    *)
(* under a question; the record that was counted may then be abandoned.    *)
Begin ==
  /\ forced \/ (cur = 0 /\ asked = 0)
  /\ Writes(0, 1)
  /\ Unended(Len(log'))
  /\ cur' = Len(log')
  /\ UNCHANGED <<asked, forced>>

(* He leaves, and is asked about it unless an older question is open. *)
Suspend ==
  /\ cur > 0
  /\ Writes(cur, 0)
  /\ cur' = 0
  /\ asked' = IF asked > 0 THEN asked ELSE cur
  /\ UNCHANGED forced

Force ==
  /\ asked > 0
  /\ forced' = TRUE
  /\ UNCHANGED <<log, cur, asked>>

(* Nothing is counted under a question, so that no record is abandoned by  *)
(* its answer, unless tracking was switched on there.                      *)
Answerable == asked > 0 /\ (cur = 0 \/ forced)

(* The break was none: the record goes on. *)
Resume ==
  /\ Answerable
  /\ cur' = asked
  /\ asked' = 0
  /\ UNCHANGED <<log, forced>>

(* The break was the end of work. *)
Stop ==
  /\ asked > 0
  /\ BreakLogged(0)
  /\ asked' = 0
  /\ UNCHANGED <<cur, forced>>

(* The break was work of another kind; work goes on with it, or after it. *)
Continue ==
  /\ Answerable
  /\ \E n \in {1, 2} : BreakLogged(n)
  /\ Unended(Len(log'))
  /\ cur' = Len(log')
  /\ asked' = 0
  /\ UNCHANGED forced

(* The program ends, or recovers from not having ended: the record is      *)
(* given its end.                                                          *)
Finish ==
  /\ cur > 0
  /\ Writes(cur, 0)
  /\ cur' = 0
  /\ asked' = 0
  /\ forced' = FALSE

(* The process ends between handlers, or inside one. *)
Cut ==
  /\ \/ UNCHANGED log
     \/ cur > 0 /\ Writes(cur, 0)
     \/ (cur = 0 \/ forced) /\ Writes(0, 1) /\ Unended(Len(log'))
     \/ asked > 0 /\ \E n \in 0 .. 2 : BreakLogged(n)
  /\ asked' = 0
  /\ forced' = FALSE
  /\ UNCHANGED cur

Init ==
  /\ log = <<>>
  /\ cur = 0
  /\ asked = 0
  /\ forced = FALSE

Next == Begin \/ Suspend \/ Force \/ Resume \/ Stop \/ Continue \/ Finish \/ Cut

Spec == Init /\ [][Next]_vars
=============================================================================
