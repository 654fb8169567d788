------------------------------- MODULE Status -------------------------------
(***************************************************************************)
(* The status command beside the others.  It takes no lock and runs no     *)
(* transaction: it asks one query after the other, and what decides about  *)
(* ALL_DONE was read at different moments.  Once a read rules ALL_DONE out *)
(* the command goes on to print other lines, which are left out.           *)
(***************************************************************************)
EXTENDS Subtasks

VARIABLES st,      \* the last read that left ALL_DONE possible, or printed
          made,    \* history: a task was created after the tasks were read
          held     \* history: all was done at some moment since the start

statusVars == <<st, made, held>>

\* AllDone but for the lock.
Finished == /\ nTasks > 0
            /\ Oids = Assigned /\ DeferredPool = {}
            /\ \A t \in Created : done[t]

StatusInit == Init /\ st = "off" /\ made = FALSE /\ held = FALSE

\* LockOwner: no command runs.
ReadOwner ==
  /\ st = "off" /\ conn = 0
  /\ st' = "owner"
  /\ held' = Finished /\ made' = FALSE

WrongReadTasks ==   \* counts the completed tasks only
  /\ st = "owner" /\ \E t \in Created : done[t]
  /\ st' = "tasks"
  /\ UNCHANGED <<made, held>>

\* Subtasks: some task, and none that is unfinished.
ReadTasks ==
  /\ st = "owner"
  /\ nTasks > 0 /\ \A t \in Created : done[t]
  /\ st' = "tasks"
  /\ UNCHANGED <<made, held>>

\* Outstanding, its two queries.
ReadUnassigned ==
  /\ st = "tasks" /\ Oids = Assigned
  /\ st' = "unassigned"
  /\ UNCHANGED <<made, held>>

ReadDeferred ==
  /\ st = "unassigned" /\ DeferredPool = {}
  /\ st' = "printed"
  /\ UNCHANGED <<made, held>>

\* A step of a command, as status may notice it.
Beside ==
  /\ Next
  /\ UNCHANGED st
  /\ made' = (made \/ (st \in {"tasks", "unassigned"} /\ nTasks' > nTasks))
  /\ held' = (held \/ (st \notin {"off", "printed"} /\ Finished'))

\* The output is read, or the command ends without ALL_DONE.
Quit ==
  /\ st # "off"
  /\ st' = "off" /\ made' = FALSE /\ held' = FALSE

StatusStep == /\ ReadOwner \/ ReadTasks \/ ReadUnassigned \/ ReadDeferred \/ Quit
              /\ UNCHANGED vars

StatusSpec == StatusInit /\ [][Beside \/ StatusStep]_<<vars, statusVars>>

-----------------------------------------------------------------------------

\* ALL_DONE is printed only if it was true at some moment while status ran
\* (README.md: only when every task has its done_at and nothing is unassigned).
PrintedWasTrue == st = "printed" => held

\* The one way for status to be wrong is a task create between its reads: other
\* commands may run beside it, even reopen a task, and ALL_DONE has been true.
OnlyCreateFools == st = "printed" /\ ~made => held

=============================================================================
