------------------------------- MODULE Report -------------------------------
(***************************************************************************)
(* The tail of verify: the verdicts of one task, the report written from   *)
(* them, and done_at.  The process may fail or be killed at any step, and  *)
(* the machine may lose power: the database is elsewhere and keeps what it *)
(* committed, the file system keeps data that was synced and may forget a  *)
(* rename.                                                                 *)
(***************************************************************************)
EXTENDS Integers

CONSTANTS Oids,     \* active members of the task
          MaxGen    \* bound: verification generations

ASSUME ReportAssumption == MaxGen \in Nat \ {0}

VARIABLES
  gen, passed, bad, done,   \* the task: generation, its verdicts, done_at
  pc, todo, rows,           \* the command: objects to check, rows to export
  temp, path, old,          \* the temporary file, the report, the one before
  lost                      \* history: power was lost since the last rename

vars == <<gen, passed, bad, done, pc, todo, rows, temp, path, old, lost>>
ledger == <<gen, passed, bad, done>>
files  == <<temp, path, old, lost>>

NoFile == [gen |-> 0, rows |-> {}, whole |-> TRUE, synced |-> TRUE]

Init ==
  /\ gen = 1 /\ passed = {} /\ bad = {} /\ done = FALSE
  /\ pc = "idle" /\ todo = {} /\ rows = {}
  /\ temp = NoFile /\ path = NoFile /\ old = NoFile
  /\ lost = FALSE

\* verify of a task that is done only exports what is stored.
Export ==
  /\ pc = "idle" /\ done
  /\ pc' = "report"
  /\ UNCHANGED <<ledger, todo, rows, files>>

\* verify, or verify --restart in a new generation.
BeginVerify(restart) ==
  /\ pc = "idle"
  /\ ~done \/ restart
  /\ restart => gen < MaxGen
  /\ gen' = IF restart THEN gen + 1 ELSE gen
  /\ passed' = IF restart THEN {} ELSE passed
  /\ bad' = IF restart THEN {} ELSE bad
  /\ done' = FALSE
  /\ todo' = Oids \ passed'
  /\ pc' = "check"
  /\ UNCHANGED <<rows, files>>

\* One object is checked and its verdict stored.
Check(o, clean) ==
  /\ pc = "check" /\ o \in todo
  /\ todo' = todo \ {o}
  /\ passed' = IF clean THEN passed \union {o} ELSE passed
  /\ bad' = IF clean THEN bad \ {o} ELSE bad \union {o}
  /\ UNCHANGED <<gen, done, pc, rows, files>>

Checked ==
  /\ pc = "check" /\ todo = {}
  /\ pc' = "report"
  /\ UNCHANGED <<ledger, todo, rows, files>>

WrongVerifyReport ==   \* writes no report when there is nothing to list
  /\ pc = "report"
  /\ rows' = bad
  /\ IF bad = {} THEN pc' = "complete" /\ UNCHANGED temp
     ELSE pc' = "write" /\ temp' = [gen |-> gen, rows |-> {}, whole |-> FALSE,
                                    synced |-> FALSE]
  /\ UNCHANGED <<ledger, todo, path, old, lost>>

\* The rows are read and a temporary file is made beside the report.
VerifyReport ==
  /\ pc = "report"
  /\ rows' = bad
  /\ temp' = [gen |-> gen, rows |-> {}, whole |-> FALSE, synced |-> FALSE]
  /\ pc' = "write"
  /\ UNCHANGED <<ledger, todo, path, old, lost>>

Write(o) ==
  /\ pc = "write" /\ o \in rows \ temp.rows
  /\ temp' = [temp EXCEPT !.rows = @ \union {o}]
  /\ UNCHANGED <<ledger, pc, todo, rows, path, old, lost>>

Flush ==
  /\ pc = "write" /\ temp.rows = rows
  /\ temp' = [temp EXCEPT !.whole = TRUE]
  /\ pc' = "sync"
  /\ UNCHANGED <<ledger, todo, rows, path, old, lost>>

WrongSync ==   \* leaves the data to the kernel
  /\ pc = "sync"
  /\ pc' = "rename"
  /\ UNCHANGED <<ledger, todo, rows, files>>

Sync ==
  /\ pc = "sync"
  /\ temp' = [temp EXCEPT !.synced = TRUE]
  /\ pc' = "rename"
  /\ UNCHANGED <<ledger, todo, rows, path, old, lost>>

Rename ==
  /\ pc = "rename"
  /\ path' = temp /\ old' = path /\ temp' = NoFile
  /\ lost' = FALSE
  /\ pc' = "complete"
  /\ UNCHANGED <<ledger, todo, rows>>

\* Refused unless every object has passed in this generation.
CompleteVerify ==
  /\ pc = "complete" /\ passed = Oids
  /\ done' = TRUE
  /\ pc' = "idle"
  /\ UNCHANGED <<gen, passed, bad, todo, rows, files>>

\* An error, the end of the command, or a kill.
Exit ==
  /\ pc # "idle"
  /\ pc' = "idle" /\ todo' = {} /\ rows' = {} /\ temp' = NoFile
  /\ UNCHANGED <<ledger, path, old, lost>>

\* A repair: purge voids the verdicts of a task that is not done.
BeginPurge ==
  /\ pc = "idle" /\ ~done /\ gen < MaxGen
  /\ gen' = gen + 1 /\ passed' = {} /\ bad' = {}
  /\ UNCHANGED <<done, pc, todo, rows, files>>

\* Data that was not synced may be missing in part.
Remains(f) == IF f.synced THEN {f} ELSE {f, [f EXCEPT !.whole = FALSE]}

PowerLoss ==
  /\ path' \in Remains(path) \union Remains(old)
  /\ old' = path' /\ temp' = NoFile
  /\ pc' = "idle" /\ todo' = {} /\ rows' = {}
  /\ lost' = TRUE
  /\ UNCHANGED ledger

Next ==
  \/ Export \/ \E restart \in BOOLEAN : BeginVerify(restart)
  \/ \E o \in Oids, clean \in BOOLEAN : Check(o, clean)
  \/ Checked \/ VerifyReport \/ \E o \in Oids : Write(o)
  \/ Flush \/ Sync \/ Rename \/ CompleteVerify
  \/ Exit \/ BeginPurge \/ PowerLoss

Spec == Init /\ [][Next]_vars

-----------------------------------------------------------------------------

\* An export that fails, is killed or loses power leaves a whole report, the new
\* one or the one before, never a partial file.
NeverPartial == path.whole

\* A task that is done has a report of the generation that passed, without a
\* residue row: done_at is set last, and nothing but a new generation or a loss
\* of power comes between them.
DoneHasReport == done /\ ~lost => path.gen = gen /\ path.rows = {}

=============================================================================
