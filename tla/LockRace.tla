------------------------------ MODULE LockRace ------------------------------
(***************************************************************************)
(* Two commands at once, because the first has lost the execution lock and *)
(* does not know it yet.  The lock is a MySQL session lock with no fencing *)
(* token: a command asks whether it still owns the lock before a write,    *)
(* and the lock may go between the answer and the write.  So a command is  *)
(* broken up here into its statements: a transaction or a single statement *)
(* is one step, the check before it another.                               *)
(*                                                                         *)
(* The workers of a purge each check and write for themselves, so that     *)
(* several of them may stand between the two when the lock goes.           *)
(*                                                                         *)
(* task create, purge and verify are modelled.  Holds and deferrals, and   *)
(* the requests to the bucket, are in module Subtasks; what a look at the  *)
(* bucket finds is left open.                                              *)
(***************************************************************************)
EXTENDS Integers, FiniteSets, TLC

CONSTANTS Procs,      \* processes, each running one command after another
          Oids,       \* the sealed list
          Workers,    \* Concurrency, the workers of a purge
          MaxTasks,   \* bound: rows of purge_tasks
          MaxGen,     \* bound: verify_generation
          MaxLosses   \* bound: how often the server drops a lock

ASSUME OidsAssumption == Oids \subseteq Nat \ {0}
ASSUME BoundsAssumption == /\ Workers \in Nat \ {0}
                           /\ MaxTasks \in Nat /\ MaxGen \in Nat /\ MaxLosses \in Nat

\* The processes are alike.
ProcSymmetry == Permutations(Procs)

TaskIds == 1..MaxTasks
Nobody == "nobody"
ASSUME ProcsAssumption == Nobody \notin Procs

\* idle; opened: GET_LOCK succeeded; schema; open: schema ensured; then create (c_),
\* purge (p_) and verify (v_); over: about to exit.  "..._write", "..._commit",
\* "..._record" and "..._end" stand between a check of the lock and the statement it
\* allows; at "p_loop" so do the workers whose object is in writing.
Pcs == {"idle", "opened", "schema", "open", "over",
        "c_begin", "c_insert", "c_commit",
        "p_begin", "p_write", "p_claim", "p_loop", "p_end",
        "v_begin", "v_write", "v_read", "v_page", "v_loop", "v_record", "v_end"}

VARIABLES
  owner, losses,                       \* GET_LOCK's owner; losses so far
  rowLock,                             \* who holds task_meta FOR UPDATE
  nTasks, member, phase, gen, purged, done,  \* purge_tasks and task_objects
  vgen, vstat,
  prog,                                \* objects with a progress row "done"
  pc,
  task, sgen,      \* the row a command has read: its id and generation
  restart,         \* --restart
  todo,            \* rows of the page a command has read
  writing,         \* of these, the ones whose result is about to be written
  failed,          \* of these, the ones whose deletion failed: the run is stopped
  picked,          \* what CreateSubtask selected
  late,            \* history: writes since the command lost the lock
  clean,           \* history: members that passed since the last purge began
  voided           \* history: a purge began since this verify did

lockVars == <<owner, losses, rowLock>>
taskVars == <<nTasks, member, phase, gen, purged, done>>
verifyVars == <<vgen, vstat>>
pageVars == <<todo, writing, failed>>
procVars == <<pc, task, sgen, restart, pageVars, picked>>
history  == <<late, clean, voided>>
vars == <<lockVars, taskVars, verifyVars, prog, procVars, history>>

Created    == 1..nTasks
Unfinished == {t \in Created : ~purged[t] /\ ~done[t]}
Assigned   == UNION {member[t] : t \in Created}
Lowest(S)  == {x \in S : \A y \in S : x <= y}
AllProcessed(t) == member[t] \subseteq prog

Init ==
  /\ owner = Nobody /\ losses = 0 /\ rowLock = Nobody
  /\ nTasks = 0
  /\ member = [t \in TaskIds |-> {}]
  /\ phase = [t \in TaskIds |-> "READY"]
  /\ gen = [t \in TaskIds |-> 1]
  /\ purged = [t \in TaskIds |-> FALSE]
  /\ done = [t \in TaskIds |-> FALSE]
  /\ vgen = [t \in TaskIds |-> [o \in Oids |-> 0]]
  /\ vstat = [t \in TaskIds |-> [o \in Oids |-> "PENDING"]]
  /\ prog = {}
  /\ pc = [p \in Procs |-> "idle"]
  /\ task = [p \in Procs |-> 0]
  /\ sgen = [p \in Procs |-> 0]
  /\ restart = [p \in Procs |-> FALSE]
  /\ todo = [p \in Procs |-> {}]
  /\ writing = [p \in Procs |-> {}]
  /\ failed = [p \in Procs |-> {}]
  /\ picked = [p \in Procs |-> {}]
  /\ late = [p \in Procs |-> 0]
  /\ clean = [t \in TaskIds |-> {}]
  /\ voided = [p \in Procs |-> FALSE]

-----------------------------------------------------------------------------
(* The lock.                                                               *)

\* The session of the owner ends on the server; the process does not notice.
Lose ==
  /\ owner # Nobody /\ losses < MaxLosses
  /\ owner' = Nobody
  /\ losses' = losses + 1
  /\ UNCHANGED <<rowLock, taskVars, verifyVars, prog, procVars, history>>

\* GET_LOCK(name, 0).
Open(p) ==
  /\ pc[p] = "idle" /\ owner = Nobody
  /\ owner' = p
  /\ pc' = [pc EXCEPT ![p] = "opened"]
  /\ UNCHANGED <<losses, rowLock, taskVars, verifyVars, prog, task, sgen, restart,
                 pageVars, picked, history>>

\* The command ends: a check said no, the heartbeat cancelled it, a query failed,
\* it is refused, it is killed, or it is through.  An open transaction rolls back.
Leave(p) ==
  /\ pc[p] # "idle"
  /\ owner' = IF owner = p THEN Nobody ELSE owner
  /\ rowLock' = IF rowLock = p THEN Nobody ELSE rowLock
  /\ pc' = [pc EXCEPT ![p] = "idle"]
  /\ task' = [task EXCEPT ![p] = 0]
  /\ sgen' = [sgen EXCEPT ![p] = 0]
  /\ restart' = [restart EXCEPT ![p] = FALSE]
  /\ todo' = [todo EXCEPT ![p] = {}]
  /\ writing' = [writing EXCEPT ![p] = {}]
  /\ failed' = [failed EXCEPT ![p] = {}]
  /\ picked' = [picked EXCEPT ![p] = {}]
  /\ late' = [late EXCEPT ![p] = 0]
  /\ voided' = [voided EXCEPT ![p] = FALSE]
  /\ UNCHANGED <<losses, taskVars, verifyVars, prog, clean>>

WrongOwns(p) == TRUE   \* leaves it to the heartbeat

\* IS_USED_LOCK on the session that took the lock.
Owns(p) == owner = p

\* A check that passes, and the reads up to the write it allows.
Check(p, from, to) ==
  /\ pc[p] = from
  /\ Owns(p)
  /\ pc' = [pc EXCEPT ![p] = to]

Goto(p, from, to) ==
  /\ pc[p] = from
  /\ pc' = [pc EXCEPT ![p] = to]

\* A statement of p is committed; counted when p does not own the lock any more.
Wrote(p) == late' = [late EXCEPT ![p] = IF owner = p THEN @ ELSE @ + 1]

\* EnsureSchema checks once, before its first statement.
SchemaChecks(p) ==
  /\ Check(p, "opened", "schema")
  /\ UNCHANGED <<lockVars, taskVars, verifyVars, prog, task, sgen, restart, pageVars, picked,
                 history>>

\* Its last statement recovers the deletion milestone.
EnsureSchema(p) ==
  /\ Goto(p, "schema", "open")
  /\ purged' = [t \in TaskIds |->
                  purged[t] \/ (t \in Created /\ phase[t] # "READY" /\ AllProcessed(t))]
  /\ UNCHANGED <<lockVars, nTasks, member, phase, gen, done, verifyVars, prog, task,
                 sgen, restart, pageVars, picked, history>>

-----------------------------------------------------------------------------
(* task create                                                             *)

\* No current task, no result outside the tasks; read before the transaction.
CreateChecks(p) ==
  /\ Check(p, "open", "c_begin")
  /\ Unfinished = {} /\ prog \subseteq Assigned
  /\ UNCHANGED <<lockVars, taskVars, verifyVars, prog, task, sgen, restart, pageVars, picked,
                 history>>

WrongCreateSelects(p) ==   \* reads the candidates without the row lock
  /\ Goto(p, "c_begin", "c_insert")
  /\ nTasks < MaxTasks
  /\ Oids \ Assigned # {}
  /\ \E n \in Oids \ Assigned :
       picked' = [picked EXCEPT ![p] = {o \in Oids \ Assigned : o <= n}]
  /\ UNCHANGED <<lockVars, taskVars, verifyVars, prog, task, sgen, restart, pageVars, history>>

\* BEGIN; SELECT ... FOR UPDATE waits for whoever is allocating; the candidates
\* are read after that, so they exclude what a committed create has taken.
CreateSelects(p) ==
  /\ Goto(p, "c_begin", "c_insert")
  /\ rowLock = Nobody
  /\ nTasks < MaxTasks
  /\ rowLock' = p
  /\ \E n \in Oids \ Assigned :
       picked' = [picked EXCEPT ![p] = {o \in Oids \ Assigned : o <= n}]
  /\ UNCHANGED <<owner, losses, taskVars, verifyVars, prog, task, sgen, restart, pageVars,
                 history>>

\* The second check, after the inserts.
CreateRechecks(p) ==
  /\ Check(p, "c_insert", "c_commit")
  /\ UNCHANGED <<lockVars, taskVars, verifyVars, prog, task, sgen, restart, pageVars, picked,
                 history>>

\* The auto-increment id, the row and its members become visible.
CreateCommits(p) ==
  LET t == nTasks + 1 IN
  /\ Goto(p, "c_commit", "over")
  /\ nTasks < MaxTasks
  /\ nTasks' = t
  /\ member' = [member EXCEPT ![t] = picked[p]]
  /\ rowLock' = IF rowLock = p THEN Nobody ELSE rowLock
  /\ picked' = [picked EXCEPT ![p] = {}]
  /\ Wrote(p)
  /\ UNCHANGED <<owner, losses, phase, gen, purged, done, verifyVars, prog, task, sgen,
                 restart, pageVars, clean, voided>>

-----------------------------------------------------------------------------
(* purge --execute                                                         *)

\* ResolvePurgeSubtask: the current task, or one to repair.
PurgeResolves(p) ==
  /\ Goto(p, "open", "p_begin")
  /\ \E t \in Created :
       /\ ~done[t]
       /\ purged[t] \/ Unfinished = {t}
       /\ task' = [task EXCEPT ![p] = t]
  /\ UNCHANGED <<lockVars, taskVars, verifyVars, prog, sgen, restart, pageVars, picked, history>>

PurgeChecks(p) ==
  /\ Check(p, "p_begin", "p_write")
  /\ UNCHANGED <<lockVars, taskVars, verifyVars, prog, task, sgen, restart, pageVars, picked,
                 history>>

\* One transaction: residue is requeued and, unless a late verify has finished the
\* task, the generation goes up.
BeginPurge(p) ==
  LET t == task[p] IN
  /\ Goto(p, "p_write", "p_claim")
  /\ gen[t] < MaxGen
  /\ prog' = prog \ {o \in member[t] : vstat[t][o] = "RESIDUE"}
  /\ IF done[t]
     THEN UNCHANGED <<phase, gen, clean, voided>>
     ELSE /\ phase' = [phase EXCEPT ![t] = "PURGE"]
          /\ gen' = [gen EXCEPT ![t] = @ + 1]
          /\ clean' = [clean EXCEPT ![t] = {}]
          /\ voided' = [q \in Procs |-> voided[q] \/ (q # p /\ task[q] = t)]
  /\ Wrote(p)
  /\ UNCHANGED <<lockVars, nTasks, member, purged, done, verifyVars, task, sgen, restart,
                 pageVars, picked>>

\* ClaimSubtask (one page), after a check.
Claim(p) ==
  LET t == task[p] IN
  /\ Check(p, "p_claim", "p_loop")
  /\ todo' = [todo EXCEPT ![p] =
                {o \in member[t] : o \notin prog \/ vstat[t][o] = "RESIDUE"}]
  /\ UNCHANGED <<lockVars, taskVars, verifyVars, prog, task, sgen, restart, writing, failed,
                 picked, history>>

\* The objects the workers can have in hand; they take them in OID order.
InHand(p) == {o \in todo[p] : Cardinality({u \in todo[p] : u < o}) < Workers}

\* A worker is through with o, and the lock is checked for its write.  Those before o
\* and those about to be written are in other workers' hands.
WorkerChecks(p, o) ==
  /\ Check(p, "p_loop", "p_loop")
  /\ o \in todo[p] \ writing[p]
  /\ Cardinality({u \in todo[p] \ writing[p] : u < o}) + Cardinality(writing[p]) < Workers
  /\ writing' = [writing EXCEPT ![p] = @ \union {o}]
  /\ UNCHANGED <<lockVars, taskVars, verifyVars, prog, task, sgen, restart, picked, history>>

\* An object is cleared; the check is DoneSubtask's.
PurgeObject(p, o) ==
  /\ WorkerChecks(p, o)
  /\ UNCHANGED <<todo, failed>>

\* Its deletion failed: no other object is begun, and the ones in hand go on.  The
\* check is CheckMember's.
FailObject(p, o) ==
  /\ WorkerChecks(p, o)
  /\ failed' = [failed EXCEPT ![p] = @ \union {o}]
  /\ todo' = [todo EXCEPT ![p] = InHand(p)]

\* A worker's write is committed.
WorkerWrites(p, o) ==
  /\ pc[p] = "p_loop"
  /\ o \in writing[p]
  /\ writing' = [writing EXCEPT ![p] = @ \ {o}]
  /\ todo' = [todo EXCEPT ![p] = @ \ {o}]
  /\ Wrote(p)
  /\ UNCHANGED <<lockVars, taskVars, pc, task, sgen, restart, failed, picked, clean, voided>>

\* DoneSubtask: result and verdict in one transaction.
RecordDone(p, o) ==
  /\ WorkerWrites(p, o)
  /\ o \notin failed[p]
  /\ prog' = prog \union {o}
  /\ vgen' = [vgen EXCEPT ![task[p]][o] = 0]
  /\ vstat' = [vstat EXCEPT ![task[p]][o] = "PENDING"]

\* Fail: the progress row says "failed", whatever it said before.
RecordFail(p, o) ==
  /\ WorkerWrites(p, o)
  /\ o \in failed[p]
  /\ prog' = prog \ {o}
  /\ UNCHANGED verifyVars

\* Run returned nil: every object was recorded and none had failed.
PurgeCounts(p) ==
  /\ Check(p, "p_loop", "p_end")
  /\ todo[p] = {} /\ writing[p] = {} /\ failed[p] = {} /\ AllProcessed(task[p])
  /\ UNCHANGED <<lockVars, taskVars, verifyVars, prog, task, sgen, restart, pageVars, picked,
                 history>>

CompletePurge(p) ==
  LET t == task[p] IN
  /\ Goto(p, "p_end", "over")
  /\ purged' = [purged EXCEPT ![t] = @ \/ ~done[t]]
  /\ phase' = [phase EXCEPT ![t] = IF done[t] THEN @ ELSE "PURGE"]
  /\ task' = [task EXCEPT ![p] = 0]
  /\ Wrote(p)
  /\ UNCHANGED <<lockVars, nTasks, member, gen, done, verifyVars, prog, sgen, restart,
                 pageVars, picked, clean, voided>>

-----------------------------------------------------------------------------
(* verify                                                                  *)

\* ResolveVerifySubtask reads the row, its generation with it.
VerifyResolves(p, t, again) ==
  /\ Goto(p, "open", "v_begin")
  /\ task' = [task EXCEPT ![p] = t]
  /\ sgen' = [sgen EXCEPT ![p] = gen[t]]
  /\ done[t] => again
  /\ restart' = [restart EXCEPT ![p] = again]
  /\ UNCHANGED <<lockVars, taskVars, verifyVars, prog, pageVars, picked, history>>

VerifyChecks(p) ==
  /\ Check(p, "v_begin", "v_write")
  /\ AllProcessed(task[p])
  /\ UNCHANGED <<lockVars, taskVars, verifyVars, prog, task, sgen, restart, pageVars, picked,
                 history>>

\* The generation that was read (plus one for --restart) is written, whatever the
\* row holds by now.
BeginVerify(p) ==
  LET t == task[p]
      g == IF restart[p] THEN sgen[p] + 1 ELSE sgen[p]
  IN  /\ Goto(p, "v_write", "v_read")
      /\ g <= MaxGen
      /\ phase' = [phase EXCEPT ![t] = "VERIFY"]
      /\ gen' = [gen EXCEPT ![t] = g]
      /\ done' = [done EXCEPT ![t] = FALSE]
      /\ purged' = [purged EXCEPT ![t] = TRUE]
      /\ voided' = [voided EXCEPT ![p] = FALSE]
      /\ Wrote(p)
      /\ UNCHANGED <<lockVars, nTasks, member, verifyVars, prog, task, sgen, restart, pageVars,
                     picked, clean>>

\* The row is read back.
VerifyReads(p) ==
  /\ Goto(p, "v_read", "v_page")
  /\ sgen' = [sgen EXCEPT ![p] = gen[task[p]]]
  /\ UNCHANGED <<lockVars, taskVars, verifyVars, prog, task, restart, pageVars, picked, history>>

\* VerifyPending (one page).
VerifyPending(p) ==
  LET t == task[p] IN
  /\ Goto(p, "v_page", "v_loop")
  /\ todo' = [todo EXCEPT ![p] =
                {o \in member[t] : vgen[t][o] # sgen[p] \/ vstat[t][o] # "PASS"}]
  /\ UNCHANGED <<lockVars, taskVars, verifyVars, prog, task, sgen, restart, writing, failed,
                 picked, history>>

\* An object is looked at and the lock checked for RecordVerify.
CheckObject(p) ==
  /\ Check(p, "v_loop", "v_record")
  /\ todo[p] # {}
  /\ UNCHANGED <<lockVars, taskVars, verifyVars, prog, task, sgen, restart, pageVars, picked,
                 history>>

RecordVerify(p, verdict) ==
  LET t == task[p] IN
  /\ Goto(p, "v_record", "v_loop")
  /\ \E o \in Lowest(todo[p]) :
       /\ vgen' = [vgen EXCEPT ![t][o] = sgen[p]]
       /\ vstat' = [vstat EXCEPT ![t][o] = verdict]
       /\ todo' = [todo EXCEPT ![p] = @ \ {o}]
       /\ clean' = [clean EXCEPT ![t] = IF verdict = "PASS" THEN @ \union {o} ELSE @]
  /\ Wrote(p)
  /\ UNCHANGED <<lockVars, taskVars, prog, task, sgen, restart, writing, failed, picked,
                 voided>>

\* SubCounts counts PASS of the row's generation.
Verified(t) == {o \in member[t] : vgen[t][o] = gen[t] /\ vstat[t][o] = "PASS"}

VerifyCounts(p) ==
  LET t == task[p] IN
  /\ Check(p, "v_loop", "v_end")
  /\ todo[p] = {} /\ AllProcessed(t) /\ Verified(t) = member[t]
  /\ UNCHANGED <<lockVars, taskVars, verifyVars, prog, task, sgen, restart, pageVars, picked,
                 history>>

WrongMayFinish(p) == phase[task[p]] = "VERIFY"   \* forgets the generation

\* The guard of the UPDATE.
MayFinish(p) == phase[task[p]] = "VERIFY" /\ gen[task[p]] = sgen[p]

CompleteVerify(p) ==
  /\ Goto(p, "v_end", "over")
  /\ done' = [done EXCEPT ![task[p]] = @ \/ MayFinish(p)]
  /\ task' = [task EXCEPT ![p] = 0]
  /\ Wrote(p)
  /\ UNCHANGED <<lockVars, nTasks, member, phase, gen, purged, verifyVars, prog, sgen,
                 restart, pageVars, picked, clean, voided>>

-----------------------------------------------------------------------------

Command(p) ==
  \/ Open(p) \/ Leave(p) \/ SchemaChecks(p) \/ EnsureSchema(p)
  \/ CreateChecks(p) \/ CreateSelects(p) \/ CreateRechecks(p) \/ CreateCommits(p)
  \/ PurgeResolves(p) \/ PurgeChecks(p) \/ BeginPurge(p) \/ Claim(p)
  \/ \E o \in Oids : PurgeObject(p, o) \/ FailObject(p, o) \/ RecordDone(p, o) \/ RecordFail(p, o)
  \/ PurgeCounts(p) \/ CompletePurge(p)
  \/ \E t \in Created, again \in BOOLEAN : VerifyResolves(p, t, again)
  \/ VerifyChecks(p) \/ BeginVerify(p) \/ VerifyReads(p) \/ VerifyPending(p)
  \/ CheckObject(p) \/ \E verdict \in {"PASS", "RESIDUE"} : RecordVerify(p, verdict)
  \/ VerifyCounts(p) \/ CompleteVerify(p)

Next == Lose \/ \E p \in Procs : Command(p)

Spec == Init /\ [][Next]_vars

-----------------------------------------------------------------------------
(* Correctness.                                                            *)

\* No object is in two tasks: "the create transaction and the execution lock of
\* the database guarantee that two processes do not allocate it twice"
\* (SUBTASK_DESIGN.md).  The row lock does, also when both are in CreateSubtask.
NoOverlap == \A t, u \in Created : t # u => member[t] \intersect member[u] = {}

\* A command that has opened the database and then loses the lock commits one more
\* statement at most, and a purge at most one for each of its workers: each write of
\* create, purge and verify has a check of its own, so none outlives the next one.
LateWrites ==
  \A p \in Procs : late[p] <= (IF pc[p] = "p_loop" THEN Workers ELSE 1)

\* A verify during which a purge of its task began never sets done_at, although
\* its counts were taken, and the lock checked, before the purge began.  This is
\* for one loss of the lock; with two, a third command may put the generation back
\* (see NoOldPass).
VoidedNeverFinishes ==
  [][\A p \in Procs : pc[p] = "v_end" /\ pc'[p] = "over" /\ voided[p]
                      => \A t \in TaskIds : done'[t] => done[t]]_vars

\* "at most one batch whose first deletion is unfinished" (SUBTASK_DESIGN.md).
OneUnfinished == \A t, u \in Unfinished : t = u

\* "after another cleaning the whole batch must be verified again, old PASS must
\* not be reused" (SUBTASK_DESIGN.md): done_at only over verdicts of checks made
\* since the last purge of the task began.
NoOldPass == \A t \in Created : done[t] => member[t] \subseteq clean[t]

=============================================================================
