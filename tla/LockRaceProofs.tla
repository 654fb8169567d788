--------------------------- MODULE LockRaceProofs ---------------------------
(***************************************************************************)
(* What survives the loss of the execution lock, for every number of       *)
(* processes, objects, tasks and generations.                              *)
(***************************************************************************)
EXTENDS LockRace, FiniteSetTheorems, TLAPS

USE OidsAssumption, BoundsAssumption, ProcsAssumption
USE DEF TaskIds, Created, lockVars, taskVars, verifyVars, pageVars, procVars, history

\* Between a check of the lock and the statement it allows; the workers of a purge are
\* in Workload.
Pending == {"c_commit", "p_write", "p_end", "v_write", "v_record", "v_end"}

\* A command that works on a task; a verify that has read its row, and read it
\* again after it began.
Working == {"p_begin", "p_write", "p_claim", "p_loop", "p_end",
            "v_begin", "v_write", "v_read", "v_page", "v_loop", "v_record", "v_end"}
Begun   == {"v_read", "v_page", "v_loop", "v_record", "v_end"}
HasRead == {"v_begin", "v_write"} \union (Begun \ {"v_read"})

\* A command that has lost the lock.
Stale(p) == pc[p] # "idle" /\ owner # p

-----------------------------------------------------------------------------
(* The inductive invariant, whatever the number of losses.                 *)

LockTypes == /\ owner \in Procs \union {Nobody} /\ losses \in Nat
             /\ rowLock \in Procs \union {Nobody}
TaskTypes == /\ nTasks \in 0..MaxTasks
             /\ member \in [TaskIds -> SUBSET Oids]
             /\ gen \in [TaskIds -> Nat]
             /\ phase \in [TaskIds -> {"READY", "PURGE", "VERIFY"}]
             /\ done \in [TaskIds -> BOOLEAN]
ProcTypes == /\ pc \in [Procs -> Pcs]
             /\ task \in [Procs -> TaskIds \union {0}]
             /\ sgen \in [Procs -> Nat]
             /\ restart \in [Procs -> BOOLEAN]
             /\ picked \in [Procs -> SUBSET Oids]
             /\ late \in [Procs -> Nat]
             /\ voided \in [Procs -> BOOLEAN]

\* The row lock is held by the one command between its FOR UPDATE and its COMMIT,
\* and what it has picked is in no task.
Allocation ==
  /\ \A t \in TaskIds : t > nTasks => member[t] = {}
  /\ \A p \in Procs : pc[p] \in {"c_insert", "c_commit"} <=> rowLock = p
  /\ \A p \in Procs : rowLock = p => \A t \in TaskIds : picked[p] \intersect member[t] = {}

\* A command owns the lock until it loses it, and has then no statement left but
\* the one it was about to make; a purge in its loop is in Workload.
Lateness ==
  /\ \A p \in Procs : owner = p => pc[p] # "idle"
  /\ \A p \in Procs : owner = p \/ pc[p] \in Pending \union {"idle"} => late[p] = 0
  /\ \A p \in Procs : pc[p] # "p_loop" => late[p] <= 1

\* A purge has a worker for each statement it is about to make, and for each it has
\* made too late: a worker makes its next check only after its statement.
Workload ==
  /\ todo \in [Procs -> SUBSET Oids]
  /\ writing \in [Procs -> SUBSET Oids]
  /\ \A p \in Procs :
       /\ IsFiniteSet(writing[p])
       /\ pc[p] # "p_loop" => writing[p] = {}
       /\ pc[p] = "p_loop" => late[p] + Cardinality(writing[p]) <= Workers

\* A command works on a row of purge_tasks.
OnTask == \A p \in Procs : pc[p] \in Working => task[p] \in Created

RaceInv == /\ LockTypes /\ TaskTypes /\ ProcTypes
           /\ Allocation /\ NoOverlap /\ Lateness /\ Workload /\ OnTask

-----------------------------------------------------------------------------
(* What holds besides when the server drops the lock once.                 *)

\* One command has lost the lock at most.
OneStale ==
  /\ losses <= 1
  /\ \A p \in Procs : Stale(p) => losses = 1
  /\ \A p, q \in Procs : Stale(p) /\ Stale(q) => p = q

\* As long as no stale command has written, the owner knows the generation.
KnowsGen ==
  \A p \in Procs :
    owner = p /\ pc[p] \in HasRead /\ (losses = 0 \/ \E q \in Procs : Stale(q) /\ late[q] = 0)
      => sgen[p] = gen[task[p]]

\* A stale verify about to finish has read a generation that is old once a purge of
\* its task has begun.
StaleVerify ==
  \A p \in Procs : Stale(p) /\ pc[p] = "v_end" =>
    /\ sgen[p] <= gen[task[p]]
    /\ voided[p] => sgen[p] < gen[task[p]]

\* A verify that owns the lock is voided by a stale purge only, which has made its
\* BeginPurge too late and never gets to its loop; what it wrote stays.
OwnedVerify ==
  \A p \in Procs : owner = p /\ voided[p] /\ pc[p] \in Begun =>
    /\ losses = 1
    /\ \A q \in Procs : Stale(q) => late[q] >= 1
    /\ \/ phase[task[p]] = "PURGE"
       \/ pc[p] # "v_read" /\ sgen[p] < gen[task[p]]

OneLossInv == RaceInv /\ OneStale /\ KnowsGen /\ StaleVerify /\ OwnedVerify

-----------------------------------------------------------------------------
(* Any number of losses.                                                   *)

\* Which variables a part of the invariant depends on.
LEMMA RaceFrame ==
  ASSUME RaceInv
  PROVE  /\ UNCHANGED <<owner, losses, rowLock>> => LockTypes'
         /\ UNCHANGED <<nTasks, member, gen, phase, done>> => TaskTypes'
         /\ UNCHANGED <<pc, task, sgen, restart, picked, late, voided>> => ProcTypes'
         /\ UNCHANGED <<nTasks, member, pc, rowLock, picked>> => Allocation'
         /\ UNCHANGED <<nTasks, member>> => NoOverlap'
         /\ UNCHANGED <<owner, pc, late>> => Lateness'
         /\ UNCHANGED <<todo, writing, pc, late>> => Workload'
         /\ UNCHANGED <<pc, task, nTasks>> => OnTask'
<1>1. UNCHANGED <<owner, losses, rowLock>> => LockTypes'
  BY DEF RaceInv, LockTypes
<1>2. UNCHANGED <<nTasks, member, gen, phase, done>> => TaskTypes'
  BY DEF RaceInv, TaskTypes
<1>3. UNCHANGED <<pc, task, sgen, restart, picked, late, voided>> => ProcTypes'
  BY DEF RaceInv, ProcTypes
<1>4. UNCHANGED <<nTasks, member, pc, rowLock, picked>> => Allocation'
  BY DEF RaceInv, Allocation
<1>5. UNCHANGED <<nTasks, member>> => NoOverlap'
  BY DEF RaceInv, NoOverlap
<1>6. UNCHANGED <<owner, pc, late>> => Lateness'
  BY DEF RaceInv, Lateness
<1>7. UNCHANGED <<todo, writing, pc, late>> => Workload'
  BY DEF RaceInv, Workload
<1>8. UNCHANGED <<pc, task, nTasks>> => OnTask'
  BY DEF RaceInv, OnTask
<1> QED
  BY <1>1, <1>2, <1>3, <1>4, <1>5, <1>6, <1>7, <1>8

\* A step of p outside the loop of a purge: no worker of p is about to write.
LEMMA WorkElsewhere ==
  ASSUME RaceInv, NEW p \in Procs, NEW k, pc' = [pc EXCEPT ![p] = k], k # "p_loop",
         todo' \in [Procs -> SUBSET Oids], UNCHANGED writing, writing[p] = {},
         \A q \in Procs \ {p} : late'[q] = late[q]
  PROVE  Workload'
<1>1. /\ pc \in [Procs -> Pcs] /\ writing \in [Procs -> SUBSET Oids]
      /\ \A q \in Procs :
           /\ IsFiniteSet(writing[q])
           /\ pc[q] # "p_loop" => writing[q] = {}
           /\ pc[q] = "p_loop" => late[q] + Cardinality(writing[q]) <= Workers
  BY DEF RaceInv, ProcTypes, Workload
<1>2. ASSUME NEW q \in Procs
      PROVE  /\ IsFiniteSet(writing'[q])
             /\ pc'[q] # "p_loop" => writing'[q] = {}
             /\ pc'[q] = "p_loop" => late'[q] + Cardinality(writing'[q]) <= Workers
  <2>1. CASE q = p
    BY <1>1, <2>1
  <2>2. CASE q # p
    BY <1>1, <2>2
  <2> QED
    BY <2>1, <2>2
<1> QED
  BY <1>1, <1>2 DEF Workload

\* A page is a set of objects, and a command that is not in the loop has no worker.
LEMMA WorkTypes ==
  ASSUME RaceInv
  PROVE  /\ todo \in [Procs -> SUBSET Oids]
         /\ \A p \in Procs : pc[p] # "p_loop" => writing[p] = {}
         /\ late \in [Procs -> Nat]
  BY DEF RaceInv, Workload, ProcTypes

\* The server drops the lock: its owner has made no late write so far.
LEMMA LoseRace ==
  ASSUME RaceInv, Lose
  PROVE  RaceInv'
<1>1. LockTypes'
  BY DEF RaceInv, LockTypes, Lose
<1>2. Lateness'
  BY DEF RaceInv, Lateness, Lose
<1>3. TaskTypes' /\ ProcTypes' /\ Allocation' /\ NoOverlap' /\ Workload' /\ OnTask'
  BY RaceFrame DEF Lose
<1> QED
  BY <1>1, <1>2, <1>3 DEF RaceInv

\* GET_LOCK gives the free lock to a command that has written nothing.
LEMMA OpenRace ==
  ASSUME RaceInv, NEW p \in Procs, Open(p)
  PROVE  RaceInv'
<1>1. LockTypes'
  BY DEF RaceInv, LockTypes, Open
<1>2. ProcTypes'
  BY DEF RaceInv, ProcTypes, Pcs, Open
<1>3. Allocation'
  BY DEF RaceInv, Allocation, Open
<1>4. Lateness'
  BY DEF RaceInv, ProcTypes, Lateness, Open
<1>5. OnTask'
  BY DEF RaceInv, OnTask, Working, Open
<1>6. TaskTypes' /\ NoOverlap'
  BY RaceFrame DEF Open
<1>7. Workload'
  BY WorkElsewhere, WorkTypes DEF Open
<1> QED
  BY <1>1, <1>2, <1>3, <1>4, <1>5, <1>6, <1>7 DEF RaceInv

\* The transaction rolls back and the row lock is free; the lock, if owned, is
\* released.
LEMMA LeaveRace ==
  ASSUME RaceInv, NEW p \in Procs, Leave(p)
  PROVE  RaceInv'
<1>1. LockTypes'
  BY DEF RaceInv, LockTypes, Leave
<1>2. ProcTypes'
  BY DEF RaceInv, ProcTypes, Pcs, Leave
<1>3. Allocation'
  BY DEF RaceInv, ProcTypes, Allocation, Leave
<1>4. Lateness'
  BY DEF RaceInv, ProcTypes, Lateness, Leave
<1>5. Workload'
  BY FS_EmptySet DEF RaceInv, ProcTypes, Workload, Leave
<1>6. OnTask'
  BY DEF RaceInv, ProcTypes, OnTask, Working, Leave
<1>7. TaskTypes' /\ NoOverlap'
  BY RaceFrame DEF Leave
<1> QED
  BY <1>1, <1>2, <1>3, <1>4, <1>5, <1>6, <1>7 DEF RaceInv

\* A check that passes is the owner's.
LEMMA SchemaChecksRace ==
  ASSUME RaceInv, NEW p \in Procs, SchemaChecks(p)
  PROVE  RaceInv'
<1>1. ProcTypes'
  BY DEF RaceInv, ProcTypes, Pcs, SchemaChecks, Check
<1>2. Allocation'
  BY DEF RaceInv, Allocation, SchemaChecks, Check
<1>3. Lateness'
  BY DEF RaceInv, Lateness, Pending, SchemaChecks, Check
<1>4. OnTask'
  BY DEF RaceInv, OnTask, Working, SchemaChecks, Check
<1>5. LockTypes' /\ TaskTypes' /\ NoOverlap'
  BY RaceFrame DEF SchemaChecks
<1>6. Workload'
  BY WorkElsewhere, WorkTypes DEF SchemaChecks, Check
<1> QED
  BY <1>1, <1>2, <1>3, <1>4, <1>5, <1>6 DEF RaceInv

\* The milestone is recovered in purged, which no part looks at.
LEMMA EnsureSchemaRace ==
  ASSUME RaceInv, NEW p \in Procs, EnsureSchema(p)
  PROVE  RaceInv'
<1>1. ProcTypes'
  BY DEF RaceInv, ProcTypes, Pcs, EnsureSchema, Goto
<1>2. Allocation'
  BY DEF RaceInv, Allocation, EnsureSchema, Goto
<1>3. Lateness'
  BY DEF RaceInv, Lateness, Pending, EnsureSchema, Goto
<1>4. OnTask'
  BY DEF RaceInv, OnTask, Working, EnsureSchema, Goto
<1>5. LockTypes' /\ TaskTypes' /\ NoOverlap'
  BY RaceFrame DEF EnsureSchema
<1>6. Workload'
  BY WorkElsewhere, WorkTypes DEF EnsureSchema, Goto
<1> QED
  BY <1>1, <1>2, <1>3, <1>4, <1>5, <1>6 DEF RaceInv

\* create has read that no task is current; nothing is written.
LEMMA CreateChecksRace ==
  ASSUME RaceInv, NEW p \in Procs, CreateChecks(p)
  PROVE  RaceInv'
<1>1. ProcTypes'
  BY DEF RaceInv, ProcTypes, Pcs, CreateChecks, Check
<1>2. Allocation'
  BY DEF RaceInv, Allocation, CreateChecks, Check
<1>3. Lateness'
  BY DEF RaceInv, Lateness, Pending, CreateChecks, Check
<1>4. OnTask'
  BY DEF RaceInv, OnTask, Working, CreateChecks, Check
<1>5. LockTypes' /\ TaskTypes' /\ NoOverlap'
  BY RaceFrame DEF CreateChecks
<1>6. Workload'
  BY WorkElsewhere, WorkTypes DEF CreateChecks, Check
<1> QED
  BY <1>1, <1>2, <1>3, <1>4, <1>5, <1>6 DEF RaceInv

\* The candidates are read under the row lock, and exclude every committed task's.
LEMMA CreateSelectsRace ==
  ASSUME RaceInv, NEW p \in Procs, CreateSelects(p)
  PROVE  RaceInv'
<1>1. LockTypes'
  BY DEF RaceInv, LockTypes, CreateSelects
<1>2. ProcTypes'
  BY DEF RaceInv, ProcTypes, Pcs, CreateSelects, Goto
<1>3. Allocation'
  <2>1. rowLock' = p /\ UNCHANGED <<nTasks, member>> /\ pc' = [pc EXCEPT ![p] = "c_insert"]
    BY DEF CreateSelects, Goto
  <2>2. \A t \in TaskIds : picked'[p] \intersect member[t] = {}
    <3>1. PICK n \in Oids \ Assigned :
            picked' = [picked EXCEPT ![p] = {o \in Oids \ Assigned : o <= n}]
      BY DEF CreateSelects
    <3>2. ASSUME NEW t \in TaskIds PROVE member[t] \subseteq Assigned
      <4>1. t \in Created \/ member[t] = {}
        BY DEF RaceInv, TaskTypes, Allocation
      <4> QED
        BY <4>1 DEF Assigned
    <3> QED
      BY <3>1, <3>2 DEF RaceInv, ProcTypes
  <2>3. \A q \in Procs : pc'[q] \in {"c_insert", "c_commit"} <=> rowLock' = q
    BY <2>1 DEF RaceInv, ProcTypes, Allocation, CreateSelects
  <2> QED
    BY <2>1, <2>2, <2>3 DEF RaceInv, Allocation
<1>4. Lateness'
  BY DEF RaceInv, Lateness, Pending, CreateSelects, Goto
<1>5. OnTask'
  BY DEF RaceInv, OnTask, Working, CreateSelects, Goto
<1>6. TaskTypes' /\ NoOverlap'
  BY RaceFrame DEF CreateSelects
<1>7. Workload'
  BY WorkElsewhere, WorkTypes DEF CreateSelects, Goto
<1> QED
  BY <1>1, <1>2, <1>3, <1>4, <1>5, <1>6, <1>7 DEF RaceInv

\* The second check is the owner's.
LEMMA CreateRechecksRace ==
  ASSUME RaceInv, NEW p \in Procs, CreateRechecks(p)
  PROVE  RaceInv'
<1>1. ProcTypes'
  BY DEF RaceInv, ProcTypes, Pcs, CreateRechecks, Check
<1>2. Allocation'
  BY DEF RaceInv, Allocation, CreateRechecks, Check
<1>3. Lateness'
  BY DEF RaceInv, Lateness, CreateRechecks, Check, Owns
<1>4. OnTask'
  BY DEF RaceInv, OnTask, Working, CreateRechecks, Check
<1>5. LockTypes' /\ TaskTypes' /\ NoOverlap'
  BY RaceFrame DEF CreateRechecks
<1>6. Workload'
  BY WorkElsewhere, WorkTypes DEF CreateRechecks, Check
<1> QED
  BY <1>1, <1>2, <1>3, <1>4, <1>5, <1>6 DEF RaceInv

\* The new row's members are what was picked, in no other task; the commit is counted
\* when it is late.
LEMMA CreateCommitsRace ==
  ASSUME RaceInv, NEW p \in Procs, CreateCommits(p)
  PROVE  RaceInv'
<1>1. LockTypes'
  BY DEF RaceInv, LockTypes, CreateCommits
<1>2. TaskTypes'
  BY DEF RaceInv, ProcTypes, TaskTypes, CreateCommits
<1>3. ProcTypes'
  BY DEF RaceInv, ProcTypes, Pcs, CreateCommits, Goto, Wrote
<1>4. Allocation'
  BY DEF RaceInv, TaskTypes, ProcTypes, Allocation, CreateCommits, Goto
<1>5. NoOverlap'
  BY DEF RaceInv, TaskTypes, NoOverlap, Allocation, CreateCommits, Goto
<1>6. Lateness'
  BY DEF RaceInv, ProcTypes, Lateness, Pending, CreateCommits, Goto, Wrote
<1>7. Workload'
  BY WorkElsewhere, WorkTypes DEF CreateCommits, Goto, Wrote
<1>8. OnTask'
  BY DEF RaceInv, TaskTypes, OnTask, Working, CreateCommits, Goto
<1> QED
  BY <1>1, <1>2, <1>3, <1>4, <1>5, <1>6, <1>7, <1>8 DEF RaceInv

\* purge works on a row there is.
LEMMA PurgeResolvesRace ==
  ASSUME RaceInv, NEW p \in Procs, PurgeResolves(p)
  PROVE  RaceInv'
<1>1. ProcTypes'
  BY DEF RaceInv, TaskTypes, ProcTypes, Pcs, PurgeResolves, Goto
<1>2. Allocation'
  BY DEF RaceInv, ProcTypes, Allocation, PurgeResolves, Goto
<1>3. Lateness'
  BY DEF RaceInv, Lateness, Pending, PurgeResolves, Goto
<1>4. OnTask'
  BY DEF RaceInv, ProcTypes, OnTask, PurgeResolves, Goto
<1>5. LockTypes' /\ TaskTypes' /\ NoOverlap'
  BY RaceFrame DEF PurgeResolves
<1>6. Workload'
  BY WorkElsewhere, WorkTypes DEF PurgeResolves, Goto
<1> QED
  BY <1>1, <1>2, <1>3, <1>4, <1>5, <1>6 DEF RaceInv

\* A check that passes is the owner's.
LEMMA PurgeChecksRace ==
  ASSUME RaceInv, NEW p \in Procs, PurgeChecks(p)
  PROVE  RaceInv'
<1>1. ProcTypes'
  BY DEF RaceInv, ProcTypes, Pcs, PurgeChecks, Check
<1>2. Allocation'
  BY DEF RaceInv, Allocation, PurgeChecks, Check
<1>3. Lateness'
  BY DEF RaceInv, Lateness, PurgeChecks, Check, Owns
<1>4. OnTask'
  BY DEF RaceInv, OnTask, Working, PurgeChecks, Check
<1>5. LockTypes' /\ TaskTypes' /\ NoOverlap'
  BY RaceFrame DEF PurgeChecks
<1>6. Workload'
  BY WorkElsewhere, WorkTypes DEF PurgeChecks, Check
<1> QED
  BY <1>1, <1>2, <1>3, <1>4, <1>5, <1>6 DEF RaceInv

\* One transaction, counted when it is late.
LEMMA BeginPurgeRace ==
  ASSUME RaceInv, NEW p \in Procs, BeginPurge(p)
  PROVE  RaceInv'
<1>a. /\ phase' = [phase EXCEPT ![task[p]] = IF done[task[p]] THEN @ ELSE "PURGE"]
      /\ gen' = [gen EXCEPT ![task[p]] = IF done[task[p]] THEN @ ELSE @ + 1]
      /\ task[p] \in TaskIds
  <2>1. task[p] \in TaskIds
    BY DEF RaceInv, TaskTypes, OnTask, Working, BeginPurge, Goto
  <2>2. CASE done[task[p]]
    BY <2>1 DEF RaceInv, TaskTypes, BeginPurge
  <2>3. CASE ~done[task[p]]
    BY <2>1, <2>3 DEF BeginPurge
  <2> QED
    BY <2>2, <2>3
<1>b. voided' \in [Procs -> BOOLEAN]
  <2>1. CASE done[task[p]]
    BY DEF RaceInv, ProcTypes, BeginPurge
  <2>2. CASE ~done[task[p]]
    <3>1. voided' = [q \in Procs |-> voided[q] \/ (q # p /\ task[q] = task[p])]
      BY <2>2 DEF BeginPurge
    <3>2. \A q \in Procs : (voided[q] \/ (q # p /\ task[q] = task[p])) \in BOOLEAN
      OBVIOUS
    <3> QED
      BY <3>1
  <2> QED
    BY <2>1, <2>2
<1>1. TaskTypes'
  BY <1>a DEF RaceInv, TaskTypes, BeginPurge
<1>2. ProcTypes'
  <2>1. pc' \in [Procs -> Pcs] /\ late' \in [Procs -> Nat]
    BY DEF RaceInv, ProcTypes, Pcs, BeginPurge, Goto, Wrote
  <2>2. UNCHANGED <<task, sgen, restart, picked>>
    BY DEF BeginPurge
  <2> QED
    BY <1>b, <2>1, <2>2 DEF RaceInv, ProcTypes
<1>3. Allocation'
  BY DEF RaceInv, ProcTypes, Allocation, BeginPurge, Goto
<1>4. Lateness'
  BY DEF RaceInv, ProcTypes, Lateness, Pending, BeginPurge, Goto, Wrote
<1>5. Workload'
  BY WorkElsewhere, WorkTypes DEF BeginPurge, Goto, Wrote
<1>6. OnTask'
  BY DEF RaceInv, OnTask, Working, BeginPurge, Goto
<1>7. LockTypes' /\ NoOverlap'
  BY RaceFrame DEF BeginPurge
<1> QED
  BY <1>1, <1>2, <1>3, <1>4, <1>5, <1>6, <1>7 DEF RaceInv

\* A page of the task's own members, after a check.
LEMMA ClaimRace ==
  ASSUME RaceInv, NEW p \in Procs, Claim(p)
  PROVE  RaceInv'
<1>1. ProcTypes'
  BY DEF RaceInv, ProcTypes, Pcs, Claim, Check
<1>2. Allocation'
  BY DEF RaceInv, Allocation, Claim, Check
<1>3. Lateness'
  BY DEF RaceInv, Lateness, Pending, Claim, Check
<1>4. OnTask'
  BY DEF RaceInv, OnTask, Working, Claim, Check
<1>5. LockTypes' /\ TaskTypes' /\ NoOverlap'
  BY RaceFrame DEF Claim
<1>6. Workload'
  <2>1. /\ UNCHANGED <<writing, late>> /\ pc' = [pc EXCEPT ![p] = "p_loop"]
        /\ writing[p] = {} /\ late[p] = 0
    BY WorkTypes DEF RaceInv, Lateness, Claim, Check, Owns
  <2>2. todo' \in [Procs -> SUBSET Oids]
    <3>1. task[p] \in TaskIds
      BY DEF RaceInv, TaskTypes, OnTask, Working, Claim, Check
    <3>2. {o \in member[task[p]] : o \notin prog \/ vstat[task[p]][o] = "RESIDUE"} \subseteq Oids
      BY <3>1 DEF RaceInv, TaskTypes
    <3> QED
      BY <3>2, WorkTypes DEF Claim
  <2>3. pc \in [Procs -> Pcs]
    BY DEF RaceInv, ProcTypes
  <2> QED
    BY <2>1, <2>2, <2>3, FS_EmptySet DEF RaceInv, Workload
<1> QED
  BY <1>1, <1>2, <1>3, <1>4, <1>5, <1>6 DEF RaceInv

\* A worker checks for the owner, and there is a worker for what it is about to write.
LEMMA WorkerChecksRace ==
  ASSUME RaceInv, NEW p \in Procs, NEW o \in Oids, WorkerChecks(p, o),
         todo' \in [Procs -> SUBSET Oids]
  PROVE  RaceInv'
<1>1. UNCHANGED <<owner, losses, rowLock, taskVars, pc, task, sgen, restart, picked, late, voided>>
  BY DEF RaceInv, ProcTypes, WorkerChecks, Check
<1>2. /\ owner = p /\ pc[p] = "p_loop" /\ late[p] = 0
      /\ writing' = [writing EXCEPT ![p] = @ \union {o}]
      /\ o \in todo[p] \ writing[p]
  BY DEF RaceInv, Lateness, WorkerChecks, Check, Owns
<1> DEFINE Before == {u \in todo[p] \ writing[p] : u < o}
<1>3. IsFiniteSet(Before)
  <2>1. Before \subseteq 0..o /\ o \in Int
    <3>1. Before \subseteq Oids /\ o \in Nat /\ Oids \subseteq Nat
      BY DEF RaceInv, Workload
    <3>2. ASSUME NEW u \in Before PROVE u \in 0..o
      <4>1. u < o /\ u \in Nat
        BY <3>1
      <4> HIDE DEF Before
      <4> QED
        BY <3>1, <4>1
    <3> HIDE DEF Before
    <3> QED
      BY <3>1, <3>2
  <2>2. IsFiniteSet(0..o)
    BY <2>1, FS_Interval
  <2> HIDE DEF Before
  <2> QED
    BY <2>1, <2>2, FS_Subset
<1>4. Cardinality(writing[p]) < Workers /\ Cardinality(writing[p]) \in Nat
  <2>1. Cardinality(Before) + Cardinality(writing[p]) < Workers
    BY DEF WorkerChecks
  <2>2. IsFiniteSet(writing[p])
    BY DEF RaceInv, Workload
  <2>3. Cardinality(Before) \in Nat /\ Cardinality(writing[p]) \in Nat
    BY <1>3, <2>2, FS_CardinalityType
  <2> HIDE DEF Before
  <2> QED
    BY <2>1, <2>3
<1>5. /\ IsFiniteSet(writing[p] \union {o})
      /\ Cardinality(writing[p] \union {o}) = Cardinality(writing[p]) + 1
  <2>1. IsFiniteSet(writing[p])
    BY DEF RaceInv, Workload
  <2> QED
    BY <1>2, <2>1, FS_AddElement
<1>6. Workload'
  <2>1. writing' \in [Procs -> SUBSET Oids] /\ writing'[p] = writing[p] \union {o}
    BY <1>2 DEF RaceInv, Workload
  <2>2. IsFiniteSet(writing'[p]) /\ late'[p] + Cardinality(writing'[p]) <= Workers
    BY <1>1, <1>2, <1>4, <1>5, <2>1
  <2>3. ASSUME NEW q \in Procs, q # p
        PROVE  /\ IsFiniteSet(writing'[q])
               /\ pc'[q] # "p_loop" => writing'[q] = {}
               /\ pc'[q] = "p_loop" => late'[q] + Cardinality(writing'[q]) <= Workers
    <3>1. writing'[q] = writing[q] /\ pc'[q] = pc[q] /\ late'[q] = late[q]
      BY <1>1, <1>2, <2>3 DEF RaceInv, Workload
    <3> QED
      BY <3>1 DEF RaceInv, Workload
  <2> QED
    BY <1>1, <1>2, <2>1, <2>2, <2>3 DEF Workload
<1>7. LockTypes' /\ TaskTypes' /\ ProcTypes' /\ Allocation' /\ NoOverlap' /\ Lateness' /\ OnTask'
  BY <1>1, RaceFrame
<1> QED
  BY <1>6, <1>7 DEF RaceInv

\* No statement is made.
LEMMA PurgeObjectRace ==
  ASSUME RaceInv, NEW p \in Procs, NEW o \in Oids, PurgeObject(p, o)
  PROVE  RaceInv'
  BY WorkerChecksRace, WorkTypes DEF PurgeObject

\* Nor here; the run goes on with objects of its page.
LEMMA FailObjectRace ==
  ASSUME RaceInv, NEW p \in Procs, NEW o \in Oids, FailObject(p, o)
  PROVE  RaceInv'
<1>1. todo' \in [Procs -> SUBSET Oids]
  BY WorkTypes DEF FailObject, InHand
<1> QED
  BY <1>1, WorkerChecksRace DEF FailObject

\* A worker writes, too late or not: one statement fewer is about to be made.
LEMMA WorkerWritesRace ==
  ASSUME RaceInv, NEW p \in Procs, NEW o \in Oids, WorkerWrites(p, o)
  PROVE  RaceInv'
<1>1. /\ UNCHANGED <<owner, losses, rowLock, taskVars, pc, task, sgen, restart, picked, voided>>
      /\ pc[p] = "p_loop" /\ o \in writing[p]
      /\ writing' = [writing EXCEPT ![p] = @ \ {o}]
      /\ todo' = [todo EXCEPT ![p] = @ \ {o}]
      /\ late' = [late EXCEPT ![p] = IF owner = p THEN @ ELSE @ + 1]
  BY DEF WorkerWrites, Wrote
<1>2. ProcTypes'
  BY <1>1 DEF RaceInv, ProcTypes
<1>3. Lateness'
  BY <1>1 DEF RaceInv, ProcTypes, Lateness, Pending
<1>4. /\ IsFiniteSet(writing[p]) /\ IsFiniteSet(writing[p] \ {o})
      /\ Cardinality(writing[p] \ {o}) = Cardinality(writing[p]) - 1
      /\ Cardinality(writing[p]) \in Nat
  <2>1. IsFiniteSet(writing[p])
    BY DEF RaceInv, Workload
  <2> QED
    BY <1>1, <2>1, FS_RemoveElement, FS_CardinalityType
<1>5. Workload'
  <2>1. /\ writing' \in [Procs -> SUBSET Oids] /\ writing'[p] = writing[p] \ {o}
        /\ todo' \in [Procs -> SUBSET Oids]
    BY <1>1 DEF RaceInv, Workload
  <2>2. late'[p] <= late[p] + 1 /\ late[p] \in Nat /\ late'[p] \in Nat
    BY <1>1 DEF RaceInv, ProcTypes
  <2>3. late[p] + Cardinality(writing[p]) <= Workers
    BY <1>1 DEF RaceInv, Workload
  <2>4. IsFiniteSet(writing'[p]) /\ late'[p] + Cardinality(writing'[p]) <= Workers
    BY <1>4, <2>1, <2>2, <2>3
  <2>5. ASSUME NEW q \in Procs, q # p
        PROVE  /\ IsFiniteSet(writing'[q])
               /\ pc'[q] # "p_loop" => writing'[q] = {}
               /\ pc'[q] = "p_loop" => late'[q] + Cardinality(writing'[q]) <= Workers
    <3>1. writing'[q] = writing[q] /\ pc'[q] = pc[q] /\ late'[q] = late[q]
      BY <1>1, <2>5 DEF RaceInv, ProcTypes, Workload
    <3> QED
      BY <3>1 DEF RaceInv, Workload
  <2> QED
    BY <1>1, <2>1, <2>4, <2>5 DEF Workload
<1>6. LockTypes' /\ TaskTypes' /\ Allocation' /\ NoOverlap' /\ OnTask'
  BY <1>1, RaceFrame
<1> QED
  BY <1>2, <1>3, <1>5, <1>6 DEF RaceInv

\* A check that passes is the owner's.
LEMMA PurgeCountsRace ==
  ASSUME RaceInv, NEW p \in Procs, PurgeCounts(p)
  PROVE  RaceInv'
<1>1. ProcTypes'
  BY DEF RaceInv, ProcTypes, Pcs, PurgeCounts, Check
<1>2. Allocation'
  BY DEF RaceInv, Allocation, PurgeCounts, Check
<1>3. Lateness'
  BY DEF RaceInv, Lateness, PurgeCounts, Check, Owns
<1>4. OnTask'
  BY DEF RaceInv, OnTask, Working, PurgeCounts, Check
<1>5. LockTypes' /\ TaskTypes' /\ NoOverlap'
  BY RaceFrame DEF PurgeCounts
<1>6. Workload'
  BY WorkElsewhere, WorkTypes DEF PurgeCounts, Check
<1> QED
  BY <1>1, <1>2, <1>3, <1>4, <1>5, <1>6 DEF RaceInv

\* One statement, counted when it is late.
LEMMA CompletePurgeRace ==
  ASSUME RaceInv, NEW p \in Procs, CompletePurge(p)
  PROVE  RaceInv'
<1>1. TaskTypes'
  BY DEF RaceInv, TaskTypes, CompletePurge
<1>2. ProcTypes'
  BY DEF RaceInv, ProcTypes, Pcs, CompletePurge, Goto, Wrote
<1>3. Allocation'
  BY DEF RaceInv, Allocation, CompletePurge, Goto
<1>4. Lateness'
  BY DEF RaceInv, ProcTypes, Lateness, Pending, CompletePurge, Goto, Wrote
<1>5. Workload'
  BY WorkElsewhere, WorkTypes DEF CompletePurge, Goto, Wrote
<1>6. OnTask'
  BY DEF RaceInv, ProcTypes, OnTask, Working, CompletePurge, Goto
<1>7. LockTypes' /\ NoOverlap'
  BY RaceFrame DEF CompletePurge
<1> QED
  BY <1>1, <1>2, <1>3, <1>4, <1>5, <1>6, <1>7 DEF RaceInv

\* verify works on a row there is.
LEMMA VerifyResolvesRace ==
  ASSUME RaceInv, NEW p \in Procs, NEW t \in Created, NEW again \in BOOLEAN, VerifyResolves(p, t, again)
  PROVE  RaceInv'
<1>1. ProcTypes'
  BY DEF RaceInv, TaskTypes, ProcTypes, Pcs, VerifyResolves, Goto
<1>2. Allocation'
  BY DEF RaceInv, Allocation, VerifyResolves, Goto
<1>3. Lateness'
  BY DEF RaceInv, Lateness, Pending, VerifyResolves, Goto
<1>4. OnTask'
  BY DEF RaceInv, ProcTypes, OnTask, VerifyResolves, Goto
<1>5. LockTypes' /\ TaskTypes' /\ NoOverlap'
  BY RaceFrame DEF VerifyResolves
<1>6. Workload'
  BY WorkElsewhere, WorkTypes DEF VerifyResolves, Goto
<1> QED
  BY <1>1, <1>2, <1>3, <1>4, <1>5, <1>6 DEF RaceInv

\* A check that passes is the owner's.
LEMMA VerifyChecksRace ==
  ASSUME RaceInv, NEW p \in Procs, VerifyChecks(p)
  PROVE  RaceInv'
<1>1. ProcTypes'
  BY DEF RaceInv, ProcTypes, Pcs, VerifyChecks, Check
<1>2. Allocation'
  BY DEF RaceInv, Allocation, VerifyChecks, Check
<1>3. Lateness'
  BY DEF RaceInv, Lateness, VerifyChecks, Check, Owns
<1>4. OnTask'
  BY DEF RaceInv, OnTask, Working, VerifyChecks, Check
<1>5. LockTypes' /\ TaskTypes' /\ NoOverlap'
  BY RaceFrame DEF VerifyChecks
<1>6. Workload'
  BY WorkElsewhere, WorkTypes DEF VerifyChecks, Check
<1> QED
  BY <1>1, <1>2, <1>3, <1>4, <1>5, <1>6 DEF RaceInv

\* One statement, counted when it is late.
LEMMA BeginVerifyRace ==
  ASSUME RaceInv, NEW p \in Procs, BeginVerify(p)
  PROVE  RaceInv'
<1>1. TaskTypes'
  BY DEF RaceInv, ProcTypes, TaskTypes, OnTask, Working, BeginVerify, Goto, Wrote
<1>2. ProcTypes'
  BY DEF RaceInv, ProcTypes, Pcs, BeginVerify, Goto, Wrote
<1>3. Allocation'
  BY DEF RaceInv, ProcTypes, Allocation, BeginVerify, Goto
<1>4. Lateness'
  BY DEF RaceInv, ProcTypes, Lateness, Pending, BeginVerify, Goto, Wrote
<1>5. Workload'
  BY WorkElsewhere, WorkTypes DEF BeginVerify, Goto, Wrote
<1>6. OnTask'
  BY DEF RaceInv, OnTask, Working, BeginVerify, Goto
<1>7. LockTypes' /\ NoOverlap'
  BY RaceFrame DEF BeginVerify
<1> QED
  BY <1>1, <1>2, <1>3, <1>4, <1>5, <1>6, <1>7 DEF RaceInv

\* Nothing is written.
LEMMA VerifyReadsRace ==
  ASSUME RaceInv, NEW p \in Procs, VerifyReads(p)
  PROVE  RaceInv'
<1>1. ProcTypes'
  BY DEF RaceInv, TaskTypes, ProcTypes, Pcs, OnTask, Working, VerifyReads, Goto
<1>2. Allocation'
  BY DEF RaceInv, Allocation, VerifyReads, Goto
<1>3. Lateness'
  BY DEF RaceInv, Lateness, Pending, VerifyReads, Goto
<1>4. OnTask'
  BY DEF RaceInv, OnTask, Working, VerifyReads, Goto
<1>5. LockTypes' /\ TaskTypes' /\ NoOverlap'
  BY RaceFrame DEF VerifyReads
<1>6. Workload'
  BY WorkElsewhere, WorkTypes DEF VerifyReads, Goto
<1> QED
  BY <1>1, <1>2, <1>3, <1>4, <1>5, <1>6 DEF RaceInv

\* A page of the task's own members, after a check.
LEMMA VerifyPendingRace ==
  ASSUME RaceInv, NEW p \in Procs, VerifyPending(p)
  PROVE  RaceInv'
<1>1. ProcTypes'
  BY DEF RaceInv, ProcTypes, Pcs, VerifyPending, Goto
<1>2. Allocation'
  BY DEF RaceInv, Allocation, VerifyPending, Goto
<1>3. Lateness'
  BY DEF RaceInv, Lateness, Pending, VerifyPending, Goto
<1>4. OnTask'
  BY DEF RaceInv, OnTask, Working, VerifyPending, Goto
<1>5. LockTypes' /\ TaskTypes' /\ NoOverlap'
  BY RaceFrame DEF VerifyPending
<1>6. Workload'
  <2>1. todo' \in [Procs -> SUBSET Oids]
    <3>1. task[p] \in TaskIds
      BY DEF RaceInv, TaskTypes, OnTask, Working, VerifyPending, Goto
    <3>2. {o \in member[task[p]] : vgen[task[p]][o] # sgen[p] \/ vstat[task[p]][o] # "PASS"}
            \subseteq Oids
      BY <3>1 DEF RaceInv, TaskTypes
    <3> QED
      BY <3>2, WorkTypes DEF VerifyPending
  <2> QED
    BY <2>1, WorkElsewhere, WorkTypes DEF VerifyPending, Goto
<1> QED
  BY <1>1, <1>2, <1>3, <1>4, <1>5, <1>6 DEF RaceInv

\* A check that passes is the owner's.
LEMMA CheckObjectRace ==
  ASSUME RaceInv, NEW p \in Procs, CheckObject(p)
  PROVE  RaceInv'
<1>1. ProcTypes'
  BY DEF RaceInv, ProcTypes, Pcs, CheckObject, Check
<1>2. Allocation'
  BY DEF RaceInv, Allocation, CheckObject, Check
<1>3. Lateness'
  BY DEF RaceInv, Lateness, CheckObject, Check, Owns
<1>4. OnTask'
  BY DEF RaceInv, OnTask, Working, CheckObject, Check
<1>5. LockTypes' /\ TaskTypes' /\ NoOverlap'
  BY RaceFrame DEF CheckObject
<1>6. Workload'
  BY WorkElsewhere, WorkTypes DEF CheckObject, Check
<1> QED
  BY <1>1, <1>2, <1>3, <1>4, <1>5, <1>6 DEF RaceInv

\* One statement, counted when it is late.
LEMMA RecordVerifyRace ==
  ASSUME RaceInv, NEW p \in Procs, NEW verdict \in {"PASS", "RESIDUE"}, RecordVerify(p, verdict)
  PROVE  RaceInv'
<1>1. ProcTypes'
  BY DEF RaceInv, ProcTypes, Pcs, RecordVerify, Goto, Wrote
<1>2. Allocation'
  BY DEF RaceInv, Allocation, RecordVerify, Goto
<1>3. Lateness'
  BY DEF RaceInv, ProcTypes, Lateness, Pending, RecordVerify, Goto, Wrote
<1>4. Workload'
  <2>1. todo' \in [Procs -> SUBSET Oids]
    BY WorkTypes DEF RecordVerify
  <2> QED
    BY <2>1, WorkElsewhere, WorkTypes DEF RecordVerify, Goto, Wrote
<1>5. OnTask'
  BY DEF RaceInv, OnTask, Working, RecordVerify, Goto
<1>6. LockTypes' /\ TaskTypes' /\ NoOverlap'
  BY RaceFrame DEF RecordVerify
<1> QED
  BY <1>1, <1>2, <1>3, <1>4, <1>5, <1>6 DEF RaceInv

\* The check before CompleteVerify is the owner's.
LEMMA VerifyCountsRace ==
  ASSUME RaceInv, NEW p \in Procs, VerifyCounts(p)
  PROVE  RaceInv'
<1>1. ProcTypes'
  BY DEF RaceInv, ProcTypes, Pcs, VerifyCounts, Check
<1>2. Allocation'
  BY DEF RaceInv, Allocation, VerifyCounts, Check
<1>3. Lateness'
  BY DEF RaceInv, Lateness, VerifyCounts, Check, Owns
<1>4. OnTask'
  BY DEF RaceInv, OnTask, Working, VerifyCounts, Check
<1>5. LockTypes' /\ TaskTypes' /\ NoOverlap'
  BY RaceFrame DEF VerifyCounts
<1>6. Workload'
  BY WorkElsewhere, WorkTypes DEF VerifyCounts, Check
<1> QED
  BY <1>1, <1>2, <1>3, <1>4, <1>5, <1>6 DEF RaceInv

\* One guarded statement, counted when it is late.
LEMMA CompleteVerifyRace ==
  ASSUME RaceInv, NEW p \in Procs, CompleteVerify(p)
  PROVE  RaceInv'
<1>1. TaskTypes'
  BY DEF RaceInv, TaskTypes, CompleteVerify
<1>2. ProcTypes'
  BY DEF RaceInv, ProcTypes, Pcs, CompleteVerify, Goto, Wrote
<1>3. Allocation'
  BY DEF RaceInv, Allocation, CompleteVerify, Goto
<1>4. Lateness'
  BY DEF RaceInv, ProcTypes, Lateness, Pending, CompleteVerify, Goto, Wrote
<1>5. Workload'
  BY WorkElsewhere, WorkTypes DEF CompleteVerify, Goto, Wrote
<1>6. OnTask'
  BY DEF RaceInv, ProcTypes, OnTask, Working, CompleteVerify, Goto
<1>7. LockTypes' /\ NoOverlap'
  BY RaceFrame DEF CompleteVerify
<1> QED
  BY <1>1, <1>2, <1>3, <1>4, <1>5, <1>6, <1>7 DEF RaceInv

\* No command runs and there is no task.
LEMMA InitRace == Init => RaceInv
<1> SUFFICES ASSUME Init PROVE RaceInv
  OBVIOUS
<1>1. LockTypes /\ TaskTypes /\ ProcTypes
  BY DEF Init, LockTypes, TaskTypes, ProcTypes, Pcs
<1>2. Allocation /\ NoOverlap
  BY DEF Init, Allocation, NoOverlap
<1>3. Lateness /\ Workload /\ OnTask
  BY FS_EmptySet DEF Init, Lateness, Workload, OnTask, Working
<1> QED
  BY <1>1, <1>2, <1>3 DEF RaceInv

\* Every statement of every command preserves the invariant.
LEMMA RaceStep == RaceInv /\ [Next]_vars => RaceInv'
<1> SUFFICES ASSUME RaceInv, [Next]_vars PROVE RaceInv'
  OBVIOUS
<1>1. CASE UNCHANGED vars
  <2>1. LockTypes' /\ TaskTypes' /\ ProcTypes' /\ Allocation'
    BY <1>1, RaceFrame DEF vars
  <2>2. NoOverlap' /\ Lateness' /\ Workload' /\ OnTask'
    BY <1>1, RaceFrame DEF vars
  <2> QED
    BY <2>1, <2>2 DEF RaceInv
<1>2. CASE Lose
  BY <1>2, LoseRace
<1>3. ASSUME NEW p \in Procs, Command(p) PROVE RaceInv'
  BY <1>3, OpenRace, LeaveRace, SchemaChecksRace, EnsureSchemaRace, CreateChecksRace,
     CreateSelectsRace, CreateRechecksRace, CreateCommitsRace, PurgeResolvesRace,
     PurgeChecksRace, BeginPurgeRace, ClaimRace, PurgeObjectRace, FailObjectRace, WorkerWritesRace,
     PurgeCountsRace, CompletePurgeRace, VerifyResolvesRace, VerifyChecksRace,
     BeginVerifyRace, VerifyReadsRace, VerifyPendingRace, CheckObjectRace,
     RecordVerifyRace, VerifyCountsRace, CompleteVerifyRace
     DEF Command, RecordDone, RecordFail
<1> QED
  BY <1>1, <1>2, <1>3 DEF Next

\* The inductive invariant, however often the lock is lost.
THEOREM RaceCorrect == Spec => []RaceInv
  BY InitRace, RaceStep, PTL DEF Spec

\* Two tasks never share an object, with any number of commands that believe they
\* own the lock: CreateSubtask reads its candidates under the row lock of task_meta.
THEOREM AllocationSafe == Spec => []NoOverlap
<1>1. RaceInv => NoOverlap
  BY DEF RaceInv
<1> QED
  BY <1>1, RaceCorrect, PTL

\* A command without the lock commits one more statement at most, and a purge one for
\* each worker at most, since every write of create, purge and verify has a check of
\* its own before it.
THEOREM LateSafe == Spec => []LateWrites
<1>1. ASSUME RaceInv PROVE LateWrites
  <2> SUFFICES ASSUME NEW p \in Procs
               PROVE  late[p] <= (IF pc[p] = "p_loop" THEN Workers ELSE 1)
    BY DEF LateWrites
  <2>1. Cardinality(writing[p]) \in Nat /\ late[p] \in Nat
    BY <1>1, FS_CardinalityType DEF RaceInv, Workload, ProcTypes
  <2> QED
    BY <1>1, <2>1 DEF RaceInv, Workload, Lateness
<1> QED
  BY <1>1, RaceCorrect, PTL

-----------------------------------------------------------------------------
(* One loss.                                                               *)

\* Which variables the parts that are about one loss depend on.
LEMMA OneLossFrame ==
  ASSUME OneLossInv
  PROVE  /\ UNCHANGED <<losses, owner, pc>> => OneStale'
         /\ UNCHANGED <<owner, pc, losses, late, sgen, gen, task>> => KnowsGen'
         /\ UNCHANGED <<pc, owner, sgen, gen, task, voided>> => StaleVerify'
         /\ UNCHANGED <<owner, voided, pc, losses, late, phase, task, sgen, gen>> => OwnedVerify'
<1>1. UNCHANGED <<losses, owner, pc>> => OneStale'
  BY DEF OneLossInv, OneStale, Stale
<1>2. UNCHANGED <<owner, pc, losses, late, sgen, gen, task>> => KnowsGen'
  BY DEF OneLossInv, KnowsGen, Stale
<1>3. UNCHANGED <<pc, owner, sgen, gen, task, voided>> => StaleVerify'
  BY DEF OneLossInv, StaleVerify, Stale
<1>4. UNCHANGED <<owner, voided, pc, losses, late, phase, task, sgen, gen>> => OwnedVerify'
  BY DEF OneLossInv, OwnedVerify, Stale
<1> QED
  BY <1>1, <1>2, <1>3, <1>4

\* The one loss: the owner becomes the one stale command.
LEMMA LoseOneLoss ==
  ASSUME OneLossInv, MaxLosses <= 1, Lose
  PROVE  OneLossInv'
<1>1. RaceInv'
  BY LoseRace DEF OneLossInv
<1>2. OneStale'
  BY DEF OneLossInv, RaceInv, OneStale, LockTypes, Stale, Lose
<1>3. KnowsGen'
  BY DEF KnowsGen, Lose
<1>4. StaleVerify'
  <2> SUFFICES ASSUME NEW p \in Procs, Stale(p)', pc'[p] = "v_end"
               PROVE  sgen[p] <= gen[task[p]] /\ (voided[p] => sgen[p] < gen[task[p]])
    BY DEF StaleVerify, Lose
  <2>1. pc[p] = "v_end" /\ losses = 0
    BY DEF OneLossInv, RaceInv, LockTypes, Lose
  <2>2. CASE owner = p
    <3>1. sgen[p] = gen[task[p]] /\ ~voided[p]
      BY <2>1, <2>2 DEF OneLossInv, KnowsGen, OwnedVerify, HasRead, Begun
    <3>2. sgen[p] \in Nat
      BY DEF OneLossInv, RaceInv, ProcTypes
    <3> QED
      BY <3>1, <3>2
  <2>3. CASE owner # p
    BY <2>1, <2>3 DEF OneLossInv, StaleVerify, Stale
  <2> QED
    BY <2>2, <2>3
<1>5. OwnedVerify'
  BY DEF OwnedVerify, Lose
<1> QED
  BY <1>1, <1>2, <1>3, <1>4, <1>5 DEF OneLossInv

\* A new owner has read no generation yet.
LEMMA OpenOneLoss ==
  ASSUME OneLossInv, NEW p \in Procs, Open(p)
  PROVE  OneLossInv'
<1>1. RaceInv'
  BY OpenRace DEF OneLossInv
<1>2. OneStale'
  BY DEF OneLossInv, OneStale, Stale, Open
<1>3. KnowsGen'
  BY DEF KnowsGen, HasRead, Begun, Open
<1>4. StaleVerify'
  BY DEF OneLossInv, StaleVerify, Stale, Open
<1>5. OwnedVerify'
  BY DEF OwnedVerify, Begun, Open
<1> QED
  BY <1>1, <1>2, <1>3, <1>4, <1>5 DEF OneLossInv

\* A stale command that ends takes its late write with it.
LEMMA LeaveOneLoss ==
  ASSUME OneLossInv, NEW p \in Procs, Leave(p)
  PROVE  OneLossInv'
<1>1. RaceInv'
  BY LeaveRace DEF OneLossInv
<1>2. OneStale'
  BY DEF OneLossInv, RaceInv, OneStale, ProcTypes, Stale, Leave
<1>3. KnowsGen'
  BY DEF OneLossInv, RaceInv, ProcTypes, KnowsGen, Stale, Leave
<1>4. StaleVerify'
  BY DEF OneLossInv, RaceInv, ProcTypes, StaleVerify, Stale, Leave
<1>5. OwnedVerify'
  BY DEF OneLossInv, RaceInv, ProcTypes, OwnedVerify, Stale, Leave
<1> QED
  BY <1>1, <1>2, <1>3, <1>4, <1>5 DEF OneLossInv

\* No row is touched.
LEMMA SchemaChecksOneLoss ==
  ASSUME OneLossInv, NEW p \in Procs, SchemaChecks(p)
  PROVE  OneLossInv'
<1>1. RaceInv'
  BY SchemaChecksRace DEF OneLossInv
<1>2. OneStale'
  BY DEF OneLossInv, OneStale, Stale, SchemaChecks, Check
<1>3. KnowsGen'
  BY DEF OneLossInv, KnowsGen, HasRead, Begun, Stale, SchemaChecks, Check
<1>4. StaleVerify'
  BY DEF OneLossInv, StaleVerify, Stale, SchemaChecks, Check
<1>5. OwnedVerify'
  BY DEF OneLossInv, OwnedVerify, Stale, Begun, SchemaChecks, Check
<1> QED
  BY <1>1, <1>2, <1>3, <1>4, <1>5 DEF OneLossInv

\* A repaired milestone does not touch a generation.
LEMMA EnsureSchemaOneLoss ==
  ASSUME OneLossInv, NEW p \in Procs, EnsureSchema(p)
  PROVE  OneLossInv'
<1>1. RaceInv'
  BY EnsureSchemaRace DEF OneLossInv
<1>2. OneStale'
  BY DEF OneLossInv, OneStale, Stale, EnsureSchema, Goto
<1>3. KnowsGen'
  BY DEF OneLossInv, KnowsGen, HasRead, Begun, Stale, EnsureSchema, Goto
<1>4. StaleVerify'
  BY DEF OneLossInv, StaleVerify, Stale, EnsureSchema, Goto
<1>5. OwnedVerify'
  BY DEF OneLossInv, OwnedVerify, Stale, Begun, EnsureSchema, Goto
<1> QED
  BY <1>1, <1>2, <1>3, <1>4, <1>5 DEF OneLossInv

\* create reads no generation.
LEMMA CreateChecksOneLoss ==
  ASSUME OneLossInv, NEW p \in Procs, CreateChecks(p)
  PROVE  OneLossInv'
<1>1. RaceInv'
  BY CreateChecksRace DEF OneLossInv
<1>2. OneStale'
  BY DEF OneLossInv, OneStale, Stale, CreateChecks, Check
<1>3. KnowsGen'
  BY DEF OneLossInv, KnowsGen, HasRead, Begun, Stale, CreateChecks, Check
<1>4. StaleVerify'
  BY DEF OneLossInv, StaleVerify, Stale, CreateChecks, Check
<1>5. OwnedVerify'
  BY DEF OneLossInv, OwnedVerify, Stale, Begun, CreateChecks, Check
<1> QED
  BY <1>1, <1>2, <1>3, <1>4, <1>5 DEF OneLossInv

\* The row lock is not about a generation.
LEMMA CreateSelectsOneLoss ==
  ASSUME OneLossInv, NEW p \in Procs, CreateSelects(p)
  PROVE  OneLossInv'
<1>1. RaceInv'
  BY CreateSelectsRace DEF OneLossInv
<1>2. OneStale'
  BY DEF OneLossInv, OneStale, Stale, CreateSelects, Goto
<1>3. KnowsGen'
  BY DEF OneLossInv, KnowsGen, HasRead, Begun, Stale, CreateSelects, Goto
<1>4. StaleVerify'
  BY DEF OneLossInv, StaleVerify, Stale, CreateSelects, Goto
<1>5. OwnedVerify'
  BY DEF OneLossInv, OwnedVerify, Stale, Begun, CreateSelects, Goto
<1> QED
  BY <1>1, <1>2, <1>3, <1>4, <1>5 DEF OneLossInv

\* No row is touched.
LEMMA CreateRechecksOneLoss ==
  ASSUME OneLossInv, NEW p \in Procs, CreateRechecks(p)
  PROVE  OneLossInv'
<1>1. RaceInv'
  BY CreateRechecksRace DEF OneLossInv
<1>2. OneStale'
  BY DEF OneLossInv, OneStale, Stale, CreateRechecks, Check
<1>3. KnowsGen'
  BY DEF OneLossInv, KnowsGen, HasRead, Begun, Stale, CreateRechecks, Check
<1>4. StaleVerify'
  BY DEF OneLossInv, StaleVerify, Stale, CreateRechecks, Check
<1>5. OwnedVerify'
  BY DEF OneLossInv, OwnedVerify, Stale, Begun, CreateRechecks, Check
<1> QED
  BY <1>1, <1>2, <1>3, <1>4, <1>5 DEF OneLossInv

\* A new row is in nobody's hands.
LEMMA CreateCommitsOneLoss ==
  ASSUME OneLossInv, NEW p \in Procs, CreateCommits(p)
  PROVE  OneLossInv'
<1>1. RaceInv'
  BY CreateCommitsRace DEF OneLossInv
<1>2. OneStale'
  BY DEF OneLossInv, OneStale, Stale, CreateCommits, Goto
<1>3. KnowsGen'
  BY DEF OneLossInv, RaceInv, ProcTypes, KnowsGen, HasRead, Begun, Stale, CreateCommits,
     Goto, Wrote
<1>4. StaleVerify'
  BY DEF OneLossInv, StaleVerify, Stale, CreateCommits, Goto
<1>5. OwnedVerify'
  BY DEF OneLossInv, RaceInv, ProcTypes, OwnedVerify, Stale, Begun, Lateness, Pending,
     CreateCommits, Goto
<1> QED
  BY <1>1, <1>2, <1>3, <1>4, <1>5 DEF OneLossInv

\* purge does not use the generation it read.
LEMMA PurgeResolvesOneLoss ==
  ASSUME OneLossInv, NEW p \in Procs, PurgeResolves(p)
  PROVE  OneLossInv'
<1>1. RaceInv'
  BY PurgeResolvesRace DEF OneLossInv
<1>2. OneStale'
  BY DEF OneLossInv, OneStale, Stale, PurgeResolves, Goto
<1>3. KnowsGen'
  BY DEF OneLossInv, KnowsGen, HasRead, Begun, Stale, PurgeResolves, Goto
<1>4. StaleVerify'
  BY DEF OneLossInv, StaleVerify, Stale, PurgeResolves, Goto
<1>5. OwnedVerify'
  BY DEF OneLossInv, OwnedVerify, Stale, Begun, PurgeResolves, Goto
<1> QED
  BY <1>1, <1>2, <1>3, <1>4, <1>5 DEF OneLossInv

\* No row is touched.
LEMMA PurgeChecksOneLoss ==
  ASSUME OneLossInv, NEW p \in Procs, PurgeChecks(p)
  PROVE  OneLossInv'
<1>1. RaceInv'
  BY PurgeChecksRace DEF OneLossInv
<1>2. OneStale'
  BY DEF OneLossInv, OneStale, Stale, PurgeChecks, Check
<1>3. KnowsGen'
  BY DEF OneLossInv, KnowsGen, HasRead, Begun, Stale, PurgeChecks, Check
<1>4. StaleVerify'
  BY DEF OneLossInv, StaleVerify, Stale, PurgeChecks, Check
<1>5. OwnedVerify'
  BY DEF OneLossInv, OwnedVerify, Stale, Begun, PurgeChecks, Check
<1> QED
  BY <1>1, <1>2, <1>3, <1>4, <1>5 DEF OneLossInv

\* The generation that every verify has read is old now: an owner that purges outdates
\* the stale verify, a stale purge uses up its statement.
LEMMA BeginPurgeOneLoss ==
  ASSUME OneLossInv, NEW p \in Procs, BeginPurge(p)
  PROVE  OneLossInv'
<1>1. RaceInv'
  BY BeginPurgeRace DEF OneLossInv
<1>2. OneStale'
  BY DEF OneLossInv, OneStale, Stale, BeginPurge, Goto
<1>3. KnowsGen'
  BY DEF OneLossInv, RaceInv, OneStale, ProcTypes, KnowsGen, HasRead, Begun, Stale,
     BeginPurge, Goto, Wrote
<1>4. StaleVerify'
  <2> SUFFICES ASSUME NEW q \in Procs, Stale(q)', pc'[q] = "v_end"
               PROVE  /\ sgen'[q] <= gen'[task'[q]]
                      /\ voided'[q] => sgen'[q] < gen'[task'[q]]
    BY DEF StaleVerify
  <2>1. q # p /\ Stale(q) /\ pc[q] = "v_end"
    BY DEF BeginPurge, Goto, Stale
  <2>2. /\ sgen[q] <= gen[task[q]] /\ (voided[q] => sgen[q] < gen[task[q]])
        /\ sgen[q] \in Nat /\ task[p] \in TaskIds /\ task[q] \in TaskIds
        /\ gen[task[q]] \in Nat
    BY <2>1 DEF OneLossInv, RaceInv, TaskTypes, ProcTypes, StaleVerify, OnTask, Working,
       BeginPurge, Goto
  <2>3. UNCHANGED <<sgen, task>>
    BY DEF BeginPurge
  <2>4. CASE done[task[p]]
    BY <2>2, <2>4 DEF BeginPurge
  <2>5. CASE ~done[task[p]]
    <3>1. /\ gen' = [gen EXCEPT ![task[p]] = gen[task[p]] + 1]
          /\ voided'[q] = (voided[q] \/ task[q] = task[p])
      BY <2>1, <2>5 DEF BeginPurge
    <3>2. gen \in [TaskIds -> Nat]
      BY DEF OneLossInv, RaceInv, TaskTypes
    <3>3. CASE task[q] = task[p]
      BY <2>2, <2>3, <3>1, <3>2, <3>3
    <3>4. CASE task[q] # task[p]
      BY <2>2, <2>3, <3>1, <3>2, <3>4
    <3> QED
      BY <3>3, <3>4
  <2> QED
    BY <2>4, <2>5
<1>5. OwnedVerify'
  <2>1. CASE done[task[p]]
    BY <2>1 DEF OneLossInv, RaceInv, OwnedVerify, Stale, Begun, Lateness, Pending,
       BeginPurge, Goto, Wrote
  <2>2. CASE ~done[task[p]]
    <3> SUFFICES ASSUME NEW q \in Procs, owner' = q, voided'[q], pc'[q] \in Begun
                 PROVE  /\ losses' = 1 /\ \A r \in Procs : Stale(r)' => late'[r] >= 1
                        /\ phase'[task'[q]] = "PURGE"
      BY DEF OwnedVerify
    <3>1. q # p /\ owner = q /\ pc[q] \in Begun /\ UNCHANGED <<owner, losses, task>>
      BY DEF OneLossInv, RaceInv, ProcTypes, Begun, BeginPurge, Goto
    <3>2. Stale(p) /\ late[p] = 0
      BY <3>1 DEF OneLossInv, RaceInv, Lateness, Pending, Stale, BeginPurge, Goto
    <3>3. losses = 1 /\ \A r \in Procs : Stale(r)' => r = p
      BY <3>1, <3>2 DEF OneLossInv, OneStale, Stale, BeginPurge, Goto
    <3>4. late'[p] = 1
      BY <3>1, <3>2 DEF OneLossInv, RaceInv, ProcTypes, BeginPurge, Wrote
    <3>5. task[q] = task[p]
      <4>1. ~voided[q]
        BY <3>1, <3>2 DEF OneLossInv, OwnedVerify
      <4>2. voided'[q] = (voided[q] \/ (q # p /\ task[q] = task[p]))
        BY <2>2 DEF BeginPurge
      <4> QED
        BY <4>1, <4>2
    <3>6. phase'[task[p]] = "PURGE"
      <4>1. task[p] \in TaskIds
        BY DEF OneLossInv, RaceInv, TaskTypes, OnTask, Working, BeginPurge, Goto
      <4>2. phase' = [phase EXCEPT ![task[p]] = "PURGE"]
        BY <2>2 DEF BeginPurge
      <4> QED
        BY <4>1, <4>2 DEF OneLossInv, RaceInv, TaskTypes
    <3> QED
      BY <3>1, <3>3, <3>4, <3>5, <3>6
  <2> QED
    BY <2>1, <2>2
<1> QED
  BY <1>1, <1>2, <1>3, <1>4, <1>5 DEF OneLossInv

\* No row is touched.
LEMMA ClaimOneLoss ==
  ASSUME OneLossInv, NEW p \in Procs, Claim(p)
  PROVE  OneLossInv'
<1>1. RaceInv'
  BY ClaimRace DEF OneLossInv
<1>2. OneStale'
  BY DEF OneLossInv, OneStale, Stale, Claim, Check
<1>3. KnowsGen'
  BY DEF OneLossInv, KnowsGen, HasRead, Begun, Stale, Claim, Check
<1>4. StaleVerify'
  BY DEF OneLossInv, StaleVerify, Stale, Claim, Check
<1>5. OwnedVerify'
  BY DEF OneLossInv, OwnedVerify, Stale, Begun, Claim, Check
<1> QED
  BY <1>1, <1>2, <1>3, <1>4, <1>5 DEF OneLossInv

\* No row is touched.
LEMMA WorkerChecksOneLoss ==
  ASSUME OneLossInv, NEW p \in Procs, NEW o \in Oids, PurgeObject(p, o) \/ FailObject(p, o)
  PROVE  OneLossInv'
<1>1. RaceInv'
  BY PurgeObjectRace, FailObjectRace DEF OneLossInv
<1>2. UNCHANGED <<owner, losses, taskVars, pc, task, sgen, late, voided>>
  BY DEF OneLossInv, RaceInv, ProcTypes, PurgeObject, FailObject, WorkerChecks, Check
<1>3. OneStale' /\ KnowsGen' /\ StaleVerify' /\ OwnedVerify'
  BY <1>2, OneLossFrame
<1> QED
  BY <1>1, <1>3 DEF OneLossInv

\* A result changes neither phase nor generation.
LEMMA WorkerWritesOneLoss ==
  ASSUME OneLossInv, NEW p \in Procs, NEW o \in Oids, WorkerWrites(p, o)
  PROVE  OneLossInv'
<1>1. RaceInv'
  BY WorkerWritesRace DEF OneLossInv
<1>2. /\ UNCHANGED <<owner, losses, taskVars, pc, task, sgen, voided>>
      /\ late' = [late EXCEPT ![p] = IF owner = p THEN @ ELSE @ + 1]
      /\ late \in [Procs -> Nat]
  BY DEF OneLossInv, RaceInv, ProcTypes, WorkerWrites, Wrote
<1>3. \A q \in Procs : late'[q] >= late[q] /\ (late'[q] = 0 => late[q] = 0)
  BY <1>2
<1>4. OneStale' /\ StaleVerify'
  BY <1>2, OneLossFrame
<1>5. KnowsGen'
  BY <1>2, <1>3 DEF OneLossInv, KnowsGen, Stale
<1>6. OwnedVerify'
  <2>1. \A q \in Procs : late[q] >= 1 => late'[q] >= 1
    BY <1>2
  <2> QED
    BY <1>2, <2>1 DEF OneLossInv, OwnedVerify, Stale
<1> QED
  BY <1>1, <1>4, <1>5, <1>6 DEF OneLossInv

\* No row is touched.
LEMMA PurgeCountsOneLoss ==
  ASSUME OneLossInv, NEW p \in Procs, PurgeCounts(p)
  PROVE  OneLossInv'
<1>1. RaceInv'
  BY PurgeCountsRace DEF OneLossInv
<1>2. OneStale'
  BY DEF OneLossInv, OneStale, Stale, PurgeCounts, Check
<1>3. KnowsGen'
  BY DEF OneLossInv, KnowsGen, HasRead, Begun, Stale, PurgeCounts, Check
<1>4. StaleVerify'
  BY DEF OneLossInv, StaleVerify, Stale, PurgeCounts, Check
<1>5. OwnedVerify'
  BY DEF OneLossInv, OwnedVerify, Stale, Begun, PurgeCounts, Check
<1> QED
  BY <1>1, <1>2, <1>3, <1>4, <1>5 DEF OneLossInv

\* The milestone changes neither phase nor generation.
LEMMA CompletePurgeOneLoss ==
  ASSUME OneLossInv, NEW p \in Procs, CompletePurge(p)
  PROVE  OneLossInv'
<1>1. RaceInv'
  BY CompletePurgeRace DEF OneLossInv
<1>2. OneStale'
  BY DEF OneLossInv, OneStale, Stale, CompletePurge, Goto
<1>3. KnowsGen'
  BY DEF OneLossInv, RaceInv, ProcTypes, KnowsGen, HasRead, Begun, Stale, CompletePurge,
     Goto, Wrote
<1>4. StaleVerify'
  BY DEF OneLossInv, StaleVerify, Stale, CompletePurge, Goto
<1>5. OwnedVerify'
  BY DEF OneLossInv, RaceInv, OwnedVerify, Stale, Begun, Lateness, Pending,
     CompletePurge, Goto, Wrote
<1> QED
  BY <1>1, <1>2, <1>3, <1>4, <1>5 DEF OneLossInv

\* An owner reads the generation as it is.
LEMMA VerifyResolvesOneLoss ==
  ASSUME OneLossInv, NEW p \in Procs, NEW t \in Created, NEW again \in BOOLEAN, VerifyResolves(p, t, again)
  PROVE  OneLossInv'
<1>1. RaceInv'
  BY VerifyResolvesRace DEF OneLossInv
<1>2. OneStale'
  BY DEF OneLossInv, OneStale, Stale, VerifyResolves, Goto
<1>3. KnowsGen'
  BY DEF OneLossInv, RaceInv, ProcTypes, KnowsGen, Stale, VerifyResolves, Goto
<1>4. StaleVerify'
  BY DEF OneLossInv, StaleVerify, Stale, VerifyResolves, Goto
<1>5. OwnedVerify'
  BY DEF OneLossInv, OwnedVerify, Stale, Begun, VerifyResolves, Goto
<1> QED
  BY <1>1, <1>2, <1>3, <1>4, <1>5 DEF OneLossInv

\* No row is touched.
LEMMA VerifyChecksOneLoss ==
  ASSUME OneLossInv, NEW p \in Procs, VerifyChecks(p)
  PROVE  OneLossInv'
<1>1. RaceInv'
  BY VerifyChecksRace DEF OneLossInv
<1>2. OneStale'
  BY DEF OneLossInv, OneStale, Stale, VerifyChecks, Check
<1>3. KnowsGen'
  BY DEF OneLossInv, KnowsGen, HasRead, Stale, VerifyChecks, Check
<1>4. StaleVerify'
  BY DEF OneLossInv, StaleVerify, Stale, VerifyChecks, Check
<1>5. OwnedVerify'
  BY DEF OneLossInv, OwnedVerify, Stale, Begun, VerifyChecks, Check
<1> QED
  BY <1>1, <1>2, <1>3, <1>4, <1>5 DEF OneLossInv

\* The generation that was read is written back: right for an owner that no stale
\* command has overtaken, and a stale one's only statement.
LEMMA BeginVerifyOneLoss ==
  ASSUME OneLossInv, NEW p \in Procs, BeginVerify(p)
  PROVE  OneLossInv'
<1>1. RaceInv'
  BY BeginVerifyRace DEF OneLossInv
<1>2. OneStale'
  BY DEF OneLossInv, OneStale, Stale, BeginVerify, Goto
<1>3. KnowsGen'
  BY DEF OneLossInv, RaceInv, OneStale, ProcTypes, KnowsGen, HasRead, Stale,
     BeginVerify, Goto, Wrote
<1>4. StaleVerify'
  BY DEF OneLossInv, RaceInv, OneStale, LockTypes, TaskTypes, ProcTypes, StaleVerify,
     Stale, KnowsGen, HasRead, Begun, Lateness, Pending, OnTask, Working, BeginVerify,
     Goto, Wrote
<1>5. OwnedVerify'
  <2> SUFFICES ASSUME NEW q \in Procs, owner' = q, voided'[q], pc'[q] \in Begun
               PROVE  FALSE
    BY DEF OwnedVerify
  <2>1. q # p /\ owner = q /\ pc[q] \in Begun /\ voided[q]
    BY DEF OneLossInv, RaceInv, ProcTypes, BeginVerify, Goto
  <2>2. Stale(p) /\ late[p] = 0
    BY <2>1 DEF OneLossInv, RaceInv, Lateness, Pending, Stale, BeginVerify, Goto
  <2> QED
    BY <2>1, <2>2 DEF OneLossInv, OwnedVerify
<1> QED
  BY <1>1, <1>2, <1>3, <1>4, <1>5 DEF OneLossInv

\* The row is read back, so a voided verify has an old generation or a task in PURGE.
LEMMA VerifyReadsOneLoss ==
  ASSUME OneLossInv, NEW p \in Procs, VerifyReads(p)
  PROVE  OneLossInv'
<1>1. RaceInv'
  BY VerifyReadsRace DEF OneLossInv
<1>2. OneStale'
  BY DEF OneLossInv, OneStale, Stale, VerifyReads, Goto
<1>3. KnowsGen'
  BY DEF OneLossInv, RaceInv, ProcTypes, KnowsGen, Stale, VerifyReads, Goto
<1>4. StaleVerify'
  BY DEF OneLossInv, StaleVerify, Stale, VerifyReads, Goto
<1>5. OwnedVerify'
  BY DEF OneLossInv, OwnedVerify, Stale, Begun, VerifyReads, Goto
<1> QED
  BY <1>1, <1>2, <1>3, <1>4, <1>5 DEF OneLossInv

\* No row is touched.
LEMMA VerifyPendingOneLoss ==
  ASSUME OneLossInv, NEW p \in Procs, VerifyPending(p)
  PROVE  OneLossInv'
<1>1. RaceInv'
  BY VerifyPendingRace DEF OneLossInv
<1>2. OneStale'
  BY DEF OneLossInv, OneStale, Stale, VerifyPending, Goto
<1>3. KnowsGen'
  BY DEF OneLossInv, KnowsGen, HasRead, Begun, Stale, VerifyPending, Goto
<1>4. StaleVerify'
  BY DEF OneLossInv, StaleVerify, Stale, VerifyPending, Goto
<1>5. OwnedVerify'
  BY DEF OneLossInv, OwnedVerify, Stale, Begun, VerifyPending, Goto
<1> QED
  BY <1>1, <1>2, <1>3, <1>4, <1>5 DEF OneLossInv

\* No row is touched.
LEMMA CheckObjectOneLoss ==
  ASSUME OneLossInv, NEW p \in Procs, CheckObject(p)
  PROVE  OneLossInv'
<1>1. RaceInv'
  BY CheckObjectRace DEF OneLossInv
<1>2. OneStale'
  BY DEF OneLossInv, OneStale, Stale, CheckObject, Check
<1>3. KnowsGen'
  BY DEF OneLossInv, KnowsGen, HasRead, Begun, Stale, CheckObject, Check
<1>4. StaleVerify'
  BY DEF OneLossInv, StaleVerify, Stale, CheckObject, Check
<1>5. OwnedVerify'
  BY DEF OneLossInv, OwnedVerify, Stale, Begun, CheckObject, Check
<1> QED
  BY <1>1, <1>2, <1>3, <1>4, <1>5 DEF OneLossInv

\* A verdict changes neither phase nor generation.
LEMMA RecordVerifyOneLoss ==
  ASSUME OneLossInv, NEW p \in Procs, NEW verdict \in {"PASS", "RESIDUE"}, RecordVerify(p, verdict)
  PROVE  OneLossInv'
<1>1. RaceInv'
  BY RecordVerifyRace DEF OneLossInv
<1>2. OneStale'
  BY DEF OneLossInv, OneStale, Stale, RecordVerify, Goto
<1>3. KnowsGen'
  BY DEF OneLossInv, RaceInv, OneStale, LockTypes, TaskTypes, ProcTypes, KnowsGen,
     HasRead, Begun, Stale, RecordVerify, Goto, Wrote
<1>4. StaleVerify'
  BY DEF OneLossInv, StaleVerify, Stale, RecordVerify, Goto
<1>5. OwnedVerify'
  BY DEF OneLossInv, RaceInv, OwnedVerify, Stale, Begun, Lateness, Pending,
     RecordVerify, Goto, Wrote
<1> QED
  BY <1>1, <1>2, <1>3, <1>4, <1>5 DEF OneLossInv

\* No row is touched.
LEMMA VerifyCountsOneLoss ==
  ASSUME OneLossInv, NEW p \in Procs, VerifyCounts(p)
  PROVE  OneLossInv'
<1>1. RaceInv'
  BY VerifyCountsRace DEF OneLossInv
<1>2. OneStale'
  BY DEF OneLossInv, OneStale, Stale, VerifyCounts, Check
<1>3. KnowsGen'
  BY DEF OneLossInv, KnowsGen, HasRead, Begun, Stale, VerifyCounts, Check
<1>4. StaleVerify'
  BY DEF OneLossInv, StaleVerify, Stale, VerifyCounts, Check, Owns
<1>5. OwnedVerify'
  BY DEF OneLossInv, OwnedVerify, Stale, Begun, VerifyCounts, Check
<1> QED
  BY <1>1, <1>2, <1>3, <1>4, <1>5 DEF OneLossInv

\* done_at changes neither phase nor generation.
LEMMA CompleteVerifyOneLoss ==
  ASSUME OneLossInv, NEW p \in Procs, CompleteVerify(p)
  PROVE  OneLossInv'
<1>1. RaceInv'
  BY CompleteVerifyRace DEF OneLossInv
<1>2. OneStale'
  BY DEF OneLossInv, OneStale, Stale, CompleteVerify, Goto
<1>3. KnowsGen'
  BY DEF OneLossInv, RaceInv, ProcTypes, KnowsGen, HasRead, Begun, Stale,
     CompleteVerify, Goto, Wrote
<1>4. StaleVerify'
  BY DEF OneLossInv, RaceInv, ProcTypes, StaleVerify, Stale, CompleteVerify, Goto
<1>5. OwnedVerify'
  BY DEF OneLossInv, RaceInv, ProcTypes, OwnedVerify, Stale, Begun, Lateness, Pending,
     CompleteVerify, Goto, Wrote
<1> QED
  BY <1>1, <1>2, <1>3, <1>4, <1>5 DEF OneLossInv

\* No lock is lost yet.
LEMMA InitOneLoss == Init => OneLossInv
<1> SUFFICES ASSUME Init PROVE OneLossInv
  OBVIOUS
<1>1. RaceInv
  BY InitRace
<1>2. OneStale /\ KnowsGen /\ StaleVerify /\ OwnedVerify
  BY DEF Init, OneStale, KnowsGen, StaleVerify, OwnedVerify, Stale
<1> QED
  BY <1>1, <1>2 DEF OneLossInv

\* Every statement of every command preserves it.
LEMMA OneLossStep ==
  ASSUME MaxLosses <= 1, OneLossInv, [Next]_vars
  PROVE  OneLossInv'
<1>1. CASE UNCHANGED vars
  <2>1. RaceInv'
    BY RaceStep DEF OneLossInv
  <2>2. OneStale' /\ KnowsGen' /\ StaleVerify' /\ OwnedVerify'
    BY <1>1, OneLossFrame DEF vars
  <2> QED
    BY <2>1, <2>2 DEF OneLossInv
<1>2. CASE Lose
  BY <1>2, LoseOneLoss
<1>3. ASSUME NEW p \in Procs, Command(p) PROVE OneLossInv'
  BY <1>3, OpenOneLoss, LeaveOneLoss, SchemaChecksOneLoss, EnsureSchemaOneLoss,
     CreateChecksOneLoss, CreateSelectsOneLoss, CreateRechecksOneLoss,
     CreateCommitsOneLoss, PurgeResolvesOneLoss, PurgeChecksOneLoss, BeginPurgeOneLoss,
     ClaimOneLoss, WorkerChecksOneLoss, WorkerWritesOneLoss, PurgeCountsOneLoss,
     CompletePurgeOneLoss, VerifyResolvesOneLoss, VerifyChecksOneLoss,
     BeginVerifyOneLoss, VerifyReadsOneLoss, VerifyPendingOneLoss, CheckObjectOneLoss,
     RecordVerifyOneLoss, VerifyCountsOneLoss, CompleteVerifyOneLoss
     DEF Command, RecordDone, RecordFail
<1> QED
  BY <1>1, <1>2, <1>3 DEF Next

\* The stronger invariant, for a run in which the server drops the lock once at most.
THEOREM OneLossCorrect ==
  ASSUME MaxLosses <= 1
  PROVE  Spec => []OneLossInv
<1>1. OneLossInv /\ [Next]_vars => OneLossInv'
  BY OneLossStep
<1> QED
  BY <1>1, InitOneLoss, PTL DEF Spec

\* A verify during which a purge of its task began never sets done_at, when the
\* server drops the lock once: CompleteVerify's UPDATE asks for the generation the
\* command has read, and either that generation is old by then or the phase is
\* PURGE again.  With two losses a third command may put the generation back.
THEOREM VoidedSafe ==
  ASSUME MaxLosses <= 1
  PROVE  Spec => VoidedNeverFinishes
<1> DEFINE Step == \A p \in Procs : pc[p] = "v_end" /\ pc'[p] = "over" /\ voided[p]
                     => \A t \in TaskIds : done'[t] => done[t]
<1>1. ASSUME OneLossInv, Next PROVE Step
  <2> SUFFICES ASSUME NEW p \in Procs, pc[p] = "v_end", pc'[p] = "over", voided[p]
               PROVE  done' = done
    OBVIOUS
  <2>1. CompleteVerify(p)
    <3>1. ~Lose
      BY DEF Lose
    <3>2. PICK q \in Procs : Command(q)
      BY <1>1, <3>1 DEF Next
    <3>3. pc \in [Procs -> Pcs]
      BY <1>1 DEF OneLossInv, RaceInv, ProcTypes
    <3>4. q = p
      BY <3>2, <3>3 DEF Command, Check, Goto, Open, Leave, SchemaChecks, EnsureSchema,
         CreateChecks, CreateSelects, CreateRechecks, CreateCommits, PurgeResolves,
         PurgeChecks, BeginPurge, Claim, PurgeObject, FailObject, RecordDone, RecordFail,
         WorkerChecks, WorkerWrites, PurgeCounts, CompletePurge, VerifyResolves, VerifyChecks, BeginVerify, VerifyReads,
         VerifyPending, CheckObject, RecordVerify, VerifyCounts, CompleteVerify
    <3> QED
      BY <3>2, <3>3, <3>4 DEF Command, Check, Goto, Open, Leave, SchemaChecks,
         EnsureSchema, CreateChecks, CreateSelects, CreateRechecks, CreateCommits,
         PurgeResolves, PurgeChecks, BeginPurge, Claim, PurgeObject, FailObject, RecordDone,
         RecordFail, WorkerChecks, WorkerWrites, PurgeCounts, CompletePurge, VerifyResolves, VerifyChecks, BeginVerify,
         VerifyReads, VerifyPending, CheckObject, RecordVerify, VerifyCounts
  <2>2. ~MayFinish(p)
    <3>1. sgen[p] \in Nat /\ gen[task[p]] \in Nat
      BY <1>1 DEF OneLossInv, RaceInv, TaskTypes, ProcTypes, OnTask, Working
    <3>2. CASE owner = p
      BY <1>1, <3>1, <3>2 DEF OneLossInv, OwnedVerify, Begun, MayFinish
    <3>3. CASE owner # p
      BY <1>1, <3>1, <3>3 DEF OneLossInv, StaleVerify, Stale, MayFinish
    <3> QED
      BY <3>2, <3>3
  <2>3. done \in [TaskIds -> BOOLEAN] /\ task[p] \in TaskIds
    BY <1>1 DEF OneLossInv, RaceInv, TaskTypes, OnTask, Working
  <2> QED
    BY <2>1, <2>2, <2>3 DEF CompleteVerify
<1>2. ASSUME OneLossInv, [Next]_vars PROVE [Step]_vars
  BY <1>1, <1>2
<1>3. Spec => []OneLossInv
  BY OneLossCorrect
<1> QED
  BY <1>2, <1>3, PTL DEF Spec, VoidedNeverFinishes

=============================================================================
