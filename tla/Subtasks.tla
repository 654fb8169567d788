------------------------------ MODULE Subtasks ------------------------------
(***************************************************************************)
(* The progress ledger of limewire-purge and the commands that drive it:   *)
(* `task create`, `purge --execute`, `verify`, `task defer`, `task resume`.*)
(*                                                                         *)
(* The ledger (MySQL tables purge_tasks, task_objects, purge_progress) is  *)
(* durable; the process that runs one command is not: it may exit or be    *)
(* killed after any committed write, and the next command starts from what *)
(* the tables hold.  A command holds the execution lock from Acquire to    *)
(* its end, so at most one runs at a time; losing the lock while running   *)
(* is outside this module.  The list of objects is the sealed scan: the    *)
(* module starts after a COMPLETE scan of the OIDs in Oids.                *)
(*                                                                         *)
(* The bucket is the set of (object, prefix) pairs that still hold pieces. *)
(* Another process of the storage provider may write pieces back at any    *)
(* time (WriteBack); `verify` exists because of that.                      *)
(***************************************************************************)
EXTENDS Integers, FiniteSets

CONSTANTS Oids,         \* object ids of the sealed scan; 0 stands for NULL
          MaxTasks,     \* bound: rows of purge_tasks
          MaxGen,       \* bound: verify_generation of a task
          Concurrency,  \* workers of one purge run
          Conns,        \* ids the server gives to lock connections; an id
                        \* may come back (they restart with the server)
          Rewritable,   \* objects another process may store pieces of
          ReadsFail     \* whether a manifest query may fail for no reason
                        \* of safety (a dropped connection, a timeout)

ASSUME OidsAssumption == Oids \subseteq Nat \ {0}
ASSUME ConnsAssumption == Conns \subseteq Nat \ {0}
ASSUME BoundsAssumption == /\ MaxTasks \in Nat
                           /\ MaxGen \in Nat
                           /\ Concurrency \in Nat \ {0}
ASSUME EnvironmentAssumption == Rewritable \subseteq Oids /\ ReadsFail \in BOOLEAN

TaskIds  == 1..MaxTasks
Prefixes == {"s", "e"}                        \* s<oid>_ and e<oid>_
Phases   == {"READY", "PURGE", "VERIFY"}
Verdicts == {"PENDING", "PASS", "ERROR", "RESIDUE"}

\* Why hold_reason is set (the empty string is "none"): a manifest that changed
\* or a bucket id the chain denies ("doubt"), a manifest that could not be read,
\* an object that failed a safety check.
HoldReasons == {"none", "doubt", "readError", "object"}

\* The reasons a command may have to give up before it begins.
Refusals == {"doubt"} \union (IF ReadsFail THEN {"readError"} ELSE {})

\* Where the running command is.  "deferred": the transaction of task defer is
\* committed, its CompletePurge is not.
Pcs == {"idle", "locked", "open", "purging", "checking", "deferred"}

\* A purge run: "run" admits objects; "stop" admits none and finishes those in
\* flight; "cancel" and "halt" also cancel those in flight.
Modes == {"run", "stop", "cancel", "halt"}

\* What the running command has done with an object.
Steps == {"out", "queued", "clear_s", "clear_e", "recheck_s", "recheck_e",
          "write", "unsafe", "look_s", "look_e", "report"}

VARIABLES
  nTasks,      \* rows of purge_tasks: 1..nTasks
  phase, holdReason, holdOid, gen, purged, done, execConn,   \* purge_tasks
  member, deferred, vgen, vstat,                             \* task_objects
  prog,        \* purge_progress.status: 0 no row, 1 done, 2 failed
  pieces,      \* the bucket: pairs <<oid, prefix>> under which pieces exist
  pc, conn, cur, mode, work, seen,                           \* the command
  fresh,       \* history: members that passed since deletion or --restart
  processed,   \* history: members cleared and recorded by this task's purge
  rewritten    \* history: objects written to since their last check began

taskVars    == <<nTasks, phase, holdReason, holdOid, gen, purged, done,
                 execConn>>
memberVars  == <<member, deferred>>
verifyVars  == <<vgen, vstat>>
commandVars == <<pc, conn, cur, mode, work, seen>>
history     == <<fresh, processed, rewritten>>
vars == <<taskVars, memberVars, verifyVars, prog, pieces, commandVars, history>>

-----------------------------------------------------------------------------
(* What the queries of subtask.go read from the ledger.                    *)

Created == 1..nTasks
Lowest(S) == {x \in S : \A y \in S : x <= y}   \* {} when S is empty

Active(t) == member[t] \ deferred[t]
Assigned  == {o \in Oids : \E t \in Created : o \in member[t]}

\* Pending + Failed = 0: every active member has a progress row "done".
AllProcessed(t) == \A o \in Active(t) : prog[o] = 1

Unfinished == {t \in Created : ~purged[t] /\ ~done[t]}
AnyHold == \E t \in Created : holdReason[t] # "none"

\* The only unfinished task; none when there are several.
Current == {t \in Unfinished : \A u \in Unfinished : u = t}

\* Operators named Wrong... are deliberately faulty variants of the definition
\* that follows them: with one put in its place, a property must fail.

\* Each Resolve operator is the set holding the task the query selects, or
\* the empty set when it returns an error.  id = 0 is "no --task-id given".
WrongResolvePurge(id) ==   \* looks at the hold of the selected task only
  {t \in Created : /\ holdReason[t] = "none"
                   /\ \/ t = id /\ purged[t] /\ ~done[t]
                      \/ t \in Current /\ id \in {0, t}}

ResolvePurge(id) ==
  {t \in Created : /\ ~AnyHold
                   /\ \/ t = id /\ purged[t] /\ ~done[t]
                      \/ t \in Current /\ id \in {0, t}}

WrongResolveVerify(id) ==   \* takes an explicit id without reading its row
  IF id # 0 THEN {id} ELSE Lowest({t \in Created : purged[t] /\ ~done[t]})

ResolveVerify(id) ==
  IF id # 0 THEN Created \intersect {id}
            ELSE Lowest({t \in Created : purged[t] /\ ~done[t]})

ResolveAdmin(id) ==
  LET held == {t \in Created : ~done[t] /\ holdReason[t] # "none"}
  IN  CASE id # 0                           -> Created \intersect {id}
        [] id = 0 /\ held # {}              -> Lowest(held)
        [] id = 0 /\ held = {} /\ Unfinished # {} -> Current
        [] OTHER                            -> ResolveVerify(0)

\* Objects whose latest membership, that of task t, is deferred.
DeferredIn(t) ==
  {o \in deferred[t] : \A u \in Created : u > t => o \notin member[u]}

DeferredPool    == UNION {DeferredIn(t) : t \in Created}
RetryCandidates == UNION {DeferredIn(t) : t \in {u \in Created : purged[u]}}

WrongRequeue(S) == prog   \* leaves the old result in place

\* Existing progress rows of S become "failed", so that purge takes them again.
Requeue(S) == [o \in Oids |-> IF o \in S /\ prog[o] # 0 THEN 2 ELSE prog[o]]

WrongNextGen(t, again) == gen[t]

\* The generation a command works in; a new one voids the verdicts of the old.
NextGen(t, again) == IF again THEN gen[t] + 1 ELSE gen[t]

WrongClaimable(t, progress) ==   \* a failed object waits for --retry-failed
  {o \in Active(t) : progress[o] = 0 \/ vstat[t][o] = "RESIDUE"}

\* ClaimSubtask, over all its pages; progress is the ledger BeginPurge leaves.
Claimable(t, progress) ==
  {o \in Active(t) : progress[o] # 1 \/ vstat[t][o] = "RESIDUE"}

WrongVerifyPending(t, g) == {o \in Active(t) : vstat[t][o] # "PASS"}

\* VerifyPending, over all its pages, at generation g.
VerifyPending(t, g) ==
  {o \in Active(t) : vgen[t][o] # g \/ vstat[t][o] # "PASS"}

\* What status prints as RUNNING or VERIFYING.
LockedBy(t) == conn # 0 /\ execConn[t] = conn

\* What status prints as ALL_DONE.
AllDone == /\ nTasks > 0
           /\ Oids = Assigned
           /\ DeferredPool = {}
           /\ \A t \in Created : done[t]
           /\ conn = 0

-----------------------------------------------------------------------------

\* A sealed scan, no task yet, and whatever pieces the provider holds.
Init ==
  /\ nTasks = 0
  /\ phase = [t \in TaskIds |-> "READY"]
  /\ holdReason = [t \in TaskIds |-> "none"]
  /\ holdOid = [t \in TaskIds |-> 0]
  /\ gen = [t \in TaskIds |-> 1]
  /\ purged = [t \in TaskIds |-> FALSE]
  /\ done = [t \in TaskIds |-> FALSE]
  /\ execConn = [t \in TaskIds |-> 0]
  /\ member = [t \in TaskIds |-> {}]
  /\ deferred = [t \in TaskIds |-> {}]
  /\ vgen = [t \in TaskIds |-> [o \in Oids |-> 0]]
  /\ vstat = [t \in TaskIds |-> [o \in Oids |-> "PENDING"]]
  /\ prog = [o \in Oids |-> 0]
  /\ pieces \in SUBSET (Oids \X Prefixes)
  /\ pc = "idle"
  /\ conn = 0
  /\ cur = 0
  /\ mode = "run"
  /\ work = [o \in Oids |-> "out"]
  /\ seen = "PASS"
  /\ fresh = [t \in TaskIds |-> {}]
  /\ processed = [t \in TaskIds |-> {}]
  /\ rewritten = {}

\* The process ends and its connection drops the lock.
Release ==
  /\ pc' = "idle"
  /\ conn' = 0
  /\ cur' = 0
  /\ mode' = "run"
  /\ work' = [o \in Oids |-> "out"]
  /\ seen' = "PASS"

-----------------------------------------------------------------------------
(* Opening the database.                                                   *)

Acquire(c) ==
  /\ pc = "idle"
  /\ pc' = "locked"
  /\ conn' = c
  /\ UNCHANGED <<taskVars, memberVars, verifyVars, prog, pieces, history,
                 cur, mode, work, seen>>

\* A crash after the last per-object write left purged_at unset: set it now.
Recoverable(t) ==
  /\ ~purged[t] /\ holdReason[t] = "none" /\ member[t] # {}
  /\ phase[t] # "READY" \/ Active(t) = {}
  /\ AllProcessed(t)

WrongEnsureSchema ==   \* leaves the lock attributed to an earlier command's task
  /\ pc = "locked"
  /\ pc' = "open"
  /\ purged' = [t \in TaskIds |-> purged[t] \/ (t \in Created /\ Recoverable(t))]
  /\ UNCHANGED <<nTasks, phase, holdReason, holdOid, gen, done, execConn, memberVars,
                 verifyVars, prog, pieces, history, conn, cur, mode, work, seen>>

EnsureSchema ==
  /\ pc = "locked"
  /\ pc' = "open"
  /\ execConn' = [t \in TaskIds |-> 0]
  /\ purged' = [t \in TaskIds |-> purged[t] \/ (t \in Created /\ Recoverable(t))]
  /\ UNCHANGED <<nTasks, phase, holdReason, holdOid, gen, done, memberVars,
                 verifyVars, prog, pieces, history, conn, cur, mode, work, seen>>

\* Any command may end here with nothing written (it was refused, it only
\* previewed, a read failed), and at every later point it may crash or be killed.
Exit ==
  /\ pc # "idle"
  /\ Release
  /\ UNCHANGED <<taskVars, memberVars, verifyVars, prog, pieces, history>>

-----------------------------------------------------------------------------
(* task create                                                             *)

\* Every non-empty prefix of the candidates in OID order is what SelectCapacity
\* returns for some --target-size and --max-objects, and it returns no other.
SelectCapacity(candidates) ==
  {S \in SUBSET candidates \ {{}} : \A a \in S, b \in candidates \ S : a < b}

WrongMayCreate == ~AnyHold /\ \A o \in Oids : prog[o] # 0 => o \in Assigned

\* No hold, no unfinished task, no result of an object outside every task.
MayCreate ==
  /\ ~AnyHold
  /\ Unfinished = {}
  /\ \A o \in Oids : prog[o] # 0 => o \in Assigned

CreateSubtask(retryDeferred) ==
  LET t == nTasks + 1
      candidates == IF retryDeferred THEN RetryCandidates ELSE Oids \ Assigned
  IN  /\ pc = "open"
      /\ MayCreate
      /\ nTasks < MaxTasks
      /\ \E S \in SelectCapacity(candidates) :
           /\ nTasks' = t
           /\ member' = [member EXCEPT ![t] = S]
           /\ prog' = IF retryDeferred THEN Requeue(S) ELSE prog
      /\ Release
      /\ UNCHANGED <<phase, holdReason, holdOid, gen, purged, done, execConn,
                     deferred, verifyVars, pieces, history>>

-----------------------------------------------------------------------------
(* purge --execute                                                         *)

\* UPDATE purge_tasks SET hold_reason, hold_oid WHERE id = t AND done_at IS NULL
Hold(t, oid, reason) ==
  /\ holdReason' = [holdReason EXCEPT ![t] = IF done[t] THEN @ ELSE reason]
  /\ holdOid' = [holdOid EXCEPT ![t] = IF done[t] THEN @ ELSE oid]

\* runPurge gives up before BeginPurge and latches the task: the manifest does
\* not match or could not be read, or the chain denies the bucket id.
PurgeRefused(id, reason) ==
  /\ pc = "open"
  /\ \E t \in ResolvePurge(id) : Hold(t, 0, reason)
  /\ Release
  /\ UNCHANGED <<nTasks, phase, gen, purged, done, execConn, memberVars,
                 verifyVars, prog, pieces, history>>

\* Residue markers requeue their objects; the new generation voids every PASS.
BeginPurge(id) ==
  /\ pc = "open"
  /\ \E t \in ResolvePurge(id) :
       LET progress == Requeue({o \in Active(t) : vstat[t][o] = "RESIDUE"})
       IN  /\ gen[t] < MaxGen
           /\ prog' = progress
           /\ phase' = [phase EXCEPT ![t] = "PURGE"]
           /\ gen' = [gen EXCEPT ![t] = NextGen(t, TRUE)]
           /\ execConn' = [execConn EXCEPT ![t] = conn]
           /\ cur' = t
           /\ work' = [o \in Oids |->
                         IF o \in Claimable(t, progress) THEN "queued" ELSE "out"]
           /\ fresh' = [fresh EXCEPT ![t] = {}]
  /\ pc' = "purging"
  /\ UNCHANGED <<nTasks, holdReason, holdOid, purged, done, memberVars,
                 verifyVars, pieces, processed, rewritten, conn, mode, seen>>

InFlight == {o \in Oids : work[o] \notin {"out", "queued"}}

\* A worker admits o: the queued objects before it are in other workers' hands.
StartObject(o) ==
  /\ pc = "purging" /\ mode = "run"
  /\ work[o] = "queued"
  /\ Cardinality({u \in Oids : work[u] = "queued" /\ u < o})
       + Cardinality(InFlight) < Concurrency
  /\ work' = [work EXCEPT ![o] = "clear_s"]
  /\ UNCHANGED <<taskVars, memberVars, verifyVars, prog, pieces, history,
                 pc, conn, cur, mode, seen>>

\* clearPrefix of one prefix ends with an empty listing.
ClearPrefix(o, p) ==
  /\ pc = "purging"
  /\ work[o] = IF p = "s" THEN "clear_s" ELSE "clear_e"
  /\ work' = [work EXCEPT ![o] = IF p = "s" THEN "clear_e" ELSE "recheck_s"]
  /\ pieces' = pieces \ {<<o, p>>}
  /\ UNCHANGED <<taskVars, memberVars, verifyVars, prog, history,
                 pc, conn, cur, mode, seen>>

\* The read-only re-check of one prefix finds it empty.
Recheck(o, p) ==
  /\ pc = "purging"
  /\ work[o] = IF p = "s" THEN "recheck_s" ELSE "recheck_e"
  /\ <<o, p>> \notin pieces
  /\ work' = [work EXCEPT ![o] = IF p = "s" THEN "recheck_e" ELSE "write"]
  /\ UNCHANGED <<taskVars, memberVars, verifyVars, prog, pieces, history,
                 pc, conn, cur, mode, seen>>

\* DoneSubtask commits.  When its answer is lost the run stops.
RecordDone(o, answered) ==
  /\ pc = "purging"
  /\ work[o] = "write"
  /\ work' = [work EXCEPT ![o] = "out"]
  /\ mode' = IF ~answered /\ mode = "run" THEN "stop" ELSE mode
  /\ prog' = [prog EXCEPT ![o] = 1]
  /\ vgen' = [vgen EXCEPT ![cur][o] = 0]
  /\ vstat' = [vstat EXCEPT ![cur][o] = "PENDING"]
  /\ processed' = [processed EXCEPT ![cur] = @ \union {o}]
  /\ UNCHANGED <<taskVars, memberVars, pieces, pc, conn, cur, seen, fresh,
                 rewritten>>

Attempting == {"clear_s", "clear_e", "recheck_s", "recheck_e"}

\* An ordinary failure (the chain lookup, a listing, a delete out of retries,
\* residue at the re-check): the run stops and the failure is recorded.
RecordFail(o) ==
  /\ pc = "purging" /\ mode \in {"run", "stop"}
  /\ work[o] \in Attempting
  /\ work' = [work EXCEPT ![o] = "out"]
  /\ mode' = "stop"
  /\ prog' = [prog EXCEPT ![o] = 2]
  /\ UNCHANGED <<taskVars, memberVars, verifyVars, pieces, history,
                 pc, conn, cur, seen>>

\* The object ends without a result: cut short by a cancellation, or its
\* Fail or DoneSubtask write did not reach the database.
Unrecorded(o) ==
  /\ pc = "purging"
  /\ work[o] \in Attempting \union {"write", "unsafe"}
  /\ work' = [work EXCEPT ![o] = "out"]
  /\ mode' = IF mode = "run" THEN "stop" ELSE mode
  /\ UNCHANGED <<taskVars, memberVars, verifyVars, prog, pieces, history,
                 pc, conn, cur, seen>>

\* A safety violation of o: the identity check or a key that is not a piece.
\* The first one cancels the run and writes the hold; the write may be lost.
HaltOn(o, written) ==
  /\ pc = "purging"
  /\ work[o] \in {"clear_s", "clear_e"}
  /\ work' = [work EXCEPT ![o] = "unsafe"]
  /\ mode' = "halt"
  /\ IF mode # "halt" /\ written THEN Hold(cur, o, "object")
                                 ELSE UNCHANGED <<holdReason, holdOid>>
  /\ UNCHANGED <<nTasks, phase, gen, purged, done, execConn, memberVars,
                 verifyVars, prog, pieces, history, pc, conn, cur, seen>>

\* Fail of an object that violated safety.
RecordUnsafe(o) ==
  /\ pc = "purging"
  /\ work[o] = "unsafe"
  /\ work' = [work EXCEPT ![o] = "out"]
  /\ prog' = [prog EXCEPT ![o] = 2]
  /\ UNCHANGED <<taskVars, memberVars, verifyVars, pieces, history,
                 pc, conn, cur, mode, seen>>

\* The claim query fails (the run stops), or the operator interrupts the run.
Interrupt(m) ==
  /\ pc = "purging"
  /\ \/ m = "stop" /\ mode = "run"
     \/ m = "cancel" /\ mode \in {"run", "stop"}
  /\ mode' = m
  /\ UNCHANGED <<taskVars, memberVars, verifyVars, prog, pieces, history,
                 pc, conn, cur, work, seen>>

\* UPDATE purge_tasks SET purged_at, phase WHERE done_at IS NULL AND no hold
MarkPurged(t) ==
  /\ AllProcessed(t)
  /\ purged' = [purged EXCEPT ![t] = @ \/ (~done[t] /\ holdReason[t] = "none")]
  /\ phase' = [phase EXCEPT ![t] =
                 IF ~done[t] /\ holdReason[t] = "none" THEN "PURGE" ELSE @]

\* Run returned nil: every queued object was handled and none failed.  A run
\* that returned an error ends by Exit.
CompletePurge ==
  /\ pc = "purging" /\ mode = "run"
  /\ \A o \in Oids : work[o] = "out"
  /\ MarkPurged(cur)
  /\ Release
  /\ UNCHANGED <<nTasks, holdReason, holdOid, gen, done, execConn, memberVars,
                 verifyVars, prog, pieces, history>>

-----------------------------------------------------------------------------
(* verify                                                                  *)

\* runVerify gives up before BeginVerify and latches the task.
VerifyRefused(id, reason) ==
  /\ pc = "open"
  /\ \E t \in ResolveVerify(id) : Hold(t, 0, reason)
  /\ Release
  /\ UNCHANGED <<nTasks, phase, gen, purged, done, execConn, memberVars,
                 verifyVars, prog, pieces, history>>

BeginVerify(id, restart) ==
  /\ pc = "open"
  /\ \E t \in ResolveVerify(id) :
       LET g == NextGen(t, restart)
       IN  /\ holdReason[t] = "none"
           /\ done[t] => restart
           /\ AllProcessed(t)
           /\ g <= MaxGen
           /\ phase' = [phase EXCEPT ![t] = "VERIFY"]
           /\ gen' = [gen EXCEPT ![t] = g]
           /\ done' = [done EXCEPT ![t] = FALSE]
           /\ purged' = [purged EXCEPT ![t] = TRUE]
           /\ execConn' = [execConn EXCEPT ![t] = conn]
           /\ cur' = t
           /\ work' = [o \in Oids |->
                         IF o \in VerifyPending(t, g) THEN "queued" ELSE "out"]
           /\ fresh' = [fresh EXCEPT ![t] = IF restart THEN {} ELSE @]
  /\ pc' = "checking"
  /\ UNCHANGED <<nTasks, holdReason, holdOid, memberVars, verifyVars, prog,
                 pieces, processed, rewritten, conn, mode, seen>>

\* verify takes the objects one by one, in OID order.
CheckObject(o) ==
  /\ pc = "checking"
  /\ \A u \in Oids : work[u] \in {"out", "queued"}
  /\ o \in Lowest({u \in Oids : work[u] = "queued"})
  /\ work' = [work EXCEPT ![o] = "look_s"]
  /\ seen' = "PASS"
  /\ rewritten' = rewritten \ {o}
  /\ UNCHANGED <<taskVars, memberVars, verifyVars, prog, pieces, pc, conn, cur,
                 mode, fresh, processed>>

WrongJudge(found, failed) ==   \* the prefix looked at last decides
  CASE failed -> "ERROR" [] ~failed /\ found -> "RESIDUE" [] OTHER -> "PASS"

\* The verdict on an object so far; RESIDUE outranks ERROR, ERROR outranks PASS.
Judge(found, failed) ==
  CASE ~failed /\ found          -> "RESIDUE"
    [] failed /\ seen = "PASS"   -> "ERROR"
    [] OTHER                     -> seen

\* One prefix is looked at; the look may fail for good.
LookAt(o, p, failed) ==
  /\ pc = "checking"
  /\ work[o] = IF p = "s" THEN "look_s" ELSE "look_e"
  /\ work' = [work EXCEPT ![o] = IF p = "s" THEN "look_e" ELSE "report"]
  /\ seen' = Judge(<<o, p>> \in pieces, failed)
  /\ UNCHANGED <<taskVars, memberVars, verifyVars, prog, pieces, pc, conn, cur,
                 mode, history>>

RecordVerify(o) ==
  /\ pc = "checking"
  /\ work[o] = "report"
  /\ work' = [work EXCEPT ![o] = "out"]
  /\ vgen' = [vgen EXCEPT ![cur][o] = gen[cur]]
  /\ seen' = "PASS"
  /\ vstat' = [vstat EXCEPT ![cur][o] = seen]
  /\ fresh' = [fresh EXCEPT ![cur] = IF seen = "PASS" THEN @ \union {o} ELSE @]
  /\ UNCHANGED <<taskVars, memberVars, prog, pieces, pc, conn, cur, mode, processed,
                 rewritten>>

CompleteVerify ==
  /\ pc = "checking"
  /\ \A o \in Oids : work[o] = "out"
  /\ AllProcessed(cur)
  /\ VerifyPending(cur, gen[cur]) = {}
  /\ holdReason[cur] = "none" /\ phase[cur] = "VERIFY"
  /\ done' = [done EXCEPT ![cur] = TRUE]
  /\ Release
  /\ UNCHANGED <<nTasks, phase, holdReason, holdOid, gen, purged, execConn,
                 memberVars, verifyVars, prog, pieces, history>>

-----------------------------------------------------------------------------
(* task defer (and task exclude), task resume                              *)

\* The deferral is committed; a hold caused by this very object is lifted.
DeferObject(id, o) ==
  /\ pc = "open"
  /\ \E t \in ResolveAdmin(id) :
       /\ ~done[t]
       /\ holdReason[t] = "none" \/ holdOid[t] = o
       /\ o \in Active(t)
       /\ deferred' = [deferred EXCEPT ![t] = @ \union {o}]
       /\ holdReason' = [holdReason EXCEPT ![t] = "none"]
       /\ holdOid' = [holdOid EXCEPT ![t] = 0]
       /\ cur' = t
  /\ pc' = "deferred"
  /\ UNCHANGED <<nTasks, phase, gen, purged, done, execConn, member, verifyVars,
                 prog, pieces, history, conn, mode, work, seen>>

CompleteDefer ==
  /\ pc = "deferred"
  /\ MarkPurged(cur)
  /\ Release
  /\ UNCHANGED <<nTasks, holdReason, holdOid, gen, done, execConn, memberVars,
                 verifyVars, prog, pieces, history>>

ResumeSafety(id) ==
  /\ pc = "open"
  /\ \E t \in ResolveAdmin(id) :
       /\ holdReason[t] # "none"
       /\ holdReason' = [holdReason EXCEPT ![t] = "none"]
       /\ holdOid' = [holdOid EXCEPT ![t] = 0]
  /\ Release
  /\ UNCHANGED <<nTasks, phase, gen, purged, done, execConn, memberVars,
                 verifyVars, prog, pieces, history>>

-----------------------------------------------------------------------------

\* Something other than this program stores pieces of a listed object.
WriteBack(o, p) ==
  /\ pieces' = pieces \union {<<o, p>>}
  /\ rewritten' = rewritten \union {o}
  /\ UNCHANGED <<taskVars, memberVars, verifyVars, prog, commandVars, fresh,
                 processed>>

Ids == 0..MaxTasks   \* values of --task-id

PurgeObject(o) ==
  \/ StartObject(o)
  \/ \E p \in Prefixes : ClearPrefix(o, p)
  \/ \E p \in Prefixes : Recheck(o, p)
  \/ \E answered \in BOOLEAN : RecordDone(o, answered)
  \/ RecordFail(o)
  \/ Unrecorded(o)
  \/ \E written \in BOOLEAN : HaltOn(o, written)
  \/ RecordUnsafe(o)

VerifyObject(o) ==
  \/ CheckObject(o)
  \/ \E p \in Prefixes, failed \in BOOLEAN : LookAt(o, p, failed)
  \/ RecordVerify(o)

Next ==
  \/ \E c \in Conns : Acquire(c)
  \/ EnsureSchema
  \/ Exit
  \/ \E retryDeferred \in BOOLEAN : CreateSubtask(retryDeferred)
  \/ \E id \in Ids, reason \in Refusals : PurgeRefused(id, reason)
  \/ \E id \in Ids : BeginPurge(id)
  \/ \E o \in Oids : PurgeObject(o)
  \/ \E m \in Modes : Interrupt(m)
  \/ CompletePurge
  \/ \E id \in Ids, reason \in Refusals : VerifyRefused(id, reason)
  \/ \E id \in Ids, restart \in BOOLEAN : BeginVerify(id, restart)
  \/ \E o \in Oids : VerifyObject(o)
  \/ CompleteVerify
  \/ \E id \in Ids, o \in Oids : DeferObject(id, o)
  \/ CompleteDefer
  \/ \E id \in Ids : ResumeSafety(id)
  \/ \E o \in Rewritable, p \in Prefixes : WriteBack(o, p)

Spec == Init /\ [][Next]_vars

-----------------------------------------------------------------------------
(* Correctness.                                                            *)

TaskTypes ==
  /\ nTasks \in Nat /\ nTasks <= MaxTasks
  /\ phase \in [TaskIds -> Phases]
  /\ holdReason \in [TaskIds -> HoldReasons]
  /\ holdOid \in [TaskIds -> Oids \union {0}]
  /\ gen \in [TaskIds -> Nat]
  /\ purged \in [TaskIds -> BOOLEAN]
  /\ done \in [TaskIds -> BOOLEAN]
  /\ execConn \in [TaskIds -> Conns \union {0}]

ObjectTypes ==
  /\ member \in [TaskIds -> SUBSET Oids]
  /\ deferred \in [TaskIds -> SUBSET Oids]
  /\ vgen \in [TaskIds -> [Oids -> Nat]]
  /\ vstat \in [TaskIds -> [Oids -> Verdicts]]
  /\ prog \in [Oids -> {0, 1, 2}]
  /\ pieces \subseteq Oids \X Prefixes

CommandTypes ==
  /\ pc \in Pcs
  /\ conn \in Conns \union {0}
  /\ cur \in Created \union {0}
  /\ mode \in Modes
  /\ work \in [Oids -> Steps]
  /\ seen \in Verdicts

HistoryTypes ==
  /\ fresh \in [TaskIds -> SUBSET Oids]
  /\ processed \in [TaskIds -> SUBSET Oids]
  /\ rewritten \subseteq Oids

\* Every table column and every field of the command has its type; in
\* particular a command only ever works on a task that has a row.
TypeOK == TaskTypes /\ ObjectTypes /\ CommandTypes /\ HistoryTypes

\* At most one task is unfinished, so purge and task create without --task-id
\* never meet "multiple unfinished subtasks" (selectCurrent refuses both then,
\* and no command could repair it).
OneCurrentTask == \A t, u \in Unfinished : t = u

\* An object is active in at most one task, the latest it belongs to: every
\* earlier membership is deferred.  Two tasks never delete or vouch for it at
\* once, and counting deferrals by latest membership loses no object.
ActiveInLatest ==
  \A t, u \in Created : t < u => member[t] \intersect member[u] \subseteq deferred[t]

\* done_at means what the report claims: every active member passed a check
\* made after the last deletion run and the last --restart of the task.
DoneIsVerified == \A t \in Created : done[t] => Active(t) \subseteq fresh[t]

\* A verified task is not stuck: were one of its objects unprocessed or on
\* hold, purge and defer (done_at is set) and verify --restart (unprocessed
\* objects) would all refuse it.
NoDeadEnd ==
  \A t \in Created : done[t] => /\ purged[t] /\ holdReason[t] = "none"
                                  /\ \A o \in Active(t) : prog[o] = 1

\* ALL_DONE is honest: a piece that is still in the bucket was put there after
\* the last check of its object had begun.
AllDoneSound == AllDone => \A x \in pieces : x[1] \in rewritten

\* A task never counts an object as processed on the strength of an earlier
\* task's deletion: each passed the identity check and was cleared in its own.
ProcessedHere ==
  \A t \in Created : \A o \in Active(t) : prog[o] = 1 => o \in processed[t]

\* SAFETY_HOLD is global: a purge never runs beside a hold on any task, except
\* the run that wrote it, which is cancelled and admits nothing more.
HoldStopsPurge == AnyHold /\ pc = "purging" => mode = "halt" /\ holdReason[cur] # "none"

\* While a purge runs, an object verify found residue for is not "processed"
\* until it is cleared again, so the run cannot complete around it and a rerun
\* after a crash does not clear it twice.
ResidueIsOwed ==
  pc = "purging" =>
    \A o \in Active(cur) : vstat[cur][o] = "RESIDUE" => prog[o] # 1

\* SAFETY_HOLD is for doubts about what may be deleted; an ordinary failure of a
\* read never writes it (README.md, SUBTASK_DESIGN.md).
HoldOnlyOnDoubt == \A t \in Created : holdReason[t] # "readError"

\* status says RUNNING or VERIFYING of one task at most, and of the task the lock
\* holder works on, with one exception: from GET_LOCK to the UPDATE of EnsureSchema
\* a command that was given the connection id of one that died makes the dead
\* command's task look as if it ran.  That UPDATE ends it before the command begins.
RunningIsTrue ==
  /\ \A t \in Created : LockedBy(t) =>
       pc = "locked" \/ (cur = t /\ pc \in {"purging", "checking"})
  /\ \A t, u \in Created : LockedBy(t) /\ LockedBy(u) => t = u

Grows(t) ==
  /\ member'[t] = member[t]
  /\ deferred[t] \subseteq deferred'[t]
  /\ purged[t] => purged'[t]
  /\ gen[t] <= gen'[t]
  /\ done[t] /\ ~done'[t] => gen[t] < gen'[t]

\* What no command may undo: membership is frozen at creation, a deferral and
\* the deletion milestone are permanent, a verification generation never comes
\* back, and a task loses done_at only by opening a new generation.
LedgerOnlyGrows == [][\A t \in Created : Grows(t)]_vars

-----------------------------------------------------------------------------
(* The inductive invariant behind the properties above.                    *)

PurgeSteps  == {"out", "queued", "clear_s", "clear_e", "recheck_s",
                "recheck_e", "write", "unsafe"}
Looking     == {"look_s", "look_e", "report"}
VerifySteps == {"out", "queued"} \union Looking

\* Rows that do not exist yet hold what INSERT will give them.
UnusedRows ==
  \A t \in TaskIds \ Created :
    /\ phase[t] = "READY" /\ holdReason[t] = "none" /\ ~purged[t] /\ ~done[t]
    /\ member[t] = {} /\ fresh[t] = {}

\* Generations start at 1, deferred rows are members, and members have rows.
Membership ==
  /\ \A t \in TaskIds : deferred[t] \subseteq member[t] /\ gen[t] >= 1
  /\ \A o \in Oids : prog[o] # 0 => o \in Assigned
  /\ \A o \in Assigned : \E t \in Created :
       o \in member[t] /\ \A u \in Created : u > t => o \notin member[u]

\* A PASS counts exactly while its generation is the task's generation.
Freshness ==
  \A t \in TaskIds : \A o \in Oids :
    /\ vgen[t][o] <= gen[t]
    /\ o \in fresh[t] <=> vgen[t][o] = gen[t] /\ vstat[t][o] = "PASS"

\* What a check saw stays true of the bucket until somebody writes to it.
Vouched ==
  \A t \in Created : \A o \in Active(t) \intersect fresh[t] :
    \A p \in Prefixes : <<o, p>> \in pieces => o \in rewritten

\* The same of the prefixes looked at in a check that is under way.
Sighted ==
  \A o \in Oids :
    /\ work[o] \in {"look_e", "report"} /\ seen = "PASS" /\ <<o, "s">> \in pieces
         => o \in rewritten
    /\ work[o] = "report" /\ seen = "PASS" /\ <<o, "e">> \in pieces
         => o \in rewritten

\* At most one task bears the mark of a command, running or dead: a mark is set only
\* after EnsureSchema has wiped all of them.
OneMark == \A t, u \in TaskIds : execConn[t] # 0 /\ execConn[u] # 0 => t = u

\* A running command works on active members of a task that is not done.
Command ==
  /\ (pc = "idle") <=> (conn = 0)
  /\ pc \in {"idle", "locked", "open"} <=> cur = 0
  /\ pc \in {"purging", "checking", "deferred"} => ~done[cur]
  /\ pc # "purging" => mode = "run"
  /\ pc \notin {"purging", "checking"} => \A o \in Oids : work[o] = "out"
  /\ pc \notin {"idle", "locked"} =>
       \A t \in TaskIds : execConn[t] # 0 => t = cur /\ pc \in {"purging", "checking"}

Purging ==
  pc = "purging" =>
    /\ fresh[cur] = {}
    /\ \A o \in Oids : /\ work[o] \in PurgeSteps
                       /\ work[o] # "out" => o \in Active(cur) /\ prog[o] # 1

Checking ==
  pc = "checking" =>
    /\ purged[cur] /\ holdReason[cur] = "none" /\ AllProcessed(cur)
    /\ \A o \in Oids : /\ work[o] \in VerifySteps
                       /\ work[o] # "out" => o \in Active(cur) /\ o \notin fresh[cur]
    /\ \A o, u \in Oids : work[o] \in Looking /\ work[u] \in Looking => o = u

\* The conjunction that every action preserves.
LedgerInv ==
  /\ TypeOK /\ UnusedRows /\ Membership /\ Freshness /\ Vouched /\ Sighted
  /\ Command /\ Purging /\ Checking
  /\ OneCurrentTask /\ ActiveInLatest /\ DoneIsVerified /\ NoDeadEnd
  /\ ProcessedHere /\ HoldStopsPurge /\ ResidueIsOwed

=============================================================================
