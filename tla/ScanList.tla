------------------------------ MODULE ScanList ------------------------------
(***************************************************************************)
(* scan: how the list of objects gets into the progress database and is    *)
(* sealed.  The source is the provider's index, read page by page while    *)
(* others may still write to it; a scan may be killed between two pages,   *)
(* and the next one starts over on top of what it left.                    *)
(*                                                                         *)
(* An object is known by the id of its row in the index; ids only go up.   *)
(* What a row says of it (payload size, status, version) is a number that  *)
(* goes up when the object is changed; the list keeps what was stored      *)
(* first.                                                                  *)
(* Binding fields (chain, provider, storage, ...) are one value.           *)
(***************************************************************************)
EXTENDS Integers, FiniteSets, TLC

CONSTANTS Procs,        \* processes that run scan
          Bindings,     \* providers that may be pointed at this database
          MaxRow,       \* bound: rows of one provider's index
          Batch,        \* --batch
          MaxChanges,   \* bound: objects created, changed or deleted at the source
          MaxCrashes,   \* bound: scans that are killed or fail
          Legacy        \* whether the database may be one of an older version

ASSUME ScanAssumption == /\ MaxRow \in Nat /\ Batch \in Nat \ {0}
                         /\ MaxChanges \in Nat /\ MaxCrashes \in Nat
                         /\ Legacy \in BOOLEAN

None == "none"
Old  == "old"
ASSUME NamesAssumption == None \notin Procs /\ {None, Old} \intersect Bindings = {}

\* The processes are alike, and so are the providers.
ScanSymmetry == Permutations(Procs) \union Permutations(Bindings)

Rows == 1..MaxRow
Pcs  == {"idle", "counted", "bind", "begin", "scan", "recount", "finish"}

VARIABLES
  live, top,               \* per provider: rows with removed=0; the last row id
  version,                 \* per provider: what its rows say
  changes, crashes,        \* how often the bounded actions happened
  bound, status,           \* task_meta: its binding and scan_status
  list, snap,              \* scan_objects: its rows and what they say
  results, tasks,          \* whether there are results, tasks
  owner,                   \* who holds the execution lock
  pc, who, n,              \* per process: what it runs for, its first count
  cursor, read, seen,      \* the scan of the owner: last row id, rows read and
                           \* what they said
  sources,                 \* history: whose rows went into the list
  added, removed,          \* history: processes that an addition (a removal)
                           \* at their source overtook since their first count
  carried,                 \* history: the list when the last scan began
  outdated,                \* history: listed rows whose object was changed since
  counted                  \* history: at the last second count that agreed, the
                           \* rows read, what they said, the source, and whether
                           \* both had overtaken

sourceVars == <<live, top, version, changes>>
metaVars   == <<bound, status, list, snap, results, tasks>>
scanVars   == <<owner, pc, who, n, cursor, read, seen>>
history    == <<sources, added, removed, carried, outdated, counted>>
vars == <<sourceVars, crashes, metaVars, scanVars, history>>

Unread == [r \in Rows |-> 0]

\* A fresh database, or one of a version that did not bind it.
Init ==
  /\ top \in [Bindings -> Rows]
  /\ live = [b \in Bindings |-> 1..top[b]]
  /\ version = [b \in Bindings |-> [r \in Rows |-> 1]]
  /\ changes = 0 /\ crashes = 0
  /\ bound = None /\ status = "NONE" /\ tasks = FALSE
  /\ \/ list = {} /\ results = FALSE /\ sources = {}
     \/ Legacy /\ list \in {{}, {1}} /\ results = (list = {}) /\ sources = {Old}
  /\ owner = None
  /\ pc = [p \in Procs |-> "idle"]
  /\ who = [p \in Procs |-> None]
  /\ n = [p \in Procs |-> 0]
  /\ snap = Unread
  /\ cursor = 0 /\ read = {} /\ seen = Unread
  /\ added = {} /\ removed = {} /\ carried = {} /\ outdated = {}
  /\ counted = [rows |-> {}, said |-> Unread, source |-> {}, exchanged |-> FALSE]

-----------------------------------------------------------------------------
(* The source.                                                             *)

Add(b) ==
  /\ changes < MaxChanges /\ top[b] < MaxRow
  /\ top' = [top EXCEPT ![b] = @ + 1]
  /\ live' = [live EXCEPT ![b] = @ \union {top[b] + 1}]
  /\ changes' = changes + 1
  /\ added' = added \union {p \in Procs : who[p] = b}
  /\ UNCHANGED <<version, crashes, metaVars, scanVars, sources, removed, carried, outdated,
                 counted>>

Remove(b) ==
  /\ changes < MaxChanges
  /\ \E r \in live[b] : live' = [live EXCEPT ![b] = @ \ {r}]
  /\ changes' = changes + 1
  /\ removed' = removed \union {p \in Procs : who[p] = b}
  /\ UNCHANGED <<top, version, crashes, metaVars, scanVars, sources, added, carried,
                 outdated, counted>>

\* An object is sealed or overwritten: its row says something else.
Update(b, r) ==
  /\ changes < MaxChanges /\ r \in live[b]
  /\ version' = [version EXCEPT ![b][r] = @ + 1]
  /\ changes' = changes + 1
  /\ outdated' = IF bound = b /\ r \in list THEN outdated \union {r} ELSE outdated
  /\ UNCHANGED <<live, top, crashes, metaVars, scanVars, sources, added, removed, carried,
                 counted>>

-----------------------------------------------------------------------------
(* scan                                                                    *)

Leave(p) ==
  /\ pc' = [pc EXCEPT ![p] = "idle"]
  /\ who' = [who EXCEPT ![p] = None]
  /\ n' = [n EXCEPT ![p] = 0]
  /\ owner' = IF owner = p THEN None ELSE owner
  /\ cursor' = IF owner = p THEN 0 ELSE cursor
  /\ read' = IF owner = p THEN {} ELSE read
  /\ seen' = IF owner = p THEN Unread ELSE seen

\* The process is killed, or a query fails.
Crash(p) ==
  /\ pc[p] # "idle" /\ crashes < MaxCrashes
  /\ crashes' = crashes + 1
  /\ Leave(p)
  /\ UNCHANGED <<sourceVars, metaVars, history>>

\* The first count, before the lock is taken; an empty source ends the command.
Count(p, b) ==
  /\ pc[p] = "idle" /\ live[b] # {}
  /\ pc' = [pc EXCEPT ![p] = "counted"]
  /\ who' = [who EXCEPT ![p] = b]
  /\ n' = [n EXCEPT ![p] = Cardinality(live[b])]
  /\ added' = added \ {p} /\ removed' = removed \ {p}
  /\ UNCHANGED <<sourceVars, crashes, metaVars, owner, cursor, read, seen, sources,
                 carried, outdated, counted>>

\* openLocked: GET_LOCK does not wait.
Open(p) ==
  /\ pc[p] = "counted"
  /\ IF owner = None
     THEN /\ owner' = p
          /\ pc' = [pc EXCEPT ![p] = "bind"]
          /\ UNCHANGED <<who, n, cursor, read, seen>>
     ELSE Leave(p)
  /\ UNCHANGED <<sourceVars, crashes, metaVars, history>>

WrongMayBind(b) == bound \in {None, b}   \* adopts an unbound database

\* An unbound database is taken only when it is empty, a bound one only by the
\* provider it is bound to.
MayBind(b) == \/ bound = None /\ list = {} /\ ~results
              \/ bound = b

Bind(p) ==
  /\ pc[p] = "bind"
  /\ IF MayBind(who[p])
     THEN /\ bound' = who[p]
          /\ pc' = [pc EXCEPT ![p] = "begin"]
          /\ UNCHANGED <<owner, who, n, cursor, read, seen>>
     ELSE Leave(p) /\ UNCHANGED bound
  /\ UNCHANGED <<sourceVars, crashes, status, list, snap, results, tasks, history>>

MayScan == status # "COMPLETE" /\ ~tasks

BeginScan(p) ==
  /\ pc[p] = "begin"
  /\ IF MayScan
     THEN /\ status' = "RUNNING"
          /\ pc' = [pc EXCEPT ![p] = "scan"]
          /\ cursor' = 0 /\ read' = {} /\ seen' = Unread
          /\ carried' = list
          /\ UNCHANGED <<owner, who, n>>
     ELSE Leave(p) /\ UNCHANGED <<status, carried>>
  /\ UNCHANGED <<sourceVars, crashes, bound, list, snap, results, tasks, sources, added,
                 removed, outdated, counted>>

\* The first Batch live rows after the cursor.
Page(b) ==
  LET rest == {r \in live[b] : r > cursor}
  IN  {r \in rest : Cardinality({q \in rest : q < r}) < Batch}

\* INSERT IGNORE: a row the list has already stays as it is.
InsertScan(b, out) ==
  /\ list' = list \union out
  /\ snap' = [r \in Rows |-> IF r \in out \ list THEN version[b][r] ELSE snap[r]]

\* One page is read and stored.  A short page is the last.
Scan(p) ==
  LET out == Page(who[p]) IN
  /\ pc[p] = "scan"
  /\ InsertScan(who[p], out)
  /\ read' = read \union out
  /\ seen' = [r \in Rows |-> IF r \in out THEN version[who[p]][r] ELSE seen[r]]
  /\ \E last \in out \union {cursor} :
       /\ \A r \in out : r <= last
       /\ cursor' = last
  /\ sources' = IF out = {} THEN sources ELSE sources \union {who[p]}
  /\ pc' = [pc EXCEPT ![p] = IF Cardinality(out) < Batch THEN "recount" ELSE "scan"]
  /\ UNCHANGED <<sourceVars, crashes, bound, status, results, tasks, owner, who, n,
                 added, removed, carried, outdated, counted>>

WrongReconcile(before, after, rows) == rows = before   \* the second count is dropped

Reconcile(before, after, rows) == before = after /\ rows = before

\* The second count.
Recount(p) ==
  /\ pc[p] = "recount"
  /\ IF Reconcile(n[p], Cardinality(live[who[p]]), Cardinality(read))
     THEN /\ pc' = [pc EXCEPT ![p] = "finish"]
          /\ counted' = [rows |-> read, said |-> seen, source |-> live[who[p]],
                         exchanged |-> p \in added /\ p \in removed]
          /\ UNCHANGED <<owner, who, n, cursor, read, seen>>
     ELSE Leave(p) /\ UNCHANGED counted
  /\ UNCHANGED <<sourceVars, crashes, metaVars, sources, added, removed, carried,
                 outdated>>

WrongMaySeal(rows) == rows > 0   \* trusts the rows it has read

\* What is stored is as much as what was read.
MaySeal(rows) == rows > 0 /\ Cardinality(list) = rows

\* The list is sealed, for good.
FinishScan(p) ==
  /\ pc[p] = "finish"
  /\ status' = IF MaySeal(Cardinality(read)) THEN "COMPLETE" ELSE status
  /\ Leave(p)
  /\ UNCHANGED <<sourceVars, crashes, bound, list, snap, results, tasks, history>>

\* openBound and the first task create.
CreateTask(b) ==
  /\ owner = None /\ bound = b /\ status = "COMPLETE"
  /\ tasks' = TRUE
  /\ UNCHANGED <<sourceVars, crashes, bound, status, list, snap, results, scanVars, history>>

-----------------------------------------------------------------------------

ScanStep(p) ==
  \/ \E b \in Bindings : Count(p, b)
  \/ Open(p) \/ Bind(p) \/ BeginScan(p) \/ Scan(p) \/ Recount(p) \/ FinishScan(p)

Next ==
  \/ \E b \in Bindings : \/ Add(b) \/ Remove(b) \/ CreateTask(b)
                         \/ \E r \in Rows : Update(b, r)
  \/ \E p \in Procs : ScanStep(p) \/ Crash(p)

Spec == Init /\ [][Next]_vars

\* scan is run again whenever it ended, and its queries come back.
FairSpec == Spec /\ \A p \in Procs : WF_vars(ScanStep(p))

-----------------------------------------------------------------------------
(* Correctness.                                                            *)

\* A sealed list holds the rows one scan read, the sealing one, although every scan
\* adds to the same table: a row an interrupted scan left behind is in it only if the
\* sealing scan read it too.  What a row says is what that scan read as well, or what
\* an interrupted scan had stored before and the object was changed since ("existing
\* snapshots are not refreshed", README.md).
SealedIsOneScan ==
  status = "COMPLETE" =>
    /\ list = counted.rows
    /\ \A r \in list : snap[r] = counted.said[r] \/ r \in carried \intersect outdated

\* The ids of a sealed list are the provider's as of the second count, unless objects were
\* both created and deleted while it was scanned (README.md names that case).
SealedIsSource ==
  status = "COMPLETE" /\ ~counted.exchanged => list = counted.source

\* The database serves one provider: no row, and no result, of another one or of
\* an older version's database is ever taken for its own.
OneSource == bound # None => sources \subseteq {bound} /\ ~results

\* "object list is not complete ...; re-run scan until it reports complete"
\* (task.go): with a source that has come to rest, scanning again succeeds.
RescanCompletes ==
  (\E b \in Bindings : <>[](live[b] # {})) => <>(status = "COMPLETE")

=============================================================================
