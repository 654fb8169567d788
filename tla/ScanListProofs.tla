--------------------------- MODULE ScanListProofs ---------------------------
(***************************************************************************)
(* The sealed list, for any number of scanning processes, providers and    *)
(* rows, every page size, and whatever happens at the source meanwhile.    *)
(***************************************************************************)
EXTENDS ScanList, FiniteSetTheorems, TLAPS

USE ScanAssumption, NamesAssumption
USE DEF Rows, sourceVars, metaVars, scanVars, history

Locked   == {"bind", "begin", "scan", "recount", "finish"}
Bound    == {"begin", "scan", "recount", "finish"}
Scanning == {"scan", "recount", "finish"}

ScanTypes ==
  /\ live \in [Bindings -> SUBSET Rows] /\ top \in [Bindings -> Rows]
  /\ version \in [Bindings -> [Rows -> Nat]]
  /\ IsFiniteSet(list) /\ read \subseteq Rows
  /\ pc \in [Procs -> Pcs] /\ who \in [Procs -> Bindings \union {None}]
  /\ n \in [Procs -> Nat]
  /\ owner \in Procs \union {None}

\* The execution lock is held through a scan, and only the scan that holds it has
\* read anything.
Exclusive ==
  /\ \A p \in Procs : pc[p] \in Locked <=> owner = p
  /\ owner = None => read = {}
  /\ \A p \in Procs : pc[p] # "idle" => who[p] \in Bindings

\* A scan that runs is of the provider the database is bound to, has not been
\* overtaken by a seal, and has stored what it has read.
Running ==
  /\ \A p \in Procs : pc[p] \in Bound => bound = who[p]
  /\ \A p \in Procs : pc[p] \in Scanning => status = "RUNNING" /\ read \subseteq list

\* Why two equal counts are enough.  Without an addition since the first count, the
\* rows of the source and the rows read are among those that were counted; without
\* a removal, the rows read are still there.
Overtaken ==
  \A p \in Procs : pc[p] # "idle" =>
    /\ p \notin added =>
         \E L \in SUBSET Rows : /\ Cardinality(L) = n[p] /\ live[who[p]] \subseteq L
                                /\ pc[p] \in Scanning => read \subseteq L
    /\ p \notin removed /\ pc[p] \in Scanning => read \subseteq live[who[p]]

\* The second count of the scan that is about to seal, and of the one that did.
Agreed ==
  /\ ~counted.exchanged => counted.rows = counted.source
  /\ \A p \in Procs : pc[p] = "finish" => counted.rows = read /\ counted.said = seen
  /\ SealedIsOneScan

\* What a row of the list says is what the source says, unless the object was changed
\* after the row was stored.  The scan that runs has read what its rows say, except
\* that of rows stored before it began and outdated since.
Snapshots ==
  /\ bound # None =>
       /\ bound \in Bindings /\ list \subseteq Rows
       /\ \A r \in list : snap[r] = version[bound][r] \/ r \in outdated
  /\ \A p \in Procs : pc[p] \in Scanning =>
       /\ cursor \in Nat /\ \A r \in read : r <= cursor
       /\ list = carried \union read
       /\ \A r \in read : snap[r] = seen[r] \/ r \in carried \intersect outdated

\* A database that is not bound is empty, or shows that an older version used it.
Provenance ==
  /\ bound = None /\ list = {} /\ ~results => sources = {}
  /\ OneSource

ScanInv == /\ ScanTypes /\ Exclusive /\ Running /\ Overtaken /\ Agreed /\ Snapshots
           /\ Provenance

\* What is read and listed is finite, so a count tells equal sets from larger ones.
LEMMA RowsFinite == \A S \in SUBSET Rows : IsFiniteSet(S) /\ Cardinality(S) \in Nat
<1>1. IsFiniteSet(Rows)
  BY FS_Interval
<1> QED
  BY <1>1, FS_Subset, FS_CardinalityType

\* A set that is part of another one, and as large, is all of it.
LEMMA SameSize ==
  ASSUME NEW S, NEW T, IsFiniteSet(T), S \subseteq T, Cardinality(S) = Cardinality(T)
  PROVE  S = T
  BY FS_Subset

\* Which variables a part of the invariant depends on.
LEMMA Frame ==
  ASSUME ScanInv
  PROVE  /\ UNCHANGED <<live, top, version, list, read, pc, who, n, owner>> => ScanTypes'
         /\ UNCHANGED <<pc, owner, read, who>> => Exclusive'
         /\ UNCHANGED <<pc, bound, who, status, read, list>> => Running'
         /\ UNCHANGED <<pc, added, n, live, who, read, removed>> => Overtaken'
         /\ UNCHANGED <<counted, pc, read, seen, status, list, snap, carried, outdated>> => Agreed'
         /\ UNCHANGED <<bound, list, snap, version, outdated, pc, cursor, read, seen, carried>>
              => Snapshots'
         /\ UNCHANGED <<bound, list, results, sources>> => Provenance'
<1>1. UNCHANGED <<live, top, version, list, read, pc, who, n, owner>> => ScanTypes'
  BY DEF ScanInv, ScanTypes
<1>2. UNCHANGED <<pc, owner, read, who>> => Exclusive'
  BY DEF ScanInv, Exclusive
<1>3. UNCHANGED <<pc, bound, who, status, read, list>> => Running'
  BY DEF ScanInv, Running
<1>4. UNCHANGED <<pc, added, n, live, who, read, removed>> => Overtaken'
  BY DEF ScanInv, Overtaken
<1>5. UNCHANGED <<counted, pc, read, seen, status, list, snap, carried, outdated>> => Agreed'
  BY DEF ScanInv, Agreed, SealedIsOneScan
<1>6. UNCHANGED <<bound, list, results, sources>> => Provenance'
  BY DEF ScanInv, Provenance, OneSource
<1>7. UNCHANGED <<bound, list, snap, version, outdated, pc, cursor, read, seen, carried>>
        => Snapshots'
  BY DEF ScanInv, Snapshots
<1> QED
  BY <1>1, <1>2, <1>3, <1>4, <1>5, <1>6, <1>7

\* Where no row is stored and none changes, and no other scan than p's is concerned.
LEMMA SnapshotsKept ==
  ASSUME ScanInv, NEW p \in Procs, NEW k, pc' = [pc EXCEPT ![p] = k],
         k \notin Scanning \/ (k \in Scanning /\ pc[p] \in Scanning),
         UNCHANGED <<bound, list, snap, version, outdated, carried>>,
         \A q \in Procs : pc'[q] \in Scanning => UNCHANGED <<cursor, read, seen>>
  PROVE  Snapshots'
  BY DEF ScanInv, ScanTypes, Snapshots

\* An object is created at the source: the scans of that provider are marked.
LEMMA AddInv ==
  ASSUME ScanInv, NEW b \in Bindings, Add(b)
  PROVE  ScanInv'
<1>1. ScanTypes'
  <2>1. live' \in [Bindings -> SUBSET Rows] /\ top' \in [Bindings -> Rows]
    BY DEF ScanInv, ScanTypes, Add
  <2>2. UNCHANGED <<version, list, read, pc, who, n, owner>>
    BY DEF Add
  <2> QED
    BY <2>1, <2>2 DEF ScanInv, ScanTypes
<1>2. Overtaken'
  BY DEF ScanInv, Overtaken, Add
<1>3. Exclusive' /\ Running' /\ Agreed' /\ Snapshots' /\ Provenance'
  BY Frame DEF Add
<1> QED
  BY <1>1, <1>2, <1>3 DEF ScanInv

\* An object is deleted at the source: the scans of that provider are marked.
LEMMA RemoveInv ==
  ASSUME ScanInv, NEW b \in Bindings, Remove(b)
  PROVE  ScanInv'
<1>1. ScanTypes'
  <2>1. live' \in [Bindings -> SUBSET Rows] /\ top' \in [Bindings -> Rows]
    BY DEF ScanInv, ScanTypes, Remove
  <2>2. UNCHANGED <<version, list, read, pc, who, n, owner>>
    BY DEF Remove
  <2> QED
    BY <2>1, <2>2 DEF ScanInv, ScanTypes
<1>2. Overtaken'
  BY DEF ScanInv, Overtaken, Remove
<1>3. Exclusive' /\ Running' /\ Agreed' /\ Snapshots' /\ Provenance'
  BY Frame DEF Remove
<1> QED
  BY <1>1, <1>2, <1>3 DEF ScanInv

\* An object is changed at the source: a row of the list that said what it was is
\* outdated.
LEMMA UpdateInv ==
  ASSUME ScanInv, NEW b \in Bindings, NEW r \in Rows, Update(b, r)
  PROVE  ScanInv'
<1>1. /\ version' = [version EXCEPT ![b][r] = @ + 1]
      /\ version \in [Bindings -> [Rows -> Nat]]
      /\ outdated' = IF bound = b /\ r \in list THEN outdated \union {r} ELSE outdated
      /\ UNCHANGED <<live, top, metaVars, scanVars, sources, added, removed, carried, counted>>
  BY DEF ScanInv, ScanTypes, Update
<1>2. ScanTypes'
  <2>1. version' \in [Bindings -> [Rows -> Nat]]
    BY <1>1
  <2> QED
    BY <1>1, <2>1 DEF ScanInv, ScanTypes
<1>3. outdated \subseteq outdated'
  BY <1>1
<1>4. Agreed'
  BY <1>1, <1>3 DEF ScanInv, Agreed, SealedIsOneScan
<1>5. Snapshots'
  <2>1. ASSUME bound # None, NEW q \in list
        PROVE  snap[q] = version'[bound][q] \/ q \in outdated'
    <3>1. bound \in Bindings /\ q \in Rows /\ (snap[q] = version[bound][q] \/ q \in outdated)
      BY <2>1 DEF ScanInv, Snapshots
    <3>2. CASE bound = b /\ q = r
      BY <1>1, <2>1, <3>2
    <3>3. CASE ~(bound = b /\ q = r)
      <4>1. version'[bound][q] = version[bound][q]
        BY <1>1, <3>1, <3>3
      <4> QED
        BY <1>3, <3>1, <4>1
    <3> QED
      BY <3>2, <3>3
  <2> QED
    BY <1>1, <1>3, <2>1 DEF ScanInv, Snapshots
<1>6. Exclusive' /\ Running' /\ Overtaken' /\ Provenance'
  BY <1>1, Frame
<1> QED
  BY <1>2, <1>4, <1>5, <1>6 DEF ScanInv

\* A scan that ends releases the lock, and what it has read is forgotten but not
\* unlisted.
LEMMA LeaveInv ==
  ASSUME ScanInv, NEW p \in Procs, Leave(p), UNCHANGED <<sourceVars, metaVars, history>>
  PROVE  ScanInv'
<1>1. ScanTypes'
  BY DEF ScanInv, ScanTypes, Pcs, Leave
<1>2. Exclusive'
  BY DEF ScanInv, ScanTypes, Exclusive, Locked, Leave
<1>3. Running'
  BY DEF ScanInv, ScanTypes, Running, Bound, Scanning, Leave
<1>4. Overtaken'
  BY DEF ScanInv, ScanTypes, Overtaken, Leave
<1>5. Agreed'
  BY DEF ScanInv, ScanTypes, Agreed, Exclusive, Locked, SealedIsOneScan, Leave
<1>6. Provenance'
  BY Frame
<1>7. Snapshots'
  <2>1. \A q \in Procs : pc'[q] \in Scanning => q # p /\ owner = q
    BY DEF ScanInv, ScanTypes, Exclusive, Locked, Scanning, Leave
  <2> QED
    BY <2>1, SnapshotsKept DEF Scanning, Leave
<1> QED
  BY <1>1, <1>2, <1>3, <1>4, <1>5, <1>6, <1>7 DEF ScanInv

\* A killed scan leaves its rows in the list, its lock is released by the server.
LEMMA CrashInv ==
  ASSUME ScanInv, NEW p \in Procs, Crash(p)
  PROVE  ScanInv'
  BY LeaveInv DEF Crash

\* The rows of the first count are the witness Overtaken asks for.
LEMMA CountInv ==
  ASSUME ScanInv, NEW p \in Procs, NEW b \in Bindings, Count(p, b)
  PROVE  ScanInv'
<1>1. ScanTypes'
  <2>1. Cardinality(live[b]) \in Nat
    BY RowsFinite DEF ScanInv, ScanTypes
  <2> QED
    BY <2>1 DEF ScanInv, ScanTypes, Pcs, Count
<1>2. Exclusive'
  BY DEF ScanInv, ScanTypes, Exclusive, Locked, Count
<1>3. Running'
  BY DEF ScanInv, Running, Bound, Scanning, Count
<1>4. Overtaken'
  BY DEF ScanInv, ScanTypes, Overtaken, Scanning, Count
<1>5. Agreed'
  BY DEF ScanInv, Agreed, SealedIsOneScan, Count
<1>6. Provenance'
  BY Frame DEF Count
<1>7. Snapshots'
  BY SnapshotsKept DEF Scanning, Count
<1> QED
  BY <1>1, <1>2, <1>3, <1>4, <1>5, <1>6, <1>7 DEF ScanInv

\* GET_LOCK succeeds only when no scan holds the lock.
LEMMA OpenInv ==
  ASSUME ScanInv, NEW p \in Procs, Open(p)
  PROVE  ScanInv'
<1>a. CASE owner # None
  BY <1>a, LeaveInv DEF Open
<1>b. SUFFICES ASSUME owner = None PROVE ScanInv'
  BY <1>a
<1>1. ScanTypes'
  BY <1>b DEF ScanInv, ScanTypes, Pcs, Open
<1>2. Exclusive'
  BY <1>b DEF ScanInv, ScanTypes, Exclusive, Locked, Open
<1>3. Running'
  BY <1>b DEF ScanInv, ScanTypes, Running, Bound, Scanning, Open
<1>4. Overtaken'
  BY <1>b DEF ScanInv, ScanTypes, Overtaken, Exclusive, Open
<1>5. Agreed'
  BY <1>b DEF ScanInv, ScanTypes, Agreed, SealedIsOneScan, Open
<1>6. Provenance'
  BY Frame DEF Open
<1>7. Snapshots'
  BY <1>b, SnapshotsKept DEF Scanning, Open
<1> QED
  BY <1>1, <1>2, <1>3, <1>4, <1>5, <1>6, <1>7 DEF ScanInv

\* Bind takes a database that is empty, or finds the binding of its own provider.
LEMMA BindInv ==
  ASSUME ScanInv, NEW p \in Procs, Bind(p)
  PROVE  ScanInv'
<1>a. CASE ~MayBind(who[p])
  BY <1>a, LeaveInv DEF Bind
<1>b. SUFFICES ASSUME MayBind(who[p]) PROVE ScanInv'
  BY <1>a
<1>1. ScanTypes'
  BY <1>b DEF ScanInv, ScanTypes, Pcs, Bind
<1>2. Exclusive'
  BY <1>b DEF ScanInv, ScanTypes, Exclusive, Locked, Bind
<1>3. Running'
  BY <1>b DEF ScanInv, ScanTypes, Running, Exclusive, Locked, Bound, Scanning, Bind
<1>4. Overtaken'
  BY <1>b DEF ScanInv, ScanTypes, Overtaken, Exclusive, Locked, Scanning, Bind
<1>5. Agreed'
  BY <1>b DEF ScanInv, ScanTypes, Agreed, SealedIsOneScan, Bind
<1>6. Provenance'
  BY DEF ScanInv, Provenance, OneSource, Bind, MayBind
<1>7. Snapshots'
  <2>1. /\ bound' = who[p] /\ who[p] \in Bindings /\ bound' # None
        /\ UNCHANGED <<list, snap, version, outdated, carried>>
        /\ pc' = [pc EXCEPT ![p] = "begin"]
    BY <1>b DEF ScanInv, Exclusive, Bind
  <2>2. \A q \in Procs : pc'[q] \notin Scanning
    BY <2>1 DEF ScanInv, ScanTypes, Exclusive, Locked, Scanning, Bind
  <2>3. list = {} \/ bound = who[p]
    BY <1>b DEF MayBind
  <2> QED
    BY <2>1, <2>2, <2>3 DEF ScanInv, Snapshots
<1> QED
  BY <1>1, <1>2, <1>3, <1>4, <1>5, <1>6, <1>7 DEF ScanInv

\* BeginScan refuses a sealed list and starts with nothing read.
LEMMA BeginScanInv ==
  ASSUME ScanInv, NEW p \in Procs, BeginScan(p)
  PROVE  ScanInv'
<1>a. CASE ~MayScan
  BY <1>a, LeaveInv DEF BeginScan
<1>b. SUFFICES ASSUME MayScan PROVE ScanInv'
  BY <1>a
<1>1. ScanTypes'
  BY <1>b DEF ScanInv, ScanTypes, Pcs, BeginScan
<1>2. Exclusive'
  BY <1>b DEF ScanInv, ScanTypes, Exclusive, Locked, BeginScan
<1>3. Running'
  BY <1>b DEF ScanInv, ScanTypes, Running, Bound, BeginScan
<1>4. Overtaken'
  BY <1>b DEF ScanInv, ScanTypes, Overtaken, BeginScan
<1>5. Agreed'
  BY <1>b DEF ScanInv, ScanTypes, Agreed, Exclusive, Locked, SealedIsOneScan, BeginScan
<1>6. Provenance'
  BY Frame DEF BeginScan
<1>7. Snapshots'
  <2>1. /\ cursor' = 0 /\ read' = {} /\ carried' = list
        /\ UNCHANGED <<bound, list, snap, version, outdated>>
    BY <1>b DEF BeginScan
  <2> QED
    BY <2>1 DEF ScanInv, Snapshots
<1> QED
  BY <1>1, <1>2, <1>3, <1>4, <1>5, <1>6, <1>7 DEF ScanInv

\* A page adds to the list what it adds to the rows read, and reads live rows only.
LEMMA ScanPageInv ==
  ASSUME ScanInv, NEW p \in Procs, Scan(p)
  PROVE  ScanInv'
<1>a. /\ list' = list \union Page(who[p]) /\ read' = read \union Page(who[p])
      /\ Page(who[p]) \subseteq live[who[p]] /\ Page(who[p]) \subseteq Rows
  <2>1. who[p] \in Bindings
    BY DEF ScanInv, Exclusive, Scan, InsertScan
  <2> QED
    BY <2>1 DEF ScanInv, ScanTypes, Scan, InsertScan, Page
<1>1. ScanTypes'
  <2>1. IsFiniteSet(list')
    BY <1>a, RowsFinite, FS_Union DEF ScanInv, ScanTypes
  <2> QED
    BY <1>a, <2>1 DEF ScanInv, ScanTypes, Pcs, Scan, InsertScan
<1>2. Exclusive'
  BY DEF ScanInv, Exclusive, Locked, Scan, InsertScan
<1>3. Running'
  BY DEF ScanInv, Running, Bound, Scanning, Scan, InsertScan
<1>4. Overtaken'
  <2>1. /\ UNCHANGED <<live, who, n, added, removed>>
        /\ \A q \in Procs : q # p => pc'[q] = pc[q] /\ pc[q] \notin Scanning
        /\ pc[p] = "scan" /\ pc'[p] \in {"scan", "recount"}
    BY DEF ScanInv, ScanTypes, Exclusive, Locked, Scanning, Scan, InsertScan
  <2>2. ASSUME NEW q \in Procs, q # p, pc'[q] # "idle", q \notin added
        PROVE  \E L \in SUBSET Rows : Cardinality(L) = n[q] /\ live[who[q]] \subseteq L
    BY <2>1, <2>2 DEF ScanInv, Overtaken
  <2>3. ASSUME p \notin added
        PROVE  \E L \in SUBSET Rows : /\ Cardinality(L) = n[p] /\ live[who[p]] \subseteq L
                                       /\ read' \subseteq L
    BY <1>a, <2>1, <2>3 DEF ScanInv, Overtaken, Scanning
  <2>4. p \notin removed => read' \subseteq live[who[p]]
    BY <1>a, <2>1 DEF ScanInv, Overtaken, Scanning
  <2> QED
    BY <2>1, <2>2, <2>3, <2>4 DEF Overtaken
<1>5. Agreed'
  BY DEF ScanInv, Agreed, Exclusive, Locked, Running, Scanning, SealedIsOneScan, Scan, InsertScan
<1>6. Provenance'
  <2>1. bound = who[p] /\ bound # None
    BY DEF ScanInv, Exclusive, Running, Bound, Scan, InsertScan
  <2> QED
    BY <2>1 DEF ScanInv, Provenance, OneSource, Scan, InsertScan
<1>7. Snapshots'
  <2> DEFINE out == Page(who[p])
  <2>1. /\ bound = who[p] /\ bound \in Bindings /\ bound # None
        /\ pc[p] = "scan" /\ pc[p] \in Scanning
    BY DEF ScanInv, Exclusive, Running, Bound, Scanning, Scan, InsertScan
  <2>2. /\ UNCHANGED <<bound, version, outdated, carried>>
        /\ snap' = [r \in Rows |-> IF r \in out \ list THEN version[who[p]][r] ELSE snap[r]]
        /\ seen' = [r \in Rows |-> IF r \in out THEN version[who[p]][r] ELSE seen[r]]
    BY DEF Scan, InsertScan
  <2>3. /\ list \subseteq Rows /\ read \subseteq Rows /\ out \subseteq Rows
        /\ \A r \in list : snap[r] = version[bound][r] \/ r \in outdated
    BY <1>a, <2>1 DEF ScanInv, ScanTypes, Snapshots
  <2>4. /\ cursor \in Nat /\ \A r \in read : r <= cursor
        /\ list = carried \union read
        /\ \A r \in read : snap[r] = seen[r] \/ r \in carried \intersect outdated
    BY <2>1 DEF ScanInv, Snapshots
  <2>5. \A r \in out : r > cursor /\ r \notin read
    <3>1. \A r \in out : r > cursor
      BY DEF Page
    <3> QED
      BY <2>3, <2>4, <3>1
  <2>6. cursor' \in Nat /\ \A r \in read \union out : r <= cursor'
    <3>1. PICK last \in out \union {cursor} : (\A r \in out : r <= last) /\ cursor' = last
      BY DEF Scan, InsertScan
    <3>2. last \in Nat /\ last >= cursor
      BY <2>3, <2>4, <2>5, <3>1
    <3>3. \A r \in read : r \in Nat /\ r <= last
      BY <2>3, <2>4, <3>2
    <3> QED
      BY <3>1, <3>2, <3>3
  <2>7. ASSUME NEW r \in list'
        PROVE  r \in Rows /\ (snap'[r] = version[bound][r] \/ r \in outdated)
    BY <1>a, <2>1, <2>2, <2>3, <2>7
  <2>8. ASSUME NEW r \in read'
        PROVE  snap'[r] = seen'[r] \/ r \in carried \intersect outdated
    <3>1. CASE r \in out \ list
      BY <2>2, <2>3, <3>1
    <3>2. CASE r \in out \intersect list
      <4>1. snap'[r] = snap[r] /\ seen'[r] = version[bound][r]
        BY <2>1, <2>2, <2>3, <3>2
      <4>2. r \in carried
        BY <2>4, <2>5, <3>2
      <4> QED
        BY <2>3, <3>2, <4>1, <4>2
    <3>3. CASE r \notin out
      <4>1. r \in read /\ snap'[r] = snap[r] /\ seen'[r] = seen[r]
        BY <1>a, <2>2, <2>3, <2>8, <3>3
      <4> QED
        BY <2>4, <4>1
    <3> QED
      BY <3>1, <3>2, <3>3
  <2>9. list' = carried' \union read'
    BY <1>a, <2>2, <2>4
  <2> QED
    BY <1>a, <2>1, <2>2, <2>6, <2>7, <2>8, <2>9 DEF Snapshots
<1> QED
  BY <1>1, <1>2, <1>3, <1>4, <1>5, <1>6, <1>7 DEF ScanInv

\* Two equal counts that also equal the rows read: without an exchange the rows read
\* are the source.
LEMMA RecountInv ==
  ASSUME ScanInv, NEW p \in Procs, Recount(p)
  PROVE  ScanInv'
<1>a. CASE ~Reconcile(n[p], Cardinality(live[who[p]]), Cardinality(read))
  BY <1>a, LeaveInv DEF Recount
<1>b. SUFFICES ASSUME Reconcile(n[p], Cardinality(live[who[p]]), Cardinality(read)) PROVE ScanInv'
  BY <1>a
<1>1. ScanTypes'
  BY <1>b DEF ScanInv, ScanTypes, Pcs, Recount
<1>2. Exclusive'
  BY <1>b DEF ScanInv, ScanTypes, Exclusive, Locked, Recount
<1>3. Running'
  BY <1>b DEF ScanInv, ScanTypes, Running, Bound, Scanning, Recount
<1>4. Overtaken'
  BY <1>b DEF ScanInv, ScanTypes, Overtaken, Scanning, Recount
<1>5. Agreed'
  <2>1. /\ counted' = [rows |-> read, said |-> seen, source |-> live[who[p]],
                       exchanged |-> p \in added /\ p \in removed]
        /\ UNCHANGED <<read, seen, status, list>>
    BY <1>b DEF Recount
  <2>2. status # "COMPLETE"
    BY DEF ScanInv, Running, Scanning, Recount
  <2>3. ASSUME p \notin added \/ p \notin removed PROVE read = live[who[p]]
    <3> DEFINE there == live[who[p]]
    <3>1. who[p] \in Bindings /\ there \in SUBSET Rows /\ read \in SUBSET Rows
      BY DEF ScanInv, ScanTypes, Exclusive, Recount
    <3>2. n[p] = Cardinality(there) /\ Cardinality(read) = Cardinality(there)
      BY <1>b DEF Reconcile
    <3>3. CASE p \notin removed
      <4>1. read \subseteq there
        BY <3>3 DEF ScanInv, Overtaken, Scanning, Recount
      <4> QED
        BY <3>1, <3>2, <4>1, RowsFinite, SameSize
    <3>4. CASE p \notin added
      <4>1. PICK L \in SUBSET Rows :
              Cardinality(L) = n[p] /\ there \subseteq L /\ read \subseteq L
        BY <3>4 DEF ScanInv, Overtaken, Scanning, Recount
      <4>2. there = L
        BY <3>2, <4>1, RowsFinite, SameSize
      <4>3. read = L
        BY <3>2, <4>1, RowsFinite, SameSize
      <4> QED
        BY <4>2, <4>3
    <3> QED
      BY <2>3, <3>3, <3>4
  <2>4. ~counted'.exchanged => counted'.rows = counted'.source
    BY <2>1, <2>3
  <2>5. \A q \in Procs : pc'[q] = "finish" => counted'.rows = read' /\ counted'.said = seen'
    BY <2>1
  <2> QED
    BY <2>1, <2>2, <2>4, <2>5 DEF Agreed, SealedIsOneScan
<1>6. Provenance'
  BY Frame DEF Recount
<1>7. Snapshots'
  BY <1>b, SnapshotsKept DEF Scanning, Recount
<1> QED
  BY <1>1, <1>2, <1>3, <1>4, <1>5, <1>6, <1>7 DEF ScanInv

\* The list is sealed as large as what was read and contains it, so it is what was
\* read.
LEMMA FinishScanInv ==
  ASSUME ScanInv, NEW p \in Procs, FinishScan(p)
  PROVE  ScanInv'
<1>1. ScanTypes'
  BY DEF ScanInv, ScanTypes, Pcs, FinishScan, Leave
<1>2. Exclusive'
  BY DEF ScanInv, ScanTypes, Exclusive, Locked, FinishScan, Leave
<1>3. Running'
  BY DEF ScanInv, ScanTypes, Running, Exclusive, Locked, Bound, Scanning, FinishScan,
     Leave
<1>4. Overtaken'
  BY DEF ScanInv, ScanTypes, Overtaken, FinishScan, Leave
<1>5. Agreed'
  <2>1. /\ owner = p /\ counted.rows = read /\ counted.said = seen
        /\ read \subseteq list /\ IsFiniteSet(list)
        /\ \A r \in read : snap[r] = seen[r] \/ r \in carried \intersect outdated
    BY DEF ScanInv, ScanTypes, Exclusive, Locked, Running, Scanning, Agreed, Snapshots,
       FinishScan
  <2>2. SealedIsOneScan'
    <3>1. CASE MaySeal(Cardinality(read))
      <4>1. list = read
        BY <2>1, <3>1, SameSize DEF MaySeal
      <4> QED
        BY <2>1, <4>1 DEF SealedIsOneScan, FinishScan
    <3>2. CASE ~MaySeal(Cardinality(read))
      BY <3>2 DEF ScanInv, Agreed, SealedIsOneScan, FinishScan
    <3> QED
      BY <3>1, <3>2
  <2>3. \A q \in Procs : pc'[q] # "finish"
    BY <2>1 DEF ScanInv, ScanTypes, Exclusive, Locked, FinishScan, Leave
  <2> QED
    BY <2>2, <2>3 DEF ScanInv, Agreed, FinishScan
<1>6. Provenance'
  BY Frame DEF FinishScan
<1>7. Snapshots'
  <2>1. \A q \in Procs : pc'[q] \in Scanning => q # p /\ owner = q
    BY DEF ScanInv, ScanTypes, Exclusive, Locked, Scanning, FinishScan, Leave
  <2> QED
    BY <2>1, SnapshotsKept DEF Scanning, FinishScan, Leave
<1> QED
  BY <1>1, <1>2, <1>3, <1>4, <1>5, <1>6, <1>7 DEF ScanInv

\* The first task changes neither the list nor its binding.
LEMMA CreateTaskInv ==
  ASSUME ScanInv, NEW b \in Bindings, CreateTask(b)
  PROVE  ScanInv'
<1>1. ScanTypes' /\ Exclusive' /\ Running' /\ Overtaken' /\ Agreed' /\ Snapshots' /\ Provenance'
  BY Frame DEF CreateTask
<1> QED
  BY <1>1 DEF ScanInv

\* A fresh database is empty; one of an older version shows that it was used.
LEMMA InitScan == Init => ScanInv
<1> SUFFICES ASSUME Init PROVE ScanInv
  OBVIOUS
<1>1. ScanTypes
  <2>1. IsFiniteSet(list)
    <3>1. list = {} \/ list = {1}
      BY DEF Init
    <3>2. IsFiniteSet({}) /\ IsFiniteSet({1})
      BY FS_EmptySet, FS_Singleton
    <3> QED
      BY <3>1, <3>2
  <2> QED
    BY <2>1 DEF Init, ScanTypes, Pcs
<1>2. Exclusive /\ Running /\ Overtaken
  BY DEF Init, Exclusive, Running, Overtaken, Locked, Scanning
<1>3. Agreed /\ Snapshots /\ Provenance
  BY DEF Init, Agreed, SealedIsOneScan, Snapshots, Scanning, Provenance, OneSource
<1> QED
  BY <1>1, <1>2, <1>3 DEF ScanInv

\* Every step of every scan, and of the source, preserves the invariant.
LEMMA ScanningStep == ScanInv /\ [Next]_vars => ScanInv'
<1> SUFFICES ASSUME ScanInv, [Next]_vars PROVE ScanInv'
  OBVIOUS
<1>1. CASE UNCHANGED vars
  <2>1. ScanTypes' /\ Exclusive' /\ Running' /\ Overtaken' /\ Agreed' /\ Snapshots' /\ Provenance'
    BY <1>1, Frame DEF vars
  <2> QED
    BY <2>1 DEF ScanInv
<1>2. ASSUME NEW p \in Procs, ScanStep(p) PROVE ScanInv'
  BY <1>2, CountInv, OpenInv, BindInv, BeginScanInv, ScanPageInv, RecountInv,
     FinishScanInv DEF ScanStep
<1> QED
  BY <1>1, <1>2, AddInv, RemoveInv, UpdateInv, CreateTaskInv, CrashInv DEF Next

\* The inductive invariant holds in every reachable state.
THEOREM ScanCorrect == Spec => []ScanInv
  BY InitScan, ScanningStep, PTL DEF Spec

\* FinishScan seals the rows its own scan has read: the rows stored by scans that were
\* killed before it are in the same table, and the comparison of two numbers rules
\* out that one of them is left.  Where such a scan had stored a row that was read
\* again, the row says what it said then, if the object was changed since.
THEOREM SealSafe == Spec => []SealedIsOneScan
<1>1. ScanInv => SealedIsOneScan
  BY DEF ScanInv, Agreed
<1> QED
  BY <1>1, ScanCorrect, PTL

\* The sealed list is the provider's list at the second count, unless additions and
\* removals have both overtaken the scan: equal counts leave no other way.
THEOREM SourceSafe == Spec => []SealedIsSource
<1>1. ScanInv => SealedIsSource
  BY DEF ScanInv, Agreed, SealedIsOneScan, SealedIsSource
<1> QED
  BY <1>1, ScanCorrect, PTL

\* A progress database never mixes the rows of two providers, nor adopts what an
\* older version has left.
THEOREM BindingSafe == Spec => []OneSource
<1>1. ScanInv => OneSource
  BY DEF ScanInv, Provenance
<1> QED
  BY <1>1, ScanCorrect, PTL

=============================================================================
