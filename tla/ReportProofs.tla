---------------------------- MODULE ReportProofs ----------------------------
(***************************************************************************)
(* The report and done_at, for every set of members and any number of      *)
(* generations, kills and power losses.                                    *)
(***************************************************************************)
EXTENDS Report, TLAPS

USE ReportAssumption
USE DEF ledger, files

Files == [gen : Nat, rows : SUBSET Oids, whole : BOOLEAN, synced : BOOLEAN]

\* Generations, verdicts, rows and files have their types.
ReportTypes ==
  /\ gen \in Nat /\ done \in BOOLEAN /\ lost \in BOOLEAN
  /\ passed \subseteq Oids /\ bad \subseteq Oids /\ todo \subseteq Oids /\ rows \subseteq Oids
  /\ temp \in Files /\ path \in Files /\ old \in Files

\* An object has one verdict, what is still to be checked has none that passed, and
\* a task that is done is not checked and has no residue row.
Verdicts ==
  /\ passed \intersect bad = {} /\ todo \intersect passed = {}
  /\ done => bad = {} /\ pc # "check"

\* A report on its way is the one of this generation's verdicts, which do not change
\* until the command ends; what is renamed is whole and synced.
Underway ==
  /\ pc \in {"write", "sync", "rename"} => temp.gen = gen /\ rows = bad
  /\ pc \in {"sync", "rename"} => temp.rows = rows /\ temp.whole
  /\ pc = "rename" => temp.synced
  /\ pc = "complete" => path.gen = gen /\ path.rows = bad /\ ~lost

\* Either of the two files a power loss may leave behind survives it unharmed.
Durable == path.whole /\ path.synced /\ old.whole /\ old.synced

ReportInv == ReportTypes /\ Verdicts /\ Underway /\ Durable /\ DoneHasReport

\* Which variables a part of the invariant depends on.
LEMMA Frame ==
  ASSUME ReportInv
  PROVE  /\ UNCHANGED <<gen, done, lost, passed, bad, todo, rows, temp, path, old>> => ReportTypes'
         /\ UNCHANGED <<passed, bad, todo, done, pc>> => Verdicts'
         /\ UNCHANGED <<pc, temp, gen, rows, bad, path, lost>> => Underway'
         /\ UNCHANGED <<path, old>> => Durable'
         /\ UNCHANGED <<done, lost, path, gen>> => DoneHasReport'
<1>1. UNCHANGED <<gen, done, lost, passed, bad, todo, rows, temp, path, old>> => ReportTypes'
  BY DEF ReportInv, ReportTypes
<1>2. UNCHANGED <<passed, bad, todo, done, pc>> => Verdicts'
  BY DEF ReportInv, Verdicts
<1>3. UNCHANGED <<pc, temp, gen, rows, bad, path, lost>> => Underway'
  BY DEF ReportInv, Underway
<1>4. UNCHANGED <<path, old>> => Durable'
  BY DEF ReportInv, Durable
<1>5. UNCHANGED <<done, lost, path, gen>> => DoneHasReport'
  BY DEF ReportInv, DoneHasReport
<1> QED
  BY <1>1, <1>2, <1>3, <1>4, <1>5

\* verify of a done task writes the report of the generation that passed once more.
LEMMA ExportInv ==
  ASSUME ReportInv, Export
  PROVE  ReportInv'
<1>1. Verdicts'
  BY DEF ReportInv, Verdicts, Export
<1>2. Underway'
  BY DEF Underway, Export
<1>3. ReportTypes' /\ Durable' /\ DoneHasReport'
  BY Frame DEF Export
<1> QED
  BY <1>1, <1>2, <1>3 DEF ReportInv

\* verify goes on with the open verdicts, --restart with none; the task is not done any
\* more.
LEMMA BeginVerifyInv ==
  ASSUME ReportInv, NEW restart \in BOOLEAN, BeginVerify(restart)
  PROVE  ReportInv'
<1>1. ReportTypes'
  <2>1. gen' \in Nat
    BY DEF ReportInv, ReportTypes, BeginVerify
  <2>2. passed' \subseteq Oids /\ bad' \subseteq Oids /\ todo' \subseteq Oids
    BY DEF ReportInv, ReportTypes, BeginVerify
  <2> QED
    BY <2>1 DEF ReportInv, ReportTypes, BeginVerify
<1>2. Verdicts'
  BY DEF ReportInv, Verdicts, BeginVerify
<1>3. Underway'
  BY DEF Underway, BeginVerify
<1>4. DoneHasReport'
  BY DEF DoneHasReport, BeginVerify
<1>5. Durable'
  BY Frame DEF BeginVerify
<1> QED
  BY <1>1, <1>2, <1>3, <1>4, <1>5 DEF ReportInv

\* An object that is checked has one verdict afterwards, the new one.
LEMMA CheckInv ==
  ASSUME ReportInv, NEW o \in Oids, NEW clean \in BOOLEAN, Check(o, clean)
  PROVE  ReportInv'
<1>1. ReportTypes'
  BY DEF ReportInv, ReportTypes, Check
<1>2. Verdicts'
  BY DEF ReportInv, Verdicts, Check
<1>3. Underway'
  BY DEF Underway, Check
<1>4. Durable' /\ DoneHasReport'
  BY Frame DEF Check
<1> QED
  BY <1>1, <1>2, <1>3, <1>4 DEF ReportInv

\* With nothing left to check the report is next.
LEMMA CheckedInv ==
  ASSUME ReportInv, Checked
  PROVE  ReportInv'
<1>1. Verdicts'
  BY DEF ReportInv, Verdicts, Checked
<1>2. Underway'
  BY DEF Underway, Checked
<1>3. ReportTypes' /\ Durable' /\ DoneHasReport'
  BY Frame DEF Checked
<1> QED
  BY <1>1, <1>2, <1>3 DEF ReportInv

\* VerifyReport returns the residue rows and writeReport starts an empty temporary
\* file.
LEMMA VerifyReportInv ==
  ASSUME ReportInv, VerifyReport
  PROVE  ReportInv'
<1>1. ReportTypes'
  BY DEF ReportInv, ReportTypes, Files, VerifyReport
<1>2. Verdicts'
  BY DEF ReportInv, Verdicts, VerifyReport
<1>3. Underway'
  BY DEF Underway, VerifyReport
<1>4. Durable' /\ DoneHasReport'
  BY Frame DEF VerifyReport
<1> QED
  BY <1>1, <1>2, <1>3, <1>4 DEF ReportInv

\* One row is written to the temporary file; path is not touched.
LEMMA WriteInv ==
  ASSUME ReportInv, NEW o \in Oids, Write(o)
  PROVE  ReportInv'
<1>1. ReportTypes'
  BY DEF ReportInv, ReportTypes, Files, Write
<1>2. Underway'
  BY DEF ReportInv, Underway, Write
<1>3. Verdicts' /\ Durable' /\ DoneHasReport'
  BY Frame DEF Write
<1> QED
  BY <1>1, <1>2, <1>3 DEF ReportInv

\* After the flush the temporary file holds every row.
LEMMA FlushInv ==
  ASSUME ReportInv, Flush
  PROVE  ReportInv'
<1>1. ReportTypes'
  BY DEF ReportInv, ReportTypes, Files, Flush
<1>2. Verdicts'
  BY DEF ReportInv, Verdicts, Flush
<1>3. Underway'
  BY DEF ReportInv, Underway, Flush
<1>4. Durable' /\ DoneHasReport'
  BY Frame DEF Flush
<1> QED
  BY <1>1, <1>2, <1>3, <1>4 DEF ReportInv

\* After the sync the temporary file survives a power loss.
LEMMA SyncInv ==
  ASSUME ReportInv, Sync
  PROVE  ReportInv'
<1>1. ReportTypes'
  BY DEF ReportInv, ReportTypes, Files, Sync
<1>2. Verdicts'
  BY DEF ReportInv, Verdicts, Sync
<1>3. Underway'
  BY DEF ReportInv, Underway, Sync
<1>4. Durable' /\ DoneHasReport'
  BY Frame DEF Sync
<1> QED
  BY <1>1, <1>2, <1>3, <1>4 DEF ReportInv

\* What takes the place of the report is whole and synced, and the file it replaces was
\* too.
LEMMA RenameInv ==
  ASSUME ReportInv, Rename
  PROVE  ReportInv'
<1>1. ReportTypes'
  BY DEF ReportInv, ReportTypes, Files, Rename, NoFile
<1>2. Verdicts'
  BY DEF ReportInv, Verdicts, Rename
<1>3. Underway'
  BY DEF ReportInv, Underway, Rename
<1>4. Durable'
  BY DEF ReportInv, Durable, Underway, Rename
<1>5. DoneHasReport'
  BY DEF ReportInv, DoneHasReport, Underway, Verdicts, Rename
<1> QED
  BY <1>1, <1>2, <1>3, <1>4, <1>5 DEF ReportInv

\* done_at is set with the report of this generation in place and no residue row in it.
LEMMA CompleteVerifyInv ==
  ASSUME ReportInv, CompleteVerify
  PROVE  ReportInv'
<1>1. ReportTypes'
  BY DEF ReportInv, ReportTypes, CompleteVerify
<1>2. Verdicts'
  BY DEF ReportInv, ReportTypes, Verdicts, CompleteVerify
<1>3. Underway'
  BY DEF Underway, CompleteVerify
<1>4. DoneHasReport'
  BY DEF ReportInv, ReportTypes, DoneHasReport, Underway, Verdicts, CompleteVerify
<1>5. Durable'
  BY Frame DEF CompleteVerify
<1> QED
  BY <1>1, <1>2, <1>3, <1>4, <1>5 DEF ReportInv

\* A command that ends early leaves path as it is.
LEMMA ExitInv ==
  ASSUME ReportInv, Exit
  PROVE  ReportInv'
<1>1. ReportTypes'
  BY DEF ReportInv, ReportTypes, Files, Exit, NoFile
<1>2. Verdicts'
  BY DEF ReportInv, Verdicts, Exit
<1>3. Underway'
  BY DEF Underway, Exit
<1>4. Durable' /\ DoneHasReport'
  BY Frame DEF Exit
<1> QED
  BY <1>1, <1>2, <1>3, <1>4 DEF ReportInv

\* A repair voids the verdicts of a task that is not done.
LEMMA BeginPurgeInv ==
  ASSUME ReportInv, BeginPurge
  PROVE  ReportInv'
<1>1. ReportTypes'
  BY DEF ReportInv, ReportTypes, BeginPurge
<1>2. Verdicts'
  BY DEF Verdicts, BeginPurge
<1>3. Underway'
  BY DEF Underway, BeginPurge
<1>4. DoneHasReport'
  BY DEF DoneHasReport, BeginPurge
<1>5. Durable'
  BY Frame DEF BeginPurge
<1> QED
  BY <1>1, <1>2, <1>3, <1>4, <1>5 DEF ReportInv

\* A power loss leaves one of two files at path, both whole.
LEMMA PowerLossInv ==
  ASSUME ReportInv, PowerLoss
  PROVE  ReportInv'
<1>1. ReportTypes'
  BY DEF ReportInv, ReportTypes, Files, PowerLoss, NoFile, Remains
<1>2. Verdicts'
  BY DEF ReportInv, Verdicts, PowerLoss
<1>3. Underway'
  BY DEF Underway, PowerLoss
<1>4. Durable'
  BY DEF ReportInv, Durable, PowerLoss, Remains
<1>5. DoneHasReport'
  BY DEF DoneHasReport, PowerLoss
<1> QED
  BY <1>1, <1>2, <1>3, <1>4, <1>5 DEF ReportInv

\* No report, no verdict.
LEMMA InitReport == Init => ReportInv
<1> SUFFICES ASSUME Init PROVE ReportInv
  OBVIOUS
<1>1. NoFile \in Files
  BY DEF NoFile, Files
<1>2. ReportTypes
  BY <1>1 DEF Init, ReportTypes
<1>3. Durable /\ Underway
  BY DEF Init, NoFile, Durable, Underway
<1>4. Verdicts /\ DoneHasReport
  BY DEF Init, Verdicts, DoneHasReport
<1> QED
  BY <1>2, <1>3, <1>4 DEF ReportInv

\* Every step of the command, a kill and a power loss preserve the invariant.
LEMMA ReportStep == ReportInv /\ [Next]_vars => ReportInv'
<1> SUFFICES ASSUME ReportInv, [Next]_vars PROVE ReportInv'
  OBVIOUS
<1>1. CASE UNCHANGED vars
  <2>1. ReportTypes' /\ Verdicts' /\ Underway' /\ Durable' /\ DoneHasReport'
    BY <1>1, Frame DEF vars
  <2> QED
    BY <2>1 DEF ReportInv
<1>2. CASE Next
  BY <1>2, ExportInv, BeginVerifyInv, CheckInv, CheckedInv, VerifyReportInv, WriteInv,
     FlushInv, SyncInv, RenameInv, CompleteVerifyInv, ExitInv, BeginPurgeInv,
     PowerLossInv DEF Next
<1> QED
  BY <1>1, <1>2

\* The inductive invariant holds in every reachable state.
THEOREM ReportCorrect == Spec => []ReportInv
  BY InitReport, ReportStep, PTL DEF Spec

\* Whatever fails between the creation of the temporary file and the rename, and
\* whenever power is lost, the report at its path is a whole file: VerifyReport
\* syncs before it renames.
THEOREM ReportWhole == Spec => []NeverPartial
<1>1. ReportInv => NeverPartial
  BY DEF ReportInv, Durable, NeverPartial
<1> QED
  BY <1>1, ReportCorrect, PTL

\* done_at comes with a report of the same generation that has no residue row,
\* unless power was lost since: runVerify writes the report first, and exports again
\* only what the verdicts still say.
THEOREM DoneReported == Spec => []DoneHasReport
<1>1. ReportInv => DoneHasReport
  BY DEF ReportInv
<1> QED
  BY <1>1, ReportCorrect, PTL

=============================================================================
