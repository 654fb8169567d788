---------------------------- MODULE LedgerProofs ----------------------------
(***************************************************************************)
(* The ledger and its commands, for every set of objects and every number  *)
(* of tasks, generations, workers and connections: the types, the          *)
(* inductive invariant LedgerInv and the safety properties it implies,     *)
(* that no command takes back what is recorded, the status command beside  *)
(* the others, that Subtasks implements Custody, and that the recovery     *)
(* table of the README names no command that would be refused.             *)
(***************************************************************************)
EXTENDS Status, Operator, TLAPS

USE DEF TaskIds, Created

\* A row the ledger has is a possible row.
LEMMA CreatedTaskIds == TypeOK => Created \subseteq TaskIds
  BY BoundsAssumption DEF TypeOK, TaskTypes

\* A Resolve query only returns rows the ledger has.
LEMMA ResolvedCreated ==
  ASSUME NEW id \in Ids
  PROVE  /\ ResolvePurge(id) \subseteq Created
         /\ ResolveVerify(id) \subseteq Created
         /\ ResolveAdmin(id) \subseteq Created
  BY DEF ResolvePurge, ResolveVerify, ResolveAdmin, Lowest, Current, Unfinished

\* The ledger starts with rows of the right type.
LEMMA InitType == Init => TypeOK
  BY OidsAssumption, ConnsAssumption, BoundsAssumption
  DEF Init, TypeOK, TaskTypes, ObjectTypes, CommandTypes, HistoryTypes, Phases,
      HoldReasons, Verdicts, Pcs, Modes, Steps

\* Every action keeps every column and every field of the command in its type.
LEMMA TypeStep == TypeOK /\ [Next]_vars => TypeOK'
<1> SUFFICES ASSUME TypeOK, [Next]_vars PROVE TypeOK'
  OBVIOUS
<1>0. TaskTypes /\ ObjectTypes /\ CommandTypes /\ HistoryTypes
  BY DEF TypeOK
<1> USE <1>0, OidsAssumption, ConnsAssumption, BoundsAssumption, EnvironmentAssumption,
        CreatedTaskIds
    DEF Phases, HoldReasons, Verdicts, Pcs, Modes, Steps, taskVars, memberVars,
        verifyVars, commandVars, history, vars
<1>1. CASE UNCHANGED vars
  <2>1. TaskTypes'
    BY <1>1 DEF TaskTypes, CommandTypes, vars
  <2>2. ObjectTypes'
    BY <1>1 DEF ObjectTypes, vars
  <2>3. CommandTypes'
    BY <1>1 DEF TaskTypes, CommandTypes, vars
  <2>4. HistoryTypes'
    BY <1>1 DEF HistoryTypes, vars
  <2> QED
    BY <2>1, <2>2, <2>3, <2>4 DEF TypeOK
<1>2. ASSUME NEW c \in Conns, Acquire(c) PROVE TypeOK'
  <2>1. TaskTypes'
    BY <1>2 DEF TaskTypes, CommandTypes, Acquire
  <2>2. ObjectTypes'
    BY <1>2 DEF ObjectTypes, Acquire
  <2>3. CommandTypes'
    BY <1>2 DEF TaskTypes, CommandTypes, Acquire
  <2>4. HistoryTypes'
    BY <1>2 DEF HistoryTypes, Acquire
  <2> QED
    BY <2>1, <2>2, <2>3, <2>4 DEF TypeOK
<1>3. CASE EnsureSchema
  <2>1. TaskTypes'
    BY <1>3 DEF TaskTypes, CommandTypes, EnsureSchema
  <2>2. ObjectTypes'
    BY <1>3 DEF ObjectTypes, EnsureSchema
  <2>3. CommandTypes'
    BY <1>3 DEF TaskTypes, CommandTypes, EnsureSchema
  <2>4. HistoryTypes'
    BY <1>3 DEF HistoryTypes, EnsureSchema
  <2> QED
    BY <2>1, <2>2, <2>3, <2>4 DEF TypeOK
<1>4. CASE Exit
  <2>1. TaskTypes'
    BY <1>4 DEF TaskTypes, CommandTypes, Exit, Release
  <2>2. ObjectTypes'
    BY <1>4 DEF ObjectTypes, Exit, Release
  <2>3. CommandTypes'
    BY <1>4 DEF TaskTypes, CommandTypes, Exit, Release
  <2>4. HistoryTypes'
    BY <1>4 DEF HistoryTypes, Exit, Release
  <2> QED
    BY <2>1, <2>2, <2>3, <2>4 DEF TypeOK
<1>5. ASSUME NEW retryDeferred \in BOOLEAN, CreateSubtask(retryDeferred) PROVE TypeOK'
  <2>1. PICK S \in SelectCapacity(IF retryDeferred THEN RetryCandidates ELSE Oids \ Assigned) :
          /\ nTasks' = nTasks + 1
          /\ member' = [member EXCEPT ![nTasks + 1] = S]
          /\ prog' = IF retryDeferred THEN Requeue(S) ELSE prog
    BY <1>5 DEF CreateSubtask
  <2>2. RetryCandidates \subseteq Oids
    BY DEF RetryCandidates, DeferredIn, ObjectTypes
  <2>3. S \subseteq Oids
    BY <2>1, <2>2 DEF SelectCapacity
  <2>4. prog' \in [Oids -> 0..2]
    BY <2>1 DEF Requeue, ObjectTypes
  <2>5. nTasks' \in 0..MaxTasks /\ member' \in [TaskIds -> SUBSET Oids]
    BY <1>5, <2>1, <2>3 DEF CreateSubtask, TaskTypes, ObjectTypes
  <2>6. TaskTypes' /\ HistoryTypes'
    BY <1>5, <2>5 DEF TaskTypes, HistoryTypes, CreateSubtask
  <2>7. ObjectTypes' /\ CommandTypes'
    BY <1>5, <2>4, <2>5 DEF ObjectTypes, CommandTypes, CreateSubtask, Release
  <2> QED
    BY <2>6, <2>7 DEF TypeOK
<1>6. ASSUME NEW id \in Ids, NEW reason \in Refusals, PurgeRefused(id, reason) PROVE TypeOK'
  <2>1. TaskTypes'
    BY <1>6, ResolvedCreated DEF TaskTypes, CommandTypes, PurgeRefused, Hold, Release, Refusals
  <2>2. ObjectTypes'
    BY <1>6, ResolvedCreated DEF ObjectTypes, PurgeRefused, Hold, Release, Refusals
  <2>3. CommandTypes'
    BY <1>6, ResolvedCreated DEF TaskTypes, CommandTypes, PurgeRefused, Hold, Release, Refusals
  <2>4. HistoryTypes'
    BY <1>6, ResolvedCreated DEF HistoryTypes, PurgeRefused, Hold, Release, Refusals
  <2> QED
    BY <2>1, <2>2, <2>3, <2>4 DEF TypeOK
<1>7. ASSUME NEW id \in Ids, BeginPurge(id) PROVE TypeOK'
  <2>1. TaskTypes'
    <3>1. PICK t \in ResolvePurge(id) : /\ phase' = [phase EXCEPT ![t] = "PURGE"]
                                        /\ gen' = [gen EXCEPT ![t] = NextGen(t, TRUE)]
                                        /\ execConn' = [execConn EXCEPT ![t] = conn]
      BY <1>7 DEF BeginPurge
    <3>2. UNCHANGED <<nTasks, holdReason, holdOid, purged, done>>
      BY <1>7 DEF BeginPurge
    <3>3. t \in TaskIds /\ NextGen(t, TRUE) \in Nat
      BY ResolvedCreated DEF TaskTypes, NextGen
    <3> QED
      BY <3>1, <3>2, <3>3 DEF TaskTypes, CommandTypes
  <2>2. ObjectTypes'
    BY <1>7, ResolvedCreated DEF ObjectTypes, BeginPurge, Requeue, NextGen
  <2>3. CommandTypes'
    BY <1>7, ResolvedCreated DEF TaskTypes, CommandTypes, BeginPurge, Requeue, NextGen
  <2>4. HistoryTypes'
    BY <1>7, ResolvedCreated DEF HistoryTypes, BeginPurge, Requeue, NextGen
  <2> QED
    BY <2>1, <2>2, <2>3, <2>4 DEF TypeOK
<1>8. ASSUME NEW o \in Oids, PurgeObject(o) PROVE TypeOK'
  <2>1. CASE StartObject(o)
    <3>1. TaskTypes'
      BY <2>1 DEF TaskTypes, CommandTypes, StartObject
    <3>2. ObjectTypes'
      BY <2>1 DEF ObjectTypes, StartObject
    <3>3. CommandTypes'
      BY <2>1 DEF TaskTypes, CommandTypes, StartObject
    <3>4. HistoryTypes'
      BY <2>1 DEF HistoryTypes, StartObject
    <3> QED
      BY <3>1, <3>2, <3>3, <3>4 DEF TypeOK
  <2>2. ASSUME NEW p \in Prefixes, ClearPrefix(o, p) PROVE TypeOK'
    <3>1. TaskTypes'
      BY <2>2 DEF TaskTypes, CommandTypes, ClearPrefix
    <3>2. ObjectTypes'
      BY <2>2 DEF ObjectTypes, ClearPrefix
    <3>3. CommandTypes'
      BY <2>2 DEF TaskTypes, CommandTypes, ClearPrefix
    <3>4. HistoryTypes'
      BY <2>2 DEF HistoryTypes, ClearPrefix
    <3> QED
      BY <3>1, <3>2, <3>3, <3>4 DEF TypeOK
  <2>3. ASSUME NEW p \in Prefixes, Recheck(o, p) PROVE TypeOK'
    <3>1. TaskTypes'
      BY <2>3 DEF TaskTypes, CommandTypes, Recheck
    <3>2. ObjectTypes'
      BY <2>3 DEF ObjectTypes, Recheck
    <3>3. CommandTypes'
      BY <2>3 DEF TaskTypes, CommandTypes, Recheck
    <3>4. HistoryTypes'
      BY <2>3 DEF HistoryTypes, Recheck
    <3> QED
      BY <3>1, <3>2, <3>3, <3>4 DEF TypeOK
  <2>4. ASSUME NEW answered \in BOOLEAN, RecordDone(o, answered) PROVE TypeOK'
    <3>1. TaskTypes'
      BY <2>4 DEF TaskTypes, CommandTypes, RecordDone
    <3>2. ObjectTypes'
      BY <2>4 DEF ObjectTypes, RecordDone
    <3>3. CommandTypes'
      BY <2>4 DEF TaskTypes, CommandTypes, RecordDone
    <3>4. HistoryTypes'
      BY <2>4 DEF HistoryTypes, RecordDone
    <3> QED
      BY <3>1, <3>2, <3>3, <3>4 DEF TypeOK
  <2>5. CASE RecordFail(o)
    <3>1. TaskTypes'
      BY <2>5 DEF TaskTypes, CommandTypes, RecordFail
    <3>2. ObjectTypes'
      BY <2>5 DEF ObjectTypes, RecordFail
    <3>3. CommandTypes'
      BY <2>5 DEF TaskTypes, CommandTypes, RecordFail
    <3>4. HistoryTypes'
      BY <2>5 DEF HistoryTypes, RecordFail
    <3> QED
      BY <3>1, <3>2, <3>3, <3>4 DEF TypeOK
  <2>6. CASE Unrecorded(o)
    <3>1. TaskTypes'
      BY <2>6 DEF TaskTypes, CommandTypes, Unrecorded
    <3>2. ObjectTypes'
      BY <2>6 DEF ObjectTypes, Unrecorded
    <3>3. CommandTypes'
      BY <2>6 DEF TaskTypes, CommandTypes, Unrecorded
    <3>4. HistoryTypes'
      BY <2>6 DEF HistoryTypes, Unrecorded
    <3> QED
      BY <3>1, <3>2, <3>3, <3>4 DEF TypeOK
  <2>7. ASSUME NEW written \in BOOLEAN, HaltOn(o, written) PROVE TypeOK'
    <3>1. TaskTypes'
      <4>1. CASE mode # "halt" /\ written
        <5>1. Hold(cur, o, "object")
          BY <2>7, <4>1 DEF HaltOn
        <5>2. holdReason' \in [TaskIds -> HoldReasons]
          BY <5>1 DEF Hold, TaskTypes
        <5>3. holdOid' \in [TaskIds -> Oids \union {0}]
          BY <5>1 DEF Hold, TaskTypes
        <5> QED
          BY <2>7, <5>2, <5>3 DEF TaskTypes, HaltOn
      <4>2. CASE ~(mode # "halt" /\ written)
        BY <2>7, <4>2 DEF TaskTypes, HaltOn
      <4> QED
        BY <4>1, <4>2
    <3>2. ObjectTypes'
      BY <2>7 DEF ObjectTypes, HaltOn, Hold
    <3>3. CommandTypes'
      BY <2>7 DEF TaskTypes, CommandTypes, HaltOn, Hold
    <3>4. HistoryTypes'
      BY <2>7 DEF HistoryTypes, HaltOn, Hold
    <3> QED
      BY <3>1, <3>2, <3>3, <3>4 DEF TypeOK
  <2>8. CASE RecordUnsafe(o)
    <3>1. TaskTypes'
      BY <2>8 DEF TaskTypes, CommandTypes, RecordUnsafe
    <3>2. ObjectTypes'
      BY <2>8 DEF ObjectTypes, RecordUnsafe
    <3>3. CommandTypes'
      BY <2>8 DEF TaskTypes, CommandTypes, RecordUnsafe
    <3>4. HistoryTypes'
      BY <2>8 DEF HistoryTypes, RecordUnsafe
    <3> QED
      BY <3>1, <3>2, <3>3, <3>4 DEF TypeOK
  <2> QED
    BY <1>8, <2>1, <2>2, <2>3, <2>4, <2>5, <2>6, <2>7, <2>8 DEF PurgeObject
<1>9. ASSUME NEW m \in Modes, Interrupt(m) PROVE TypeOK'
  <2>1. TaskTypes'
    BY <1>9 DEF TaskTypes, CommandTypes, Interrupt
  <2>2. ObjectTypes'
    BY <1>9 DEF ObjectTypes, Interrupt
  <2>3. CommandTypes'
    BY <1>9 DEF TaskTypes, CommandTypes, Interrupt
  <2>4. HistoryTypes'
    BY <1>9 DEF HistoryTypes, Interrupt
  <2> QED
    BY <2>1, <2>2, <2>3, <2>4 DEF TypeOK
<1>10. CASE CompletePurge
  <2>1. TaskTypes'
    <3>1. purged' \in [TaskIds -> BOOLEAN] /\ phase' \in [TaskIds -> Phases]
      BY <1>10 DEF TaskTypes, CompletePurge, MarkPurged
    <3> QED
      BY <1>10, <3>1 DEF TaskTypes, CompletePurge
  <2>2. ObjectTypes'
    BY <1>10 DEF ObjectTypes, CompletePurge, MarkPurged, Release
  <2>3. CommandTypes'
    BY <1>10 DEF TaskTypes, CommandTypes, CompletePurge, MarkPurged, Release
  <2>4. HistoryTypes'
    BY <1>10 DEF HistoryTypes, CompletePurge, MarkPurged, Release
  <2> QED
    BY <2>1, <2>2, <2>3, <2>4 DEF TypeOK
<1>11. ASSUME NEW id \in Ids, NEW reason \in Refusals, VerifyRefused(id, reason) PROVE TypeOK'
  <2>1. TaskTypes'
    BY <1>11, ResolvedCreated DEF TaskTypes, CommandTypes, VerifyRefused, Hold, Release, Refusals
  <2>2. ObjectTypes'
    BY <1>11, ResolvedCreated DEF ObjectTypes, VerifyRefused, Hold, Release, Refusals
  <2>3. CommandTypes'
    BY <1>11, ResolvedCreated DEF TaskTypes, CommandTypes, VerifyRefused, Hold, Release, Refusals
  <2>4. HistoryTypes'
    BY <1>11, ResolvedCreated DEF HistoryTypes, VerifyRefused, Hold, Release, Refusals
  <2> QED
    BY <2>1, <2>2, <2>3, <2>4 DEF TypeOK
<1>12. ASSUME NEW id \in Ids, NEW restart \in BOOLEAN, BeginVerify(id, restart) PROVE TypeOK'
  <2>1. TaskTypes'
    BY <1>12, ResolvedCreated DEF TaskTypes, CommandTypes, BeginVerify, NextGen
  <2>2. ObjectTypes'
    BY <1>12, ResolvedCreated DEF ObjectTypes, BeginVerify, NextGen
  <2>3. CommandTypes'
    BY <1>12, ResolvedCreated DEF TaskTypes, CommandTypes, BeginVerify, NextGen
  <2>4. HistoryTypes'
    BY <1>12, ResolvedCreated DEF HistoryTypes, BeginVerify, NextGen
  <2> QED
    BY <2>1, <2>2, <2>3, <2>4 DEF TypeOK
<1>13. ASSUME NEW o \in Oids, VerifyObject(o) PROVE TypeOK'
  <2>1. CASE CheckObject(o)
    <3>1. TaskTypes'
      BY <2>1 DEF TaskTypes, CommandTypes, CheckObject
    <3>2. ObjectTypes'
      BY <2>1 DEF ObjectTypes, CheckObject
    <3>3. CommandTypes'
      BY <2>1 DEF TaskTypes, CommandTypes, CheckObject
    <3>4. HistoryTypes'
      BY <2>1 DEF HistoryTypes, CheckObject
    <3> QED
      BY <3>1, <3>2, <3>3, <3>4 DEF TypeOK
  <2>2. ASSUME NEW p \in Prefixes, NEW failed \in BOOLEAN, LookAt(o, p, failed) PROVE TypeOK'
    <3>1. TaskTypes'
      BY <2>2 DEF TaskTypes, CommandTypes, LookAt, Judge
    <3>2. ObjectTypes'
      BY <2>2 DEF ObjectTypes, LookAt, Judge
    <3>3. CommandTypes'
      BY <2>2 DEF TaskTypes, CommandTypes, LookAt, Judge
    <3>4. HistoryTypes'
      BY <2>2 DEF HistoryTypes, LookAt, Judge
    <3> QED
      BY <3>1, <3>2, <3>3, <3>4 DEF TypeOK
  <2>3. CASE RecordVerify(o)
    <3>1. TaskTypes'
      BY <2>3 DEF TaskTypes, CommandTypes, RecordVerify
    <3>2. ObjectTypes'
      <4>1. CASE cur \in TaskIds
        BY <2>3, <4>1 DEF ObjectTypes, TaskTypes, CommandTypes, RecordVerify
      <4>2. CASE cur \notin TaskIds
        BY <2>3, <4>2 DEF ObjectTypes, RecordVerify
      <4> QED
        BY <4>1, <4>2
    <3>3. CommandTypes'
      BY <2>3 DEF TaskTypes, CommandTypes, RecordVerify
    <3>4. HistoryTypes'
      BY <2>3 DEF HistoryTypes, RecordVerify
    <3> QED
      BY <3>1, <3>2, <3>3, <3>4 DEF TypeOK
  <2> QED
    BY <1>13, <2>1, <2>2, <2>3 DEF VerifyObject
<1>14. CASE CompleteVerify
  <2>1. TaskTypes'
    BY <1>14 DEF TaskTypes, CommandTypes, CompleteVerify, Release
  <2>2. ObjectTypes'
    BY <1>14 DEF ObjectTypes, CompleteVerify, Release
  <2>3. CommandTypes'
    BY <1>14 DEF TaskTypes, CommandTypes, CompleteVerify, Release
  <2>4. HistoryTypes'
    BY <1>14 DEF HistoryTypes, CompleteVerify, Release
  <2> QED
    BY <2>1, <2>2, <2>3, <2>4 DEF TypeOK
<1>15. ASSUME NEW id \in Ids, NEW o \in Oids, DeferObject(id, o) PROVE TypeOK'
  <2>1. TaskTypes'
    BY <1>15, ResolvedCreated DEF TaskTypes, CommandTypes, DeferObject
  <2>2. ObjectTypes'
    <3>1. PICK t \in ResolveAdmin(id) : deferred' = [deferred EXCEPT ![t] = @ \union {o}]
      BY <1>15 DEF DeferObject
    <3>2. UNCHANGED <<member, verifyVars, prog, pieces>>
      BY <1>15 DEF DeferObject
    <3> QED
      BY <1>15, <3>1, <3>2 DEF ObjectTypes
  <2>3. CommandTypes'
    BY <1>15, ResolvedCreated DEF TaskTypes, CommandTypes, DeferObject
  <2>4. HistoryTypes'
    BY <1>15, ResolvedCreated DEF HistoryTypes, DeferObject
  <2> QED
    BY <2>1, <2>2, <2>3, <2>4 DEF TypeOK
<1>16. CASE CompleteDefer
  <2>1. TaskTypes'
    BY <1>16 DEF TaskTypes, CommandTypes, CompleteDefer, MarkPurged, Release
  <2>2. ObjectTypes'
    BY <1>16 DEF ObjectTypes, CompleteDefer, MarkPurged, Release
  <2>3. CommandTypes'
    BY <1>16 DEF TaskTypes, CommandTypes, CompleteDefer, MarkPurged, Release
  <2>4. HistoryTypes'
    BY <1>16 DEF HistoryTypes, CompleteDefer, MarkPurged, Release
  <2> QED
    BY <2>1, <2>2, <2>3, <2>4 DEF TypeOK
<1>17. ASSUME NEW id \in Ids, ResumeSafety(id) PROVE TypeOK'
  <2>1. TaskTypes'
    BY <1>17, ResolvedCreated DEF TaskTypes, CommandTypes, ResumeSafety, Release
  <2>2. ObjectTypes'
    BY <1>17, ResolvedCreated DEF ObjectTypes, ResumeSafety, Release
  <2>3. CommandTypes'
    BY <1>17, ResolvedCreated DEF TaskTypes, CommandTypes, ResumeSafety, Release
  <2>4. HistoryTypes'
    BY <1>17, ResolvedCreated DEF HistoryTypes, ResumeSafety, Release
  <2> QED
    BY <2>1, <2>2, <2>3, <2>4 DEF TypeOK
<1>18. ASSUME NEW o \in Rewritable, NEW p \in Prefixes, WriteBack(o, p) PROVE TypeOK'
  <2>1. TaskTypes'
    BY <1>18 DEF TaskTypes, CommandTypes, WriteBack
  <2>2. ObjectTypes'
    BY <1>18 DEF ObjectTypes, WriteBack
  <2>3. CommandTypes'
    BY <1>18 DEF TaskTypes, CommandTypes, WriteBack
  <2>4. HistoryTypes'
    BY <1>18 DEF HistoryTypes, WriteBack
  <2> QED
    BY <2>1, <2>2, <2>3, <2>4 DEF TypeOK
<1> QED
  BY <1>1, <1>2, <1>3, <1>4, <1>5, <1>6, <1>7, <1>8, <1>9, <1>10, <1>11, <1>12,
     <1>13, <1>14, <1>15, <1>16, <1>17, <1>18 DEF Next

\* Every reachable ledger is well typed, whatever crashes and commands led to it.
THEOREM TypeCorrect == Spec => []TypeOK
  BY InitType, TypeStep, PTL DEF Spec

-----------------------------------------------------------------------------
(* LedgerInv is an invariant.                                              *)

USE OidsAssumption, ConnsAssumption, BoundsAssumption, EnvironmentAssumption
USE DEF TaskIds, Created, taskVars, memberVars, verifyVars, commandVars,
        history, vars, Phases, HoldReasons, Verdicts, Pcs, Modes, Steps, Prefixes

\* The invariant by its parts.
LEMMA Conjuncts ==
  LedgerInv => /\ TypeOK /\ UnusedRows /\ Membership /\ Freshness /\ Vouched /\ Sighted
               /\ Command /\ Purging /\ Checking /\ OneCurrentTask /\ ActiveInLatest
               /\ DoneIsVerified /\ NoDeadEnd /\ ProcessedHere /\ HoldStopsPurge
               /\ ResidueIsOwed
  BY DEF LedgerInv

\* What each part of the invariant depends on: it survives a step that leaves
\* these variables alone.
LEMMA Frame ==
  ASSUME LedgerInv
  PROVE  /\ UNCHANGED <<nTasks, phase, holdReason, purged, done, member, fresh>>
              => UnusedRows'
         /\ UNCHANGED <<nTasks, gen, member, deferred, prog>> => Membership'
         /\ UNCHANGED <<gen, vgen, vstat, fresh>> => Freshness'
         /\ UNCHANGED <<nTasks, member, deferred, pieces, fresh, rewritten>>
              => Vouched'
         /\ UNCHANGED <<pieces, work, seen, rewritten>> => Sighted'
         /\ UNCHANGED <<done, execConn, pc, conn, cur, mode, work>> => Command'
         /\ UNCHANGED <<member, deferred, prog, pc, cur, work, fresh>> => Purging'
         /\ UNCHANGED <<holdReason, purged, member, deferred, prog, pc, cur, work, fresh>> => Checking'
         /\ UNCHANGED <<nTasks, purged, done>> => OneCurrentTask'
         /\ UNCHANGED <<nTasks, member, deferred>> => ActiveInLatest'
         /\ UNCHANGED <<nTasks, done, member, deferred, fresh>> => DoneIsVerified'
         /\ UNCHANGED <<nTasks, holdReason, purged, done, member, deferred, prog>>
              => NoDeadEnd'
         /\ UNCHANGED <<nTasks, member, deferred, prog, processed>>
              => ProcessedHere'
         /\ UNCHANGED <<nTasks, holdReason, pc, cur, mode>> => HoldStopsPurge'
         /\ UNCHANGED <<member, deferred, vstat, prog, pc, cur>> => ResidueIsOwed'
<1>1. UNCHANGED <<nTasks, phase, holdReason, purged, done, member, fresh>>
        => UnusedRows'
  BY Conjuncts DEF UnusedRows
<1>2. UNCHANGED <<nTasks, gen, member, deferred, prog>> => Membership'
  BY Conjuncts DEF Membership, Assigned
<1>3. UNCHANGED <<gen, vgen, vstat, fresh>> => Freshness'
  BY Conjuncts DEF Freshness
<1>4. UNCHANGED <<nTasks, member, deferred, pieces, fresh, rewritten>> => Vouched'
  BY Conjuncts DEF Vouched, Active
<1>5. UNCHANGED <<pieces, work, seen, rewritten>> => Sighted'
  BY Conjuncts DEF Sighted
<1>6. UNCHANGED <<done, execConn, pc, conn, cur, mode, work>> => Command'
  BY Conjuncts DEF Command
<1>7. UNCHANGED <<member, deferred, prog, pc, cur, work, fresh>> => Purging'
  BY Conjuncts DEF Purging, Active, PurgeSteps
<1>8. UNCHANGED <<holdReason, purged, member, deferred, prog, pc, cur, work, fresh>>
        => Checking'
  BY Conjuncts DEF Checking, Active, AllProcessed, VerifySteps, Looking
<1>9. UNCHANGED <<nTasks, purged, done>> => OneCurrentTask'
  BY Conjuncts DEF OneCurrentTask, Unfinished
<1>10. UNCHANGED <<nTasks, member, deferred>> => ActiveInLatest'
  BY Conjuncts DEF ActiveInLatest
<1>11. UNCHANGED <<nTasks, done, member, deferred, fresh>> => DoneIsVerified'
  BY Conjuncts DEF DoneIsVerified, Active
<1>12. UNCHANGED <<nTasks, holdReason, purged, done, member, deferred, prog>>
        => NoDeadEnd'
  BY Conjuncts DEF NoDeadEnd, Active
<1>13. UNCHANGED <<nTasks, member, deferred, prog, processed>> => ProcessedHere'
  BY Conjuncts DEF ProcessedHere, Active
<1>14. UNCHANGED <<nTasks, holdReason, pc, cur, mode>> => HoldStopsPurge'
  BY Conjuncts DEF HoldStopsPurge, AnyHold
<1>15. UNCHANGED <<member, deferred, vstat, prog, pc, cur>> => ResidueIsOwed'
  BY Conjuncts DEF ResidueIsOwed, Active
<1> QED
  BY <1>1, <1>2, <1>3, <1>4, <1>5, <1>6, <1>7, <1>8, <1>9,
     <1>10, <1>11, <1>12, <1>13, <1>14, <1>15

\* Generations are numbers.
LEMMA Generations ==
  ASSUME TypeOK, NEW t \in TaskIds, NEW o \in Oids
  PROVE  gen[t] \in Nat /\ vgen[t][o] \in Nat
<1>1. gen[t] \in Nat
  BY DEF TypeOK, TaskTypes
<1>2. vgen[t] \in [Oids -> Nat]
  BY DEF TypeOK, ObjectTypes
<1> QED
  BY <1>1, <1>2

\* A command that has ended leaves nothing of its own behind.
LEMMA Released ==
  Release => /\ Command' /\ Purging' /\ Checking' /\ HoldStopsPurge' /\ ResidueIsOwed'
             /\ Sighted'
  BY DEF Release, Command, Purging, Checking, HoldStopsPurge, ResidueIsOwed, Sighted

\* A command past its Begin step works on an existing task that is not done.
LEMMA WorkingOn ==
  ASSUME LedgerInv, pc \in {"purging", "checking", "deferred"}
  PROVE  cur \in Created /\ cur \in TaskIds /\ ~done[cur]
  BY Conjuncts, CreatedTaskIds DEF Command, TypeOK, CommandTypes

\* No object is active in two tasks.
LEMMA ActiveOnce ==
  ASSUME LedgerInv, NEW t \in Created, NEW u \in Created, NEW o \in Active(t), o \in Active(u)
  PROVE  t = u
<1>1. ~(t < u)
  BY Conjuncts DEF ActiveInLatest, Active
<1>2. ~(u < t)
  BY Conjuncts DEF ActiveInLatest, Active
<1> QED
  BY <1>1, <1>2, Conjuncts DEF TypeOK, TaskTypes

\* The object a purge has in hand is an active member of its task alone.
LEMMA InHand ==
  ASSUME LedgerInv, pc = "purging", NEW o \in Oids, work[o] # "out"
  PROVE  /\ cur \in Created /\ cur \in TaskIds /\ ~done[cur]
         /\ o \in member[cur] /\ o \notin deferred[cur] /\ o \notin fresh[cur]
         /\ o \in Assigned
         /\ \A t \in Created : o \in Active(t) => t = cur
<1>1. cur \in Created /\ cur \in TaskIds /\ ~done[cur]
  BY WorkingOn
<1>2. o \in Active(cur) /\ o \notin fresh[cur]
  BY Conjuncts DEF Purging
<1> QED
  BY <1>1, <1>2, ActiveOnce DEF Active, Assigned

\* So is the object a verification has in hand, and it has not passed yet.
LEMMA UnderCheck ==
  ASSUME LedgerInv, pc = "checking", NEW o \in Oids, work[o] # "out"
  PROVE  /\ cur \in Created /\ cur \in TaskIds /\ ~done[cur]
         /\ o \in member[cur] /\ o \notin deferred[cur] /\ o \notin fresh[cur]
         /\ \A t \in Created : o \in Active(t) => t = cur
<1>1. cur \in Created /\ cur \in TaskIds /\ ~done[cur]
  BY WorkingOn
<1>2. o \in Active(cur) /\ o \notin fresh[cur]
  BY Conjuncts DEF Checking
<1> QED
  BY <1>1, <1>2, ActiveOnce DEF Active

\* Taking the lock writes nothing to the ledger.
LEMMA AcquireInv ==
  ASSUME LedgerInv, NEW c \in Conns, Acquire(c)
  PROVE  LedgerInv'
<1>1. TypeOK'
  BY TypeStep, Conjuncts DEF Next
<1>2. /\ UnusedRows' /\ Membership' /\ Freshness' /\ Vouched' /\ Sighted'
      /\ OneCurrentTask' /\ ActiveInLatest' /\ DoneIsVerified' /\ NoDeadEnd'
      /\ ProcessedHere'
  <2>1. UNCHANGED <<nTasks, phase, holdReason, gen, purged, done, member, deferred,
                    vgen, vstat, prog, pieces, work, seen, fresh, processed,
                    rewritten>>
    BY DEF Acquire
  <2> QED
    BY <2>1, Frame
<1>3. Command'
  BY Conjuncts, CreatedTaskIds DEF Command, Acquire, TypeOK, TaskTypes, CommandTypes
<1>4. Purging'
  BY Conjuncts, CreatedTaskIds DEF Purging, Active, PurgeSteps, Acquire, TypeOK,
         ObjectTypes, CommandTypes, HistoryTypes
<1>5. Checking'
  BY Conjuncts, CreatedTaskIds DEF Checking, Active, AllProcessed, VerifySteps,
         Looking, Acquire, TypeOK, TaskTypes, ObjectTypes, CommandTypes,
         HistoryTypes
<1>6. HoldStopsPurge'
  BY Conjuncts, CreatedTaskIds DEF HoldStopsPurge, AnyHold, Acquire, TypeOK,
         TaskTypes, CommandTypes
<1>7. ResidueIsOwed'
  BY Conjuncts, CreatedTaskIds DEF ResidueIsOwed, Active, Acquire, TypeOK,
         ObjectTypes, CommandTypes
<1> QED
  BY <1>1, <1>2, <1>3, <1>4, <1>5, <1>6, <1>7 DEF LedgerInv

\* Opening the ledger: a recovered deletion milestone leaves no second
\* current task, and the lock is attributed to nobody.
LEMMA EnsureSchemaInv ==
  ASSUME LedgerInv, EnsureSchema
  PROVE  LedgerInv'
<1>1. TypeOK'
  BY TypeStep, Conjuncts DEF Next
<1>2. /\ Membership' /\ Freshness' /\ Vouched' /\ Sighted' /\ ActiveInLatest'
      /\ DoneIsVerified' /\ ProcessedHere'
  <2>1. UNCHANGED <<nTasks, gen, done, member, deferred, vgen, vstat, prog, pieces,
                    work, seen, fresh, processed, rewritten>>
    BY DEF EnsureSchema
  <2> QED
    BY <2>1, Frame
<1>3. UnusedRows'
  BY Conjuncts, CreatedTaskIds DEF UnusedRows, EnsureSchema, Recoverable, TypeOK,
         TaskTypes, ObjectTypes, CommandTypes, HistoryTypes
<1>4. Command'
  BY Conjuncts, CreatedTaskIds DEF Command, EnsureSchema, Recoverable, TypeOK,
         TaskTypes, CommandTypes
<1>5. Purging'
  BY Conjuncts, CreatedTaskIds DEF Purging, Active, PurgeSteps, EnsureSchema,
         Recoverable, TypeOK, TaskTypes, ObjectTypes, CommandTypes, HistoryTypes
<1>6. Checking'
  BY Conjuncts, CreatedTaskIds DEF Checking, Active, AllProcessed, VerifySteps,
         Looking, EnsureSchema, Recoverable, TypeOK, TaskTypes, ObjectTypes,
         CommandTypes, HistoryTypes
<1>7. OneCurrentTask'
  BY Conjuncts, CreatedTaskIds DEF OneCurrentTask, Unfinished, EnsureSchema,
         Recoverable, TypeOK, TaskTypes, CommandTypes
<1>8. NoDeadEnd'
  BY Conjuncts, CreatedTaskIds DEF NoDeadEnd, Active, EnsureSchema, Recoverable,
         TypeOK, TaskTypes, ObjectTypes, CommandTypes
<1>9. HoldStopsPurge'
  BY Conjuncts, CreatedTaskIds DEF HoldStopsPurge, AnyHold, EnsureSchema,
         Recoverable, TypeOK, TaskTypes, CommandTypes
<1>10. ResidueIsOwed'
  BY Conjuncts, CreatedTaskIds DEF ResidueIsOwed, Active, EnsureSchema, Recoverable,
         TypeOK, TaskTypes, ObjectTypes, CommandTypes
<1> QED
  BY <1>1, <1>2, <1>3, <1>4, <1>5, <1>6, <1>7, <1>8, <1>9, <1>10 DEF LedgerInv

\* A crash between any two steps keeps the invariant.
LEMMA ExitInv ==
  ASSUME LedgerInv, Exit
  PROVE  LedgerInv'
<1>1. TypeOK'
  BY TypeStep, Conjuncts DEF Next
<1>2. /\ UnusedRows' /\ Membership' /\ Freshness' /\ Vouched' /\ OneCurrentTask'
      /\ ActiveInLatest' /\ DoneIsVerified' /\ NoDeadEnd' /\ ProcessedHere'
  <2>1. UNCHANGED <<nTasks, phase, holdReason, gen, purged, done, member, deferred,
                    vgen, vstat, prog, pieces, fresh, processed, rewritten>>
    BY DEF Exit
  <2> QED
    BY <2>1, Frame
<1>3. /\ Command' /\ Purging' /\ Checking' /\ HoldStopsPurge' /\ ResidueIsOwed'
      /\ Sighted'
  BY Released DEF Exit
<1> QED
  BY <1>1, <1>2, <1>3 DEF LedgerInv

\* A new task takes objects that are in no task or deferred in their latest
\* one; a retried object is unprocessed again.
LEMMA CreateSubtaskInv ==
  ASSUME LedgerInv, NEW retryDeferred \in BOOLEAN, CreateSubtask(retryDeferred)
  PROVE  LedgerInv'
<1>1. PICK S \in SelectCapacity(IF retryDeferred THEN RetryCandidates ELSE Oids \ Assigned) :
        /\ nTasks' = nTasks + 1
        /\ member' = [member EXCEPT ![nTasks + 1] = S]
        /\ prog' = IF retryDeferred THEN Requeue(S) ELSE prog
  BY DEF CreateSubtask
<1>2. /\ ~AnyHold /\ Unfinished = {} /\ nTasks < MaxTasks
      /\ UNCHANGED <<phase, holdReason, holdOid, gen, purged, done, execConn, deferred,
                     verifyVars, pieces, history>>
  BY DEF CreateSubtask, MayCreate
<1>3. /\ nTasks \in Nat /\ nTasks + 1 \in TaskIds /\ nTasks + 1 \notin Created
      /\ \A t \in Created' : t \in Created \/ t = nTasks + 1
      /\ \A t \in Created : t \in Created' /\ t < nTasks + 1
  BY <1>1, <1>2, Conjuncts DEF TypeOK, TaskTypes
<1>4. /\ member'[nTasks + 1] = S
      /\ \A t \in Created : member'[t] = member[t]
  BY <1>1, <1>3, Conjuncts, CreatedTaskIds DEF TypeOK, ObjectTypes
<1>5. deferred[nTasks + 1] = {} /\ fresh[nTasks + 1] = {} /\ ~done[nTasks + 1]
  BY <1>3, Conjuncts DEF UnusedRows, Membership
<1>6. /\ S \subseteq Oids
      /\ \A o \in S : \A t \in Created : o \in member[t] => o \in deferred[t]
  <2>1. CASE retryDeferred
    <3>1. S \subseteq RetryCandidates
      BY <1>1, <2>1 DEF SelectCapacity
    <3> SUFFICES ASSUME NEW o \in S
                 PROVE  /\ o \in Oids
                        /\ \A t \in Created : o \in member[t] => o \in deferred[t]
      OBVIOUS
    <3>2. PICK u \in Created : o \in DeferredIn(u)
      BY <3>1 DEF RetryCandidates
    <3>3. /\ o \in deferred[u] /\ o \in member[u]
          /\ \A t \in Created : t > u => o \notin member[t]
      BY <3>2, Conjuncts, CreatedTaskIds DEF DeferredIn, Membership
    <3>4. \A t \in Created : t < u /\ o \in member[t] => o \in deferred[t]
      BY <3>3, Conjuncts DEF ActiveInLatest
    <3>5. o \in Oids
      BY <3>3, Conjuncts, CreatedTaskIds DEF TypeOK, ObjectTypes
    <3> QED
      BY <1>3, <3>3, <3>4, <3>5
  <2>2. CASE ~retryDeferred
    BY <1>1, <2>2 DEF SelectCapacity, Assigned
  <2> QED
    BY <2>1, <2>2
<1>7. \A o \in Oids : /\ o \notin S => prog'[o] = prog[o]
                      /\ o \in S => prog'[o] # 1
                      /\ prog'[o] # 0 => prog[o] # 0
  <2>1. CASE retryDeferred
    BY <1>1, <2>1, Conjuncts DEF Requeue, TypeOK, ObjectTypes
  <2>2. CASE ~retryDeferred
    <3>1. prog' = prog /\ \A o \in S : o \notin Assigned
      BY <1>1, <2>2 DEF SelectCapacity
    <3>2. \A o \in Oids : prog[o] # 0 => o \in Assigned
      BY Conjuncts DEF Membership
    <3> QED
      BY <3>1, <3>2
  <2> QED
    BY <2>1, <2>2
<1>8. \A t \in Created : /\ Active(t)' = Active(t)
                         /\ \A o \in Active(t) : prog'[o] = prog[o]
  <2> SUFFICES ASSUME NEW t \in Created
               PROVE  Active(t)' = Active(t) /\ \A o \in Active(t) : prog'[o] = prog[o]
    OBVIOUS
  <2>1. Active(t)' = Active(t)
    BY <1>2, <1>4 DEF Active
  <2>2. \A o \in Active(t) : o \in Oids /\ o \notin S
    BY <1>6, Conjuncts, CreatedTaskIds DEF Active, TypeOK, ObjectTypes
  <2> QED
    BY <1>7, <2>1, <2>2
<1>9. TypeOK'
  BY TypeStep, Conjuncts DEF Next
<1>10. Freshness'
  <2>1. UNCHANGED <<gen, vgen, vstat, fresh>>
    BY DEF CreateSubtask
  <2> QED
    BY <2>1, Frame
<1>11. /\ Command' /\ Purging' /\ Checking' /\ HoldStopsPurge' /\ ResidueIsOwed'
       /\ Sighted'
  BY Released DEF CreateSubtask
<1>12. UnusedRows'
  <2>1. \A t \in TaskIds \ Created' : t \notin Created /\ t # nTasks + 1
    BY <1>1, <1>2, <1>3, Conjuncts DEF TypeOK, TaskTypes
  <2>2. \A t \in TaskIds \ Created' : member'[t] = member[t]
    BY <1>1, <2>1, Conjuncts DEF TypeOK, ObjectTypes
  <2> QED
    BY <1>2, <2>1, <2>2, Conjuncts DEF UnusedRows
<1>13. Membership'
  <2>1. \A t \in TaskIds : deferred'[t] \subseteq member'[t] /\ gen'[t] >= 1
    <3> SUFFICES ASSUME NEW t \in TaskIds
                 PROVE  deferred'[t] \subseteq member'[t] /\ gen'[t] >= 1
      OBVIOUS
    <3>1. CASE t = nTasks + 1
      BY <1>2, <1>4, <1>5, <3>1, Conjuncts DEF Membership
    <3>2. CASE t # nTasks + 1
      BY <1>1, <1>2, <3>2, Conjuncts DEF Membership, TypeOK, ObjectTypes
    <3> QED
      BY <3>1, <3>2
  <2>2. \A o \in Oids : prog'[o] # 0 => o \in Assigned'
    BY <1>3, <1>4, <1>7, Conjuncts DEF Membership, Assigned
  <2>3. ASSUME NEW o \in Assigned'
        PROVE  \E t \in Created' : /\ o \in member'[t]
                                   /\ \A u \in Created' : u > t => o \notin member'[u]
    <3>1. CASE o \in S
      <4>1. nTasks + 1 \in Created' /\ o \in member'[nTasks + 1]
        BY <1>1, <1>3, <1>4, <3>1
      <4>2. \A u \in Created' : ~(u > nTasks + 1)
        BY <1>1, <1>3
      <4> QED
        BY <4>1, <4>2
    <3>2. CASE o \notin S
      <4>1. o \in Assigned
        BY <1>3, <1>4, <3>2 DEF Assigned
      <4>2. PICK t \in Created : /\ o \in member[t]
                                 /\ \A u \in Created : u > t => o \notin member[u]
        BY <4>1, Conjuncts DEF Membership
      <4> QED
        BY <1>3, <1>4, <3>2, <4>2
    <3> QED
      BY <3>1, <3>2
  <2> QED
    BY <2>1, <2>2, <2>3 DEF Membership
<1>14. Vouched'
  BY <1>2, <1>3, <1>5, <1>8, Conjuncts DEF Vouched
<1>15. OneCurrentTask'
  BY <1>2, <1>3 DEF OneCurrentTask, Unfinished
<1>16. ActiveInLatest'
  <2> SUFFICES ASSUME NEW t \in Created', NEW u \in Created', t < u
               PROVE  member'[t] \intersect member'[u] \subseteq deferred'[t]
    BY DEF ActiveInLatest
  <2>1. t \in Created
    BY <1>3
  <2>2. CASE u \in Created
    BY <1>2, <1>4, <2>1, <2>2, Conjuncts DEF ActiveInLatest
  <2>3. CASE u = nTasks + 1
    BY <1>2, <1>4, <1>6, <2>1, <2>3
  <2> QED
    BY <1>3, <2>2, <2>3
<1>17. DoneIsVerified'
  BY <1>2, <1>3, <1>5, <1>8, Conjuncts DEF DoneIsVerified
<1>18. NoDeadEnd'
  BY <1>2, <1>3, <1>5, <1>8, Conjuncts DEF NoDeadEnd
<1>19. ProcessedHere'
  <2> SUFFICES ASSUME NEW t \in Created', NEW o \in Active(t)', prog'[o] = 1
               PROVE  o \in processed'[t]
    BY DEF ProcessedHere
  <2>1. CASE t \in Created
    BY <1>2, <1>8, <2>1, Conjuncts DEF ProcessedHere
  <2>2. CASE t = nTasks + 1
    <3>1. o \in S
      BY <1>4, <2>2 DEF Active
    <3> QED
      BY <1>6, <1>7, <3>1
  <2> QED
    BY <1>3, <2>1, <2>2
<1> QED
  BY <1>9, <1>10, <1>11, <1>12, <1>13, <1>14, <1>15, <1>16, <1>17, <1>18, <1>19
     DEF LedgerInv

\* The hold is written to a task that is not done, and no purge runs.
LEMMA PurgeRefusedInv ==
  ASSUME LedgerInv, NEW id \in Ids, NEW reason \in Refusals, PurgeRefused(id, reason)
  PROVE  LedgerInv'
<1>1. TypeOK'
  BY TypeStep, Conjuncts DEF Next
<1>2. /\ Membership' /\ Freshness' /\ Vouched' /\ OneCurrentTask' /\ ActiveInLatest'
      /\ DoneIsVerified' /\ ProcessedHere'
  <2>1. UNCHANGED <<nTasks, gen, purged, done, member, deferred, vgen, vstat, prog,
                    pieces, fresh, processed, rewritten>>
    BY DEF PurgeRefused
  <2> QED
    BY <2>1, Frame
<1>3. /\ Command' /\ Purging' /\ Checking' /\ HoldStopsPurge' /\ ResidueIsOwed'
      /\ Sighted'
  BY Released DEF PurgeRefused
<1>4. UnusedRows'
  <2>1. PICK t \in ResolvePurge(id) : Hold(t, 0, reason)
    BY DEF PurgeRefused
  <2>2. t \in Created
    BY ResolvedCreated
  <2>3. \A u \in TaskIds \ Created : holdReason'[u] = holdReason[u]
    BY <2>1, <2>2, Conjuncts DEF Hold, TypeOK, TaskTypes
  <2> QED
    BY <2>3, Conjuncts DEF UnusedRows, PurgeRefused
<1>5. NoDeadEnd'
  BY Conjuncts, CreatedTaskIds DEF NoDeadEnd, Active, PurgeRefused, Hold, TypeOK,
         TaskTypes, ObjectTypes
<1> QED
  BY <1>1, <1>2, <1>3, <1>4, <1>5 DEF LedgerInv

\* The new generation voids every PASS, and every residue marker leaves its
\* object unprocessed.
LEMMA BeginPurgeInv ==
  ASSUME LedgerInv, NEW id \in Ids, BeginPurge(id)
  PROVE  LedgerInv'
<1>1. PICK t \in ResolvePurge(id) :
        /\ prog' = Requeue({o \in Active(t) : vstat[t][o] = "RESIDUE"})
        /\ phase' = [phase EXCEPT ![t] = "PURGE"]
        /\ gen' = [gen EXCEPT ![t] = gen[t] + 1]
        /\ execConn' = [execConn EXCEPT ![t] = conn]
        /\ cur' = t
        /\ work' = [o \in Oids |-> IF o \in Claimable(t, prog') THEN "queued" ELSE "out"]
        /\ fresh' = [fresh EXCEPT ![t] = {}]
  BY DEF BeginPurge, NextGen
<1>2. /\ pc = "open" /\ pc' = "purging"
      /\ UNCHANGED <<nTasks, holdReason, holdOid, purged, done, memberVars, verifyVars,
                     pieces, processed, rewritten, conn, mode, seen>>
  BY DEF BeginPurge
<1>3. t \in Created /\ t \in TaskIds /\ ~done[t] /\ ~AnyHold
  BY <1>1, Conjuncts, CreatedTaskIds DEF ResolvePurge, Current, Unfinished
<1>4. /\ fresh'[t] = {} /\ gen'[t] = gen[t] + 1 /\ gen[t] \in Nat
      /\ \A u \in TaskIds : u # t => /\ fresh'[u] = fresh[u] /\ gen'[u] = gen[u]
                                      /\ execConn'[u] = execConn[u] /\ phase'[u] = phase[u]
  BY <1>1, <1>3, Conjuncts DEF TypeOK, TaskTypes, HistoryTypes
<1>5. \A o \in Oids : /\ prog'[o] # 0 => prog[o] # 0
                      /\ prog'[o] = 1 => prog[o] = 1
                      /\ o \notin Active(t) => prog'[o] = prog[o]
                      /\ o \in Active(t) /\ vstat[t][o] = "RESIDUE" => prog'[o] # 1
  BY <1>1, Conjuncts DEF Requeue, TypeOK, ObjectTypes
<1>6. /\ \A u \in Created : Active(u)' = Active(u)
      /\ \A u \in Created : \A o \in Active(u) : o \in Oids
  BY <1>2, Conjuncts, CreatedTaskIds DEF Active, TypeOK, ObjectTypes
<1>7. TypeOK'
  BY TypeStep, Conjuncts DEF Next
<1>8. OneCurrentTask' /\ ActiveInLatest'
  <2>1. UNCHANGED <<nTasks, purged, done, member, deferred>>
    BY DEF BeginPurge
  <2> QED
    BY <2>1, Frame
<1>9. UnusedRows'
  BY <1>2, <1>3, <1>4, Conjuncts DEF UnusedRows
<1>10. Membership'
  <2>1. \A u \in TaskIds : gen'[u] >= 1
    BY <1>3, <1>4, Conjuncts DEF Membership
  <2> QED
    BY <1>2, <1>5, <2>1, Conjuncts DEF Membership, Assigned
<1>11. Freshness'
  <2> SUFFICES ASSUME NEW u \in TaskIds, NEW o \in Oids
               PROVE  /\ vgen[u][o] <= gen'[u]
                      /\ o \in fresh'[u] <=> vgen[u][o] = gen'[u] /\ vstat[u][o] = "PASS"
    BY <1>2 DEF Freshness
  <2>1. CASE u = t
    <3>1. vgen[t][o] <= gen[t]
      BY <1>3, Conjuncts DEF Freshness
    <3>2. vgen[t][o] \in Nat
      BY <1>3, Conjuncts, Generations
    <3> QED
      BY <1>4, <2>1, <3>1, <3>2
  <2>2. CASE u # t
    BY <1>4, <2>2, Conjuncts DEF Freshness
  <2> QED
    BY <2>1, <2>2
<1>12. Vouched'
  BY <1>2, <1>4, <1>6, Conjuncts, CreatedTaskIds DEF Vouched
<1>13. Sighted'
  BY Conjuncts, CreatedTaskIds DEF Sighted, BeginPurge, TypeOK, TaskTypes,
         ObjectTypes, CommandTypes, HistoryTypes
<1>14. Command'
  <2>1. cur = 0 /\ conn # 0 /\ mode = "run" /\ \A u \in TaskIds : execConn[u] = 0
    BY <1>2, Conjuncts DEF Command
  <2> QED
    BY <1>1, <1>2, <1>3, <1>4, <2>1 DEF Command
<1>15. Purging'
  <2>1. \A o \in Oids : work'[o] # "out" => o \in Active(t)' /\ prog'[o] # 1
    BY <1>1, <1>2, <1>3, <1>5, <1>6 DEF Claimable
  <2>2. \A o \in Oids : work'[o] \in PurgeSteps
    BY <1>1 DEF PurgeSteps
  <2> QED
    BY <1>1, <1>4, <2>1, <2>2 DEF Purging
<1>16. Checking'
  BY Conjuncts, CreatedTaskIds DEF Checking, Active, AllProcessed, VerifySteps,
         Looking, BeginPurge, TypeOK, TaskTypes, ObjectTypes, CommandTypes,
         HistoryTypes
<1>17. DoneIsVerified'
  BY <1>2, <1>3, <1>4, <1>6, Conjuncts, CreatedTaskIds DEF DoneIsVerified
<1>18. NoDeadEnd'
  <2> SUFFICES ASSUME NEW u \in Created, done[u]
               PROVE  \A o \in Active(u) : prog'[o] = 1
    BY <1>2, <1>6, Conjuncts DEF NoDeadEnd
  <2> SUFFICES ASSUME NEW o \in Active(u) PROVE prog'[o] = 1
    OBVIOUS
  <2>1. o \notin Active(t)
    BY <1>3, ActiveOnce
  <2> QED
    BY <1>5, <1>6, <2>1, Conjuncts DEF NoDeadEnd
<1>19. ProcessedHere'
  BY <1>2, <1>5, <1>6, Conjuncts DEF ProcessedHere
<1>20. HoldStopsPurge'
  BY <1>2, <1>3 DEF HoldStopsPurge, AnyHold
<1>21. ResidueIsOwed'
  BY <1>1, <1>2, <1>3, <1>5, <1>6 DEF ResidueIsOwed
<1> QED
  BY <1>7, <1>8, <1>9, <1>10, <1>11, <1>12, <1>13, <1>14, <1>15, <1>16, <1>17,
     <1>18, <1>19, <1>20, <1>21 DEF LedgerInv

\* A worker takes an object that is already active and unprocessed.
LEMMA StartObjectInv ==
  ASSUME LedgerInv, NEW o \in Oids, StartObject(o)
  PROVE  LedgerInv'
<1>1. TypeOK'
  BY TypeStep, Conjuncts DEF Next, PurgeObject
<1>2. /\ UnusedRows' /\ Membership' /\ Freshness' /\ Vouched' /\ OneCurrentTask'
      /\ ActiveInLatest' /\ DoneIsVerified' /\ NoDeadEnd' /\ ProcessedHere'
      /\ HoldStopsPurge' /\ ResidueIsOwed'
  <2>1. UNCHANGED <<nTasks, phase, holdReason, gen, purged, done, member, deferred,
                    vgen, vstat, prog, pieces, pc, cur, mode, fresh, processed,
                    rewritten>>
    BY DEF StartObject
  <2> QED
    BY <2>1, Frame
<1>3. Sighted'
  BY Conjuncts, CreatedTaskIds DEF Sighted, StartObject, TypeOK, ObjectTypes,
         CommandTypes, HistoryTypes
<1>4. Command'
  BY Conjuncts, CreatedTaskIds DEF Command, StartObject, TypeOK, TaskTypes,
         CommandTypes
<1>5. Purging'
  BY Conjuncts, CreatedTaskIds DEF Purging, Active, PurgeSteps, StartObject, TypeOK,
         ObjectTypes, CommandTypes, HistoryTypes
<1>6. Checking'
  BY Conjuncts, CreatedTaskIds DEF Checking, Active, AllProcessed, VerifySteps,
         Looking, StartObject, TypeOK, TaskTypes, ObjectTypes, CommandTypes,
         HistoryTypes
<1> QED
  BY <1>1, <1>2, <1>3, <1>4, <1>5, <1>6 DEF LedgerInv

\* Deleting pieces cannot falsify what a check has seen.
LEMMA ClearPrefixInv ==
  ASSUME LedgerInv, NEW o \in Oids, NEW p \in Prefixes, ClearPrefix(o, p)
  PROVE  LedgerInv'
<1>1. TypeOK'
  BY TypeStep, Conjuncts DEF Next, PurgeObject
<1>2. /\ UnusedRows' /\ Membership' /\ Freshness' /\ OneCurrentTask'
      /\ ActiveInLatest' /\ DoneIsVerified' /\ NoDeadEnd' /\ ProcessedHere'
      /\ HoldStopsPurge' /\ ResidueIsOwed'
  <2>1. UNCHANGED <<nTasks, phase, holdReason, gen, purged, done, member, deferred,
                    vgen, vstat, prog, pc, cur, mode, fresh, processed>>
    BY DEF ClearPrefix
  <2> QED
    BY <2>1, Frame
<1>3. Vouched'
  BY Conjuncts, CreatedTaskIds DEF Vouched, Active, ClearPrefix, TypeOK, TaskTypes,
         ObjectTypes, CommandTypes, HistoryTypes
<1>4. Sighted'
  BY Conjuncts, CreatedTaskIds DEF Sighted, ClearPrefix, TypeOK, ObjectTypes,
         CommandTypes, HistoryTypes
<1>5. Command'
  BY Conjuncts, CreatedTaskIds DEF Command, ClearPrefix, TypeOK, TaskTypes,
         ObjectTypes, CommandTypes
<1>6. Purging'
  BY Conjuncts, CreatedTaskIds DEF Purging, Active, PurgeSteps, ClearPrefix, TypeOK,
         ObjectTypes, CommandTypes, HistoryTypes
<1>7. Checking'
  BY Conjuncts, CreatedTaskIds DEF Checking, Active, AllProcessed, VerifySteps,
         Looking, ClearPrefix, TypeOK, TaskTypes, ObjectTypes, CommandTypes,
         HistoryTypes
<1> QED
  BY <1>1, <1>2, <1>3, <1>4, <1>5, <1>6, <1>7 DEF LedgerInv

\* The re-check only reads.
LEMMA RecheckInv ==
  ASSUME LedgerInv, NEW o \in Oids, NEW p \in Prefixes, Recheck(o, p)
  PROVE  LedgerInv'
<1>1. TypeOK'
  BY TypeStep, Conjuncts DEF Next, PurgeObject
<1>2. /\ UnusedRows' /\ Membership' /\ Freshness' /\ Vouched' /\ OneCurrentTask'
      /\ ActiveInLatest' /\ DoneIsVerified' /\ NoDeadEnd' /\ ProcessedHere'
      /\ HoldStopsPurge' /\ ResidueIsOwed'
  <2>1. UNCHANGED <<nTasks, phase, holdReason, gen, purged, done, member, deferred,
                    vgen, vstat, prog, pieces, pc, cur, mode, fresh, processed,
                    rewritten>>
    BY DEF Recheck
  <2> QED
    BY <2>1, Frame
<1>3. Sighted'
  BY Conjuncts, CreatedTaskIds DEF Sighted, Recheck, TypeOK, ObjectTypes,
         CommandTypes, HistoryTypes
<1>4. Command'
  BY Conjuncts, CreatedTaskIds DEF Command, Recheck, TypeOK, TaskTypes, CommandTypes
<1>5. Purging'
  BY Conjuncts, CreatedTaskIds DEF Purging, Active, PurgeSteps, Recheck, TypeOK,
         ObjectTypes, CommandTypes, HistoryTypes
<1>6. Checking'
  BY Conjuncts, CreatedTaskIds DEF Checking, Active, AllProcessed, VerifySteps,
         Looking, Recheck, TypeOK, TaskTypes, ObjectTypes, CommandTypes,
         HistoryTypes
<1> QED
  BY <1>1, <1>2, <1>3, <1>4, <1>5, <1>6 DEF LedgerInv

\* The result and the reset of the residue marker are one transaction; the
\* object is active in this task alone.
LEMMA RecordDoneInv ==
  ASSUME LedgerInv, NEW o \in Oids, NEW answered \in BOOLEAN, RecordDone(o, answered)
  PROVE  LedgerInv'
<1>1. /\ pc = "purging" /\ work[o] = "write"
      /\ prog' = [prog EXCEPT ![o] = 1]
      /\ vgen' = [vgen EXCEPT ![cur][o] = 0]
      /\ vstat' = [vstat EXCEPT ![cur][o] = "PENDING"]
      /\ processed' = [processed EXCEPT ![cur] = processed[cur] \union {o}]
      /\ UNCHANGED <<taskVars, memberVars, pc, cur, fresh>>
  BY DEF RecordDone
<1>2. /\ cur \in Created /\ cur \in TaskIds /\ ~done[cur]
      /\ o \in member[cur] /\ o \notin deferred[cur] /\ o \notin fresh[cur]
      /\ o \in Assigned
      /\ \A t \in Created : o \in Active(t) => t = cur
  BY <1>1, InHand
<1>3. prog'[o] = 1 /\ \A u \in Oids : u # o => prog'[u] = prog[u]
  BY <1>1, Conjuncts DEF TypeOK, ObjectTypes
<1>4. /\ vgen'[cur][o] = 0 /\ vstat'[cur][o] = "PENDING"
      /\ \A t \in TaskIds, u \in Oids :
           t # cur \/ u # o => vgen'[t][u] = vgen[t][u] /\ vstat'[t][u] = vstat[t][u]
  BY <1>1, <1>2, Conjuncts DEF TypeOK, ObjectTypes
<1>5. TypeOK'
  BY TypeStep, Conjuncts DEF Next, PurgeObject
<1>6. /\ UnusedRows' /\ Vouched' /\ OneCurrentTask' /\ ActiveInLatest'
      /\ DoneIsVerified'
  <2>1. UNCHANGED <<nTasks, phase, holdReason, purged, done, member, deferred,
                    pieces, fresh, rewritten>>
    BY DEF RecordDone
  <2> QED
    BY <2>1, Frame
<1>7. Membership'
  BY <1>1, <1>2, <1>3, Conjuncts DEF Membership, Assigned
<1>8. Freshness'
  <2>1. gen[cur] >= 1 /\ gen[cur] \in Nat
    BY <1>2, Conjuncts DEF Membership, TypeOK, TaskTypes
  <2> SUFFICES ASSUME NEW t \in TaskIds, NEW u \in Oids
               PROVE  /\ vgen'[t][u] <= gen[t]
                      /\ u \in fresh[t] <=> vgen'[t][u] = gen[t] /\ vstat'[t][u] = "PASS"
    BY <1>1 DEF Freshness
  <2>2. CASE t = cur /\ u = o
    BY <1>2, <1>4, <2>1, <2>2
  <2>3. CASE t # cur \/ u # o
    BY <1>4, <2>3, Conjuncts DEF Freshness
  <2> QED
    BY <2>2, <2>3
<1>9. Sighted'
  BY Conjuncts, CreatedTaskIds DEF Sighted, RecordDone, TypeOK, ObjectTypes,
         CommandTypes, HistoryTypes
<1>10. Command'
  BY Conjuncts, CreatedTaskIds DEF Command, RecordDone, TypeOK, TaskTypes,
         ObjectTypes, CommandTypes, HistoryTypes
<1>11. Purging'
  BY Conjuncts, CreatedTaskIds DEF Purging, Active, PurgeSteps, RecordDone, TypeOK,
         ObjectTypes, CommandTypes, HistoryTypes
<1>12. Checking'
  BY Conjuncts, CreatedTaskIds DEF Checking, Active, AllProcessed, VerifySteps,
         Looking, RecordDone, TypeOK, TaskTypes, ObjectTypes, CommandTypes,
         HistoryTypes
<1>13. NoDeadEnd'
  BY Conjuncts, CreatedTaskIds DEF NoDeadEnd, Active, RecordDone, TypeOK, TaskTypes,
         ObjectTypes, CommandTypes, HistoryTypes
<1>14. ProcessedHere'
  <2>1. /\ o \in processed'[cur]
        /\ \A t \in TaskIds : processed[t] \subseteq processed'[t]
    BY <1>1, <1>2, Conjuncts DEF TypeOK, HistoryTypes
  <2> SUFFICES ASSUME NEW t \in Created, NEW u \in Active(t), prog'[u] = 1
               PROVE  u \in processed'[t]
    BY <1>1 DEF ProcessedHere, Active
  <2>2. CASE u = o
    BY <1>2, <2>1, <2>2
  <2>3. CASE u # o
    <3>1. u \in Oids /\ t \in TaskIds
      BY Conjuncts, CreatedTaskIds DEF Active, TypeOK, ObjectTypes
    <3> QED
      BY <1>3, <2>1, <2>3, <3>1, Conjuncts DEF ProcessedHere
  <2> QED
    BY <2>2, <2>3
<1>15. HoldStopsPurge'
  BY Conjuncts, CreatedTaskIds DEF HoldStopsPurge, AnyHold, RecordDone, TypeOK,
         TaskTypes, ObjectTypes, CommandTypes, HistoryTypes
<1>16. ResidueIsOwed'
  <2>1. \A u \in Active(cur) : u \in Oids
    BY <1>2, Conjuncts DEF Active, TypeOK, ObjectTypes
  <2> QED
    BY <1>1, <1>2, <1>3, <1>4, <2>1, Conjuncts DEF ResidueIsOwed, Active
<1> QED
  BY <1>5, <1>6, <1>7, <1>8, <1>9, <1>10, <1>11, <1>12, <1>13, <1>14, <1>15, <1>16
     DEF LedgerInv

\* A recorded failure leaves the object unprocessed.
LEMMA RecordFailInv ==
  ASSUME LedgerInv, NEW o \in Oids, RecordFail(o)
  PROVE  LedgerInv'
<1>1. /\ pc = "purging" /\ work[o] # "out"
      /\ prog' = [prog EXCEPT ![o] = 2]
      /\ UNCHANGED <<taskVars, memberVars>>
  BY DEF RecordFail, Attempting
<1>2. ~done[cur] /\ o \in Assigned /\ \A t \in Created : o \in Active(t) => t = cur
  BY <1>1, InHand
<1>3. prog'[o] = 2 /\ \A u \in Oids : u # o => prog'[u] = prog[u]
  BY <1>1, Conjuncts DEF TypeOK, ObjectTypes
<1>4. TypeOK'
  BY TypeStep, Conjuncts DEF Next, PurgeObject
<1>5. /\ UnusedRows' /\ Freshness' /\ Vouched' /\ OneCurrentTask' /\ ActiveInLatest'
      /\ DoneIsVerified'
  <2>1. UNCHANGED <<nTasks, phase, holdReason, gen, purged, done, member, deferred,
                    vgen, vstat, pieces, fresh, rewritten>>
    BY DEF RecordFail
  <2> QED
    BY <2>1, Frame
<1>6. Membership'
  BY <1>1, <1>2, <1>3, Conjuncts DEF Membership, Assigned
<1>7. Sighted'
  BY Conjuncts, CreatedTaskIds DEF Sighted, RecordFail, Attempting, TypeOK,
         ObjectTypes, CommandTypes, HistoryTypes
<1>8. Command'
  BY Conjuncts, CreatedTaskIds DEF Command, RecordFail, Attempting, TypeOK,
         TaskTypes, ObjectTypes, CommandTypes
<1>9. Purging'
  BY Conjuncts, CreatedTaskIds DEF Purging, Active, PurgeSteps, RecordFail,
         Attempting, TypeOK, ObjectTypes, CommandTypes, HistoryTypes
<1>10. Checking'
  BY Conjuncts, CreatedTaskIds DEF Checking, Active, AllProcessed, VerifySteps,
         Looking, RecordFail, Attempting, TypeOK, TaskTypes, ObjectTypes,
         CommandTypes, HistoryTypes
<1>11. NoDeadEnd'
  <2>1. \A t \in Created : \A u \in Active(t) : u \in Oids
    BY Conjuncts, CreatedTaskIds DEF Active, TypeOK, ObjectTypes
  <2>2. \A t \in Created : done[t] => o \notin Active(t)
    BY <1>2
  <2> QED
    BY <1>1, <1>3, <2>1, <2>2, Conjuncts DEF NoDeadEnd, Active
<1>12. ProcessedHere'
  BY Conjuncts, CreatedTaskIds DEF ProcessedHere, Active, RecordFail, Attempting,
         TypeOK, TaskTypes, ObjectTypes, CommandTypes, HistoryTypes
<1>13. HoldStopsPurge'
  BY Conjuncts, CreatedTaskIds DEF HoldStopsPurge, AnyHold, RecordFail, Attempting,
         TypeOK, TaskTypes, ObjectTypes, CommandTypes
<1>14. ResidueIsOwed'
  BY Conjuncts, CreatedTaskIds DEF ResidueIsOwed, Active, RecordFail, Attempting,
         TypeOK, ObjectTypes, CommandTypes
<1> QED
  BY <1>4, <1>5, <1>6, <1>7, <1>8, <1>9, <1>10, <1>11, <1>12, <1>13, <1>14
     DEF LedgerInv

\* An attempt without a result leaves the ledger as it was.
LEMMA UnrecordedInv ==
  ASSUME LedgerInv, NEW o \in Oids, Unrecorded(o)
  PROVE  LedgerInv'
<1>1. TypeOK'
  BY TypeStep, Conjuncts DEF Next, PurgeObject
<1>2. /\ UnusedRows' /\ Membership' /\ Freshness' /\ Vouched' /\ OneCurrentTask'
      /\ ActiveInLatest' /\ DoneIsVerified' /\ NoDeadEnd' /\ ProcessedHere'
      /\ ResidueIsOwed'
  <2>1. UNCHANGED <<nTasks, phase, holdReason, gen, purged, done, member, deferred,
                    vgen, vstat, prog, pieces, pc, cur, fresh, processed,
                    rewritten>>
    BY DEF Unrecorded
  <2> QED
    BY <2>1, Frame
<1>3. Sighted'
  BY Conjuncts, CreatedTaskIds DEF Sighted, Unrecorded, Attempting, TypeOK,
         ObjectTypes, CommandTypes, HistoryTypes
<1>4. Command'
  BY Conjuncts, CreatedTaskIds DEF Command, Unrecorded, Attempting, TypeOK,
         TaskTypes, CommandTypes
<1>5. Purging'
  BY Conjuncts, CreatedTaskIds DEF Purging, Active, PurgeSteps, Unrecorded,
         Attempting, TypeOK, ObjectTypes, CommandTypes, HistoryTypes
<1>6. Checking'
  BY Conjuncts, CreatedTaskIds DEF Checking, Active, AllProcessed, VerifySteps,
         Looking, Unrecorded, Attempting, TypeOK, TaskTypes, ObjectTypes,
         CommandTypes, HistoryTypes
<1>7. HoldStopsPurge'
  BY Conjuncts, CreatedTaskIds DEF HoldStopsPurge, AnyHold, Unrecorded, Attempting,
         TypeOK, TaskTypes, CommandTypes
<1> QED
  BY <1>1, <1>2, <1>3, <1>4, <1>5, <1>6, <1>7 DEF LedgerInv

\* The hold and the halted mode are set together.
LEMMA HaltOnInv ==
  ASSUME LedgerInv, NEW o \in Oids, NEW written \in BOOLEAN, HaltOn(o, written)
  PROVE  LedgerInv'
<1>1. cur \in Created /\ cur \in TaskIds /\ ~done[cur]
  BY WorkingOn DEF HaltOn
<1>2. TypeOK'
  BY TypeStep, Conjuncts DEF Next, PurgeObject
<1>3. /\ Membership' /\ Freshness' /\ Vouched' /\ OneCurrentTask' /\ ActiveInLatest'
      /\ DoneIsVerified' /\ ProcessedHere' /\ ResidueIsOwed'
  <2>1. UNCHANGED <<nTasks, gen, purged, done, member, deferred, vgen, vstat, prog,
                    pieces, pc, cur, fresh, processed, rewritten>>
    BY DEF HaltOn
  <2> QED
    BY <2>1, Frame
<1>4. UnusedRows'
  <2>1. \A t \in TaskIds \ Created : holdReason'[t] = holdReason[t]
    BY <1>1, Conjuncts DEF HaltOn, Hold, TypeOK, TaskTypes
  <2>2. UNCHANGED <<nTasks, phase, purged, done, member, fresh>>
    BY DEF HaltOn
  <2> QED
    BY <2>1, <2>2, Conjuncts DEF UnusedRows
<1>5. Sighted'
  BY Conjuncts, CreatedTaskIds DEF Sighted, HaltOn, Hold, TypeOK, TaskTypes,
         ObjectTypes, CommandTypes, HistoryTypes
<1>6. Command'
  BY Conjuncts, CreatedTaskIds DEF Command, HaltOn, Hold, TypeOK, TaskTypes,
         CommandTypes
<1>7. Purging'
  BY Conjuncts, CreatedTaskIds DEF Purging, Active, PurgeSteps, HaltOn, Hold,
         TypeOK, TaskTypes, ObjectTypes, CommandTypes, HistoryTypes
<1>8. Checking'
  BY Conjuncts, CreatedTaskIds DEF Checking, Active, AllProcessed, VerifySteps,
         Looking, HaltOn, Hold, TypeOK, TaskTypes, ObjectTypes, CommandTypes,
         HistoryTypes
<1>9. NoDeadEnd'
  <2>1. \A t \in Created : done[t] => holdReason'[t] = holdReason[t]
    BY <1>1, Conjuncts, CreatedTaskIds DEF HaltOn, Hold, TypeOK, TaskTypes
  <2> QED
    BY <2>1, Conjuncts DEF NoDeadEnd, Active, HaltOn
<1>10. HoldStopsPurge'
  BY Conjuncts, CreatedTaskIds DEF HoldStopsPurge, AnyHold, HaltOn, Hold, TypeOK,
         TaskTypes, CommandTypes
<1> QED
  BY <1>2, <1>3, <1>4, <1>5, <1>6, <1>7, <1>8, <1>9, <1>10 DEF LedgerInv

\* Recording the object that violated safety.
LEMMA RecordUnsafeInv ==
  ASSUME LedgerInv, NEW o \in Oids, RecordUnsafe(o)
  PROVE  LedgerInv'
<1>1. /\ pc = "purging" /\ work[o] # "out"
      /\ prog' = [prog EXCEPT ![o] = 2]
      /\ UNCHANGED <<taskVars, memberVars>>
  BY DEF RecordUnsafe
<1>2. ~done[cur] /\ o \in Assigned /\ \A t \in Created : o \in Active(t) => t = cur
  BY <1>1, InHand
<1>3. prog'[o] = 2 /\ \A u \in Oids : u # o => prog'[u] = prog[u]
  BY <1>1, Conjuncts DEF TypeOK, ObjectTypes
<1>4. TypeOK'
  BY TypeStep, Conjuncts DEF Next, PurgeObject
<1>5. /\ UnusedRows' /\ Freshness' /\ Vouched' /\ OneCurrentTask' /\ ActiveInLatest'
      /\ DoneIsVerified' /\ HoldStopsPurge'
  <2>1. UNCHANGED <<nTasks, phase, holdReason, gen, purged, done, member, deferred,
                    vgen, vstat, pieces, pc, cur, mode, fresh, rewritten>>
    BY DEF RecordUnsafe
  <2> QED
    BY <2>1, Frame
<1>6. Membership'
  BY <1>1, <1>2, <1>3, Conjuncts DEF Membership, Assigned
<1>7. Sighted'
  BY Conjuncts, CreatedTaskIds DEF Sighted, RecordUnsafe, TypeOK, ObjectTypes,
         CommandTypes, HistoryTypes
<1>8. Command'
  BY Conjuncts, CreatedTaskIds DEF Command, RecordUnsafe, TypeOK, TaskTypes,
         ObjectTypes, CommandTypes
<1>9. Purging'
  BY Conjuncts, CreatedTaskIds DEF Purging, Active, PurgeSteps, RecordUnsafe,
         TypeOK, ObjectTypes, CommandTypes, HistoryTypes
<1>10. Checking'
  BY Conjuncts, CreatedTaskIds DEF Checking, Active, AllProcessed, VerifySteps,
         Looking, RecordUnsafe, TypeOK, TaskTypes, ObjectTypes, CommandTypes,
         HistoryTypes
<1>11. NoDeadEnd'
  <2>1. \A t \in Created : \A u \in Active(t) : u \in Oids
    BY Conjuncts, CreatedTaskIds DEF Active, TypeOK, ObjectTypes
  <2>2. \A t \in Created : done[t] => o \notin Active(t)
    BY <1>2
  <2> QED
    BY <1>1, <1>3, <2>1, <2>2, Conjuncts DEF NoDeadEnd, Active
<1>12. ProcessedHere'
  BY Conjuncts, CreatedTaskIds DEF ProcessedHere, Active, RecordUnsafe, TypeOK,
         TaskTypes, ObjectTypes, CommandTypes, HistoryTypes
<1>13. ResidueIsOwed'
  BY Conjuncts, CreatedTaskIds DEF ResidueIsOwed, Active, RecordUnsafe, TypeOK,
         ObjectTypes, CommandTypes
<1> QED
  BY <1>4, <1>5, <1>6, <1>7, <1>8, <1>9, <1>10, <1>11, <1>12, <1>13 DEF LedgerInv

\* Only the mode of the run changes.
LEMMA InterruptInv ==
  ASSUME LedgerInv, NEW m \in Modes, Interrupt(m)
  PROVE  LedgerInv'
<1>1. TypeOK'
  BY TypeStep, Conjuncts DEF Next
<1>2. /\ UnusedRows' /\ Membership' /\ Freshness' /\ Vouched' /\ Sighted'
      /\ Purging' /\ Checking' /\ OneCurrentTask' /\ ActiveInLatest'
      /\ DoneIsVerified' /\ NoDeadEnd' /\ ProcessedHere' /\ ResidueIsOwed'
  <2>1. UNCHANGED <<nTasks, phase, holdReason, gen, purged, done, member, deferred,
                    vgen, vstat, prog, pieces, pc, cur, work, seen, fresh,
                    processed, rewritten>>
    BY DEF Interrupt
  <2> QED
    BY <2>1, Frame
<1>3. Command'
  BY Conjuncts, CreatedTaskIds DEF Command, Interrupt, TypeOK, TaskTypes,
         CommandTypes
<1>4. HoldStopsPurge'
  BY Conjuncts, CreatedTaskIds DEF HoldStopsPurge, AnyHold, Interrupt, TypeOK,
         TaskTypes, CommandTypes
<1> QED
  BY <1>1, <1>2, <1>3, <1>4 DEF LedgerInv

\* The deletion milestone frees the allocation of the next task.
LEMMA CompletePurgeInv ==
  ASSUME LedgerInv, CompletePurge
  PROVE  LedgerInv'
<1>1. TypeOK'
  BY TypeStep, Conjuncts DEF Next
<1>2. /\ Membership' /\ Freshness' /\ Vouched' /\ ActiveInLatest' /\ DoneIsVerified'
      /\ ProcessedHere'
  <2>1. UNCHANGED <<nTasks, gen, done, member, deferred, vgen, vstat, prog, pieces,
                    fresh, processed, rewritten>>
    BY DEF CompletePurge
  <2> QED
    BY <2>1, Frame
<1>3. /\ Command' /\ Purging' /\ Checking' /\ HoldStopsPurge' /\ ResidueIsOwed'
      /\ Sighted'
  BY Released DEF CompletePurge
<1>4. UnusedRows'
  <2>1. cur \in Created
    BY WorkingOn DEF CompletePurge
  <2>2. \A t \in TaskIds \ Created : purged'[t] = purged[t] /\ phase'[t] = phase[t]
    BY <2>1, Conjuncts DEF CompletePurge, MarkPurged, TypeOK, TaskTypes
  <2> QED
    BY <2>2, Conjuncts DEF UnusedRows, CompletePurge
<1>5. OneCurrentTask'
  BY Conjuncts, CreatedTaskIds DEF OneCurrentTask, Unfinished, CompletePurge,
         MarkPurged, TypeOK, TaskTypes
<1>6. NoDeadEnd'
  BY Conjuncts, CreatedTaskIds DEF NoDeadEnd, Active, CompletePurge, MarkPurged,
         TypeOK, TaskTypes, ObjectTypes
<1> QED
  BY <1>1, <1>2, <1>3, <1>4, <1>5, <1>6 DEF LedgerInv

\* The hold of a failed verify is never written to a done task.
LEMMA VerifyRefusedInv ==
  ASSUME LedgerInv, NEW id \in Ids, NEW reason \in Refusals, VerifyRefused(id, reason)
  PROVE  LedgerInv'
<1>1. TypeOK'
  BY TypeStep, Conjuncts DEF Next
<1>2. /\ Membership' /\ Freshness' /\ Vouched' /\ OneCurrentTask' /\ ActiveInLatest'
      /\ DoneIsVerified' /\ ProcessedHere'
  <2>1. UNCHANGED <<nTasks, gen, purged, done, member, deferred, vgen, vstat, prog,
                    pieces, fresh, processed, rewritten>>
    BY DEF VerifyRefused
  <2> QED
    BY <2>1, Frame
<1>3. /\ Command' /\ Purging' /\ Checking' /\ HoldStopsPurge' /\ ResidueIsOwed'
      /\ Sighted'
  BY Released DEF VerifyRefused
<1>4. UnusedRows'
  <2>1. PICK t \in ResolveVerify(id) : Hold(t, 0, reason)
    BY DEF VerifyRefused
  <2>2. t \in Created
    BY ResolvedCreated
  <2>3. \A u \in TaskIds \ Created : holdReason'[u] = holdReason[u]
    BY <2>1, <2>2, Conjuncts DEF Hold, TypeOK, TaskTypes
  <2> QED
    BY <2>3, Conjuncts DEF UnusedRows, VerifyRefused
<1>5. NoDeadEnd'
  BY Conjuncts, CreatedTaskIds DEF NoDeadEnd, Active, VerifyRefused, Hold, TypeOK,
         TaskTypes, ObjectTypes
<1> QED
  BY <1>1, <1>2, <1>3, <1>4, <1>5 DEF LedgerInv

\* Reopening a done task by --restart opens a new generation; the milestone
\* is set, so it is no unfinished task.
LEMMA BeginVerifyInv ==
  ASSUME LedgerInv, NEW id \in Ids, NEW restart \in BOOLEAN, BeginVerify(id, restart)
  PROVE  LedgerInv'
<1>1. PICK t \in ResolveVerify(id) :
        /\ holdReason[t] = "none" /\ (done[t] => restart) /\ AllProcessed(t)
        /\ phase' = [phase EXCEPT ![t] = "VERIFY"]
        /\ gen' = [gen EXCEPT ![t] = NextGen(t, restart)]
        /\ done' = [done EXCEPT ![t] = FALSE]
        /\ purged' = [purged EXCEPT ![t] = TRUE]
        /\ execConn' = [execConn EXCEPT ![t] = conn]
        /\ cur' = t
        /\ work' = [o \in Oids |-> IF o \in VerifyPending(t, NextGen(t, restart))
                                   THEN "queued" ELSE "out"]
        /\ fresh' = [fresh EXCEPT ![t] = IF restart THEN {} ELSE fresh[t]]
  BY DEF BeginVerify
<1>2. /\ pc = "open" /\ pc' = "checking"
      /\ UNCHANGED <<nTasks, holdReason, holdOid, memberVars, verifyVars, prog, pieces,
                     processed, rewritten, conn, mode, seen>>
  BY DEF BeginVerify
<1>3. t \in Created /\ t \in TaskIds
  BY <1>1, ResolvedCreated, Conjuncts, CreatedTaskIds
<1>4. /\ gen[t] \in Nat /\ gen'[t] = IF restart THEN gen[t] + 1 ELSE gen[t]
      /\ fresh'[t] = IF restart THEN {} ELSE fresh[t]
      /\ purged'[t] /\ ~done'[t]
  BY <1>1, <1>3, Conjuncts DEF NextGen, TypeOK, TaskTypes, HistoryTypes
<1>5. \A u \in TaskIds : u # t => /\ phase'[u] = phase[u] /\ gen'[u] = gen[u]
                                  /\ done'[u] = done[u] /\ purged'[u] = purged[u]
                                  /\ execConn'[u] = execConn[u] /\ fresh'[u] = fresh[u]
  BY <1>1, <1>3, Conjuncts DEF TypeOK, TaskTypes, HistoryTypes
<1>6. \A u \in Created : Active(u)' = Active(u)
  BY <1>2 DEF Active
<1>7. TypeOK'
  BY TypeStep, Conjuncts DEF Next
<1>8. ActiveInLatest' /\ ProcessedHere'
  <2>1. UNCHANGED <<nTasks, member, deferred, prog, processed>>
    BY DEF BeginVerify
  <2> QED
    BY <2>1, Frame
<1>9. UnusedRows'
  BY <1>2, <1>3, <1>5, Conjuncts DEF UnusedRows
<1>10. Membership'
  <2>1. \A u \in TaskIds : gen'[u] >= 1
    BY <1>3, <1>4, <1>5, Conjuncts DEF Membership
  <2> QED
    BY <1>2, <2>1, Conjuncts DEF Membership, Assigned
<1>11. Freshness'
  <2> SUFFICES ASSUME NEW u \in TaskIds, NEW o \in Oids
               PROVE  /\ vgen[u][o] <= gen'[u]
                      /\ o \in fresh'[u] <=> vgen[u][o] = gen'[u] /\ vstat[u][o] = "PASS"
    BY <1>2 DEF Freshness
  <2>1. CASE u = t /\ restart
    <3>1. vgen[t][o] <= gen[t]
      BY <1>3, Conjuncts DEF Freshness
    <3>2. vgen[t][o] \in Nat
      BY <1>3, Conjuncts, Generations
    <3>3. gen[t] \in Nat /\ gen'[t] = gen[t] + 1 /\ fresh'[t] = {}
      BY <1>4, <2>1
    <3> QED
      BY <2>1, <3>1, <3>2, <3>3
  <2>2. CASE u # t \/ ~restart
    <3>1. gen'[u] = gen[u] /\ fresh'[u] = fresh[u]
      BY <1>4, <1>5, <2>2
    <3> QED
      BY <3>1, Conjuncts DEF Freshness
  <2> QED
    BY <2>1, <2>2
<1>12. Vouched'
  <2>1. \A u \in Created : fresh'[u] \subseteq fresh[u]
    BY <1>3, <1>4, <1>5, Conjuncts, CreatedTaskIds
  <2> QED
    BY <1>2, <1>6, <2>1, Conjuncts DEF Vouched
<1>13. Sighted'
  BY Conjuncts, CreatedTaskIds DEF Sighted, BeginVerify, TypeOK, TaskTypes,
         ObjectTypes, CommandTypes, HistoryTypes
<1>14. Command'
  <2>1. cur = 0 /\ conn # 0 /\ mode = "run" /\ \A u \in TaskIds : execConn[u] = 0
    BY <1>2, Conjuncts DEF Command
  <2> QED
    BY <1>1, <1>2, <1>3, <1>4, <1>5, <2>1 DEF Command
<1>15. Purging'
  BY Conjuncts, CreatedTaskIds DEF Purging, Active, PurgeSteps, BeginVerify, TypeOK,
         TaskTypes, ObjectTypes, CommandTypes, HistoryTypes
<1>16. Checking'
  <2>1. \A o \in Oids : /\ work'[o] \in {"out", "queued"}
                        /\ work'[o] = "queued" => o \in VerifyPending(t, NextGen(t, restart))
    BY <1>1
  <2>2. \A o \in VerifyPending(t, NextGen(t, restart)) : o \in Active(t)
    BY DEF VerifyPending
  <2>3. \A o \in Oids : work'[o] # "out" => o \in Active(t) /\ o \notin fresh'[t]
    <3> SUFFICES ASSUME NEW o \in Oids, work'[o] # "out"
                 PROVE  o \in Active(t) /\ o \notin fresh'[t]
      OBVIOUS
    <3>1. /\ o \in Active(t)
          /\ (vgen[t][o] # NextGen(t, restart) \/ vstat[t][o] # "PASS")
      BY <2>1 DEF VerifyPending
    <3>2. CASE restart
      BY <1>4, <3>1, <3>2
    <3>3. CASE ~restart
      BY <1>3, <1>4, <3>1, <3>3, Conjuncts DEF Freshness, NextGen
    <3> QED
      BY <3>2, <3>3
  <2>4. AllProcessed(t)'
    BY <1>1, <1>2, <1>3, <1>6 DEF AllProcessed
  <2> QED
    BY <1>1, <1>2, <1>3, <1>4, <1>6, <2>1, <2>3, <2>4
       DEF Checking, VerifySteps, Looking
<1>17. OneCurrentTask'
  BY Conjuncts, CreatedTaskIds DEF OneCurrentTask, Unfinished, BeginVerify, TypeOK,
         TaskTypes, CommandTypes, HistoryTypes
<1>18. DoneIsVerified'
  BY Conjuncts, CreatedTaskIds DEF DoneIsVerified, Active, BeginVerify, TypeOK,
         TaskTypes, ObjectTypes, CommandTypes, HistoryTypes
<1>19. NoDeadEnd'
  BY Conjuncts, CreatedTaskIds DEF NoDeadEnd, Active, BeginVerify, TypeOK,
         TaskTypes, ObjectTypes, CommandTypes, HistoryTypes
<1>20. HoldStopsPurge'
  BY Conjuncts, CreatedTaskIds DEF HoldStopsPurge, AnyHold, BeginVerify, TypeOK,
         TaskTypes, CommandTypes, HistoryTypes
<1>21. ResidueIsOwed'
  BY Conjuncts, CreatedTaskIds DEF ResidueIsOwed, Active, BeginVerify, TypeOK,
         TaskTypes, ObjectTypes, CommandTypes, HistoryTypes
<1> QED
  BY <1>7, <1>8, <1>9, <1>10, <1>11, <1>12, <1>13, <1>14, <1>15, <1>16, <1>17,
     <1>18, <1>19, <1>20, <1>21 DEF LedgerInv

\* A check begins: what was written earlier is no excuse any more.
LEMMA CheckObjectInv ==
  ASSUME LedgerInv, NEW o \in Oids, CheckObject(o)
  PROVE  LedgerInv'
<1>1. /\ pc = "checking" /\ work[o] = "queued"
      /\ \A u \in Oids : work[u] \in {"out", "queued"}
      /\ work' = [work EXCEPT ![o] = "look_s"]
      /\ rewritten' = rewritten \ {o}
  BY DEF CheckObject, Lowest
<1>2. UNCHANGED <<taskVars, memberVars, verifyVars, prog, pieces, pc, conn, cur, mode, fresh,
                 processed>>
  BY DEF CheckObject
<1>3. o \notin fresh[cur] /\ \A t \in Created : o \in Active(t) => t = cur
  BY <1>1, UnderCheck
<1>4. work'[o] = "look_s" /\ \A u \in Oids : u # o => work'[u] = work[u]
  BY <1>1, Conjuncts DEF TypeOK, CommandTypes
<1>5. TypeOK'
  BY TypeStep, Conjuncts DEF Next, VerifyObject
<1>6. /\ UnusedRows' /\ Membership' /\ Freshness' /\ OneCurrentTask'
      /\ ActiveInLatest' /\ DoneIsVerified' /\ NoDeadEnd' /\ ProcessedHere'
      /\ HoldStopsPurge' /\ ResidueIsOwed'
  <2>1. UNCHANGED <<nTasks, phase, holdReason, gen, purged, done, member, deferred,
                    vgen, vstat, prog, pc, cur, mode, fresh, processed>>
    BY DEF CheckObject
  <2> QED
    BY <2>1, Frame
<1>7. Vouched'
  BY <1>1, <1>2, <1>3, Conjuncts DEF Vouched, Active
<1>8. Sighted'
  BY Conjuncts, CreatedTaskIds DEF Sighted, CheckObject, TypeOK, ObjectTypes,
         CommandTypes, HistoryTypes
<1>9. Command'
  BY Conjuncts, CreatedTaskIds DEF Command, CheckObject, TypeOK, TaskTypes,
         CommandTypes, HistoryTypes
<1>10. Purging'
  BY Conjuncts, CreatedTaskIds DEF Purging, Active, PurgeSteps, CheckObject, TypeOK,
         ObjectTypes, CommandTypes, HistoryTypes
<1>11. Checking'
  <2>1. \A u \in Oids : /\ work'[u] \in VerifySteps
                        /\ work'[u] # "out" => u \in Active(cur) /\ u \notin fresh[cur]
    BY <1>1, <1>4, Conjuncts DEF Checking, VerifySteps, Looking
  <2>2. \A u \in Oids : work'[u] \in Looking => u = o
    BY <1>1, <1>4 DEF Looking
  <2> QED
    BY <1>1, <1>2, <2>1, <2>2, Conjuncts DEF Checking, Active, AllProcessed
<1> QED
  BY <1>5, <1>6, <1>7, <1>8, <1>9, <1>10, <1>11 DEF LedgerInv

\* A prefix seen empty is empty until somebody writes to it.
LEMMA LookAtInv ==
  ASSUME LedgerInv, NEW o \in Oids, NEW p \in Prefixes, NEW failed \in BOOLEAN, LookAt(o, p, failed)
  PROVE  LedgerInv'
<1>1. pc = "checking" /\ work[o] \in {"look_s", "look_e"}
  BY DEF LookAt
<1>2. /\ work'[o] = (IF p = "s" THEN "look_e" ELSE "report")
      /\ \A u \in Oids : u # o => work'[u] = work[u]
  BY Conjuncts DEF LookAt, TypeOK, CommandTypes
<1>3. UNCHANGED <<taskVars, memberVars, verifyVars, prog, pieces, pc, conn, cur, mode, history>>
  BY DEF LookAt
<1>4. TypeOK'
  BY TypeStep, Conjuncts DEF Next, VerifyObject
<1>5. /\ UnusedRows' /\ Membership' /\ Freshness' /\ Vouched' /\ OneCurrentTask'
      /\ ActiveInLatest' /\ DoneIsVerified' /\ NoDeadEnd' /\ ProcessedHere'
      /\ HoldStopsPurge' /\ ResidueIsOwed'
  <2>1. UNCHANGED <<nTasks, phase, holdReason, gen, purged, done, member, deferred,
                    vgen, vstat, prog, pieces, pc, cur, mode, fresh, processed,
                    rewritten>>
    BY DEF LookAt
  <2> QED
    BY <2>1, Frame
<1>6. Sighted'
  BY Conjuncts, CreatedTaskIds DEF Sighted, LookAt, Judge, TypeOK, ObjectTypes,
         CommandTypes, HistoryTypes
<1>7. Command'
  BY Conjuncts, CreatedTaskIds DEF Command, LookAt, Judge, TypeOK, TaskTypes,
         CommandTypes
<1>8. Purging'
  BY Conjuncts, CreatedTaskIds DEF Purging, Active, PurgeSteps, LookAt, Judge,
         TypeOK, ObjectTypes, CommandTypes, HistoryTypes
<1>9. Checking'
  <2>1. \A u \in Oids : /\ work'[u] \in VerifySteps
                        /\ work'[u] # "out" => u \in Active(cur) /\ u \notin fresh[cur]
    BY <1>1, <1>2, Conjuncts DEF Checking, VerifySteps, Looking
  <2>2. \A u \in Oids : work'[u] \in Looking => u = o
    BY <1>1, <1>2, Conjuncts DEF Checking, Looking
  <2> QED
    BY <1>1, <1>3, <2>1, <2>2, Conjuncts DEF Checking, Active, AllProcessed
<1> QED
  BY <1>4, <1>5, <1>6, <1>7, <1>8, <1>9 DEF LedgerInv

\* A PASS counts for the generation the command works in.
LEMMA RecordVerifyInv ==
  ASSUME LedgerInv, NEW o \in Oids, RecordVerify(o)
  PROVE  LedgerInv'
<1>1. /\ pc = "checking" /\ work[o] = "report"
      /\ work' = [work EXCEPT ![o] = "out"]
      /\ vgen' = [vgen EXCEPT ![cur][o] = gen[cur]]
      /\ vstat' = [vstat EXCEPT ![cur][o] = seen]
      /\ fresh' = [fresh EXCEPT ![cur] = IF seen = "PASS" THEN fresh[cur] \union {o} ELSE fresh[cur]]
      /\ UNCHANGED <<taskVars, memberVars, prog, pieces, pc, conn, cur, mode, processed, rewritten>>
  BY DEF RecordVerify
<1>2. /\ cur \in Created /\ cur \in TaskIds /\ ~done[cur]
      /\ o \in member[cur] /\ o \notin deferred[cur] /\ o \notin fresh[cur]
      /\ \A t \in Created : o \in Active(t) => t = cur
  BY <1>1, UnderCheck
<1>3. /\ vgen'[cur][o] = gen[cur] /\ vstat'[cur][o] = seen
      /\ \A t \in TaskIds, u \in Oids :
           t # cur \/ u # o => vgen'[t][u] = vgen[t][u] /\ vstat'[t][u] = vstat[t][u]
  BY <1>1, <1>2, Conjuncts DEF TypeOK, ObjectTypes
<1>4. \A t \in TaskIds, u \in Oids :
        u \in fresh'[t] <=> u \in fresh[t] \/ (t = cur /\ u = o /\ seen = "PASS")
  BY <1>1, <1>2, Conjuncts DEF TypeOK, HistoryTypes
<1>5. /\ work'[o] = "out"
      /\ \A u \in Oids : u # o => work'[u] = work[u] /\ work[u] \notin Looking
  BY <1>1, Conjuncts DEF Checking, Looking, TypeOK, CommandTypes
<1>6. TypeOK'
  BY TypeStep, Conjuncts DEF Next, VerifyObject
<1>7. /\ Membership' /\ OneCurrentTask' /\ ActiveInLatest' /\ NoDeadEnd'
      /\ ProcessedHere' /\ HoldStopsPurge'
  <2>1. UNCHANGED <<nTasks, holdReason, gen, purged, done, member, deferred, prog,
                    pc, cur, mode, processed>>
    BY DEF RecordVerify
  <2> QED
    BY <2>1, Frame
<1>8. UnusedRows'
  BY Conjuncts, CreatedTaskIds DEF UnusedRows, RecordVerify, TypeOK, TaskTypes,
         ObjectTypes, CommandTypes, HistoryTypes
<1>9. Freshness'
  <2> SUFFICES ASSUME NEW t \in TaskIds, NEW u \in Oids
               PROVE  /\ vgen'[t][u] <= gen[t]
                      /\ u \in fresh'[t] <=> vgen'[t][u] = gen[t] /\ vstat'[t][u] = "PASS"
    BY <1>1 DEF Freshness
  <2>1. CASE t = cur /\ u = o
    <3>1. gen[cur] \in Nat
      BY <1>2, Conjuncts, Generations
    <3>2. vgen'[t][u] = gen[cur] /\ vstat'[t][u] = seen
      BY <1>3, <2>1
    <3>3. u \in fresh'[t] <=> seen = "PASS"
      BY <1>2, <1>4, <2>1
    <3> QED
      BY <2>1, <3>1, <3>2, <3>3
  <2>2. CASE t # cur \/ u # o
    <3>1. vgen'[t][u] = vgen[t][u] /\ vstat'[t][u] = vstat[t][u]
      BY <1>3, <2>2
    <3>2. u \in fresh'[t] <=> u \in fresh[t]
      BY <1>4, <2>2
    <3> QED
      BY <3>1, <3>2, Conjuncts DEF Freshness
  <2> QED
    BY <2>1, <2>2
<1>10. Vouched'
  <2> SUFFICES ASSUME NEW t \in Created, NEW u \in Active(t), u \in fresh'[t],
                      NEW p \in Prefixes, <<u, p>> \in pieces
               PROVE  u \in rewritten
    BY <1>1 DEF Vouched, Active
  <2>1. u \in Oids /\ t \in TaskIds
    BY Conjuncts, CreatedTaskIds DEF Active, TypeOK, ObjectTypes
  <2>2. CASE u \in fresh[t]
    BY <2>2, Conjuncts DEF Vouched
  <2>3. CASE u = o /\ seen = "PASS"
    BY <1>1, <2>3, Conjuncts DEF Sighted
  <2> QED
    BY <1>4, <2>1, <2>2, <2>3
<1>11. Sighted'
  BY <1>5 DEF Sighted, Looking
<1>12. Command'
  BY Conjuncts, CreatedTaskIds DEF Command, RecordVerify, TypeOK, TaskTypes,
         ObjectTypes, CommandTypes, HistoryTypes
<1>13. Purging'
  BY Conjuncts, CreatedTaskIds DEF Purging, Active, PurgeSteps, RecordVerify,
         TypeOK, ObjectTypes, CommandTypes, HistoryTypes
<1>14. Checking'
  <2>1. \A u \in Oids : /\ work'[u] \in VerifySteps /\ work'[u] \notin Looking
                        /\ work'[u] # "out" => u \in Active(cur) /\ u \notin fresh'[cur]
    BY <1>1, <1>2, <1>4, <1>5, Conjuncts DEF Checking, VerifySteps, Looking
  <2> QED
    BY <1>1, <2>1, Conjuncts DEF Checking, Active, AllProcessed
<1>15. DoneIsVerified'
  BY Conjuncts, CreatedTaskIds DEF DoneIsVerified, Active, RecordVerify, TypeOK,
         TaskTypes, ObjectTypes, CommandTypes, HistoryTypes
<1>16. ResidueIsOwed'
  BY Conjuncts, CreatedTaskIds DEF ResidueIsOwed, Active, RecordVerify, TypeOK,
         ObjectTypes, CommandTypes, HistoryTypes
<1> QED
  BY <1>6, <1>7, <1>8, <1>9, <1>10, <1>11, <1>12, <1>13, <1>14, <1>15, <1>16
     DEF LedgerInv

\* done_at is set when every active member has passed in the current
\* generation.
LEMMA CompleteVerifyInv ==
  ASSUME LedgerInv, CompleteVerify
  PROVE  LedgerInv'
<1>1. /\ pc = "checking" /\ AllProcessed(cur) /\ VerifyPending(cur, gen[cur]) = {}
      /\ done' = [done EXCEPT ![cur] = TRUE]
      /\ UNCHANGED <<nTasks, phase, holdReason, holdOid, gen, purged, execConn, memberVars,
                     verifyVars, prog, pieces, history>>
  BY DEF CompleteVerify
<1>2. cur \in Created /\ cur \in TaskIds
  BY <1>1, WorkingOn
<1>3. \A t \in TaskIds : done'[t] => done[t] \/ t = cur
  BY <1>1, <1>2, Conjuncts DEF TypeOK, TaskTypes
<1>4. TypeOK'
  BY TypeStep, Conjuncts DEF Next
<1>5. Membership' /\ Freshness' /\ Vouched' /\ ActiveInLatest' /\ ProcessedHere'
  <2>1. UNCHANGED <<nTasks, gen, member, deferred, vgen, vstat, prog, pieces,
                    fresh, processed, rewritten>>
    BY DEF CompleteVerify
  <2> QED
    BY <2>1, Frame
<1>6. /\ Command' /\ Purging' /\ Checking' /\ HoldStopsPurge' /\ ResidueIsOwed'
      /\ Sighted'
  BY Released DEF CompleteVerify
<1>7. UnusedRows'
  BY Conjuncts, CreatedTaskIds DEF UnusedRows, CompleteVerify, TypeOK, TaskTypes,
         ObjectTypes, HistoryTypes
<1>8. OneCurrentTask'
  BY Conjuncts, CreatedTaskIds DEF OneCurrentTask, Unfinished, CompleteVerify,
         TypeOK, TaskTypes
<1>9. DoneIsVerified'
  <2>1. Active(cur) \subseteq fresh[cur]
    BY <1>1, <1>2, Conjuncts DEF VerifyPending, Freshness, Active, TypeOK,
           ObjectTypes
  <2> QED
    BY <1>1, <1>3, <2>1, Conjuncts, CreatedTaskIds DEF DoneIsVerified, Active
<1>10. NoDeadEnd'
  <2>1. /\ purged[cur] /\ holdReason[cur] = "none"
        /\ \A u \in Active(cur) : prog[u] = 1
    BY <1>1, Conjuncts DEF Checking, AllProcessed
  <2> QED
    BY <1>1, <1>3, <2>1, Conjuncts, CreatedTaskIds DEF NoDeadEnd, Active
<1> QED
  BY <1>4, <1>5, <1>6, <1>7, <1>8, <1>9, <1>10 DEF LedgerInv

\* A deferred member stays a member; the active ones only shrink.
LEMMA DeferObjectInv ==
  ASSUME LedgerInv, NEW id \in Ids, NEW o \in Oids, DeferObject(id, o)
  PROVE  LedgerInv'
<1>1. PICK t \in ResolveAdmin(id) :
        /\ ~done[t] /\ o \in Active(t)
        /\ deferred' = [deferred EXCEPT ![t] = deferred[t] \union {o}]
        /\ holdReason' = [holdReason EXCEPT ![t] = "none"]
        /\ cur' = t
  BY DEF DeferObject
<1>2. /\ pc = "open" /\ pc' = "deferred"
      /\ UNCHANGED <<nTasks, phase, gen, purged, done, execConn, member, verifyVars, prog,
                     pieces, history, conn, mode, work, seen>>
  BY DEF DeferObject
<1>3. t \in Created /\ t \in TaskIds
  BY <1>1, ResolvedCreated, Conjuncts, CreatedTaskIds
<1>4. /\ \A u \in TaskIds : u # t => /\ deferred'[u] = deferred[u]
                                     /\ holdReason'[u] = holdReason[u]
      /\ deferred'[t] = deferred[t] \union {o} /\ holdReason'[t] = "none"
  BY <1>1, <1>3, Conjuncts DEF TypeOK, TaskTypes, ObjectTypes
<1>5. \A u \in Created : Active(u)' \subseteq Active(u)
  BY <1>2, <1>3, <1>4, Conjuncts, CreatedTaskIds DEF Active
<1>6. TypeOK'
  BY TypeStep, Conjuncts DEF Next
<1>7. Freshness' /\ Sighted' /\ OneCurrentTask'
  <2>1. UNCHANGED <<nTasks, gen, purged, done, vgen, vstat, pieces, work, seen,
                    fresh, rewritten>>
    BY DEF DeferObject
  <2> QED
    BY <2>1, Frame
<1>8. UnusedRows'
  BY <1>2, <1>3, <1>4, Conjuncts DEF UnusedRows
<1>9. Membership'
  <2>1. \A u \in TaskIds : deferred'[u] \subseteq member[u]
    BY <1>1, <1>3, <1>4, Conjuncts DEF Membership, Active
  <2> QED
    BY <1>2, <2>1, Conjuncts DEF Membership, Assigned
<1>10. Vouched'
  BY <1>2, <1>5, Conjuncts DEF Vouched
<1>11. Command'
  <2>1. /\ cur = 0 /\ conn # 0 /\ mode = "run" /\ \A u \in TaskIds : execConn[u] = 0
        /\ \A u \in Oids : work[u] = "out"
    BY <1>2, Conjuncts DEF Command
  <2> QED
    BY <1>1, <1>2, <1>3, <2>1 DEF Command
<1>12. Purging'
  BY <1>2 DEF Purging
<1>13. Checking'
  BY <1>2 DEF Checking
<1>14. ActiveInLatest'
  <2>1. \A u \in Created : deferred[u] \subseteq deferred'[u]
    BY <1>3, <1>4, Conjuncts, CreatedTaskIds
  <2> QED
    BY <1>2, <2>1, Conjuncts DEF ActiveInLatest
<1>15. DoneIsVerified'
  BY <1>2, <1>5, Conjuncts DEF DoneIsVerified
<1>16. NoDeadEnd'
  BY <1>2, <1>3, <1>4, <1>5, Conjuncts, CreatedTaskIds DEF NoDeadEnd
<1>17. ProcessedHere'
  BY <1>2, <1>5, Conjuncts DEF ProcessedHere
<1>18. HoldStopsPurge'
  BY <1>2 DEF HoldStopsPurge
<1>19. ResidueIsOwed'
  BY <1>2 DEF ResidueIsOwed
<1> QED
  BY <1>6, <1>7, <1>8, <1>9, <1>10, <1>11, <1>12, <1>13, <1>14, <1>15, <1>16, <1>17,
     <1>18, <1>19 DEF LedgerInv

\* Deferring the last unprocessed object may complete the deletion.
LEMMA CompleteDeferInv ==
  ASSUME LedgerInv, CompleteDefer
  PROVE  LedgerInv'
<1>1. TypeOK'
  BY TypeStep, Conjuncts DEF Next
<1>2. /\ Membership' /\ Freshness' /\ Vouched' /\ ActiveInLatest' /\ DoneIsVerified'
      /\ ProcessedHere'
  <2>1. UNCHANGED <<nTasks, gen, done, member, deferred, vgen, vstat, prog, pieces,
                    fresh, processed, rewritten>>
    BY DEF CompleteDefer
  <2> QED
    BY <2>1, Frame
<1>3. /\ Command' /\ Purging' /\ Checking' /\ HoldStopsPurge' /\ ResidueIsOwed'
      /\ Sighted'
  BY Released DEF CompleteDefer
<1>4. UnusedRows'
  <2>1. cur \in Created
    BY WorkingOn DEF CompleteDefer
  <2>2. \A t \in TaskIds \ Created : purged'[t] = purged[t] /\ phase'[t] = phase[t]
    BY <2>1, Conjuncts DEF CompleteDefer, MarkPurged, TypeOK, TaskTypes
  <2> QED
    BY <2>2, Conjuncts DEF UnusedRows, CompleteDefer
<1>5. OneCurrentTask'
  BY Conjuncts, CreatedTaskIds DEF OneCurrentTask, Unfinished, CompleteDefer,
         MarkPurged, TypeOK, TaskTypes
<1>6. NoDeadEnd'
  BY Conjuncts, CreatedTaskIds DEF NoDeadEnd, Active, CompleteDefer, MarkPurged,
         TypeOK, TaskTypes, ObjectTypes
<1> QED
  BY <1>1, <1>2, <1>3, <1>4, <1>5, <1>6 DEF LedgerInv

\* Lifting a hold changes nothing else.
LEMMA ResumeSafetyInv ==
  ASSUME LedgerInv, NEW id \in Ids, ResumeSafety(id)
  PROVE  LedgerInv'
<1>1. TypeOK'
  BY TypeStep, Conjuncts DEF Next
<1>2. /\ Membership' /\ Freshness' /\ Vouched' /\ OneCurrentTask' /\ ActiveInLatest'
      /\ DoneIsVerified' /\ ProcessedHere'
  <2>1. UNCHANGED <<nTasks, gen, purged, done, member, deferred, vgen, vstat, prog,
                    pieces, fresh, processed, rewritten>>
    BY DEF ResumeSafety
  <2> QED
    BY <2>1, Frame
<1>3. /\ Command' /\ Purging' /\ Checking' /\ HoldStopsPurge' /\ ResidueIsOwed'
      /\ Sighted'
  BY Released DEF ResumeSafety
<1>4. UnusedRows'
  BY Conjuncts, CreatedTaskIds DEF UnusedRows, ResumeSafety, TypeOK, TaskTypes,
         ObjectTypes, HistoryTypes
<1>5. NoDeadEnd'
  BY Conjuncts, CreatedTaskIds DEF NoDeadEnd, Active, ResumeSafety, TypeOK,
         TaskTypes, ObjectTypes
<1> QED
  BY <1>1, <1>2, <1>3, <1>4, <1>5 DEF LedgerInv

\* A write back is remembered until the next check of its object.
LEMMA WriteBackInv ==
  ASSUME LedgerInv, NEW o \in Rewritable, NEW p \in Prefixes, WriteBack(o, p)
  PROVE  LedgerInv'
<1>1. TypeOK'
  BY TypeStep, Conjuncts DEF Next
<1>2. /\ UnusedRows' /\ Membership' /\ Freshness' /\ Command' /\ Purging'
      /\ Checking' /\ OneCurrentTask' /\ ActiveInLatest' /\ DoneIsVerified'
      /\ NoDeadEnd' /\ ProcessedHere' /\ HoldStopsPurge' /\ ResidueIsOwed'
  <2>1. UNCHANGED <<nTasks, phase, holdReason, gen, purged, done, execConn, member,
                    deferred, vgen, vstat, prog, pc, conn, cur, mode, work, fresh,
                    processed>>
    BY DEF WriteBack
  <2> QED
    BY <2>1, Frame
<1>3. Vouched'
  BY Conjuncts, CreatedTaskIds DEF Vouched, Active, WriteBack, TypeOK, TaskTypes,
         ObjectTypes, HistoryTypes
<1>4. Sighted'
  BY Conjuncts, CreatedTaskIds DEF Sighted, WriteBack, TypeOK, ObjectTypes,
         CommandTypes, HistoryTypes
<1> QED
  BY <1>1, <1>2, <1>3, <1>4 DEF LedgerInv

\* The ledger starts empty and idle.
LEMMA InitInv == Init => LedgerInv
<1> SUFFICES ASSUME Init PROVE LedgerInv
  OBVIOUS
<1>1. TypeOK
  BY InitType
<1>2. Created = {} /\ \A t \in TaskIds : t \notin Created
  BY DEF Init
<1>3. UnusedRows /\ Membership /\ Freshness
  BY DEF Init, UnusedRows, Membership, Freshness, Assigned
<1>4. /\ Vouched /\ OneCurrentTask /\ ActiveInLatest /\ DoneIsVerified /\ NoDeadEnd
      /\ ProcessedHere
  BY <1>2 DEF Vouched, OneCurrentTask, Unfinished, ActiveInLatest, DoneIsVerified,
         NoDeadEnd,
              ProcessedHere
<1>5. Sighted /\ Command /\ Purging /\ Checking /\ HoldStopsPurge /\ ResidueIsOwed
  BY DEF Init, Sighted, Command, Purging, Checking, HoldStopsPurge, ResidueIsOwed
<1> QED
  BY <1>1, <1>3, <1>4, <1>5 DEF LedgerInv

\* Every step of every command, a crash at any point and every foreign write
\* preserve the invariant.
LEMMA InvStep == LedgerInv /\ [Next]_vars => LedgerInv'
<1> SUFFICES ASSUME LedgerInv, [Next]_vars PROVE LedgerInv'
  OBVIOUS
<1>1. CASE UNCHANGED vars
  <2>1. TypeOK'
    BY <1>1, TypeStep, Conjuncts
  <2>2. UnusedRows' /\ Membership' /\ Freshness' /\ Vouched' /\ Sighted' /\ Command'
    BY <1>1, Conjuncts DEF UnusedRows, Membership, Assigned, Freshness, Vouched,
           Active, Sighted,
                           Command
  <2>3. /\ Purging' /\ Checking' /\ OneCurrentTask' /\ ActiveInLatest'
        /\ DoneIsVerified'
        /\ NoDeadEnd' /\ ProcessedHere' /\ HoldStopsPurge' /\ ResidueIsOwed'
    BY <1>1, Conjuncts DEF Purging, Checking, AllProcessed, OneCurrentTask,
           Unfinished,
                           ActiveInLatest, DoneIsVerified, NoDeadEnd, ProcessedHere,
                           HoldStopsPurge, AnyHold, ResidueIsOwed, Active
  <2> QED
    BY <2>1, <2>2, <2>3 DEF LedgerInv
<1>2. ASSUME NEW o \in Oids, PurgeObject(o) PROVE LedgerInv'
  BY <1>2, StartObjectInv, ClearPrefixInv, RecheckInv, RecordDoneInv, RecordFailInv,
     UnrecordedInv, HaltOnInv, RecordUnsafeInv DEF PurgeObject
<1>3. ASSUME NEW o \in Oids, VerifyObject(o) PROVE LedgerInv'
  BY <1>3, CheckObjectInv, LookAtInv, RecordVerifyInv DEF VerifyObject
<1> QED
  BY <1>1, <1>2, <1>3, AcquireInv, EnsureSchemaInv, ExitInv, CreateSubtaskInv,
     PurgeRefusedInv,
     BeginPurgeInv, InterruptInv, CompletePurgeInv, VerifyRefusedInv, BeginVerifyInv,
     CompleteVerifyInv, DeferObjectInv, CompleteDeferInv, ResumeSafetyInv, WriteBackInv DEF Next

\* The inductive invariant holds in every reachable state.
THEOREM LedgerCorrect == Spec => []LedgerInv
  BY InitInv, InvStep, PTL DEF Spec

\* Allocation: at most one task is unfinished and no object is active in two,
\* whatever mixture of create, retry, defer and crash led to the state.
THEOREM AllocationSafe == Spec => [](OneCurrentTask /\ ActiveInLatest)
<1>1. LedgerInv => OneCurrentTask /\ ActiveInLatest
  BY DEF LedgerInv
<1> QED
  BY <1>1, LedgerCorrect, PTL

\* Verification: a task marked done had every active object pass since its last
\* deletion run and its last --restart.
THEOREM VerificationSafe == Spec => []DoneIsVerified
<1>1. LedgerInv => DoneIsVerified
  BY DEF LedgerInv
<1> QED
  BY <1>1, LedgerCorrect, PTL

\* Recoverability: a task marked done can always be verified again.
THEOREM DoneRecoverable == Spec => []NoDeadEnd
<1>1. LedgerInv => NoDeadEnd
  BY DEF LedgerInv
<1> QED
  BY <1>1, LedgerCorrect, PTL

\* Deletion: no purge runs beside a SAFETY_HOLD except the cancelled run that
\* wrote it.
THEOREM DeletionSafe == Spec => []HoldStopsPurge
<1>1. LedgerInv => HoldStopsPurge
  BY DEF LedgerInv
<1> QED
  BY <1>1, LedgerCorrect, PTL

\* Credit: no task counts an object processed that it did not clear itself, also
\* when an earlier task has left a DONE row, and residue that verify found is owed
\* until the object is cleared again.
THEOREM CreditIsOwn == Spec => [](ProcessedHere /\ ResidueIsOwed)
<1>1. LedgerInv => ProcessedHere /\ ResidueIsOwed
  BY DEF LedgerInv
<1> QED
  BY <1>1, LedgerCorrect, PTL

\* execution_connection is set beside no other mark: purge and verify begin after
\* EnsureSchema, in the same command, has wiped those of dead commands.
LEMMA MarkStep == ASSUME LedgerInv, OneMark, [Next]_vars PROVE OneMark'
<1> SUFFICES ASSUME NEW t \in TaskIds, NEW u \in TaskIds, execConn'[t] # 0, execConn'[u] # 0
             PROVE  t = u
  BY DEF OneMark
<1> USE DEF OneMark
<1>1. TypeOK
  BY Conjuncts
<1>2. CASE EnsureSchema
  BY <1>2 DEF EnsureSchema
<1>3. ASSUME NEW s, execConn' = [execConn EXCEPT ![s] = conn], pc = "open"
      PROVE  t = u
  <2>1. execConn[t] = 0 /\ execConn[u] = 0
    BY <1>3, Conjuncts DEF Command
  <2> QED
    BY <1>1, <1>3, <2>1 DEF TypeOK, TaskTypes
<1>4. CASE \E id \in Ids : BeginPurge(id)
  BY <1>3, <1>4 DEF BeginPurge
<1>5. CASE \E id \in Ids, restart \in BOOLEAN : BeginVerify(id, restart)
  BY <1>3, <1>5 DEF BeginVerify
<1>6. CASE UNCHANGED execConn
  BY <1>6
<1> QED
  BY <1>2, <1>4, <1>5, <1>6
     DEF Next, vars, taskVars, Acquire, Exit, CreateSubtask, PurgeRefused, PurgeObject, StartObject,
         ClearPrefix, Recheck, RecordDone, RecordFail, Unrecorded, HaltOn, RecordUnsafe,
         Interrupt, CompletePurge, VerifyRefused, VerifyObject, CheckObject, LookAt,
         RecordVerify, CompleteVerify, DeferObject, CompleteDefer, ResumeSafety, WriteBack

\* status attributes the execution lock to one task at most, and to the one in work,
\* except between a command's GET_LOCK and the UPDATE that wipes a dead command's mark.
THEOREM AttributionSound == Spec => []RunningIsTrue
<1>1. Init => OneMark
  BY DEF Init, OneMark
<1>2. LedgerInv /\ OneMark /\ [Next]_vars => OneMark'
  BY MarkStep
<1>3. ASSUME LedgerInv, OneMark PROVE RunningIsTrue
  <2>1. /\ TypeOK /\ Created \subseteq TaskIds
        /\ (pc = "idle") <=> (conn = 0)
        /\ pc \notin {"idle", "locked"} =>
             \A t \in TaskIds : execConn[t] # 0 => t = cur /\ pc \in {"purging", "checking"}
    BY <1>3, Conjuncts, CreatedTaskIds DEF Command
  <2> QED
    BY <1>3, <2>1 DEF RunningIsTrue, LockedBy, OneMark
<1> QED
  BY <1>1, <1>2, <1>3, LedgerCorrect, PTL DEF Spec

\* ALL_DONE is honest: whatever piece is left was written after the last check
\* of its object had begun.
THEOREM AllDoneHonest == Spec => []AllDoneSound
<1>1. LedgerInv => AllDoneSound
  <2> SUFFICES ASSUME LedgerInv, AllDone, NEW x \in pieces PROVE x[1] \in rewritten
    BY DEF AllDoneSound
  <2> DEFINE o == x[1]
  <2>1. o \in Oids /\ x[2] \in Prefixes /\ x = <<o, x[2]>>
    BY Conjuncts DEF TypeOK, ObjectTypes
  <2> HIDE DEF o
  <2>2. o \in Assigned
    BY <2>1 DEF AllDone
  <2>3. PICK t \in Created :
          /\ o \in member[t]
          /\ \A u \in Created : u > t => o \notin member[u]
    BY <2>2, Conjuncts DEF Membership
  <2>4. o \notin deferred[t]
    BY <2>3 DEF AllDone, DeferredPool, DeferredIn
  <2>5. o \in Active(t) /\ o \in fresh[t]
    BY <2>3, <2>4, Conjuncts DEF AllDone, DoneIsVerified, Active
  <2>6. o \in rewritten
    BY <2>1, <2>5, Conjuncts DEF Vouched
  <2> QED
    BY <2>6 DEF o
<1> QED
  BY <1>1, LedgerCorrect, PTL

\* Most steps leave these columns alone.
LEMMA GrowsUnchanged ==
  ASSUME LedgerInv, NEW t \in Created,
         UNCHANGED <<member, deferred, purged, gen, done>>
  PROVE  Grows(t)
  BY Conjuncts, CreatedTaskIds DEF Grows, TypeOK, TaskTypes

\* No step of any command takes back a membership, a deferral, the deletion
\* milestone or a generation, nor a done_at without opening a new generation.
LEMMA GrowStep ==
  ASSUME LedgerInv, [Next]_vars, NEW t \in Created
  PROVE  Grows(t)
<1>0. t \in TaskIds /\ gen[t] \in Nat /\ nTasks \in Nat
  BY Conjuncts, CreatedTaskIds DEF TypeOK, TaskTypes
<1>1. CASE UNCHANGED vars
  BY <1>1, GrowsUnchanged
<1>2. ASSUME NEW c \in Conns, Acquire(c) PROVE Grows(t)
  BY <1>2, GrowsUnchanged DEF Acquire
<1>3. CASE EnsureSchema
  <2>1. purged[t] => purged'[t]
    BY <1>0, <1>3 DEF EnsureSchema
  <2>2. UNCHANGED <<member, deferred, gen, done>>
    BY <1>3 DEF EnsureSchema
  <2> QED
    BY <1>0, <2>1, <2>2 DEF Grows
<1>4. CASE Exit
  BY <1>4, GrowsUnchanged DEF Exit
<1>5. ASSUME NEW retryDeferred \in BOOLEAN, CreateSubtask(retryDeferred) PROVE Grows(t)
  <2>1. PICK S \in SelectCapacity(IF retryDeferred THEN RetryCandidates ELSE Oids \ Assigned) :
          member' = [member EXCEPT ![nTasks + 1] = S]
    BY <1>5 DEF CreateSubtask
  <2>2. member'[t] = member[t]
    BY <1>0, <2>1, Conjuncts DEF TypeOK, ObjectTypes
  <2>3. UNCHANGED <<deferred, purged, gen, done>>
    BY <1>5 DEF CreateSubtask
  <2> QED
    BY <1>0, <2>2, <2>3 DEF Grows
<1>6. ASSUME NEW id \in Ids, NEW reason \in Refusals,
             PurgeRefused(id, reason) \/ VerifyRefused(id, reason)
      PROVE  Grows(t)
  BY <1>6, GrowsUnchanged DEF PurgeRefused, VerifyRefused
<1>7. ASSUME NEW id \in Ids, BeginPurge(id) PROVE Grows(t)
  <2>1. PICK u \in ResolvePurge(id) : gen' = [gen EXCEPT ![u] = gen[u] + 1]
    BY <1>7 DEF BeginPurge, NextGen
  <2>2. gen[t] <= gen'[t]
    BY <1>0, <2>1, Conjuncts DEF TypeOK, TaskTypes
  <2>3. UNCHANGED <<member, deferred, purged, done>>
    BY <1>7 DEF BeginPurge
  <2> QED
    BY <2>2, <2>3 DEF Grows
<1>8. ASSUME NEW o \in Oids, PurgeObject(o) PROVE Grows(t)
  <2>1. UNCHANGED <<member, deferred, purged, gen, done>>
    BY <1>8 DEF PurgeObject, StartObject, ClearPrefix, Recheck, RecordDone,
           RecordFail,
                Unrecorded, HaltOn, RecordUnsafe
  <2> QED
    BY <2>1, GrowsUnchanged
<1>9. ASSUME NEW m \in Modes, Interrupt(m) PROVE Grows(t)
  BY <1>9, GrowsUnchanged DEF Interrupt
<1>10. CASE CompletePurge \/ CompleteDefer
  <2>1. purged[t] => purged'[t]
    BY <1>0, <1>10, Conjuncts DEF CompletePurge, CompleteDefer, MarkPurged, TypeOK,
           TaskTypes
  <2>2. UNCHANGED <<member, deferred, gen, done>>
    BY <1>10 DEF CompletePurge, CompleteDefer
  <2> QED
    BY <1>0, <2>1, <2>2 DEF Grows
<1>11. ASSUME NEW id \in Ids, NEW restart \in BOOLEAN, BeginVerify(id, restart) PROVE Grows(t)
  <2>1. PICK u \in ResolveVerify(id) :
          /\ done[u] => restart
          /\ gen' = [gen EXCEPT ![u] = NextGen(u, restart)]
          /\ done' = [done EXCEPT ![u] = FALSE]
          /\ purged' = [purged EXCEPT ![u] = TRUE]
    BY <1>11 DEF BeginVerify
  <2>2. UNCHANGED <<member, deferred>>
    BY <1>11 DEF BeginVerify
  <2>3. CASE t = u
    BY <1>0, <2>1, <2>2, <2>3, Conjuncts DEF NextGen, Grows, TypeOK, TaskTypes
  <2>4. CASE t # u
    BY <1>0, <2>1, <2>2, <2>4, Conjuncts DEF Grows, TypeOK, TaskTypes
  <2> QED
    BY <2>3, <2>4
<1>12. ASSUME NEW o \in Oids, VerifyObject(o) PROVE Grows(t)
  <2>1. UNCHANGED <<member, deferred, purged, gen, done>>
    BY <1>12 DEF VerifyObject, CheckObject, LookAt, RecordVerify
  <2> QED
    BY <2>1, GrowsUnchanged
<1>13. CASE CompleteVerify
  BY <1>0, <1>13, Conjuncts DEF CompleteVerify, Grows, TypeOK, TaskTypes
<1>14. ASSUME NEW id \in Ids, NEW o \in Oids, DeferObject(id, o) PROVE Grows(t)
  <2>1. PICK u \in ResolveAdmin(id) : deferred' = [deferred EXCEPT ![u] = deferred[u] \union {o}]
    BY <1>14 DEF DeferObject
  <2>2. deferred[t] \subseteq deferred'[t]
    BY <1>0, <2>1, Conjuncts DEF TypeOK, ObjectTypes
  <2>3. UNCHANGED <<member, purged, gen, done>>
    BY <1>14 DEF DeferObject
  <2> QED
    BY <1>0, <2>2, <2>3 DEF Grows
<1>15. ASSUME NEW id \in Ids, ResumeSafety(id) PROVE Grows(t)
  BY <1>15, GrowsUnchanged DEF ResumeSafety
<1>16. ASSUME NEW o \in Rewritable, NEW p \in Prefixes, WriteBack(o, p) PROVE Grows(t)
  BY <1>16, GrowsUnchanged DEF WriteBack
<1> QED
  BY <1>1, <1>2, <1>3, <1>4, <1>5, <1>6, <1>7, <1>8, <1>9, <1>10, <1>11, <1>12,
     <1>13, <1>14,
     <1>15, <1>16 DEF Next

\* What the ledger has recorded, no command undoes.
THEOREM LedgerMonotone == Spec => LedgerOnlyGrows
<1>1. LedgerInv /\ [Next]_vars => [\A t \in Created : Grows(t)]_vars
  BY GrowStep
<1> QED
  BY <1>1, LedgerCorrect, PTL DEF Spec, LedgerOnlyGrows, Grows

-----------------------------------------------------------------------------
(* The status command beside the others.                                   *)

USE DEF statusVars

\* What the reads of status have left open.  While it runs, held remembers every
\* moment at which all was done; and what kept the moment of ReadTasks from being
\* one of them, an object without a task or in the deferred pool, no command but
\* task create takes away.
StatusInv ==
  /\ st \notin {"off", "printed"} /\ Finished => held
  /\ st = "tasks" /\ ~made => held \/ Oids # Assigned \/ DeferredPool # {}
  /\ st = "unassigned" /\ ~made => held \/ DeferredPool # {}
  /\ OnlyCreateFools

\* task create is the one command that adds a row to purge_tasks.
LEMMA TasksAdded == [Next]_vars /\ nTasks \in Nat => nTasks' = nTasks \/ nTasks' > nTasks
<1> SUFFICES ASSUME [Next]_vars, nTasks \in Nat
             PROVE  nTasks' = nTasks \/ nTasks' > nTasks
  OBVIOUS
<1>1. ASSUME NEW retryDeferred \in BOOLEAN, CreateSubtask(retryDeferred)
      PROVE  nTasks' > nTasks
  BY <1>1 DEF CreateSubtask
<1>2. ASSUME NEW o \in Oids, PurgeObject(o) PROVE nTasks' = nTasks
  BY <1>2 DEF PurgeObject, StartObject, ClearPrefix, Recheck, RecordDone, RecordFail,
              Unrecorded, HaltOn, RecordUnsafe
<1>3. ASSUME NEW o \in Oids, VerifyObject(o) PROVE nTasks' = nTasks
  BY <1>3 DEF VerifyObject, CheckObject, LookAt, RecordVerify
<1>4. \/ \E c \in Conns : Acquire(c)
      \/ EnsureSchema \/ Exit \/ CompletePurge \/ CompleteVerify \/ CompleteDefer
      \/ \E m \in Modes : Interrupt(m)
      \/ \E id \in Ids : BeginPurge(id) \/ ResumeSafety(id)
      => nTasks' = nTasks
  BY DEF Acquire, EnsureSchema, Exit, CompletePurge, CompleteVerify, CompleteDefer,
         Interrupt, BeginPurge, ResumeSafety
<1>5. \/ \E id \in Ids, reason \in Refusals : PurgeRefused(id, reason) \/ VerifyRefused(id, reason)
      \/ \E id \in Ids, restart \in BOOLEAN : BeginVerify(id, restart)
      \/ \E id \in Ids, o \in Oids : DeferObject(id, o)
      \/ \E o \in Rewritable, p \in Prefixes : WriteBack(o, p)
      => nTasks' = nTasks
  BY DEF PurgeRefused, VerifyRefused, BeginVerify, DeferObject, WriteBack
<1> QED
  BY <1>1, <1>2, <1>3, <1>4, <1>5 DEF Next

\* Without a new task nothing is assigned and nothing leaves the deferred pool.
LEMMA StillOpen ==
  ASSUME LedgerInv, [Next]_vars, nTasks' = nTasks
  PROVE  /\ Oids # Assigned => Oids # Assigned'
         /\ DeferredPool # {} => DeferredPool' # {}
<1>1. \A t \in Created : member'[t] = member[t] /\ deferred[t] \subseteq deferred'[t]
  BY GrowStep DEF Grows
<1>2. Assigned' = Assigned
  BY <1>1 DEF Assigned
<1>3. \A t \in Created : DeferredIn(t) \subseteq DeferredIn(t)'
  BY <1>1 DEF DeferredIn
<1> QED
  BY <1>2, <1>3 DEF DeferredPool

\* A step of a command, seen by a status that runs.
LEMMA BesideStatus == ASSUME LedgerInv, StatusInv, Beside PROVE StatusInv'
<1>1. Next /\ st' = st /\ (made => made') /\ (held => held')
  BY DEF Beside
<1>2. CASE st \in {"tasks", "unassigned"}
  <2>1. ~made' => ~made /\ nTasks' = nTasks
    <3>1. nTasks' = nTasks \/ nTasks' > nTasks
      BY <1>1, TasksAdded, Conjuncts DEF TypeOK, TaskTypes
    <3> QED
      BY <1>2, <3>1 DEF Beside
  <2>2. ~made' => /\ Oids # Assigned => Oids # Assigned'
                  /\ DeferredPool # {} => DeferredPool' # {}
    BY <1>1, <2>1, StillOpen
  <2>3. Finished' => held'
    BY <1>2 DEF Beside
  <2> QED
    BY <1>1, <1>2, <2>1, <2>2, <2>3 DEF StatusInv, OnlyCreateFools
<1>3. CASE st \notin {"tasks", "unassigned"}
  BY <1>1, <1>3 DEF StatusInv, OnlyCreateFools, Beside
<1> QED
  BY <1>2, <1>3

\* A read of status, or its end.
LEMMA ReadStatus == ASSUME StatusInv, StatusStep PROVE StatusInv'
<1>1. Finished' = Finished /\ Assigned' = Assigned /\ DeferredPool' = DeferredPool
  BY DEF StatusStep, Finished, Assigned, DeferredPool, DeferredIn
<1>2. CASE ReadOwner
  BY <1>1, <1>2 DEF ReadOwner, StatusInv, OnlyCreateFools
<1>3. CASE ReadTasks
  BY <1>1, <1>3 DEF ReadTasks, StatusInv, OnlyCreateFools, Finished
<1>4. CASE ReadUnassigned
  BY <1>1, <1>4 DEF ReadUnassigned, StatusInv, OnlyCreateFools
<1>5. CASE ReadDeferred
  BY <1>1, <1>5 DEF ReadDeferred, StatusInv, OnlyCreateFools
<1>6. CASE Quit
  BY <1>1, <1>6 DEF Quit, StatusInv, OnlyCreateFools
<1> QED
  BY <1>2, <1>3, <1>4, <1>5, <1>6 DEF StatusStep

\* ALL_DONE, which status puts together from reads at four moments without a lock or
\* a transaction, was true at one of them or between them, unless a task was created
\* meanwhile: no purge, verify --restart, deferral or crash beside it fools it.
THEOREM StatusSafe == StatusSpec => []OnlyCreateFools
<1>1. StatusInit => LedgerInv /\ StatusInv
  BY InitInv DEF StatusInit, StatusInv, OnlyCreateFools
<1>2. ASSUME LedgerInv, StatusInv, [Beside \/ StatusStep]_<<vars, statusVars>>
      PROVE  LedgerInv' /\ StatusInv'
  <2>1. CASE Beside
    BY <1>2, <2>1, InvStep, BesideStatus DEF Beside
  <2>2. CASE StatusStep
    BY <1>2, <2>2, InvStep, ReadStatus DEF StatusStep
  <2>3. CASE UNCHANGED <<vars, statusVars>>
    <3>1. LedgerInv'
      BY <1>2, <2>3, InvStep
    <3>2. Finished' = Finished /\ Assigned' = Assigned /\ DeferredPool' = DeferredPool
      BY <2>3 DEF Finished, Assigned, DeferredPool, DeferredIn
    <3> QED
      BY <1>2, <2>3, <3>1, <3>2 DEF StatusInv, OnlyCreateFools
  <2> QED
    BY <1>2, <2>1, <2>2, <2>3
<1>3. StatusInv => OnlyCreateFools
  BY DEF StatusInv
<1> QED
  BY <1>1, <1>2, <1>3, PTL DEF StatusSpec

\* status only reads: a behaviour with it is one of the commands, and what is proved
\* of the ledger holds beside it.
THEOREM StatusIsLedger == StatusSpec => Spec
<1>1. StatusInit => Init
  BY DEF StatusInit
<1>2. [Beside \/ StatusStep]_<<vars, statusVars>> => [Next]_vars
  BY DEF Beside, StatusStep
<1> QED
  BY <1>1, <1>2, PTL DEF StatusSpec, Spec

-----------------------------------------------------------------------------
(* Subtasks implements Custody: initial states map to initial states and   *)
(* every step of a command to a step of Custody or to none.  The invariant *)
(* says why: generations, phases and the command's state always agree with *)
(* who answers for what.                                                   *)

\* What the tasks answer for.
Duty == [t \in TaskIds |-> Active(t)]

\* Verified reads off the tables what the history variable fresh remembers.
LEMMA VerifiedIsFresh ==
  ASSUME LedgerInv, NEW t \in TaskIds
  PROVE  Verified(t) = Active(t) \intersect fresh[t]
  BY Conjuncts DEF Freshness, Verified, Active, TypeOK, ObjectTypes

\* No verdict is of a generation to come.
LEMMA NextGenerationIsNew ==
  ASSUME LedgerInv, NEW t \in TaskIds
  PROVE  \A o \in Active(t) : o \in Oids /\ vgen[t][o] # gen[t] + 1
<1>1. \A o \in Oids : vgen[t][o] # gen[t] + 1
  <2> SUFFICES ASSUME NEW o \in Oids PROVE vgen[t][o] # gen[t] + 1
    OBVIOUS
  <2>1. vgen[t][o] <= gen[t]
    BY Conjuncts DEF Freshness
  <2>2. gen[t] \in Nat /\ vgen[t][o] \in Nat
    BY Generations, Conjuncts
  <2> QED
    BY <2>1, <2>2
<1>2. Active(t) \subseteq Oids
  BY Conjuncts DEF Active, TypeOK, ObjectTypes
<1> QED
  BY <1>1, <1>2

\* A step that touches none of these columns is no step of Custody.
LEMMA Stutters ==
  UNCHANGED <<gen, done, member, deferred, vgen, vstat, pieces>> => UNCHANGED C!vars
  BY DEF C!vars, Active, Verified

\* The steps that only move the command, its milestones or its holds.
LEMMA QuietSteps ==
  ASSUME \/ \E c \in Conns : Acquire(c)
         \/ EnsureSchema \/ Exit \/ CompletePurge \/ CompleteDefer
         \/ \E id \in Ids, reason \in Refusals : PurgeRefused(id, reason)
         \/ \E id \in Ids, reason \in Refusals : VerifyRefused(id, reason)
         \/ \E m \in Modes : Interrupt(m)
         \/ \E id \in Ids : ResumeSafety(id)
         \/ \E o \in Oids : \/ StartObject(o) \/ RecordFail(o) \/ Unrecorded(o)
                            \/ RecordUnsafe(o) \/ CheckObject(o)
                            \/ \E p \in Prefixes : Recheck(o, p)
                            \/ \E written \in BOOLEAN : HaltOn(o, written)
                            \/ \E p \in Prefixes, failed \in BOOLEAN : LookAt(o, p, failed)
  PROVE  UNCHANGED C!vars
<1>1. UNCHANGED <<gen, done, member, deferred, vgen, vstat, pieces>>
  BY DEF Acquire, EnsureSchema, Exit, CompletePurge, CompleteDefer, PurgeRefused,
         VerifyRefused, Interrupt, ResumeSafety, StartObject, RecordFail, Unrecorded,
         RecordUnsafe, CheckObject, Recheck, HaltOn, LookAt
<1> QED
  BY <1>1, Stutters

\* task create: the new row had no members, and a candidate is in no task or
\* deferred in all of its tasks.
LEMMA CreateAssigns ==
  ASSUME LedgerInv, NEW retry \in BOOLEAN, CreateSubtask(retry)
  PROVE  C!Next
<1> DEFINE t == nTasks + 1
           candidates == IF retry THEN RetryCandidates ELSE Oids \ Assigned
<1>1. t \in TaskIds /\ t \notin Created
  BY Conjuncts DEF CreateSubtask, TypeOK, TaskTypes
<1>2. PICK S \in SelectCapacity(candidates) : member' = [member EXCEPT ![t] = S]
  BY DEF CreateSubtask
<1>3. UNCHANGED <<gen, done, deferred, vgen, vstat, pieces>>
  BY DEF CreateSubtask
<1>4. \A u \in TaskIds : candidates \intersect Active(u) = {}
  <2> SUFFICES ASSUME NEW u \in TaskIds, NEW o \in candidates PROVE o \notin Active(u)
    OBVIOUS
  <2>1. CASE u \notin Created
    BY <2>1, Conjuncts DEF UnusedRows, Active
  <2>2. CASE u \in Created /\ ~retry
    BY <2>2, Conjuncts DEF Assigned, Active, TypeOK, ObjectTypes
  <2>3. CASE u \in Created /\ retry
    <3>1. PICK w \in Created : o \in DeferredIn(w)
      BY <2>3 DEF RetryCandidates
    <3>2. /\ o \in deferred[w] /\ o \in member[w]
          /\ \A x \in Created : x > w => o \notin member[x]
      BY <3>1, CreatedTaskIds, Conjuncts DEF DeferredIn, Membership
    <3>3. CASE u > w
      BY <3>2, <3>3, <2>3 DEF Active
    <3>4. CASE u < w
      BY <3>2, <3>4, <2>3, Conjuncts DEF ActiveInLatest, Active
    <3>5. CASE u = w
      BY <3>2, <3>5 DEF Active
    <3> QED
      BY <3>3, <3>4, <3>5, <2>3, Conjuncts DEF TypeOK, TaskTypes
  <2> QED
    BY <2>1, <2>2, <2>3
<1>5. S \in SUBSET candidates /\ candidates \in SUBSET Oids
  <2>1. S \in SUBSET candidates
    BY <1>2 DEF SelectCapacity
  <2>2. candidates \in SUBSET Oids
    BY CreatedTaskIds, Conjuncts DEF RetryCandidates, DeferredIn, TypeOK, ObjectTypes
  <2> QED
    BY <2>1, <2>2
<1>6. member[t] = {} /\ fresh[t] = {} /\ ~done[t] /\ deferred[t] = {}
  BY <1>1, Conjuncts DEF UnusedRows, Membership
<1>7. [u \in TaskIds |-> Active(u)]' = [Duty EXCEPT ![t] = S]
  BY <1>1, <1>2, <1>3, <1>5, <1>6, Conjuncts DEF Duty, Active, TypeOK, ObjectTypes
<1>8. \A u \in TaskIds : Verified(u)' = Verified(u)
  <2> SUFFICES ASSUME NEW u \in TaskIds PROVE Verified(u)' = Verified(u)
    OBVIOUS
  <2>1. CASE u # t
    BY <2>1, <1>1, <1>2, <1>3, Conjuncts DEF Verified, Active, TypeOK, ObjectTypes
  <2>2. CASE u = t
    <3>1. \A o \in Oids : ~(vgen[t][o] = gen[t] /\ vstat[t][o] = "PASS")
      BY <1>1, <1>6, Conjuncts DEF Freshness
    <3>2. \A o \in S : o \in Oids
      BY <1>5
    <3>3. member'[t] = S
      BY <1>1, <1>2, Conjuncts DEF TypeOK, ObjectTypes
    <3> QED
      BY <2>2, <3>1, <3>2, <3>3, <1>3, <1>6 DEF Verified, Active
  <2> QED
    BY <2>1, <2>2
<1>9. C!Assign(t, S)
  BY <1>1, <1>3, <1>4, <1>5, <1>6, <1>7, <1>8 DEF C!Assign, Duty, Active
<1> QED
  BY <1>1, <1>5, <1>9 DEF C!Next

\* purge begins: the generation goes up and no verdict counts any more.
LEMMA BeginPurgeVoids ==
  ASSUME LedgerInv, NEW id \in Ids, BeginPurge(id)
  PROVE  C!Next
<1>1. PICK t \in ResolvePurge(id) :
        gen' = [gen EXCEPT ![t] = NextGen(t, TRUE)]
  BY DEF BeginPurge
<1>2. t \in TaskIds /\ ~done[t]
  BY <1>1, CreatedTaskIds, Conjuncts DEF ResolvePurge, Current, Unfinished
<1>3. UNCHANGED <<done, member, deferred, vgen, vstat, pieces>>
  BY DEF BeginPurge
<1>4. gen'[t] = gen[t] + 1 /\ \A u \in TaskIds : u # t => gen'[u] = gen[u]
  BY <1>1, <1>2, Conjuncts DEF NextGen, TypeOK, TaskTypes
<1>5. Verified(t)' = {}
  <2>1. \A o \in Active(t) : vgen[t][o] # gen[t] + 1
    BY <1>2, NextGenerationIsNew
  <2> QED
    BY <2>1, <1>3, <1>4 DEF Verified, Active
<1>6. \A u \in TaskIds : Active(u)' = Active(u) /\ (u # t => Verified(u)' = Verified(u))
  BY <1>3, <1>4 DEF Active, Verified
<1>7. done' = [done EXCEPT ![t] = FALSE]
  BY <1>2, <1>3, Conjuncts DEF TypeOK, TaskTypes
<1>8. C!Void(t)
  BY <1>2, <1>3, <1>5, <1>6, <1>7 DEF C!Void
<1> QED
  BY <1>2, <1>8 DEF C!Next

\* clearPrefix removes pieces of an active member of the task it works for, and
\* that task has no verdict that counts.
LEMMA ClearPrefixDeletes ==
  ASSUME LedgerInv, NEW o \in Oids, NEW p \in Prefixes, ClearPrefix(o, p)
  PROVE  C!Next
<1>1. pc = "purging" /\ work[o] # "out"
  BY DEF ClearPrefix
<1>2. cur \in TaskIds /\ ~done[cur] /\ o \in Active(cur)
  BY <1>1, InHand DEF Active
<1>3. Verified(cur) = {}
  BY <1>1, <1>2, VerifiedIsFresh, Conjuncts DEF Purging
<1>4. UNCHANGED <<gen, done, member, deferred, vgen, vstat>> /\ pieces' = pieces \ {<<o, p>>}
  BY DEF ClearPrefix
<1>5. C!Delete(cur, o, p)
  BY <1>2, <1>3, <1>4 DEF C!Delete, Active, Verified
<1> QED
  BY <1>2, <1>5 DEF C!Next

\* DoneSubtask resets a verdict that did not count.
LEMMA RecordDoneStutters ==
  ASSUME LedgerInv, NEW o \in Oids, NEW answered \in BOOLEAN, RecordDone(o, answered)
  PROVE  UNCHANGED C!vars
<1>1. pc = "purging" /\ work[o] # "out"
  BY DEF RecordDone
<1>2. PICK t \in TaskIds : t = cur
  BY <1>1, InHand
<1>3. UNCHANGED <<gen, done, member, deferred, pieces>>
  BY DEF RecordDone
<1>4. /\ vstat' = [vstat EXCEPT ![t][o] = "PENDING"]
      /\ vgen' = [vgen EXCEPT ![t][o] = 0]
  BY <1>2 DEF RecordDone
<1>5. \A u \in TaskIds : u # t => Verified(u)' = Verified(u)
  BY <1>2, <1>3, <1>4, Conjuncts DEF Verified, Active, TypeOK, ObjectTypes
<1>6. Verified(t) = {}
  BY <1>1, <1>2, VerifiedIsFresh, Conjuncts DEF Purging
<1>7. Verified(t)' = {}
  <2>1. \A u \in Active(t) : u # o => vstat'[t][u] = vstat[t][u] /\ vgen'[t][u] = vgen[t][u]
    BY <1>2, <1>4, Conjuncts DEF TypeOK, ObjectTypes, Active
  <2>2. vstat'[t][o] # "PASS"
    BY <1>2, <1>4, Conjuncts DEF TypeOK, ObjectTypes
  <2> QED
    BY <2>1, <2>2, <1>3, <1>6 DEF Verified, Active
<1>8. \A u \in TaskIds : Verified(u)' = Verified(u) /\ Active(u)' = Active(u)
  BY <1>3, <1>5, <1>6, <1>7 DEF Active
<1> QED
  BY <1>3, <1>8 DEF C!vars

\* verify goes on in the same generation, or opens a new one and reopens the task.
LEMMA BeginVerifyVoids ==
  ASSUME LedgerInv, NEW id \in Ids, NEW restart \in BOOLEAN, BeginVerify(id, restart)
  PROVE  C!Next \/ UNCHANGED C!vars
<1>1. PICK t \in ResolveVerify(id) :
        /\ done[t] => restart
        /\ gen' = [gen EXCEPT ![t] = NextGen(t, restart)]
        /\ done' = [done EXCEPT ![t] = FALSE]
  BY DEF BeginVerify
<1>2. t \in TaskIds
  BY <1>1, ResolvedCreated, CreatedTaskIds, Conjuncts
<1>3. UNCHANGED <<member, deferred, vgen, vstat, pieces>>
  BY DEF BeginVerify
<1>4. CASE ~restart
  <2>1. gen' = gen /\ done' = done
    BY <1>1, <1>2, <1>4, Conjuncts DEF NextGen, TypeOK, TaskTypes
  <2> QED
    BY <2>1, <1>3, Stutters
<1>5. CASE restart
  <2>1. gen'[t] = gen[t] + 1 /\ \A u \in TaskIds : u # t => gen'[u] = gen[u]
    BY <1>1, <1>2, <1>5, Conjuncts DEF NextGen, TypeOK, TaskTypes
  <2>2. \A o \in Active(t) : vgen[t][o] # gen[t] + 1
    BY <1>2, NextGenerationIsNew
  <2>3. Verified(t)' = {}
    BY <2>1, <2>2, <1>3 DEF Verified, Active
  <2>4. \A u \in TaskIds : Active(u)' = Active(u) /\ (u # t => Verified(u)' = Verified(u))
    BY <1>3, <2>1 DEF Active, Verified
  <2>5. C!Void(t)
    BY <1>1, <1>2, <1>3, <2>3, <2>4 DEF C!Void
  <2> QED
    BY <1>2, <2>5 DEF C!Next
<1> QED
  BY <1>4, <1>5

\* RecordVerify makes a verdict of the task's generation: it counts if it is a
\* PASS, and no verdict on the object counted before.
LEMMA RecordVerifyPasses ==
  ASSUME LedgerInv, NEW o \in Oids, RecordVerify(o)
  PROVE  C!Next \/ UNCHANGED C!vars
<1>1. pc = "checking" /\ work[o] # "out"
  BY DEF RecordVerify
<1>2. PICK t \in TaskIds : t = cur
  BY <1>1, UnderCheck
<1>3. ~done[t] /\ o \in Active(t) /\ o \notin fresh[t]
  BY <1>1, <1>2, UnderCheck DEF Active
<1>4. UNCHANGED <<gen, done, member, deferred, pieces>>
  BY DEF RecordVerify
<1>5. /\ vgen' = [vgen EXCEPT ![t][o] = gen[t]]
      /\ vstat' = [vstat EXCEPT ![t][o] = seen]
  BY <1>2 DEF RecordVerify
<1>6. \A u \in TaskIds : Active(u)' = Active(u) /\ (u # t => Verified(u)' = Verified(u))
  BY <1>2, <1>4, <1>5, Conjuncts DEF Verified, Active, TypeOK, ObjectTypes
<1>7. \A u \in Active(t) : u # o => vstat'[t][u] = vstat[t][u] /\ vgen'[t][u] = vgen[t][u]
  BY <1>2, <1>5, Conjuncts DEF TypeOK, ObjectTypes, Active
<1>8. vstat'[t][o] = seen /\ vgen'[t][o] = gen[t]
  BY <1>2, <1>5, Conjuncts DEF TypeOK, ObjectTypes
<1>9. o \notin Verified(t)
  BY <1>2, <1>3, VerifiedIsFresh
<1>10. CASE seen = "PASS"
  <2>1. Verified(t)' = Verified(t) \union {o}
    BY <1>3, <1>4, <1>7, <1>8, <1>10 DEF Verified, Active
  <2>2. C!Pass(t, o)
    BY <1>2, <1>3, <1>4, <1>6, <2>1 DEF C!Pass
  <2> QED
    BY <1>2, <2>2 DEF C!Next
<1>11. CASE seen # "PASS"
  <2>1. Verified(t)' = Verified(t)
    BY <1>3, <1>4, <1>7, <1>8, <1>9, <1>11 DEF Verified, Active
  <2>2. \A u \in TaskIds : Verified(u)' = Verified(u)
    BY <1>6, <2>1
  <2> QED
    BY <1>4, <1>6, <2>2 DEF C!vars
<1> QED
  BY <1>10, <1>11

\* CompleteVerify sets done_at with no active member pending.
LEMMA CompleteVerifyCertifies ==
  ASSUME LedgerInv, CompleteVerify
  PROVE  C!Next
<1>1. cur \in TaskIds
  BY WorkingOn DEF CompleteVerify
<1>2. Active(cur) \subseteq Verified(cur)
  BY DEF CompleteVerify, VerifyPending, Verified
<1>3. UNCHANGED <<gen, member, deferred, vgen, vstat, pieces>>
  BY DEF CompleteVerify
<1>4. done' = [done EXCEPT ![cur] = TRUE]
  BY DEF CompleteVerify
<1>5. C!Certify(cur)
  BY <1>1, <1>2, <1>3, <1>4 DEF C!Certify, Active, Verified
<1> QED
  BY <1>1, <1>5 DEF C!Next

\* task defer takes an object from a task that is not done.
LEMMA DeferGivesUp ==
  ASSUME LedgerInv, NEW id \in Ids, NEW o \in Oids, DeferObject(id, o)
  PROVE  C!Next
<1>1. PICK t \in ResolveAdmin(id) :
        ~done[t] /\ deferred' = [deferred EXCEPT ![t] = @ \union {o}]
  BY DEF DeferObject
<1>2. t \in TaskIds
  BY <1>1, ResolvedCreated, CreatedTaskIds, Conjuncts
<1>3. UNCHANGED <<gen, done, member, vgen, vstat, pieces>>
  BY DEF DeferObject
<1>4. /\ deferred'[t] = deferred[t] \union {o}
      /\ \A u \in TaskIds : u # t => deferred'[u] = deferred[u]
  BY <1>1, <1>2, Conjuncts DEF TypeOK, ObjectTypes
<1>5. Active(t)' = Active(t) \ {o} /\ Verified(t)' = Verified(t) \ {o}
  BY <1>3, <1>4 DEF Active, Verified
<1>6. \A u \in TaskIds : u # t => Active(u)' = Active(u) /\ Verified(u)' = Verified(u)
  BY <1>3, <1>4 DEF Active, Verified
<1>7. C!GiveUp(t, o)
  BY <1>1, <1>2, <1>3, <1>5, <1>6 DEF C!GiveUp
<1> QED
  BY <1>2, <1>7 DEF C!Next

\* Another process stores pieces.
LEMMA WriteBackStores ==
  ASSUME NEW o \in Rewritable, NEW p \in Prefixes, WriteBack(o, p)
  PROVE  C!Next
<1>1. /\ UNCHANGED <<gen, done, member, deferred, vgen, vstat>>
      /\ pieces' = pieces \union {<<o, p>>}
  BY DEF WriteBack
<1>2. C!Store(o, p)
  BY <1>1 DEF C!Store, Active, Verified
<1> QED
  BY <1>2 DEF C!Next

\* Every step of the ledger and its commands is a step of Custody or none.
LEMMA CustodyStep ==
  LedgerInv /\ [Next]_vars => [C!Next]_(C!vars)
<1> SUFFICES ASSUME LedgerInv, [Next]_vars PROVE C!Next \/ UNCHANGED C!vars
  OBVIOUS
<1>1. CASE UNCHANGED vars
  BY <1>1, Stutters
<1>2. ASSUME NEW o \in Oids, PurgeObject(o) PROVE C!Next \/ UNCHANGED C!vars
  BY <1>2, QuietSteps, ClearPrefixDeletes, RecordDoneStutters DEF PurgeObject
<1>3. ASSUME NEW o \in Oids, VerifyObject(o) PROVE C!Next \/ UNCHANGED C!vars
  BY <1>3, QuietSteps, RecordVerifyPasses DEF VerifyObject
<1> QED
  BY <1>1, <1>2, <1>3, QuietSteps, CreateAssigns, BeginPurgeVoids, BeginVerifyVoids,
     CompleteVerifyCertifies, DeferGivesUp, WriteBackStores DEF Next

\* A sealed list without tasks: nobody answers for anything.
LEMMA CustodyInit == Init => C!Init
  BY DEF Init, C!Init, Active, Verified

\* The ledger implements Custody: under every sequence of commands, crashes and
\* repetitions objects have one owner, are deleted only by an owner with no
\* verdict that counts, and are certified only by checks that count.
THEOREM LedgerImplementsCustody == Spec => KeepsCustody
<1>1. LedgerInv /\ [Next]_vars => [C!Next]_(C!vars)
  BY CustodyStep
<1> QED
  BY <1>1, CustodyInit, LedgerCorrect, PTL DEF Spec, KeepsCustody, C!Spec
\* Custody says so, and so it is: a piece disappears only as a member's of a task that
\* is not done and has no verdict that counts; deleting voids no check.
DeletesInDuty ==
  [][\A x \in pieces \ pieces' : \E t \in Created :
       x[1] \in Active(t) /\ ~done[t] /\ Verified(t) = {}]_vars

\* No step of any command removes a piece of an object that nobody answers for, of a
\* deferred one, or beside a check that counts.
THEOREM DeletionIsOwed == Spec => DeletesInDuty
<1>1. ASSUME LedgerInv, [Next]_vars
      PROVE  [\A x \in pieces \ pieces' : \E t \in Created :
                x[1] \in Active(t) /\ ~done[t] /\ Verified(t) = {}]_vars
  <2>1. [C!Next]_(C!vars)
    BY <1>1, CustodyStep
  <2> SUFFICES ASSUME NEW x \in pieces \ pieces'
               PROVE  \E t \in Created : x[1] \in Active(t) /\ ~done[t] /\ Verified(t) = {}
    OBVIOUS
  <2>2. pieces' # pieces
    OBVIOUS
  <2>3. PICK t \in TaskIds, o \in Oids, p \in Prefixes : C!Delete(t, o, p)
    BY <2>1, <2>2 DEF C!Next, C!vars, C!Void, C!Certify, C!Assign, C!GiveUp, C!Pass, C!Store
  <2>4. /\ o \in Active(t) /\ ~done[t] /\ Verified(t) = {}
        /\ pieces' = pieces \ {<<o, p>>}
    BY <2>3 DEF C!Delete
  <2>5. x = <<o, p>> /\ x[1] = o
    BY <2>4
  <2>6. t \in Created
    BY <1>1, <2>4, Conjuncts DEF UnusedRows, Active
  <2> QED
    BY <2>4, <2>5, <2>6
<1> QED
  BY <1>1, LedgerCorrect, PTL DEF Spec, DeletesInDuty

-----------------------------------------------------------------------------
(* The operator who follows the recovery table.                            *)

\* A hold names an object in the run's hand, and whatever takes the object out of the
\* task lifts the hold.
LEMMA HoldStep ==
  ASSUME LedgerInv, HoldNamesMember, [Next]_vars
  PROVE  HoldNamesMember'
<1>0. /\ holdOid \in [TaskIds -> Oids \union {0}] /\ nTasks \in Nat /\ 0 \notin Oids
      /\ holdReason \in [TaskIds -> HoldReasons]
      /\ member \in [TaskIds -> SUBSET Oids] /\ deferred \in [TaskIds -> SUBSET Oids]
      /\ Created \subseteq TaskIds
  BY Conjuncts, CreatedTaskIds DEF TypeOK, TaskTypes, ObjectTypes
<1> USE DEF Active
<1>1. ASSUME UNCHANGED <<holdReason, holdOid, member, deferred>> PROVE HoldNamesMember'
  BY <1>1 DEF HoldNamesMember
<1>2. ASSUME NEW retryDeferred \in BOOLEAN, CreateSubtask(retryDeferred) PROVE HoldNamesMember'
  <2>1. PICK S : member' = [member EXCEPT ![nTasks + 1] = S]
    BY <1>2 DEF CreateSubtask
  <2>2. nTasks + 1 \in TaskIds \ Created /\ UNCHANGED <<holdReason, holdOid, deferred>>
    BY <1>0, <1>2 DEF CreateSubtask
  <2>3. member[nTasks + 1] = {}
    BY <2>2, Conjuncts DEF UnusedRows
  <2> QED
    BY <1>0, <2>1, <2>2, <2>3 DEF HoldNamesMember
<1>3. ASSUME NEW t \in Created, NEW reason, Hold(t, 0, reason), UNCHANGED <<member, deferred>>
      PROVE  HoldNamesMember'
  BY <1>0, <1>3 DEF HoldNamesMember, Hold
<1>4. ASSUME NEW id \in Ids, NEW reason \in Refusals,
             PurgeRefused(id, reason) \/ VerifyRefused(id, reason)
      PROVE  HoldNamesMember'
  BY <1>3, <1>4, ResolvedCreated DEF PurgeRefused, VerifyRefused
<1>5. ASSUME NEW o \in Oids, NEW written \in BOOLEAN, HaltOn(o, written) PROVE HoldNamesMember'
  <2>1. cur \in TaskIds /\ o \in member[cur] /\ o \notin deferred[cur]
    BY <1>5, InHand DEF HaltOn
  <2>2. UNCHANGED <<member, deferred>>
    BY <1>5 DEF HaltOn
  <2>3. CASE UNCHANGED <<holdReason, holdOid>>
    BY <1>1, <2>2, <2>3
  <2>4. CASE Hold(cur, o, "object")
    BY <1>0, <2>1, <2>2, <2>4 DEF Hold, HoldNamesMember
  <2> QED
    BY <1>5, <2>3, <2>4 DEF HaltOn
<1>6. ASSUME NEW o \in Oids, PurgeObject(o) PROVE HoldNamesMember'
  <2>1. CASE \E written \in BOOLEAN : HaltOn(o, written)
    BY <1>5, <2>1
  <2>2. CASE ~\E written \in BOOLEAN : HaltOn(o, written)
    <3>1. UNCHANGED <<holdReason, holdOid, member, deferred>>
      BY <1>6, <2>2 DEF PurgeObject, StartObject, ClearPrefix, Recheck, RecordDone,
                        RecordFail, Unrecorded, RecordUnsafe
    <3> QED
      BY <1>1, <3>1
  <2> QED
    BY <2>1, <2>2
<1>7. ASSUME NEW o \in Oids, VerifyObject(o) PROVE HoldNamesMember'
  <2>1. UNCHANGED <<holdReason, holdOid, member, deferred>>
    BY <1>7 DEF VerifyObject, CheckObject, LookAt, RecordVerify
  <2> QED
    BY <1>1, <2>1
<1>8. ASSUME NEW id \in Ids, NEW o \in Oids, DeferObject(id, o) PROVE HoldNamesMember'
  <2>1. PICK t \in ResolveAdmin(id) :
          /\ deferred' = [deferred EXCEPT ![t] = @ \union {o}]
          /\ holdReason' = [holdReason EXCEPT ![t] = "none"]
          /\ holdOid' = [holdOid EXCEPT ![t] = 0]
    BY <1>8 DEF DeferObject
  <2>2. UNCHANGED member
    BY <1>8 DEF DeferObject
  <2> QED
    BY <1>0, <2>1, <2>2 DEF HoldNamesMember
<1>9. ASSUME NEW id \in Ids, ResumeSafety(id) PROVE HoldNamesMember'
  <2>1. PICK t \in ResolveAdmin(id) :
          /\ holdReason' = [holdReason EXCEPT ![t] = "none"]
          /\ holdOid' = [holdOid EXCEPT ![t] = 0]
    BY <1>9 DEF ResumeSafety
  <2>2. UNCHANGED <<member, deferred>>
    BY <1>9 DEF ResumeSafety
  <2> QED
    BY <1>0, <2>1, <2>2 DEF HoldNamesMember
<1>10. CASE \/ UNCHANGED vars \/ \E c \in Conns : Acquire(c)
            \/ EnsureSchema \/ Exit \/ CompletePurge \/ CompleteVerify \/ CompleteDefer
            \/ \E m \in Modes : Interrupt(m)
            \/ \E id \in Ids : BeginPurge(id)
            \/ \E id \in Ids, restart \in BOOLEAN : BeginVerify(id, restart)
            \/ \E o \in Rewritable, p \in Prefixes : WriteBack(o, p)
  <2>1. UNCHANGED <<holdReason, holdOid, member, deferred>>
    BY <1>10 DEF Acquire, EnsureSchema, Exit, CompletePurge, CompleteVerify, CompleteDefer,
                 Interrupt, BeginPurge, BeginVerify, WriteBack
  <2> QED
    BY <1>1, <2>1
<1> QED
  BY <1>2, <1>4, <1>6, <1>7, <1>8, <1>9, <1>10 DEF Next

\* No row has a verdict of a generation to come.
LEMMA VerdictOld ==
  ASSUME LedgerInv
  PROVE  \A t \in TaskIds, o \in Oids : vgen[t][o] # gen[t] + 1
<1> SUFFICES ASSUME NEW t \in TaskIds, NEW o \in Oids PROVE vgen[t][o] # gen[t] + 1
  OBVIOUS
<1>1. vgen[t][o] <= gen[t] /\ gen[t] \in Nat /\ vgen[t][o] \in Nat
  BY Generations, Conjuncts DEF Freshness
<1> QED
  BY <1>1

\* A result that is taken back belongs to the task being purged, whose generation is
\* new, or to objects that are active in no task.
LEMMA VerdictStep ==
  ASSUME LedgerInv, VerdictsAfterPurge, [Next]_vars
  PROVE  VerdictsAfterPurge'
<1>0. /\ nTasks \in Nat /\ Created \subseteq TaskIds
      /\ member \in [TaskIds -> SUBSET Oids] /\ deferred \in [TaskIds -> SUBSET Oids]
      /\ gen \in [TaskIds -> Nat] /\ vgen \in [TaskIds -> [Oids -> Nat]]
      /\ prog \in [Oids -> {0, 1, 2}]
      /\ \A t \in TaskIds : gen[t] >= 1
      /\ \A t \in TaskIds, o \in Oids : vgen[t][o] <= gen[t]
  BY Conjuncts, CreatedTaskIds DEF TypeOK, TaskTypes, ObjectTypes, Membership, Freshness
<1> USE DEF Active, AllProcessed
\* Rows and results as they were, deferrals at most added, and no purge begun.
<1>1. ASSUME UNCHANGED <<nTasks, gen, vgen, member, prog>>,
             \A t \in TaskIds : deferred[t] \subseteq deferred'[t],
             pc' = "purging" => pc = "purging" /\ cur' = cur
      PROVE  VerdictsAfterPurge'
  BY <1>1 DEF VerdictsAfterPurge
\* A purge run changes the results of its own task only, which has no verdict.
<1>2. ASSUME NEW o \in Oids, pc = "purging", work[o] # "out", NEW r \in {1, 2},
             prog' = [prog EXCEPT ![o] = r],
             vgen' = vgen \/ vgen' = [vgen EXCEPT ![cur][o] = 0],
             UNCHANGED <<nTasks, gen, member, deferred, pc, cur>>
      PROVE  VerdictsAfterPurge'
  <2>1. cur \in TaskIds /\ \A t \in Created : o \in Active(t) => t = cur
    BY <1>2, InHand
  <2>2. \A u \in Oids : vgen'[cur][u] # gen'[cur]
    <3>1. \A u \in Oids : vgen[cur][u] # gen[cur]
      BY <1>2 DEF VerdictsAfterPurge
    <3> QED
      BY <1>0, <1>2, <2>1, <3>1
  <2>3. \A t \in TaskIds, u \in Oids : t # cur => vgen'[t][u] = vgen[t][u]
    BY <1>0, <1>2, <2>1
  <2>4. ASSUME NEW t \in TaskIds, NEW u \in Oids, vgen'[t][u] = gen'[t]
        PROVE  t \in Created' /\ AllProcessed(t)'
    <3>1. t # cur /\ vgen[t][u] = gen[t]
      BY <1>2, <2>2, <2>3, <2>4
    <3>2. t \in Created /\ AllProcessed(t)
      BY <3>1 DEF VerdictsAfterPurge
    <3>3. o \notin Active(t)
      BY <2>1, <3>1, <3>2
    <3> QED
      BY <1>0, <1>2, <3>2, <3>3
  <2> QED
    BY <1>2, <2>2, <2>4 DEF VerdictsAfterPurge
<1>3. ASSUME NEW retryDeferred \in BOOLEAN, CreateSubtask(retryDeferred)
      PROVE  VerdictsAfterPurge'
  <2>1. PICK S \in SelectCapacity(IF retryDeferred THEN RetryCandidates ELSE Oids \ Assigned) :
          /\ nTasks' = nTasks + 1
          /\ member' = [member EXCEPT ![nTasks + 1] = S]
          /\ prog' = IF retryDeferred THEN Requeue(S) ELSE prog
    BY <1>3 DEF CreateSubtask
  <2>2. UNCHANGED <<gen, deferred, vgen>> /\ pc' = "idle"
    BY <1>3 DEF CreateSubtask, Release
  <2>3. ASSUME NEW t \in TaskIds, NEW u \in Oids, vgen'[t][u] = gen'[t]
        PROVE  t \in Created' /\ AllProcessed(t)'
    <3>1. t \in Created /\ AllProcessed(t)
      BY <2>2, <2>3 DEF VerdictsAfterPurge
    <3>2. Active(t)' = Active(t) /\ t \in Created'
      BY <1>0, <2>1, <2>2, <3>1
    <3>3. ASSUME NEW o \in Active(t) PROVE prog'[o] = 1
      <4>1. o \in Oids /\ prog[o] = 1
        BY <1>0, <3>1
      <4>2. CASE retryDeferred
        <5>1. o \notin RetryCandidates
          <6> SUFFICES ASSUME NEW w \in Created, o \in DeferredIn(w) PROVE FALSE
            BY DEF RetryCandidates
          <6>1. o \in deferred[w] /\ o \in member[w] /\ ~(t > w)
            BY <1>0, <3>1, Conjuncts DEF DeferredIn, Membership
          <6>2. t # w
            BY <6>1
          <6>3. t < w
            BY <1>0, <3>1, <6>1, <6>2
          <6>4. o \in deferred[t]
            BY <3>1, <6>1, <6>3, Conjuncts DEF ActiveInLatest
          <6> QED
            BY <6>4
        <5>2. S \subseteq RetryCandidates
          BY <2>1, <4>2 DEF SelectCapacity
        <5> QED
          BY <2>1, <4>1, <4>2, <5>1, <5>2 DEF Requeue
      <4>3. CASE ~retryDeferred
        BY <2>1, <4>1, <4>3
      <4> QED
        BY <4>2, <4>3
    <3> QED
      BY <3>2, <3>3
  <2> QED
    BY <2>2, <2>3 DEF VerdictsAfterPurge
<1>4. ASSUME NEW id \in Ids, BeginPurge(id) PROVE VerdictsAfterPurge'
  <2>1. PICK t \in ResolvePurge(id) :
          /\ prog' = Requeue({o \in Active(t) : vstat[t][o] = "RESIDUE"})
          /\ gen' = [gen EXCEPT ![t] = gen[t] + 1]
          /\ cur' = t
    BY <1>4 DEF BeginPurge, NextGen
  <2>2. t \in Created /\ t \in TaskIds
    BY <1>0, ResolvedCreated
  <2>3. UNCHANGED <<nTasks, member, deferred, vgen>> /\ pc' = "purging"
    BY <1>4 DEF BeginPurge
  <2>4. \A u \in Oids : vgen'[t][u] # gen'[t]
    <3>1. gen'[t] = gen[t] + 1
      BY <1>0, <2>1, <2>2
    <3> QED
      BY <2>2, <2>3, <3>1, VerdictOld
  <2>5. ASSUME NEW w \in TaskIds, NEW u \in Oids, vgen'[w][u] = gen'[w]
        PROVE  w \in Created' /\ AllProcessed(w)'
    <3>1. w # t /\ vgen[w][u] = gen[w]
      BY <1>0, <2>1, <2>2, <2>3, <2>4, <2>5
    <3>2. w \in Created /\ AllProcessed(w)
      BY <3>1 DEF VerdictsAfterPurge
    <3>3. ASSUME NEW o \in Active(w) PROVE prog'[o] = 1
      <4>1. o \notin Active(t) /\ o \in Oids /\ prog[o] = 1
        BY <1>0, <2>2, <3>1, <3>2, ActiveOnce
      <4> QED
        BY <2>1, <4>1 DEF Requeue
    <3> QED
      BY <2>3, <3>2, <3>3
  <2> QED
    BY <2>1, <2>3, <2>4, <2>5 DEF VerdictsAfterPurge
<1>5. ASSUME NEW o \in Oids, PurgeObject(o) PROVE VerdictsAfterPurge'
  <2>1. CASE \E answered \in BOOLEAN : RecordDone(o, answered)
    <3>1. /\ pc = "purging" /\ work[o] # "out" /\ prog' = [prog EXCEPT ![o] = 1]
          /\ vgen' = [vgen EXCEPT ![cur][o] = 0]
          /\ UNCHANGED <<nTasks, gen, member, deferred, pc, cur>>
      BY <2>1 DEF RecordDone
    <3> QED
      BY <1>2, <3>1
  <2>2. CASE RecordFail(o) \/ RecordUnsafe(o)
    <3>1. /\ pc = "purging" /\ work[o] # "out" /\ prog' = [prog EXCEPT ![o] = 2]
          /\ UNCHANGED <<nTasks, gen, member, deferred, vgen, pc, cur>>
      BY <2>2 DEF RecordFail, RecordUnsafe, Attempting
    <3> QED
      BY <1>2, <3>1
  <2>3. CASE \/ StartObject(o) \/ Unrecorded(o)
             \/ \E p \in Prefixes : ClearPrefix(o, p) \/ Recheck(o, p)
             \/ \E written \in BOOLEAN : HaltOn(o, written)
    <3>1. UNCHANGED <<nTasks, gen, vgen, member, deferred, prog, pc, cur>>
      BY <2>3 DEF StartObject, Unrecorded, ClearPrefix, Recheck, HaltOn
    <3> QED
      BY <1>1, <3>1
  <2> QED
    BY <1>5, <2>1, <2>2, <2>3 DEF PurgeObject
<1>6. ASSUME NEW id \in Ids, NEW restart \in BOOLEAN, BeginVerify(id, restart)
      PROVE  VerdictsAfterPurge'
  <2>1. PICK t \in ResolveVerify(id) : gen' = [gen EXCEPT ![t] = NextGen(t, restart)]
    BY <1>6 DEF BeginVerify
  <2>2. t \in Created /\ t \in TaskIds
    BY <1>0, ResolvedCreated
  <2>3. UNCHANGED <<nTasks, member, deferred, vgen, prog>> /\ pc' = "checking"
    BY <1>6 DEF BeginVerify
  <2>4. \A w \in TaskIds, u \in Oids : vgen'[w][u] = gen'[w] => vgen[w][u] = gen[w]
    <3> SUFFICES ASSUME NEW w \in TaskIds, NEW u \in Oids, vgen'[w][u] = gen'[w]
                 PROVE  vgen[w][u] = gen[w]
      OBVIOUS
    <3>1. gen'[w] = gen[w] \/ gen'[w] = gen[w] + 1
      BY <1>0, <2>1, <2>2 DEF NextGen
    <3> QED
      BY <2>3, <3>1, VerdictOld
  <2> QED
    BY <2>3, <2>4 DEF VerdictsAfterPurge
<1>7. ASSUME NEW o \in Oids, VerifyObject(o) PROVE VerdictsAfterPurge'
  <2>1. CASE CheckObject(o) \/ \E p \in Prefixes, failed \in BOOLEAN : LookAt(o, p, failed)
    <3>1. UNCHANGED <<nTasks, gen, vgen, member, deferred, prog, pc, cur>>
      BY <2>1 DEF CheckObject, LookAt
    <3> QED
      BY <1>1, <3>1
  <2>2. CASE RecordVerify(o)
    <3>1. /\ pc = "checking" /\ vgen' = [vgen EXCEPT ![cur][o] = gen[cur]]
          /\ UNCHANGED <<nTasks, gen, member, deferred, prog, pc, cur>>
      BY <2>2 DEF RecordVerify
    <3>2. cur \in Created /\ cur \in TaskIds /\ AllProcessed(cur)
      BY <3>1, WorkingOn, Conjuncts DEF Checking
    <3>3. \A w \in TaskIds, u \in Oids : w # cur => vgen'[w][u] = vgen[w][u]
      BY <1>0, <3>1, <3>2
    <3> QED
      BY <3>1, <3>2, <3>3 DEF VerdictsAfterPurge
  <2> QED
    BY <1>7, <2>1, <2>2 DEF VerifyObject
<1>8. ASSUME NEW id \in Ids, NEW o \in Oids, DeferObject(id, o) PROVE VerdictsAfterPurge'
  <2>1. PICK t \in ResolveAdmin(id) : deferred' = [deferred EXCEPT ![t] = @ \union {o}]
    BY <1>8 DEF DeferObject
  <2>2. \A w \in TaskIds : deferred[w] \subseteq deferred'[w]
    BY <1>0, <2>1
  <2>3. UNCHANGED <<nTasks, gen, vgen, member, prog>> /\ pc' = "deferred"
    BY <1>8 DEF DeferObject
  <2> QED
    BY <1>1, <2>2, <2>3
<1>9. CASE \/ UNCHANGED vars \/ \E m \in Modes : Interrupt(m)
           \/ \E o \in Rewritable, p \in Prefixes : WriteBack(o, p)
  <2>1. UNCHANGED <<nTasks, gen, vgen, member, deferred, prog, pc, cur>>
    BY <1>9 DEF Interrupt, WriteBack
  <2> QED
    BY <1>1, <2>1
<1>10. CASE \/ \E c \in Conns : Acquire(c)
            \/ EnsureSchema \/ Exit \/ CompletePurge \/ CompleteVerify \/ CompleteDefer
            \/ \E id \in Ids, reason \in Refusals :
                 PurgeRefused(id, reason) \/ VerifyRefused(id, reason)
            \/ \E id \in Ids : ResumeSafety(id)
  <2>1. UNCHANGED <<nTasks, gen, vgen, member, deferred, prog>> /\ pc' # "purging"
    BY <1>10 DEF Acquire, EnsureSchema, Exit, CompletePurge, CompleteVerify, CompleteDefer,
                 PurgeRefused, VerifyRefused, ResumeSafety, Release
  <2> QED
    BY <1>1, <2>1
<1> QED
  BY <1>3, <1>4, <1>5, <1>6, <1>7, <1>8, <1>9, <1>10 DEF Next

\* The invariant of the recovery table.
AdviceInv == LedgerInv /\ HoldNamesMember /\ VerdictsAfterPurge

\* The ledger starts without holds and verdicts.
LEMMA InitAdvice == Init => AdviceInv
<1> SUFFICES ASSUME Init PROVE HoldNamesMember /\ VerdictsAfterPurge
  BY InitInv DEF AdviceInv
<1> QED
  BY DEF Init, HoldNamesMember, VerdictsAfterPurge

\* Holds name members and verdicts follow a complete purge, in every reachable state.
LEMMA AdviceCorrect == Spec => []AdviceInv
<1>1. AdviceInv /\ [Next]_vars => AdviceInv'
  BY InvStep, HoldStep, VerdictStep DEF AdviceInv
<1> QED
  BY InitAdvice, <1>1, PTL DEF Spec

\* What status prints, case by case.
LEMMA StateCases ==
  ASSUME NEW t \in Created, done[t] \in BOOLEAN
  PROVE  /\ holdReason[t] # "none" <=> State(t) = "SAFETY_HOLD"
         /\ State(t) = "DONE" <=> holdReason[t] = "none" /\ done[t]
         /\ State(t) = "RUNNING" => LockedBy(t)
         /\ State(t) = "AWAITING_VERIFY" => AllProcessed(t)
         /\ State(t) = "VERIFY_FAILED" => With(t, "RESIDUE") \union With(t, "ERROR") # {}
<1> DEFINE bad == With(t, "RESIDUE") \union With(t, "ERROR") # {}
<1> HIDE DEF bad
<1>1. State(t) =
        CASE holdReason[t] # "none" -> "SAFETY_HOLD"
          [] holdReason[t] = "none" /\ done[t] -> "DONE"
          [] OTHER ->
               CASE phase[t] = "READY" -> "READY"
                 [] phase[t] # "READY" /\ LockedBy(t) -> "RUNNING"
                 [] phase[t] # "READY" /\ ~LockedBy(t) /\ bad -> "VERIFY_FAILED"
                 [] phase[t] # "READY" /\ ~LockedBy(t) /\ ~bad
                      /\ ~AllProcessed(t) -> "RETRY_PENDING"
                 [] OTHER -> "AWAITING_VERIFY"
  BY DEF State, bad
<1>2. CASE holdReason[t] # "none"
  BY <1>1, <1>2
<1>3. CASE holdReason[t] = "none" /\ done[t]
  BY <1>1, <1>3
<1>4. CASE holdReason[t] = "none" /\ ~done[t]
  <2>1. State(t) = CASE phase[t] = "READY" -> "READY"
                     [] phase[t] # "READY" /\ LockedBy(t) -> "RUNNING"
                     [] phase[t] # "READY" /\ ~LockedBy(t) /\ bad -> "VERIFY_FAILED"
                     [] phase[t] # "READY" /\ ~LockedBy(t) /\ ~bad
                          /\ ~AllProcessed(t) -> "RETRY_PENDING"
                     [] OTHER -> "AWAITING_VERIFY"
    BY <1>1, <1>4
  <2>2. CASE phase[t] = "READY"
    BY <1>4, <2>1, <2>2
  <2>3. CASE phase[t] # "READY" /\ LockedBy(t)
    BY <1>4, <2>1, <2>3
  <2>4. CASE phase[t] # "READY" /\ ~LockedBy(t) /\ bad
    <3>1. State(t) = "VERIFY_FAILED"
      BY <2>1, <2>4
    <3> QED
      BY <1>4, <2>4, <3>1 DEF bad
  <2>5. CASE phase[t] # "READY" /\ ~LockedBy(t) /\ ~bad /\ ~AllProcessed(t)
    BY <1>4, <2>1, <2>5
  <2>6. CASE phase[t] # "READY" /\ ~LockedBy(t) /\ ~bad /\ AllProcessed(t)
    BY <1>4, <2>1, <2>6
  <2> QED
    BY <2>2, <2>3, <2>4, <2>5, <2>6
<1> QED
  BY <1>2, <1>3, <1>4

\* What each state that status prints stands for is what its command asks for.
LEMMA AdviceFollows == AdviceInv => AdviceAccepted
<1> SUFFICES ASSUME AdviceInv, pc = "open" PROVE AdviceAccepted
  BY DEF AdviceAccepted
<1>0. LedgerInv /\ HoldNamesMember /\ VerdictsAfterPurge
  BY DEF AdviceInv
<1>1. nTasks \in Nat /\ Created \subseteq TaskIds /\ done \in [TaskIds -> BOOLEAN]
  BY <1>0, Conjuncts, CreatedTaskIds DEF TypeOK, TaskTypes
<1>2. ASSUME NEW t \in Created PROVE t # 0 /\ t \in TaskIds /\ done[t] \in BOOLEAN
  BY <1>1
<1>3. ASSUME NEW t \in Created PROVE State(t) # "RUNNING"
  <2>1. conn # 0 /\ execConn[t] = 0
    BY <1>0, <1>2, Conjuncts DEF Command
  <2> QED
    BY <1>2, <2>1, StateCases DEF LockedBy
<1>4. ASSUME NEW t \in Created, State(t) = "SAFETY_HOLD", holdOid[t] # 0
      PROVE  DeferAccepts(t, holdOid[t])
  <2>1. t # 0 /\ t \in TaskIds /\ holdReason[t] # "none"
    BY <1>2, <1>4, StateCases
  <2>2. holdOid[t] \in Active(t)
    BY <1>0, <1>4, <2>1 DEF HoldNamesMember
  <2>3. ~done[t]
    BY <1>0, <2>1, Conjuncts DEF NoDeadEnd
  <2>4. t \in ResolveAdmin(t)
    BY <2>1 DEF ResolveAdmin
  <2> QED
    BY <2>2, <2>3, <2>4 DEF DeferAccepts
<1>5. ASSUME NEW t \in Created, ~AnyHold, State(t) # "DONE" PROVE PurgeAccepts(t)
  <2>1. holdReason[t] = "none" /\ ~done[t]
    BY <1>2, <1>5, StateCases DEF AnyHold
  <2>2. CASE purged[t]
    BY <1>5, <2>1, <2>2 DEF PurgeAccepts, ResolvePurge
  <2>3. CASE ~purged[t]
    <3>1. t \in Current
      BY <1>0, <2>1, <2>3, Conjuncts DEF Current, Unfinished, OneCurrentTask
    <3> QED
      BY <1>5, <3>1 DEF PurgeAccepts, ResolvePurge
  <2> QED
    BY <2>2, <2>3
<1>6. ASSUME NEW t \in Created, State(t) \in {"AWAITING_VERIFY", "VERIFY_FAILED"}
      PROVE  VerifyAccepts(t)
  <2>1. t # 0 /\ t \in TaskIds /\ holdReason[t] = "none" /\ ~done[t]
    BY <1>2, <1>6, StateCases
  <2>2. AllProcessed(t)
    <3>1. CASE State(t) = "AWAITING_VERIFY"
      BY <1>2, <3>1, StateCases
    <3>2. CASE State(t) = "VERIFY_FAILED"
      <4>1. With(t, "RESIDUE") \union With(t, "ERROR") # {}
        BY <1>2, <3>2, StateCases
      <4>2. PICK o \in Active(t) : vgen[t][o] = gen[t]
        BY <4>1 DEF With
      <4>3. o \in Oids
        BY <1>0, <2>1, Conjuncts DEF Active, TypeOK, ObjectTypes
      <4> QED
        BY <1>0, <2>1, <4>2, <4>3 DEF VerdictsAfterPurge
    <3> QED
      BY <1>6, <3>1, <3>2
  <2>3. t \in ResolveVerify(t)
    BY <2>1 DEF ResolveVerify
  <2> QED
    BY <2>1, <2>2, <2>3 DEF VerifyAccepts
<1>7. ASSUME \A t \in Created : State(t) = "DONE"
      PROVE  MayCreate /\ RetryCandidates = DeferredPool
  <2>1. \A t \in Created : holdReason[t] = "none" /\ done[t]
    BY <1>2, <1>7, StateCases
  <2>2. \A t \in Created : purged[t]
    BY <1>0, <2>1, Conjuncts DEF NoDeadEnd
  <2>3. MayCreate
    BY <1>0, <2>1, Conjuncts DEF MayCreate, AnyHold, Unfinished, Membership
  <2>4. RetryCandidates = DeferredPool
    BY <2>2 DEF RetryCandidates, DeferredPool
  <2> QED
    BY <2>3, <2>4
<1>8. ASSUME NEW t \in Created
      PROVE  \/ State(t) \in {"READY", "RETRY_PENDING"}
             \/ State(t) = "VERIFY_FAILED" /\ With(t, "RESIDUE") # {}
             => State(t) # "DONE"
  OBVIOUS
<1> QED
  BY <1>3, <1>4, <1>5, <1>6, <1>7, <1>8 DEF AdviceAccepted

\* The recovery table is never wrong: whatever commands, crashes and foreign writes led
\* to the state, the command it names for what status prints is not refused.
THEOREM AdviceSafe == Spec => []AdviceAccepted
  BY AdviceCorrect, AdviceFollows, PTL

\* A step of the operator is a step of the commands.
LEMMA RoutineIsNext == ASSUME TypeOK, Routine PROVE Next
<1>1. Created \subseteq Ids /\ nTasks \in Nat
  BY CreatedTaskIds DEF Ids, TypeOK, TaskTypes
<1>2. CASE ClearHold
  <2>1. PICK t \in Created : ResumeSafety(t) \/ DeferObject(t, holdOid[t])
    BY <1>2 DEF ClearHold
  <2>2. CASE ResumeSafety(t)
    BY <1>1, <2>2 DEF Next
  <2>3. CASE DeferObject(t, holdOid[t])
    <3>1. PICK u \in ResolveAdmin(t) : holdOid[t] \in Active(u)
      BY <2>3 DEF DeferObject
    <3>2. u \in Created /\ u \in TaskIds
      BY <1>1, <3>1, ResolvedCreated, CreatedTaskIds
    <3>3. holdOid[t] \in Oids
      BY <3>1, <3>2 DEF Active, TypeOK, ObjectTypes
    <3> QED
      BY <1>1, <2>3, <3>3 DEF Next
  <2> QED
    BY <2>1, <2>2, <2>3
<1>3. CASE RunPurge
  BY <1>1, <1>3 DEF RunPurge, Next
<1>4. CASE RunVerify
  BY <1>1, <1>4 DEF RunVerify, Next
<1>5. CASE RunCreate
  BY <1>5 DEF RunCreate, Next
<1>6. CASE RunsOn
  <2>1. CASE CompletePurge \/ CompleteVerify \/ CompleteDefer
    BY <2>1 DEF Next
  <2>2. ASSUME NEW o \in Oids,
               \/ StartObject(o) \/ RecordDone(o, TRUE) \/ RecordUnsafe(o)
               \/ RecordFail(o) \/ Unrecorded(o)
               \/ \E p \in Prefixes : ClearPrefix(o, p) \/ Recheck(o, p)
        PROVE  Next
    <3>1. PurgeObject(o)
      BY <2>2 DEF PurgeObject
    <3> QED
      BY <3>1 DEF Next
  <2>3. ASSUME NEW o \in Oids,
               \/ CheckObject(o) \/ RecordVerify(o)
               \/ \E p \in Prefixes : LookAt(o, p, FALSE)
        PROVE  Next
    <3>1. VerifyObject(o)
      BY <2>3 DEF VerifyObject
    <3> QED
      BY <3>1 DEF Next
  <2> QED
    BY <1>6, <2>1, <2>2, <2>3 DEF RunsOn
<1>7. CASE GivesUp
  BY <1>7 DEF GivesUp, Next
<1> QED
  BY <1>2, <1>3, <1>4, <1>5, <1>6, <1>7 DEF Routine, Next

\* The operator's routine and the faults beside it are behaviours of the ledger.
THEOREM OperatorIsLedger == OperatorSpec => Spec
<1>1. OperatorInit => Init
  BY DEF OperatorInit
<1>2. TypeOK /\ [OperatorNext]_allVars => [Next]_vars
  <2> SUFFICES ASSUME TypeOK, [OperatorNext]_allVars PROVE [Next]_vars
    OBVIOUS
  <2>1. CASE Fair
    BY <2>1, RoutineIsNext DEF Fair
  <2>2. CASE Fault
    BY <2>2 DEF Fault
  <2>3. CASE UNCHANGED allVars
    BY <2>3 DEF allVars
  <2> QED
    BY <2>1, <2>2, <2>3 DEF OperatorNext
<1>3. TypeOK /\ [Next]_vars => TypeOK'
  BY TypeStep
<1>4. Init => TypeOK
  BY InitType
<1> QED
  BY <1>1, <1>2, <1>3, <1>4, PTL DEF OperatorSpec, Spec

\* So what is proved of the ledger holds for the operator who follows the table, for
\* any number of faults.
THEOREM OperatorSafe ==
  OperatorSpec => /\ [](DoneIsVerified /\ ProcessedHere /\ RunningIsTrue /\ AllDoneSound)
                  /\ []AdviceAccepted /\ LedgerOnlyGrows /\ KeepsCustody
<1>1. OperatorSpec => Spec
  BY OperatorIsLedger
<1>2. Spec => [](DoneIsVerified /\ ProcessedHere /\ RunningIsTrue /\ AllDoneSound)
  BY VerificationSafe, CreditIsOwn, AttributionSound, AllDoneHonest, PTL
<1>3. Spec => []AdviceAccepted /\ LedgerOnlyGrows /\ KeepsCustody
  BY AdviceSafe, LedgerMonotone, LedgerImplementsCustody
<1> QED
  BY <1>1, <1>2, <1>3

=============================================================================
