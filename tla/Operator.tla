------------------------------ MODULE Operator ------------------------------
(***************************************************************************)
(* The ledger and its commands under an operator who follows the recovery  *)
(* table of README.md: look at status, run the command it calls for, look  *)
(* again.  Up to MaxFaults steps are none of that: any step of Subtasks    *)
(* may be one (a crash, a failed or halted object, a refused manifest,     *)
(* pieces written back, a failed look, a deferral, verify --restart out of *)
(* turn).  The question is whether the table always leads to ALL_DONE.     *)
(***************************************************************************)
EXTENDS LedgerCustody

CONSTANT MaxFaults   \* bound: steps outside the operator's routine

ASSUME FaultsAssumption == MaxFaults \in Nat

VARIABLE faults      \* how many there have been

allVars == <<vars, faults>>

\* Active members with a verdict of this generation.
With(t, verdict) == {o \in Active(t) : vgen[t][o] = gen[t] /\ vstat[t][o] = verdict}

\* What status prints for a task.
State(t) ==
  CASE holdReason[t] # "none" -> "SAFETY_HOLD"
    [] holdReason[t] = "none" /\ done[t] -> "DONE"
    [] OTHER ->
         CASE phase[t] = "READY" -> "READY"
           [] phase[t] # "READY" /\ LockedBy(t) -> "RUNNING"
           [] phase[t] # "READY" /\ ~LockedBy(t)
                /\ With(t, "RESIDUE") \union With(t, "ERROR") # {} -> "VERIFY_FAILED"
           [] phase[t] # "READY" /\ ~LockedBy(t)
                /\ With(t, "RESIDUE") \union With(t, "ERROR") = {}
                /\ ~AllProcessed(t) -> "RETRY_PENDING"
           [] OTHER -> "AWAITING_VERIFY"

\* SAFETY_HOLD: resume after an inquiry, or defer the object it names.
ClearHold ==
  \E t \in Created : /\ State(t) = "SAFETY_HOLD"
                     /\ ResumeSafety(t) \/ DeferObject(t, holdOid[t])

\* Something is to be deleted: a new or interrupted task, or residue.
RunPurge ==
  \E t \in Created :
    /\ \/ State(t) \in {"READY", "RETRY_PENDING"}
       \/ State(t) = "VERIFY_FAILED" /\ With(t, "RESIDUE") # {}
    /\ BeginPurge(t)

RunVerify ==
  \E t \in Created :
    /\ \/ State(t) = "AWAITING_VERIFY"
       \/ State(t) = "VERIFY_FAILED" /\ With(t, "RESIDUE") = {}
    /\ BeginVerify(t, FALSE)

\* The next batch, and deferred objects when nothing else is left.
RunCreate == CreateSubtask(Oids = Assigned)

\* The command runs on without a fault.
RunsOn ==
  \/ \E o \in Oids :
       \/ StartObject(o) \/ RecordDone(o, TRUE) \/ RecordUnsafe(o)
       \/ \E p \in Prefixes : ClearPrefix(o, p) \/ Recheck(o, p) \/ LookAt(o, p, FALSE)
       \/ work[o] = "recheck_s" /\ <<o, "s">> \in pieces /\ RecordFail(o)
       \/ work[o] = "recheck_e" /\ <<o, "e">> \in pieces /\ RecordFail(o)
       \/ mode \in {"cancel", "halt"} /\ Unrecorded(o)
       \/ CheckObject(o) \/ RecordVerify(o)
  \/ CompletePurge \/ CompleteVerify \/ CompleteDefer

\* The command can do nothing more: the run was stopped and its objects in flight
\* have ended, not all objects passed, others are still to be processed, or all is
\* done already.
GivesUp ==
  /\ \/ pc = "purging" /\ mode # "run" /\ InFlight = {}
     \/ /\ pc = "checking" /\ \A o \in Oids : work[o] = "out"
        /\ VerifyPending(cur, gen[cur]) # {}
     \/ pc = "deferred" /\ ~AllProcessed(cur)
     \/ /\ pc = "open" /\ \A t \in Created : State(t) = "DONE"
        /\ Oids = Assigned /\ DeferredPool = {}
  /\ Exit

\* One command after another, until status says ALL_DONE.
Routine ==
  \/ ~AllDone /\ \E c \in Conns : Acquire(c)
  \/ EnsureSchema
  \/ ClearHold \/ RunPurge \/ RunVerify \/ RunCreate
  \/ RunsOn \/ GivesUp

Fair == Routine /\ UNCHANGED faults

Fault == /\ faults < MaxFaults
         /\ faults' = faults + 1
         /\ Next

OperatorInit == Init /\ faults = 0
OperatorNext == Fair \/ Fault

\* The operator does not give up, and a command goes on: its requests, queries
\* and waits all have deadlines.
OperatorSpec == OperatorInit /\ [][OperatorNext]_allVars /\ WF_allVars(Fair)

-----------------------------------------------------------------------------

\* After finitely many faults, wherever they strike, the table leads to ALL_DONE
\* and no later step of the routine takes it back: no task is stuck in a state
\* whose advice is refused, and no two pieces of advice undo each other forever.
Recovers == <>[]AllDone

\* What purge, verify and task defer ask for before they begin.
PurgeAccepts(t) == t \in ResolvePurge(t)
VerifyAccepts(t) == /\ t \in ResolveVerify(t)
                    /\ holdReason[t] = "none" /\ ~done[t] /\ AllProcessed(t)
DeferAccepts(t, o) == /\ t \in ResolveAdmin(t) /\ ~done[t] /\ o \in Active(t)
                      /\ holdReason[t] = "none" \/ holdOid[t] = o

\* Between two commands the table's advice for what status prints is accepted, in
\* every state any crash has left: a hold that names an object is lifted by deferring
\* it, a task to be purged is the one purge selects, one to be verified has nothing
\* unprocessed (also when a look failed), and when all tasks are done task create may
\* run and finds every deferred object; RUNNING is never printed of a dead command.
AdviceAccepted ==
  pc = "open" =>
    /\ \A t \in Created :
         /\ State(t) # "RUNNING"
         /\ State(t) = "SAFETY_HOLD" /\ holdOid[t] # 0 => DeferAccepts(t, holdOid[t])
         /\ /\ ~AnyHold
            /\ \/ State(t) \in {"READY", "RETRY_PENDING"}
               \/ State(t) = "VERIFY_FAILED" /\ With(t, "RESIDUE") # {}
            => PurgeAccepts(t)
         /\ \/ State(t) = "AWAITING_VERIFY"
            \/ State(t) = "VERIFY_FAILED" /\ With(t, "RESIDUE") = {}
            => VerifyAccepts(t)
    /\ (\A t \in Created : State(t) = "DONE") =>
         MayCreate /\ RetryCandidates = DeferredPool

\* The two facts behind it that LedgerInv does not have.  The object a hold names is
\* still an active member of the held task.
HoldNamesMember ==
  \A t \in TaskIds : holdOid[t] # 0 => holdOid[t] \in Active(t) /\ holdReason[t] = "object"

\* Verdicts of a generation are written and kept only while every active member is
\* processed; a purge begins without any.
VerdictsAfterPurge ==
  /\ \A t \in TaskIds, o \in Oids : vgen[t][o] = gen[t] => t \in Created /\ AllProcessed(t)
  /\ pc = "purging" => \A o \in Oids : vgen[cur][o] # gen[cur]

=============================================================================
