--------------------------- MODULE LedgerCustody ---------------------------
(***************************************************************************)
(* The ledger implements Custody: a task answers for its active members,   *)
(* a check counts while it is a PASS of the task's generation, and done_at *)
(* is the certificate.                                                     *)
(***************************************************************************)
EXTENDS Subtasks

\* SubCounts' verified objects.
Verified(t) == {o \in Active(t) : vgen[t][o] = gen[t] /\ vstat[t][o] = "PASS"}

C == INSTANCE Custody
       WITH duty      <- [t \in TaskIds |-> Active(t)],
            checked   <- [t \in TaskIds |-> Verified(t)],
            certified <- done

\* Whatever the commands do, crash or repeat (a purge after residue or a deferral, a
\* verify --restart, both after verdicts that counted): objects are handed to one task at
\* a time, deleted only by the task that answers for them and while no verdict
\* of that task counts, and a task becomes done only over checks that count.
KeepsCustody == C!Spec

=============================================================================
