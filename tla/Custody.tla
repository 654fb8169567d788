------------------------------ MODULE Custody ------------------------------
(***************************************************************************)
(* What the progress ledger promises, without tables, generations, phases, *)
(* holds or crashes: who answers for an object, when its pieces may be     *)
(* deleted, and what a certificate (done_at) stands for.                   *)
(***************************************************************************)
CONSTANTS Oids, TaskIds, Prefixes

VARIABLES duty,       \* the objects a task answers for
          checked,    \* those among them whose check counts
          certified,  \* whether the task is certified as done
          pieces      \* the pairs <<oid, prefix>> under which pieces exist

vars == <<duty, checked, certified, pieces>>

Init ==
  /\ duty = [t \in TaskIds |-> {}]
  /\ checked = [t \in TaskIds |-> {}]
  /\ certified = [t \in TaskIds |-> FALSE]
  /\ pieces \in SUBSET (Oids \X Prefixes)

\* A task without objects is given some that nobody answers for.
Assign(t, S) ==
  /\ duty[t] = {} /\ ~certified[t]
  /\ \A u \in TaskIds : S \intersect duty[u] = {}
  /\ duty' = [duty EXCEPT ![t] = S]
  /\ UNCHANGED <<checked, certified, pieces>>

\* A task that is not certified gives an object up.
GiveUp(t, o) ==
  /\ ~certified[t]
  /\ duty' = [duty EXCEPT ![t] = @ \ {o}]
  /\ checked' = [checked EXCEPT ![t] = @ \ {o}]
  /\ UNCHANGED <<certified, pieces>>

\* Every check of the task, and its certificate, stops counting.
Void(t) ==
  /\ checked' = [checked EXCEPT ![t] = {}]
  /\ certified' = [certified EXCEPT ![t] = FALSE]
  /\ UNCHANGED <<duty, pieces>>

\* Pieces are deleted only under the duty of a task that has no check to lose.
Delete(t, o, p) ==
  /\ o \in duty[t]
  /\ ~certified[t] /\ checked[t] = {}
  /\ pieces' = pieces \ {<<o, p>>}
  /\ UNCHANGED <<duty, checked, certified>>

Pass(t, o) ==
  /\ o \in duty[t] /\ ~certified[t]
  /\ checked' = [checked EXCEPT ![t] = @ \union {o}]
  /\ UNCHANGED <<duty, certified, pieces>>

Certify(t) ==
  /\ duty[t] \subseteq checked[t]
  /\ certified' = [certified EXCEPT ![t] = TRUE]
  /\ UNCHANGED <<duty, checked, pieces>>

\* Others may store pieces at any time.
Store(o, p) ==
  /\ pieces' = pieces \union {<<o, p>>}
  /\ UNCHANGED <<duty, checked, certified>>

Next ==
  \/ \E t \in TaskIds : Void(t) \/ Certify(t)
  \/ \E t \in TaskIds, S \in SUBSET Oids : Assign(t, S)
  \/ \E t \in TaskIds, o \in Oids :
       GiveUp(t, o) \/ Pass(t, o) \/ \E p \in Prefixes : Delete(t, o, p)
  \/ \E o \in Oids, p \in Prefixes : Store(o, p)

Spec == Init /\ [][Next]_vars

=============================================================================
