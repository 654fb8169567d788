---------------------------- MODULE ObjectPurge ----------------------------
(***************************************************************************)
(* Every attempt to delete one object: the chain check, clearPrefix round  *)
(* by round for s<oid>_ and e<oid>_, the read-only re-check and the row it *)
(* leaves in purge_progress.  Module Subtasks has clearPrefix as one step; *)
(* here are its listing window, the retry budget of each piece, delete     *)
(* answers that are lost or partial, and what the counters make of it.     *)
(*                                                                         *)
(* A key is a number: keys of one prefix are listed in ascending order.    *)
(* A batch delete answers for each of its keys (Quiet is false); a store   *)
(* that left keys out of the answer is outside this module.                *)
(***************************************************************************)
EXTENDS Integers, FiniteSets

CONSTANTS SKeys, EKeys,   \* keys there may be under s<oid>_ and e<oid>_
          Foreign,        \* those that are no well-formed piece of the object
          Window,         \* keys of one listing (1000 in the code)
          MaxRetry,       \* --max-retry
          MaxAttempts,    \* bound: attempts on the object
          MaxWriteBacks   \* bound: keys that another process stores

Keys == SKeys \union EKeys
ASSUME KeysAssumption == /\ Keys \subseteq Nat
                         /\ SKeys \intersect EKeys = {}
                         /\ Foreign \subseteq Keys
                         /\ IsFiniteSet(Keys)   \* a key has 1024 bytes at most
ASSUME LimitsAssumption == /\ Window \in Nat \ {0}
                           /\ MaxRetry \in Nat
                           /\ MaxAttempts \in Nat /\ MaxWriteBacks \in Nat

Prefixes == {"s", "e"}
Under(p) == IF p = "s" THEN SKeys ELSE EKeys
Roles == {"null", "none", "primary", "secondary", "mixed"}   \* null: no value

\* idle: no attempt.  chain: before the chain's answer.  list, delete: inside
\* clearPrefix.  recheck: inside the re-check.  record: before the write.
Pcs == {"idle", "chain", "list", "delete", "recheck", "record"}
Errs == {"nil", "fail", "unsafe"}

VARIABLES
  bucket,                  \* the keys that exist
  status, credited, role,  \* the object's row: status, deleted_keys, role
  pc, prefix, batch,       \* the attempt; the prefix it is at; keys listed
  fails, listFails, got,   \* clearPrefix's counters; SKeys and EKeys of Result
  err,                     \* Result.Err
  attempts, writeBacks,    \* how often the bounded actions happened
  removed,                 \* history: keys removed by delete requests
  blind,                   \* history: some removal was never answered or recorded
  tries,                   \* history: deletes in a row that did not confirm a
                           \* key while this prefix is cleared (saturates)
  late                     \* history: keys stored since their prefix's re-check

rowVars     == <<status, credited, role>>
roundVars   == <<batch, fails, listFails, got>>
attemptVars == <<pc, prefix, roundVars, err>>
history     == <<removed, blind, tries, late>>
vars == <<bucket, rowVars, attemptVars, attempts, writeBacks, history>>

NoFails == [k \in Keys |-> 0]

Init ==
  /\ bucket \in SUBSET Keys
  /\ status = "none" /\ credited = 0 /\ role = "null"
  /\ pc = "idle" /\ prefix = "s" /\ batch = {} /\ fails = NoFails /\ listFails = 0
  /\ got = [p \in Prefixes |-> 0] /\ err = "nil"
  /\ attempts = 0 /\ writeBacks = 0
  /\ removed = 0 /\ blind = FALSE /\ tries = NoFails /\ late = {}

-----------------------------------------------------------------------------

\* clearPrefix starts with fresh counters.
Enter(p) ==
  /\ prefix' = p
  /\ fails' = NoFails
  /\ listFails' = 0
  /\ batch' = {}
  /\ tries' = NoFails

\* The object is claimed: its row is missing or says "failed".
Begin ==
  /\ pc = "idle" /\ status # "done" /\ attempts < MaxAttempts
  /\ pc' = "chain"
  /\ Enter("s")
  /\ got' = [p \in Prefixes |-> 0]
  /\ err' = "nil"
  /\ attempts' = attempts + 1
  /\ UNCHANGED <<bucket, rowVars, writeBacks, removed, blind, late>>

\* The attempt ends with an error; handle records it next.
GiveUp(e) ==
  /\ pc' = "record"
  /\ err' = e

\* The lookup fails, or the chain denies the identity, or it confirms it.
HeadObject ==
  /\ pc = "chain"
  /\ \/ pc' = "list" /\ UNCHANGED err
     \/ \E e \in {"fail", "unsafe"} : GiveUp(e)
  /\ UNCHANGED <<bucket, rowVars, prefix, roundVars, attempts, writeBacks, history>>

\* A listing fails: retried while the failures in a row are within the budget.
ListFails ==
  /\ pc = "list"
  /\ listFails' = listFails + 1
  /\ IF listFails' > MaxRetry THEN GiveUp("fail") ELSE UNCHANGED <<pc, err>>
  /\ UNCHANGED <<bucket, rowVars, prefix, batch, fails, got, attempts, writeBacks,
                 history>>

WrongKeepOnly(keys) == keys   \* trusts the prefix

\* The keys that are pieces of this object.
KeepOnly(keys) == keys \ Foreign

\* The first Window keys under the prefix.
Listing ==
  LET there == bucket \intersect Under(prefix)
  IN  {k \in there : Cardinality({j \in there : j < k}) < Window}

\* A listing succeeds: the prefix is empty (on to the next one, then to the
\* re-check), or holds a key that may not be deleted, or gives a batch.
List ==
  /\ pc = "list"
  /\ \/ /\ Listing = {}
        /\ pc' = IF prefix = "s" THEN "list" ELSE "recheck"
        /\ Enter(IF prefix = "s" THEN "e" ELSE "s")
        /\ UNCHANGED err
     \/ /\ KeepOnly(Listing) # Listing
        /\ listFails' = 0
        /\ GiveUp("unsafe")
        /\ UNCHANGED <<prefix, batch, fails, tries>>
     \/ /\ Listing # {} /\ KeepOnly(Listing) = Listing
        /\ listFails' = 0
        /\ batch' = Listing
        /\ pc' = "delete"
        /\ UNCHANGED <<prefix, fails, tries, err>>
  /\ UNCHANGED <<bucket, rowVars, got, attempts, writeBacks, removed, blind, late>>

WrongCount(deleted, answered) ==   \* a request that fails as a whole counts nothing
  [k \in Keys |-> CASE k \in deleted                    -> 0
                    [] answered /\ k \in batch \ deleted -> fails[k] + 1
                    [] OTHER                            -> fails[k]]

\* Failures per piece after an answer: a confirmed key starts over, every other
\* key of the batch counts one (all of them when the request itself failed).
Count(deleted, answered) ==
  [k \in Keys |-> CASE k \in deleted         -> 0
                    [] k \in batch \ deleted -> fails[k] + 1
                    [] OTHER                 -> fails[k]]

\* gone: what the store removed.  deleted: what it confirms, nothing when the
\* answer is lost.  A key that still fails after MaxRetry retries ends the attempt.
Delete(gone, deleted, answered) ==
  /\ pc = "delete"
  /\ gone \subseteq batch /\ deleted \subseteq gone
  /\ ~answered => deleted = {}
  /\ bucket' = bucket \ gone
  /\ fails' = Count(deleted, answered)
  /\ got' = [got EXCEPT ![prefix] = @ + Cardinality(deleted)]
  /\ IF \E k \in batch : fails'[k] > MaxRetry
     THEN GiveUp("fail")
     ELSE pc' = "list" /\ UNCHANGED err
  /\ tries' = [k \in Keys |-> CASE k \in deleted -> 0
                                 [] k \in batch \ deleted /\ tries[k] <= MaxRetry + 1 -> tries[k] + 1
                                 [] OTHER -> tries[k]]
  /\ removed' = removed + Cardinality(gone)
  /\ blind' = (blind \/ gone # deleted)
  /\ UNCHANGED <<rowVars, prefix, batch, listFails, attempts, writeBacks, late>>

WrongRecheck(failed) ==   \* looks at the error and not at the answer
  /\ pc = "recheck"
  /\ IF failed
     THEN GiveUp("fail") /\ UNCHANGED <<prefix, late>>
     ELSE /\ prefix' = "e"
          /\ pc' = IF prefix = "s" THEN "recheck" ELSE "record"
          /\ late' = late \ Under(prefix)
          /\ UNCHANGED err
  /\ UNCHANGED <<bucket, rowVars, roundVars, attempts, writeBacks, removed, blind,
                 tries>>

\* Empty(prefix) once more for both prefixes; a failed look fails the object.
Recheck(failed) ==
  /\ pc = "recheck"
  /\ IF failed \/ bucket \intersect Under(prefix) # {}
     THEN GiveUp("fail") /\ UNCHANGED <<prefix, late>>
     ELSE /\ prefix' = "e"
          /\ pc' = IF prefix = "s" THEN "recheck" ELSE "record"
          /\ late' = late \ Under(prefix)
          /\ UNCHANGED err
  /\ UNCHANGED <<bucket, rowVars, roundVars, attempts, writeBacks, removed, blind,
                 tries>>

\* The context ends (a halt, a lost lock, Ctrl+C) before the attempt does, or
\* the process dies: nothing is recorded.
Cut ==
  /\ pc \in {"chain", "list", "delete", "recheck"}
  /\ pc' = "idle"
  /\ blind' = (blind \/ got["s"] + got["e"] > 0)
  /\ UNCHANGED <<bucket, rowVars, prefix, roundVars, err, attempts, writeBacks,
                 removed, tries, late>>

\* The role of the provider, from the prefixes this attempt deleted from.
checkSize ==
  CASE got["s"] > 0 /\ got["e"] > 0 -> "mixed"
    [] got["s"] > 0 /\ got["e"] = 0 -> "primary"
    [] got["s"] = 0 /\ got["e"] > 0 -> "secondary"
    [] OTHER                        -> "none"

WrongRecord(written) ==   \* the counters of the last attempt only
  /\ pc = "record"
  /\ pc' = "idle"
  /\ IF written
     THEN /\ status' = IF err = "nil" THEN "done" ELSE "failed"
          /\ credited' = got["s"] + got["e"]
          /\ role' = IF err = "nil" THEN checkSize ELSE role
          /\ UNCHANGED blind
     ELSE blind' = (blind \/ got["s"] + got["e"] > 0) /\ UNCHANGED rowVars
  /\ UNCHANGED <<bucket, prefix, roundVars, err, attempts, writeBacks, removed,
                 tries, late>>

\* DoneSubtask or Fail, both adding to the row; the write may be lost.  Only Done
\* stores a role, and a role that was inferred outlives an attempt with none.
Record(written) ==
  /\ pc = "record"
  /\ pc' = "idle"
  /\ IF written
     THEN /\ status' = IF err = "nil" THEN "done" ELSE "failed"
          /\ credited' = credited + got["s"] + got["e"]
          /\ role' = CASE err # "nil" -> role
                       [] err = "nil" /\ checkSize = "none" /\ status # "none" -> role
                       [] OTHER -> checkSize
          /\ UNCHANGED blind
     ELSE blind' = (blind \/ got["s"] + got["e"] > 0) /\ UNCHANGED rowVars
  /\ UNCHANGED <<bucket, prefix, roundVars, err, attempts, writeBacks, removed,
                 tries, late>>

\* verify found residue and the next purge makes the object claimable again.
Requeue ==
  /\ pc = "idle" /\ status = "done" /\ bucket # {}
  /\ status' = "failed"
  /\ UNCHANGED <<bucket, credited, role, attemptVars, attempts, writeBacks, history>>

\* Another process stores a key.
WriteBack(k) ==
  /\ writeBacks < MaxWriteBacks /\ k \notin bucket
  /\ bucket' = bucket \union {k}
  /\ writeBacks' = writeBacks + 1
  /\ late' = late \union {k}
  /\ UNCHANGED <<rowVars, attemptVars, attempts, removed, blind, tries>>

Attempt ==
  \/ HeadObject \/ ListFails \/ List
  \/ \E gone \in SUBSET batch : \E deleted \in SUBSET gone, answered \in BOOLEAN :
       Delete(gone, deleted, answered)
  \/ \E failed \in BOOLEAN : Recheck(failed)
  \/ Cut
  \/ \E written \in BOOLEAN : Record(written)

Next == Begin \/ Attempt \/ Requeue \/ \E k \in Keys : WriteBack(k)

Spec == Init /\ [][Next]_vars

\* Every request has a deadline and every wait is timed, so an attempt goes on.
FairSpec == Spec /\ WF_vars(Attempt)

-----------------------------------------------------------------------------
(* Correctness.                                                            *)

StoreTypes ==
  /\ bucket \subseteq Keys /\ late \subseteq Keys
  /\ status \in {"none", "done", "failed"} /\ credited \in Nat /\ role \in Roles

AttemptTypes ==
  /\ pc \in Pcs /\ prefix \in Prefixes /\ batch \subseteq Under(prefix)
  /\ fails \in [Keys -> 0..MaxRetry + 1] /\ listFails \in 0..MaxRetry + 1
  /\ got \in [Prefixes -> Nat] /\ err \in Errs

CountTypes ==
  /\ attempts \in 0..MaxAttempts /\ writeBacks \in 0..MaxWriteBacks
  /\ removed \in Nat /\ blind \in BOOLEAN /\ tries \in [Keys -> 0..MaxRetry + 2]

\* Every field has its type; deletes are only prepared for keys of one prefix.
TypeOK == StoreTypes /\ AttemptTypes /\ CountTypes

\* No attempt, however it ends, removes a key that is not a well-formed piece of
\* the object, even when it shows up between two rounds of the loop.
OnlyOwnPieces == [][Foreign \intersect bucket \subseteq bucket']_vars

\* A row says "done" only of an object both of whose prefixes were seen empty
\* after its deletion: whatever is there was stored after that re-check.
DoneMeansClean == status = "done" => bucket \subseteq late

\* Retries are bounded per piece: no key is asked for more than MaxRetry + 1
\* times without being confirmed, whichever requests fail, lose their answers or
\* refuse it and whatever its neighbours in the batch do; the loop goes on only
\* while every key has tries left.
PieceBudget ==
  \A k \in Keys : /\ tries[k] <= MaxRetry + 1
                  /\ pc \in {"list", "delete"} => tries[k] <= MaxRetry

\* The row never claims a removal that did not happen and counts none twice, over
\* attempts that fail, are cut or succeed; with every removal answered and every
\* attempt recorded it counts all of them.
CreditSound ==
  /\ credited <= removed
  /\ ~blind /\ pc = "idle" => credited = removed

\* Every attempt ends.
AttemptEnds == pc # "idle" ~> pc = "idle"

\* "role/expected are kept from an earlier attempt when this one found nothing
\* left to infer them from, so the size comparison is always cumulative
\* deleted_bytes vs expected_bytes" (progress.go, Done).
SizeAlwaysCompared ==
  status = "done" /\ credited > 0 => role \notin {"null", "none"}

=============================================================================
