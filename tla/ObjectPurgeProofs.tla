------------------------- MODULE ObjectPurgeProofs -------------------------
(***************************************************************************)
(* The deletion of one object, for every set of keys under its prefixes,   *)
(* every listing window and retry budget, and any number of attempts.      *)
(***************************************************************************)
EXTENDS ObjectPurge, FiniteSetTheorems, TLAPS

USE KeysAssumption, LimitsAssumption
USE DEF Keys, Prefixes, Under, rowVars, roundVars, attemptVars, history

\* The history counts as clearPrefix does, and a loop that goes on has tries left
\* for every key and for the listing.
Budget ==
  /\ tries = fails
  /\ pc = "chain" => fails = NoFails /\ listFails = 0
  /\ pc \in {"list", "delete"} =>
       listFails <= MaxRetry /\ \A k \in Keys : fails[k] <= MaxRetry

\* A delete request names well-formed pieces of the object only, and none is
\* prepared once both prefixes were empty.
Batches ==
  /\ pc = "delete" => batch \intersect Foreign = {}
  /\ pc = "recheck" => batch = {}

\* What is there under a prefix that was seen empty again was stored since.
Cleared ==
  /\ pc # "idle" => status # "done"
  /\ pc = "recheck" /\ prefix = "e" => bucket \intersect SKeys \subseteq late
  /\ pc = "record" /\ err = "nil" => bucket \subseteq late
  /\ DoneMeansClean

\* Confirmed by this attempt and not recorded yet.
Earned == IF pc = "idle" THEN 0 ELSE got["s"] + got["e"]

\* Removals are recorded, still to be recorded, or were never confirmed.
Books ==
  /\ credited + Earned <= removed
  /\ ~blind => credited + Earned = removed

ObjectInv == /\ StoreTypes /\ AttemptTypes /\ CountTypes
             /\ Budget /\ Batches /\ Cleared /\ Books

\* A delete request answers for finitely many keys: confirmed ones are removed ones.
LEMMA Confirmed ==
  ASSUME NEW gone \in SUBSET Keys, NEW deleted \in SUBSET gone
  PROVE  /\ Cardinality(gone) \in Nat /\ Cardinality(deleted) \in Nat
         /\ Cardinality(deleted) <= Cardinality(gone)
<1>1. IsFiniteSet(gone)
  BY FS_Subset
<1>2. IsFiniteSet(deleted) /\ Cardinality(deleted) <= Cardinality(gone)
  BY FS_Subset
<1> QED
  BY <1>1, <1>2, FS_CardinalityType

\* clearPrefix is only ever asked for keys there are.
LEMMA ListingInKeys ==
  ASSUME ObjectInv
  PROVE  Listing \subseteq bucket \intersect Under(prefix) /\ Listing \subseteq Keys
  BY DEF Listing

\* Which variables a part of the invariant depends on.
LEMMA Frame ==
  ASSUME ObjectInv
  PROVE  /\ UNCHANGED <<bucket, late, status, credited, role>> => StoreTypes'
         /\ UNCHANGED <<pc, prefix, batch, fails, listFails, got, err>> => AttemptTypes'
         /\ UNCHANGED <<attempts, writeBacks, removed, blind, tries>> => CountTypes'
         /\ UNCHANGED <<tries, fails, pc, listFails>> => Budget'
         /\ UNCHANGED <<pc, batch>> => Batches'
         /\ UNCHANGED <<pc, status, prefix, bucket, late, err>> => Cleared'
         /\ UNCHANGED <<credited, pc, got, removed, blind>> => Books'
<1>1. UNCHANGED <<bucket, late, status, credited, role>> => StoreTypes'
  BY DEF ObjectInv, StoreTypes
<1>2. UNCHANGED <<pc, prefix, batch, fails, listFails, got, err>> => AttemptTypes'
  BY DEF ObjectInv, AttemptTypes
<1>3. UNCHANGED <<attempts, writeBacks, removed, blind, tries>> => CountTypes'
  BY DEF ObjectInv, CountTypes
<1>4. UNCHANGED <<tries, fails, pc, listFails>> => Budget'
  BY DEF ObjectInv, Budget
<1>5. UNCHANGED <<pc, batch>> => Batches'
  BY DEF ObjectInv, Batches
<1>6. UNCHANGED <<pc, status, prefix, bucket, late, err>> => Cleared'
  BY DEF ObjectInv, Cleared, DoneMeansClean
<1>7. UNCHANGED <<credited, pc, got, removed, blind>> => Books'
  BY DEF ObjectInv, Books, Earned
<1> QED
  BY <1>1, <1>2, <1>3, <1>4, <1>5, <1>6, <1>7

\* An attempt is made on an object that is not done, with nothing confirmed yet.
LEMMA BeginInv ==
  ASSUME ObjectInv, Begin
  PROVE  ObjectInv'
<1>1. AttemptTypes'
  BY DEF AttemptTypes, Pcs, Errs, NoFails, Begin, Enter
<1>2. CountTypes'
  BY DEF ObjectInv, CountTypes, NoFails, Begin, Enter
<1>3. Budget'
  BY DEF Budget, Begin, Enter
<1>4. Batches'
  BY DEF Batches, Begin
<1>5. Cleared'
  BY DEF Cleared, DoneMeansClean, Begin
<1>6. Books'
  BY DEF ObjectInv, Books, Earned, Begin
<1>7. StoreTypes'
  BY Frame DEF Begin
<1> QED
  BY <1>1, <1>2, <1>3, <1>4, <1>5, <1>6, <1>7 DEF ObjectInv

\* The chain's answer opens the first prefix with fresh counters, or ends the attempt.
LEMMA HeadObjectInv ==
  ASSUME ObjectInv, HeadObject
  PROVE  ObjectInv'
<1>1. AttemptTypes'
  BY DEF ObjectInv, AttemptTypes, Pcs, Errs, HeadObject, GiveUp
<1>2. Budget'
  BY DEF ObjectInv, Budget, NoFails, HeadObject
<1>3. Batches'
  BY DEF Batches, HeadObject, GiveUp
<1>4. Cleared'
  BY DEF ObjectInv, Cleared, DoneMeansClean, HeadObject, GiveUp
<1>5. Books'
  BY DEF ObjectInv, Books, Earned, HeadObject, GiveUp
<1>6. StoreTypes' /\ CountTypes'
  BY Frame DEF HeadObject
<1> QED
  BY <1>1, <1>2, <1>3, <1>4, <1>5, <1>6 DEF ObjectInv

\* A failed listing uses up a try of the listing, or ends the attempt.
LEMMA ListFailsInv ==
  ASSUME ObjectInv, ListFails
  PROVE  ObjectInv'
<1>1. AttemptTypes'
  BY DEF ObjectInv, AttemptTypes, Pcs, Errs, Budget, ListFails, GiveUp
<1>2. Budget'
  BY DEF ObjectInv, Budget, ListFails, GiveUp
<1>3. Batches'
  BY DEF Batches, ListFails, GiveUp
<1>4. Cleared'
  BY DEF ObjectInv, Cleared, DoneMeansClean, ListFails, GiveUp
<1>5. Books'
  BY DEF ObjectInv, Books, Earned, ListFails, GiveUp
<1>6. StoreTypes' /\ CountTypes'
  BY Frame DEF ListFails
<1> QED
  BY <1>1, <1>2, <1>3, <1>4, <1>5, <1>6 DEF ObjectInv

\* A listing yields keys of the object only, or an unsafe error, or shows that the
\* prefix is empty.
LEMMA ListInv ==
  ASSUME ObjectInv, List
  PROVE  ObjectInv'
<1>1. AttemptTypes'
  <2>1. CASE Listing = {}
    BY <2>1 DEF ObjectInv, AttemptTypes, Pcs, Errs, NoFails, List, GiveUp, Enter
  <2>2. CASE Listing # {}
    BY <2>2, ListingInKeys DEF ObjectInv, AttemptTypes, Pcs, Errs, List, GiveUp
  <2> QED
    BY <2>1, <2>2
<1>2. CountTypes'
  BY DEF ObjectInv, CountTypes, NoFails, List, Enter
<1>3. Budget'
  BY DEF ObjectInv, Budget, NoFails, List, GiveUp, Enter
<1>4. Batches'
  BY DEF Batches, List, GiveUp, Enter, KeepOnly
<1>5. Cleared'
  BY DEF ObjectInv, Cleared, DoneMeansClean, List, GiveUp, Enter
<1>6. Books'
  BY DEF ObjectInv, Books, Earned, List, GiveUp
<1>7. StoreTypes'
  BY Frame DEF List
<1> QED
  BY <1>1, <1>2, <1>3, <1>4, <1>5, <1>6, <1>7 DEF ObjectInv

\* Every key that was sent is confirmed or uses up a try; what is confirmed was
\* removed.
LEMMA DeleteInv ==
  ASSUME ObjectInv,
         NEW gone \in SUBSET batch, NEW deleted \in SUBSET gone, NEW answered \in BOOLEAN, Delete(gone, deleted, answered)
  PROVE  ObjectInv'
<1>1. StoreTypes'
  BY DEF ObjectInv, StoreTypes, Delete
<1>2. AttemptTypes'
  <2>1. fails' \in [Keys -> 0..MaxRetry + 1]
    <3>1. \A k \in Keys : fails[k] \in Nat /\ fails[k] <= MaxRetry
      BY DEF ObjectInv, AttemptTypes, Budget, Delete
    <3>2. \A k \in Keys : fails[k] + 1 \in 0..MaxRetry + 1 /\ fails[k] \in 0..MaxRetry + 1
      BY <3>1
    <3> QED
      BY <3>2 DEF Delete, Count
  <2>2. got' \in [Prefixes -> Nat]
    <3>1. Cardinality(deleted) \in Nat
      BY Confirmed DEF ObjectInv, AttemptTypes
    <3> QED
      BY <3>1 DEF ObjectInv, AttemptTypes, Delete
  <2>3. pc' \in Pcs /\ err' \in Errs /\ UNCHANGED <<prefix, batch, listFails>>
    BY DEF ObjectInv, AttemptTypes, Pcs, Errs, Delete, GiveUp
  <2> QED
    BY <2>1, <2>2, <2>3 DEF ObjectInv, AttemptTypes
<1>3. CountTypes'
  <2>1. tries' \in [Keys -> 0..MaxRetry + 2]
    <3>1. \A k \in Keys : tries[k] \in Nat /\ tries[k] <= MaxRetry
      BY DEF ObjectInv, AttemptTypes, Budget, Delete
    <3>2. \A k \in Keys : tries[k] + 1 \in 0..MaxRetry + 2 /\ tries[k] \in 0..MaxRetry + 2
      BY <3>1
    <3> QED
      BY <3>2 DEF Delete
  <2>2. removed' \in Nat
    BY Confirmed DEF ObjectInv, AttemptTypes, CountTypes, Delete
  <2> QED
    BY <2>2 DEF ObjectInv, CountTypes, Delete
<1>4. Budget'
  BY DEF ObjectInv, AttemptTypes, Budget, Delete, GiveUp, Count
<1>5. Batches'
  BY DEF Batches, Delete, GiveUp
<1>6. Cleared'
  BY DEF ObjectInv, Cleared, DoneMeansClean, Delete, GiveUp
<1>7. Books'
  <2>1. /\ Cardinality(gone) \in Nat /\ Cardinality(deleted) \in Nat
        /\ Cardinality(deleted) <= Cardinality(gone)
    BY Confirmed DEF ObjectInv, AttemptTypes
  <2>2. Earned' = Earned + Cardinality(deleted) /\ Earned \in Nat
    <3>1. pc # "idle" /\ pc' # "idle"
      BY DEF Delete, GiveUp
    <3>2. prefix \in {"s", "e"} /\ got \in [{"s", "e"} -> Nat]
      BY DEF ObjectInv, AttemptTypes
    <3>3. got' = [got EXCEPT ![prefix] = got[prefix] + Cardinality(deleted)]
      BY DEF Delete
    <3>4. got'["s"] + got'["e"] = got["s"] + got["e"] + Cardinality(deleted)
      BY <2>1, <3>2, <3>3
    <3> QED
      BY <3>1, <3>2, <3>4 DEF Earned
  <2>3. /\ removed' = removed + Cardinality(gone) /\ credited' = credited
        /\ ~blind' => ~blind /\ gone = deleted
    BY DEF Delete
  <2>4. credited \in Nat /\ removed \in Nat
    BY DEF ObjectInv, StoreTypes, CountTypes
  <2> QED
    BY <2>1, <2>2, <2>3, <2>4 DEF ObjectInv, Books
<1> QED
  BY <1>1, <1>2, <1>3, <1>4, <1>5, <1>6, <1>7 DEF ObjectInv

\* A prefix that is seen empty again stays empty but for what is stored later.
LEMMA RecheckInv ==
  ASSUME ObjectInv, NEW failed \in BOOLEAN, Recheck(failed)
  PROVE  ObjectInv'
<1>1. StoreTypes'
  BY DEF ObjectInv, StoreTypes, Recheck
<1>2. AttemptTypes'
  BY DEF ObjectInv, AttemptTypes, Pcs, Errs, Batches, Recheck, GiveUp
<1>3. Budget'
  BY DEF ObjectInv, Budget, Recheck, GiveUp
<1>4. Batches'
  BY DEF ObjectInv, Batches, Recheck
<1>5. Cleared'
  BY DEF ObjectInv, StoreTypes, AttemptTypes, Cleared, DoneMeansClean, Recheck, GiveUp
<1>6. Books'
  BY DEF ObjectInv, Books, Earned, Recheck, GiveUp
<1>7. CountTypes'
  BY Frame DEF Recheck
<1> QED
  BY <1>1, <1>2, <1>3, <1>4, <1>5, <1>6, <1>7 DEF ObjectInv

\* An attempt that is cut records nothing, so its removals go uncounted, not double.
LEMMA CutInv ==
  ASSUME ObjectInv, Cut
  PROVE  ObjectInv'
<1>1. AttemptTypes'
  BY DEF ObjectInv, AttemptTypes, Pcs, Cut
<1>2. CountTypes'
  BY DEF ObjectInv, CountTypes, Cut
<1>3. Budget'
  BY DEF ObjectInv, Budget, Cut
<1>4. Batches'
  BY DEF Batches, Cut
<1>5. Cleared'
  BY DEF ObjectInv, Cleared, DoneMeansClean, Cut
<1>6. Books'
  <2>1. got["s"] \in Nat /\ got["e"] \in Nat /\ credited \in Nat /\ removed \in Nat
    BY DEF ObjectInv, StoreTypes, AttemptTypes, CountTypes
  <2>2. Earned' = 0 /\ Earned = got["s"] + got["e"]
    BY DEF Cut, Earned
  <2>3. UNCHANGED <<credited, removed>> /\ (~blind' => ~blind /\ ~(got["s"] + got["e"] > 0))
    BY DEF Cut
  <2> QED
    BY <2>1, <2>2, <2>3 DEF ObjectInv, Books
<1>7. StoreTypes'
  BY Frame DEF Cut
<1> QED
  BY <1>1, <1>2, <1>3, <1>4, <1>5, <1>6, <1>7 DEF ObjectInv

\* DoneSubtask or Fail adds what the attempt confirmed, once; done follows a clean re-
\* check.
LEMMA RecordInv ==
  ASSUME ObjectInv, NEW written \in BOOLEAN, Record(written)
  PROVE  ObjectInv'
<1>1. StoreTypes'
  <2>1. CASE written
    BY DEF ObjectInv, StoreTypes, AttemptTypes, Roles, Record, checkSize
  <2>2. CASE ~written
    BY <2>2 DEF ObjectInv, StoreTypes, Record
  <2> QED
    BY <2>1, <2>2
<1>2. AttemptTypes'
  BY DEF ObjectInv, AttemptTypes, Pcs, Record
<1>3. CountTypes'
  BY DEF ObjectInv, CountTypes, Record
<1>4. Budget'
  BY DEF ObjectInv, Budget, Record
<1>5. Batches'
  BY DEF Batches, Record
<1>6. Cleared'
  BY DEF ObjectInv, Cleared, DoneMeansClean, Record
<1>7. Books'
  <2>1. got["s"] \in Nat /\ got["e"] \in Nat /\ credited \in Nat /\ removed \in Nat
    BY DEF ObjectInv, StoreTypes, AttemptTypes, CountTypes
  <2>2. Earned' = 0 /\ Earned = got["s"] + got["e"]
    BY DEF Record, Earned
  <2>3. CASE written
    <3>1. credited' = credited + got["s"] + got["e"] /\ UNCHANGED <<removed, blind>>
      BY <2>3 DEF Record
    <3> QED
      BY <2>1, <2>2, <3>1 DEF ObjectInv, Books
  <2>4. CASE ~written
    <3>1. UNCHANGED <<credited, removed>> /\ (~blind' => ~blind /\ ~(got["s"] + got["e"] > 0))
      BY <2>4 DEF Record
    <3> QED
      BY <2>1, <2>2, <3>1 DEF ObjectInv, Books
  <2> QED
    BY <2>3, <2>4
<1> QED
  BY <1>1, <1>2, <1>3, <1>4, <1>5, <1>6, <1>7 DEF ObjectInv

\* Residue makes a done object claimable again, with its counters as they are.
LEMMA RequeueInv ==
  ASSUME ObjectInv, Requeue
  PROVE  ObjectInv'
<1>1. StoreTypes'
  BY DEF ObjectInv, StoreTypes, Requeue
<1>2. Cleared'
  BY DEF Cleared, DoneMeansClean, Requeue
<1>3. AttemptTypes' /\ CountTypes' /\ Budget' /\ Batches' /\ Books'
  BY Frame DEF Requeue
<1> QED
  BY <1>1, <1>2, <1>3 DEF ObjectInv

\* What another process stores is late.
LEMMA WriteBackInv ==
  ASSUME ObjectInv, NEW k \in Keys, WriteBack(k)
  PROVE  ObjectInv'
<1>1. StoreTypes'
  BY DEF ObjectInv, StoreTypes, WriteBack
<1>2. CountTypes'
  BY DEF ObjectInv, CountTypes, WriteBack
<1>3. Cleared'
  BY DEF ObjectInv, Cleared, DoneMeansClean, WriteBack
<1>4. AttemptTypes' /\ Budget' /\ Batches' /\ Books'
  BY Frame DEF WriteBack
<1> QED
  BY <1>1, <1>2, <1>3, <1>4 DEF ObjectInv

\* No attempt yet, nothing counted.
LEMMA InitObject == Init => ObjectInv
<1> SUFFICES ASSUME Init PROVE ObjectInv
  OBVIOUS
<1>1. StoreTypes /\ AttemptTypes /\ CountTypes
  <2>1. StoreTypes
    BY DEF Init, StoreTypes, Roles
  <2>2. AttemptTypes
    BY DEF Init, AttemptTypes, NoFails, Pcs, Errs
  <2>3. CountTypes
    <3>1. tries \in [Keys -> 0..MaxRetry + 2]
      BY DEF Init, NoFails
    <3>2. attempts \in 0..MaxAttempts /\ writeBacks \in 0..MaxWriteBacks /\ removed \in Nat
      BY DEF Init
    <3> QED
      BY <3>1, <3>2 DEF Init, CountTypes
  <2> QED
    BY <2>1, <2>2, <2>3
<1>2. Budget /\ Batches /\ Cleared /\ Books
  BY DEF Init, Budget, Batches, Cleared, DoneMeansClean, Books, Earned
<1> QED
  BY <1>1, <1>2 DEF ObjectInv

\* Every step of every attempt preserves the invariant.
LEMMA ObjectStep == ObjectInv /\ [Next]_vars => ObjectInv'
<1> SUFFICES ASSUME ObjectInv, [Next]_vars PROVE ObjectInv'
  OBVIOUS
<1>1. CASE UNCHANGED vars
  <2>1. StoreTypes' /\ AttemptTypes' /\ CountTypes'
    BY <1>1, Frame DEF vars
  <2>2. Budget' /\ Batches' /\ Cleared' /\ Books'
    BY <1>1, Frame DEF vars
  <2> QED
    BY <2>1, <2>2 DEF ObjectInv
<1>2. CASE Attempt
  BY <1>2, HeadObjectInv, ListFailsInv, ListInv, DeleteInv, RecheckInv, CutInv,
     RecordInv DEF Attempt
<1> QED
  BY <1>1, <1>2, BeginInv, RequeueInv, WriteBackInv DEF Next

\* The inductive invariant holds in every reachable state.
THEOREM ObjectCorrect == Spec => []ObjectInv
  BY InitObject, ObjectStep, PTL DEF Spec

-----------------------------------------------------------------------------
(* What follows from it.                                                   *)

\* The row, the attempt and the counters keep their types; a batch never mixes the
\* two prefixes.
THEOREM ObjectTypes == Spec => []TypeOK
<1>1. ObjectInv => TypeOK
  BY DEF ObjectInv, TypeOK
<1> QED
  BY <1>1, ObjectCorrect, PTL

\* A row says "done" only when both prefixes were seen empty after the deletion:
\* what is there now was stored after the re-check of its prefix, for any number of
\* keys and whatever another process stores meanwhile.
THEOREM CleanSafe == Spec => []DoneMeansClean
<1>1. ObjectInv => DoneMeansClean
  BY DEF ObjectInv, Cleared
<1> QED
  BY <1>1, ObjectCorrect, PTL

\* No piece is asked for more than MaxRetry + 1 times in a row without being
\* confirmed, for every budget, although clearPrefix's counters start over with the
\* prefix and a batch that fails as a whole counts for each of its keys.
THEOREM BudgetSafe == Spec => []PieceBudget
<1>1. ObjectInv => PieceBudget
  BY DEF ObjectInv, AttemptTypes, Budget, PieceBudget
<1> QED
  BY <1>1, ObjectCorrect, PTL

\* deleted_keys counts no removal twice and none that did not happen, over any number
\* of attempts, and all of them when each was confirmed and recorded.
THEOREM CreditSafe == Spec => []CreditSound
<1>1. ObjectInv => CreditSound
  BY DEF ObjectInv, StoreTypes, AttemptTypes, CountTypes, Books, Earned, CreditSound
<1> QED
  BY <1>1, ObjectCorrect, PTL

\* No step removes a key that is not a well-formed piece of the object, also one
\* that turns up between two rounds of clearPrefix.
THEOREM PiecesSafe == Spec => OnlyOwnPieces
<1> DEFINE Step == Foreign \intersect bucket \subseteq bucket'
<1>1. ASSUME ObjectInv, [Next]_vars PROVE [Step]_vars
  <2>1. CASE UNCHANGED vars
    BY <2>1
  <2>2. CASE Attempt
    <3>1. ASSUME NEW gone \in SUBSET batch, NEW deleted \in SUBSET gone,
                 NEW answered \in BOOLEAN, Delete(gone, deleted, answered)
          PROVE  Step
      BY <1>1, <3>1 DEF ObjectInv, Batches, Delete
    <3> QED
      BY <2>2, <3>1 DEF Attempt, HeadObject, ListFails, List, Recheck, Cut, Record
  <2> QED
    BY <1>1, <2>2 DEF Next, Begin, Requeue, WriteBack
<1> QED
  BY <1>1, ObjectCorrect, PTL DEF Spec, OnlyOwnPieces

-----------------------------------------------------------------------------
(* What liveness rests on.                                                 *)

\* A delete request names keys that were listed and that only it can remove.
Pending == pc = "delete" => batch # {} /\ batch \subseteq bucket

\* The parts of an attempt, counted from its end.
Part == CASE pc = "chain" -> 6
          [] pc \in {"list", "delete"} /\ prefix = "s" -> 5
          [] pc \in {"list", "delete"} /\ prefix = "e" -> 4
          [] pc = "recheck" /\ prefix = "s" -> 3
          [] pc = "recheck" /\ prefix = "e" -> 2
          [] pc = "record" -> 1
          [] OTHER -> 0

\* A round that goes on removes a key; or it removes none, and then some key has
\* one try less and none has one more; or it has still to ask.
RoundAdvances ==
  \/ bucket' \subseteq bucket /\ bucket' # bucket
  \/ /\ bucket' = bucket
     /\ \A k \in Keys : fails'[k] >= fails[k]
     /\ \E k \in Keys : fails'[k] > fails[k]
  \/ bucket' = bucket /\ fails' = fails /\ pc = "list" /\ pc' = "delete"
  \/ /\ bucket' = bucket /\ fails' = fails /\ pc = "list" /\ pc' = "list"
     /\ listFails' = listFails + 1 /\ listFails' <= MaxRetry

\* The other actors leave the attempt in its part; it goes on to a later part, or
\* stays in clearPrefix's loop and gets on there.
Advances ==
  IF Attempt THEN Part' < Part \/ (Part' = Part /\ RoundAdvances)
  ELSE pc # "idle" => Part' = Part /\ fails' = fails /\ listFails' = listFails

\* List prepares the keys it found, and nobody else removes one.
LEMMA PendingStep ==
  ASSUME ObjectInv, Pending, [Next]_vars
  PROVE  Pending'
<1> USE DEF Pending
<1>1. CASE UNCHANGED vars
  BY <1>1 DEF vars
<1>2. CASE List
  BY <1>2, ListingInKeys DEF List, GiveUp
<1>3. CASE HeadObject \/ ListFails \/ Cut
  BY <1>3 DEF HeadObject, ListFails, Cut, GiveUp
<1>4. ASSUME NEW gone, NEW deleted, NEW answered, Delete(gone, deleted, answered)
      PROVE  Pending'
  BY <1>4 DEF Delete, GiveUp
<1>5. ASSUME NEW failed, Recheck(failed) PROVE Pending'
  BY <1>5 DEF Recheck, GiveUp
<1>6. ASSUME NEW written, Record(written) PROVE Pending'
  BY <1>6 DEF Record
<1>7. CASE Begin \/ Requeue \/ \E k \in Keys : WriteBack(k)
  BY <1>7 DEF Begin, Requeue, WriteBack
<1> QED
  BY <1>1, <1>2, <1>3, <1>4, <1>5, <1>6, <1>7 DEF Next, Attempt

\* A delete request that removes nothing costs each of its keys a try.
LEMMA DeleteAdvances ==
  ASSUME ObjectInv, Pending, NEW gone \in SUBSET batch, NEW deleted \in SUBSET gone,
         NEW answered \in BOOLEAN, Delete(gone, deleted, answered)
  PROVE  RoundAdvances
<1>1. batch # {} /\ batch \subseteq bucket /\ batch \subseteq Keys
  BY DEF ObjectInv, AttemptTypes, Pending, Delete
<1>2. bucket' = bucket \ gone /\ fails' = Count(deleted, answered)
  BY DEF Delete
<1>3. CASE gone # {}
  <2>1. PICK k \in gone : TRUE
    BY <1>3
  <2>2. k \in bucket /\ k \notin bucket' /\ bucket' \subseteq bucket
    BY <1>1, <1>2, <2>1
  <2> QED
    BY <2>2 DEF RoundAdvances
<1>4. CASE gone = {}
  <2>1. bucket' = bucket /\ deleted = {}
    BY <1>2, <1>4
  <2>2. PICK b \in batch : TRUE
    BY <1>1
  <2>3. \A k \in Keys : fails[k] \in Int
    BY DEF ObjectInv, AttemptTypes
  <2>4. ASSUME NEW k \in Keys
        PROVE  fails'[k] = IF k \in batch THEN fails[k] + 1 ELSE fails[k]
    BY <1>2, <2>1 DEF Count
  <2>5. (\A k \in Keys : fails'[k] >= fails[k]) /\ fails'[b] > fails[b] /\ b \in Keys
    BY <1>1, <2>2, <2>3, <2>4
  <2> QED
    BY <2>1, <2>5 DEF RoundAdvances
<1> QED
  BY <1>3, <1>4

\* A listing ends the prefix or the attempt, or leads to a delete request; one that
\* fails uses up the listing's own budget.
LEMMA ListAdvances ==
  ASSUME ObjectInv, List \/ ListFails
  PROVE  Part' < Part \/ (Part' = Part /\ RoundAdvances)
<1>1. prefix \in {"s", "e"} /\ listFails \in Int
  BY DEF ObjectInv, AttemptTypes
<1>2. CASE List
  BY <1>1, <1>2 DEF List, GiveUp, Enter, Part, RoundAdvances
<1>3. CASE ListFails
  BY <1>1, <1>3 DEF ListFails, GiveUp, Part, RoundAdvances
<1> QED
  BY <1>2, <1>3

\* Every step of an attempt brings its end nearer: a later part of ProcessOne, or in
\* the loop of clearPrefix a key less, a try less, a request after a listing, or a
\* listing less, in this order of weight.  Keys and tries are finitely many, so an
\* attempt is endless only if others store keys without end.
THEOREM AttemptAdvances == Spec => [][Advances]_vars
<1>1. Init => Pending
  BY DEF Init, Pending
<1>2. ObjectInv /\ Pending /\ [Next]_vars => Pending'
  BY PendingStep
<1>3. ASSUME ObjectInv, Pending, [Next]_vars PROVE [Advances]_vars
  <2>1. CASE UNCHANGED vars
    BY <2>1
  <2>2. CASE Attempt
    <3>1. prefix \in {"s", "e"}
      BY <1>3 DEF ObjectInv, AttemptTypes
    <3>2. ASSUME HeadObject \/ Cut PROVE Part' < Part
      BY <3>1, <3>2 DEF HeadObject, Cut, GiveUp, Part
    <3>3. ASSUME NEW gone \in SUBSET batch, NEW deleted \in SUBSET gone,
                 NEW answered \in BOOLEAN, Delete(gone, deleted, answered)
          PROVE  Part' < Part \/ (Part' = Part /\ RoundAdvances)
      <4>1. RoundAdvances
        BY <1>3, <3>3, DeleteAdvances
      <4> QED
        BY <3>1, <3>3, <4>1 DEF Delete, GiveUp, Part
    <3>4. ASSUME NEW failed \in BOOLEAN, Recheck(failed) PROVE Part' < Part
      BY <3>1, <3>4 DEF Recheck, GiveUp, Part
    <3>5. ASSUME NEW written \in BOOLEAN, Record(written) PROVE Part' < Part
      BY <3>5 DEF Record, Part
    <3>6. Part' < Part \/ (Part' = Part /\ RoundAdvances)
      BY <1>3, <2>2, <3>2, <3>3, <3>4, <3>5, ListAdvances DEF Attempt
    <3> QED
      BY <2>2, <3>6 DEF Advances
  <2>3. CASE ~Attempt /\ (Begin \/ Requeue \/ \E k \in Keys : WriteBack(k))
    BY <2>3 DEF Advances, Begin, Requeue, WriteBack, Part
  <2> QED
    BY <1>3, <2>1, <2>2, <2>3 DEF Next
<1> QED
  BY <1>1, <1>2, <1>3, ObjectCorrect, PTL DEF Spec

=============================================================================
