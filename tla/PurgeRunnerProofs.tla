------------------------- MODULE PurgeRunnerProofs -------------------------
(***************************************************************************)
(* The safety properties of PurgeRunner, for every set of objects, every   *)
(* number of workers, every channel and page size, and every number of     *)
(* requests to an attempt.                                                 *)
(***************************************************************************)
EXTENDS PurgeRunner, FiniteSetTheorems, TLAPS

USE OidsAssumption, RunnerAssumption, ActorsAssumption DEF Feed, Beat, Nobody

\* A worker whose attempt has begun and is not settled yet.
Underway == Handling \ {"start"}

-----------------------------------------------------------------------------
(* The inductive invariant, part by part.                                  *)

\* What the cursor has passed and what it has not: a page is ahead of it and
\* leaves no object out, everything else is behind it.
Cursor ==
  /\ \A o \in batch : o > after
  /\ \A o \in batch : \A u \in Oids : after < u /\ u < o => u \in batch
  /\ \A o \in queue \union begun : o <= after
  /\ queue \intersect begun = {}
  /\ \A w \in Workers : InHand(w) => obj[w] \in Oids /\ obj[w] <= after

\* An object is in one place: in the channel or in one worker's hands.
Apart ==
  /\ \A w \in Workers : InHand(w) => obj[w] \notin queue
  /\ \A v, w \in Workers : InHand(v) /\ InHand(w) /\ obj[v] = obj[w] => v = w

\* What the counters say of an object in a worker's hands.
Fresh ==
  \A w \in Workers : InHand(w) =>
    /\ wpc[w] \in Underway <=> obj[w] \in begun
    /\ prog[obj[w]] = "none"
    /\ obj[w] \notin interrupted \union unrecorded
    /\ wpc[w] # "write" => obj[w] \notin failed

\* What is known of an attempt's verdict.
Judged ==
  \A w \in Workers :
    /\ wpc[w] = "judge" /\ res[w] = "cut" => cancelled
    /\ wpc[w] = "judge" /\ res[w] \in {"fail", "unsafe"} => obj[w] \in faulty
    /\ wpc[w] \in {"halt", "persist"} => res[w] = "unsafe" /\ obj[w] \in faulty
    /\ wpc[w] = "write" /\ res[w] # "ok" => obj[w] \in faulty \intersect failed
    /\ wpc[w] = "persist" => halting # "no"

\* An object whose attempt began is counted or still in a worker's hands.
Books ==
  /\ \A o \in Oids : prog[o] # "none" => o \in begun
  /\ failed \union interrupted \union unrecorded \subseteq begun
  /\ \A o \in begun : \/ prog[o] = "done"
                      \/ o \in failed \union interrupted \union unrecorded
                      \/ \E w \in Workers : wpc[w] \in Underway /\ obj[w] = o
  /\ interrupted # {} => cancelled
  /\ \A o \in interrupted : prog[o] = "none" /\ o \notin failed \union unrecorded

\* Nothing behind the cursor is forgotten unless the run is stopped or cancelled,
\* and a feed that ends by itself has passed everything.
Covered ==
  /\ \A o \in Oids : o <= after =>
       \/ o \in queue \union begun
       \/ stopErr \/ cancelled
       \/ \E w \in Workers : wpc[w] \in {"got", "start"} /\ obj[w] = o
  /\ feed = "closed" /\ ~stopErr /\ ~claimErr => \A o \in Oids : o <= after

\* Why a context is done, and what became of a violation.
Causes ==
  /\ lost => parentDone /\ mutex = Nobody
  /\ parentDone => cancelled
  /\ cancelled => haltErr # 0 \/ parentDone
  /\ haltErr = 0 <=> halting = "no"
  /\ hold => haltErr # 0
  /\ halting = "done" => hold \/ holdErr
  /\ halting = "busy" => \E w \in Workers : wpc[w] = "persist"

\* A worker leaves a closed and empty channel, Run returns after all of them, and
\* returns nil with no error field set.
Ended ==
  /\ \A w \in Workers : wpc[w] = "exit" => feed = "closed" /\ queue = {}
  /\ result # "running" => \A w \in Workers : wpc[w] = "exit"
  /\ result = "nil" => /\ haltErr = 0 /\ failed = {} /\ unrecorded = {}
                       /\ \A o \in Oids : prog[o] = "done"

RunnerInv ==
  /\ Types /\ MutexHeld
  /\ Cursor /\ Apart /\ Fresh /\ Judged /\ Books /\ CutIsNotFailure /\ Covered /\ Causes /\ Ended

USE DEF ledger, feeding, working, errs, counts, ctx, lock, past

\* Which variables a part depends on.
LEMMA Frame ==
  ASSUME RunnerInv
  PROVE  /\ UNCHANGED <<prog, hold>> => LedgerTypes'
         /\ UNCHANGED <<feed, batch, after, claimErr, queue>> => FeedTypes'
         /\ UNCHANGED <<wpc, obj, reqs, res>> => WorkerTypes'
         /\ UNCHANGED <<stopErr, haltErr, halting, holdErr>> => ErrorTypes'
         /\ UNCHANGED <<failed, interrupted, unrecorded>> => CountTypes'
         /\ UNCHANGED <<cancelled, parentDone, mutex, lost, result>> => LockTypes'
         /\ UNCHANGED <<begun, cleared, faulty>> => PastTypes'
         /\ UNCHANGED <<feed, mutex, wpc>> => MutexHeld'
         /\ UNCHANGED <<batch, after, queue, begun, wpc, obj>> => Cursor'
         /\ UNCHANGED <<queue, wpc, obj>> => Apart'
         /\ UNCHANGED <<wpc, obj, begun, prog, interrupted, unrecorded, failed>> => Fresh'
         /\ UNCHANGED <<wpc, obj, res, faulty, failed, halting, cancelled>> => Judged'
         /\ UNCHANGED <<prog, begun, failed, interrupted, unrecorded, wpc, obj, cancelled>> => Books'
         /\ UNCHANGED <<prog, faulty>> => CutIsNotFailure'
         /\ UNCHANGED <<after, queue, begun, stopErr, cancelled, wpc, obj, feed, claimErr>> => Covered'
         /\ UNCHANGED <<lost, parentDone, mutex, cancelled, haltErr, halting, hold, holdErr, wpc>> => Causes'
         /\ UNCHANGED <<wpc, feed, queue, result, haltErr, failed, unrecorded, prog>> => Ended'
<1>1. UNCHANGED <<prog, hold>> => LedgerTypes'
  BY DEF RunnerInv, Types, LedgerTypes
<1>2. UNCHANGED <<feed, batch, after, claimErr, queue>> => FeedTypes'
  BY DEF RunnerInv, Types, FeedTypes
<1>3. UNCHANGED <<wpc, obj, reqs, res>> => WorkerTypes'
  BY DEF RunnerInv, Types, WorkerTypes
<1>4. UNCHANGED <<stopErr, haltErr, halting, holdErr>> => ErrorTypes'
  BY DEF RunnerInv, Types, ErrorTypes
<1>5. UNCHANGED <<failed, interrupted, unrecorded>> => CountTypes'
  BY DEF RunnerInv, Types, CountTypes
<1>6. UNCHANGED <<cancelled, parentDone, mutex, lost, result>> => LockTypes'
  BY DEF RunnerInv, Types, LockTypes
<1>7. UNCHANGED <<begun, cleared, faulty>> => PastTypes'
  BY DEF RunnerInv, Types, PastTypes
<1>8. UNCHANGED <<feed, mutex, wpc>> => MutexHeld'
  BY DEF RunnerInv, MutexHeld
<1>9. UNCHANGED <<batch, after, queue, begun, wpc, obj>> => Cursor'
  BY DEF RunnerInv, Cursor, InHand
<1>10. UNCHANGED <<queue, wpc, obj>> => Apart'
  BY DEF RunnerInv, Apart, InHand
<1>11. UNCHANGED <<wpc, obj, begun, prog, interrupted, unrecorded, failed>> => Fresh'
  BY DEF RunnerInv, Fresh, InHand
<1>12. UNCHANGED <<wpc, obj, res, faulty, failed, halting, cancelled>> => Judged'
  BY DEF RunnerInv, Judged
<1>13. UNCHANGED <<prog, begun, failed, interrupted, unrecorded, wpc, obj, cancelled>> => Books'
  BY DEF RunnerInv, Books
<1>14. UNCHANGED <<prog, faulty>> => CutIsNotFailure'
  BY DEF RunnerInv, CutIsNotFailure
<1>15. UNCHANGED <<after, queue, begun, stopErr, cancelled, wpc, obj, feed, claimErr>> => Covered'
  BY DEF RunnerInv, Covered
<1>16. UNCHANGED <<lost, parentDone, mutex, cancelled, haltErr, halting, hold, holdErr, wpc>> => Causes'
  BY DEF RunnerInv, Causes
<1>17. UNCHANGED <<wpc, feed, queue, result, haltErr, failed, unrecorded, prog>> => Ended'
  BY DEF RunnerInv, Ended
<1> QED
  BY <1>1, <1>2, <1>3, <1>4, <1>5, <1>6, <1>7, <1>8, <1>9, <1>10, <1>11, <1>12, <1>13,
     <1>14, <1>15, <1>16, <1>17

\* Whatever is ahead of the cursor is still to be claimed.
LEMMA AheadIsRow ==
  ASSUME RunnerInv, NEW u \in Oids, after < u
  PROVE  u \in Rows
<1>1. u \notin begun
  BY DEF RunnerInv, Types, FeedTypes, Cursor
<1> QED
  BY <1>1 DEF RunnerInv, Books, Rows

\* A page leaves out no row before one of its own.
LEMMA PageIsPrefix ==
  ASSUME NEW o \in Rows, NEW u \in Rows, u < o,
         Cardinality({v \in Rows : v < o}) < Page
  PROVE  Cardinality({v \in Rows : v < u}) < Page
<1> DEFINE Below(x) == {v \in Rows : v < x}
<1>1. o \in Nat /\ u \in Nat /\ Rows \subseteq Nat \ {0}
  BY DEF Rows
<1>2. Below(o) \in SUBSET (1..o) /\ Below(u) \in SUBSET Below(o)
  <2>1. \A v \in Rows : v < o => v \in 1..o
    BY <1>1
  <2>2. \A v \in Rows : v < u => v < o
    BY <1>1
  <2> QED
    BY <2>1, <2>2
<1>3. IsFiniteSet(Below(o))
  <2>1. IsFiniteSet(1..o)
    BY <1>1, FS_Interval
  <2> QED
    BY <1>2, <2>1, FS_Subset
<1>4. IsFiniteSet(Below(u)) /\ Cardinality(Below(u)) <= Cardinality(Below(o))
  BY <1>2, <1>3, FS_Subset
<1>5. Cardinality(Below(u)) \in Nat /\ Cardinality(Below(o)) \in Nat
  BY <1>3, <1>4, FS_CardinalityType
<1> QED
  BY <1>4, <1>5

\* A worker that has an object in hand has one.
LEMMA HasObject ==
  ASSUME RunnerInv, NEW w \in Workers, InHand(w)
  PROVE  obj[w] \in Oids /\ obj[w] \in Nat \ {0}
  BY DEF RunnerInv, Cursor

\* Two workers never have the same one.
LEMMA OwnObject ==
  ASSUME RunnerInv, NEW v \in Workers, NEW w \in Workers, InHand(v), InHand(w), v # w
  PROVE  obj[v] # obj[w]
  BY DEF RunnerInv, Apart

\* The heartbeat enters its query with the mutex.
LEMMA BeatCheckInv ==
  ASSUME RunnerInv, BeatCheck
  PROVE  RunnerInv'
<1>1. LockTypes'
  BY DEF RunnerInv, Types, LockTypes, BeatCheck
<1>2. MutexHeld'
  BY DEF RunnerInv, MutexHeld, BeatCheck, MayQuery
<1>3. Causes'
  BY DEF RunnerInv, Causes, BeatCheck, MayQuery
<1>4. LedgerTypes' /\ FeedTypes' /\ WorkerTypes' /\ ErrorTypes' /\ CountTypes' /\ PastTypes' /\ Cursor' /\ Apart' /\ Fresh' /\ Judged' /\ Books' /\ CutIsNotFailure' /\ Covered' /\ Ended'
  BY Frame DEF BeatCheck
<1> QED
  BY <1>1, <1>2, <1>3, <1>4 DEF RunnerInv, Types

\* The heartbeat's query ends; an error marks the lock lost and cancels the run.
LEMMA BeatAnswerInv ==
  ASSUME RunnerInv, BeatAnswer
  PROVE  RunnerInv'
<1>1. LockTypes'
  BY DEF RunnerInv, Types, LockTypes, BeatAnswer, LoseLock
<1>2. MutexHeld'
  BY DEF RunnerInv, MutexHeld, BeatAnswer, LoseLock
<1>3. Judged'
  BY DEF RunnerInv, Judged, BeatAnswer, LoseLock
<1>4. Books'
  BY DEF RunnerInv, Books, BeatAnswer, LoseLock
<1>5. Covered'
  BY DEF RunnerInv, Covered, BeatAnswer, LoseLock
<1>6. Causes'
  BY DEF RunnerInv, Causes, BeatAnswer, LoseLock
<1>7. LedgerTypes' /\ FeedTypes' /\ WorkerTypes' /\ ErrorTypes' /\ CountTypes' /\ PastTypes' /\ Cursor' /\ Apart' /\ Fresh' /\ CutIsNotFailure' /\ Ended'
  BY Frame DEF BeatAnswer
<1> QED
  BY <1>1, <1>2, <1>3, <1>4, <1>5, <1>6, <1>7 DEF RunnerInv, Types

\* The feed closes the channel on a stop or a cancellation; what it leaves out is
\* excused by either.
LEMMA FeedStopsInv ==
  ASSUME RunnerInv, FeedStops
  PROVE  RunnerInv'
<1>1. FeedTypes'
  BY DEF RunnerInv, Types, FeedTypes, FeedSteps, FeedStops, CloseFeed
<1>2. MutexHeld'
  BY DEF RunnerInv, MutexHeld, FeedStops, CloseFeed
<1>3. Cursor'
  BY DEF RunnerInv, Cursor, InHand, FeedStops, CloseFeed
<1>4. Covered'
  BY DEF Covered, FeedStops, CloseFeed
<1>5. Ended'
  BY DEF RunnerInv, Ended, FeedStops
<1>6. LedgerTypes' /\ WorkerTypes' /\ ErrorTypes' /\ CountTypes' /\ LockTypes' /\ PastTypes' /\ Apart' /\ Fresh' /\ Judged' /\ Books' /\ CutIsNotFailure' /\ Causes'
  BY Frame DEF FeedStops
<1> QED
  BY <1>1, <1>2, <1>3, <1>4, <1>5, <1>6 DEF RunnerInv, Types

\* The page is used up and the feed claims the next one.
LEMMA FeedLoopsInv ==
  ASSUME RunnerInv, FeedLoops
  PROVE  RunnerInv'
<1>1. FeedTypes'
  BY DEF RunnerInv, Types, FeedTypes, FeedSteps, FeedLoops
<1>2. MutexHeld'
  BY DEF RunnerInv, MutexHeld, FeedLoops
<1>3. Covered'
  BY DEF RunnerInv, Covered, FeedLoops
<1>4. Ended'
  BY DEF RunnerInv, Ended, FeedLoops
<1>5. LedgerTypes' /\ WorkerTypes' /\ ErrorTypes' /\ CountTypes' /\ LockTypes' /\ PastTypes' /\ Cursor' /\ Apart' /\ Fresh' /\ Judged' /\ Books' /\ CutIsNotFailure' /\ Causes'
  BY Frame DEF FeedLoops
<1> QED
  BY <1>1, <1>2, <1>3, <1>4, <1>5 DEF RunnerInv, Types

\* The lock check before a claim passes, waits in its query, or ends the feed with an
\* error.
LEMMA FeedCheckInv ==
  ASSUME RunnerInv, FeedCheck
  PROVE  RunnerInv'
<1>1. FeedTypes'
  BY DEF RunnerInv, Types, FeedTypes, FeedSteps, FeedCheck, ClaimFails, CloseFeed
<1>2. ErrorTypes'
  BY DEF RunnerInv, Types, ErrorTypes, FeedCheck, ClaimFails
<1>3. LockTypes'
  BY DEF RunnerInv, Types, LockTypes, FeedCheck
<1>4. MutexHeld'
  BY DEF RunnerInv, MutexHeld, FeedCheck, MayQuery, ClaimFails, CloseFeed
<1>5. Cursor'
  BY DEF RunnerInv, Cursor, InHand, FeedCheck, ClaimFails, CloseFeed
<1>6. Covered'
  BY DEF RunnerInv, Types, ErrorTypes, Covered, FeedCheck, ClaimFails
<1>7. Causes'
  BY DEF RunnerInv, Causes, FeedCheck, MayQuery
<1>8. Ended'
  BY DEF RunnerInv, Ended, FeedCheck
<1>9. LedgerTypes' /\ WorkerTypes' /\ CountTypes' /\ PastTypes' /\ Apart' /\ Fresh' /\ Judged' /\ Books' /\ CutIsNotFailure'
  BY Frame DEF FeedCheck
<1> QED
  BY <1>1, <1>2, <1>3, <1>4, <1>5, <1>6, <1>7, <1>8, <1>9 DEF RunnerInv, Types

\* A page is every row after the cursor up to its last one; an empty page means none is
\* left.
LEMMA FeedClaimInv ==
  ASSUME RunnerInv, FeedClaim
  PROVE  RunnerInv'
<1>1. FeedTypes'
  BY DEF RunnerInv, Types, FeedTypes, FeedSteps, FeedClaim, Rows, ClaimFails, CloseFeed
<1>2. ErrorTypes'
  BY DEF RunnerInv, Types, ErrorTypes, FeedClaim, ClaimFails
<1>3. LockTypes'
  BY DEF RunnerInv, Types, LockTypes, FeedClaim, LoseLock
<1>4. MutexHeld'
  BY DEF RunnerInv, MutexHeld, FeedClaim, LoseLock, ClaimFails, CloseFeed
<1>5. Cursor'
  <2>1. UNCHANGED <<after, queue, begun, wpc, obj, prog>>
    BY DEF FeedClaim, ClaimFails, CloseFeed
  <2>2. CASE batch' = {}
    BY <2>1, <2>2 DEF RunnerInv, Cursor, InHand
  <2>3. CASE batch' = {o \in Rows : Cardinality({u \in Rows : u < o}) < Page}
    <3>1. \A o \in batch' : o > after
      BY <2>3 DEF Rows
    <3>2. ASSUME NEW o \in batch', NEW u \in Oids, after < u, u < o
          PROVE  u \in batch'
      <4>1. o \in Rows /\ Cardinality({v \in Rows : v < o}) < Page
        BY <2>3
      <4>2. u \in Rows
        BY <3>2, AheadIsRow
      <4>3. Cardinality({v \in Rows : v < u}) < Page
        BY <3>2, <4>1, <4>2, PageIsPrefix
      <4> QED
        BY <2>3, <4>2, <4>3
    <3> QED
      BY <2>1, <3>1, <3>2 DEF RunnerInv, Cursor, InHand
  <2> QED
    BY <2>2, <2>3 DEF FeedClaim, ClaimFails, CloseFeed
<1>6. Judged'
  BY DEF RunnerInv, Judged, FeedClaim, LoseLock
<1>7. Books'
  BY DEF RunnerInv, Books, FeedClaim, LoseLock
<1>8. Covered'
  <2>1. UNCHANGED <<after, queue, begun, wpc, obj>> /\ feed # "closed"
    BY DEF FeedClaim, ClaimFails, CloseFeed
  <2>2. (stopErr => stopErr') /\ (cancelled => cancelled')
    BY DEF RunnerInv, Types, ErrorTypes, LockTypes, FeedClaim, LoseLock, ClaimFails
  <2>3. ASSUME feed' = "closed", ~claimErr', NEW o \in Oids PROVE o <= after
    <3>1. Rows = {}
      BY <2>3 DEF FeedClaim, ClaimFails, CloseFeed
    <3>2. after \in Int /\ o \in Int
      BY DEF RunnerInv, Types, FeedTypes
    <3> QED
      BY <3>1, <3>2, AheadIsRow
  <2> QED
    BY <2>1, <2>2, <2>3 DEF RunnerInv, Covered
<1>9. Causes'
  BY DEF RunnerInv, Causes, FeedClaim, LoseLock, CloseFeed
<1>10. Ended'
  BY DEF RunnerInv, Ended, FeedClaim
<1>11. LedgerTypes' /\ WorkerTypes' /\ CountTypes' /\ PastTypes' /\ Apart' /\ Fresh' /\ CutIsNotFailure'
  BY Frame DEF FeedClaim
<1> QED
  BY <1>1, <1>2, <1>3, <1>4, <1>5, <1>6, <1>7, <1>8, <1>9, <1>10, <1>11 DEF RunnerInv,
     Types

\* The lowest object of the page goes into the channel and the cursor moves to it.
LEMMA FeedSendInv ==
  ASSUME RunnerInv, FeedSend
  PROVE  RunnerInv'
<1>0. PICK o \in batch : /\ \A x \in batch : o <= x
                        /\ queue' = queue \union {o}
                        /\ batch' = batch \ {o}
                        /\ after' = o
                        /\ o \in Oids /\ o \in Nat \ {0} /\ after < o
  BY DEF FeedSend, Lowest, RunnerInv, Types, FeedTypes, Cursor
<1>1. FeedTypes'
  BY DEF RunnerInv, Types, FeedTypes, FeedSteps, FeedSend, Lowest
<1>2. MutexHeld'
  BY DEF RunnerInv, MutexHeld, FeedSend
<1>3. Cursor'
  <2>1. UNCHANGED <<begun, wpc, obj>>
    BY DEF FeedSend
  <2>2. \A x \in batch' : x > after' /\ \A u \in Oids : after' < u /\ u < x => u \in batch'
    BY <1>0 DEF RunnerInv, Types, FeedTypes, Cursor
  <2>3. \A x \in queue' \union begun' : x <= after'
    BY <1>0, <2>1 DEF RunnerInv, Types, FeedTypes, Cursor
  <2>4. queue' \intersect begun' = {}
    BY <1>0, <2>1 DEF RunnerInv, Types, FeedTypes, Cursor
  <2>5. ASSUME NEW w \in Workers, InHand(w) PROVE obj[w] <= o
    <3>1. obj[w] \in Int /\ after \in Int
      BY <2>5, HasObject DEF RunnerInv, Types, FeedTypes
    <3>2. obj[w] <= after
      BY <2>5 DEF RunnerInv, Cursor
    <3> QED
      BY <1>0, <3>1, <3>2
  <2> QED
    BY <1>0, <2>1, <2>2, <2>3, <2>4, <2>5, HasObject DEF Cursor, InHand
<1>4. Apart'
  BY DEF RunnerInv, Types, FeedTypes, Apart, Cursor, InHand, FeedSend, Lowest
<1>5. Covered'
  <2>1. UNCHANGED <<begun, wpc, obj, stopErr, cancelled>>
    BY DEF FeedSend
  <2>2. \A x \in Oids : after < x /\ x <= o => x = o
    BY <1>0 DEF RunnerInv, Cursor
  <2>3. feed' # "closed"
    BY DEF FeedSend
  <2> QED
    BY <1>0, <2>1, <2>2, <2>3 DEF RunnerInv, Types, FeedTypes, Covered
<1>6. Ended'
  BY DEF RunnerInv, Ended, FeedSend
<1>7. LedgerTypes' /\ WorkerTypes' /\ ErrorTypes' /\ CountTypes' /\ LockTypes' /\ PastTypes' /\ Fresh' /\ Judged' /\ Books' /\ CutIsNotFailure' /\ Causes'
  BY Frame DEF FeedSend
<1> QED
  BY <1>1, <1>2, <1>3, <1>4, <1>5, <1>6, <1>7 DEF RunnerInv, Types

\* An object moves from the channel into one worker's hands.
LEMMA ReceiveInv ==
  ASSUME RunnerInv, NEW w \in Workers, Receive(w)
  PROVE  RunnerInv'
<1>1. FeedTypes'
  BY DEF RunnerInv, Types, FeedTypes, Receive
<1>2. WorkerTypes'
  BY DEF RunnerInv, Types, FeedTypes, WorkerTypes, WorkerSteps, Receive, Goto, Lowest
<1>3. MutexHeld'
  BY DEF RunnerInv, MutexHeld, Receive, Goto
<1>4. Cursor'
  BY DEF RunnerInv, Types, FeedTypes, WorkerTypes, Cursor, InHand, Receive, Goto, Lowest
<1>5. Apart'
  BY DEF RunnerInv, Types, WorkerTypes, Apart, InHand, Receive, Goto, Lowest
<1>6. Fresh'
  <2>1. PICK o \in queue : obj' = [obj EXCEPT ![w] = o]
    BY DEF Receive, Lowest
  <2>2. o \in Oids /\ o \notin begun
    BY DEF RunnerInv, Types, FeedTypes, Cursor
  <2>3. prog[o] = "none" /\ o \notin failed \union interrupted \union unrecorded
    BY <2>2 DEF RunnerInv, Books
  <2>4. UNCHANGED <<prog, begun, failed, interrupted, unrecorded>>
    BY DEF Receive
  <2>5. obj'[w] = o /\ wpc'[w] = "got"
    BY <2>1 DEF RunnerInv, Types, WorkerTypes, Receive, Goto
  <2>6. \A v \in Workers \ {w} : obj'[v] = obj[v] /\ wpc'[v] = wpc[v]
    BY DEF Receive, Goto
  <2> QED
    BY <2>2, <2>3, <2>4, <2>5, <2>6 DEF RunnerInv, Fresh, InHand, Underway, Handling
<1>7. Judged'
  BY DEF RunnerInv, Judged, Receive, Goto
<1>8. Books'
  BY DEF RunnerInv, Books, Underway, Handling, Receive, Goto
<1>9. Covered'
  BY DEF RunnerInv, Types, WorkerTypes, Covered, Receive, Goto
<1>10. Causes'
  BY DEF RunnerInv, Causes, Receive, Goto
<1>11. Ended'
  BY DEF RunnerInv, WorkerTypes, Ended, Receive, Goto
<1>12. LedgerTypes' /\ ErrorTypes' /\ CountTypes' /\ LockTypes' /\ PastTypes' /\ CutIsNotFailure'
  BY Frame DEF Receive
<1> QED
  BY <1>1, <1>2, <1>3, <1>4, <1>5, <1>6, <1>7, <1>8, <1>9, <1>10, <1>11, <1>12
     DEF RunnerInv, Types

\* A worker leaves when the channel is closed and empty.
LEMMA LeaveInv ==
  ASSUME RunnerInv, NEW w \in Workers, Leave(w)
  PROVE  RunnerInv'
<1>1. WorkerTypes'
  BY DEF RunnerInv, Types, WorkerTypes, WorkerSteps, Leave, Goto
<1>2. MutexHeld'
  BY DEF RunnerInv, MutexHeld, Leave, Goto
<1>3. Cursor'
  BY DEF RunnerInv, Cursor, InHand, Handling, Leave, Goto
<1>4. Apart'
  BY DEF RunnerInv, Apart, InHand, Handling, Leave, Goto
<1>5. Fresh'
  BY DEF RunnerInv, Fresh, InHand, Handling, Leave, Goto
<1>6. Judged'
  BY DEF RunnerInv, Judged, Leave, Goto
<1>7. Books'
  BY DEF RunnerInv, Books, Underway, Handling, Leave, Goto
<1>8. Covered'
  BY DEF RunnerInv, Covered, Leave, Goto
<1>9. Causes'
  BY DEF RunnerInv, Causes, Leave, Goto
<1>10. Ended'
  BY DEF RunnerInv, Ended, Leave
<1>11. LedgerTypes' /\ FeedTypes' /\ ErrorTypes' /\ CountTypes' /\ LockTypes' /\ PastTypes' /\ CutIsNotFailure'
  BY Frame DEF Leave
<1> QED
  BY <1>1, <1>2, <1>3, <1>4, <1>5, <1>6, <1>7, <1>8, <1>9, <1>10, <1>11 DEF RunnerInv,
     Types

\* Under startMu a worker admits its object, or drops it after a stop or a
\* cancellation.
LEMMA AdmitInv ==
  ASSUME RunnerInv, NEW w \in Workers, Admit(w)
  PROVE  RunnerInv'
<1>1. WorkerTypes'
  BY DEF RunnerInv, Types, WorkerTypes, WorkerSteps, Admit, Goto
<1>2. MutexHeld'
  BY DEF RunnerInv, MutexHeld, Admit, Goto
<1>3. Cursor'
  BY DEF RunnerInv, Cursor, InHand, Admit, Goto
<1>4. Apart'
  BY DEF RunnerInv, Apart, InHand, Admit, Goto
<1>5. Fresh'
  BY DEF RunnerInv, Fresh, InHand, Underway, Handling, Admit, Goto
<1>6. Judged'
  BY DEF RunnerInv, Judged, Admit, Goto
<1>7. Books'
  BY DEF RunnerInv, Books, Underway, Handling, Admit, Goto
<1>8. Covered'
  BY DEF RunnerInv, Covered, Admit, Goto
<1>9. Causes'
  BY DEF RunnerInv, Causes, Admit, Goto
<1>10. Ended'
  BY DEF RunnerInv, Ended, Admit, Goto
<1>11. LedgerTypes' /\ FeedTypes' /\ ErrorTypes' /\ CountTypes' /\ LockTypes' /\ PastTypes' /\ CutIsNotFailure'
  BY Frame DEF Admit
<1> QED
  BY <1>1, <1>2, <1>3, <1>4, <1>5, <1>6, <1>7, <1>8, <1>9, <1>10, <1>11 DEF RunnerInv,
     Types

\* handle begins the attempt, or leaves the object alone because of a cancellation.
LEMMA StartInv ==
  ASSUME RunnerInv, NEW w \in Workers, Start(w)
  PROVE  RunnerInv'
<1>1. WorkerTypes'
  BY DEF RunnerInv, Types, WorkerTypes, WorkerSteps, Start, Goto
<1>2. PastTypes'
  BY DEF RunnerInv, Types, WorkerTypes, PastTypes, Cursor, InHand, Handling, Start
<1>3. MutexHeld'
  BY DEF RunnerInv, MutexHeld, Start, Goto
<1>4. Cursor'
  <2>1. obj[w] <= after /\ obj[w] \notin queue
    BY DEF RunnerInv, Cursor, Apart, Start, InHand, Handling, WorkerSteps
  <2>2. \A v \in Workers : InHand(v)' => InHand(v)
    BY DEF RunnerInv, Types, WorkerTypes, Start, Goto, InHand, Handling
  <2> QED
    BY <2>1, <2>2 DEF RunnerInv, Cursor, Start
<1>5. Apart'
  BY DEF RunnerInv, Types, WorkerTypes, Apart, InHand, Handling, Start, Goto
<1>6. Fresh'
  BY DEF RunnerInv, Types, WorkerTypes, Fresh, Apart, InHand, Underway, Handling, Start,
     Goto
<1>7. Judged'
  BY DEF RunnerInv, Judged, Start, Goto
<1>8. Books'
  BY DEF RunnerInv, Types, WorkerTypes, Books, Underway, Handling, WorkerSteps, Start,
     Goto
<1>9. Covered'
  BY DEF RunnerInv, Covered, Start, Goto
<1>10. Causes'
  BY DEF RunnerInv, Causes, Start, Goto
<1>11. Ended'
  BY DEF RunnerInv, Ended, Start, Goto
<1>12. LedgerTypes' /\ FeedTypes' /\ ErrorTypes' /\ CountTypes' /\ LockTypes' /\ CutIsNotFailure'
  BY Frame DEF Start
<1> QED
  BY <1>1, <1>2, <1>3, <1>4, <1>5, <1>6, <1>7, <1>8, <1>9, <1>10, <1>11, <1>12
     DEF RunnerInv, Types

\* The lock check before a request enters its query, or cuts the attempt.
LEMMA CheckLockInv ==
  ASSUME RunnerInv, NEW w \in Workers, CheckLock(w)
  PROVE  RunnerInv'
<1>1. WorkerTypes'
  BY DEF RunnerInv, Types, WorkerTypes, WorkerSteps, Outcomes, CheckLock, Goto, Return
<1>2. LockTypes'
  BY DEF RunnerInv, Types, LockTypes, CheckLock
<1>3. MutexHeld'
  BY DEF RunnerInv, Types, WorkerTypes, MutexHeld, CheckLock, Goto, MayQuery, Return
<1>4. Cursor'
  BY DEF RunnerInv, Types, WorkerTypes, Cursor, InHand, Handling, CheckLock, Goto,
     Return
<1>5. Apart'
  BY DEF RunnerInv, Types, WorkerTypes, Apart, InHand, Handling, CheckLock, Goto, Return
<1>6. Fresh'
  BY DEF RunnerInv, Types, WorkerTypes, Fresh, InHand, Underway, Handling, CheckLock,
     Goto, Return
<1>7. Judged'
  BY DEF RunnerInv, Types, WorkerTypes, Judged, Causes, CheckLock, Goto, Return
<1>8. Books'
  BY DEF RunnerInv, Types, WorkerTypes, Books, Underway, Handling, WorkerSteps,
     CheckLock, Goto, Return
<1>9. Covered'
  BY DEF RunnerInv, Types, WorkerTypes, Covered, CheckLock, Goto, Return
<1>10. Causes'
  BY DEF RunnerInv, Types, WorkerTypes, Causes, CheckLock, Goto, MayQuery, Return
<1>11. Ended'
  BY DEF RunnerInv, Types, WorkerTypes, Ended, CheckLock, Goto, Return
<1>12. LedgerTypes' /\ FeedTypes' /\ ErrorTypes' /\ CountTypes' /\ PastTypes' /\ CutIsNotFailure'
  BY Frame DEF CheckLock
<1> QED
  BY <1>1, <1>2, <1>3, <1>4, <1>5, <1>6, <1>7, <1>8, <1>9, <1>10, <1>11, <1>12
     DEF RunnerInv, Types

\* The query answers, or its error loses the lock and cuts the attempt.
LEMMA LockAnswerInv ==
  ASSUME RunnerInv, NEW w \in Workers, LockAnswer(w)
  PROVE  RunnerInv'
<1>1. WorkerTypes'
  BY DEF RunnerInv, Types, WorkerTypes, WorkerSteps, Outcomes, LockAnswer, Goto, Return
<1>2. LockTypes'
  BY DEF RunnerInv, Types, LockTypes, LockAnswer, LoseLock
<1>3. MutexHeld'
  BY DEF RunnerInv, Types, WorkerTypes, MutexHeld, LockAnswer, Goto, LoseLock, Return
<1>4. Cursor'
  BY DEF RunnerInv, Types, WorkerTypes, Cursor, InHand, Handling, LockAnswer, Goto,
     Return
<1>5. Apart'
  BY DEF RunnerInv, Types, WorkerTypes, Apart, InHand, Handling, LockAnswer, Goto,
     Return
<1>6. Fresh'
  BY DEF RunnerInv, Types, WorkerTypes, Fresh, InHand, Underway, Handling, LockAnswer,
     Goto, Return
<1>7. Judged'
  BY DEF RunnerInv, Types, WorkerTypes, Judged, LockAnswer, Goto, LoseLock, Return
<1>8. Books'
  BY DEF RunnerInv, Types, WorkerTypes, Books, Underway, Handling, WorkerSteps,
     LockAnswer, Goto, LoseLock, Return
<1>9. Covered'
  BY DEF RunnerInv, Types, WorkerTypes, Covered, LockAnswer, Goto, LoseLock
<1>10. Causes'
  BY DEF RunnerInv, Types, WorkerTypes, Causes, LockAnswer, Goto, LoseLock, Return
<1>11. Ended'
  BY DEF RunnerInv, Types, WorkerTypes, Ended, LockAnswer, Goto, Return
<1>12. LedgerTypes' /\ FeedTypes' /\ ErrorTypes' /\ CountTypes' /\ PastTypes' /\ CutIsNotFailure'
  BY Frame DEF LockAnswer
<1> QED
  BY <1>1, <1>2, <1>3, <1>4, <1>5, <1>6, <1>7, <1>8, <1>9, <1>10, <1>11, <1>12
     DEF RunnerInv, Types

\* A request succeeds, fails, finds an unsafe key or is cut by the cancellation.
LEMMA RequestInv ==
  ASSUME RunnerInv, NEW w \in Workers, Request(w)
  PROVE  RunnerInv'
<1>1. WorkerTypes'
  BY DEF RunnerInv, Types, WorkerTypes, WorkerSteps, Outcomes, Request, Goto, Return
<1>2. PastTypes'
  BY DEF RunnerInv, Types, WorkerTypes, PastTypes, Cursor, InHand, Handling,
     WorkerSteps, Request, Goto, Return
<1>3. MutexHeld'
  BY DEF RunnerInv, Types, WorkerTypes, MutexHeld, Request, Goto, Return
<1>4. Cursor'
  BY DEF RunnerInv, Types, WorkerTypes, Cursor, InHand, Handling, Request, Goto, Return
<1>5. Apart'
  BY DEF RunnerInv, Types, WorkerTypes, Apart, InHand, Handling, Request, Goto, Return
<1>6. Fresh'
  BY DEF RunnerInv, Types, WorkerTypes, Fresh, InHand, Underway, Handling, Request,
     Goto, Return
<1>7. Judged'
  BY DEF RunnerInv, Types, WorkerTypes, Judged, Request, Goto, Return
<1>8. Books'
  BY DEF RunnerInv, Types, WorkerTypes, Books, Underway, Handling, WorkerSteps, Request,
     Goto, Return
<1>9. CutIsNotFailure'
  BY DEF RunnerInv, CutIsNotFailure, Request
<1>10. Covered'
  BY DEF RunnerInv, Types, WorkerTypes, Covered, Request, Goto, Return
<1>11. Causes'
  BY DEF RunnerInv, Types, WorkerTypes, Causes, Request, Goto, Return
<1>12. Ended'
  BY DEF RunnerInv, Types, WorkerTypes, Ended, Request, Goto, Return
<1>13. LedgerTypes' /\ FeedTypes' /\ ErrorTypes' /\ CountTypes' /\ LockTypes'
  BY Frame DEF Request
<1> QED
  BY <1>1, <1>2, <1>3, <1>4, <1>5, <1>6, <1>7, <1>8, <1>9, <1>10, <1>11, <1>12, <1>13
     DEF RunnerInv, Types

\* handle sorts the outcome: interrupted, a violation, a failure, or done.
LEMMA JudgeInv ==
  ASSUME RunnerInv, NEW w \in Workers, Judge(w)
  PROVE  RunnerInv'
<1>1. WorkerTypes'
  BY DEF RunnerInv, Types, WorkerTypes, WorkerSteps, Judge, Goto
<1>2. ErrorTypes'
  BY DEF RunnerInv, Types, ErrorTypes, Judge
<1>3. CountTypes'
  <2>1. obj[w] \in Oids
    BY HasObject DEF Judge, InHand, Handling, WorkerSteps
  <2> QED
    BY <2>1 DEF RunnerInv, Types, CountTypes, Judge
<1>4. MutexHeld'
  BY DEF RunnerInv, Types, WorkerTypes, MutexHeld, Judge, Goto
<1>5. Cursor'
  BY DEF RunnerInv, Types, WorkerTypes, Cursor, InHand, Handling, Judge, Goto
<1>6. Apart'
  BY DEF RunnerInv, Types, WorkerTypes, Apart, InHand, Handling, Judge, Goto
<1>7. Fresh'
  BY DEF RunnerInv, Types, WorkerTypes, Fresh, Apart, InHand, Underway, Handling, Judge,
     Goto
<1>8. Judged'
  BY DEF RunnerInv, Types, WorkerTypes, Judged, Outcomes, Judge, Goto
<1>9. Books'
  <2>1. InHand(w)
    BY DEF Judge, InHand, Handling, WorkerSteps
  <2>2. /\ obj[w] \in begun /\ prog[obj[w]] = "none"
        /\ obj[w] \notin failed \union interrupted \union unrecorded
    BY <2>1 DEF RunnerInv, Fresh, Underway, Handling, WorkerSteps, Judge
  <2>3. UNCHANGED <<prog, begun, unrecorded, obj, cancelled>>
    BY DEF Judge
  <2>4. \A v \in Workers \ {w} : wpc'[v] = wpc[v]
    BY DEF RunnerInv, Types, WorkerTypes, Judge, Goto
  <2>5. CASE /\ cancelled /\ interrupted' = interrupted \union {obj[w]}
             /\ failed' = failed
    BY <2>2, <2>3, <2>4, <2>5 DEF RunnerInv, Books
  <2>6. CASE /\ wpc'[w] \in Underway /\ interrupted' = interrupted
             /\ failed \subseteq failed' /\ failed' \subseteq failed \union {obj[w]}
    BY <2>2, <2>3, <2>4, <2>6 DEF RunnerInv, Books
  <2> QED
    BY <2>5, <2>6 DEF RunnerInv, Types, WorkerTypes, Judge, Goto, Underway, Handling,
       WorkerSteps
<1>10. Covered'
  BY DEF RunnerInv, Types, WorkerTypes, Covered, Judge, Goto
<1>11. Causes'
  BY DEF RunnerInv, Types, WorkerTypes, Causes, Judge, Goto
<1>12. Ended'
  BY DEF RunnerInv, Types, WorkerTypes, Ended, Judge, Goto
<1>13. LedgerTypes' /\ FeedTypes' /\ LockTypes' /\ PastTypes' /\ CutIsNotFailure'
  BY Frame DEF Judge
<1> QED
  BY <1>1, <1>2, <1>3, <1>4, <1>5, <1>6, <1>7, <1>8, <1>9, <1>10, <1>11, <1>12, <1>13
     DEF RunnerInv, Types

\* The first violation is kept and cancels the run; later ones wait for the once.
LEMMA HaltInv ==
  ASSUME RunnerInv, NEW w \in Workers, Halt(w)
  PROVE  RunnerInv'
<1>1. WorkerTypes'
  BY DEF RunnerInv, Types, WorkerTypes, WorkerSteps, Halt, Goto
<1>2. ErrorTypes'
  BY DEF RunnerInv, Types, WorkerTypes, ErrorTypes, Halt
<1>3. CountTypes'
  BY DEF RunnerInv, Types, WorkerTypes, CountTypes, Cursor, InHand, Handling, Halt
<1>4. LockTypes'
  BY DEF RunnerInv, Types, LockTypes, Halt
<1>5. MutexHeld'
  BY DEF RunnerInv, Types, WorkerTypes, MutexHeld, Halt, Goto
<1>6. Cursor'
  BY DEF RunnerInv, Types, WorkerTypes, Cursor, InHand, Handling, Halt, Goto
<1>7. Apart'
  BY DEF RunnerInv, Types, WorkerTypes, Apart, InHand, Handling, Halt, Goto
<1>8. Fresh'
  BY DEF RunnerInv, Types, WorkerTypes, Fresh, Apart, InHand, Underway, Handling, Halt,
     Goto
<1>9. Judged'
  BY DEF RunnerInv, Types, WorkerTypes, Judged, Halt, Goto
<1>10. Books'
  <2>1. InHand(w) /\ w \in Workers
    BY DEF Halt, InHand, Handling, WorkerSteps
  <2>2. obj[w] \in begun /\ prog[obj[w]] = "none" /\ obj[w] \notin interrupted \union unrecorded
    BY <2>1 DEF RunnerInv, Fresh, Underway, Handling, WorkerSteps, Halt
  <2>3. failed' \subseteq failed \union {obj[w]} /\ failed \subseteq failed'
    BY DEF Halt
  <2>4. \A v \in Workers \ {w} : wpc'[v] = wpc[v]
    BY DEF RunnerInv, Types, WorkerTypes, Halt, Goto
  <2>5. obj[w] \in failed' \/ wpc'[w] \in Underway
    BY DEF RunnerInv, Types, WorkerTypes, Halt, Goto, Underway, Handling, WorkerSteps
  <2>6. cancelled => cancelled'
    BY DEF Halt
  <2>7. UNCHANGED <<prog, begun, interrupted, unrecorded, obj>>
    BY DEF Halt
  <2>8. \A o \in begun' : \/ prog'[o] = "done"
                         \/ o \in failed' \union interrupted' \union unrecorded'
                         \/ \E v \in Workers : wpc'[v] \in Underway /\ obj'[v] = o
    <3> SUFFICES ASSUME NEW o \in begun, prog[o] # "done",
                        o \notin failed' \union interrupted \union unrecorded
                 PROVE  \E v \in Workers : wpc'[v] \in Underway /\ obj[v] = o
      BY <2>7
    <3>1. PICK v \in Workers : wpc[v] \in Underway /\ obj[v] = o
      BY <2>3 DEF RunnerInv, Books
    <3>2. CASE v = w
      BY <2>5, <3>1, <3>2
    <3>3. CASE v # w
      BY <2>4, <3>1, <3>3
    <3> QED
      BY <3>2, <3>3
  <2>9. \A o \in interrupted : prog[o] = "none" /\ o \notin failed' \union unrecorded
    BY <2>2, <2>3 DEF RunnerInv, Books
  <2>10. failed' \union interrupted \union unrecorded \subseteq begun
    BY <2>2, <2>3 DEF RunnerInv, Books
  <2> QED
    BY <2>6, <2>7, <2>8, <2>9, <2>10 DEF RunnerInv, Books
<1>11. Covered'
  BY DEF RunnerInv, Types, WorkerTypes, Covered, Halt, Goto
<1>12. Causes'
  BY DEF RunnerInv, Types, WorkerTypes, Causes, Cursor, InHand, Handling, Halt, Goto
<1>13. Ended'
  BY DEF RunnerInv, Types, WorkerTypes, Ended, Halt, Goto
<1>14. LedgerTypes' /\ FeedTypes' /\ PastTypes' /\ CutIsNotFailure'
  BY Frame DEF Halt
<1> QED
  BY <1>1, <1>2, <1>3, <1>4, <1>5, <1>6, <1>7, <1>8, <1>9, <1>10, <1>11, <1>12, <1>13,
     <1>14 DEF RunnerInv, Types

\* The hold is written or its error is kept before the once ends.
LEMMA PersistInv ==
  ASSUME RunnerInv, NEW w \in Workers, NEW written \in BOOLEAN, NEW answered \in BOOLEAN,
         Persist(w, written, answered)
  PROVE  RunnerInv'
<1>1. LedgerTypes'
  BY DEF RunnerInv, Types, LedgerTypes, Persist
<1>2. WorkerTypes'
  BY DEF RunnerInv, Types, WorkerTypes, WorkerSteps, Persist, Goto
<1>3. ErrorTypes'
  BY DEF RunnerInv, Types, ErrorTypes, Persist
<1>4. CountTypes'
  BY DEF RunnerInv, Types, WorkerTypes, CountTypes, Cursor, InHand, Handling, Persist
<1>5. LockTypes'
  BY DEF RunnerInv, Types, LockTypes, Persist, Writes, LoseLock
<1>6. MutexHeld'
  BY DEF RunnerInv, MutexHeld, Persist, Goto, Writes, LoseLock
<1>7. Cursor'
  BY DEF RunnerInv, Types, WorkerTypes, Cursor, InHand, Handling, Persist, Goto
<1>8. Apart'
  BY DEF RunnerInv, Types, WorkerTypes, Apart, InHand, Handling, Persist, Goto
<1>9. Fresh'
  BY DEF RunnerInv, Types, WorkerTypes, Fresh, Apart, InHand, Underway, Handling,
     Persist, Goto
<1>10. Judged'
  BY DEF RunnerInv, Judged, Persist, Goto, Writes, LoseLock
<1>11. Books'
  <2>1. InHand(w) /\ w \in Workers
    BY DEF Persist, InHand, Handling, WorkerSteps
  <2>2. obj[w] \in begun /\ prog[obj[w]] = "none" /\ obj[w] \notin interrupted \union unrecorded
    BY <2>1 DEF RunnerInv, Fresh, Underway, Handling, WorkerSteps, Persist
  <2>3. failed' \subseteq failed \union {obj[w]} /\ failed \subseteq failed'
    BY DEF Persist
  <2>4. \A v \in Workers \ {w} : wpc'[v] = wpc[v]
    BY DEF Persist, Goto
  <2>5. obj[w] \in failed' \/ wpc'[w] \in Underway
    BY DEF Persist
  <2>6. cancelled => cancelled'
    BY DEF Persist, Writes, LoseLock
  <2>7. UNCHANGED <<prog, begun, interrupted, unrecorded, obj>>
    BY DEF Persist
  <2> QED
    BY <2>2, <2>3, <2>4, <2>5, <2>6, <2>7 DEF RunnerInv, Books
<1>12. Covered'
  BY DEF RunnerInv, Covered, Persist, Goto, Writes, LoseLock
<1>13. Causes'
  BY DEF RunnerInv, Types, LockTypes, Causes, Judged, Persist, Writes, LoseLock
<1>14. Ended'
  BY DEF RunnerInv, Ended, Persist, Goto
<1>15. FeedTypes' /\ PastTypes' /\ CutIsNotFailure'
  BY Frame DEF Persist
<1> QED
  BY <1>1, <1>2, <1>3, <1>4, <1>5, <1>6, <1>7, <1>8, <1>9, <1>10, <1>11, <1>12, <1>13,
     <1>14, <1>15 DEF RunnerInv, Types

\* The object's row is written, or the lost Done is counted and stops the run.
LEMMA RecordInv ==
  ASSUME RunnerInv, NEW w \in Workers, NEW written \in BOOLEAN, NEW answered \in BOOLEAN,
         Record(w, written, answered)
  PROVE  RunnerInv'
<1>1. LedgerTypes'
  BY DEF RunnerInv, Types, LedgerTypes, Record
<1>2. WorkerTypes'
  BY DEF RunnerInv, Types, WorkerTypes, WorkerSteps, Record, Goto
<1>3. ErrorTypes'
  BY DEF RunnerInv, Types, ErrorTypes, Record
<1>4. CountTypes'
  BY DEF RunnerInv, Types, WorkerTypes, CountTypes, Cursor, InHand, Handling, Record
<1>5. LockTypes'
  BY DEF RunnerInv, Types, LockTypes, Record, Writes, LoseLock
<1>6. MutexHeld'
  BY DEF RunnerInv, MutexHeld, Record, Goto, Writes, LoseLock
<1>7. Cursor'
  BY DEF RunnerInv, Cursor, InHand, Handling, Record, Goto
<1>8. Apart'
  BY DEF RunnerInv, Apart, InHand, Handling, Record, Goto
<1>9. Fresh'
  BY DEF RunnerInv, Types, WorkerTypes, Fresh, Apart, InHand, Handling, Record, Goto
<1>10. Judged'
  BY DEF RunnerInv, Judged, Record, Goto, Writes, LoseLock
<1>11. Books'
  BY DEF RunnerInv, Types, LedgerTypes, WorkerTypes, PastTypes, Books, Fresh, InHand,
     Judged, Underway, Handling, Record, Goto, Writes, LoseLock
<1>12. CutIsNotFailure'
  BY DEF RunnerInv, CutIsNotFailure, Judged, Record
<1>13. Covered'
  BY DEF RunnerInv, Types, ErrorTypes, Covered, Record, Goto, Writes, LoseLock
<1>14. Causes'
  BY DEF RunnerInv, Causes, Record, Goto, Writes, LoseLock
<1>15. Ended'
  BY DEF RunnerInv, Ended, Record, Goto
<1>16. FeedTypes' /\ PastTypes'
  BY Frame DEF Record
<1> QED
  BY <1>1, <1>2, <1>3, <1>4, <1>5, <1>6, <1>7, <1>8, <1>9, <1>10, <1>11, <1>12, <1>13,
     <1>14, <1>15, <1>16 DEF RunnerInv, Types

\* Ctrl+C cancels the run.
LEMMA InterruptInv ==
  ASSUME RunnerInv, Interrupt
  PROVE  RunnerInv'
<1>1. LockTypes'
  BY DEF RunnerInv, Types, LockTypes, Interrupt
<1>2. Judged'
  BY DEF RunnerInv, Judged, Interrupt
<1>3. Books'
  BY DEF RunnerInv, Books, Interrupt
<1>4. Covered'
  BY DEF RunnerInv, Covered, Interrupt
<1>5. Causes'
  BY DEF RunnerInv, Causes, Interrupt
<1>6. LedgerTypes' /\ FeedTypes' /\ WorkerTypes' /\ ErrorTypes' /\ CountTypes' /\ PastTypes' /\ MutexHeld' /\ Cursor' /\ Apart' /\ Fresh' /\ CutIsNotFailure' /\ Ended'
  BY Frame DEF Interrupt
<1> QED
  BY <1>1, <1>2, <1>3, <1>4, <1>5, <1>6 DEF RunnerInv, Types

\* finish returns nil only when no error field, count or context says otherwise.
LEMMA FinishInv ==
  ASSUME RunnerInv, Finish
  PROVE  RunnerInv'
<1>1. LockTypes'
  BY DEF RunnerInv, Types, LockTypes, Finish
<1>2. Ended'
  <2>1. UNCHANGED <<wpc, feed, queue, haltErr, failed, unrecorded, prog>>
    BY DEF Finish
  <2>2. \A w \in Workers : wpc[w] = "exit"
    BY DEF Finish
  <2>3. ASSUME result' = "nil" PROVE \A o \in Oids : prog[o] = "done"
    <3>1. /\ feed = "closed" /\ ~stopErr /\ ~claimErr /\ ~parentDone
          /\ haltErr = 0 /\ failed = {} /\ unrecorded = {}
      BY <2>3 DEF Finish, Problems
    <3>2. ~cancelled /\ interrupted = {}
      BY <3>1 DEF RunnerInv, Causes, Books
    <3>3. queue = {}
      BY <2>2, WorkersAssumption DEF RunnerInv, Ended
    <3>4. Oids \subseteq begun
      BY <2>2, <3>1, <3>2, <3>3 DEF RunnerInv, Covered
    <3>5. \A o \in begun : prog[o] = "done"
      BY <2>2, <3>1, <3>2 DEF RunnerInv, Books, Underway, Handling
    <3> QED
      BY <3>4, <3>5
  <2>4. result' = "nil" => haltErr = 0 /\ failed = {} /\ unrecorded = {}
    BY DEF Finish, Problems
  <2> QED
    BY <2>1, <2>2, <2>3, <2>4 DEF RunnerInv, Ended
<1>3. LedgerTypes' /\ FeedTypes' /\ WorkerTypes' /\ ErrorTypes' /\ CountTypes' /\ PastTypes' /\ MutexHeld' /\ Cursor' /\ Apart' /\ Fresh' /\ Judged' /\ Books' /\ CutIsNotFailure' /\ Covered' /\ Causes'
  BY Frame DEF Finish
<1> QED
  BY <1>1, <1>2, <1>3 DEF RunnerInv, Types

\* Nothing is claimed, counted or lost.
LEMMA InitRunner == Init => RunnerInv
<1> SUFFICES ASSUME Init PROVE RunnerInv
  OBVIOUS
<1>1. Types
  BY DEF Init, Types, LedgerTypes, FeedTypes, WorkerTypes, ErrorTypes, CountTypes,
     LockTypes, PastTypes, FeedSteps, WorkerSteps, Outcomes
<1>2. MutexHeld /\ Causes
  BY DEF Init, MutexHeld, Causes
<1>3. Cursor /\ Apart /\ Fresh /\ Judged
  BY DEF Init, Cursor, Apart, Fresh, Judged, InHand, Handling
<1>4. Books /\ CutIsNotFailure /\ Ended
  BY DEF Init, Books, CutIsNotFailure, Ended
<1>5. Covered
  BY DEF Init, Covered
<1> QED
  BY <1>1, <1>2, <1>3, <1>4, <1>5 DEF RunnerInv

\* Every step of every goroutine preserves the invariant.
LEMMA RunnerStep == RunnerInv /\ [Next]_vars => RunnerInv'
<1> SUFFICES ASSUME RunnerInv, [Next]_vars PROVE RunnerInv'
  OBVIOUS
<1>1. CASE UNCHANGED vars
  <2>1. /\ LedgerTypes' /\ FeedTypes' /\ WorkerTypes' /\ ErrorTypes' /\ CountTypes'
        /\ LockTypes' /\ PastTypes' /\ MutexHeld'
    BY <1>1, Frame DEF vars
  <2>2. Cursor' /\ Apart' /\ Fresh' /\ Judged' /\ Books' /\ CutIsNotFailure'
        /\ Covered' /\ Causes' /\ Ended'
    BY <1>1, Frame DEF vars
  <2> QED
    BY <2>1, <2>2 DEF RunnerInv, Types
<1>2. CASE Feeder
  BY <1>2, FeedStopsInv, FeedLoopsInv, FeedCheckInv, FeedClaimInv, FeedSendInv
     DEF Feeder
<1>3. ASSUME NEW w \in Workers, Worker(w) PROVE RunnerInv'
  BY <1>3, ReceiveInv, LeaveInv, AdmitInv, StartInv, CheckLockInv, LockAnswerInv,
     RequestInv, JudgeInv, HaltInv, PersistInv, RecordInv DEF Worker
<1> QED
  BY <1>1, <1>2, <1>3, BeatCheckInv, BeatAnswerInv, InterruptInv, FinishInv DEF Next

\* The inductive invariant holds in every reachable state.
THEOREM RunnerCorrect == Spec => []RunnerInv
  BY InitRunner, RunnerStep, PTL DEF Spec

-----------------------------------------------------------------------------
(* What follows from it.                                                   *)

\* Every field of the Runner, the feed, the workers and the lock keeps its type, and
\* l.mu is held by a goroutine inside its query, for any number of workers.
THEOREM RunnerTypes == Spec => []TypeOK
<1>1. RunnerInv => TypeOK
  BY DEF RunnerInv, TypeOK
<1> QED
  BY <1>1, RunnerCorrect, PTL

\* Run returns nil only over a list that is recorded done to the last object, with
\* no hold: no stop, halt, interrupt or failed claim makes it forget objects that
\* were still in the channel or ahead of the cursor.
THEOREM NilSafe == Spec => []NilMeansDone
<1>1. RunnerInv => NilMeansDone
  BY DEF RunnerInv, Ended, Causes, NilMeansDone
<1> QED
  BY <1>1, RunnerCorrect, PTL

\* The cursor of the claim and the channel hand every object out once, although a
\* page is read while the results of the one before are not recorded yet.
THEOREM HandledOnce == Spec => []OnceOnly
<1>1. RunnerInv => OnceOnly
  <2> SUFFICES ASSUME RunnerInv PROVE OnceOnly
    OBVIOUS
  <2>1. \A o \in batch : \A u \in queue \union begun : o # u
    BY DEF RunnerInv, Types, FeedTypes, Cursor
  <2>2. \A w \in Workers : InHand(w) => obj[w] \notin batch
    <3> SUFFICES ASSUME NEW w \in Workers, InHand(w), obj[w] \in batch PROVE FALSE
      OBVIOUS
    <3>1. obj[w] > after /\ obj[w] <= after
      BY DEF RunnerInv, Cursor
    <3>2. obj[w] \in Int /\ after \in Int
      BY HasObject DEF RunnerInv, Types, FeedTypes
    <3> QED
      BY <3>1, <3>2
  <2>3. \A w \in Workers : wpc[w] \in {"got", "start"} => obj[w] \notin begun
    BY DEF RunnerInv, Fresh, InHand, Underway, Handling, WorkerSteps
  <2> QED
    BY <2>1, <2>2, <2>3 DEF RunnerInv, Apart, OnceOnly
<1> QED
  BY <1>1, RunnerCorrect, PTL

\* The summary of finish is complete: once Run has returned, an attempt that began is
\* recorded done, or failed, unrecorded or interrupted, the last only in a cancelled
\* run and with nothing written.
THEOREM SummaryComplete == Spec => []Accounted
<1>1. RunnerInv => Accounted
  <2> SUFFICES ASSUME RunnerInv, result # "running" PROVE Accounted
    BY DEF Accounted
  <2>1. \A w \in Workers : wpc[w] \notin Underway
    BY DEF RunnerInv, Ended, Underway, Handling
  <2>2. begun \subseteq Oids
    BY DEF RunnerInv, Types, PastTypes
  <2> QED
    BY <2>1, <2>2 DEF RunnerInv, Books, Accounted
<1> QED
  BY <1>1, RunnerCorrect, PTL

\* handle writes FAILED only for an object whose own attempt failed, never for one
\* that a halt, a lost lock or Ctrl+C cut short.
THEOREM CutSafe == Spec => []CutIsNotFailure
<1>1. RunnerInv => CutIsNotFailure
  BY DEF RunnerInv
<1> QED
  BY <1>1, RunnerCorrect, PTL

\* halt's once, its cancellation and its write together: a violation that was met is
\* in the ledger when Run returns, or the error of the write is in Run's.
THEOREM HaltSafe == Spec => []HaltIsReported
<1>1. RunnerInv => HaltIsReported
  <2> SUFFICES ASSUME RunnerInv, result # "running", haltErr # 0
               PROVE  result = "error" /\ (hold \/ holdErr)
    BY DEF RunnerInv, Causes, HaltIsReported
  <2>1. halting = "done"
    BY DEF RunnerInv, Types, ErrorTypes, Causes, Ended
  <2> QED
    BY <2>1 DEF RunnerInv, Types, LockTypes, Causes, Ended
<1> QED
  BY <1>1, RunnerCorrect, PTL

-----------------------------------------------------------------------------
(* What no step does.                                                      *)

\* stop and the admission of an object are serialised by startMu: once stop has
\* returned, no worker turns a received object into an attempt.
LEMMA StoppedAdmitsNone ==
  ASSUME RunnerInv, [Next]_vars, stopErr, NEW w \in Workers, wpc'[w] \in Handling
  PROVE  wpc[w] \in Handling /\ obj'[w] = obj[w]
<1> USE DEF RunnerInv, Types, WorkerTypes, Handling, WorkerSteps, Goto
<1>1. CASE UNCHANGED <<wpc, obj>>
  BY <1>1
<1>2. CASE FeedCheck \/ FeedClaim
  BY <1>2 DEF FeedCheck, FeedClaim
<1>3. ASSUME NEW v \in Workers, Worker(v)
      PROVE  wpc[w] \in Handling /\ obj'[w] = obj[w]
  <2>1. CASE Receive(v)
    BY <2>1 DEF Receive
  <2>2. CASE Leave(v) \/ Admit(v) \/ Start(v)
    BY <2>2 DEF Leave, Admit, Start
  <2>3. CASE CheckLock(v) \/ LockAnswer(v) \/ Request(v)
    BY <2>3 DEF CheckLock, LockAnswer, Request, Return
  <2>4. CASE Judge(v) \/ Halt(v)
    BY <2>4 DEF Judge, Halt
  <2>5. ASSUME NEW written \in BOOLEAN, NEW answered \in BOOLEAN,
               Persist(v, written, answered) \/ Record(v, written, answered)
        PROVE  wpc[w] \in Handling /\ obj'[w] = obj[w]
    BY <2>5 DEF Persist, Record
  <2> QED
    BY <1>3, <2>1, <2>2, <2>3, <2>4, <2>5 DEF Worker
<1> QED
  BY <1>2, <1>3 DEF Next, Feeder, vars, BeatCheck, BeatAnswer, FeedStops, FeedLoops,
     FeedSend, Interrupt, Finish

\* No object is admitted after an ordinary stop, whatever had been received.
THEOREM StopIsClean == Spec => StopAdmitsNone
<1>1. RunnerInv /\ [Next]_vars => [stopErr => Busy' \subseteq Busy]_vars
  BY StoppedAdmitsNone DEF Busy
<1> QED
  BY <1>1, RunnerCorrect, PTL DEF Spec, StopAdmitsNone

\* Lock.Check stands before every request: with l.lost set nobody is inside the
\* query any more and nobody gets past its first test.
THEOREM LossIsFinal == Spec => NoRequestAfterLoss
<1>1. ASSUME RunnerInv, [Next]_vars, lost, NEW w \in Workers, wpc'[w] = "request"
      PROVE  wpc[w] = "request"
  <2> USE <1>1 DEF RunnerInv, Types, WorkerTypes, WorkerSteps, Goto
  <2>1. \A v \in Workers : ~LockAnswer(v)
    BY DEF MutexHeld, Causes, LockAnswer
  <2>2. CASE UNCHANGED wpc
    BY <2>2
  <2>3. ASSUME NEW v \in Workers, Worker(v) PROVE wpc[w] = "request"
    <3>1. CASE Receive(v) \/ Leave(v) \/ Admit(v) \/ Start(v)
      BY <3>1 DEF Receive, Leave, Admit, Start
    <3>2. CASE CheckLock(v) \/ Request(v) \/ Judge(v) \/ Halt(v)
      BY <3>2 DEF CheckLock, Request, Judge, Halt, Return
    <3>3. ASSUME NEW written \in BOOLEAN, NEW answered \in BOOLEAN,
                 Persist(v, written, answered) \/ Record(v, written, answered)
          PROVE  wpc[w] = "request"
      BY <3>3 DEF Persist, Record
    <3> QED
      BY <2>1, <2>3, <3>1, <3>2, <3>3 DEF Worker
  <2> QED
    BY <2>3 DEF Next, Feeder, vars, BeatCheck, BeatAnswer, FeedStops, FeedLoops,
       FeedCheck, FeedClaim, FeedSend, Interrupt, Finish
<1>2. RunnerInv /\ [Next]_vars
        => [lost => \A w \in Workers : wpc'[w] = "request" => wpc[w] = "request"]_vars
  BY <1>1
<1> QED
  BY <1>2, RunnerCorrect, PTL DEF Spec, NoRequestAfterLoss

=============================================================================
