---------------------------- MODULE PurgeRunner ----------------------------
(***************************************************************************)
(* One run of purge.Runner, goroutine by goroutine: the feed that claims   *)
(* objects and sends them to a bounded channel, the workers that delete    *)
(* and record them, the ordinary stop, the safety halt, the operator's     *)
(* interrupt, and the execution lock every request checks (lock.Check,     *)
(* serialised by the lock's mutex, also called by a heartbeat).            *)
(*                                                                         *)
(* Module Subtasks has the same run as atomic steps on the ledger; this    *)
(* one has the order of the steps inside it.  What a request to storage or *)
(* chain does is left to its outcome.  Object ids reach the channel in     *)
(* ascending order, so the channel is the set of its elements and its head *)
(* is the lowest of them.                                                  *)
(***************************************************************************)
EXTENDS Integers, FiniteSets

CONSTANTS Oids,         \* the task's claimable objects
          Workers,      \* worker goroutines (Opt.Concurrency of them)
          ChanCap,      \* capacity of the channel (2 * Concurrency)
          Page,         \* rows of one claim (4 * Concurrency)
          MaxRequests,  \* bound: requests of one object's attempt
          DbFails,      \* whether the progress database may fail
          Interrupts    \* whether the operator may interrupt the run

ASSUME OidsAssumption == Oids \subseteq Nat \ {0}
ASSUME RunnerAssumption == /\ ChanCap \in Nat \ {0}
                           /\ Page \in Nat \ {0}
                           /\ MaxRequests \in Nat \ {0}
                           /\ DbFails \in BOOLEAN
                           /\ Interrupts \in BOOLEAN

\* The two callers of lock.Check that are not workers, and "the mutex is free".
Feed == "feed"
Beat == "beat"
Nobody == "nobody"
ASSUME ActorsAssumption == {Feed, Beat, Nobody} \intersect Workers = {}

\* Run raises a Concurrency below one to one.
ASSUME WorkersAssumption == Workers # {}

FeedSteps == {"loop", "claim", "query", "send", "closed"}

\* recv: blocked on the channel.  got: object received, startMu not yet taken.
\* start: admitted.  check, query, request: inside ProcessOne, before, inside
\* and after a lock check.  judge: ProcessOne returned.  halt, persist: inside
\* Runner.halt, before and inside its once.  write: about to record the result.
WorkerSteps == {"recv", "got", "start", "check", "query", "request", "judge",
                "halt", "persist", "write", "exit"}
Handling == WorkerSteps \ {"recv", "got", "exit"}

\* How an attempt ended; "cut": by the cancellation, not by a fault of its own.
Outcomes == {"ok", "fail", "cut", "unsafe"}

VARIABLES
  prog, hold,                    \* durable: purge_progress, hold_reason set
  feed, batch, after, claimErr,  \* the feed: rows claimed and not yet sent
  queue,                         \* the channel
  wpc, obj, reqs, res,           \* the workers
  stopErr, haltErr, halting, holdErr,  \* the Runner's error fields; haltOnce
  failed, interrupted, unrecorded,     \* what finish counts, as sets of objects
  cancelled, parentDone,         \* the run's context; the lock's, its parent
  mutex, lost,                   \* the lock: holder of l.mu, l.lost # nil
  result,                        \* what Run returns
  begun, cleared, faulty         \* history: objects whose attempt began,
                                 \* succeeded, failed through its own fault

ledger  == <<prog, hold>>
feeding == <<feed, batch, after, claimErr>>
working == <<wpc, obj, reqs, res>>
errs    == <<stopErr, haltErr, halting, holdErr>>
counts  == <<failed, interrupted, unrecorded>>
ctx     == <<cancelled, parentDone>>
lock    == <<mutex, lost>>
past    == <<begun, cleared, faulty>>
vars == <<ledger, feeding, queue, working, errs, counts, ctx, lock, result, past>>

Lowest(S) == {x \in S : \A y \in S : x <= y}

Init ==
  /\ prog = [o \in Oids |-> "none"] /\ hold = FALSE
  /\ feed = "loop" /\ batch = {} /\ after = 0 /\ claimErr = FALSE
  /\ queue = {}
  /\ wpc = [w \in Workers |-> "recv"]
  /\ obj = [w \in Workers |-> 0]
  /\ reqs = [w \in Workers |-> 0]
  /\ res = [w \in Workers |-> "ok"]
  /\ stopErr = FALSE /\ haltErr = 0 /\ halting = "no" /\ holdErr = FALSE
  /\ failed = {} /\ interrupted = {} /\ unrecorded = {}
  /\ cancelled = FALSE /\ parentDone = FALSE
  /\ mutex = Nobody /\ lost = FALSE
  /\ result = "running"
  /\ begun = {} /\ cleared = {} /\ faulty = {}

-----------------------------------------------------------------------------
(* lock.Check, by whoever holds the mutex.                                 *)

WrongLoseLock ==   \* returns with the mutex locked
  /\ lost' = TRUE
  /\ cancelled' = TRUE
  /\ parentDone' = TRUE
  /\ UNCHANGED mutex

\* l.lost is set, and the lock's context cancelled, by any error of the query.
LoseLock ==
  /\ lost' = TRUE
  /\ mutex' = Nobody
  /\ cancelled' = TRUE
  /\ parentDone' = TRUE

\* The check passes its two early returns; dead: the caller's context is done.
MayQuery(dead) == mutex = Nobody /\ ~lost /\ ~dead

\* The query fails because the caller's context ends, or the database fails.
QueryMayFail(dead) == dead \/ DbFails

\* The heartbeat checks the lock every two seconds until its context is done.
BeatCheck ==
  /\ MayQuery(parentDone)
  /\ result = "running"
  /\ mutex' = Beat
  /\ UNCHANGED <<ledger, feeding, queue, working, errs, counts, ctx, lost, result,
                 past>>

BeatAnswer ==
  /\ mutex = Beat
  /\ \/ mutex' = Nobody /\ UNCHANGED <<lost, ctx>>
     \/ QueryMayFail(parentDone) /\ LoseLock
  /\ UNCHANGED <<ledger, feeding, queue, working, errs, counts, result, past>>

-----------------------------------------------------------------------------
(* The feed.                                                               *)

CloseFeed(err) ==
  /\ feed' = "closed"
  /\ batch' = {}
  /\ claimErr' = err
  /\ UNCHANGED after

\* The select around a claim and around each send.
FeedStops ==
  /\ feed \in {"loop", "send"}
  /\ \/ stopErr /\ CloseFeed(FALSE)
     \/ cancelled /\ CloseFeed(TRUE)
  /\ UNCHANGED <<ledger, queue, working, errs, counts, ctx, lock, result, past>>

FeedLoops ==
  /\ feed = "loop" /\ ~stopErr /\ ~cancelled
  /\ feed' = "claim"
  /\ UNCHANGED <<ledger, batch, after, claimErr, queue, working, errs, counts, ctx,
                 lock, result, past>>

\* The claim ends in an error: stop, and return it.
ClaimFails == CloseFeed(TRUE) /\ stopErr' = TRUE

\* CheckLock before the claim query.
FeedCheck ==
  /\ feed = "claim"
  /\ \/ /\ MayQuery(cancelled)
        /\ mutex' = Feed
        /\ feed' = "query"
        /\ UNCHANGED <<batch, after, claimErr, stopErr>>
     \/ /\ mutex = Nobody /\ (lost \/ cancelled)
        /\ ClaimFails
        /\ UNCHANGED mutex
  /\ UNCHANGED <<ledger, queue, working, haltErr, halting, holdErr, counts, ctx,
                 lost, result, past>>

WrongRows ==   \* pages from the start again
  {o \in Oids : prog[o] # "done"}

\* ClaimSubtask: rows after the last one sent that are not done.
Rows == {o \in Oids : o > after /\ prog[o] # "done"}

\* The first Page rows, in order; an empty page ends the feed.
FeedClaim ==
  /\ feed = "query"
  /\ \/ /\ mutex' = Nobody
        /\ \/ /\ batch' = {o \in Rows : Cardinality({u \in Rows : u < o}) < Page}
              /\ feed' = IF Rows = {} THEN "closed" ELSE "send"
              /\ UNCHANGED <<after, claimErr, stopErr>>
           \/ QueryMayFail(cancelled) /\ ClaimFails
        /\ UNCHANGED <<lost, ctx>>
     \/ QueryMayFail(cancelled) /\ LoseLock /\ ClaimFails
  /\ UNCHANGED <<ledger, queue, working, haltErr, halting, holdErr, counts, result,
                 past>>

FeedSend ==
  /\ feed = "send"
  /\ Cardinality(queue) < ChanCap
  /\ \E o \in Lowest(batch) :
       /\ queue' = queue \union {o}
       /\ batch' = batch \ {o}
       /\ after' = o
       /\ feed' = IF batch = {o} THEN "loop" ELSE "send"
  /\ UNCHANGED <<ledger, claimErr, working, errs, counts, ctx, lock, result, past>>

-----------------------------------------------------------------------------
(* A worker.                                                               *)

Goto(w, step) == wpc' = [wpc EXCEPT ![w] = step]

Receive(w) ==
  /\ wpc[w] = "recv"
  /\ \E o \in Lowest(queue) :
       /\ queue' = queue \ {o}
       /\ obj' = [obj EXCEPT ![w] = o]
  /\ Goto(w, "got")
  /\ UNCHANGED <<ledger, feeding, reqs, res, errs, counts, ctx, lock, result, past>>

\* The channel is closed and empty.
Leave(w) ==
  /\ wpc[w] = "recv" /\ feed = "closed" /\ queue = {}
  /\ Goto(w, "exit")
  /\ UNCHANGED <<ledger, feeding, queue, obj, reqs, res, errs, counts, ctx, lock,
                 result, past>>

\* Under startMu: a stop is either before this step or after it.
Admit(w) ==
  /\ wpc[w] = "got"
  /\ Goto(w, IF cancelled \/ stopErr THEN "recv" ELSE "start")
  /\ UNCHANGED <<ledger, feeding, queue, obj, reqs, res, errs, counts, ctx, lock,
                 result, past>>

\* handle: the object is left alone once the context is done.
Start(w) ==
  /\ wpc[w] = "start"
  /\ Goto(w, IF cancelled THEN "recv" ELSE "check")
  /\ reqs' = [reqs EXCEPT ![w] = 0]
  /\ begun' = IF cancelled THEN begun ELSE begun \union {obj[w]}
  /\ UNCHANGED <<ledger, feeding, queue, obj, res, errs, counts, ctx, lock, result,
                 cleared, faulty>>

\* The attempt returns.
Return(w, outcome) ==
  /\ Goto(w, "judge")
  /\ res' = [res EXCEPT ![w] = outcome]

\* wait and the check before the chain query: no request without the lock.
CheckLock(w) ==
  /\ wpc[w] = "check"
  /\ \/ MayQuery(cancelled) /\ mutex' = w /\ Goto(w, "query") /\ UNCHANGED res
     \/ mutex = Nobody /\ (lost \/ cancelled) /\ Return(w, "cut") /\ UNCHANGED mutex
  /\ UNCHANGED <<ledger, feeding, queue, obj, reqs, errs, counts, ctx, lost, result,
                 past>>

LockAnswer(w) ==
  /\ wpc[w] = "query"
  /\ \/ Goto(w, "request") /\ mutex' = Nobody /\ UNCHANGED <<lost, ctx, res>>
     \/ QueryMayFail(cancelled) /\ LoseLock /\ Return(w, "cut")
  /\ UNCHANGED <<ledger, feeding, queue, obj, reqs, errs, counts, result, past>>

\* One request and what follows it in ProcessOne: the next one, or the end.
Request(w) ==
  LET o == obj[w] IN
  /\ wpc[w] = "request"
  /\ reqs' = [reqs EXCEPT ![w] = @ + 1]
  /\ \/ reqs[w] + 1 < MaxRequests /\ Goto(w, "check") /\ UNCHANGED <<res, cleared, faulty>>
     \/ Return(w, "ok") /\ cleared' = cleared \union {o} /\ UNCHANGED faulty
     \/ \E outcome \in {"fail", "unsafe"} : Return(w, outcome)
        /\ faulty' = faulty \union {o} /\ UNCHANGED cleared
     \/ cancelled /\ Return(w, "cut") /\ UNCHANGED <<cleared, faulty>>
  /\ UNCHANGED <<ledger, feeding, queue, obj, errs, counts, ctx, lock, result, begun>>

WrongJudge(w) ==   \* records whatever the cancellation cut short as a failure
  LET fails == res[w] \in {"fail", "cut"} IN
  /\ wpc[w] = "judge"
  /\ Goto(w, IF res[w] = "unsafe" THEN "halt" ELSE "write")
  /\ failed' = IF fails THEN failed \union {obj[w]} ELSE failed
  /\ stopErr' = (stopErr \/ fails)
  /\ UNCHANGED interrupted
  /\ UNCHANGED <<ledger, feeding, queue, obj, reqs, res, haltErr, halting, holdErr,
                 unrecorded, ctx, lock, result, past>>

\* handle, from ProcessOne's return to halt or the write.
Judge(w) ==
  LET fails == res[w] \in {"fail", "cut"} IN
  /\ wpc[w] = "judge"
  /\ IF fails /\ cancelled
     THEN /\ Goto(w, "recv")
          /\ interrupted' = interrupted \union {obj[w]}
          /\ UNCHANGED <<failed, stopErr>>
     ELSE /\ Goto(w, IF res[w] = "unsafe" THEN "halt" ELSE "write")
          /\ failed' = IF fails THEN failed \union {obj[w]} ELSE failed
          /\ stopErr' = (stopErr \/ fails)
          /\ UNCHANGED interrupted
  /\ UNCHANGED <<ledger, feeding, queue, obj, reqs, res, haltErr, halting, holdErr,
                 unrecorded, ctx, lock, result, past>>

\* haltOnce: the first violation cancels the run; later ones wait for its end.
Halt(w) ==
  /\ wpc[w] = "halt"
  /\ \/ /\ halting = "no"
        /\ halting' = "busy"
        /\ haltErr' = obj[w]
        /\ cancelled' = TRUE
        /\ Goto(w, "persist")
        /\ UNCHANGED failed
     \/ /\ halting = "done"
        /\ Goto(w, "write")
        /\ failed' = failed \union {obj[w]}
        /\ UNCHANGED <<halting, haltErr, cancelled>>
  /\ UNCHANGED <<ledger, feeding, queue, obj, reqs, res, stopErr, holdErr,
                 interrupted, unrecorded, parentDone, lock, result, past>>

\* A write under a detached context: a lost lock refuses it, its own check may
\* lose the lock, it reaches the database or not and is answered or not.
Writes(written, answered) ==
  /\ mutex = Nobody
  /\ \/ /\ IF lost THEN ~written /\ ~answered
                    ELSE (written /\ answered) \/ (DbFails /\ ~answered)
        /\ UNCHANGED <<lock, ctx>>
     \/ ~lost /\ DbFails /\ ~written /\ ~answered /\ LoseLock

WrongPersist(w, written, answered) ==   \* drops the error of OnSafety
  /\ wpc[w] = "persist"
  /\ Writes(written, answered)
  /\ hold' = (hold \/ written)
  /\ halting' = "done"
  /\ failed' = failed \union {obj[w]}
  /\ Goto(w, "write")
  /\ UNCHANGED <<prog, feeding, queue, obj, reqs, res, stopErr, haltErr, holdErr,
                 interrupted, unrecorded, result, past>>

\* OnSafety inside the once: pg.Hold.
Persist(w, written, answered) ==
  /\ wpc[w] = "persist"
  /\ Writes(written, answered)
  /\ hold' = (hold \/ written)
  /\ holdErr' = ~answered
  /\ halting' = "done"
  /\ failed' = failed \union {obj[w]}
  /\ Goto(w, "write")
  /\ UNCHANGED <<prog, feeding, queue, obj, reqs, res, stopErr, haltErr, interrupted,
                 unrecorded, result, past>>

WrongRecord(w, written, answered) ==   \* logs a lost Done and forgets it
  LET o == obj[w]
      ok == res[w] = "ok"
  IN  /\ wpc[w] = "write"
      /\ Writes(written, answered)
      /\ prog' = [prog EXCEPT ![o] = CASE ~written -> @
                                        [] written /\ ok -> "done"
                                        [] OTHER -> "failed"]
      /\ Goto(w, "recv")
      /\ UNCHANGED <<hold, feeding, queue, obj, reqs, res, errs, failed, unrecorded,
                     interrupted, result, past>>

\* Done or Fail; a Done that was not confirmed stops the run.
Record(w, written, answered) ==
  LET o == obj[w]
      ok == res[w] = "ok"
  IN  /\ wpc[w] = "write"
      /\ Writes(written, answered)
      /\ prog' = [prog EXCEPT ![o] = CASE ~written -> @
                                        [] written /\ ok -> "done"
                                        [] OTHER -> "failed"]
      /\ unrecorded' = IF answered THEN unrecorded \ {o} ELSE unrecorded \union {o}
      /\ stopErr' = (stopErr \/ (ok /\ ~answered))
      /\ Goto(w, "recv")
      /\ UNCHANGED <<hold, feeding, queue, obj, reqs, res, haltErr, halting, holdErr,
                     failed, interrupted, result, past>>

-----------------------------------------------------------------------------

\* Ctrl+C cancels the lock's context and with it the run's.
Interrupt ==
  /\ Interrupts /\ ~parentDone /\ result = "running"
  /\ cancelled' = TRUE
  /\ parentDone' = TRUE
  /\ UNCHANGED <<ledger, feeding, queue, working, errs, counts, lock, result, past>>

WrongProblems == haltErr # 0 \/ stopErr \/ failed # {} \/ unrecorded # {}

\* What finish turns into an error.
Problems == \/ haltErr # 0 \/ stopErr \/ claimErr
            \/ failed # {} \/ unrecorded # {} \/ parentDone

\* work has waited for the feed and every worker.
Finish ==
  /\ result = "running"
  /\ feed = "closed" /\ \A w \in Workers : wpc[w] = "exit"
  /\ result' = IF Problems THEN "error" ELSE "nil"
  /\ UNCHANGED <<ledger, feeding, queue, working, errs, counts, ctx, lock, past>>

Worker(w) ==
  \/ Receive(w) \/ Leave(w) \/ Admit(w) \/ Start(w) \/ CheckLock(w) \/ LockAnswer(w)
  \/ Request(w) \/ Judge(w) \/ Halt(w)
  \/ \E written, answered \in BOOLEAN : Persist(w, written, answered)
  \/ \E written, answered \in BOOLEAN : Record(w, written, answered)

Feeder == FeedStops \/ FeedLoops \/ FeedCheck \/ FeedClaim \/ FeedSend

Next ==
  \/ BeatCheck \/ BeatAnswer
  \/ Feeder
  \/ \E w \in Workers : Worker(w)
  \/ Interrupt
  \/ Finish

Spec == Init /\ [][Next]_vars

\* A request ends (every one has a deadline), a goroutine that can run does,
\* and a waiter for a mutex gets it in the end although others keep taking it
\* (sync.Mutex hands over to a starved waiter).
FairSpec == /\ Spec
            /\ WF_vars(BeatAnswer) /\ WF_vars(Finish)
            /\ SF_vars(Feeder)
            /\ \A w \in Workers : SF_vars(Worker(w))

-----------------------------------------------------------------------------
(* Correctness.                                                            *)

LedgerTypes == prog \in [Oids -> {"none", "done", "failed"}] /\ hold \in BOOLEAN
FeedTypes ==
  /\ feed \in FeedSteps /\ batch \subseteq Oids /\ after \in Oids \union {0}
  /\ claimErr \in BOOLEAN
  /\ queue \subseteq Oids
WorkerTypes ==
  /\ wpc \in [Workers -> WorkerSteps] /\ obj \in [Workers -> Oids \union {0}]
  /\ reqs \in [Workers -> Nat] /\ res \in [Workers -> Outcomes]
ErrorTypes ==
  /\ stopErr \in BOOLEAN /\ haltErr \in Oids \union {0}
  /\ halting \in {"no", "busy", "done"} /\ holdErr \in BOOLEAN
CountTypes ==
  /\ failed \subseteq Oids /\ interrupted \subseteq Oids /\ unrecorded \subseteq Oids
LockTypes ==
  /\ cancelled \in BOOLEAN /\ parentDone \in BOOLEAN
  /\ mutex \in Workers \union {Feed, Beat, Nobody} /\ lost \in BOOLEAN
  /\ result \in {"running", "nil", "error"}
PastTypes == begun \subseteq Oids /\ cleared \subseteq Oids /\ faulty \subseteq Oids
Types == /\ LedgerTypes /\ FeedTypes /\ WorkerTypes /\ ErrorTypes /\ CountTypes
         /\ LockTypes /\ PastTypes

MutexHeld ==
  /\ (feed = "query") <=> (mutex = Feed)
  /\ \A w \in Workers : (wpc[w] = "query") <=> (mutex = w)

\* Every field has its type, and the lock's mutex is held by a caller that is
\* inside its query.
TypeOK == Types /\ MutexHeld

\* Run returns nil only when every object it could claim is recorded as done:
\* objects dropped from the channel by a stop, a halt or an interrupt always
\* show in the error, also when the feed had ended with no error of its own.
NilMeansDone == result = "nil" => ~hold /\ \A o \in Oids : prog[o] = "done"

InHand(w) == wpc[w] \in Handling \union {"got"}

\* No object is handled twice in a run, by two workers at once or one after the
\* other, although a claim may read a row a worker has not recorded yet.
OnceOnly ==
  /\ \A v, w \in Workers : InHand(v) /\ InHand(w) /\ obj[v] = obj[w] => v = w
  /\ batch \intersect queue = {}
  /\ \A w \in Workers : wpc[w] \in {"got", "start"} => obj[w] \notin begun
  /\ \A w \in Workers : InHand(w) => obj[w] \notin batch \union queue

\* The summary that finish prints misses nothing: an attempt that began ended
\* recorded as done, or failed, or unrecorded, or interrupted, and is in the
\* last class only after a cancellation, with no row written.
Accounted ==
  result # "running" =>
    /\ begun = {o \in Oids : prog[o] = "done"} \union failed \union interrupted
                 \union unrecorded
    /\ ~cancelled => interrupted = {}
    /\ \A o \in interrupted : prog[o] = "none" /\ o \notin failed \union unrecorded

\* Being cancelled is not a failure: purge_progress says "failed" only of an
\* object that failed by itself, so a halt or Ctrl+C leaves no failures behind.
CutIsNotFailure == \A o \in Oids : prog[o] = "failed" => o \in faulty

\* A safety violation is never lost: once Run returns, the hold is in the ledger
\* or the error says that it could not be written.
HaltIsReported ==
  /\ hold => haltErr # 0
  /\ result # "running" /\ haltErr # 0 => result = "error" /\ (hold \/ holdErr)

Busy == {obj[w] : w \in {v \in Workers : wpc[v] \in Handling}}

\* stop is a clean cut: once it has returned, no object is admitted, whatever
\* was received from the channel or claimed before.
StopAdmitsNone == [][stopErr => Busy' \subseteq Busy]_vars

\* Once a check has found the lock lost, no worker sends another request.
NoRequestAfterLoss ==
  [][lost => \A w \in Workers : wpc'[w] = "request" => wpc[w] = "request"]_vars

\* Run returns: the feed is not stuck on a full channel, a worker not on an open
\* one, and nobody waits for the once or the lock for ever.
Termination == <>(result # "running")

\* A safety violation "stops dispatch, cancels what is in flight and persists
\* SAFETY_HOLD" (README.md); stated for runs in which the database never fails.
HaltPersistsHold == ~DbFails /\ result # "running" /\ haltErr # 0 => hold

\* "an object finished just as the operator hits Ctrl+C is still recorded
\* instead of being redone" (purge.go, writeTimeout), the database not failing.
FinishedIsRecorded ==
  ~DbFails /\ result # "running" => \A o \in cleared : prog[o] = "done"

=============================================================================
