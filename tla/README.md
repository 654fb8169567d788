# A TLA+ model of limewire-purge

limewire-purge deletes the stored pieces of one bucket's objects from a storage
provider (SP), and proves afterwards that they are gone. It is run by an
operator, one command at a time, over weeks; commands fail, are interrupted and
are run again. What makes it correct is therefore less any one command than what
a sequence of commands, crashes and repairs can do to the progress database (the
*ledger*), and what the goroutines of a running `purge` do to each other.

## 1. The system

### Components

| Component | State | Operations | Interacts with |
|---|---|---|---|
| progress ledger (`internal/progress/subtask.go`, `progress.go`) | `purge_tasks` (phase, hold, generation, `purged_at`, `done_at`, execution connection), `task_objects` (membership, deferral, verdict and its generation), `purge_progress` (done / failed) | create, begin/complete purge, claim, done, fail, hold, begin/record/complete verify, defer, resume, the recovery update of `EnsureSchema` | every command, through the execution lock |
| purge run (`internal/purge/purge.go`) | feed cursor, channel, workers, `stopErr`, `haltErr`, the run's context, counters, `unrecorded` | `Run`, `work`, `handle`, `stop`, `halt`, `finish` | ledger (claim, done, fail, hold), lock, storage, chain |
| per-object deletion (`ProcessOne`, `clearPrefix`) | per-key retry budget | chain check, list and delete both prefixes until empty, re-check | storage, chain, lock |
| execution lock (`internal/progress/lock.go`) | a MySQL `GET_LOCK` session, `l.mu`, `l.lost`, the lock's context | `Acquire`, `Check`, the 2 s heartbeat, `Close` | the context of everything above |
| verification run (`internal/verify`, `cmd/.../verify.go`) | page cursor | check each pending object's prefixes, record, complete, export | ledger, storage, lock |
| task commands (`cmd/.../tasks.go`) | none | `task create`, `defer`/`exclude`, `resume` | ledger |
| purge and status commands (`cmd/.../main.go`) | none | opening, refusals that latch a hold, completion; `RUNNING`, `ALL_DONE` | ledger, lock |
| scan and its seal (`internal/bsdb`, `task.go`) | `scan_objects`, `task_meta.scan_status` | scan, reconcile, seal | the SP's block-syncer database |
| task binding (`task.go`) | `task_meta`'s binding | written by the first scan, compared by every command | scan, all commands |
| capacity selection, size check, piece keys | pure functions | - | create, purge, storage |
| storage (`internal/s3store`), chain (`internal/chain`), deadlines (`internal/deadline`) | a goroutine and a channel per call | list, delete, look up; deadline, retry | per-object deletion, verification |
| report export (`cmd/.../verify.go`) | a temporary file, the report | write, sync, rename, then `done_at` | ledger, file system |
| configuration (`internal/spconfig`) | constants | parsed once at start-up | - |

### What is hard about it

* **Crashes between writes.** A task's life is a dozen separately committed
  statements by several processes. `purged_at`, for one, may be set by
  `CompletePurge`, by `task defer`, by `verify`, or by the next command's
  `EnsureSchema`.
* **Stale verdicts.** PASS and RESIDUE rows outlive the deletion that voids them;
  only `verify_generation` and the RESIDUE marker tell old from new.
* **Objects with several memberships.** A deferred object is retried in a later
  task; progress rows are per object, not per task.
* **Interleaving in a run.** A feed, several workers and a heartbeat share a
  bounded channel, a stop flag, a once, a mutex and two contexts, one derived
  from the other.
* **Cancellation and the lock.** Every request first asks the database whether
  the lock is still held, under a context that others cancel.
* **Lost answers.** A result may be committed although its writer got an error, and
  keys may be gone although the delete request failed.
* **A lock without fencing.** Between a check of the lock and the statement it
  allows the server may give the lock to another command.
* **A moving source.** The index a scan reads, and the bucket a purge clears, may
  change meanwhile.
* **Unlocked reads.** `status` asks several queries while commands run.

The hazards, each at its line, are listed in `PROJECT.json`.

### What makes each part correct

* Ledger: tasks never overlap; a hold blocks every deletion; `done_at` and
  `ALL_DONE` mean what the report says; no task takes credit for another's
  deletion; nothing recorded is taken back; no task gets into a state no command
  accepts.
* Purge run: `Run` returns nil only if everything was recorded done; no object is
  handled twice; the summary is complete; a cancellation is not recorded as a
  failure; a violation always reaches the operator; `Run` returns.
* Lock: no request after it is known to be lost; a result of a finished object is
  recorded also during an interrupt.
* Scan: the sealed list is one provider's list, read by one scan, and stays.
* Deletion: only the object's own pieces, with a bounded number of retries; the row
  claims no removal that did not happen; every attempt ends.
* Lookups: they return, with the answer of the attempt that is being waited for.
* Report: never partial; a done task has the report of its generation.
* Recovery: after finitely many faults the documented procedure leads to `ALL_DONE`.

## 2. Modules

| Module | Models | Used by |
|---|---|---|
| `Subtasks` | the ledger, the bucket and every command on them | the next four, run `read_error` |
| `Custody` | what the ledger promises: duty, checks, certificates, pieces | `LedgerCustody` |
| `LedgerCustody` | the refinement mapping from `Subtasks` to `Custody` | `Operator` |
| `Operator` | `Subtasks` under an operator who follows the recovery table | run `operator` |
| `Status` | `Subtasks` with a `status` that reads beside the commands | run `batches` |
| `LedgerProofs` | theorems about `Subtasks`, `Status`, `Operator` and the refinement of `Custody` | - |
| `PurgeRunner`, `PurgeRunnerProofs` | one `purge.Runner.Run` with the lock, goroutine by goroutine | runs `purge_run`, `halt_hold` |
| `ObjectPurge`, `ObjectPurgeProofs` | `ProcessOne` and `clearPrefix`, request by request, and the row | run `object` |
| `LockRace`, `LockRaceProofs` | two commands, statement by statement, around the loss of the lock | runs `lock_race`, `old_pass` |
| `ScanList`, `ScanListProofs` | binding, scan, reconciliation, seal | run `scan` |
| `Deadline`, `DeadlineProofs` | `deadline.Call` and `RetryIf` around one chain lookup | run `deadline` |
| `Report`, `ReportProofs` | verify's tail and the file system | run `report` |
| `Capacity` | `SelectCapacity` in integers that wrap | `Calculations` |
| `SizeCheck` | `ExpectedSecondaryBytes` in integers that wrap | `Calculations` |
| `PieceKey` | `Key`, `Parse`, `Prefixes`, `KeepOnly` | `Calculations` |
| `Calculations`, `CalculationsProofs` | the three, over all their inputs | run `calculations` |

The detailed modules are about one part each, and meet in what the ledger modules
take for granted: `ObjectPurge` opens up the step `ClearPrefix` of `Subtasks`,
`PurgeRunner` its run, `LockRace` its assumption that the lock is kept, `ScanList`
its sealed list, `Capacity` the prefixes `CreateSubtask` may take, `Report` the end
of its verification. `Status` and (through `LedgerCustody`) `Operator` extend
`Subtasks` itself.

### Subtasks

A behaviour starts from a sealed scan and any contents of the bucket. One command
runs at a time: `Acquire` (the lock), `EnsureSchema` (drop the old lock
attribution, recover a missing `purged_at`), then one of the commands, ending in
`Release`. `Exit` is a refusal, an error or a crash, and is possible in every
state of a command, so a crash may fall between any two committed writes.

| Action | Code |
|---|---|
| `CreateSubtask` | `DB.CreateSubtask`, one transaction; `SelectCapacity` contributes the set of prefixes it can return |
| `PurgeRefused`, `VerifyRefused` | `holdGlobal` in `runPurge` and `runVerify` |
| `BeginPurge` | `DB.BeginPurge`: requeue residue, new generation; the claim set of the run is fixed here, since only the run itself changes it |
| `StartObject`, `ClearPrefix`, `Recheck` | the worker and `ProcessOne` |
| `RecordDone`, `RecordFail`, `Unrecorded`, `HaltOn`, `RecordUnsafe` | the ends of `handle`: done (answered or not), failed, no result, violation |
| `Interrupt` | a failed claim, Ctrl+C |
| `CompletePurge` | the tail of `runPurge` and `DB.CompletePurge` |
| `BeginVerify`, `CheckObject`, `LookAt`, `RecordVerify`, `CompleteVerify` | `runVerify`, `verify.Runner` |
| `DeferObject`, `CompleteDefer` | the transaction of `task defer`, and the `CompletePurge` after it |
| `ResumeSafety` | `task resume` |
| `WriteBack` | environment: another process of the SP stores pieces |

Where the data is abstracted: the bucket is the set of (object, prefix) pairs
under which anything exists; keys, bytes, digests, reasons and the event log are
left out; a chain lookup or a manifest check is its outcome. `clearPrefix` is one
step: if it fails half-way the pair still holds pieces, or the next prefix's
failure is the same state. The two updates of `EnsureSchema` are one step: the
second is idempotent, does not read what the first writes, and is run again by
the next command. Ordinary stop, cancellation and halt are the values of `mode`.

Three history variables serve the properties: `fresh[t]` (members that passed
since the last deletion or `--restart`), `processed[t]` (members cleared and
recorded by this task), `rewritten` (objects written to since their last check
began).

### PurgeRunner

Here a step is what one goroutine does between two synchronisation points. The
feed: `FeedLoops`, `FeedCheck` and `FeedClaim` (the lock check and the query of
`progressAdapter.Claim`), `FeedSend`, `FeedStops` (the two selects). A worker:
`Receive`, `Admit` (under `startMu`), `Start`, then `CheckLock`, `LockAnswer`,
`Request` for every request of `ProcessOne`, `Judge` (the decision after it
returns), `Halt` and `Persist` (before and inside `haltOnce`), `Record`. The
heartbeat: `BeatCheck`, `BeatAnswer`. `Lock.Check` is two steps, taking `l.mu`
and returning, so that a cancellation can fall between them; any error sets
`lost` and cancels the lock's context, exactly as `lock.go:100-103`.

Object ids reach the channel in ascending order (the claim is ordered and paged
by a cursor), so the channel is a set whose head is its lowest element. `Writes`
is a detached write: refused once the lock is lost, able to lose it by its own
check, committed or not, answered or not. `MaxRequests` stands for the number of
requests of an attempt. A mutex of the Runner (`startMu`, `r.mu`) is held for one
step only. The rate limiter, the counters that are only printed, and dry run are
left out.

### Custody

Four variables and no tables: the objects a task answers for (`duty`), those whose
check counts (`checked`), its certificate, and the pieces in the bucket. `Assign`,
`GiveUp`, `Void`, `Delete`, `Pass`, `Certify` and `Store` are all that may happen.
The mapping: `duty` is the active members, `checked` the PASS rows of the current
generation, the certificate `done_at`. A crash, a hold, a lost answer, a new lock
holder, `status`' bookkeeping and the recovery update are stuttering steps.

### ObjectPurge

The whole life of one object over several attempts, a request per step: `HeadObject`,
`List` (an empty listing ends the prefix, a foreign key ends the attempt, a failed
listing uses up its own budget), `Delete` with the set of keys that went, the set the
answer names as failed, and possibly no answer at all, the re-check, and the write of
the row, which fails, is committed unanswered, or succeeds. The bucket may gain keys
(`WriteBack`) and the run may be cut at every step. Keys are numbers, because only
their order matters (a listing is a window of the first keys).

### LockRace

Every command is broken up at its checks of the lock, so that the lock may go between
a check and the statement it allowed (`..._write`, `..._commit`, `..._record`,
`..._end`). `Lose` is the server's: it drops a lock without telling the holder, at
most `MaxLosses` times. A transaction is one step from its first row lock on, except
that `CreateSubtask`, whose row lock others wait for, is four. Holds, deferrals and
`--retry-deferred` are left to `Subtasks`.

A purge has `Workers` workers (`Concurrency`), and each has a check and a write of its
own: `PurgeObject` and `FailObject` are a worker that is through with an object and has
passed the check of `DoneSubtask` or of `CheckMember` (in the adapter's `Fail`);
`RecordDone` and `RecordFail` are its write. `writing` holds the objects between the two,
so several results may be on their way when the lock goes. After a failure no object is
begun that is not in a worker's hands (`InHand`), the others are recorded, and the run
does not complete.

### ScanList

A row of the index is its id and a version, which stands for what it says (payload size,
status, version) and goes up when the object is changed; ids only go up; a deleted
object's row no longer counts. `scan_objects` keeps what was stored first: `InsertScan` is
an INSERT IGNORE.
`Count`, `Bind`, `BeginScan`, one step per page, `Recount` and `FinishScan` follow
`runScan`, for several processes and several providers, on a fresh database or one an
older version left (`Legacy`). History records what the source was at the second
count, what the sealing scan read, which rows the table had when it began, which of its
rows are outdated, and whether both an addition and a removal overtook the scan.

### Operator, Status

`Operator` splits the steps of `Subtasks` into the operator's routine (what the table
in `README.md` says to do in the state `status` prints) and everything else, of which
there may be `MaxFaults` steps. `AdviceAccepted` is the other half of that table: in every
state of the ledger between two commands, the command it names for what `status` prints
is one that the code does not refuse (`PurgeAccepts`, `VerifyAccepts`, `DeferAccepts`
are the guards of the commands). `Status` adds the sequence of reads of `runStatus` to
`Subtasks`, one action per query; it starts again as often as it likes.

### Deadline, Report, Capacity, SizeCheck, PieceKey

`Deadline` keeps each attempt's goroutine and channel separately, since a goroutine
that was given up may still answer; `select` with several ready cases may take any.
`Report` keeps of a file which generation and rows it shows, whether it is whole and
whether it is synced; `PowerLoss` forgets what is not synced, and possibly the last
rename. `Capacity` executes the loop of the code in integers of `Wrap` values, batch
after batch; `SizeCheck` has its loop as a recursive function; `PieceKey` has keys as
sequences of parts and the ranges of their numbers (`OidRange`, `IndexRange`,
`VersionRange`) as constants. `Calculations` ranges over their inputs.

## 3. Runs

| Run | Module | Bounds | Distinct states | Checks |
|---|---|---|---|---|
| `batches` | `Status` | 2 objects, 2 tasks, 2 generations | 1.47 M | `TypeOK`, `OneCurrentTask`, `HoldStopsPurge`, `OnlyCreateFools` |
| `operator` | `Operator` | 2 objects, 4 tasks, 6 generations, 2 workers, 2 faults, pieces of one object may come back | 189 k | `DoneIsVerified`, `ProcessedHere`, `RunningIsTrue`, `AllDoneSound`, `AdviceAccepted`, `KeepsCustody`, `LedgerOnlyGrows`, `Recovers` |
| `purge_run` | `PurgeRunner` | 3 objects, 2 workers, channel of 1, pages of 2, 1 request | 561 k | `NilMeansDone`, `OnceOnly`, `Accounted`, `CutIsNotFailure`, `HaltIsReported`, `Termination` |
| `object` | `ObjectPurge` | 5 keys, one foreign, windows of 2, 1 retry, 2 attempts, 1 write-back | 222 k | `DoneMeansClean`, `PieceBudget`, `CreditSound`, `OnlyOwnPieces`, `AttemptEnds` |
| `lock_race` | `LockRace` | 2 processes, 2 objects, 2 workers, 2 tasks, 3 generations, 1 loss | 1.07 M (with symmetry) | `NoOverlap`, `LateWrites`, `VoidedNeverFinishes` |
| `scan` | `ScanList` | 2 processes, 2 providers, 3 rows, pages of 2, 2 changes, 1 crash | 770 k (with symmetry) | `SealedIsOneScan`, `SealedIsSource`, `OneSource` |
| `calculations` | `Calculations` | 3 rows of 8 values; 18 parts, up to 5 of them; payloads of 32 values, segments up to 9, up to 5 chunks | 2.13 M | `ExactTotal`, `FitsTarget`, `ParseInvertsKey`, `ListedOnce`, `MatchesReference` |
| `deadline` | `Deadline` | 3 attempts | 52 k | `AnswerIsCurrent`, `RetriesInFull`, `Returns`, `NoLeak` |
| `report` | `Report` | 2 objects, 3 generations | 5 k | `NeverPartial`, `DoneHasReport` |
| `read_error`, `halt_hold`, `old_pass` | `Subtasks`, `PurgeRunner`, `LockRace` | small | - | one statement of the documentation each, violated (section 5) |

Further configurations, for the same modules and outside this list: `MCRepair` and
`MCRetry` check `Subtasks` with unlimited crashes on other bounds (four generations;
two connection ids), the inductive invariant `LedgerInv` included; `MCRequests` is
`purge_run` with two requests to an attempt and without fairness, and adds the
narrower properties of `PurgeRunner`; `MCInterrupt`, `MCTwoTasks`, `MCSizeRole`, `MCStatusRace` and
`MCRescan` reproduce departures of section 5.

Why the bounds are enough to be interesting. Two tasks are the least in which one
deferred object has two memberships, and two objects the least in which one
active member can hide another. Three generations allow delete, verify with
residue, delete again, verify; the rest leave room for `--restart` and for what the
faults cost: in `operator` verdicts that counted are voided by a repeated purge and by a
restart, which is what `KeepsCustody` is about. A connection id comes back after every crash, there being only one. In
`purge_run` the channel and the page are
smaller than `2*Concurrency` and `4*Concurrency` on purpose: with three objects
the feed then blocks on a full channel and claims a second page while the rows of
the first are still unrecorded, which the real sizes would need many objects for;
nothing in the code depends on the ratios. The generation, task and request
bounds (`MaxGen`, `MaxTasks`, `MaxRequests`) are guards of the model, not of the
code. The theorems of section 4 hold for every value of the constants.

In `object` three pieces against a window of two make a second listing necessary,
and two attempts suffice for one to inherit another's row. One loss of the lock is
what the code's checks are there for; with two, `VoidedNeverFinishes` fails as
`NoOldPass` does with one. Two workers and two objects let two results be written late
by the same purge, and the case does occur. Four tasks in `operator` allow each of the two faults to
end in a deferral and its retry. In `scan`, one addition and one removal are the
exchange that README.md warns of, and a page of two of three rows leaves a place to
be killed in; a change between the killed scan and the next one leaves an old snapshot in
the sealed list. In `calculations` nothing but the range of the integers and small lists
or parameters is bounded, and both kinds of integers wrap; the parts of keys include
every spelling that `Parse` treats differently (a leading zero, a numeral too
large for its field, no digits, no number).

The runs `batches`, `lock_race` and `report` also check for deadlock. The others do
not: `Run` or the lookup returns, the attempts, the faults or the list
are used up, after which nothing happens.

**Fairness** (`FairSpec`). A request ends, since all of them have deadlines, so
the heartbeat's answer and the return of `Run` are weakly fair. The feed and each
worker are strongly fair: they wait for `l.mu`, which others take and give back
again and again, and Go's `sync.Mutex` hands over to a waiter that has starved
for a millisecond. Nothing is assumed of the operator, of failures, or of the
start of heartbeats.

The other fair specifications. `ObjectPurge`: a running attempt takes its next step,
because every request has a deadline. `Deadline`: the caller runs, timers expire, and
a goroutine whose SDK call returned delivers; that the SDK returns at all is not
assumed. `ScanList` (for `MCRescan`): scan is run again, and its queries come back; the
source and the crashes are free, but bounded. `Operator`: the operator goes on
following the table, and a command under way goes on; requests, claims and waits all
have deadlines.

Every property comes with a faulty variant of one definition (the operators named
`Wrong...` and `EagerOverflows`, listed under `mutants` in `PROJECT.json`): put in its place, TLC finds
the property violated.

## 4. Proofs

Proved with TLAPS, for every value of the constants that the modules' assumptions
allow. Every safety invariant and every action property of the passing runs is proved;
the runs show them on a small instance, the theorems for any number of objects, keys,
tasks, workers, processes, rows, attempts, faults and losses, and for integers of any
width.

| Theorem | States | Run |
|---|---|---|
| `LedgerProofs!TypeCorrect` | `Spec => []TypeOK` | `batches` |
| `LedgerCorrect` | `Spec => []LedgerInv`, the inductive invariant | (`MCRetry`) |
| `AllocationSafe` | one current task; an object is active in its latest task only | `batches` |
| `VerificationSafe` | `done_at` means verified after the last deletion and restart | `operator` |
| `DoneRecoverable` | a done task can be verified again | - |
| `DeletionSafe` | no purge beside a hold | `batches` |
| `CreditIsOwn` | no borrowed credit; residue is owed | `operator` |
| `AttributionSound` | `RunningIsTrue`: `status` attributes the lock to one task at most, and to the right one outside the window named below | `operator` |
| `AllDoneHonest` | `ALL_DONE` is honest | `operator` |
| `LedgerMonotone` | the action property `LedgerOnlyGrows` | `operator` |
| `StatusSafe` | only a `task create` between its reads fools `status` | `batches` |
| `StatusIsLedger` | `StatusSpec => Spec`: the theorems of the ledger hold beside `status` | `batches` |
| `LedgerImplementsCustody` | `KeepsCustody`: `Subtasks` implements `Custody` | `operator` |
| `DeletionIsOwed` | an action property: a piece goes only from an active member of a task that is not done and has no verdict that counts | - |
| `AdviceSafe` | `AdviceAccepted`: what the recovery table advises is never refused | `operator` |
| `OperatorIsLedger`, `OperatorSafe` | `OperatorSpec => Spec`, and the invariants of the run and `KeepsCustody` for it | `operator` |
| `PurgeRunnerProofs!RunnerTypes`, `NilSafe`, `HandledOnce`, `SummaryComplete`, `CutSafe`, `HaltSafe` | `TypeOK` and the five invariants of the run | `purge_run` |
| `StopIsClean`, `LossIsFinal` | the action properties `StopAdmitsNone`, `NoRequestAfterLoss` | (`MCRequests`) |
| `LockRaceProofs!AllocationSafe`, `LateSafe` | `NoOverlap`, `LateWrites`, for any number of losses and of workers | `lock_race` |
| `VoidedSafe` | the action property `VoidedNeverFinishes`, for one loss | `lock_race` |
| `ObjectPurgeProofs!ObjectTypes`, `CleanSafe`, `BudgetSafe`, `CreditSafe`, `PiecesSafe` | `TypeOK`, the three invariants and the action property `OnlyOwnPieces` | `object` |
| `AttemptAdvances` | every step of an attempt brings its end nearer | - |
| `ScanListProofs!SealSafe`, `SourceSafe`, `BindingSafe` | the three invariants | `scan` |
| `DeadlineProofs!AnswerSafe`, `RetrySafe` | the two invariants | `deadline` |
| `NoneHeldUp`, `CallerAdvances` | no goroutine waits for room in its channel; the caller's steps are numbered | - |
| `ReportProofs!ReportWhole`, `DoneReported` | the two invariants | `report` |
| `CalculationsProofs!CapacitySafe`, `TotalIsExact` | the two invariants, for every list and every width of integers | `calculations` |
| `OverflowNeedsHugeTarget` | a refusal for overflow needs a target above half of the range | `calculations` (in `ExactTotal`) |
| `ExpectedBytesExact` | `MatchesReference`, for every payload, width and parameters | `calculations` |
| `ParseIsExact`, `ListingIsExact` | `ParseInvertsKey`, `ListedOnce`, for keys and numerals of any length | `calculations` |
| `CutsAsSelectCapacity` | `CalcSpec => Spec`: the theorems of `Capacity` hold in `Calculations` | `calculations` |

The assumptions are named in the modules that declare the constants, and TLC
evaluates them in the runs. Object ids are positive (`OidsAssumption`); bounds are
natural numbers; there is a worker (`WorkersAssumption`: `Run` raises a concurrency
below one to one); the keys under an object's prefixes are disjoint and finitely many
(`KeysAssumption`: a key has at most 1024 bytes); pages and windows hold a row. None
of them bounds a size.

All proofs of invariance have the same form. The inductive invariant is a conjunction
of named parts; `Frame` says which variables each part depends on; there is a lemma
for every action, with a step for each part the action can disturb and one `BY Frame`
for the rest; a lemma for the initial states and one for the next-state relation put
them together. Each of the inductive invariants was model-checked on the bounds of
its run before it was proved.

**Ledger** (`LedgerInv`). `VerificationSafe` speaks of history, the ledger only of
numbers, so `Freshness` ties them: an object is in `fresh[t]` exactly when its verdict
is PASS at the task's generation. Deletion and restart raise the generation, and no
verdict is ahead of it, so raising it empties `fresh`. `Checking` and `Purging`
say what the running command may hold in hand: active members of a task that is
not done, under `purge` none of them with a result, under `verify` none of them
fresh. For `AllDoneHonest`, `Sighted` carries what the check in progress has seen
and `Vouched` what finished checks saw, until somebody writes to the object;
`Membership` gives every assigned object a latest task, and no deferral in the
pool makes it active there. `Command` (which fields are set in which state of the
command, and whose connection id a row may carry) carries `AttributionSound`, together
with `MarkStep`: one row at most carries an id (`OneMark`). The theorem has one exception,
`pc = "locked"`: between GET_LOCK (`lock.go:50`) and the UPDATE at `progress.go:166` a
command that was given the connection id of a dead one makes `status` print RUNNING or
VERIFYING for the dead one's task. `README.md:190` (a mark from before a crash is not a
permanent occupation) is not contradicted: the UPDATE ends it.
`UnusedRows` keeps the rows that `CreateSubtask` is going to use as INSERT will
leave them. `OneCurrentTask`, `ActiveInLatest`, `DoneIsVerified`, `NoDeadEnd`,
`ProcessedHere`, `HoldStopsPurge` and `ResidueIsOwed` are conjuncts themselves.
`Released` settles the command's conjuncts for every action that ends it;
`WorkingOn`, `InHand` and `UnderCheck` say what is known of an object in a
worker's hands; `ActiveOnce` that it is active in no other task; `GrowStep` is the
step of `LedgerMonotone`.

**Status** (`StatusInv`). If all was done when the tasks were read, `held` knows it. If
not, an object had no task or was in the deferred pool at that moment, and `StillOpen`
(from `GrowStep`: memberships are frozen and deferrals permanent) says that it stays
so until a task is created; so one of the two later reads finds it.

**Custody.** `LedgerImplementsCustody` rests on `LedgerInv`. `VerifiedIsFresh`
identifies the checks that count with `fresh`; `NextGenerationIsNew` says that no
verdict is ahead of the generation, so raising it is `Void`. `CreateAssigns` needs
`ActiveInLatest` and the pool's definition (whoever is allocated is nobody's duty),
`ClearPrefixDeletes` needs `Purging` (nothing of the task is checked while it
deletes), `CompleteVerifyCertifies` the counts. `Stutters` and `QuietSteps` settle the
actions that Custody does not see. `DeletionIsOwed` is read off the refinement: of
Custody's actions only `Delete` makes `pieces` smaller.

**Operator** (`AdviceAccepted`). `LedgerInv` does not suffice; two facts about what
crashes leave behind are proved inductive beside it. `HoldNamesMember`: the object a hold
names stays an active member of the held task, because a deferral of it lifts the hold in
the same transaction, and no other member of a held task can be deferred. `VerdictsAfterPurge`: where
a verdict has the task's generation, every active member is processed, since `BeginVerify`
requires it, and `BeginPurge`, which takes results back, raises the generation in the same
transaction. With them
`AdviceFollows` goes through the states `status` prints (`StateCases`). `RoutineIsNext`
shows each step of the routine to be one of the ledger's, so `OperatorIsLedger` hands all
theorems of the ledger to the operator, for any number of faults.

**A run** (`RunnerInv`). `Cursor` orders everything by object id: what has been begun or
is in a hand or in the channel is not after the cursor, and the page the feed is
sending is a prefix of what is left (`PageIsPrefix`), so the cursor leaves nothing
behind. `Apart` and `Fresh` make that `OnceOnly`. `Covered` is the other half: an
object before the cursor is begun, in the channel or in a hand, unless a stop or a
cancellation dropped it, which `stopErr`, `haltErr` or the context remember. `Judged`
ties a worker's result to what really happened to its object, `Books` distributes the
attempts over the counters, `Causes` says where a cancellation, a lost lock or a hold
came from, and `Ended` what was true when `Run` returned. `MutexHeld` is needed because
a check of the lock is two steps.

**Lost locks** (`RaceInv`, `OneLossInv`). `NoOverlap` does not depend on the execution
lock: `Allocation` says that whoever is between `SELECT ... FOR UPDATE` and `COMMIT`
holds the row lock, and that what it has picked is in no task. `Lateness` and `Workload`
are the reason for `LateWrites`: a command that stands between a check and the statement
it allows has not yet written without the lock, and after that statement it only gets on
by another check. In a purge the same holds for each worker: the results on their way and
those written late are together at most `Workers`, since a worker that has lost the lock
takes up no further result. `VoidedSafe` needs to know that one command at most is stale
(`OneStale`). As long as that one has not used up its statement, the owner knows the
generation (`KnowsGen`); a stale verify therefore compares against a generation a
purge has raised (`StaleVerify`), and if the verify is the owner, the stale purge has
already written and the phase or the generation shows it (`OwnedVerify`). With
two losses `KnowsGen` fails, and so does the property.

**One object** (`ObjectInv`). `Budget`: the history `tries` counts as `clearPrefix` does,
and a loop that goes on has tries left. `Cleared`: what is under a prefix that was seen
empty again was stored since, through the second prefix, the write of the row and
beyond. `Books`: recorded removals and those the attempt has still to record
(`Earned`) are at most the removals, and all of them unless an answer or a
record was lost. `Batches`: a request names no foreign key. For `AttemptAdvances`,
`Pending` says that a request names at least one key and only keys that are there; so it
removes one, or each of its keys has one try less. With `Part` (how far `ProcessOne` has
come) first, then the keys, the tries, and the listing's own budget, this is a well-founded
order that only `WriteBack` goes up in.

**Scan** (`ScanInv`). `SealSafe` follows from two cardinalities: what was read is stored
(`Running`), so as many rows stored as read means the same rows. `Snapshots` is its other
half: a row the scan has read says what it read, or it was in the table when the scan
began and its object was changed since. That such an old snapshot may be sealed is what
`README.md:111` says (existing snapshots are not refreshed); purge compares status and
version with the chain before it deletes. For `SourceSafe` the
code only compares numbers, and `Overtaken` says what they stand for. Without an
addition since the first count there is a set of that size which contains the source
and all that was read; without a removal, what was read is still there. In both cases
three equal numbers force equal sets. `Provenance` says that an unbound database that
looks empty has no history.

**Lookup** (`LookupInv`). `OwnAnswer`: a channel holds the answer of its own call.
`LastAttempt`: an attempt started after the cancellation is the last. `Untouched`: until
a goroutine delivers, its channel is empty, so `Send` has room whenever there is something
to send; `StepsLeft` counts what the caller has before it.

**Report** (`ReportInv`). `Durable`: both files a power loss may leave are whole and
synced, because `Underway` has the temporary file whole before the sync and synced
before the rename. `Verdicts` (one verdict per object, none left to check that passed)
makes "all passed" the same as "no residue row".

**Capacity** (`CapacityInv`). The sum so far equals the wrapped total, and before its
last row it is below the target. Since a row larger than the target is taken only when
it is the first, the sum before a row is taken is below the target and the row at most
the target, so an overflow needs a target above half of the range. The two boundary
facts (nothing taken, one row taken) are what makes it inductive.

**Size and keys.** Here the facts are about recursive definitions, and need induction over
data. The induction theorems of the library cannot be instantiated, but the order they
rest on can be used: `Least` (from the well-foundedness of `<` on the naturals) gives
every nonempty set of naturals a least member, so each of these proofs takes the least
number at which the claim would fail. That a recursive definition obeys its equation is
proved the same way: functions up to a bound exist and are unique (`UptoExists`,
`UptoUnique`; `ReadsExists`, `ReadsUnique`), and glued together they are the function
(`FormatRule`, `ValueRule`). `ExpectedBytesExact`: the closed form obeys the equation of
the loop (`RefShort`, `RefLong`), and stays at or below the payload (`RefBound`), so that
no addition wraps; `SizeAssumption` is what keeps the rounding up of one shard in range.
`ParseIsExact`: reading what `Format` wrote gives the number back (`ValueOfFormat`), so a
key is parsed as the piece it was written for (`KeyParsed`); the other direction
(`ParsedKey`) is the comparison with the rendered key at the end of `Parse`, without which
leading zeros would be accepted. `ListingIsExact` follows, because the first part of a key
already determines the object.

Only model-checked: what is liveness under fairness (`Termination`, `AttemptEnds`,
`Returns`, `NoLeak`, `Recovers`), which is outside what the prover handles. Of `AttemptEnds`,
`Returns` and `NoLeak` the safety half is proved (`AttemptAdvances`, `CallerAdvances`,
`NoneHeldUp`), and of `Recovers` that the next command is never refused (`AdviceSafe`); what
TLC adds is that a step which can be taken, is. `Termination` has no such half yet: it
rests on strong fairness for `l.mu`. The departures of section 5 are counterexamples
and TLC's.

## 5. Where the code departs from its documentation

* `read_error`: `runPurge` (`main.go:337`) and `runVerify` (`verify.go:60`) pass
  every error of `CheckManifest` to `holdGlobal`. A dropped connection while the
  manifest is read therefore latches a global SAFETY_HOLD, although
  `SUBTASK_DESIGN.md:99` and `README.md:143` say ordinary failures, progress reads
  included, never write one and need no `task resume`.
* `halt_hold`: `halt` cancels the run's context and then writes the hold. Another
  goroutine inside `Lock.Check` under that context gets `context.Canceled`, which
  `Check` takes for a lost lock, and `Hold` is refused. The error is reported
  (`HaltIsReported` holds), but the next `purge` is not blocked, against
  `README.md:146` and `SUBTASK_DESIGN.md:101`.
* `old_pass`: a verify that loses the lock before its first write puts back the
  generation it read, over a purge's increment; PASS verdicts from before that purge
  count again, against `SUBTASK_DESIGN.md:119-120` and `README.md:169`. The verify
  itself does not finish (`VoidedNeverFinishes`); the next one does.

Found on the way, each with a configuration that reproduces it:

* `MCInterrupt`: by the mechanism of `halt_hold`, Ctrl+C during a check makes the
  detached write of a finished object fail, against the comment at
  `purge.go:113-115`. The next run processes the object again. In both the cause is
  one line: `Check` does not tell an error of its caller's context from a loss of the
  lock.
* `MCTwoTasks`: a create that loses the lock after its last check commits beside
  another one, and two tasks are unfinished, against `SUBTASK_DESIGN.md:3`. Their
  objects do not overlap (`NoOverlap`), but the default selection refuses both.
* `MCSizeRole`: a failed attempt stores neither role nor expected size. If it had
  deleted everything, the next attempt infers "none" and the object is done without
  a size comparison, against the comment at `progress.go:248-251` and
  `README.md:160`.
* `MCStatusRace`: `status` reads the tasks before the pool; a `task create` in between
  makes it print `ALL_DONE` for a list that was never done, against `README.md:196`.
  Nothing else can (`OnlyCreateFools`), and the next `status` is right.
* `MCRescan`: rows of an interrupted scan stay in `scan_objects`; when one of these
  objects is deleted at the source, no later scan can be sealed, although
  `task.go:129` advises to run it again until it completes.

## 6. Not modelled, and the plan

Not modelled:

* configuration (`internal/spconfig`) and flags: text parsed before any state exists;
  the suffixes of `--target-size` likewise;
* `--dry-run` and `ListAll`, which serves it: they write and delete nothing;
* credentials, endpoints and the versioning guard of the storage client, the building
  and decoding of chain requests: start-up code and the SDKs';
* log lines, the rate limiter, the event log, counters that are only printed, and the
  lines of `status` other than a task's state and `ALL_DONE`.

Where a module is narrower than the code it stands for:

* `ObjectPurge` assumes that the store answers for every key of a batch, as it must
  when `Quiet` is false. A store that named a key neither as deleted nor as failed
  would be asked again without counting (`purge.go:647`).
* `SizeCheck` assumes that a segment and the chunk count together fit the integer
  type, as the chain's parameters do; `--segment-size` could break it.
* `PieceKey` has numerals in base 2, of any length in the theorems and of one or two
  digits in the run. `Parse` looks at a numeral's spelling and range only.
* `Report` has one path per task and lets the database outlive a loss of power.
* `LockRace` has no holds or deferrals; what a look at the bucket finds is free. Its
  properties bound the late results of a purge and do not say what they overwrite: a late
  `Fail` may take back the progress row of an object another purge has recorded, and a
  late `DoneSubtask` the verdict of one that was verified meanwhile, also in a task that
  is done by then.
* `ScanList` has the columns of a row as one number; which of them changed is left out.

What is left: a measure for the goroutines of `PurgeRunner`, as the ones of `ObjectPurge`
and `Deadline`, so that the safety half of `Termination` is proved too; several losses of
the lock in `LockRace` with holds and deferrals; and `--dry-run`, if it should ever write.
