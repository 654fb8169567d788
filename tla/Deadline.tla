------------------------------ MODULE Deadline ------------------------------
(***************************************************************************)
(* One chain lookup: RetryIf around Call around the SDK, which may ignore  *)
(* the context and may not answer at all.  Each attempt runs in a          *)
(* goroutine with a channel of its own; the caller takes the answer, the   *)
(* deadline or the cancellation, whichever select gives it, and leaves the *)
(* goroutine behind.                                                       *)
(***************************************************************************)
EXTENDS Integers, Sequences

CONSTANT Attempts   \* 3 in chain.go

ASSUME AttemptsAssumption == Attempts \in Int

\* At least one.
Tries == IF Attempts < 1 THEN 1 ELSE Attempts
Calls == 1..Tries

\* What the SDK may say, after chain.go has recognized the timeouts of the HTTP
\* client in it.
Answers == {"ok", "timeout", "transient", "final", "canceled"}

Pcs == {"top", "start", "select", "judge", "backoff", "returned"}

VARIABLES
  pc, i,            \* RetryIf, and its loop variable
  err,              \* the error of the last Call
  goroutine,        \* of each Call: none, running, answered, ended
  answer,           \* what fn returned in it
  channel,          \* its buffered channel, a sequence of answers
  expired,          \* whether the deadline of the current Call has passed
  canceled,         \* whether the caller's context is done
  from,             \* history: whose answer the last Call returned
  late              \* history: attempts started after the cancellation

vars == <<pc, i, err, goroutine, answer, channel, expired, canceled, from, late>>

Init ==
  /\ pc = "top" /\ i = 1 /\ err = "ok"
  /\ goroutine = [c \in Calls |-> "none"]
  /\ answer = [c \in Calls |-> "ok"]
  /\ channel = [c \in Calls |-> <<>>]
  /\ expired = FALSE /\ canceled = FALSE
  /\ from = 0 /\ late = 0

Return(e) == pc' = "returned" /\ err' = e

\* The loop looks at the context first.
Top ==
  /\ pc = "top"
  /\ IF canceled THEN Return("canceled") ELSE pc' = "start" /\ UNCHANGED err
  /\ UNCHANGED <<i, goroutine, answer, channel, expired, canceled, from, late>>

\* Call: a new deadline, a new channel, a new goroutine.
Start ==
  /\ pc = "start"
  /\ pc' = "select"
  /\ goroutine' = [goroutine EXCEPT ![i] = "running"]
  /\ expired' = FALSE
  /\ late' = IF canceled THEN late + 1 ELSE late
  /\ UNCHANGED <<i, err, answer, channel, canceled, from>>

\* fn returns, at any time, maybe long after it was abandoned.
Answer(c, a) ==
  /\ goroutine[c] = "running"
  /\ a = "canceled" => canceled
  /\ goroutine' = [goroutine EXCEPT ![c] = "answered"]
  /\ answer' = [answer EXCEPT ![c] = a]
  /\ UNCHANGED <<pc, i, err, channel, expired, canceled, from, late>>

WrongRoom(c) == pc = "select" /\ i = c   \* an unbuffered channel

\* The channel holds one answer.
Room(c) == Len(channel[c]) < 1

WrongChannel(c) == 1   \* one channel for all attempts

Channel(c) == c

Send(c) ==
  /\ goroutine[c] = "answered" /\ Room(Channel(c))
  /\ goroutine' = [goroutine EXCEPT ![c] = "ended"]
  /\ channel' = [channel EXCEPT ![Channel(c)] = Append(@, <<c, answer[c]>>)]
  /\ UNCHANGED <<pc, i, err, answer, expired, canceled, from, late>>

Expire ==
  /\ pc = "select" /\ ~expired
  /\ expired' = TRUE
  /\ UNCHANGED <<pc, i, err, goroutine, answer, channel, canceled, from, late>>

Cancel ==
  /\ ~canceled /\ pc # "returned"
  /\ canceled' = TRUE
  /\ UNCHANGED <<pc, i, err, goroutine, answer, channel, expired, from, late>>

\* select takes the answer; an error at the deadline is a timeout.
TakeAnswer ==
  /\ pc = "select" /\ channel[Channel(i)] # <<>>
  /\ LET r == Head(channel[Channel(i)]) IN
     /\ err' = IF r[2] # "ok" /\ ~canceled /\ expired THEN "timeout" ELSE r[2]
     /\ from' = r[1]
  /\ channel' = [channel EXCEPT ![Channel(i)] = Tail(@)]
  /\ pc' = "judge"
  /\ UNCHANGED <<i, goroutine, answer, expired, canceled, late>>

WrongTakeDone ==   \* leaves it to fn to notice the deadline
  FALSE /\ UNCHANGED vars

\* select takes the end of the context, even with an answer in the channel.
TakeDone ==
  /\ pc = "select" /\ (expired \/ canceled)
  /\ err' = IF canceled THEN "canceled" ELSE "timeout"
  /\ from' = 0
  /\ pc' = "judge"
  /\ UNCHANGED <<i, goroutine, answer, channel, expired, canceled, late>>

WrongRetryable(e) == e # "ok"

\* isTransient.
Retryable(e) == e \in {"timeout", "transient"}

Judge ==
  /\ pc = "judge"
  /\ pc' = IF err = "ok" \/ ~Retryable(err) \/ i >= Tries \/ canceled
           THEN "returned" ELSE "backoff"
  /\ UNCHANGED <<i, err, goroutine, answer, channel, expired, canceled, from, late>>

\* The wait before the next attempt; select again, so either may win.
Backoff ==
  /\ pc = "backoff"
  /\ \/ canceled /\ Return("canceled") /\ UNCHANGED i
     \/ pc' = "top" /\ i' = i + 1 /\ UNCHANGED err
  /\ UNCHANGED <<goroutine, answer, channel, expired, canceled, from, late>>

Caller == Top \/ Start \/ TakeAnswer \/ TakeDone \/ Judge \/ Backoff

Next == \/ Caller \/ Expire \/ Cancel
        \/ \E c \in Calls : Send(c) \/ \E a \in Answers : Answer(c, a)

\* Timers fire and goroutines are scheduled; the SDK need not answer.
Spec == /\ Init /\ [][Next]_vars
        /\ WF_vars(Caller) /\ WF_vars(Expire)
        /\ \A c \in Calls : WF_vars(Send(c))

-----------------------------------------------------------------------------
(* Correctness.                                                            *)

\* The lookup returns although the SDK may never do so.
Returns == <>(pc = "returned")

\* A goroutine that was left behind ends once the SDK answers: nobody has to be
\* there to take the answer.
NoLeak == \A c \in Calls : goroutine[c] = "answered" ~> goroutine[c] = "ended"

\* The answer that is returned is the last attempt's: no answer of an attempt that
\* was given up, and may have seen an older state of the chain, is taken for it.
AnswerIsCurrent == pc = "returned" /\ err = "ok" => from = i

\* A temporary error is reported only when all attempts are used up or the run
\* is over, a definite answer ends the lookup, and after a cancellation at most
\* the attempt that was being started is made.
RetriesInFull ==
  /\ pc = "returned" /\ Retryable(err) => i = Tries \/ canceled
  /\ pc = "backoff" => err \in {"timeout", "transient"}
  /\ late <= 1

=============================================================================
