--------------------------- MODULE DeadlineProofs ---------------------------
(***************************************************************************)
(* One lookup with retries, for any number of attempts and with any number *)
(* of goroutines left behind.  That the lookup returns, and that the       *)
(* goroutines end, are liveness and stay with TLC; the safety facts they   *)
(* rest on are proved at the end.                                          *)
(***************************************************************************)
EXTENDS Deadline, TLAPS

USE AttemptsAssumption
USE DEF Channel

\* The loop counts attempts, and one that waits for another has one left.
LoopTypes == /\ i \in Calls /\ err \in Answers /\ late \in Nat
             /\ pc = "backoff" => i < Tries

\* The channel of a Call holds the answer of that Call, or nothing.
OwnAnswer ==
  /\ answer \in [Calls -> Answers]
  /\ DOMAIN channel = Calls
  /\ \A c \in Calls : channel[c] = <<>> \/ \E a \in Answers : channel[c] = <<<<c, a>>>>

\* An answer Call has taken is the current attempt's.
Current == pc \in {"judge", "returned"} /\ err = "ok" => from = i

\* A cancellation lets one attempt through at most, which is then the last.
LastAttempt == late = 0 \/ (late = 1 /\ canceled /\ pc \in {"select", "judge", "returned"})

LookupInv == LoopTypes /\ OwnAnswer /\ Current /\ LastAttempt /\ RetriesInFull

\* Which variables a part of the invariant depends on.
LEMMA Frame ==
  ASSUME LookupInv
  PROVE  /\ UNCHANGED <<pc, i, err, late>> => LoopTypes'
         /\ UNCHANGED <<answer, channel>> => OwnAnswer'
         /\ UNCHANGED <<pc, err, from, i>> => Current'
         /\ UNCHANGED <<late, canceled, pc>> => LastAttempt'
         /\ UNCHANGED <<pc, err, i, canceled, late>> => RetriesInFull'
<1>1. UNCHANGED <<pc, i, err, late>> => LoopTypes'
  BY DEF LookupInv, LoopTypes
<1>2. UNCHANGED <<answer, channel>> => OwnAnswer'
  BY DEF LookupInv, OwnAnswer
<1>3. UNCHANGED <<pc, err, from, i>> => Current'
  BY DEF LookupInv, Current
<1>4. UNCHANGED <<late, canceled, pc>> => LastAttempt'
  BY DEF LookupInv, LastAttempt
<1>5. UNCHANGED <<pc, err, i, canceled, late>> => RetriesInFull'
  BY DEF LookupInv, RetriesInFull
<1> QED
  BY <1>1, <1>2, <1>3, <1>4, <1>5

\* A context that is done ends the loop with its error before the next attempt.
LEMMA TopInv ==
  ASSUME LookupInv, Top
  PROVE  LookupInv'
<1>1. LoopTypes'
  BY DEF LookupInv, LoopTypes, Answers, Top, Return
<1>2. Current'
  BY DEF Current, Top, Return
<1>3. LastAttempt'
  BY DEF LookupInv, LastAttempt, Top
<1>4. RetriesInFull'
  BY DEF LookupInv, RetriesInFull, Top, Return
<1>5. OwnAnswer'
  BY Frame DEF Top
<1> QED
  BY <1>1, <1>2, <1>3, <1>4, <1>5 DEF LookupInv

\* Call makes a channel of its own for the attempt; one that starts after a
\* cancellation is the only one.
LEMMA StartInv ==
  ASSUME LookupInv, Start
  PROVE  LookupInv'
<1>1. LoopTypes'
  BY DEF LookupInv, LoopTypes, Start
<1>2. Current'
  BY DEF Current, Start
<1>3. LastAttempt'
  BY DEF LookupInv, LastAttempt, Start
<1>4. RetriesInFull'
  BY DEF LookupInv, RetriesInFull, LastAttempt, Start
<1>5. OwnAnswer'
  BY Frame DEF Start
<1> QED
  BY <1>1, <1>2, <1>3, <1>4, <1>5 DEF LookupInv

\* fn may return at any time: its answer is the one of its own attempt.
LEMMA AnswerInv ==
  ASSUME LookupInv, NEW c \in Calls, NEW a \in Answers, Answer(c, a)
  PROVE  LookupInv'
<1>1. OwnAnswer'
  BY DEF LookupInv, OwnAnswer, Answer
<1>2. LoopTypes' /\ Current' /\ LastAttempt' /\ RetriesInFull'
  BY Frame DEF Answer
<1> QED
  BY <1>1, <1>2 DEF LookupInv

\* The goroutine sends into the channel of its own Call, which has room for one.
LEMMA SendInv ==
  ASSUME LookupInv, NEW c \in Calls, Send(c)
  PROVE  LookupInv'
<1>1. OwnAnswer'
  <2>1. channel[c] = <<>>
    <3>1. Len(channel[c]) < 1
      BY DEF Send, Room
    <3>2. \A a : Len(<<<<c, a>>>>) = 1
      OBVIOUS
    <3> QED
      BY <3>1
  <2>2. channel' = [channel EXCEPT ![c] = <<<<c, answer[c]>>>>]
    <3>1. Append(channel[c], <<c, answer[c]>>) = <<<<c, answer[c]>>>>
      BY <2>1
    <3> QED
      BY <3>1 DEF Send
  <2>3. answer[c] \in Answers
    BY DEF LookupInv, OwnAnswer
  <2> QED
    BY <2>2 DEF LookupInv, OwnAnswer, Send
<1>2. LoopTypes' /\ Current' /\ LastAttempt' /\ RetriesInFull'
  BY Frame DEF Send
<1> QED
  BY <1>1, <1>2 DEF LookupInv

\* The deadline passes: nothing is decided until select looks at it.
LEMMA ExpireInv ==
  ASSUME LookupInv, Expire
  PROVE  LookupInv'
<1>1. LoopTypes' /\ OwnAnswer' /\ Current' /\ LastAttempt' /\ RetriesInFull'
  BY Frame DEF Expire
<1> QED
  BY <1>1 DEF LookupInv

\* The run is cancelled: what has been returned or taken stays as it is.
LEMMA CancelInv ==
  ASSUME LookupInv, Cancel
  PROVE  LookupInv'
<1>1. LastAttempt'
  BY DEF LookupInv, LastAttempt, Cancel
<1>2. RetriesInFull'
  BY DEF LookupInv, RetriesInFull, Cancel
<1>3. LoopTypes' /\ OwnAnswer' /\ Current'
  BY Frame DEF Cancel
<1> QED
  BY <1>1, <1>2, <1>3 DEF LookupInv

\* What select takes from the channel of the current Call is the current attempt's
\* answer.
LEMMA TakeAnswerInv ==
  ASSUME LookupInv, TakeAnswer
  PROVE  LookupInv'
<1>a. PICK a \in Answers : channel[i] = <<<<i, a>>>>
  BY DEF LookupInv, LoopTypes, OwnAnswer, TakeAnswer
<1>b. Tail(channel[i]) = <<>> /\ Head(channel[i])[1] = i /\ Head(channel[i])[2] = a
  BY <1>a
<1>c. /\ from' = i /\ err' = IF a # "ok" /\ ~canceled /\ expired THEN "timeout" ELSE a
      /\ channel' = [channel EXCEPT ![i] = <<>>]
  <2>1. channel' = [channel EXCEPT ![i] = Tail(channel[i])]
    BY DEF TakeAnswer
  <2>2. /\ from' = Head(channel[i])[1]
        /\ err' = IF Head(channel[i])[2] # "ok" /\ ~canceled /\ expired
                  THEN "timeout" ELSE Head(channel[i])[2]
    BY DEF TakeAnswer
  <2> QED
    BY <1>b, <2>1, <2>2
<1>1. LoopTypes'
  BY <1>c DEF LookupInv, LoopTypes, Answers, TakeAnswer
<1>2. OwnAnswer'
  BY <1>c DEF LookupInv, OwnAnswer, TakeAnswer
<1>3. Current'
  BY <1>c DEF Current, TakeAnswer
<1>4. LastAttempt'
  BY DEF LookupInv, LastAttempt, TakeAnswer
<1>5. RetriesInFull'
  BY DEF LookupInv, RetriesInFull, TakeAnswer
<1> QED
  BY <1>1, <1>2, <1>3, <1>4, <1>5 DEF LookupInv

\* The end of the context yields an error, never an answer.
LEMMA TakeDoneInv ==
  ASSUME LookupInv, TakeDone
  PROVE  LookupInv'
<1>1. LoopTypes'
  BY DEF LookupInv, LoopTypes, Answers, TakeDone
<1>2. Current'
  BY DEF Current, TakeDone
<1>3. LastAttempt'
  BY DEF LookupInv, LastAttempt, TakeDone
<1>4. RetriesInFull'
  BY DEF LookupInv, RetriesInFull, TakeDone
<1>5. OwnAnswer'
  BY Frame DEF TakeDone
<1> QED
  BY <1>1, <1>2, <1>3, <1>4, <1>5 DEF LookupInv

\* RetryIf returns on a definite answer, and on a temporary one only when no attempt is
\* left.
LEMMA JudgeInv ==
  ASSUME LookupInv, Judge
  PROVE  LookupInv'
<1>1. LoopTypes'
  BY DEF LookupInv, LoopTypes, Calls, Tries, Judge
<1>2. Current'
  BY DEF LookupInv, Current, Judge
<1>3. LastAttempt'
  BY DEF LookupInv, LastAttempt, Judge
<1>4. RetriesInFull'
  BY DEF LookupInv, LoopTypes, RetriesInFull, Retryable, Calls, Tries, Judge
<1>5. OwnAnswer'
  BY Frame DEF Judge
<1> QED
  BY <1>1, <1>2, <1>3, <1>4, <1>5 DEF LookupInv

\* The wait leads to the next attempt, or to the cancellation's error.
LEMMA BackoffInv ==
  ASSUME LookupInv, Backoff
  PROVE  LookupInv'
<1>1. LoopTypes'
  BY DEF LookupInv, LoopTypes, Answers, Calls, Tries, Backoff, Return
<1>2. Current'
  BY DEF Current, Backoff, Return
<1>3. LastAttempt'
  BY DEF LookupInv, LastAttempt, Backoff
<1>4. RetriesInFull'
  BY DEF LookupInv, RetriesInFull, Backoff, Return
<1>5. OwnAnswer'
  BY Frame DEF Backoff
<1> QED
  BY <1>1, <1>2, <1>3, <1>4, <1>5 DEF LookupInv

\* No attempt has been made, and no channel holds anything.
LEMMA InitLookup == Init => LookupInv
<1> SUFFICES ASSUME Init PROVE LookupInv
  OBVIOUS
<1>1. LoopTypes /\ OwnAnswer
  BY DEF Init, LoopTypes, OwnAnswer, Calls, Tries, Answers
<1>2. Current /\ LastAttempt /\ RetriesInFull
  BY DEF Init, Current, LastAttempt, RetriesInFull
<1> QED
  BY <1>1, <1>2 DEF LookupInv

\* Every step of the caller, the timers and the goroutines preserves the invariant.
LEMMA LookupStep == LookupInv /\ [Next]_vars => LookupInv'
<1> SUFFICES ASSUME LookupInv, [Next]_vars PROVE LookupInv'
  OBVIOUS
<1>1. CASE UNCHANGED vars
  <2>1. LoopTypes' /\ OwnAnswer' /\ Current' /\ LastAttempt' /\ RetriesInFull'
    BY <1>1, Frame DEF vars
  <2> QED
    BY <2>1 DEF LookupInv
<1>2. CASE Caller
  BY <1>2, TopInv, StartInv, TakeAnswerInv, TakeDoneInv, JudgeInv, BackoffInv DEF Caller
<1> QED
  BY <1>1, <1>2, ExpireInv, CancelInv, SendInv, AnswerInv DEF Next

\* The inductive invariant holds in every reachable state.
THEOREM LookupCorrect == Spec => []LookupInv
  BY InitLookup, LookupStep, PTL DEF Spec

\* Call returns no answer of an attempt that was given up, however late that one
\* answers: every attempt has a channel of its own.
THEOREM AnswerSafe == Spec => []AnswerIsCurrent
<1>1. LookupInv => AnswerIsCurrent
  BY DEF LookupInv, Current, AnswerIsCurrent
<1> QED
  BY <1>1, LookupCorrect, PTL

\* RetryIf gives up on a temporary error only with its attempts used up or its
\* context done, waits only after one, and starts one attempt at most after the
\* cancellation, whatever the number of attempts.
THEOREM RetrySafe == Spec => []RetriesInFull
<1>1. LookupInv => RetriesInFull
  BY DEF LookupInv
<1> QED
  BY <1>1, LookupCorrect, PTL

-----------------------------------------------------------------------------
(* What liveness rests on.                                                 *)

\* A Call that has not been made has no goroutine, and until a goroutine delivers
\* its channel is empty.
Untouched ==
  /\ DOMAIN goroutine = Calls
  /\ \A c \in Calls : goroutine[c] # "ended" => channel[c] = <<>>
  /\ \A c \in Calls : c > i \/ (c = i /\ pc \in {"top", "start"}) => goroutine[c] = "none"

\* A goroutine that was left behind finds room for its answer at once.
NeverBlocked == \A c \in Calls : goroutine[c] = "answered" => Room(Channel(c))

\* The steps the caller can still take: four to an attempt, and the wait.
Stage == CASE pc = "top" -> 5 [] pc = "start" -> 4 [] pc = "select" -> 3
           [] pc = "judge" -> 2 [] pc = "backoff" -> 1 [] OTHER -> 0
StepsLeft == 5 * (Tries - i) + Stage

\* Every attempt has an unused channel, and only the goroutine it was made for ends
\* with an answer in it.
LEMMA UntouchedStep ==
  ASSUME LookupInv, LookupInv', Untouched, [Next]_vars
  PROVE  Untouched'
<1> USE DEF LookupInv, LoopTypes, OwnAnswer, Untouched
<1>1. CASE UNCHANGED vars
  BY <1>1 DEF vars
<1>2. CASE Top \/ Judge
  BY <1>2 DEF Top, Judge, Return
<1>3. CASE Start
  BY <1>3 DEF Start, Calls
<1>4. CASE TakeAnswer
  <2>1. PICK a \in Answers : channel[i] = <<<<i, a>>>>
    BY <1>4 DEF TakeAnswer
  <2>2. Tail(channel[i]) = <<>>
    BY <2>1
  <2> QED
    BY <1>4, <2>2 DEF TakeAnswer
<1>5. CASE TakeDone
  BY <1>5 DEF TakeDone
<1>6. CASE Backoff
  BY <1>6 DEF Backoff, Return, Calls, Tries
<1>7. CASE Expire \/ Cancel
  BY <1>7 DEF Expire, Cancel
<1>8. ASSUME NEW c \in Calls, Send(c) PROVE Untouched'
  BY <1>8 DEF Send
<1>9. ASSUME NEW c \in Calls, NEW a \in Answers, Answer(c, a) PROVE Untouched'
  BY <1>9 DEF Answer
<1> QED
  BY <1>1, <1>2, <1>3, <1>4, <1>5, <1>6, <1>7, <1>8, <1>9 DEF Next, Caller

\* Whoever has an answer finds his channel empty, whether the caller still waits for
\* him, gave him up, or returned long ago: with one slot to a channel no goroutine is
\* held up, for any number of attempts.
THEOREM NoneHeldUp == Spec => []NeverBlocked
<1>1. Init => Untouched
  BY DEF Init, Untouched, Calls
<1>2. LookupInv /\ LookupInv' /\ Untouched /\ [Next]_vars => Untouched'
  BY UntouchedStep
<1>3. Untouched => NeverBlocked
  BY DEF Untouched, NeverBlocked, Room
<1> QED
  BY <1>1, <1>2, <1>3, LookupCorrect, PTL DEF Spec

\* The caller takes at most five steps to an attempt: each of its own brings the
\* return nearer, and no timer, cancellation or late answer takes it further away.
THEOREM CallerAdvances ==
  Spec => [][/\ StepsLeft \in Nat /\ StepsLeft' <= StepsLeft
             /\ Caller => StepsLeft' < StepsLeft]_vars
<1> DEFINE Nearer == /\ StepsLeft \in Nat /\ StepsLeft' <= StepsLeft
                     /\ Caller => StepsLeft' < StepsLeft
<1>1. ASSUME LookupInv, [Next]_vars PROVE [Nearer]_vars
  <2> USE DEF StepsLeft, Stage
  <2>1. i \in Int /\ Tries \in Int /\ i <= Tries /\ Stage \in 0..5 /\ StepsLeft \in Nat
    BY <1>1 DEF LookupInv, LoopTypes, Calls, Tries
  <2>2. CASE Caller
    BY <1>1, <2>1, <2>2 DEF Caller, Top, Start, TakeAnswer, TakeDone, Judge, Backoff, Return
  <2>3. CASE ~Caller /\ UNCHANGED <<pc, i>>
    BY <2>1, <2>3
  <2> QED
    BY <1>1, <2>2, <2>3 DEF Next, Expire, Cancel, Send, Answer
<1> QED
  BY <1>1, LookupCorrect, PTL DEF Spec

=============================================================================
