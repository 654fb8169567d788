------------------------------ MODULE Capacity ------------------------------
(***************************************************************************)
(* SelectCapacity, row by row, over all the batches that task create cuts  *)
(* from one sealed list.  Sizes are unsigned and wrap at Wrap; the code    *)
(* uses uint64, where Wrap is 2^64.                                        *)
(***************************************************************************)
EXTENDS Integers

CONSTANTS Wrap,   \* the number of values of the integer type
          N       \* objects of the list

ASSUME CapacityAssumption == Wrap \in Nat /\ Wrap > 1 /\ N \in Nat

Uint == 0..Wrap - 1
Rows == 1..N

\* a + b for a and b in Uint.
Plus(a, b) == IF a + b < Wrap THEN a + b ELSE a + b - Wrap

VARIABLES size,         \* payload_size of the rows, in OID order
          first,        \* the first row that is in no task
          target, max,  \* --target-size, --max-objects
          pos, total,   \* rows first..pos-1 are selected; their sum
          pc,           \* idle, loop, chosen, failed
          sum           \* history: their sum, without wrapping

vars == <<size, first, target, max, pos, total, pc, sum>>

Init ==
  /\ size \in [Rows -> Uint]
  /\ first = 1 /\ pos = 1 /\ total = 0 /\ sum = 0
  /\ target = 1 /\ max = 1
  /\ pc = "idle"

\* task create; zero sizes and counts are refused.
Begin(t, m) ==
  /\ pc = "idle" /\ first <= N
  /\ t > 0 /\ m > 0
  /\ target' = t /\ max' = m
  /\ pos' = first /\ total' = 0 /\ sum' = 0
  /\ pc' = "loop"
  /\ UNCHANGED <<size, first>>

WrongFull == \/ pos > N \/ pos - first >= max \/ total >= target
             \/ pos <= N /\ size[pos] > target

\* No row is left, enough are selected, or the next one is too large to be
\* anything but a batch of its own.
Full == \/ pos > N \/ pos - first >= max \/ total >= target
        \/ pos <= N /\ size[pos] > target /\ pos > first

WrongOverflows == FALSE
EagerOverflows == Wrap - 1 - total <= size[pos]   \* off by one

Overflows == Wrap - 1 - total < size[pos]

Stop ==
  /\ pc = "loop" /\ Full
  /\ pc' = "chosen"
  /\ UNCHANGED <<size, first, target, max, pos, total, sum>>

\* The whole allocation fails.
Overflow ==
  /\ pc = "loop" /\ ~Full /\ Overflows
  /\ pc' = "failed"
  /\ UNCHANGED <<size, first, target, max, pos, total, sum>>

Take ==
  /\ pc = "loop" /\ ~Full /\ ~Overflows
  /\ total' = Plus(total, size[pos])
  /\ sum' = sum + size[pos]
  /\ pos' = pos + 1
  /\ UNCHANGED <<size, first, target, max, pc>>

\* The batch is stored, or the command ends without one.
Create ==
  /\ pc \in {"chosen", "failed"}
  /\ first' = IF pc = "chosen" THEN pos ELSE first
  /\ pos' = first' /\ total' = 0 /\ sum' = 0
  /\ pc' = "idle"
  /\ UNCHANGED <<size, target, max>>

Next == \/ \E t \in Uint, m \in 1..N : Begin(t, m)
        \/ Stop \/ Overflow \/ Take \/ Create

Spec == Init /\ [][Next]_vars

-----------------------------------------------------------------------------

TypeOK ==
  /\ size \in [Rows -> Uint]
  /\ first \in 1..N + 1 /\ pos \in first..N + 1
  /\ total \in Uint /\ sum \in Nat
  /\ target \in Uint \ {0} /\ max \in Nat \ {0}
  /\ pc \in {"idle", "loop", "chosen", "failed"}

\* Overflow fails an allocation only for a target above half of the range: with
\* 64 bits no real list can meet it.
OverflowAtEdge == pc = "failed" => 2 * target > Wrap

\* The overflow check is right both ways: the stored logical size is the true one, for
\* the sum never wraps, and an allocation is refused only at that edge.
ExactTotal == total = sum /\ OverflowAtEdge

\* The batch keeps to its size: it is never empty, so that repeating task create
\* uses up the list; an object larger than the target is a batch of its own; and
\* otherwise only the last object may exceed the target.
FitsTarget ==
  /\ pc = "chosen" => pos > first
  /\ \A r \in Rows : first <= r /\ r < pos /\ size[r] > target
                       => r = first /\ pos = first + 1
  /\ pos > first => sum - size[pos - 1] < target

=============================================================================
