------------------------ MODULE CalculationsProofs ------------------------
(***************************************************************************)
(* What the three calculations promise, for every integer width and every  *)
(* input: the batches of SelectCapacity, the bytes a secondary is expected *)
(* to have stored, and the keys of pieces.                                 *)
(***************************************************************************)
EXTENDS Calculations, WellFoundedInduction, TLAPS

USE CapacityAssumption DEF Uint, Rows

\* The inductive invariant.  Between two rows of the loop the sum is below the
\* target before its last row, and a row above the target is alone.
CapacityInv ==
  /\ TypeOK /\ ExactTotal /\ FitsTarget
  /\ pos = first => sum = 0
  /\ pos = first + 1 => sum = size[first]
  /\ pc = "loop" => first <= N

\* The initial state has selected nothing.
LEMMA InitCapacity == Init => CapacityInv
  BY DEF Init, CapacityInv, TypeOK, ExactTotal, FitsTarget, OverflowAtEdge

\* A row that may be taken does not wrap the sum.
LEMMA PlusExact ==
  ASSUME NEW a \in Uint, NEW b \in Uint, ~(Wrap - 1 - a < b)
  PROVE  Plus(a, b) = a + b /\ a + b \in Uint
  BY DEF Plus

\* Taking a row keeps the batch within its limits.
LEMMA TakeCapacity ==
  ASSUME CapacityInv, Take
  PROVE  CapacityInv'
<1> USE DEF CapacityInv
<1>1. pos \in Rows /\ size[pos] \in Uint /\ total \in Uint /\ total < target
  BY DEF TypeOK, Take, Full
<1>2. pos > first => size[pos] <= target
  BY <1>1 DEF TypeOK, Take, Full
<1>3. total' = total + size[pos] /\ total + size[pos] \in Uint
  BY <1>1, PlusExact DEF Take, Overflows
<1>4. sum' = sum + size[pos] /\ pos' = pos + 1 /\ pc' = "loop"
  BY DEF Take
<1>5. UNCHANGED <<size, first, target, max>>
  BY DEF Take
<1>6. TypeOK'
  BY <1>1, <1>3, <1>4, <1>5 DEF TypeOK
<1>7. ExactTotal'
  BY <1>3, <1>4 DEF ExactTotal, OverflowAtEdge
<1>8. FitsTarget'
  <2>1. \A r \in Rows : first <= r /\ r < pos + 1 /\ size[r] > target
                          => r = first /\ pos + 1 = first + 1
    <3> SUFFICES ASSUME NEW r \in Rows, first <= r, r < pos + 1, size[r] > target
                 PROVE  r = first /\ pos = first
      BY DEF TypeOK
    <3>1. CASE r = pos
      BY <1>2, <3>1 DEF TypeOK
    <3>2. CASE r < pos
      \* then pos = first + 1 and the sum has reached the target already
      <4>1. r = first /\ pos = first + 1
        BY <3>2 DEF FitsTarget, TypeOK
      <4>2. total > target
        BY <4>1 DEF ExactTotal
      <4> QED
        BY <4>2, <1>1 DEF TypeOK
    <3> QED
      BY <3>1, <3>2 DEF TypeOK
  <2>2. sum' - size'[pos' - 1] < target'
    BY <1>1, <1>4, <1>5 DEF ExactTotal, TypeOK
  <2> QED
    BY <2>1, <2>2, <1>4, <1>5 DEF FitsTarget
<1>9. (pos = first => sum = 0)' /\ (pos = first + 1 => sum = size[first])'
  BY <1>1, <1>4, <1>5 DEF TypeOK
<1> QED
  BY <1>4, <1>5, <1>6, <1>7, <1>8, <1>9 DEF OverflowAtEdge, TypeOK, Take

\* Every other step.
LEMMA CapacityStep == CapacityInv /\ [Next]_vars => CapacityInv'
<1> SUFFICES ASSUME CapacityInv, [Next]_vars PROVE CapacityInv'
  OBVIOUS
<1> USE DEF CapacityInv, TypeOK, ExactTotal, FitsTarget, OverflowAtEdge
<1>1. ASSUME NEW t \in Uint, NEW m \in 1..N, Begin(t, m) PROVE CapacityInv'
  BY <1>1 DEF Begin
<1>2. CASE Stop
  BY <1>2 DEF Stop, Full
<1>3. CASE Overflow
  BY <1>3 DEF Overflow, Full, Overflows
<1>4. CASE Create
  BY <1>4 DEF Create
<1>5. CASE UNCHANGED vars
  BY <1>5 DEF vars
<1> QED
  BY <1>1, <1>2, <1>3, <1>4, <1>5, TakeCapacity DEF Next

\* The invariant holds between any two rows of the loop.
LEMMA CapacityCorrect == Spec => []CapacityInv
  BY InitCapacity, CapacityStep, PTL DEF Spec

\* For every width, list, target and count: a batch is not empty, an object above
\* the target stands alone, and only the last object of a batch may exceed it.
THEOREM CapacitySafe == Spec => []FitsTarget
<1>1. CapacityInv => FitsTarget
  BY DEF CapacityInv
<1> QED
  BY <1>1, CapacityCorrect, PTL

\* The logical size that task create stores is the sum of the rows it took: the
\* unsigned addition of SelectCapacity never wraps around.
THEOREM TotalIsExact == Spec => []ExactTotal
<1>1. CapacityInv => ExactTotal
  BY DEF CapacityInv
<1> QED
  BY <1>1, CapacityCorrect, PTL

\* An allocation is refused for overflow only when the target is above half of the
\* range of the integers, however the list is made.
THEOREM OverflowNeedsHugeTarget == Spec => []OverflowAtEdge
<1>1. CapacityInv => OverflowAtEdge
  BY DEF CapacityInv, ExactTotal
<1> QED
  BY <1>1, CapacityCorrect, PTL

HIDE CapacityAssumption DEF Uint, Rows

-----------------------------------------------------------------------------

\* n is below m.
Before == {ss \in Nat \X Nat : ss[1] < ss[2]}

\* There is no infinite descent among the naturals.
LEMMA BeforeWF == IsWellFoundedOn(Before, Nat)
  BY NatLessThanWellFounded DEF Before, OpToRel

\* Every nonempty set of naturals has a least element.  Each induction below is over
\* data (a payload, a number, the digits of a numeral): the least counterexample is
\* taken, and its predecessor, which obeys, is shown to refute it.
LEMMA Least ==
  ASSUME NEW S \in SUBSET Nat, S # {}
  PROVE  \E x \in S : \A y \in S : x <= y
<1>1. PICK x \in S : \A y \in S : ~(<<y, x>> \in Before)
  BY BeforeWF, WFMin, Zenon
<1>2. \A y \in S : y \in Nat /\ x \in Nat /\ ~ (y < x)
  BY <1>1 DEF Before
<1>3. \A y \in S : x <= y
  BY <1>2
<1> QED
  BY <1>3

-----------------------------------------------------------------------------

USE SizeAssumption

\* Division with remainder.
LEMMA DivMod ==
  ASSUME NEW a \in Nat, NEW b \in Nat \ {0}
  PROVE  /\ a \div b \in Nat /\ a % b \in 0..b-1
         /\ a = b * (a \div b) + (a % b)
  OBVIOUS

\* Quotient and remainder are determined.
LEMMA DivUnique ==
  ASSUME NEW b \in Nat \ {0}, NEW q \in Nat, NEW r \in 0..b-1
  PROVE  /\ (b * q + r) \div b = q
         /\ (b * q + r) % b = r
  OBVIOUS

\* A number divided and rounded up is at most itself.
LEMMA Ceil ==
  ASSUME NEW n \in Nat, NEW c \in Nat \ {0}
  PROVE  (n + c - 1) \div c \in 0..n
<1>1. n + c - 1 \in Nat
  OBVIOUS
<1>2. PICK q \in Nat : q = (n + c - 1) \div c
  BY <1>1, DivMod
<1>3. n + c - 1 >= c * q
  BY <1>1, <1>2, DivMod
<1>4. CASE q > n
  <2>1. c * q >= c * (n + 1)
    BY <1>4
  <2>2. c * (n + 1) >= n + c
    OBVIOUS
  <2> QED
    BY <1>1, <1>2, <1>3, <2>1, <2>2
<1> QED
  BY <1>2, <1>4

\* An empty object has no shards.
LEMMA RefZero ==
  ASSUME NEW s \in Segments \ {0}, NEW c \in Chunks \ {0}
  PROVE  Reference(0, s, c) = 0
<1>1. 0 \div s = 0 /\ 0 % s = 0 /\ (0 + c - 1) \div c = 0
  BY DEF Segments, Chunks
<1> QED
  BY <1>1, Ceil DEF Reference, Segments, Chunks

\* What a secondary stores is at most the payload.
LEMMA RefBound ==
  ASSUME NEW s \in Segments \ {0}, NEW c \in Chunks \ {0}, NEW p \in Payloads
  PROVE  Reference(p, s, c) \in 0..p
<1>1. p \in Nat /\ s \in Nat \ {0} /\ c \in Nat \ {0}
  BY DEF Segments, Chunks, Payloads
<1> DEFINE q == p \div s
           r == p % s
           a == (s + c - 1) \div c
           b == (r + c - 1) \div c
<1>2. q \in Nat /\ r \in 0..s-1 /\ p = s * q + r
  BY <1>1, DivMod
<1>3. a \in 0..s /\ b \in 0..r
  BY <1>1, <1>2, Ceil
<1>4. Reference(p, s, c) = q * a + b
  BY DEF Reference
<1> HIDE DEF q, r, a, b
<1>5. q * a \in Nat /\ q * a <= s * q
  BY <1>1, <1>2, <1>3
<1> QED
  BY <1>1, <1>2, <1>3, <1>4, <1>5

\* A payload below the segment size is one segment.
LEMMA RefShort ==
  ASSUME NEW s \in Segments \ {0}, NEW c \in Chunks \ {0}, NEW p \in Payloads, p < s
  PROVE  Reference(p, s, c) = (p + c - 1) \div c
<1>1. p \div s = 0 /\ p % s = p
  BY DEF Segments, Chunks, Payloads
<1>2. (p + c - 1) \div c \in Nat /\ (s + c - 1) \div c \in Nat
  BY Ceil DEF Segments, Chunks, Payloads
<1> QED
  BY <1>1, <1>2 DEF Reference

\* A longer payload is a full segment and the rest.
LEMMA RefLong ==
  ASSUME NEW s \in Segments \ {0}, NEW c \in Chunks \ {0}, NEW p \in Payloads, p >= s
  PROVE  Reference(p, s, c) = (s + c - 1) \div c + Reference(p - s, s, c)
<1>1. p \in Nat /\ s \in Nat \ {0} /\ c \in Nat \ {0}
  BY DEF Segments, Chunks, Payloads
<1> DEFINE q == p \div s
           r == p % s
           a == (s + c - 1) \div c
           b == (r + c - 1) \div c
<1>2. q \in Nat /\ r \in 0..s-1 /\ p = s * q + r
  BY <1>1, DivMod
<1>3. a \in Nat /\ b \in Nat
  BY <1>1, <1>2, Ceil
<1>4. Reference(p, s, c) = q * a + b
  BY DEF Reference
<1>5. q >= 1
  BY <1>1, <1>2
<1>6. (p - s) \div s = q - 1 /\ (p - s) % s = r
  <2> HIDE DEF q, r
  <2>1. p - s = s * (q - 1) + r /\ q - 1 \in Nat
    BY <1>1, <1>2, <1>5
  <2>2. (s * (q - 1) + r) \div s = q - 1 /\ (s * (q - 1) + r) % s = r
    BY <1>1, <1>2, <2>1, DivUnique
  <2> QED
    BY <2>1, <2>2
<1>7. Reference(p - s, s, c) = (q - 1) * a + b
  BY <1>6 DEF Reference
<1> HIDE DEF q, r, a, b
<1>8. q * a = a + (q - 1) * a
  BY <1>2, <1>3
<1>9. Reference(p, s, c) = a + Reference(p - s, s, c)
  BY <1>2, <1>3, <1>4, <1>7, <1>8
<1> QED
  BY <1>9 DEF a

\* The reference obeys the equation of the loop: one turn neither wraps nor loses a
\* byte, and it makes the rest smaller.
LEMMA RefStep ==
  ASSUME NEW s \in Segments \ {0}, NEW c \in Chunks \ {0}, NEW p \in Payloads \ {0}
  PROVE  LET seg == Segment(p, s)
         IN  /\ seg \in 1..p
             /\ Reference(p, s, c) = (Shard(seg, c) + Reference(p - seg, s, c)) % SizeWrap
<1> DEFINE seg == Segment(p, s)
<1>1. seg \in 1..p /\ seg <= s
  BY DEF Segment, Segments, Payloads
<1>2. Shard(seg, c) = (seg + c - 1) \div c
  <2>1. seg + c - 1 \in 0..SizeWrap - 1
    BY <1>1 DEF Segments, Chunks, Payloads
  <2>2. (seg + c - 1) % SizeWrap = seg + c - 1
    BY <2>1
  <2> QED
    BY <2>2 DEF Shard
<1>3. Reference(p, s, c) = (seg + c - 1) \div c + Reference(p - seg, s, c)
  <2>1. CASE p < s
    <3>1. seg = p /\ p - seg = 0
      BY <2>1 DEF Segment, Payloads
    <3>2. (p + c - 1) \div c \in Nat
      BY Ceil DEF Chunks, Payloads
    <3> HIDE DEF seg
    <3> QED
      BY <2>1, <3>1, <3>2, RefShort, RefZero
  <2>2. CASE p >= s
    BY <2>2, RefLong DEF Segment, Segments, Payloads
  <2> QED
    BY <2>1, <2>2 DEF Segments, Payloads
<1>4. Reference(p, s, c) \in 0..p
  BY RefBound
<1>5. Reference(p, s, c) % SizeWrap = Reference(p, s, c)
  BY <1>4 DEF Payloads
<1> QED
  BY <1>1, <1>2, <1>3, <1>5

\* The loop of ExpectedSecondaryBytes computes the reference, by the least payload at
\* which it would not.
LEMMA Expected ==
  ASSUME NEW s \in Segments \ {0}, NEW c \in Chunks \ {0}, NEW p \in Payloads
  PROVE  ExpectedSecondaryBytes(p, s, c) = Reference(p, s, c)
<1> DEFINE Loop(g) == [payload \in Payloads |->
                        IF payload = 0 THEN 0
                        ELSE LET seg == Segment(payload, s)
                             IN  (Shard(seg, c) + g[payload - seg]) % SizeWrap]
           Ref == [payload \in Payloads |-> Reference(payload, s, c)]
<1>1. Ref = Loop(Ref)
  <2>1. \A q \in Payloads \ {0} : q - Segment(q, s) \in Payloads
    BY RefStep DEF Payloads
  <2>2. \A q \in Payloads \ {0} :
          Ref[q] = (Shard(Segment(q, s), c) + Ref[q - Segment(q, s)]) % SizeWrap
    BY <2>1, RefStep
  <2>3. 0 \in Payloads /\ Ref[0] = 0
    BY RefZero DEF Payloads
  <2> QED
    BY <2>2, <2>3
<1>2. ASSUME NEW g, g = Loop(g)
      PROVE  \A q \in Payloads : g[q] = Reference(q, s, c)
  <2> DEFINE Bad == {q \in Payloads : g[q] # Reference(q, s, c)}
  <2> SUFFICES ASSUME Bad # {} PROVE FALSE
    OBVIOUS
  <2>1. PICK q \in Bad : \A r \in Bad : q <= r
    <3>1. Bad \in SUBSET Nat
      BY DEF Payloads
    <3> HIDE DEF Bad
    <3> QED
      BY <3>1, Least
  <2>2. q # 0
    BY <1>2, RefZero
  <2>3. q - Segment(q, s) \in Payloads /\ q - Segment(q, s) < q
    BY <2>2, RefStep DEF Payloads
  <2>4. g[q - Segment(q, s)] = Reference(q - Segment(q, s), s, c)
    BY <2>1, <2>3 DEF Payloads
  <2>5. g[q] = (Shard(Segment(q, s), c) + g[q - Segment(q, s)]) % SizeWrap
    BY <1>2, <2>2
  <2> QED
    BY <2>2, <2>4, <2>5, RefStep
<1>3. (CHOOSE g : g = Loop(g))[p] = Reference(p, s, c)
  <2>1. \E g : g = Loop(g)
    BY <1>1
  <2>2. (CHOOSE g : g = Loop(g)) = Loop(CHOOSE g : g = Loop(g))
    <3> HIDE DEF Loop
    <3> QED
      BY <2>1
  <2> QED
    BY <1>2, <2>2
<1> QED
  BY <1>3 DEF ExpectedSecondaryBytes

HIDE SizeAssumption

-----------------------------------------------------------------------------

\* Sequences of digits.
Numerals == Seq({0, 1})

\* The body of Format for one number, with f for the numbers below it.
Digits(f, v) == IF v < 2 THEN <<v>> ELSE Append(f[v \div 2], v % 2)

\* The formatting of the numbers up to n.
Upto(n) == {f \in [0..n -> Numerals] : \A v \in 0..n : f[v] = Digits(f, v)}

\* Halving a number of two digits or more.
LEMMA Half ==
  ASSUME NEW v \in Nat, v >= 2
  PROVE  /\ v \div 2 \in 0..v-1 /\ v \div 2 \in Nat /\ v % 2 \in {0, 1}
         /\ v = 2 * (v \div 2) + (v % 2)
  OBVIOUS

\* Two such functions agree where both are defined.
LEMMA UptoUnique ==
  ASSUME NEW n \in Nat, NEW m \in Nat, NEW f \in Upto(n), NEW g \in Upto(m)
  PROVE  \A v \in Nat : v <= n /\ v <= m => f[v] = g[v]
<1> DEFINE Bad == {v \in Nat : v <= n /\ v <= m /\ f[v] # g[v]}
<1> SUFFICES ASSUME Bad # {} PROVE FALSE
  OBVIOUS
<1>1. PICK v \in Bad : \A w \in Bad : v <= w
  <2>1. Bad \in SUBSET Nat
    OBVIOUS
  <2> HIDE DEF Bad
  <2> QED
    BY <2>1, Least
<1>2. f[v] = Digits(f, v) /\ g[v] = Digits(g, v)
  BY DEF Upto
<1>3. v >= 2
  BY <1>1, <1>2 DEF Digits
<1>4. f[v \div 2] = g[v \div 2]
  <2>1. v \div 2 \in 0..v-1
    BY <1>3, Half
  <2> QED
    BY <1>1, <2>1
<1> QED
  BY <1>2, <1>3, <1>4 DEF Digits

\* There is one for every bound.
LEMMA UptoExists == \A n \in Nat : Upto(n) # {}
<1> DEFINE Bad == {n \in Nat : Upto(n) = {}}
<1> SUFFICES ASSUME Bad # {} PROVE FALSE
  OBVIOUS
<1>1. PICK n \in Bad : \A m \in Bad : n <= m
  <2>1. Bad \in SUBSET Nat
    OBVIOUS
  <2> HIDE DEF Bad
  <2> QED
    BY <2>1, Least
<1>2. n # 0
  <2>1. [v \in 0..0 |-> <<0>>] \in Upto(0)
    BY DEF Upto, Digits, Numerals
  <2> QED
    BY <2>1
<1>3. PICK f : f \in Upto(n - 1)
  BY <1>1, <1>2
<1> DEFINE g == [v \in 0..n |-> IF v = n THEN Digits(f, n) ELSE f[v]]
<1>4. f \in [0..n-1 -> Numerals] /\ \A v \in 0..n-1 : f[v] = Digits(f, v)
  BY <1>3 DEF Upto
<1>5. Digits(f, n) \in Numerals
  <2>1. CASE n < 2
    BY <2>1 DEF Digits, Numerals
  <2>2. CASE n >= 2
    <3>1. f[n \div 2] \in Numerals /\ n % 2 \in {0, 1}
      BY <1>4, <2>2, Half
    <3> QED
      BY <2>2, <3>1 DEF Digits, Numerals
  <2> QED
    BY <2>1, <2>2
<1>6. g \in [0..n -> Numerals]
  BY <1>2, <1>4, <1>5
<1>7. \A v \in 0..n : Digits(g, v) = Digits(f, v)
  <2> SUFFICES ASSUME NEW v \in 0..n, v >= 2 PROVE g[v \div 2] = f[v \div 2]
    BY DEF Digits
  <2>1. v \div 2 \in 0..v-1
    BY Half
  <2> QED
    BY <2>1
<1>8. g \in Upto(n)
  BY <1>2, <1>4, <1>6, <1>7 DEF Upto
<1> QED
  BY <1>8

\* Format obeys its recursive equation: the functions up to each number glued
\* together do, and no other function does.
LEMMA FormatRule ==
  \A v \in Nat : Format[v] \in Numerals /\ Format[v] = Digits(Format, v)
<1> DEFINE Rule(f) == [v \in Nat |-> IF v < 2 THEN <<v>> ELSE Append(f[v \div 2], v % 2)]
           Of(v) == CHOOSE f : f \in Upto(v)
           F == [v \in Nat |-> Of(v)[v]]
<1>1. \A v \in Nat : Of(v) \in Upto(v)
  BY UptoExists
<1>2. \A v \in Nat : F[v] = Digits(F, v) /\ F[v] \in Numerals
  <2> SUFFICES ASSUME NEW v \in Nat PROVE F[v] = Digits(F, v) /\ F[v] \in Numerals
    OBVIOUS
  <2>1. Of(v)[v] = Digits(Of(v), v) /\ Of(v)[v] \in Numerals
    <3>1. Of(v) \in Upto(v)
      BY <1>1
    <3> HIDE DEF Of
    <3> QED
      BY <3>1 DEF Upto
  <2>2. ASSUME v >= 2 PROVE Of(v)[v \div 2] = F[v \div 2]
    <3>1. v \div 2 \in Nat /\ v \div 2 <= v
      BY <2>2, Half
    <3>2. Of(v) \in Upto(v) /\ Of(v \div 2) \in Upto(v \div 2)
      BY <1>1, <3>1
    <3> HIDE DEF Of
    <3>3. Of(v)[v \div 2] = Of(v \div 2)[v \div 2]
      BY <3>1, <3>2, UptoUnique
    <3> QED
      BY <3>1, <3>3
  <2> HIDE DEF Of
  <2> QED
    BY <2>1, <2>2 DEF Digits
<1>3. F = Rule(F)
  <2> HIDE DEF Of
  <2>1. \A v \in Nat : F[v] = Rule(F)[v]
    BY <1>2 DEF Digits
  <2> QED
    BY <2>1
<1>4. ASSUME NEW f, f = Rule(f) PROVE \A v \in Nat : f[v] = F[v]
  <2> HIDE DEF F
  <2> DEFINE Bad == {v \in Nat : f[v] # F[v]}
  <2> SUFFICES ASSUME Bad # {} PROVE FALSE
    OBVIOUS
  <2>1. PICK v \in Bad : \A w \in Bad : v <= w
    <3>1. Bad \in SUBSET Nat
      OBVIOUS
    <3> HIDE DEF Bad
    <3> QED
      BY <3>1, Least
  <2>2. f[v] = Digits(f, v) /\ F[v] = Digits(F, v)
    BY <1>2, <1>4 DEF Digits
  <2>3. v >= 2
    BY <2>1, <2>2 DEF Digits
  <2>4. f[v \div 2] = F[v \div 2]
    BY <2>1, <2>3, Half
  <2> QED
    BY <2>2, <2>3, <2>4 DEF Digits
<1>5. Format = Rule(Format)
  <2>1. \E f : f = Rule(f)
    BY <1>3
  <2> HIDE DEF Rule
  <2>2. (CHOOSE f : f = Rule(f)) = Rule(CHOOSE f : f = Rule(f))
    BY <2>1
  <2> USE DEF Rule
  <2> QED
    BY <2>2 DEF Format
<1>6. \A v \in Nat : Format[v] = F[v]
  BY <1>4, <1>5
<1>7. \A v \in Nat : Format[v] = Digits(Format, v)
  BY <1>5 DEF Digits
<1> HIDE DEF F
<1> QED
  BY <1>2, <1>6, <1>7

\* v holds the values of the first digits of n.
Reads(v, n) ==
  /\ v \in [0..Len(n) -> Nat]
  /\ \A i \in 0..Len(n) : v[i] = IF i = 0 THEN 0 ELSE 2 * v[i - 1] + n[i]

\* The loop reads every numeral.
LEMMA ReadsExists ==
  ASSUME NEW n \in Numerals
  PROVE  \E v : Reads(v, n)
<1> DEFINE First(m) == {v \in [0..m -> Nat] :
                         \A i \in 0..m : v[i] = IF i = 0 THEN 0 ELSE 2 * v[i - 1] + n[i]}
           Bad == {m \in 0..Len(n) : First(m) = {}}
<1>1. Len(n) \in Nat /\ \A i \in 1..Len(n) : n[i] \in Nat
  BY DEF Numerals
<1>2. Bad = {}
  <2> SUFFICES ASSUME Bad # {} PROVE FALSE
    OBVIOUS
  <2>1. PICK m \in Bad : \A k \in Bad : m <= k
    <3>1. Bad \in SUBSET Nat
      BY <1>1
    <3> HIDE DEF Bad
    <3> QED
      BY <3>1, Least
  <2>2. m # 0
    <3>1. [i \in 0..0 |-> 0] \in First(0)
      OBVIOUS
    <3> QED
      BY <3>1
  <2>3. m \in 1..Len(n) /\ m - 1 \in 0..Len(n) /\ m - 1 \notin Bad
    <3>1. m \in 0..Len(n)
      OBVIOUS
    <3>2. m \in 1..Len(n) /\ m - 1 \in 0..Len(n) /\ ~(m <= m - 1)
      BY <1>1, <2>2, <3>1
    <3> HIDE DEF Bad
    <3> QED
      BY <2>1, <3>2
  <2>4. PICK v : v \in First(m - 1)
    BY <2>3
  <2> DEFINE w == [i \in 0..m |-> IF i = m THEN 2 * v[m - 1] + n[m] ELSE v[i]]
  <2>5. 2 * v[m - 1] + n[m] \in Nat
    <3>1. v[m - 1] \in Nat /\ n[m] \in Nat
      BY <1>1, <2>3, <2>4
    <3> QED
      BY <3>1
  <2>6. w \in [0..m -> Nat]
    BY <2>3, <2>4, <2>5
  <2>7. \A i \in 0..m : w[i] = IF i = 0 THEN 0 ELSE 2 * w[i - 1] + n[i]
    <3> SUFFICES ASSUME NEW i \in 0..m
                 PROVE  w[i] = IF i = 0 THEN 0 ELSE 2 * w[i - 1] + n[i]
      OBVIOUS
    <3>1. CASE i = m
      <4>1. w[m - 1] = v[m - 1] /\ w[m] = 2 * v[m - 1] + n[m]
        BY <2>3
      <4> QED
        BY <3>1, <4>1, <2>3
    <3>2. CASE i # m
      <4>1. i \in 0..m - 1 /\ w[i] = v[i]
        BY <3>2, <2>3
      <4>2. i # 0 => i - 1 \in 0..m /\ i - 1 # m /\ w[i - 1] = v[i - 1]
        BY <4>1, <2>3
      <4>3. v[i] = IF i = 0 THEN 0 ELSE 2 * v[i - 1] + n[i]
        BY <2>4, <4>1
      <4> HIDE DEF w
      <4> QED
        BY <4>1, <4>2, <4>3
    <3> QED
      BY <3>1, <3>2
  <2>8. w \in First(m)
    BY <2>6, <2>7
  <2> QED
    BY <2>8, <2>1
<1>3. First(Len(n)) # {}
  BY <1>1, <1>2
<1> QED
  BY <1>3 DEF Reads

\* There is one way to read a numeral.
LEMMA ReadsUnique ==
  ASSUME NEW n \in Numerals, NEW v,  NEW w, Reads(v, n),
         \A i \in 0..Len(n) : w[i] = IF i = 0 THEN 0 ELSE 2 * w[i - 1] + n[i]
  PROVE  \A i \in 0..Len(n) : v[i] = w[i]
<1> DEFINE Bad == {i \in 0..Len(n) : v[i] # w[i]}
<1> SUFFICES ASSUME Bad # {} PROVE FALSE
  OBVIOUS
<1>1. Len(n) \in Nat
  BY DEF Numerals
<1>2. PICK i \in Bad : \A j \in Bad : i <= j
  <2>1. Bad \in SUBSET Nat
    BY <1>1
  <2> HIDE DEF Bad
  <2> QED
    BY <2>1, Least
<1>3. v[i] = (IF i = 0 THEN 0 ELSE 2 * v[i - 1] + n[i])
  BY DEF Reads
<1>4. i # 0
  BY <1>3
<1>5. i - 1 \in 0..Len(n) /\ i - 1 < i
  BY <1>1, <1>4
<1>6. v[i - 1] = w[i - 1]
  BY <1>1, <1>2, <1>5
<1> QED
  BY <1>3, <1>4, <1>6

\* Value is the last entry of the loop.
LEMMA ValueRule ==
  ASSUME NEW n \in Numerals, NEW v, Reads(v, n)
  PROVE  Value(n) = v[Len(n)]
<1> DEFINE Loop(g) == [i \in 0..Len(n) |-> IF i = 0 THEN 0 ELSE 2 * g[i - 1] + n[i]]
<1>0. Len(n) \in Nat
  BY DEF Numerals
<1>1. v = Loop(v)
  BY DEF Reads
<1>2. (CHOOSE g : g = Loop(g)) = Loop(CHOOSE g : g = Loop(g))
  <2>1. \E g : g = Loop(g)
    BY <1>1
  <2> HIDE DEF Loop
  <2> QED
    BY <2>1
<1>3. ASSUME NEW g, g = Loop(g) PROVE v[Len(n)] = g[Len(n)]
  <2>1. \A i \in 0..Len(n) : g[i] = IF i = 0 THEN 0 ELSE 2 * g[i - 1] + n[i]
    BY <1>3
  <2> HIDE DEF Loop
  <2> QED
    BY <2>1, ReadsUnique, <1>0
<1> HIDE DEF Loop
<1>4. (CHOOSE g : g = Loop(g))[Len(n)] = v[Len(n)]
  BY <1>2, <1>3
<1> USE DEF Loop
<1> QED
  BY <1>4 DEF Value

\* A numeral is a natural number.
LEMMA ValueNat ==
  ASSUME NEW n \in Numerals
  PROVE  Value(n) \in Nat
<1>1. PICK v : Reads(v, n)
  BY ReadsExists
<1> QED
  BY <1>1, ValueRule DEF Reads, Numerals

\* A digit is its own value.
LEMMA ValueDigit ==
  ASSUME NEW d \in {0, 1}
  PROVE  Value(<<d>>) = d
<1> DEFINE v == [i \in 0..1 |-> IF i = 0 THEN 0 ELSE d]
<1>1. <<d>> \in Numerals /\ Len(<<d>>) = 1 /\ <<d>>[1] = d
  BY DEF Numerals
<1>2. Reads(v, <<d>>)
  BY <1>1 DEF Reads
<1>3. v[1] = d
  OBVIOUS
<1> HIDE DEF v
<1> QED
  BY <1>1, <1>2, <1>3, ValueRule

\* One digit more.
LEMMA ValueAppend ==
  ASSUME NEW n \in Numerals, NEW d \in {0, 1}
  PROVE  Value(Append(n, d)) = 2 * Value(n) + d
<1> DEFINE a == Append(n, d)
<1>1. /\ a \in Numerals /\ Len(a) = Len(n) + 1 /\ Len(n) \in Nat
      /\ a[Len(n) + 1] = d /\ \A i \in 1..Len(n) : a[i] = n[i]
  BY DEF Numerals
<1>2. PICK v : Reads(v, a)
  BY <1>1, ReadsExists
<1>3. PICK w : Reads(w, n)
  BY ReadsExists
<1> HIDE DEF a
<1>4. \A i \in 0..Len(n) : v[i] = IF i = 0 THEN 0 ELSE 2 * v[i - 1] + n[i]
  BY <1>1, <1>2 DEF Reads
<1>5. w[Len(n)] = v[Len(n)]
  BY <1>1, <1>3, <1>4, ReadsUnique
<1>6. v[Len(n) + 1] = 2 * v[Len(n)] + d
  BY <1>1, <1>2 DEF Reads
<1>7. Value(a) = v[Len(n) + 1] /\ Value(n) = w[Len(n)]
  BY <1>1, <1>2, <1>3, ValueRule
<1> QED
  BY <1>5, <1>6, <1>7 DEF a

\* Reading what Format wrote gives the number back, whatever the number; so no two
\* numbers are written alike.
LEMMA ValueOfFormat ==
  \A v \in Nat : /\ Value(Format[v]) = v
                 /\ Format[v] \in Numerals /\ Format[v] # <<>>
<1>1. ASSUME NEW v \in Nat
      PROVE  /\ Format[v] \in Numerals
             /\ v < 2 => Format[v] = <<v>>
             /\ v >= 2 => Format[v] = Append(Format[v \div 2], v % 2)
  <2>1. Format[v] \in Numerals /\ Format[v] = Digits(Format, v)
    BY FormatRule, Zenon
  <2> QED
    BY <2>1 DEF Digits
<1>2. ASSUME NEW v \in Nat PROVE Format[v] # <<>>
  <2>1. CASE v < 2
    <3>1. Format[v] = <<v>> /\ Len(<<v>>) = 1 /\ Len(<<>>) = 0
      BY <1>1, <2>1
    <3> QED
      BY <3>1
  <2>2. CASE v >= 2
    <3>1. Format[v \div 2] \in Numerals /\ v % 2 \in {0, 1}
      BY <1>1, <2>2, Half
    <3>2. Format[v] = Append(Format[v \div 2], v % 2)
      BY <1>1, <2>2
    <3> QED
      BY <3>1, <3>2 DEF Numerals
  <2> QED
    BY <2>1, <2>2
<1> DEFINE Bad == {v \in Nat : Value(Format[v]) # v}
<1>3. Bad = {}
  <2> SUFFICES ASSUME Bad # {} PROVE FALSE
    OBVIOUS
  <2>1. PICK v \in Bad : \A w \in Bad : v <= w
    <3>1. Bad \in SUBSET Nat
      OBVIOUS
    <3> HIDE DEF Bad
    <3> QED
      BY <3>1, Least
  <2>2. v >= 2
    <3> SUFFICES ASSUME v < 2 PROVE FALSE
      OBVIOUS
    <3>1. v \in {0, 1} /\ Format[v] = <<v>>
      BY <1>1
    <3> QED
      BY <3>1, ValueDigit
  <2>3. /\ v \div 2 \in 0..v-1 /\ v % 2 \in {0, 1} /\ v \div 2 \in Nat
        /\ v = 2 * (v \div 2) + (v % 2)
    BY <2>2, Half
  <2>4. Value(Format[v \div 2]) = v \div 2
    BY <2>1, <2>3
  <2>5. Format[v] = Append(Format[v \div 2], v % 2)
    BY <1>1, <2>2
  <2>6. Value(Format[v]) = 2 * (v \div 2) + (v % 2)
    BY <1>1, <2>3, <2>4, <2>5, ValueAppend
  <2> QED
    BY <2>3, <2>6
<1> QED
  BY <1>1, <1>2, <1>3

\* Every part that can be written.
AllParts == [tag: STRING, num: Numerals]

\* A piece is the record of its fields.
LEMMA PieceFields ==
  ASSUME NEW p \in Pieces
  PROVE  /\ p = [oid |-> p.oid, segment |-> p.segment, secondary |-> p.secondary,
                 redundancy |-> p.redundancy, version |-> p.version]
         /\ p.oid \in Oids /\ p.segment \in Indexes /\ p.redundancy \in Indexes
         /\ p.version \in Versions /\ p.secondary \in BOOLEAN
         /\ ~p.secondary => p.redundancy = 0
         /\ Oids \subseteq Nat /\ Indexes \subseteq Nat /\ Versions \subseteq Nat
<1>1. 0 \in Indexes
  BY KeyAssumption DEF Indexes
<1>2. Oids \subseteq Nat /\ Indexes \subseteq Nat /\ Versions \subseteq Nat
  BY KeyAssumption DEF Oids, Indexes, Versions
<1> QED
  BY <1>1, <1>2 DEF Pieces

\* The parts of a key.
LEMMA KeyShape ==
  ASSUME NEW p \in Pieces
  PROVE  LET k == Key(p)
             n == IF p.secondary THEN 3 ELSE 2
         IN  /\ Len(k) = IF p.version = 0 THEN n ELSE n + 1
             /\ k[1] = Part(IF p.secondary THEN "e" ELSE "s", Format[p.oid])
             /\ k[2] = Part("s", Format[p.segment])
             /\ p.secondary => k[3] = Part("p", Format[p.redundancy])
             /\ p.version # 0 => k[n + 1] = Part("v", Format[p.version])
<1>1. p.secondary \in BOOLEAN
  BY PieceFields
<1> DEFINE a == Part("e", Format[p.oid])
           b == Part("s", Format[p.oid])
           c == Part("s", Format[p.segment])
           d == Part("p", Format[p.redundancy])
           e == Part("v", Format[p.version])
<1>2. CASE p.secondary
  <2>1. Key(p) = IF p.version = 0 THEN <<a, c, d>> ELSE Append(<<a, c, d>>, e)
    BY <1>2 DEF Key
  <2> HIDE DEF a, b, c, d, e
  <2>2. /\ Len(Key(p)) = (IF p.version = 0 THEN 3 ELSE 4)
        /\ Key(p)[1] = a /\ Key(p)[2] = c /\ Key(p)[3] = d
        /\ p.version # 0 => Key(p)[4] = e
    BY <2>1
  <2> QED
    BY <1>2, <2>2 DEF a, b, c, d, e
<1>3. CASE ~p.secondary
  <2>1. Key(p) = IF p.version = 0 THEN <<b, c>> ELSE Append(<<b, c>>, e)
    BY <1>3 DEF Key
  <2> HIDE DEF a, b, c, d, e
  <2>2. /\ Len(Key(p)) = (IF p.version = 0 THEN 2 ELSE 3)
        /\ Key(p)[1] = b /\ Key(p)[2] = c
        /\ p.version # 0 => Key(p)[3] = e
    BY <2>1
  <2> QED
    BY <1>3, <2>2 DEF a, b, c, d, e
<1> QED
  BY <1>1, <1>2, <1>3

\* A number within its range is accepted.
LEMMA FormatRead ==
  ASSUME NEW range \in Nat \ {0}, NEW v \in 0..range - 1
  PROVE  Value(Format[v]) = v /\ v < range /\ Format[v] # <<>>
  BY ValueOfFormat

\* What the provider writes is parsed as the piece it was written for.
LEMMA KeyParsed ==
  ASSUME NEW p \in Pieces
  PROVE  Parse(Key(p)) = {p}
<1> DEFINE k == Key(p)
           n == IF p.secondary THEN 3 ELSE 2
<1>1. /\ Len(k) = IF p.version = 0 THEN n ELSE n + 1
      /\ k[1] = Part(IF p.secondary THEN "e" ELSE "s", Format[p.oid])
      /\ k[2] = Part("s", Format[p.segment])
      /\ p.secondary => k[3] = Part("p", Format[p.redundancy])
      /\ p.version # 0 => k[n + 1] = Part("v", Format[p.version])
  BY KeyShape
<1>2. /\ p = [oid |-> p.oid, segment |-> p.segment, secondary |-> p.secondary,
              redundancy |-> p.redundancy, version |-> p.version]
      /\ p.oid \in Oids /\ p.segment \in Indexes /\ p.redundancy \in Indexes
      /\ p.version \in Versions /\ p.secondary \in BOOLEAN
      /\ ~p.secondary => p.redundancy = 0
  BY PieceFields
<1>3. OidRange \in Nat \ {0} /\ IndexRange \in Nat \ {0} /\ VersionRange \in Nat \ {0}
  BY KeyAssumption
<1> HIDE DEF k
<1>4. /\ Num(k[1], k[1].tag, OidRange) /\ Value(k[1].num) = p.oid
      /\ k[1].tag = IF p.secondary THEN "e" ELSE "s"
  <2>1. Value(Format[p.oid]) = p.oid /\ p.oid < OidRange /\ Format[p.oid] # <<>>
    BY <1>2, <1>3, FormatRead DEF Oids
  <2> QED
    BY <1>1, <2>1 DEF Num, Part
<1>5. Num(k[2], "s", IndexRange) /\ Value(k[2].num) = p.segment
  <2>1. Value(Format[p.segment]) = p.segment /\ p.segment < IndexRange /\ Format[p.segment] # <<>>
    BY <1>2, <1>3, FormatRead DEF Indexes
  <2> QED
    BY <1>1, <2>1 DEF Num, Part
<1>6. p.secondary => Num(k[3], "p", IndexRange) /\ Value(k[3].num) = p.redundancy
  <2>1. /\ Value(Format[p.redundancy]) = p.redundancy /\ p.redundancy < IndexRange
        /\ Format[p.redundancy] # <<>>
    BY <1>2, <1>3, FormatRead DEF Indexes
  <2> QED
    BY <1>1, <2>1 DEF Num, Part
<1>7. p.version # 0 => Num(k[n + 1], "v", VersionRange) /\ Value(k[n + 1].num) = p.version
  <2>1. Value(Format[p.version]) = p.version /\ p.version < VersionRange /\ Format[p.version] # <<>>
    BY <1>2, <1>3, FormatRead DEF Versions
  <2> QED
    BY <1>1, <2>1 DEF Num, Part
<1>8. (k[1].tag = "e") = p.secondary /\ n = IF k[1].tag = "e" THEN 3 ELSE 2
  BY <1>2, <1>4
<1>9. k # <<>>
  BY <1>1
<1>10. Layout(k)
  BY <1>1, <1>4, <1>5, <1>6, <1>7, <1>8 DEF Layout
<1>11. Fields(k) = p
  <2>1. Fields(k) = [oid |-> p.oid, segment |-> p.segment, secondary |-> p.secondary,
                     redundancy |-> p.redundancy, version |-> p.version]
    BY <1>1, <1>2, <1>4, <1>5, <1>6, <1>7, <1>8 DEF Fields
  <2> QED
    BY <1>2, <2>1
<1> QED
  BY <1>9, <1>10, <1>11 DEF Parse, k

\* What is parsed is a piece, and the key is the one the provider writes for it.
LEMMA ParsedKey ==
  ASSUME NEW k \in Seq(AllParts), NEW p \in Parse(k)
  PROVE  p \in Pieces /\ Key(p) = k
<1> DEFINE n == IF k[1].tag = "e" THEN 3 ELSE 2
<1>1. p = Fields(k) /\ Layout(k) /\ Key(p) = k
  BY DEF Parse
<1>2. OidRange \in Nat \ {0} /\ IndexRange \in Nat \ {0} /\ VersionRange \in Nat \ {0}
  BY KeyAssumption
<1>3. \A i \in 1..Len(k) : k[i] \in AllParts
  OBVIOUS
<1>4. \A i \in 1..Len(k) : Value(k[i].num) \in Nat
  BY <1>3, ValueNat DEF AllParts
<1>5. Len(k) \in 2..4
  BY <1>1 DEF Layout
<1>6. Value(k[1].num) \in Oids /\ Value(k[2].num) \in Indexes
  BY <1>1, <1>2, <1>4, <1>5 DEF Layout, Num, Oids, Indexes
<1>7. k[1].tag = "e" => Value(k[3].num) \in Indexes
  BY <1>1, <1>2, <1>4, <1>5 DEF Layout, Num, Indexes
<1>8. Len(k) > n => Value(k[n + 1].num) \in Versions
  BY <1>1, <1>2, <1>4, <1>5 DEF Layout, Num, Versions
<1>9. 0 \in Versions
  BY <1>2 DEF Versions
<1>10. p \in Pieces
  <2>1. CASE k[1].tag = "e"
    BY <1>1, <1>6, <1>7, <1>8, <1>9, <2>1 DEF Fields, Pieces
  <2>2. CASE k[1].tag # "e"
    BY <1>1, <1>6, <1>8, <1>9, <2>2 DEF Fields, Pieces
  <2> QED
    BY <2>1, <2>2
<1> QED
  BY <1>1, <1>10

\* Parse is the inverse of Key.
LEMMA ParseIsInverse ==
  ASSUME NEW k \in Seq(AllParts)
  PROVE  Parse(k) = {p \in Pieces : Key(p) = k}
<1>1. ASSUME NEW p \in Parse(k) PROVE p \in Pieces /\ Key(p) = k
  BY ParsedKey
<1>2. ASSUME NEW p \in Pieces, Key(p) = k PROVE p \in Parse(k)
  BY <1>2, KeyParsed
<1> QED
  BY <1>1, <1>2

\* A piece is listed under its object and no other.
LEMMA ListedUnderOwn ==
  ASSUME NEW k \in Seq(AllParts), NEW p \in Parse(k), NEW o \in Oids
  PROVE  ListedUnder(k, o) <=> o = p.oid
<1>1. p \in Pieces /\ Key(p) = k
  BY ParsedKey
<1>2. /\ p.oid \in Nat /\ p.secondary \in BOOLEAN /\ o \in Nat
      /\ p.version \in Nat
  BY <1>1, PieceFields
<1>3. /\ k[1] = Part(IF p.secondary THEN "e" ELSE "s", Format[p.oid])
      /\ Len(k) > 1
  BY <1>1, <1>2, KeyShape
<1>4. ListedUnder(k, o) <=> Format[p.oid] = Format[o]
  BY <1>2, <1>3 DEF ListedUnder, Part
<1>5. Value(Format[p.oid]) = p.oid /\ Value(Format[o]) = o
  BY <1>2, ValueOfFormat
<1> QED
  BY <1>4, <1>5

-----------------------------------------------------------------------------

\* The inputs of the calculations.
InputsOK ==
  /\ key \in Seq(AllParts)
  /\ args \in Payloads \X Segments \X Chunks \/ args = <<0, 0, 0>>

\* A behaviour only adds parts to the key.
LEMMA InputsCorrect == CalcSpec => []InputsOK
<1>1. CalcInit => InputsOK
  BY DEF CalcInit, InputsOK
<1>2. InputsOK /\ [CalcNext]_allVars => InputsOK'
  <2> SUFFICES ASSUME InputsOK, [CalcNext]_allVars PROVE InputsOK'
    OBVIOUS
  <2>1. CASE Cut
    BY <2>1 DEF Cut, InputsOK
  <2>2. ASSUME NEW x \in Parts, Extend(x) PROVE InputsOK'
    <3>1. x \in AllParts
      BY KeyAssumption DEF AllParts, Numerals
    <3> QED
      BY <2>2, <3>1 DEF Extend, InputsOK
  <2>3. CASE UNCHANGED allVars
    BY <2>3 DEF allVars, InputsOK
  <2> QED
    BY <2>1, <2>2, <2>3 DEF CalcNext
<1> QED
  BY <1>1, <1>2, PTL DEF CalcSpec

\* For every integer width, every payload and all parameters within their bounds:
\* the loop of ExpectedSecondaryBytes adds up exactly the shards of the object, the
\* last segment included, and nothing wraps around on the way.
THEOREM ExpectedBytesExact == CalcSpec => []MatchesReference
<1>1. InputsOK => MatchesReference
  <2> SUFFICES ASSUME InputsOK, args[2] > 0, args[3] > 0
               PROVE  ExpectedSecondaryBytes(args[1], args[2], args[3])
                        = Reference(args[1], args[2], args[3])
    BY DEF MatchesReference
  <2>1. args[1] \in Payloads /\ args[2] \in Segments \ {0} /\ args[3] \in Chunks \ {0}
    BY DEF InputsOK
  <2> QED
    BY <2>1, Expected
<1> QED
  BY <1>1, InputsCorrect, PTL

\* For keys of any number of parts and numerals of any length: Parse accepts exactly
\* the keys the provider writes and reads from each the one piece it was written for.
THEOREM ParseIsExact == CalcSpec => []ParseInvertsKey
<1>1. InputsOK => ParseInvertsKey
  BY ParseIsInverse DEF InputsOK, ParseInvertsKey, Named
<1> QED
  BY <1>1, InputsCorrect, PTL

\* For every object id: the listing of an object's prefixes returns the pieces of
\* that object and of no other, so that deleting what is listed and kept touches one
\* object only.
THEOREM ListingIsExact == CalcSpec => []ListedOnce
<1>1. InputsOK => ListedOnce
  <2> SUFFICES ASSUME InputsOK, KeptFor(key) # {}
               PROVE  {o \in Oids : ListedUnder(key, o)} = KeptFor(key)
    BY DEF ListedOnce
  <2>1. PICK p : p \in Parse(key)
    BY DEF KeptFor
  <2>2. Parse(key) = {p}
    BY <2>1 DEF Parse
  <2>3. p.oid \in Oids
    BY <2>1, ParsedKey, PieceFields DEF InputsOK
  <2>4. \A o \in Oids : ListedUnder(key, o) <=> o = p.oid
    BY <2>1, ListedUnderOwn DEF InputsOK
  <2> QED
    BY <2>2, <2>3, <2>4 DEF KeptFor
<1> QED
  BY <1>1, InputsCorrect, PTL

\* The behaviours of the three calculations together are, batch by batch, behaviours
\* of SelectCapacity: what is proved of it holds of them.
THEOREM CutsAsSelectCapacity == CalcSpec => Spec
<1>1. CalcInit => Init
  BY DEF CalcInit
<1>2. [CalcNext]_allVars => [Next]_vars
  BY DEF CalcNext, Cut, Extend, allVars, vars
<1> QED
  BY <1>1, <1>2, PTL DEF CalcSpec, Spec

=============================================================================
