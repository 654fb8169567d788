----------------------------- MODULE SizeCheck -----------------------------
(***************************************************************************)
(* ExpectedSecondaryBytes, segment by segment, in integers that wrap at    *)
(* SizeWrap (2^64 in the code): what a secondary stores of an object, to   *)
(* be compared with the bytes that were deleted.                           *)
(***************************************************************************)
EXTENDS Integers

CONSTANTS SizeWrap,      \* the number of values of the integer type
          MaxSegment,    \* bound: segment size of the chain's parameters
          MaxChunks      \* bound: EC data chunks

\* The parameters of the chain (16 MiB, 4) are far from the range of the type;
\* --segment-size is the operator's to keep so.
ASSUME SizeAssumption ==
  /\ SizeWrap \in Nat \ {0} /\ MaxSegment \in Nat /\ MaxChunks \in Nat
  /\ MaxSegment + MaxChunks <= SizeWrap

Payloads == 0..SizeWrap - 1
Segments == 0..MaxSegment
Chunks   == 0..MaxChunks

WrongShard(seg, dataChunks) == seg \div dataChunks   \* rounds down

\* One data shard of a segment, rounded up.
Shard(seg, dataChunks) == ((seg + dataChunks - 1) % SizeWrap) \div dataChunks

\* The next segment of what is left of the payload.
Segment(payload, segmentSize) == IF payload < segmentSize THEN payload ELSE segmentSize

\* The loop; parameters of zero are refused before it.
ExpectedSecondaryBytes(size, segmentSize, dataChunks) ==
  LET total[payload \in Payloads] ==
        IF payload = 0 THEN 0
        ELSE LET seg == Segment(payload, segmentSize)
             IN  (Shard(seg, dataChunks) + total[payload - seg]) % SizeWrap
  IN  IF segmentSize = 0 \/ dataChunks = 0 THEN 0 ELSE total[size]

-----------------------------------------------------------------------------

\* Full segments and the rest, in one expression and without wrapping.
Reference(size, segmentSize, dataChunks) ==
  LET ceil(n) == (n + dataChunks - 1) \div dataChunks
  IN  (size \div segmentSize) * ceil(segmentSize) + ceil(size % segmentSize)

=============================================================================
