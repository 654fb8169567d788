------------------------------ MODULE PieceKey ------------------------------
(***************************************************************************)
(* The names of pieces.  A key is the sequence of its parts between        *)
(* underscores; a part is a tag letter and a numeral, a sequence of digits *)
(* (base 2 here; text that is not a number is a part with the tag "x").    *)
(* Module Calculations asks of every key of a few parts how it is read.    *)
(***************************************************************************)
EXTENDS Integers, Sequences

CONSTANTS Parts,      \* parts that occur in keys
          OidRange, IndexRange, VersionRange   \* 2^64, 2^32 and 2^63 in the code

ASSUME KeyAssumption == /\ Parts \subseteq [tag: STRING, num: Seq({0, 1})]
                        /\ {OidRange, IndexRange, VersionRange} \subseteq Nat \ {0}

Part(tag, n) == [tag |-> tag, num |-> n]

\* strconv.FormatUint: no leading zeros.
Format[v \in Nat] == IF v < 2 THEN <<v>> ELSE Append(Format[v \div 2], v % 2)

\* strconv.ParseUint: digit by digit.
Value(n) ==
  LET v[i \in 0..Len(n)] == IF i = 0 THEN 0 ELSE 2 * v[i - 1] + n[i]
  IN  v[Len(n)]

Oids     == 0..OidRange - 1
Indexes  == 0..IndexRange - 1
Versions == 0..VersionRange - 1

\* The pieces the storage provider writes; version 0 is the first one.
Pieces ==
  [oid: Oids, segment: Indexes, secondary: {FALSE}, redundancy: {0}, version: Versions]
  \union
  [oid: Oids, segment: Indexes, secondary: {TRUE}, redundancy: Indexes, version: Versions]

Key(p) ==
  LET unversioned ==
        IF p.secondary
        THEN <<Part("e", Format[p.oid]), Part("s", Format[p.segment]), Part("p", Format[p.redundancy])>>
        ELSE <<Part("s", Format[p.oid]), Part("s", Format[p.segment])>>
  IN  IF p.version = 0 THEN unversioned ELSE Append(unversioned, Part("v", Format[p.version]))

\* The closure num: the right tag, and a nonempty numeral within the width.
Num(part, tag, range) ==
  part.tag = tag /\ part.num # <<>> /\ Value(part.num) < range

\* The layout: what Parse asks of the parts before it renders them again.
Layout(k) ==
  LET secondary == k[1].tag = "e"
      n == IF secondary THEN 3 ELSE 2
  IN  /\ Len(k) \in 2..4 /\ k[1].tag \in {"s", "e"}
      /\ Num(k[1], k[1].tag, OidRange) /\ Num(k[2], "s", IndexRange)
      /\ secondary => Len(k) > 2 /\ Num(k[3], "p", IndexRange)
      /\ Len(k) > n => Len(k) = n + 1 /\ Num(k[n + 1], "v", VersionRange)

\* The fields of a key in that layout.
Fields(k) ==
  LET secondary == k[1].tag = "e"
      n == IF secondary THEN 3 ELSE 2
  IN  [oid |-> Value(k[1].num), segment |-> Value(k[2].num), secondary |-> secondary,
       redundancy |-> IF secondary THEN Value(k[3].num) ELSE 0,
       version |-> IF Len(k) > n THEN Value(k[n + 1].num) ELSE 0]

WrongParse(k) == IF k # <<>> /\ Layout(k) THEN {Fields(k)} ELSE {}   \* takes any spelling

\* The piece a key names, as a set: empty when ok is false.
Parse(k) == IF k # <<>> /\ Layout(k) /\ Key(Fields(k)) = k THEN {Fields(k)} ELSE {}

WrongListedUnder(k, oid) ==   \* without the underscore
  /\ k # <<>> /\ k[1].tag \in {"s", "e"}
  /\ \E n \in 1..Len(k[1].num) : SubSeq(k[1].num, 1, n) = Format[oid]

\* The keys that a listing of Prefixes(oid) returns.
ListedUnder(k, oid) == Len(k) > 1 /\ k[1].tag \in {"s", "e"} /\ k[1].num = Format[oid]

\* The objects for which KeepOnly keeps the key.
KeptFor(k) == {p.oid : p \in Parse(k)}

\* The pieces the provider writes under each key.
Named == [k \in {Key(p) : p \in Pieces} |-> {p \in Pieces : Key(p) = k}]

=============================================================================
