---------------------------- MODULE Calculations ----------------------------
(***************************************************************************)
(* The three calculations the commands rely on, each over all its small    *)
(* inputs: the batches task create cuts from a list (module Capacity), the *)
(* reading of keys (PieceKey), and the bytes a secondary is expected to    *)
(* have stored (SizeCheck).  A behaviour is about one of them.             *)
(***************************************************************************)
EXTENDS Capacity, PieceKey, SizeCheck

CONSTANT MaxParts   \* bound: parts of a key

ASSUME PartsAssumption == MaxParts \in Nat

VARIABLES about,   \* batches, keys, sizes
          key,     \* the key that is read
          args     \* payload, segment size and data chunks

allVars == <<vars, about, key, args>>

\* For TLC: canonical numerals, one with a leading zero, one that is an object id
\* but out of range for an index or a version; a part without digits; a text.
KeyParts ==
  {Part(t, n) : t \in {"s", "e", "p", "v"}, n \in {<<0>>, <<1>>, <<0, 1>>, <<1, 0>>}}
  \union {Part("s", <<>>), Part("x", <<1>>)}

CalcInit ==
  /\ Init
  /\ key = <<>>
  /\ about \in {"batches", "keys", "sizes"}
  /\ about # "batches" => size = [r \in Rows |-> 0]
  /\ IF about = "sizes" THEN args \in Payloads \X Segments \X Chunks ELSE args = <<0, 0, 0>>

Cut == /\ about = "batches"
       /\ Next
       /\ UNCHANGED <<about, key, args>>

Extend(x) == /\ about = "keys" /\ Len(key) < MaxParts
             /\ key' = Append(key, x)
             /\ UNCHANGED <<vars, about, args>>

CalcNext == Cut \/ \E x \in Parts : Extend(x)

CalcSpec == CalcInit /\ [][CalcNext]_allVars

-----------------------------------------------------------------------------

\* The tool deletes nothing but pieces and refuses none, and never takes a piece
\* for another: a key is accepted exactly if the provider writes it, no two pieces
\* share a key, and the fields Parse reads are those of the piece.
ParseInvertsKey ==
  Parse(key) = IF key \in DOMAIN Named THEN Named[key] ELSE {}

\* A piece that KeepOnly keeps is listed under its own object's prefixes and under
\* no other's.
ListedOnce ==
  KeptFor(key) # {} => {o \in Oids : ListedUnder(key, o)} = KeptFor(key)

\* For every size up to the largest ExpectedSecondaryBytes is the sum of the
\* shards: neither the sum nor the rounding wraps, the last segment included.
MatchesReference ==
  args[2] > 0 /\ args[3] > 0
    => ExpectedSecondaryBytes(args[1], args[2], args[3]) = Reference(args[1], args[2], args[3])

=============================================================================
