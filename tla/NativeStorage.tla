---------------------------- MODULE NativeStorage ----------------------------
(***************************************************************************)
(* The layout of the variables of a native contract in the keys of its     *)
(* account: Scalar, Array and Map with values of bytes.                    *)
(*                                                                         *)
(* sha3 is taken to be one to one, so that a key is how it was made: a     *)
(* position of the contract is <<p>>, sha3 of a key has a 0 more at its    *)
(* end, and counting up from a key counts there.  A word has WordLen       *)
(* bytes, 32 in the code.                                                  *)
(***************************************************************************)
EXTENDS Integers, Sequences, SequencesExt

CONSTANTS
  WordLen,
  Places,        \* where values are: [kind, position, at], at an index or a key
  ValueBytes,    \* values that are written, sequences of bytes
  MaxWrites      \* bound on the writes

VARIABLES
  storage,       \* key -> word, of the keys that were written
  kept,          \* what was last written at each place, <<>> at first
  writes

storageVars == <<storage, kept, writes>>

Zero == [i \in 1..WordLen |-> 0]
Number(n) == [Zero EXCEPT ![WordLen] = n]         \* H256::from(u64), of a byte
Padded(bytes) == [i \in 1..WordLen |-> IF i <= Len(bytes) THEN bytes[i] ELSE 0]

Position(p) == <<p>>
sha3(key) == Append(key, 0)
sha3_of_two(at, key) == sha3(<<-1, at>> \o key)
Offset(key) == Last(key)
Plus(key, n) == Append(Front(key), Offset(key) + n)

\* The Scalar that a place is: itself, an element of an Array, the value of a Map.
ScalarOf(place) ==
  CASE place.kind = "scalar" -> Position(place.position)
    [] place.kind = "array" -> Plus(sha3(Position(place.position)), place.at)
    [] place.kind = "map" -> sha3_of_two(place.at, Position(place.position))

storage_at(s, key) == IF key \in DOMAIN s THEN s[key] ELSE Zero

\* encoded.chunks(32), the last one filled up with zeros.
Chunks(bytes) ==
  [i \in 1..((Len(bytes) + WordLen - 1) \div WordLen) |->
     [j \in 1..WordLen |-> LET n == (i - 1) * WordLen + j IN IF n <= Len(bytes) THEN bytes[n] ELSE 0]]

\* Mutant of Encoded: a value that fills the word is short.
EncodedFull(key, bytes) ==
  IF Len(bytes) <= WordLen
  THEN [k \in {key} |-> [Padded(bytes) EXCEPT ![WordLen] = Len(bytes) * 2]]
  ELSE [k \in {key} \cup {Plus(sha3(key), i - 1) : i \in DOMAIN Chunks(bytes)} |->
          IF k = key THEN Number(Len(bytes) * 2 + 1) ELSE Chunks(bytes)[Offset(k) + 1]]

\* The words that Scalar::set_bytes writes.  A short value is in one word with its
\* length, a long one has its length there and is in the words from sha3 on.
Encoded(key, bytes) ==
  IF Len(bytes) < WordLen
  THEN [k \in {key} |-> [Padded(bytes) EXCEPT ![WordLen] = Len(bytes) * 2]]
  ELSE [k \in {key} \cup {Plus(sha3(key), i - 1) : i \in DOMAIN Chunks(bytes)} |->
          IF k = key THEN Number(Len(bytes) * 2 + 1) ELSE Chunks(bytes)[Offset(k) + 1]]

get_bytes(s, key) ==
  LET first == storage_at(s, key)[WordLen]
      length == (first - 1) \div 2
      Chunk(i) == storage_at(s, Plus(sha3(key), i - 1))
  IN IF first % 2 = 0 THEN SubSeq(storage_at(s, key), 1, first \div 2)
     ELSE [i \in 1..length |-> Chunk(((i - 1) \div WordLen) + 1)[((i - 1) % WordLen) + 1]]

\* set_bytes at a place: what an older and longer value left is not cleared.
set_bytes(place, bytes) ==
  LET new == Encoded(ScalarOf(place), bytes)
  IN /\ writes < MaxWrites
     /\ writes' = writes + 1
     /\ storage' = [k \in DOMAIN storage \cup DOMAIN new |->
                      IF k \in DOMAIN new THEN new[k] ELSE storage[k]]
     /\ kept' = [kept EXCEPT ![place] = bytes]

StorageInit == storage = [k \in {} |-> Zero] /\ kept = [p \in Places |-> <<>>] /\ writes = 0
StorageNext == \E place \in Places, bytes \in ValueBytes : set_bytes(place, bytes)

\* Every variable reads back what was last written there, whatever was there before
\* and whatever was written elsewhere: long after short, short after long, and
\* elements and long values that lie at hashes (Scalar, Array and Map).
ReadsBack == \A place \in Places : get_bytes(storage, ScalarOf(place)) = kept[place]
=============================================================================
