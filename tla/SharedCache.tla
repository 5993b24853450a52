----------------------------- MODULE SharedCache -----------------------------
(***************************************************************************)
(* How the interpreter moves through code: CodeReader and verify_jump, and *)
(* SharedCache, which keeps the jump destinations of the codes that ran.   *)
(* A byte of code is an instruction or data of a PUSH before it, and only  *)
(* where it stands tells which.  What other instructions do is open.       *)
(***************************************************************************)
EXTENDS Integers, Sequences, FiniteSets

CONSTANTS
  Codes,        \* the codes of the contracts, sequences of bytes
  PushBytes,    \* PushBytes[b]: the data bytes after b, 0 if b is no PUSH
  CacheSize     \* bound on the codes that fit the cache

JUMPDEST == 1
JUMP == 2       \* JUMP, and JUMPI when it jumps

VARIABLES
  code,                \* the code that runs, <<>> when none does
  pc,                  \* reader.position
  destinations,        \* valid_jump_destinations
  jump_destinations    \* the cache, oldest first: [code, bits]

cacheVars == <<code, pc, destinations, jump_destinations>>

At(c, position) == c[position + 1]

\* Mutant of find_jump_destinations: every byte is taken to be an instruction.
AllDestinations(c) == {p \in 0..(Len(c) - 1) : At(c, p) = JUMPDEST}

\* The loop of find_jump_destinations, by the position it is at.
find_jump_destinations(c) ==
  LET from[p \in Nat] ==
        IF p >= Len(c) THEN {}
        ELSE (IF At(c, p) = JUMPDEST THEN {p} ELSE {}) \cup from[p + 1 + PushBytes[At(c, p)]]
  IN from[0]

Kept(c) == {i \in DOMAIN jump_destinations : jump_destinations[i].code = c}
Entry(c) == [code |-> c, bits |-> find_jump_destinations(c)]

\* The exec of a contract begins: jump_destinations, from the cache or worked out.
\* A hit makes the code the newest, an insertion drops the oldest.
exec(c) ==
  LET others == SelectSeq(jump_destinations, LAMBDA e : e.code # c)
      room == SubSeq(others, IF Len(others) < CacheSize THEN 1 ELSE 2, Len(others))
      entry == IF Kept(c) = {} THEN Entry(c) ELSE jump_destinations[CHOOSE i \in Kept(c) : TRUE]
  IN /\ code = <<>>
     /\ code' = c /\ pc' = 0
     /\ destinations' = entry.bits
     /\ jump_destinations' = Append(IF Kept(c) = {} THEN room ELSE others, entry)

\* An instruction that does not jump; a PUSH reads its data.
Advance ==
  /\ pc < Len(code)
  /\ pc' = pc + 1 + PushBytes[At(code, pc)]
  /\ UNCHANGED <<code, destinations, jump_destinations>>

Done ==
  /\ code' = <<>> /\ pc' = 0 /\ destinations' = {}
  /\ UNCHANGED jump_destinations

\* verify_jump of a position off the stack: any number.
Jump(position) ==
  /\ pc < Len(code) /\ At(code, pc) = JUMP
  /\ \/ /\ position \in destinations
        /\ pc' = position
        /\ UNCHANGED <<code, destinations, jump_destinations>>
     \/ /\ position \notin destinations
        /\ Done

\* The end of the code, or an instruction that ends the run.
Finish == code # <<>> /\ Done

CacheInit == code = <<>> /\ pc = 0 /\ destinations = {} /\ jump_destinations = <<>>

CacheNext ==
  \/ \E c \in Codes : exec(c)
  \/ Advance \/ Finish
  \/ \E position \in 0..Len(code) : Jump(position)

-----------------------------------------------------------------------------
\* The positions where instructions of c stand: those that a walk from the start
\* steps on, each step over one instruction and its data.
Stands(c, p) ==
  \E S \in SUBSET (0..p) : 0 \in S /\ p \in S /\ \A q \in S \ {0} :
    \E r \in S : r < q /\ q = r + 1 + PushBytes[At(c, r)]

\* No run of a contract ever takes the data of a PUSH for an instruction, and after
\* a jump it is on a JUMPDEST (find_jump_destinations, the cache, verify_jump).
NeverInData ==
  code # <<>> /\ pc < Len(code) =>
    /\ Stands(code, pc)
    /\ destinations = {p \in 0..(Len(code) - 1) : At(code, p) = JUMPDEST /\ Stands(code, p)}
=============================================================================
