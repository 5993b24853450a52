----------------------------- MODULE Interpreter -----------------------------
(***************************************************************************)
(* The interpreter of the EVM: the stack, the memory and the gas of one    *)
(* run (Interpreter::exec, Gasometer, Memory, VecStack).                   *)
(*                                                                         *)
(* The code is left open: any instruction may come next, so that a state   *)
(* stands for every code that leads to it (SharedCache has where the code  *)
(* reader stands).  So are the answers of Ext: what is stored, which       *)
(* accounts there are, and how a call ends, but for the gas, of which a    *)
(* call gives back at most what it was given (module Executive).  The      *)
(* instructions are one of each kind; those that push some word of the     *)
(* environment are ENV, those of two words are ADD.                        *)
(*                                                                         *)
(* A word is of Words.  The gas, and the offsets that index memory, are    *)
(* machine integers below Usize, less than the words: low_u64 cuts.  Gas   *)
(* sums are checked for overflow in the code, so that exact sums that are  *)
(* more than the gas at hand are OutOfGas as well.                         *)
(***************************************************************************)
EXTENDS Words, Sequences, SequencesExt

CONSTANTS
  Usize,            \* 2^64, less than the words
  Runs,             \* the runs: [gas |-> params.gas, code |-> the instructions of the code]
  PushValues,       \* words a PUSH may push
  Data,             \* params.data, or the code that is copied, as bytes
  stack_limit,
  memory_gas, QuadShift, copy_gas,
  call_value_transfer_gas, call_stipend, call_new_account_gas

VARIABLES
  code,           \* the instructions that may come
  stack,          \* top first
  mem,            \* bytes
  gas,            \* current_gas
  mem_gas,        \* current_mem_gas
  status          \* "running", "ok", the error, or "panic"

interpreterVars == <<code, stack, mem, gas, mem_gas, status>>

low(a) == a % Usize
peek(n) == stack[n + 1]
Popped(n) == SubSeq(stack, n + 1, Len(stack))

\* INSTRUCTIONS: the words an instruction takes and gives, and its gas when it needs
\* no more than its tier.  Each costs something, but for the ones that end a run.
INSTRUCTIONS ==
  [STOP |-> <<0, 0, 0>>, ADD |-> <<2, 1, 1>>, SIGNEXTEND |-> <<2, 1, 1>>, SHA3 |-> <<2, 1, 1>>,
   ENV |-> <<0, 1, 1>>, CALLDATALOAD |-> <<1, 1, 1>>, CODECOPY |-> <<3, 0, 1>>,
   EXTCODECOPY |-> <<4, 0, 1>>, POP |-> <<1, 0, 1>>, MLOAD |-> <<1, 1, 1>>,
   MSTORE |-> <<2, 0, 1>>, MSTORE8 |-> <<2, 0, 1>>, SLOAD |-> <<1, 1, 1>>,
   SSTORE |-> <<2, 0, 1>>, JUMP |-> <<1, 0, 1>>, JUMPI |-> <<2, 0, 1>>, MSIZE |-> <<0, 1, 1>>,
   GAS |-> <<0, 1, 1>>, PUSH |-> <<0, 1, 1>>, DUP1 |-> <<1, 2, 1>>, DUP2 |-> <<2, 3, 1>>,
   SWAP1 |-> <<2, 2, 1>>, LOG0 |-> <<2, 0, 1>>, LOG1 |-> <<3, 0, 1>>, CREATE |-> <<3, 1, 1>>,
   CALL |-> <<7, 1, 1>>, CALLCODE |-> <<7, 1, 1>>, RETURN |-> <<2, 0, 0>>,
   SUICIDE |-> <<1, 0, 0>>]
args(i) == INSTRUCTIONS[i][1]
ret(i) == INSTRUCTIONS[i][2]
step_gas(i) == INSTRUCTIONS[i][3]

-----------------------------------------------------------------------------
(* Gasometer.                                                              *)

RoundedUp(size) == ((size + WordBytes - 1) \div WordBytes) * WordBytes

gas_for_mem(size) ==
  LET s == size \div WordBytes IN s * memory_gas + (s * s) \div 2^QuadShift

\* The gas of memory up to needed in all, that of what there is if it is enough.
memory_total_gas(needed) ==
  IF RoundedUp(needed) > Len(mem) THEN gas_for_mem(RoundedUp(needed)) ELSE mem_gas

\* Mutant of mem_needed: the size alone.
SizeNeeded(offset, size) == size

mem_needed(offset, size) == IF size = 0 THEN 0 ELSE offset + size

\* The unchecked product of the gas for the words to copy.
copied_gas(size) == (copy_gas * (RoundedUp(size) \div WordBytes)) % Usize

\* The memory after expand.
Expanded(needed) ==
  IF RoundedUp(needed) > Len(mem) THEN mem \o [i \in 1..(RoundedUp(needed) - Len(mem)) |-> 0] ELSE mem

-----------------------------------------------------------------------------
(* Memory.                                                                 *)

\* The bytes from offset on are in a memory of size n.
Within(offset, size, n) == low(offset) + low(size) <= n

\* is_valid_range: nothing is read or written for no size.
ValidRange(offset, size) == low(size) > 0 /\ low(offset) + low(size) < Usize
SliceWithin(offset, size, n) == ValidRange(offset, size) => Within(offset, size, n)

Written(m, offset, bytes) ==
  [i \in DOMAIN m |-> IF low(offset) < i /\ i <= low(offset) + Len(bytes)
                      THEN bytes[i - low(offset)] ELSE m[i]]

BytesOf(a) == [i \in 1..WordBytes |-> Byte(i - 1, a)]
WordAt(m, offset) == FoldLeft(LAMBDA acc, b : acc * ByteValues + b, 0,
                              SubSeq(m, low(offset) + 1, low(offset) + WordBytes))

-----------------------------------------------------------------------------
(* One turn of the loop of exec.                                           *)

\* The run is over: its stack, its memory and its gas are dropped.
Fail(error) == status' = error /\ stack' = <<>> /\ mem' = <<>> /\ gas' = 0 /\ mem_gas' = 0

\* verify_instruction: what is wrong with i here.
verify_instruction(i) ==
  IF Len(stack) < args(i) THEN "StackUnderflow"
  ELSE IF Len(stack) - args(i) + ret(i) > stack_limit THEN "OutOfStack"
  ELSE "ok"

\* What i costs: its step, what it asks for more, and the memory that is new.
requirements(i, more, needed) == step_gas(i) + more + memory_total_gas(needed) - mem_gas

\* Instruction i, for its step and more gas, with memory up to needed: the memory is
\* m and the stack pushed over what is left after it, back gas comes back, and sound
\* tells that no index was out of bounds.  Arguments are only used where i is valid.
Turn(i, more, needed, sound, m, pushed, back) ==
  LET cost == requirements(i, more, needed)
      error == verify_instruction(i)
  IN /\ i \in code
     /\ \/ error # "ok" /\ Fail(error)
        \/ error = "ok" /\ cost > gas /\ Fail("OutOfGas")
        \/ error = "ok" /\ cost <= gas /\ ~sound /\ Fail("panic")
        \/ /\ error = "ok" /\ cost <= gas /\ sound
           /\ mem' = m /\ stack' = pushed \o Popped(args(i))
           /\ gas' = gas - cost + back
           /\ mem_gas' = memory_total_gas(needed)
           /\ UNCHANGED status

\* The instructions of the stack, and the ones that push one word.
Plain(i, pushed) == Turn(i, 0, 0, TRUE, mem, pushed, 0)

StackStep ==
  \/ Plain("ADD", <<Add(peek(0), peek(1))>>)
  \/ Plain("SIGNEXTEND", <<Signextend(peek(0), peek(1))>>)
  \/ Plain("POP", <<>>)
  \/ Plain("DUP1", <<peek(0), peek(0)>>)
  \/ Plain("DUP2", <<peek(1), peek(0), peek(1)>>)
  \/ Plain("SWAP1", <<peek(1), peek(0)>>)
  \/ \E v \in PushValues : Plain("PUSH", <<v>>)

\* The instructions that push what is known of the run, its call, the block and the
\* accounts: a word that nothing here depends on, but for GAS and MSIZE.
EnvStep ==
  \/ Plain("MSIZE", <<Len(mem)>>)
  \/ Plain("GAS", <<gas - step_gas("GAS")>>)
  \/ Plain("ENV", <<1>>)

\* BadInstruction, DELEGATECALL among them (have_delegate_call is false).
Invalid == Fail("BadInstruction")

\* Past a jump any code may follow; a bad destination ends the run.
JumpStep ==
  \/ Plain("JUMP", <<>>)
  \/ Plain("JUMPI", <<>>)
  \/ /\ "JUMP" \in code /\ verify_instruction("JUMP") = "ok" /\ gas >= step_gas("JUMP")
     /\ Fail("BadJumpDestination")

\* Reads and writes of the account: what is there is open, and so is an error of the
\* database.  A key that is set costs more than one that is reset.
StorageStep ==
  \/ \E v \in {0, 1} : Plain("SLOAD", <<v>>)
  \/ \E more \in {0, 1} : Turn("SSTORE", more, 0, TRUE, mem, <<>>, 0)
  \/ Fail("Internal")

\* CALLDATALOAD: id is cut, big_id is not.
Loaded ==
  LET id == low(peek(0))
      max == low(id + WordBytes)
      bound == IF Len(Data) < max THEN Len(Data) ELSE max
  IN IF id < bound /\ peek(0) < Len(Data)
     THEN WordAt(SubSeq(Data, 1, bound) \o [i \in 1..WordBytes |-> 0], peek(0)) ELSE 0

MemoryStep ==
  \/ LET m == Expanded(mem_needed(peek(0), WordBytes))
     IN Turn("MLOAD", 0, mem_needed(peek(0), WordBytes), Within(peek(0), WordBytes, Len(m)), m,
             <<WordAt(m, peek(0))>>, 0)
  \/ LET m == Expanded(mem_needed(peek(0), WordBytes))
     IN Turn("MSTORE", 0, mem_needed(peek(0), WordBytes), Within(peek(0), WordBytes, Len(m)),
             Written(m, peek(0), BytesOf(peek(1))), <<>>, 0)
  \/ LET m == Expanded(mem_needed(peek(0), 1))
     IN Turn("MSTORE8", 0, mem_needed(peek(0), 1), Within(peek(0), 1, Len(m)),
             Written(m, peek(0), <<peek(1) % ByteValues>>), <<>>, 0)
  \/ \E i \in {"SHA3", "LOG0", "LOG1"} :
       LET m == Expanded(mem_needed(peek(0), peek(1)))
       IN Turn(i, IF i = "SHA3" THEN RoundedUp(peek(1)) \div WordBytes ELSE peek(1),
               mem_needed(peek(0), peek(1)), SliceWithin(peek(0), peek(1), Len(m)), m,
               IF i = "SHA3" THEN <<1>> ELSE <<>>, 0)
  \/ Plain("CALLDATALOAD", <<Loaded>>)

\* copy_data_to_memory, from offset in Data to dest in m, which is expanded: what
\* there is past the end of Data is made zero, then the rest is written.
ZeroFrom(dest, offset) == IF offset > Len(Data) THEN dest ELSE (dest + Len(Data) - offset) % Modulus
ZeroSize(offset, size) == IF offset > Len(Data) THEN size ELSE (offset + size - Len(Data)) % Modulus
PastEnd(offset, size) == offset > Len(Data) \/ size > Len(Data) \/ offset + size > Len(Data)

Zeroed(m, dest, offset, size) ==
  IF PastEnd(offset, size) /\ ValidRange(ZeroFrom(dest, offset), ZeroSize(offset, size))
  THEN Written(m, ZeroFrom(dest, offset), [i \in 1..low(ZeroSize(offset, size)) |-> 0]) ELSE m

Source(offset, size) ==
  IF offset < Len(Data)
  THEN SubSeq(Data, offset + 1, IF PastEnd(offset, size) THEN Len(Data) ELSE offset + size) ELSE <<>>

\* Mutant of copy_data_to_memory: what is past the end of Data is left as it was.
CopiedOnly(m, dest, offset, size) == Written(m, dest, Source(offset, size))

copy_data_to_memory(m, dest, offset, size) ==
  Written(Zeroed(m, dest, offset, size), dest, Source(offset, size))

CopySound(m, dest, offset, size) ==
  /\ PastEnd(offset, size) => SliceWithin(ZeroFrom(dest, offset), ZeroSize(offset, size), Len(m))
  /\ Source(offset, size) # <<>> => Within(dest, Len(Source(offset, size)), Len(m))

\* CODECOPY, CALLDATACOPY; EXTCODECOPY has the address first.
CopyStep ==
  \E i \in {"CODECOPY", "EXTCODECOPY"} :
    LET n == IF i = "EXTCODECOPY" THEN 1 ELSE 0
        m == Expanded(mem_needed(peek(n), peek(n + 2)))
    IN Turn(i, copied_gas(peek(n + 2)), mem_needed(peek(n), peek(n + 2)),
            CopySound(m, peek(n), peek(n + 1), peek(n + 2)),
            copy_data_to_memory(m, peek(n), peek(n + 1), peek(n + 2)), <<>>, 0)

-----------------------------------------------------------------------------
(* Calls.                                                                  *)

\* gas_provided to a creation: all that is left after cost.
Remaining(cost) == IF gas >= cost THEN gas - cost ELSE 0

\* A creation that cannot be (an endowment, as balances are 0, or the depth) gives
\* the gas back, one that is made some of it, one that failed nothing.
CreateStep ==
  LET needed == mem_needed(peek(1), peek(2))
      m == Expanded(needed)
      provided == Remaining(requirements("CREATE", 0, needed))
      Created(word, back) == Turn("CREATE", provided, needed, SliceWithin(peek(1), peek(2), Len(m)), m, <<word>>, back)
  IN \/ Created(0, provided)
     \/ /\ Len(stack) >= args("CREATE") /\ peek(0) = 0
        /\ Created(0, 0) \/ \E back \in {0, provided} : Created(1, back)

\* Mutant of value_gas: a value is passed on for nothing.
FreeValue(value) == 0

\* What the transfer of a value costs, more than the stipend that goes with it.
value_gas(value) == IF value THEN call_value_transfer_gas ELSE 0

\* The gas asked for is provided, and the stipend on top if there is a value.  That
\* call is not made, as balances are 0: it all comes back.
CallStep ==
  \E i \in {"CALL", "CALLCODE"}, new \in {0, call_new_account_gas} :
    LET input == mem_needed(peek(3), peek(4))
        output == mem_needed(peek(5), peek(6))
        needed == IF input > output THEN input ELSE output
        m == Expanded(needed)
        value == peek(2) # 0
        requested == peek(0)
        call_gas == requested + IF value THEN call_stipend ELSE 0
        sound == SliceWithin(peek(3), peek(4), Len(m)) /\ SliceWithin(peek(5), peek(6), Len(m))
        Answer(word, back) ==
          Turn(i, requested + new + value_gas(value), needed, sound, m, <<word>>, back)
    IN /\ i = "CALLCODE" => new = 0
       /\ \/ Answer(0, call_gas)
          \/ /\ Len(stack) >= args(i) /\ ~value
             /\ Answer(0, 0) \/ \E back \in {0, call_gas} : Answer(1, back)

-----------------------------------------------------------------------------
(* The end of a run.                                                       *)

\* The gas left is the result of a run that ends well.
Ended(left) == status' = "ok" /\ gas' = left /\ stack' = <<>> /\ mem' = <<>> /\ mem_gas' = 0

\* The end of the code, STOP and SUICIDE, and RETURN with the slice it returns.
Halt ==
  \/ Ended(gas)
  \/ /\ verify_instruction("SUICIDE") = "ok"
     /\ \E more \in {0, 1} : \/ gas >= more /\ Ended(gas - more)
                             \/ gas < more /\ Fail("OutOfGas")
  \/ LET needed == mem_needed(peek(0), peek(1))
         cost == memory_total_gas(needed) - mem_gas
     IN /\ verify_instruction("RETURN") = "ok"
        /\ \/ cost > gas /\ Fail("OutOfGas")
           \/ cost <= gas /\ SliceWithin(peek(0), peek(1), Len(Expanded(needed))) /\ Ended(gas - cost)
           \/ cost <= gas /\ ~SliceWithin(peek(0), peek(1), Len(Expanded(needed))) /\ Fail("panic")

InterpreterInit ==
  /\ \E r \in Runs : code = r.code /\ gas = r.gas
  /\ stack = <<>> /\ mem = <<>> /\ mem_gas = 0
  /\ status = "running"

InterpreterNext ==
  /\ status = "running" /\ UNCHANGED code
  /\ StackStep \/ EnvStep \/ Invalid \/ JumpStep \/ StorageStep \/ MemoryStep \/ CopyStep
     \/ CreateStep \/ CallStep \/ Halt

-----------------------------------------------------------------------------
(* Properties.                                                             *)

\* Whatever the code, with any offsets and sizes on the stack, no step indexes the
\* stack or the memory out of bounds (mem_needed covers what exec_instruction uses,
\* low_u64 included), and the memory is words that have been paid for.
NeverOutOfBounds ==
  /\ status # "panic"
  /\ Len(stack) <= stack_limit
  /\ Len(mem) % WordBytes = 0 /\ mem_gas = gas_for_mem(Len(mem))

\* Every turn that goes on has cost gas, whatever a call gave back: no code runs for
\* ever, and the gas of a run never grows.
GasGoesDown ==
  [][gas' <= gas /\ (status' = "running" => gas' < gas)]_interpreterVars

\* A copy puts the asked bytes of the source at the asked place, zeros for those
\* past its end, and changes no other byte of the memory (copy_data_to_memory).
CopyExact ==
  [][status' = "running" /\ Len(stack) - Len(stack') \in {3, 4} /\ CopyStep =>
       \E n \in {0, 1} :
         /\ Len(stack') = Len(stack) - 3 - n
         /\ \A j \in 0..(Len(mem') - 1) :
              mem'[j + 1] =
                IF peek(n) <= j /\ j < peek(n) + peek(n + 2)
                THEN LET k == peek(n + 1) + (j - peek(n)) IN IF k < Len(Data) THEN Data[k + 1] ELSE 0
                ELSE IF j < Len(mem) THEN mem[j + 1] ELSE 0]_interpreterVars
=============================================================================
