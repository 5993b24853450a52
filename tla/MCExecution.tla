----------------------------- MODULE MCExecution -----------------------------
(***************************************************************************)
(* Instances for TLC of the parts of the executor: the service (Executor), *)
(* and what it runs a block with, from the transactions of the block down  *)
(* to words and storage keys.  A part takes those below it by what they    *)
(* promise: Executive has the map of accounts that State implements and    *)
(* leaves the code open that Interpreter runs.  So each has the variables  *)
(* it needs for itself, and a behaviour is one of the part that is chosen  *)
(* at the start, with the others as they were.                             *)
(***************************************************************************)
EXTENDS MCExecutor, FiniteSets

CONSTANT Parts   \* some of MCParts

MCParts == {"service", "state", "transactions", "interpreter", "jumps", "words", "native", "privacy"}

VARIABLES
  part,
  trie, codes, cache, checkpoints, call,                        \* State
  accounts, saved, frames, tx, opened, failed, applied,
  receipts, traces, current_gas_used, account_gas, block_stage, \* Executive
  code, stack, mem, gas, mem_gas, status,                       \* Interpreter
  running, pc, destinations, jump_destinations,                 \* SharedCache
  operands,                                                     \* Words
  storage, kept, writes,                                        \* NativeStorage
  balances, last_spent, coins, nullifier_set, tree, number,
  value, proofs, issued                                         \* ZkPrivacy

stateVars == <<trie, codes, cache, checkpoints, call>>
execVars == <<accounts, saved, frames, tx, opened, failed, applied,
              receipts, traces, current_gas_used, account_gas, block_stage>>
interpreterVars == <<code, stack, mem, gas, mem_gas, status>>
cacheVars == <<running, pc, destinations, jump_destinations>>
storageVars == <<storage, kept, writes>>
zkVars == <<balances, last_spent, coins, nullifier_set, tree, number, value, proofs, issued>>

-----------------------------------------------------------------------------
(* One address and one key: what can go wrong is between the copies of an  *)
(* account in the trie, the cache and the checkpoints.                     *)

S == INSTANCE State
  WITH Keys <- {"k"}, Addresses <- {"a"}, Values <- {0, 1}, Codes <- {"c"},
       MaxNonce <- 1, MaxCheckpoints <- 2

\* A creator, a sender that may not create, a contract and a native contract; the
\* second transaction may not fit in the block or in what its sender has left.
Creator == <<"s">>
Sender == <<"t">>
Contract == <<"c">>
Native == <<"n">>
MCTx(sender, action, to, limit) ==
  [sender |-> sender, action |-> action, to |-> to, gas |-> limit, nonce |-> 0]

X == INSTANCE Executive
  WITH Keys <- {"k"}, stage <- block_stage,
       Genesis <- Contract :> [nonce |-> 0, storage |-> [k \in {"k"} |-> 0], code |-> "code"],
       Txs <- {MCTx(Creator, "call", Contract, 4), MCTx(Creator, "create", <<>>, 5),
               MCTx(Creator, "store", <<>>, 3), MCTx(Sender, "call", Native, 5),
               MCTx(Sender, "create", <<>>, 5)},
       MaxTxs <- 2, check_permission <- TRUE, check_quota <- TRUE, ZeroSender <- <<"0">>,
       senders <- {Sender}, creators <- {Creator}, Natives <- {Native},
       GasLimit <- 9, AccountGasLimit <- 8, BaseGas <- 1, NativeCost <- 2, CodeCost <- 2,
       RefundGas <- 1, max_depth <- 2, CheckEvery <- 2, MaxFrames <- 3

\* Words of six bits, over machine integers of four.  With gas 5 the instructions of the
\* stack and the account, with gas 6 those of the memory, with gas 10 those that a call
\* with its seven words needs, with gas 12 a copy over bytes that are not zero.
I == INSTANCE Interpreter
  WITH WordBytes <- 2, ByteBits <- 3, Shifts <- {0, 1}, Usize <- 16,
       Runs <- {[gas |-> 5, code |-> {"STOP", "ADD", "SIGNEXTEND", "ENV", "CALLDATALOAD", "POP",
                                      "SLOAD", "SSTORE", "JUMP", "JUMPI", "GAS", "PUSH", "DUP1",
                                      "DUP2", "SWAP1"}],
                [gas |-> 6, code |-> {"SHA3", "CODECOPY", "EXTCODECOPY", "MLOAD", "MSTORE",
                                      "MSTORE8", "MSIZE", "PUSH", "DUP1", "LOG0", "LOG1",
                                      "CREATE"}],
                [gas |-> 10, code |-> {"PUSH", "DUP1", "MSTORE", "CALL", "CALLCODE"}],
                [gas |-> 12, code |-> {"PUSH", "MSTORE8", "CODECOPY"}]},
       PushValues <- {0, 3, 63}, Data <- <<5, 6>>, stack_limit <- 7,
       memory_gas <- 1, QuadShift <- 2, copy_gas <- 1,
       call_value_transfer_gas <- 2, call_stipend <- 1, call_new_account_gas <- 1

\* 1 and 2 are JUMPDEST and JUMP, 3 and 4 push one and two bytes.
C == INSTANCE SharedCache
  WITH Codes <- {<<1, 2>>, <<3, 1, 1, 2>>, <<2, 4, 1, 1, 1>>, <<3, 3, 1, 2>>},
       PushBytes <- <<0, 0, 1, 2>>, CacheSize <- 2, code <- running

\* All pairs of words of two bytes of two bits.
W == INSTANCE Words WITH WordBytes <- 2, ByteBits <- 2, Shifts <- {0, 1, 3}

\* Words of three bytes; values that are short, that fill a word, and longer ones.
N == INSTANCE NativeStorage
  WITH WordLen <- 3, MaxWrites <- 3,
       Places <- {[kind |-> "scalar", position |-> 0, at |-> 0],
                  [kind |-> "array", position |-> 1, at |-> 0],
                  [kind |-> "array", position |-> 1, at |-> 1],
                  [kind |-> "map", position |-> 2, at |-> 0],
                  [kind |-> "map", position |-> 2, at |-> 1]},
       ValueBytes <- {<<>>, <<7>>, <<5, 6>>, <<1, 2, 3>>, <<8, 9, 8, 9>>, <<1, 2, 3, 4, 5, 6, 7>>}

Z == INSTANCE ZkPrivacy
  WITH Users <- {"u", "v"}, Coins <- {"c", "d"}, Amounts <- {1, 2}, MaxBlock <- 3

-----------------------------------------------------------------------------
ExecutionInit ==
  /\ part \in Parts
  /\ Init /\ S!StateInit /\ X!ExecInit /\ C!CacheInit /\ N!StorageInit /\ Z!ZkInit
  /\ I!InterpreterInit
  /\ part # "interpreter" => gas = 6
  /\ operands \in [a : W!WordSet, b : W!WordSet, n : {0, 1}]
  /\ part # "words" => operands = [a |-> 0, b |-> 0, n |-> 0]

Service ==
  /\ part = "service" /\ Next
  /\ UNCHANGED <<part, operands, stateVars, execVars, interpreterVars, cacheVars,
                 storageVars, zkVars>>

StateCalls ==
  /\ part = "state" /\ S!StateNext
  /\ UNCHANGED <<part, operands, vars, execVars, interpreterVars, cacheVars,
                 storageVars, zkVars>>

Transactions ==
  /\ part = "transactions" /\ X!ExecNext
  /\ UNCHANGED <<part, operands, vars, stateVars, interpreterVars, cacheVars,
                 storageVars, zkVars>>

Instructions ==
  /\ part = "interpreter" /\ I!InterpreterNext
  /\ UNCHANGED <<part, operands, vars, stateVars, execVars, cacheVars,
                 storageVars, zkVars>>

Jumps ==
  /\ part = "jumps" /\ C!CacheNext
  /\ UNCHANGED <<part, operands, vars, stateVars, execVars, interpreterVars,
                 storageVars, zkVars>>

NativeWrites ==
  /\ part = "native" /\ N!StorageNext
  /\ UNCHANGED <<part, operands, vars, stateVars, execVars, interpreterVars, cacheVars,
                 zkVars>>

Privacy ==
  /\ part = "privacy" /\ Z!ZkNext
  /\ UNCHANGED <<part, operands, vars, stateVars, execVars, interpreterVars, cacheVars,
                 storageVars>>

ExecutionNext ==
  \/ Service \/ StateCalls \/ Transactions \/ Instructions \/ Jumps \/ NativeWrites \/ Privacy

executionVars ==
  <<part, operands, vars, stateVars, execVars, interpreterVars, cacheVars,
    storageVars, zkVars>>

\* No operation reads the last call of State: states that differ in it alone have the same
\* steps, of which every one is checked with the call it makes.
ExecutionView ==
  <<part, operands, vars, trie, codes, cache, checkpoints, execVars, interpreterVars,
    cacheVars, storageVars, zkVars>>

ExecutionSpec == ExecutionInit /\ [][ExecutionNext]_executionVars

\* The fairness of Executor!FairSpec: both threads loop for ever.
ExecutionFairSpec ==
  /\ ExecutionSpec
  /\ WF_vars(part = "service" /\ Distribute) /\ WF_vars(part = "service" /\ Main)

-----------------------------------------------------------------------------
(* Properties: those of the parts, and those of Executor.                  *)

\* The caches of State and its checkpoints, which hold only the replaced entries,
\* are not seen: every operation, in every order, makes of the accounts what it makes
\* of a map of them with whole copies saved, and every read returns what is in that
\* map (State!StateImplements).
StateImplements ==
  /\ S!Abstract!Init
  /\ [][part = "state" => S!Abstract!Next \/ UNCHANGED S!Abstract!vars]_stateVars

\* Nothing is left of a call or creation that an exception ended, nor of those made
\* in it that had ended well (checkpoint, enact_result and accrue).
FailedLeavesNothing == part = "transactions" => X!FailedLeavesNothing

\* Frames, transactions and senders use no more gas than they were given
\* (transact_with_tracer, finalize, apply_transaction).
GasWithinLimits == part = "transactions" => X!GasWithinLimits

\* The traces of a transaction are a tree in preorder (ExecutiveTracer).
TraceTree == part = "transactions" => X!TraceTree

\* A contract is only made at an address without an account (contract_address and
\* inc_nonce in Executive::create).
CreateIsFresh == X!CreateIsFresh

\* No step indexes the stack or the memory out of bounds, and the memory is paid for
\* (Gasometer::requirements, mem_needed, Memory).
NeverOutOfBounds == part = "interpreter" => I!NeverOutOfBounds

\* Every turn of the loop of exec that goes on has cost gas, and a copy writes what was
\* asked for and changes nothing else (exec, copy_data_to_memory).
TurnsSound == I!GasGoesDown /\ I!CopyExact

\* The data of a PUSH is never taken for an instruction (find_jump_destinations,
\* SharedCache and verify_jump).
NeverInData == part = "jumps" => C!NeverInData

\* The instructions on words are what the integers they stand for make of them
\* (exec_stack_instruction): signed division and comparison, bytes, sign extension.
WordsAgree ==
  part = "words" => /\ W!SignedAgree(operands.a, operands.b)
                    /\ W!BytesAgree(operands.n, operands.a)
                    /\ W!DivisionAgrees(operands.a, operands.b)

\* A variable of a native contract reads back what was last written there (Scalar,
\* Array and Map).
ReadsBack == part = "native" => N!ReadsBack

\* Sending and receiving keep what there is, and no coin is received twice
\* (send_verify, receive_verify).
Conserved == part = "privacy" => Z!Conserved
=============================================================================
