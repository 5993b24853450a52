----------------------------- MODULE LastHashes -----------------------------
(***************************************************************************)
(* The hashes of the last blocks that the executor keeps in `last_hashes`. *)
(* The main thread executes a block with a copy of them and adds the hash  *)
(* of a block it commits.  Calls read them as well, and replace them where *)
(* they start with another block: those that the other thread answers for  *)
(* clients (eth_call, for any block) and those of reload_config, by which  *)
(* the main thread reads the system contracts before a commit.             *)
(*                                                                         *)
(* The hash of a block is its height.  The hashes on disk never change, so *)
(* that a rebuilt list is written in the step that reads them.             *)
(***************************************************************************)
EXTENDS Integers, Sequences, SequencesExt

CONSTANTS
  Window,       \* 256
  MaxHeight,    \* bound on heights
  MaxCrashes    \* bound on restarts

VARIABLES
  current_header,   \* its height
  stored,           \* on disk: height of CurrentHash
  last_hashes,      \* the latest first
  main,             \* the main thread: pc, and the hashes of the block it executes
  caller,           \* the thread that answers calls: pc, and the block of the call
  crashes

hashesVars == <<current_header, stored, last_hashes, main, caller, crashes>>

NoHash == -1
MainIdle == [pc |-> "recv", last_hashes |-> <<>>]
CallerIdle == [pc |-> "recv", number |-> 0]

\* The list that build_last_hashes makes from the disk, up to the hash of the genesis.
Rebuilt(parent_height) ==
  [i \in 1..Window |-> IF parent_height < i - 1 THEN NoHash ELSE parent_height - (i - 1)]

\* The cache is for that block: it is used as it is.
Cached(parent_height) == last_hashes # <<>> /\ Head(last_hashes) = parent_height

\* Externalities::blockhash in a block of the given number.
blockhash(number, hashes, n) ==
  IF n < number /\ n >= (IF number > Window THEN number ELSE Window) - Window
  THEN hashes[number - n] ELSE NoHash

HashesInit ==
  /\ current_header = 0 /\ stored = 0 /\ last_hashes = Rebuilt(0)
  /\ main = MainIdle /\ caller = CallerIdle /\ crashes = 0

-----------------------------------------------------------------------------
(* The main thread.                                                        *)

MainAt(pc) == main' = [main EXCEPT !.pc = pc]

\* execute_block and execute_proposal.
MainExecute ==
  /\ main.pc = "recv" /\ current_header < MaxHeight
  /\ main' = [pc |-> "apply", last_hashes |-> last_hashes]
  /\ UNCHANGED <<current_header, stored, last_hashes, caller, crashes>>

\* It was interrupted, or another block is finalized instead of the proposal.
MainInterrupted ==
  /\ main.pc = "apply" /\ main' = MainIdle
  /\ UNCHANGED <<current_header, stored, last_hashes, caller, crashes>>

\* finalize_block, reload_config: one of the calls at the latest block, which is
\* still the parent.
MainCall ==
  /\ main.pc \in {"apply", "reloaded"}
  /\ MainAt(IF Cached(current_header) THEN "reloaded" ELSE "fill")
  /\ UNCHANGED <<current_header, stored, last_hashes, caller, crashes>>

MainFill ==
  /\ main.pc = "fill" /\ last_hashes' = Rebuilt(current_header) /\ MainAt("reloaded")
  /\ UNCHANGED <<current_header, stored, caller, crashes>>

write_batch ==
  /\ main.pc = "reloaded" /\ stored' = current_header + 1 /\ MainAt("written")
  /\ UNCHANGED <<current_header, last_hashes, caller, crashes>>

SetHeader ==
  /\ main.pc = "written" /\ current_header' = stored /\ MainAt("header")
  /\ UNCHANGED <<stored, last_hashes, caller, crashes>>

update_last_hashes ==
  /\ main.pc = "header" /\ main' = MainIdle
  /\ last_hashes' = <<current_header>> \o
       (IF Len(last_hashes) > Window - 1 THEN Front(last_hashes) ELSE last_hashes)
  /\ UNCHANGED <<current_header, stored, caller, crashes>>

-----------------------------------------------------------------------------
(* The thread that takes messages: eth_call.                               *)

\* block_header: the block the call is for, the latest or one on disk.
CallHeader(number) ==
  /\ caller.pc = "recv" /\ number <= stored
  /\ caller' = [pc |-> "check", number |-> number]
  /\ UNCHANGED <<current_header, stored, last_hashes, main, crashes>>

CallCheck ==
  /\ caller.pc = "check"
  /\ caller' = IF Cached(caller.number) THEN CallerIdle ELSE [caller EXCEPT !.pc = "fill"]
  /\ UNCHANGED <<current_header, stored, last_hashes, main, crashes>>

CallFill ==
  /\ caller.pc = "fill" /\ last_hashes' = Rebuilt(caller.number) /\ caller' = CallerIdle
  /\ UNCHANGED <<current_header, stored, main, crashes>>

-----------------------------------------------------------------------------
init_executor ==
  /\ crashes < MaxCrashes /\ crashes' = crashes + 1
  /\ current_header' = stored /\ last_hashes' = Rebuilt(stored)
  /\ main' = MainIdle /\ caller' = CallerIdle
  /\ UNCHANGED stored

MainNext ==
  \/ MainExecute \/ MainInterrupted \/ MainCall \/ MainFill
  \/ write_batch \/ SetHeader \/ update_last_hashes

\* Calls for any block.
eth_call == (\E number \in 0..MaxHeight : CallHeader(number)) \/ CallCheck \/ CallFill

HashesSpec == HashesInit /\ [][MainNext \/ eth_call \/ init_executor]_hashesVars

-----------------------------------------------------------------------------
(* Properties.                                                             *)

\* EnvInfo, "The last 256 block hashes": the BLOCKHASH instruction gives a block that is
\* executed the hashes of the blocks before it, on every node the same.
BlockhashRight ==
  main.pc = "apply" =>
    \A n \in 0..current_header :
      blockhash(current_header + 1, main.last_hashes, n) \in
        {n} \cup (IF n < current_header + 1 - Window THEN {NoHash} ELSE {})
=============================================================================
