------------------------------ MODULE Executor ------------------------------
(***************************************************************************)
(* The executor service of a CITA node: a distributor thread (d) takes     *)
(* proposals, consensus blocks and sync responses from the message queue   *)
(* and files them in block_map; the main thread (m) takes heights from the *)
(* write channel (queue) and executes what block_map holds for them.  The  *)
(* two share current_header, max_height, block_map, stage, is_interrupted  *)
(* and is_sync, each behind a lock or an atomic of its own, so that every  *)
(* access is a step here.                                                  *)
(*                                                                         *)
(* A block is its height and its transactions root; a header is a height   *)
(* and a hash, and a hash is the sequence of the roots executed to reach   *)
(* it.  Execution is the number of times apply_transactions consults       *)
(* is_interrupted (Checks).                                                *)
(***************************************************************************)
EXTENDS Integers, Sequences

CONSTANTS
  Roots,        \* transactions roots that blocks and proposals may carry
  MaxHeight,    \* heights are 1..MaxHeight
  Decided,      \* Decided[h] is the root that consensus agreed on at height h
  ProposalRoots,\* the roots that proposals carry
  Proofs,       \* the quality of the proofs in sync responses
  Checks,       \* Checks[r]: how often executing r reads is_interrupted
  Copies,       \* how often consensus delivers its block of one height
  MaxMsgs,      \* bound on the messages the distributor takes
  MaxCrashes    \* bound on the crashes of the process

Heights == 1..MaxHeight
NoRoot == "none"

ASSUME ExecutorAssumption ==
  /\ MaxHeight \in Nat \ {0}
  /\ NoRoot \notin Roots
  /\ Decided \in [Heights -> Roots]
  /\ ProposalRoots \subseteq Roots
  /\ Proofs \subseteq {"good", "bad"}
  /\ Checks \in [Roots -> Nat]
  /\ Copies \in Nat
  /\ MaxMsgs \in Nat
  /\ MaxCrashes \in Nat

VARIABLES
  current_header, \* header of the last block committed, in memory
  persisted,      \* the header that CurrentHash names in the state database
  result,         \* header of the executed_result last sent to the chain service
  max_height,     \* max height in block_map
  block_map,      \* height -> BlockInQueue
  stage,
  is_interrupted,
  is_sync,
  queue,          \* the write channel: heights for the main thread
  closed_block,   \* the main thread's copy of closed_block
  m,              \* the main thread: pc and locals of execute_block
  d,              \* the distributor: pc and locals of distribute_msg
  sync_map,       \* the clone of block_map that sync_blocks works on
  decided,        \* history: heights whose decision reached the distributor
  copies,         \* history: consensus blocks delivered per height
  msgs,           \* history: messages taken so far
  crashes         \* history: crashes so far

shared == <<current_header, persisted, result, max_height, block_map, stage,
            is_interrupted, is_sync, queue>>
history == <<decided, copies, msgs, crashes>>
vars == <<shared, closed_block, m, d, sync_map, history>>

NoEntry == [kind |-> "None", root |-> NoRoot, proof |-> "none"]
Entry == [kind : {"Proposal", "Consensus", "Sync"}, root : Roots,
          proof : {"none", "good", "bad"}] \cup {NoEntry}
EmptyMap == [h \in Heights |-> NoEntry]

Header == [number : Nat, hash : Seq(Roots)]
Genesis == [number |-> 0, hash |-> <<>>]

Stages == {"ExecutingBlock", "ExecutingProposal", "WaitFinalized", "Idle"}

\* A ClosedBlock: the block executed, and the hash of the state it ran on.
NoBlock == [number |-> 0, root |-> NoRoot, base |-> <<>>]
Closed == [number : Nat, root : Roots, base : Seq(Roots)] \cup {NoBlock}

MainPC == {"Recv", "ReadStage", "Consensus", "Start", "Apply", "Publish",
           "Write", "Commit", "Finish", "Clean", "Sync", "SyncFlag", "SyncClone",
           "SyncLoop", "SyncEnd", "Proposal", "StartProposal", "Executed",
           "Reread", "Wait", "EndProposal"}
MainIdle == [pc |-> "Recv", number |-> 0, entry |-> NoEntry, stage |-> "Idle",
             mode |-> "block", checks |-> 0, block |-> NoBlock]

SyncBlock == [number : Heights, last : BOOLEAN, sound : BOOLEAN,
              proof : {"good", "bad"}]
DistIdle == [pc |-> "Recv", kind |-> "Proposal", number |-> 1, root |-> NoRoot,
             entry |-> NoEntry, stage |-> "Idle", rest |-> <<>>]

Init ==
  /\ current_header = Genesis
  /\ persisted = Genesis
  /\ result = Genesis
  /\ max_height = 0
  /\ block_map = EmptyMap
  /\ stage = "Idle"
  /\ is_interrupted = FALSE
  /\ is_sync = FALSE
  /\ queue = <<>>
  /\ closed_block = NoBlock
  /\ m = MainIdle
  /\ d = DistIdle
  /\ sync_map = EmptyMap
  /\ decided = {}
  /\ copies = [h \in Heights |-> 0]
  /\ msgs = 0
  /\ crashes = 0

-----------------------------------------------------------------------------
(* Checks that both threads make against current_header.                   *)

\* The parent hash that every block of height h carries.
ParentHash(h) == [i \in 1..(h - 1) |-> Decided[i]]

validate_height(h) == current_header.number + 1 = h
validate_hash(h) == current_header.hash = ParentHash(h)
\* Mutant: blocks are checked for being new, not for extending the chain.
ValidatesNew(h) == h <= current_header.number + 1

validates(h) == validate_height(h) /\ validate_hash(h)
is_dup_block(h) == h <= current_header.number

-----------------------------------------------------------------------------
(* The distributor thread.                                                 *)

TakeMsg == d.pc = "Recv" /\ msgs < MaxMsgs /\ msgs' = msgs + 1

\* A consensus block for h: it exists once the result of h - 1 was published.
RecvConsensus(h) ==
  /\ TakeMsg
  /\ h <= result.number + 1
  /\ copies[h] < Copies
  /\ copies' = [copies EXCEPT ![h] = @ + 1]
  /\ decided' = decided \cup {h}
  /\ d' = IF is_dup_block(h) THEN DistIdle
          ELSE [DistIdle EXCEPT !.pc = "ReadStage", !.kind = "Consensus",
                  !.number = h, !.root = Decided[h], !.entry = block_map[h]]
  /\ UNCHANGED <<shared, closed_block, m, sync_map, crashes>>

\* A signed proposal of some round of height h, dropped during a sync.
RecvProposal(h, r) ==
  /\ TakeMsg
  /\ h <= result.number + 1
  /\ d' = IF is_sync THEN DistIdle
          ELSE [DistIdle EXCEPT !.pc = "ReadStage", !.kind = "Proposal",
                  !.number = h, !.root = r, !.entry = block_map[h]]
  /\ UNCHANGED <<shared, closed_block, m, sync_map, decided, copies, crashes>>

DistReadStage ==
  /\ d.pc = "ReadStage"
  /\ d' = [d EXCEPT !.pc = "Decide", !.stage = stage]
  /\ UNCHANGED <<shared, closed_block, m, sync_map, history>>

Differs == d.entry.root # d.root

\* What consensus_block_enqueue does next, from the stage and entry it read.
consensus_block_enqueue ==
  CASE d.stage \in {"ExecutingProposal", "WaitFinalized"} ->
         IF d.entry.kind # "Proposal" THEN "Recv"
         ELSE IF Differs THEN "LoadFlag" ELSE "Insert"
    [] d.stage = "Idle" -> "Insert"
    [] d.stage = "ExecutingBlock" -> "Recv"

\* What proposal_enqueue does next.
proposal_enqueue ==
  CASE d.stage = "ExecutingProposal" ->
         IF d.entry.kind = "Proposal" /\ Differs THEN "LoadFlag" ELSE "Recv"
    [] d.stage = "WaitFinalized" ->
         IF d.entry.kind = "Proposal" /\ Differs THEN "Insert" ELSE "Recv"
    [] d.stage = "Idle" -> "Insert"
    [] d.stage = "ExecutingBlock" -> "Recv"

DistDecide ==
  /\ d.pc = "Decide"
  /\ d' = [d EXCEPT !.pc =
             IF ~validates(d.number) THEN "Recv"
             ELSE IF d.kind = "Consensus" THEN consensus_block_enqueue
             ELSE proposal_enqueue]
  /\ UNCHANGED <<shared, closed_block, m, sync_map, history>>

DistLoadFlag ==
  /\ d.pc = "LoadFlag"
  /\ d' = [d EXCEPT !.pc = IF is_interrupted THEN "Insert" ELSE "SetFlag"]
  /\ UNCHANGED <<shared, closed_block, m, sync_map, history>>

DistSetFlag ==
  /\ d.pc = "SetFlag"
  /\ is_interrupted' = TRUE
  /\ d' = [d EXCEPT !.pc = "Insert"]
  /\ UNCHANGED <<current_header, persisted, result, max_height, block_map, stage,
                 is_sync, queue, closed_block, m, sync_map, history>>

\* First half of send_block and send_proposal.
DistInsert ==
  /\ d.pc = "Insert"
  /\ block_map' = [block_map EXCEPT ![d.number] =
                     [kind |-> d.kind, root |-> d.root, proof |-> "none"]]
  /\ d' = [d EXCEPT !.pc = "Send"]
  /\ UNCHANGED <<current_header, persisted, result, max_height, stage,
                 is_interrupted, is_sync, queue, closed_block, m, sync_map, history>>

\* Second half: only send_block moves max_height.
DistSend ==
  /\ d.pc = "Send"
  /\ max_height' = IF d.kind = "Consensus" THEN d.number ELSE max_height
  /\ queue' = Append(queue, d.number)
  /\ d' = [d EXCEPT !.pc = "Recv"]
  /\ UNCHANGED <<current_header, persisted, result, block_map, stage,
                 is_interrupted, is_sync, closed_block, m, sync_map, history>>

\* A sync response with the blocks a..b and, if last, the extra block of height
\* u64::MAX that carries the proof of b.  proof is the quality of the proofs.
RecvSync(a, b, last, sound, proof) ==
  /\ TakeMsg
  /\ a <= b
  /\ LET blk(h) == [number |-> h, last |-> FALSE, sound |-> sound, proof |-> proof]
         tail == [number |-> b, last |-> TRUE, sound |-> TRUE, proof |-> proof]
         body == [i \in 1..(b - a + 1) |-> blk(a + i - 1)]
     IN d' = [DistIdle EXCEPT !.pc = "SyncAdd", !.kind = "Sync",
                !.rest = IF last THEN Append(body, tail) ELSE body]
  /\ UNCHANGED <<shared, closed_block, m, sync_map, decided, copies, crashes>>

\* The proof that b brings for the sync block of height h, if that has none.
SetProof(map, h, b) ==
  IF h \in Heights /\ map[h].kind = "Sync" /\ map[h].proof = "none"
  THEN [map EXCEPT ![h].proof = b.proof] ELSE map

\* add_sync_block: the new block_map and max_height.
add_sync_block(b) ==
  IF b.last
  THEN /\ block_map' = IF b.number > current_header.number
                       THEN SetProof(block_map, b.number, b) ELSE block_map
       /\ UNCHANGED max_height
  ELSE IF b.number - 1 = max_height
  THEN /\ block_map' = [SetProof(block_map, b.number - 1, b) EXCEPT ![b.number] =
                          [kind |-> "Sync", root |-> Decided[b.number], proof |-> "none"]]
       /\ max_height' = b.number
  ELSE UNCHANGED <<block_map, max_height>>

\* One iteration of the loop of deal_sync_blocks.  A good proof of the block
\* before b, or of b itself if b is the last one, is a decision that arrives.
DistSyncAdd ==
  /\ d.pc = "SyncAdd"
  /\ d.rest # <<>>
  /\ LET b == Head(d.rest)
         proves == IF b.last THEN b.number ELSE b.number - 1
     IN /\ decided' = IF b.proof = "good" /\ proves \in Heights
                      THEN decided \cup {proves} ELSE decided
        /\ IF ~b.last /\ b.number < max_height
           THEN /\ d' = [d EXCEPT !.rest = Tail(@)]
                /\ UNCHANGED <<block_map, max_height>>
           ELSE IF ~b.last /\ ~b.sound
           THEN /\ d' = [d EXCEPT !.rest = <<>>]
                /\ UNCHANGED <<block_map, max_height>>
           ELSE IF ~b.last /\ is_dup_block(b.number)
           THEN /\ d' = DistIdle
                /\ UNCHANGED <<block_map, max_height>>
           ELSE /\ add_sync_block(b)
                /\ d' = [d EXCEPT !.rest = Tail(@)]
  /\ UNCHANGED <<current_header, persisted, result, stage, is_interrupted, is_sync,
                 queue, closed_block, m, sync_map, copies, msgs, crashes>>

\* Mutant: the two threads share one closed_block.
DistSyncSendShared ==
  /\ d.pc = "SyncAdd"
  /\ d.rest = <<>>
  /\ queue' = IF is_sync THEN queue ELSE Append(queue, current_header.number + 1)
  /\ closed_block' = IF is_sync THEN closed_block ELSE NoBlock
  /\ d' = DistIdle
  /\ UNCHANGED <<current_header, persisted, result, max_height, block_map, stage,
                 is_interrupted, is_sync, m, sync_map, history>>

\* The end of deal_sync_blocks.  Its closed_block.replace(None) clears the
\* distributor's own copy of closed_block, which nothing reads.
DistSyncSend ==
  /\ d.pc = "SyncAdd"
  /\ d.rest = <<>>
  /\ queue' = IF is_sync THEN queue ELSE Append(queue, current_header.number + 1)
  /\ d' = DistIdle
  /\ UNCHANGED <<current_header, persisted, result, max_height, block_map, stage,
                 is_interrupted, is_sync, closed_block, m, sync_map, history>>

-----------------------------------------------------------------------------
(* The main thread: execute_block(number).                                 *)

EntryAt(map, h) == IF h \in Heights THEN map[h] ELSE NoEntry

MainRecv ==
  /\ m.pc = "Recv"
  /\ queue # <<>>
  /\ queue' = Tail(queue)
  /\ m' = [MainIdle EXCEPT !.pc = "ReadStage", !.number = Head(queue),
             !.entry = EntryAt(block_map, Head(queue))]
  /\ UNCHANGED <<current_header, persisted, result, max_height, block_map, stage,
                 is_interrupted, is_sync, closed_block, d, sync_map, history>>

\* recv_timeout expired: the last executed_result is sent to the chain again.
MainTimeout ==
  /\ m.pc = "Recv"
  /\ queue = <<>>
  /\ UNCHANGED vars

MainReadStage ==
  /\ m.pc = "ReadStage"
  /\ m' = [m EXCEPT !.stage = stage, !.pc =
             CASE m.entry.kind = "Consensus" -> "Consensus"
               [] m.entry.kind = "Sync" /\ m.entry.proof # "none" -> "Sync"
               [] m.entry.kind = "Proposal" -> "Proposal"
               [] OTHER -> "Recv"]
  /\ UNCHANGED <<shared, closed_block, d, sync_map, history>>

\* The ConsensusBlock branch up to the write of the stage.
MainConsensus ==
  /\ m.pc = "Consensus"
  /\ IF ~validates(m.number)
     THEN /\ m' = [m EXCEPT !.pc = "Recv"]
          /\ UNCHANGED <<is_interrupted, closed_block>>
     ELSE IF is_interrupted
     THEN /\ is_interrupted' = FALSE
          /\ m' = [m EXCEPT !.pc = "Start", !.mode = "block"]
          /\ UNCHANGED closed_block
     ELSE /\ UNCHANGED is_interrupted
          /\ CASE m.stage = "WaitFinalized" ->
                    /\ closed_block' = NoBlock
                    /\ m' = [m EXCEPT !.pc = "Start", !.block = closed_block,
                               !.mode = IF closed_block = NoBlock THEN "block"
                                        ELSE "finalize"]
               [] m.stage = "Idle" ->
                    /\ m' = [m EXCEPT !.pc = "Start", !.mode = "block"]
                    /\ UNCHANGED closed_block
               [] OTHER ->
                    /\ m' = [m EXCEPT !.pc = "Finish"]
                    /\ UNCHANGED closed_block
  /\ UNCHANGED <<current_header, persisted, result, max_height, block_map, stage,
                 is_sync, queue, d, sync_map, history>>

\* stage := ExecutingBlock, then finalize_proposal or execute_block.
MainStart ==
  /\ m.pc = "Start"
  /\ stage' = "ExecutingBlock"
  /\ m' = IF m.mode = "finalize" THEN [m EXCEPT !.pc = "Publish"]
          ELSE [m EXCEPT !.pc = "Apply", !.checks = Checks[m.entry.root]]
  /\ UNCHANGED <<current_header, persisted, result, max_height, block_map,
                 is_interrupted, is_sync, queue, closed_block, d, sync_map, history>>

\* Where the callers of execute_block and execute_proposal go on: sync_blocks
\* with the next height, the Proposal branch at pc, the ConsensusBlock branch
\* with its end.
Resume(pc) ==
  IF m.mode = "sync" THEN [m EXCEPT !.pc = "SyncLoop", !.number = m.number + 1]
  ELSE [m EXCEPT !.pc = IF m.mode = "proposal" THEN pc ELSE "Finish"]

\* apply_transactions up to its next look at is_interrupted, or to its end.
\* An interrupt ends the execution; set_sync_block takes that for success.
apply_transactions ==
  /\ m.pc = "Apply"
  /\ m' = IF m.checks = 0
          THEN [m EXCEPT !.pc = IF m.mode = "proposal" THEN "Executed" ELSE "Publish",
                  !.block = [number |-> m.number, root |-> m.entry.root,
                             base |-> current_header.hash]]
          ELSE IF is_interrupted THEN Resume("Recv")
          ELSE [m EXCEPT !.checks = m.checks - 1]
  /\ UNCHANGED <<shared, closed_block, d, sync_map, history>>

\* finalize_block: the result goes to the chain, then to the database, and
\* only then becomes the current header.
FinalHeader == [number |-> m.block.number, hash |-> Append(m.block.base, m.block.root)]

send_executed_info_to_chain ==
  /\ m.pc = "Publish"
  /\ result' = FinalHeader
  /\ m' = [m EXCEPT !.pc = "Write"]
  /\ UNCHANGED <<current_header, persisted, max_height, block_map, stage,
                 is_interrupted, is_sync, queue, closed_block, d, sync_map, history>>

write_batch ==
  /\ m.pc = "Write"
  /\ persisted' = FinalHeader
  /\ m' = [m EXCEPT !.pc = "Commit"]
  /\ UNCHANGED <<current_header, result, max_height, block_map, stage,
                 is_interrupted, is_sync, queue, closed_block, d, sync_map, history>>

MainCommit ==
  /\ m.pc = "Commit"
  /\ current_header' = FinalHeader
  /\ m' = Resume("EndProposal")
  /\ UNCHANGED <<persisted, result, max_height, block_map, stage,
                 is_interrupted, is_sync, queue, closed_block, d, sync_map, history>>

\* stage := Idle; the Proposal branch does not clean the map.
MainFinish ==
  /\ m.pc \in {"Finish", "EndProposal"}
  /\ stage' = "Idle"
  /\ m' = [m EXCEPT !.pc = IF m.pc = "Finish" THEN "Clean" ELSE "Recv"]
  /\ UNCHANGED <<current_header, persisted, result, max_height, block_map,
                 is_interrupted, is_sync, queue, closed_block, d, sync_map, history>>

\* Mutant: the next height is split off too.
SplitOffNext(map, h) == [i \in Heights |-> IF i <= h + 1 THEN NoEntry ELSE map[i]]

split_off(map, h) == [i \in Heights |-> IF i < h THEN NoEntry ELSE map[i]]

MainClean ==
  /\ m.pc = "Clean"
  /\ block_map' = split_off(block_map, current_header.number)
  /\ m' = [m EXCEPT !.pc = "Recv"]
  /\ UNCHANGED <<current_header, persisted, result, max_height, stage,
                 is_interrupted, is_sync, queue, closed_block, d, sync_map, history>>

-----------------------------------------------------------------------------
(* The SyncBlock branch and sync_blocks.                                   *)

MainSync ==
  /\ m.pc = "Sync"
  /\ IF validate_height(m.number)
     THEN stage' = "ExecutingBlock" /\ m' = [m EXCEPT !.pc = "SyncFlag"]
     ELSE UNCHANGED stage /\ m' = [m EXCEPT !.pc = "Recv"]
  /\ UNCHANGED <<current_header, persisted, result, max_height, block_map,
                 is_interrupted, is_sync, queue, closed_block, d, sync_map, history>>

MainSyncFlag ==
  /\ m.pc \in {"SyncFlag", "SyncEnd"}
  /\ is_sync' = (m.pc = "SyncFlag")
  /\ m' = [m EXCEPT !.pc = IF m.pc = "SyncFlag" THEN "SyncClone" ELSE "Finish"]
  /\ UNCHANGED <<current_header, persisted, result, max_height, block_map, stage,
                 is_interrupted, queue, closed_block, d, sync_map, history>>

MainSyncClone ==
  /\ m.pc = "SyncClone"
  /\ sync_map' = block_map
  /\ m' = [m EXCEPT !.pc = "SyncLoop"]
  /\ UNCHANGED <<shared, closed_block, d, history>>

\* One turn of the loop of sync_blocks, up to the execution in set_sync_block.
\* An invalid block clears block_map; max_height stays.
MainSyncLoop ==
  /\ m.pc = "SyncLoop"
  /\ LET e == EntryAt(sync_map, m.number)
     IN IF ~(e.kind = "Sync" /\ e.proof # "none")
        THEN /\ m' = [m EXCEPT !.pc = "SyncEnd"]
             /\ sync_map' = EmptyMap
             /\ UNCHANGED block_map
        ELSE IF validates(m.number) /\ e.proof = "good"
        THEN /\ m' = [m EXCEPT !.pc = "Apply", !.mode = "sync", !.entry = e,
                        !.checks = Checks[e.root]]
             /\ sync_map' = [sync_map EXCEPT ![m.number] = NoEntry]
             /\ UNCHANGED block_map
        ELSE /\ m' = [m EXCEPT !.pc = "SyncEnd"]
             /\ sync_map' = EmptyMap
             /\ block_map' = EmptyMap
  /\ UNCHANGED <<current_header, persisted, result, max_height, stage,
                 is_interrupted, is_sync, queue, closed_block, d, history>>

-----------------------------------------------------------------------------
(* The Proposal branch.                                                    *)

MainProposal ==
  /\ m.pc = "Proposal"
  /\ is_interrupted' = FALSE
  /\ m' = [m EXCEPT !.pc = "StartProposal", !.mode = "proposal"]
  /\ UNCHANGED <<current_header, persisted, result, max_height, block_map, stage,
                 is_sync, queue, closed_block, d, sync_map, history>>

MainStartProposal ==
  /\ m.pc = "StartProposal"
  /\ stage' = "ExecutingProposal"
  /\ m' = [m EXCEPT !.pc = "Apply", !.checks = Checks[m.entry.root]]
  /\ UNCHANGED <<current_header, persisted, result, max_height, block_map,
                 is_interrupted, is_sync, queue, closed_block, d, sync_map, history>>

\* The proposal was executed to its end; a late interrupt makes the thread
\* clear the flag and return with the stage as it is.
MainExecuted ==
  /\ m.pc = "Executed"
  /\ is_interrupted' = FALSE
  /\ m' = [m EXCEPT !.pc = IF is_interrupted THEN "Recv" ELSE "Reread"]
  /\ UNCHANGED <<current_header, persisted, result, max_height, block_map, stage,
                 is_sync, queue, closed_block, d, sync_map, history>>

\* Mutant: an unchanged proposal is taken for its consensus block.
RereadAnyKind ==
  /\ m.pc = "Reread"
  /\ LET e == EntryAt(block_map, m.number)
     IN m' = [m EXCEPT !.pc = IF e.root = m.block.root THEN "Publish"
                              ELSE IF e.kind = "Proposal" THEN "Wait" ELSE "Recv"]
  /\ UNCHANGED <<shared, closed_block, d, sync_map, history>>

MainReread ==
  /\ m.pc = "Reread"
  /\ LET e == EntryAt(block_map, m.number)
     IN m' = [m EXCEPT !.pc =
                CASE e.kind = "Consensus" /\ e.root = m.block.root -> "Publish"
                  [] e.kind = "Proposal" -> "Wait"
                  [] OTHER -> "Recv"]
  /\ UNCHANGED <<shared, closed_block, d, sync_map, history>>

MainWait ==
  /\ m.pc = "Wait"
  /\ closed_block' = m.block
  /\ stage' = "WaitFinalized"
  /\ m' = [m EXCEPT !.pc = "Recv"]
  /\ UNCHANGED <<current_header, persisted, result, max_height, block_map,
                 is_interrupted, is_sync, queue, d, sync_map, history>>

-----------------------------------------------------------------------------
\* The process dies and init_executor starts it again from the database.
Crash ==
  /\ crashes < MaxCrashes
  /\ crashes' = crashes + 1
  /\ current_header' = persisted
  /\ result' = persisted
  /\ max_height' = persisted.number
  /\ block_map' = EmptyMap
  /\ stage' = "Idle"
  /\ is_interrupted' = FALSE
  /\ is_sync' = FALSE
  /\ queue' = <<>>
  /\ closed_block' = NoBlock
  /\ m' = MainIdle
  /\ d' = DistIdle
  /\ sync_map' = EmptyMap
  /\ UNCHANGED <<persisted, decided, copies, msgs>>

Receive ==
  \/ \E h \in Heights : RecvConsensus(h)
  \/ \E h \in Heights, r \in ProposalRoots : RecvProposal(h, r)
  \/ \E a, b \in Heights, last, sound \in BOOLEAN, proof \in Proofs :
       RecvSync(a, b, last, sound, proof)

Distribute ==
  \/ DistReadStage \/ DistDecide \/ DistLoadFlag \/ DistSetFlag
  \/ DistInsert \/ DistSend \/ DistSyncAdd \/ DistSyncSend

Main ==
  \/ MainRecv \/ MainReadStage \/ MainConsensus \/ MainStart
  \/ apply_transactions \/ send_executed_info_to_chain \/ write_batch
  \/ MainCommit \/ MainFinish \/ MainClean \/ MainSync \/ MainSyncFlag
  \/ MainSyncClone \/ MainSyncLoop \/ MainProposal \/ MainStartProposal
  \/ MainExecuted \/ MainReread \/ MainWait

Next == Receive \/ Distribute \/ Main \/ MainTimeout \/ Crash

Spec == Init /\ [][Next]_vars

\* Both threads loop for ever, and the scheduler of the operating system
\* lets each of them run; messages and crashes are not forced.
FairSpec == Spec /\ WF_vars(Distribute) /\ WF_vars(Main)

-----------------------------------------------------------------------------
(* Properties.                                                             *)

MainThread == [pc : MainPC, number : Nat, entry : Entry, stage : Stages,
               mode : {"block", "finalize", "sync", "proposal"}, checks : Nat,
               block : Closed]
DistThread == [pc : {"Recv", "ReadStage", "Decide", "LoadFlag", "SetFlag", "Insert",
                     "Send", "SyncAdd"},
               kind : {"Proposal", "Consensus", "Sync"}, number : Heights,
               root : Roots \cup {NoRoot}, entry : Entry, stage : Stages,
               rest : Seq(SyncBlock)]

\* Type invariant.
TypeOK ==
  /\ current_header \in Header
  /\ persisted \in Header
  /\ result \in Header
  /\ max_height \in Nat
  /\ block_map \in [Heights -> Entry]
  /\ stage \in Stages
  /\ is_interrupted \in BOOLEAN
  /\ is_sync \in BOOLEAN
  /\ queue \in Seq(Nat)
  /\ closed_block \in Closed
  /\ m \in MainThread
  /\ d \in DistThread
  /\ sync_map \in [Heights -> Entry]
  /\ decided \in SUBSET Heights
  /\ copies \in [Heights -> Nat]
  /\ msgs \in Nat
  /\ crashes \in Nat

\* No height is committed, written or published before its decision (a
\* consensus block, or a sync block with a valid proof) reached the node: a
\* proposal alone, however the two threads interleave, is never made final
\* by execute_block.
OnlyDecidedCommitted ==
  \A hdr \in {current_header, persisted, result} :
    hdr.number # 0 => hdr.number \in decided

\* The comment "Maybe never reach" on "at WaitFinalized, but no closed block
\* found!": a main thread that read WaitFinalized holds the closed block.
ClosedBlockAtHand ==
  m.pc = "Consensus" /\ m.stage = "WaitFinalized" => closed_block # NoBlock

\* Rules 3.1 and 3.2 of Stage: what is committed for a height, written to the
\* database and published is the block that consensus decided, executed once,
\* although finalize_block does the three one after the other and a crash makes
\* the node execute again what it had published.
FinalizesDecided ==
  \A hdr \in {current_header, persisted, result} :
    /\ hdr.number = Len(hdr.hash)
    /\ \A i \in 1..Len(hdr.hash) : i \in Heights => hdr.hash[i] = Decided[i]

\* Rule 3.2.2: a consensus block that was filed in block_map while the node
\* is at the height before it is executed, unless the process dies first.
ConsensusExecuted ==
  \A h \in Heights, c \in 0..MaxCrashes :
    (block_map[h].kind = "Consensus" /\ current_header.number + 1 = h /\ crashes = c)
      ~> (current_header.number >= h \/ crashes # c)
=============================================================================
