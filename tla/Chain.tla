-------------------------------- MODULE Chain --------------------------------
(***************************************************************************)
(* The chain service: it stores the bodies of the blocks that consensus or *)
(* synchronization bring, and commits a block when the executor's result   *)
(* for it arrives.  Two threads share its state.  The forward thread takes *)
(* the messages; it files blocks and passes results on.  The writer thread *)
(* commits.  What is on disk survives a crash; block_map, the heights in   *)
(* memory and the results on their way to the writer do not.               *)
(*                                                                         *)
(* A block is its height: consensus decides one block per height, and the  *)
(* parent hash matches exactly when the height does.                       *)
(***************************************************************************)
EXTENDS Integers, Sequences

CONSTANTS
  MaxHeight,        \* bound on heights
  MaxCrashes,       \* bound on crashes of the service
  MaxExecRestarts,  \* bound on restarts of the executor
  SyncOn            \* whether blocks arrive by synchronization too

ASSUME ChainAssumption ==
  /\ MaxHeight \in Nat /\ MaxCrashes \in Nat /\ MaxExecRestarts \in Nat
  /\ SyncOn \in BOOLEAN

Heights == 1..MaxHeight

VARIABLES
  current_header,    \* its height
  max_height,
  max_store_height,
  block_map,         \* kind of the block filed at each height, or "None"
  configured,        \* nodes is not empty: a configuration came from the executor
  f,                 \* the forward thread
  w,                 \* the writer thread
  write_receiver,    \* results on their way from the forward thread to the writer
  disk_header,       \* on disk: height of CurrentHash
  disk_bodies,       \* on disk: heights with a body
  disk_store,        \* on disk: CurrentHeight, the height of the last body stored
  disk_proof,        \* on disk: height of CurrentProof
  txhashes,          \* heights whose transaction hashes went to auth since the start
  richstatus,        \* height of the last chain.richstatus, -1 before the first
  reply,             \* last sync response sent: block and height of the proof with it
  started,           \* height the service started from
  exec_height,       \* the executor's height
  exec_disk,         \* on the executor's disk: its height
  exec_known,        \* the heights of the blocks that were published
  exec_lost,         \* heights whose result was sent, but the block lost by a restart
  results,           \* executor.result messages on their way
  exec_restarts,     \* restarts of the executor so far
  crashes

memory == <<current_header, max_height, max_store_height, block_map, configured>>
disk == <<disk_header, disk_bodies, disk_store, disk_proof>>
outputs == <<txhashes, richstatus, reply>>
executor == <<exec_height, exec_disk, exec_known, exec_lost, results, exec_restarts>>
vars == <<memory, f, w, write_receiver, disk, outputs, started, executor, crashes>>

Kinds == {"None", "Consensus", "Sync"}
EmptyMap == [h \in Heights |-> "None"]
NoProof == -1

\* pc of the forward thread, the height it handles, the last height of the
\* batch, and the two heights read before block_map is locked.
ForwardIdle == [pc |-> "Idle", number |-> 0, to |-> 0, max |-> 0, store |-> 0]
\* pc of the writer thread, the height of the result, the kind of block found.
WriterIdle == [pc |-> "Recv", number |-> 0, kind |-> "None", body |-> FALSE]

Init ==
  /\ current_header = 0 /\ max_height = 0 /\ max_store_height = 0
  /\ block_map = EmptyMap /\ configured = FALSE
  /\ f = ForwardIdle /\ w = WriterIdle /\ write_receiver = <<>>
  /\ disk_header = 0 /\ disk_bodies = {} /\ disk_store = 0 /\ disk_proof = 0
  /\ txhashes = {} /\ richstatus = -1 /\ reply = [number |-> 0, proof |-> NoProof]
  /\ started = 0
  /\ exec_height = 0 /\ exec_disk = 0 /\ exec_known = {} /\ exec_lost = {}
  /\ results = <<0>> /\ exec_restarts = 0
  /\ crashes = 0

-----------------------------------------------------------------------------
(* The forward thread.                                                     *)

\* A message with blocks a..b reaches both the chain and the executor.
Publish(a, b) ==
  /\ f.pc = "Idle"
  /\ exec_known' = exec_known \cup (a..b)
  /\ a > 1 => a - 1 \in exec_known

\* consensus_block_enqueue: the test and the insertion into block_map.
consensus_block_enqueue(h) ==
  /\ Publish(h, h)
  /\ IF h = max_store_height + 1
     THEN /\ block_map' = [block_map EXCEPT ![h] = "Consensus"]
          /\ f' = [ForwardIdle EXCEPT !.pc = "Proof", !.number = h]
     ELSE UNCHANGED <<block_map, f>>
  /\ UNCHANGED <<current_header, max_height, max_store_height, configured, w, write_receiver,
                 disk, outputs, started, exec_height, exec_disk, exec_lost, results, exec_restarts,
                 crashes>>

\* set_db_result holds the lock of block_bodies from before it looks at
\* max_store_height until current_header is set.
BodiesFree == w.pc \notin {"Write", "Header"}

\* Mutant of save_current_block_poof: the proof is not written.
ProofUnsaved ==
  /\ f.pc = "Proof"
  /\ f' = [f EXCEPT !.pc = "Body"]
  /\ UNCHANGED <<memory, w, write_receiver, disk, outputs, started, executor, crashes>>

save_current_block_poof ==
  /\ f.pc = "Proof"
  /\ disk_proof' = f.number
  /\ f' = [f EXCEPT !.pc = "Body"]
  /\ UNCHANGED <<memory, w, write_receiver, disk_header, disk_bodies, disk_store, outputs,
                 started, executor, crashes>>

set_block_body ==
  /\ f.pc = "Body"
  /\ BodiesFree
  /\ disk_bodies' = disk_bodies \cup {f.number}
  /\ disk_store' = f.number
  /\ f' = [f EXCEPT !.pc = "Store"]
  /\ UNCHANGED <<memory, w, write_receiver, disk_header, disk_proof, outputs, started,
                 executor, crashes>>

\* delivery_block_tx_hashes: the hashes of a block go to auth.
delivery_block_tx_hashes(h) == txhashes' = txhashes \cup {h}

\* max_store_height is stored and the transaction hashes are delivered to auth.
StoreHeight ==
  /\ f.pc = "Store"
  /\ max_store_height' = f.number
  /\ delivery_block_tx_hashes(f.number)
  /\ f' = ForwardIdle
  /\ UNCHANGED <<current_header, max_height, block_map, configured, w, write_receiver, disk,
                 richstatus, reply, started, executor, crashes>>

\* deal_sync_blocks: a batch with the blocks a..b.
deal_sync_blocks(a, b) ==
  /\ SyncOn
  /\ a <= b
  /\ Publish(a, b)
  /\ f' = [ForwardIdle EXCEPT !.pc = "SyncRead", !.number = a, !.to = b]
  /\ UNCHANGED <<memory, w, write_receiver, disk, outputs, started, exec_height, exec_disk,
                 exec_lost, results, exec_restarts, crashes>>

\* The loop over the blocks of a batch.
NextOfBatch == IF f.number < f.to
               THEN [f EXCEPT !.pc = "SyncRead", !.number = f.number + 1] ELSE ForwardIdle

\* The head of the loop of deal_sync_blocks and of add_sync_block: a block below
\* max_height is skipped; for another one the two heights are read.
SyncRead ==
  /\ f.pc = "SyncRead"
  /\ f' = IF f.number < max_height THEN NextOfBatch
          ELSE [f EXCEPT !.pc = "SyncAdd", !.max = max_height, !.store = max_store_height]
  /\ UNCHANGED <<memory, w, write_receiver, disk, outputs, started, executor, crashes>>

\* Mutant of add_sync_block: the transaction hashes are not delivered.
AddSilent ==
  /\ f.pc = "SyncAdd"
  /\ IF f.number - 1 \in {f.max, f.store}
     THEN /\ BodiesFree
          /\ disk_bodies' = disk_bodies \cup {f.number}
          /\ disk_store' = f.number
          /\ max_store_height' = f.number
          /\ block_map' = [block_map EXCEPT ![f.number] = "Sync"]
     ELSE UNCHANGED <<disk_bodies, disk_store, max_store_height, block_map>>
  /\ f' = NextOfBatch
  /\ UNCHANGED <<current_header, max_height, configured, w, write_receiver, disk_header,
                 disk_proof, outputs, started, executor, crashes>>

\* add_sync_block under the lock of block_map.
add_sync_block ==
  /\ f.pc = "SyncAdd"
  /\ IF f.number - 1 \in {f.max, f.store}
     THEN /\ BodiesFree
          /\ disk_bodies' = disk_bodies \cup {f.number}
          /\ disk_store' = f.number
          /\ max_store_height' = f.number
          /\ delivery_block_tx_hashes(f.number)
          /\ block_map' = [block_map EXCEPT ![f.number] = "Sync"]
     ELSE UNCHANGED <<disk_bodies, disk_store, max_store_height, txhashes, block_map>>
  /\ f' = NextOfBatch
  /\ UNCHANGED <<current_header, max_height, configured, w, write_receiver, disk_header,
                 disk_proof, richstatus, reply, started, executor, crashes>>

\* dispatch_msg of an executor.result.
ForwardResult ==
  /\ f.pc = "Idle"
  /\ results # <<>>
  /\ write_receiver' = Append(write_receiver, Head(results))
  /\ results' = Tail(results)
  /\ UNCHANGED <<memory, f, w, disk, outputs, started, exec_height, exec_disk, exec_known,
                 exec_lost, exec_restarts, crashes>>

\* reply_syn_req for one height: a block with header and body is sent, and the
\* block of the current height is followed by the proof on disk.
reply_syn_req(h) ==
  /\ f.pc = "Idle"
  /\ h <= current_header /\ h \in disk_bodies
  /\ reply' = [number |-> h, proof |-> IF h = current_header THEN disk_proof ELSE NoProof]
  /\ UNCHANGED <<memory, f, w, write_receiver, disk, txhashes, richstatus, started, executor,
                 crashes>>

-----------------------------------------------------------------------------
(* The writer thread: set_excuted_result.                                  *)

\* broadcast_current_status: nothing goes to consensus while nodes is empty.
delivery_rich_status == richstatus' = IF configured' THEN current_header' ELSE richstatus

\* The head of set_excuted_result.  A result of genesis is written whatever the current
\* height is; one of the current height only brings the configuration.
set_excuted_result ==
  /\ w.pc = "Recv"
  /\ write_receiver # <<>>
  /\ write_receiver' = Tail(write_receiver)
  /\ LET n == Head(write_receiver)
     IN IF n > 0 /\ n = current_header
        THEN /\ configured' = TRUE
             /\ UNCHANGED current_header
             /\ delivery_rich_status
             /\ UNCHANGED w
        ELSE /\ w' = [WriterIdle EXCEPT !.pc = IF n = 0 THEN "Config" ELSE "Lookup", !.number = n]
             /\ UNCHANGED <<current_header, configured, richstatus>>
  /\ UNCHANGED <<max_height, max_store_height, block_map, f, disk, txhashes, reply, started,
                 executor, crashes>>

\* The block filed for the result, and whether it is the next one.
WriterLookup ==
  /\ w.pc = "Lookup"
  /\ w' = IF w.number \in Heights /\ block_map[w.number] # "None"
             /\ w.number = current_header + 1
          THEN [w EXCEPT !.pc = "Config", !.kind = block_map[w.number]]
          ELSE [w EXCEPT !.pc = "Split"]
  /\ UNCHANGED <<memory, f, write_receiver, disk, outputs, started, executor, crashes>>

\* Mutant of set_db_config: the body is taken to be stored already.
ConfigNoBody ==
  /\ w.pc = "Config"
  /\ configured' = TRUE
  /\ max_height' = w.number
  /\ w' = [w EXCEPT !.pc = "Write", !.body = FALSE]
  /\ UNCHANGED <<current_header, max_store_height, block_map, f, write_receiver, disk,
                 outputs, started, executor, crashes>>

\* Mutant of set_db_config: the batch is never written.
ConfigNoWrite ==
  /\ w.pc = "Config"
  /\ configured' = TRUE
  /\ max_height' = w.number
  /\ w' = [w EXCEPT !.pc = "Header"]
  /\ UNCHANGED <<current_header, max_store_height, block_map, f, write_receiver, disk,
                 outputs, started, executor, crashes>>

\* set_db_result up to the write: the configuration, max_height, and whether
\* the body is part of the batch.
set_db_config ==
  /\ w.pc = "Config"
  /\ configured' = TRUE
  /\ max_height' = w.number
  /\ w' = [w EXCEPT !.pc = "Write", !.body = max_store_height < w.number]
  /\ UNCHANGED <<current_header, max_store_height, block_map, f, write_receiver, disk,
                 outputs, started, executor, crashes>>

\* The batch of set_db_result reaches the disk.
set_db_result ==
  /\ w.pc = "Write"
  /\ disk_header' = w.number
  /\ disk_bodies' = IF w.body THEN disk_bodies \cup {w.number} ELSE disk_bodies
  /\ w' = [w EXCEPT !.pc = "Header"]
  /\ UNCHANGED <<memory, f, write_receiver, disk_store, disk_proof, outputs, started,
                 executor, crashes>>

\* current_header is set, and the status broadcast.  After genesis, whose (empty)
\* transaction hashes are delivered here, block_map is left as it is.
SetHeader ==
  /\ w.pc = "Header"
  /\ current_header' = w.number
  /\ UNCHANGED configured
  /\ delivery_rich_status
  /\ IF w.number = 0 THEN delivery_block_tx_hashes(0) /\ w' = WriterIdle
     ELSE w' = [w EXCEPT !.pc = "Split"] /\ UNCHANGED txhashes
  /\ UNCHANGED <<max_height, max_store_height, block_map, f, write_receiver, disk, reply,
                 started, executor, crashes>>

\* Mutant of SplitMap: the next block is dropped with the old ones.
SplitTooFar ==
  /\ w.pc = "Split"
  /\ block_map' = [h \in Heights |-> IF h <= current_header + 1 THEN "None" ELSE block_map[h]]
  /\ w' = WriterIdle
  /\ UNCHANGED <<current_header, max_height, max_store_height, configured, f, write_receiver,
                 disk, outputs, started, executor, crashes>>

\* block_map is split off at the current height.
SplitMap ==
  /\ w.pc = "Split"
  /\ block_map' = [h \in Heights |-> IF h < current_header THEN "None" ELSE block_map[h]]
  /\ w' = WriterIdle
  /\ UNCHANGED <<current_header, max_height, max_store_height, configured, f, write_receiver,
                 disk, outputs, started, executor, crashes>>

-----------------------------------------------------------------------------
(* The executor as the chain sees it, and crashes.                         *)

\* The executor executes the next block that reached it.  finalize_block sends the result
\* and then writes the block.
Execute ==
  /\ exec_disk = exec_height
  /\ exec_height + 1 \in exec_known
  /\ exec_height' = exec_height + 1
  /\ results' = Append(results, exec_height')
  /\ UNCHANGED <<memory, f, w, write_receiver, disk, outputs, started, exec_disk, exec_known,
                 exec_lost, exec_restarts, crashes>>

write_batch ==
  /\ exec_disk < exec_height
  /\ exec_disk' = exec_height
  /\ UNCHANGED <<memory, f, w, write_receiver, disk, outputs, started, exec_height, exec_known,
                 exec_lost, results, exec_restarts, crashes>>

\* The executor crashes, starts from what it wrote and sends the result of it.  The
\* blocks it was sent may reach it again.
init_executor ==
  /\ exec_restarts < MaxExecRestarts
  /\ exec_restarts' = exec_restarts + 1
  /\ exec_height' = exec_disk
  /\ exec_lost' = exec_lost \cup ((exec_disk + 1)..exec_height)
  /\ results' = Append(results, exec_disk)
  /\ UNCHANGED <<memory, f, w, write_receiver, disk, outputs, started, exec_disk, exec_known,
                 crashes>>

\* Its main loop times out and sends the last result again.
ResendResult ==
  /\ exec_disk = exec_height
  /\ results = <<>> /\ write_receiver = <<>>
  /\ results' = <<exec_height>>
  /\ UNCHANGED <<memory, f, w, write_receiver, disk, outputs, started, exec_height, exec_disk,
                 exec_known, exec_lost, exec_restarts, crashes>>

\* The service crashes and init_chain reads the disk again; main delivers the
\* transaction hashes of the current block.
init_chain ==
  /\ crashes < MaxCrashes
  /\ crashes' = crashes + 1
  /\ current_header' = disk_header
  /\ max_height' = disk_header
  /\ max_store_height' = disk_store
  /\ block_map' = EmptyMap
  /\ configured' = FALSE
  /\ f' = ForwardIdle
  /\ w' = WriterIdle
  /\ write_receiver' = <<>>
  /\ started' = disk_header
  /\ txhashes' = disk_bodies \cap {disk_header}
  /\ UNCHANGED <<disk, richstatus, reply, executor>>

-----------------------------------------------------------------------------
Forward ==
  \/ save_current_block_poof \/ set_block_body \/ StoreHeight
  \/ SyncRead \/ add_sync_block \/ ForwardResult

Writer ==
  \/ set_excuted_result \/ WriterLookup \/ set_db_config \/ set_db_result
  \/ SetHeader \/ SplitMap

Receive ==
  \/ \E h \in Heights : consensus_block_enqueue(h) \/ reply_syn_req(h)
  \/ \E a, b \in Heights : deal_sync_blocks(a, b)

Executor == Execute \/ write_batch \/ init_executor \/ ResendResult

Next == Receive \/ Forward \/ Writer \/ Executor \/ init_chain

Spec == Init /\ [][Next]_vars

\* Consensus sends the block after the last rich status again.
Resend == \E h \in Heights : h = richstatus + 1 /\ h \in exec_known /\ consensus_block_enqueue(h)

\* Both threads loop forever, and so does the executor.  New blocks need not
\* come, but what consensus and the executor's timer send again is received.
FairSpec ==
  /\ Spec
  /\ WF_vars(Forward) /\ WF_vars(Writer) /\ WF_vars(Execute \/ write_batch)
  /\ SF_vars(Resend) /\ SF_vars(ResendResult)

-----------------------------------------------------------------------------
(* Properties.                                                             *)

ForwardThread ==
  [pc : {"Idle", "Proof", "Body", "Store", "SyncRead", "SyncAdd"},
   number : 0..MaxHeight, to : 0..MaxHeight, max : 0..MaxHeight, store : 0..MaxHeight]
WriterThread ==
  [pc : {"Recv", "Lookup", "Config", "Write", "Header", "Split"},
   number : 0..MaxHeight, kind : Kinds, body : BOOLEAN]

\* Type invariant.
TypeOK ==
  /\ current_header \in 0..MaxHeight
  /\ max_height \in 0..MaxHeight
  /\ max_store_height \in 0..MaxHeight
  /\ disk_header \in 0..MaxHeight
  /\ disk_store \in 0..MaxHeight
  /\ disk_proof \in 0..MaxHeight
  /\ exec_height \in 0..MaxHeight
  /\ exec_disk \in 0..MaxHeight
  /\ block_map \in [Heights -> Kinds]
  /\ configured \in BOOLEAN
  /\ f \in ForwardThread
  /\ w \in WriterThread
  /\ write_receiver \in Seq(0..MaxHeight)
  /\ results \in Seq(0..MaxHeight)
  /\ disk_bodies \subseteq Heights
  /\ exec_known \subseteq Heights
  /\ exec_lost \subseteq Heights
  /\ richstatus \in -1..MaxHeight

\* Every block whose header is on disk has its body there, although header and
\* body are written by two threads and set_db_result leaves the body out when
\* max_store_height says that it is stored.
BodyOnDisk == \A h \in 1..disk_header : h \in disk_bodies

\* The hashes of every block committed since the start went to auth, once the
\* forward thread is done with the block it filed.
HashesDelivered ==
  f.pc = "Idle" => \A h \in (started + 1)..current_header : h \in txhashes

\* Consensus is not told of a height that is not on disk, so that no crash of the service
\* takes it back.  Only the executor can: when it sent the result of block 1 and restarted
\* without the block, its result of genesis makes the chain write genesis again, and the
\* status of block 1 stands until that of genesis is sent.
RichStatusOnDisk ==
  \/ richstatus <= disk_header
  \/ richstatus = 1 /\ disk_header = 0 /\ 1 \in exec_lost

\* A commit is the next height, or genesis again after the executor lost block 1.
CommitNext ==
  [][\/ disk_header' \in {disk_header, disk_header + 1}
     \/ disk_header = 1 /\ disk_header' = 0 /\ 1 \in exec_lost]_vars

\* What the executor has executed the chain commits.
ChainFollows == \A h \in Heights : (exec_height >= h) ~> (current_header >= h)

\* reply_syn_req: with consensus blocks only, the proof that goes with the block
\* of the current height is not older than the block.
ReplyProof == reply.proof # NoProof => reply.proof >= reply.number
=============================================================================
