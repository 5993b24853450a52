---------------------------- MODULE Chain_proofs ----------------------------
(***************************************************************************)
(* Proofs about Chain, for every bound on heights, crashes and restarts.   *)
(***************************************************************************)
EXTENDS Chain, TLAPS

\* The body that the writer thread has in a batch which is not on disk yet.
Pending == IF w.pc = "Write" /\ w.body THEN {w.number} ELSE {}

Upto(h) == 1..h

\* Bodies are on disk without gaps, up to each height that one of the threads
\* or a restart may take as the last one stored.
BodyInv ==
  /\ Upto(max_store_height) \subseteq disk_bodies
  /\ Upto(disk_store) \subseteq disk_bodies
  /\ Upto(disk_header) \subseteq disk_bodies
  /\ Upto(max_height) \subseteq disk_bodies \cup Pending

\* The forward thread: below the block it files there is no gap either.  What it
\* read of max_height may include the body that is in the writer's batch.
ForwardInv ==
  /\ f.pc \in {"Proof", "Body"} => f.number > 0 /\ Upto(f.number - 1) \subseteq disk_bodies
  /\ f.pc = "Store" => Upto(f.number) \subseteq disk_bodies
  /\ f.pc \in {"SyncRead", "SyncAdd"} => f.number > 0
  /\ f.pc = "SyncAdd" => /\ Upto(f.store) \subseteq disk_bodies
                         /\ Upto(f.max) \subseteq disk_bodies \cup Pending

\* The writer thread: memory and disk differ only between the write of a batch
\* and the new current_header, and what is written is the next block or genesis.
WriterInv ==
  /\ w.pc # "Header" => current_header = disk_header
  /\ w.pc = "Header" => w.number = disk_header
  /\ w.pc \in {"Config", "Write"} => w.number \in {0, disk_header + 1}
  /\ w.pc = "Write" => w.body \/ w.number = 0 \/ w.number \in disk_bodies
  /\ w.pc = "Write" /\ w.body => w.number > 0

IInv == TypeOK /\ BodyInv /\ ForwardInv /\ WriterInv

-----------------------------------------------------------------------------
\* One more body extends a run of bodies.
LEMMA UptoStep ==
  ASSUME NEW n \in Nat, NEW S, n > 0, Upto(n - 1) \subseteq S
  PROVE  Upto(n) \subseteq S \cup {n}
BY DEF Upto

\* What a queue gives.
LEMMA HeadType == ASSUME NEW S, NEW q \in Seq(S), q # <<>> PROVE Head(q) \in S
OBVIOUS

LEMMA TailType == ASSUME NEW S, NEW q \in Seq(S), q # <<>> PROVE Tail(q) \in Seq(S)
OBVIOUS

LEMMA QueueTypes ==
  ASSUME NEW s \in Seq(0..MaxHeight), s # <<>>
  PROVE  Head(s) \in 0..MaxHeight /\ Tail(s) \in Seq(0..MaxHeight)
BY HeadType, TailType, Zenon

\* The two idle threads are threads.
LEMMA IdleTypes == ForwardIdle \in ForwardThread /\ WriterIdle \in WriterThread
BY ChainAssumption DEF ForwardIdle, WriterIdle, ForwardThread, WriterThread, Kinds

\* The heights that the threads hold are heights.
LEMMA ThreadTypes ==
  ASSUME TypeOK
  PROVE  /\ f.number \in 0..MaxHeight /\ f.to \in 0..MaxHeight
         /\ f.max \in 0..MaxHeight /\ f.store \in 0..MaxHeight
         /\ w.number \in 0..MaxHeight /\ w.body \in BOOLEAN
BY DEF TypeOK, ForwardThread, WriterThread

\* The next iteration of the loop over a batch.
LEMMA NextOfBatchType ==
  ASSUME TypeOK
  PROVE  /\ NextOfBatch \in ForwardThread
         /\ NextOfBatch.pc \in {"Idle", "SyncRead"}
         /\ NextOfBatch.pc = "SyncRead" => NextOfBatch.number > 0
<1>1. CASE f.number < f.to
  <2>1. f.number + 1 \in 0..MaxHeight /\ f.number + 1 > 0
    BY <1>1, ThreadTypes, ChainAssumption
  <2> QED  BY Zenon, <1>1, <2>1 DEF NextOfBatch, TypeOK, ForwardThread
<1>2. CASE ~(f.number < f.to)
  BY <1>2, IdleTypes DEF NextOfBatch, ForwardIdle
<1> QED  BY <1>1, <1>2

-----------------------------------------------------------------------------
LEMMA InitHolds == Init => IInv
<1> SUFFICES ASSUME Init PROVE IInv
  OBVIOUS
<1>1. TypeOK
  <2>1. block_map \in [Heights -> Kinds]
    BY DEF Init, EmptyMap, Kinds
  <2>2. results \in Seq(0..MaxHeight) /\ write_receiver \in Seq(0..MaxHeight)
    BY ChainAssumption DEF Init
  <2>3. 0 \in 0..MaxHeight /\ -1 \in -1..MaxHeight
    BY ChainAssumption
  <2> QED  BY Zenon, <2>1, <2>2, <2>3, IdleTypes DEF Init, TypeOK
<1>2. BodyInv /\ WriterInv
  BY DEF Init, BodyInv, WriterInv, WriterIdle, Pending, Upto
<1>3. ForwardInv
  BY DEF Init, ForwardInv, ForwardIdle
<1> QED  BY <1>1, <1>2, <1>3 DEF IInv

LEMMA EnqueueKeeps ==
  ASSUME IInv, NEW h \in Heights, consensus_block_enqueue(h)
  PROVE  IInv'
<1> USE DEF IInv, Publish, disk, outputs
<1>1. h \in Nat /\ h > 0 /\ h \in 0..MaxHeight /\ exec_known' \subseteq Heights
  BY SMTT(30), ChainAssumption DEF consensus_block_enqueue, Heights, TypeOK
<1>2. CASE f' = f /\ block_map' = block_map
  <2>1. TypeOK'
    BY <1>1, <1>2 DEF consensus_block_enqueue, TypeOK
  <2> QED  BY <1>2, <2>1 DEF consensus_block_enqueue, BodyInv, ForwardInv, WriterInv, Pending
<1>3. CASE /\ h = max_store_height + 1
           /\ f' = [ForwardIdle EXCEPT !.pc = "Proof", !.number = h]
           /\ block_map' = [block_map EXCEPT ![h] = "Consensus"]
  <2>1. f' \in ForwardThread /\ f'.pc = "Proof" /\ f'.number = h
    BY Zenon, <1>1, <1>3, IdleTypes DEF ForwardIdle, ForwardThread
  <2>2. block_map' \in [Heights -> Kinds]
    BY <1>3 DEF TypeOK, Kinds
  <2>3. TypeOK'
    BY <1>1, <2>1, <2>2 DEF consensus_block_enqueue, TypeOK
  <2>4. BodyInv' /\ WriterInv'
    BY DEF consensus_block_enqueue, BodyInv, WriterInv, Pending
  <2>5. h - 1 = max_store_height
    BY <1>1, <1>3 DEF TypeOK
  <2>6. ForwardInv'
    BY <1>1, <2>1, <2>5 DEF consensus_block_enqueue, ForwardInv, BodyInv
  <2> QED  BY <2>3, <2>4, <2>6
<1> QED  BY <1>2, <1>3 DEF consensus_block_enqueue
LEMMA ProofKeeps ==
  ASSUME IInv, save_current_block_poof
  PROVE  IInv'
<1> USE DEF IInv, memory, outputs, executor
<1>1. f' \in ForwardThread /\ f'.pc = "Body" /\ f'.number = f.number
  BY Zenon DEF save_current_block_poof, TypeOK, ForwardThread
<1>2. TypeOK'
  BY SMTT(30), <1>1, ThreadTypes DEF save_current_block_poof, TypeOK
<1>3. BodyInv' /\ WriterInv'
  BY DEF save_current_block_poof, BodyInv, WriterInv, Pending
<1>4. ForwardInv'
  BY <1>1 DEF save_current_block_poof, ForwardInv
<1> QED  BY <1>2, <1>3, <1>4
LEMMA SetBodyKeeps ==
  ASSUME IInv, set_block_body
  PROVE  IInv'
<1> USE DEF IInv, memory, outputs, executor
<1>1. f' \in ForwardThread /\ f'.pc = "Store" /\ f'.number = f.number
  BY Zenon DEF set_block_body, TypeOK, ForwardThread
<1>2. f.number \in Heights /\ f.number \in Nat /\ f.number > 0
  BY ThreadTypes, ChainAssumption DEF set_block_body, ForwardInv, Heights
<1>3. TypeOK'
  BY SMTT(30), <1>1, <1>2, ThreadTypes DEF set_block_body, TypeOK
<1>4. Upto(f.number) \subseteq disk_bodies'
  BY <1>2, UptoStep DEF set_block_body, ForwardInv
<1>5. BodyInv' /\ WriterInv'
  BY <1>4 DEF set_block_body, BodyInv, WriterInv, Pending
<1>6. ForwardInv'
  BY <1>1, <1>4 DEF ForwardInv
<1> QED  BY <1>3, <1>5, <1>6
LEMMA StoreKeeps ==
  ASSUME IInv, StoreHeight
  PROVE  IInv'
<1> USE DEF IInv, disk, executor
<1>1. f' \in ForwardThread /\ f'.pc = "Idle"
  BY IdleTypes DEF StoreHeight, ForwardIdle
<1>2. TypeOK'
  BY <1>1, ThreadTypes, SMTT(30) DEF StoreHeight, TypeOK
<1>3. BodyInv' /\ WriterInv'
  BY DEF StoreHeight, BodyInv, WriterInv, ForwardInv, Pending
<1>4. ForwardInv'
  BY <1>1 DEF ForwardInv
<1> QED  BY <1>2, <1>3, <1>4
LEMMA DealSyncKeeps ==
  ASSUME IInv, NEW a \in Heights, NEW b \in Heights, deal_sync_blocks(a, b)
  PROVE  IInv'
<1> USE DEF IInv, Publish, memory, disk, outputs
<1>1. f' \in ForwardThread /\ f'.pc = "SyncRead" /\ f'.number = a
  <2>1. a \in 0..MaxHeight /\ b \in 0..MaxHeight
    BY ChainAssumption DEF Heights
  <2> QED  BY Zenon, <2>1, IdleTypes DEF deal_sync_blocks, ForwardIdle, ForwardThread
<1>2. exec_known' \subseteq Heights
  <2>1. a..b \subseteq Heights
    BY ChainAssumption DEF Heights
  <2>2. exec_known' = exec_known \cup (a..b)
    BY DEF deal_sync_blocks
  <2>3. exec_known \subseteq Heights
    BY DEF TypeOK
  <2> HIDE DEF IInv
  <2> QED  BY <2>1, <2>2, <2>3
<1>3. TypeOK'
  BY <1>1, <1>2 DEF deal_sync_blocks, TypeOK
<1>4. BodyInv' /\ WriterInv'
  BY DEF deal_sync_blocks, BodyInv, WriterInv, Pending
<1>5. ForwardInv'
  BY <1>1 DEF ForwardInv, Heights
<1> QED  BY <1>3, <1>4, <1>5
LEMMA SyncReadKeeps ==
  ASSUME IInv, SyncRead
  PROVE  IInv'
<1> USE DEF IInv, memory, disk, outputs, executor
<1>1. BodyInv' /\ WriterInv'
  BY DEF SyncRead, BodyInv, WriterInv, Pending
<1>2. CASE f' = NextOfBatch
  <2>1. TypeOK'
    BY <1>2, NextOfBatchType DEF SyncRead, TypeOK
  <2>2. ForwardInv'
    BY <1>2, NextOfBatchType DEF ForwardInv
  <2> QED  BY <1>1, <2>1, <2>2
<1>3. CASE f' = [f EXCEPT !.pc = "SyncAdd", !.max = max_height, !.store = max_store_height]
  <2>1. /\ f' \in ForwardThread /\ f'.pc = "SyncAdd" /\ f'.number = f.number
        /\ f'.max = max_height /\ f'.store = max_store_height
    BY Zenon, <1>3 DEF TypeOK, ForwardThread
  <2>2. TypeOK'
    BY <2>1 DEF SyncRead, TypeOK
  <2>3. ForwardInv'
    BY <1>1, <2>1 DEF SyncRead, ForwardInv, BodyInv
  <2> QED  BY <1>1, <2>2, <2>3
<1> QED  BY <1>2, <1>3 DEF SyncRead
LEMMA AddSyncKeeps ==
  ASSUME IInv, add_sync_block
  PROVE  IInv'
<1> USE DEF IInv, executor
<1>1. f' = NextOfBatch
  BY DEF add_sync_block
<1>2. ForwardInv'
  BY <1>1, NextOfBatchType DEF ForwardInv
<1>3. CASE ~(f.number - 1 \in {f.max, f.store})
  <2>1. TypeOK'
    BY <1>1, <1>3, NextOfBatchType DEF add_sync_block, TypeOK
  <2> QED  BY <1>2, <1>3, <2>1 DEF add_sync_block, BodyInv, WriterInv, Pending
<1>4. CASE f.number - 1 \in {f.max, f.store}
  <2>1. f.number \in Heights /\ f.number \in Nat /\ f.number > 0
    BY ThreadTypes, ChainAssumption DEF add_sync_block, ForwardInv, Heights
  <2>2. block_map' \in [Heights -> Kinds]
    BY <1>4, <2>1 DEF add_sync_block, TypeOK, Kinds
  <2>3. TypeOK'
    BY SMTT(30), <1>1, <1>4, <2>1, <2>2, NextOfBatchType, ThreadTypes DEF add_sync_block, TypeOK
  <2>4. Pending = {}
    BY <1>4 DEF add_sync_block, BodiesFree, Pending
  <2>5. Upto(f.number - 1) \subseteq disk_bodies
    BY <1>4, <2>4 DEF add_sync_block, ForwardInv
  <2>6. Upto(f.number) \subseteq disk_bodies'
    BY <1>4, <2>1, <2>5, UptoStep DEF add_sync_block
  <2>7. BodyInv' /\ WriterInv'
    BY <1>4, <2>6 DEF add_sync_block, BodyInv, WriterInv, Pending
  <2> QED  BY <1>2, <2>3, <2>7
<1> QED  BY <1>3, <1>4
LEMMA ForwardResultKeeps ==
  ASSUME IInv, ForwardResult
  PROVE  IInv'
<1> USE DEF IInv, memory, disk, outputs
<1>1. Head(results) \in 0..MaxHeight /\ Tail(results) \in Seq(0..MaxHeight)
  BY QueueTypes DEF ForwardResult, TypeOK
<1>2. TypeOK'
  BY <1>1 DEF ForwardResult, TypeOK
<1> QED  BY <1>2 DEF ForwardResult, BodyInv, ForwardInv, WriterInv, Pending
LEMMA ReplyKeeps ==
  ASSUME IInv, NEW h \in Heights, reply_syn_req(h)
  PROVE  IInv'
BY DEF IInv, memory, disk, executor, reply_syn_req, TypeOK, BodyInv, ForwardInv, WriterInv, Pending
LEMMA ResultKeeps ==
  ASSUME IInv, set_excuted_result
  PROVE  IInv'
<1> USE DEF IInv, disk, executor
<1> DEFINE n == Head(write_receiver)
<1>1. n \in 0..MaxHeight /\ Tail(write_receiver) \in Seq(0..MaxHeight)
  BY QueueTypes DEF set_excuted_result, TypeOK
<1>2. CASE n > 0 /\ n = current_header
  <2>1. /\ w' = w /\ current_header' = current_header /\ configured' = TRUE
        /\ richstatus' = current_header
    BY <1>2 DEF set_excuted_result, delivery_rich_status
  <2>2. TypeOK'
    <3>1. richstatus' \in -1..MaxHeight
      BY <2>1, ChainAssumption DEF TypeOK
    <3> QED  BY <1>1, <2>1, <3>1, SMTT(30) DEF set_excuted_result, TypeOK
  <2>3. WriterInv'
    BY <2>1 DEF set_excuted_result, WriterInv, TypeOK
  <2> QED  BY <2>1, <2>2, <2>3 DEF set_excuted_result, BodyInv, ForwardInv, Pending
<1>3. CASE ~(n > 0 /\ n = current_header)
  <2>1. /\ w' = [WriterIdle EXCEPT !.pc = IF n = 0 THEN "Config" ELSE "Lookup", !.number = n]
        /\ UNCHANGED <<current_header, configured, richstatus>>
    BY <1>3, Zenon DEF set_excuted_result
  <2>2. /\ w' \in WriterThread /\ w'.pc \in {"Lookup", "Config"}
        /\ w'.pc = "Config" => w'.number = 0
    BY Zenon, <1>1, <2>1, IdleTypes DEF WriterIdle, WriterThread
  <2>3. TypeOK'
    BY <1>1, <2>1, <2>2, SMTT(30) DEF set_excuted_result, TypeOK
  <2>4. Pending' = {} /\ Pending = {}
    BY <2>2 DEF set_excuted_result, Pending
  <2>5. WriterInv'
    BY <2>1, <2>2 DEF set_excuted_result, WriterInv
  <2> QED  BY <2>1, <2>3, <2>4, <2>5 DEF set_excuted_result, BodyInv, ForwardInv
<1> QED  BY <1>2, <1>3
LEMMA LookupKeeps ==
  ASSUME IInv, WriterLookup
  PROVE  IInv'
<1> USE DEF IInv, memory, disk, outputs, executor
<1>1. w' \in WriterThread
  BY Zenon DEF WriterLookup, TypeOK, WriterThread
<1>2. \/ w'.pc = "Config" /\ w'.number = current_header + 1
      \/ w'.pc = "Split"
  BY DEF WriterLookup, TypeOK, WriterThread
<1>3. TypeOK'
  BY <1>1 DEF WriterLookup, TypeOK
<1>4. Pending' = {} /\ Pending = {}
  BY <1>2 DEF WriterLookup, Pending
<1> QED  BY <1>2, <1>3, <1>4 DEF WriterLookup, BodyInv, ForwardInv, WriterInv
LEMMA ConfigKeeps ==
  ASSUME IInv, set_db_config
  PROVE  IInv'
<1> USE DEF IInv, disk, outputs, executor
<1>1. /\ w' \in WriterThread /\ w'.pc = "Write" /\ w'.number = w.number
      /\ w'.body = (max_store_height < w.number)
  <2>1. (max_store_height < w.number) \in BOOLEAN
    OBVIOUS
  <2> QED  BY Zenon, <2>1 DEF set_db_config, TypeOK, WriterThread
<1>2. w.number \in Nat /\ max_store_height \in Nat /\ disk_header \in Nat
  BY ThreadTypes, ChainAssumption DEF TypeOK
<1>3. TypeOK'
  BY SMTT(30), <1>1, ThreadTypes DEF set_db_config, TypeOK
<1>4. Pending = {}
  BY DEF set_db_config, Pending
<1>5. w.number > 0 => w.number \in disk_bodies \cup Pending'
  <2>1. CASE max_store_height < w.number
    BY Zenon, <1>1, <2>1 DEF Pending
  <2>2. CASE ~(max_store_height < w.number)
    BY <1>2, <2>2 DEF BodyInv, Upto
  <2> QED  BY <2>1, <2>2
<1>6. Upto(w.number) \subseteq disk_bodies \cup Pending'
  <2>1. CASE w.number = 0
    BY <2>1 DEF Upto
  <2>2. CASE w.number > 0
    <3>1. disk_header = w.number - 1
      BY <1>2, <2>2 DEF set_db_config, WriterInv
    <3> QED  BY <1>2, <1>5, <2>2, <3>1, UptoStep DEF BodyInv
  <2> QED  BY <1>2, <2>1, <2>2
<1>7. BodyInv'
  BY <1>6 DEF set_db_config, BodyInv
<1>8. ForwardInv'
  BY <1>4 DEF set_db_config, ForwardInv
<1>9. WriterInv'
  <2>1. w'.body \/ w.number = 0 \/ w.number \in disk_bodies
    BY <1>1, <1>2, <1>5 DEF Pending
  <2>2. w'.body => max_store_height < w.number
    BY <1>1, Zenon
  <2>3. w'.body => w.number > 0
    <3> HIDE DEF IInv
    <3> QED  BY <1>2, <2>2
  <2> QED  BY <1>1, <2>1, <2>3 DEF set_db_config, WriterInv
<1> QED  BY <1>3, <1>7, <1>8, <1>9
LEMMA WriteKeeps ==
  ASSUME IInv, set_db_result
  PROVE  IInv'
<1> USE DEF IInv, memory, outputs, executor
<1>1. w' \in WriterThread /\ w'.pc = "Header" /\ w'.number = w.number
  BY SMTT(30) DEF set_db_result, TypeOK, WriterThread
<1>2. w.number \in Nat /\ disk_header \in Nat
  BY ThreadTypes, ChainAssumption DEF TypeOK
<1>3. Pending \subseteq Heights
  BY <1>2, ThreadTypes, ChainAssumption DEF set_db_result, WriterInv, Pending, Heights
<1>4. disk_bodies' = disk_bodies \cup Pending
  BY DEF set_db_result, Pending
<1>5. TypeOK'
  BY SMTT(30), <1>1, <1>3, <1>4, ThreadTypes DEF set_db_result, TypeOK
<1>6. Upto(w.number) \subseteq disk_bodies'
  <2>1. CASE w.number = 0
    BY <2>1 DEF Upto
  <2>2. CASE w.number > 0
    <3>1. disk_header = w.number - 1
      BY <1>2, <2>2 DEF set_db_result, WriterInv
    <3>2. w.number \in disk_bodies'
      BY <1>4, <2>2 DEF set_db_result, WriterInv, Pending
    <3> QED  BY <1>2, <1>4, <2>2, <3>1, <3>2, UptoStep DEF BodyInv
  <2> QED  BY <1>2, <2>1, <2>2
<1>7. BodyInv'
  BY <1>4, <1>6 DEF set_db_result, BodyInv
<1>8. ForwardInv'
  BY <1>4 DEF set_db_result, ForwardInv
<1>9. WriterInv'
  BY <1>1 DEF set_db_result, WriterInv
<1> QED  BY <1>5, <1>7, <1>8, <1>9
LEMMA HeaderKeeps ==
  ASSUME IInv, SetHeader
  PROVE  IInv'
<1> USE DEF IInv, disk, executor
<1>1. w' \in WriterThread /\ w'.pc \in {"Recv", "Split"}
  <2>1. CASE w.number = 0
    <3>1. w' = WriterIdle
      BY <2>1, Zenon DEF SetHeader
    <3> HIDE DEF IInv
    <3> QED  BY <3>1, IdleTypes DEF WriterIdle
  <2>2. CASE w.number # 0
    BY <2>2, SMTT(30) DEF SetHeader, TypeOK, WriterThread
  <2> QED  BY <2>1, <2>2
<1>2. current_header' = disk_header /\ richstatus' \in {richstatus, disk_header}
  BY DEF SetHeader, WriterInv, delivery_rich_status
<1>3. TypeOK'
  BY <1>1, <1>2, ChainAssumption DEF SetHeader, TypeOK
<1>4. Pending' = {} /\ Pending = {}
  BY <1>1 DEF SetHeader, Pending
<1>5. WriterInv'
  BY <1>1, <1>2 DEF SetHeader, WriterInv, TypeOK
<1> QED  BY <1>3, <1>4, <1>5 DEF SetHeader, BodyInv, ForwardInv
LEMMA SplitKeeps ==
  ASSUME IInv, SplitMap
  PROVE  IInv'
<1> USE DEF IInv, disk, outputs, executor
<1>1. w' \in WriterThread /\ w'.pc = "Recv"
  BY IdleTypes DEF SplitMap, WriterIdle
<1>2. block_map' \in [Heights -> Kinds]
  BY DEF SplitMap, TypeOK, Kinds
<1>3. TypeOK'
  BY <1>1, <1>2 DEF SplitMap, TypeOK
<1>4. Pending' = {} /\ Pending = {}
  BY <1>1 DEF SplitMap, Pending
<1> QED  BY <1>1, <1>3, <1>4 DEF SplitMap, BodyInv, ForwardInv, WriterInv
LEMMA ExecuteKeeps ==
  ASSUME IInv, Execute
  PROVE  IInv'
<1> USE DEF IInv, memory, disk, outputs
<1>1. exec_height' \in 0..MaxHeight
  BY ChainAssumption DEF Execute, TypeOK, Heights
<1>2. TypeOK'
  BY <1>1 DEF Execute, TypeOK
<1> QED  BY <1>2 DEF Execute, BodyInv, ForwardInv, WriterInv, Pending
LEMMA BatchKeeps ==
  ASSUME IInv, write_batch
  PROVE  IInv'
<1> USE DEF IInv, memory, disk, outputs
<1>1. TypeOK'
  BY DEF write_batch, TypeOK
<1> QED  BY <1>1 DEF write_batch, BodyInv, ForwardInv, WriterInv, Pending
LEMMA RestartKeeps ==
  ASSUME IInv, init_executor
  PROVE  IInv'
<1> USE DEF IInv, memory, disk, outputs
<1>1. (exec_disk + 1)..exec_height \subseteq Heights
  BY ChainAssumption DEF TypeOK, Heights
<1>2. exec_lost' \subseteq Heights
  BY <1>1, Zenon DEF init_executor, TypeOK
<1>3. TypeOK'
  BY <1>2 DEF init_executor, TypeOK
<1> QED  BY <1>3 DEF init_executor, BodyInv, ForwardInv, WriterInv, Pending
LEMMA ResendKeeps ==
  ASSUME IInv, ResendResult
  PROVE  IInv'
<1> USE DEF IInv, memory, disk, outputs
<1>1. TypeOK'
  BY DEF ResendResult, TypeOK
<1> QED  BY <1>1 DEF ResendResult, BodyInv, ForwardInv, WriterInv, Pending
LEMMA CrashKeeps ==
  ASSUME IInv, init_chain
  PROVE  IInv'
<1> USE DEF IInv, disk, executor
<1>1. w' \in WriterThread /\ w'.pc = "Recv" /\ f' \in ForwardThread /\ f'.pc = "Idle"
  BY IdleTypes DEF init_chain, WriterIdle, ForwardIdle
<1>2. block_map' \in [Heights -> Kinds] /\ write_receiver' \in Seq(0..MaxHeight)
  BY DEF init_chain, EmptyMap, Kinds
<1>3. TypeOK'
  BY Zenon, <1>1, <1>2 DEF init_chain, TypeOK
<1>4. BodyInv' /\ ForwardInv' /\ WriterInv'
  BY <1>1 DEF init_chain, BodyInv, ForwardInv, WriterInv
<1> QED  BY <1>3, <1>4
-----------------------------------------------------------------------------
\* Every step keeps the invariant.
LEMMA StepKeeps == IInv /\ [Next]_vars => IInv'
<1> SUFFICES ASSUME IInv, [Next]_vars PROVE IInv'
  OBVIOUS
<1>1. CASE Receive
  BY <1>1, EnqueueKeeps, ReplyKeeps, DealSyncKeeps DEF Receive
<1>2. CASE Forward
  BY <1>2, ProofKeeps, SetBodyKeeps, StoreKeeps, SyncReadKeeps, AddSyncKeeps,
     ForwardResultKeeps DEF Forward
<1>3. CASE Writer
  BY <1>3, ResultKeeps, LookupKeeps, ConfigKeeps, WriteKeeps, HeaderKeeps, SplitKeeps DEF Writer
<1>4. CASE Executor \/ init_chain
  BY <1>4, ExecuteKeeps, BatchKeeps, RestartKeeps, ResendKeeps, CrashKeeps DEF Executor
<1>5. CASE UNCHANGED vars
  BY <1>5 DEF vars, memory, disk, outputs, executor, IInv, TypeOK, BodyInv, ForwardInv,
     WriterInv, Pending
<1> QED  BY <1>1, <1>2, <1>3, <1>4, <1>5 DEF Next

\* The inductive invariant holds throughout.
THEOREM Invariance == Spec => []IInv
BY InitHolds, StepKeeps, PTL DEF Spec

\* Type correctness.
THEOREM TypeCorrect == Spec => []TypeOK
<1>1. IInv => TypeOK
  BY DEF IInv
<1> QED  BY <1>1, Invariance, PTL

\* Every committed block has its body on disk, although set_db_result leaves the
\* body to set_block_body, which another thread runs, and although the service
\* may crash between any two steps.
THEOREM CommittedBodies == Spec => []BodyOnDisk
<1>1. IInv => BodyOnDisk
  BY DEF IInv, BodyInv, BodyOnDisk, Upto
<1> QED  BY <1>1, Invariance, PTL

-----------------------------------------------------------------------------
(* A result of genesis that reaches the chain late.                        *)

\* How high the chain can be when it gets a result of genesis.
Bar == IF 1 \in exec_lost THEN 1 ELSE 0

AtMost(q, n) == \A i \in 1..Len(q) : q[i] <= n
Has0(q) == \E i \in 1..Len(q) : q[i] = 0
ZerosFirst(q, b) == \A i, j \in 1..Len(q) : i < j /\ q[j] = 0 => q[i] <= b

\* The chain, consensus and the writer thread know of nothing above n.
LowTo(n) ==
  current_header <= n /\ disk_header <= n /\ richstatus <= n /\ w.number <= n

\* The executor executes block 2 only when block 1 is on its disk, and from then on sends
\* no result of genesis.  Results are handled in the order they are sent: while one of
\* genesis is on its way, or being written, block 1 is the highest that anyone knows of,
\* and genesis alone is unless the executor lost block 1.
GenesisInv ==
  /\ exec_disk <= exec_height
  /\ exec_disk = 0 => /\ exec_height <= 1
                      /\ AtMost(results, 1) /\ AtMost(write_receiver, 1) /\ LowTo(1)
  /\ exec_height = 0 => AtMost(results, Bar) /\ AtMost(write_receiver, Bar) /\ LowTo(Bar)
  /\ ZerosFirst(results, Bar) /\ ZerosFirst(write_receiver, Bar)
  /\ Has0(results) => AtMost(write_receiver, Bar) /\ LowTo(Bar)
  /\ Has0(write_receiver) => LowTo(Bar)
  /\ w.pc \in {"Config", "Write", "Header"} /\ w.number = 0 => LowTo(Bar)

StatusInv == richstatus <= disk_header \/ (disk_header = 0 /\ richstatus <= Bar)

LEMMA BarType == Bar \in {0, 1}
BY Zenon DEF Bar

\* The heights are numbers.
LEMMA HeightTypes ==
  ASSUME TypeOK
  PROVE  /\ current_header \in Nat /\ disk_header \in Nat /\ w.number \in Nat
         /\ richstatus \in Int /\ exec_height \in Nat /\ exec_disk \in Nat
BY ThreadTypes, ChainAssumption DEF TypeOK

\* A queue after its head is taken.
LEMMA TailKeeps ==
  ASSUME NEW q \in Seq(Nat), q # <<>>, NEW n \in Nat, NEW b \in Nat
  PROVE  /\ AtMost(q, n) => AtMost(Tail(q), n) /\ Head(q) <= n
         /\ ZerosFirst(q, b) => ZerosFirst(Tail(q), b)
         /\ ZerosFirst(q, b) /\ Has0(Tail(q)) => Head(q) <= b
         /\ Has0(Tail(q)) => Has0(q)
         /\ Head(q) = 0 => Has0(q)
<1>1. /\ Len(q) \in Nat /\ Len(q) > 0 /\ Len(Tail(q)) = Len(q) - 1 /\ Head(q) = q[1]
      /\ \A i \in 1..(Len(q) - 1) : Tail(q)[i] = q[i + 1]
  OBVIOUS
<1>2. \A i \in 1..Len(Tail(q)) : i + 1 \in 1..Len(q) /\ 1 < i + 1 /\ Tail(q)[i] = q[i + 1]
  BY <1>1
<1>3. 1 \in 1..Len(q)
  BY <1>1
<1>4. AtMost(q, n) => AtMost(Tail(q), n) /\ Head(q) <= n
  BY <1>1, <1>2, <1>3 DEF AtMost
<1>5. ZerosFirst(q, b) => ZerosFirst(Tail(q), b)
  <2> SUFFICES ASSUME ZerosFirst(q, b), NEW i \in 1..Len(Tail(q)), NEW j \in 1..Len(Tail(q)),
                      i < j, Tail(q)[j] = 0
               PROVE  Tail(q)[i] <= b
    BY DEF ZerosFirst
  <2>1. i + 1 < j + 1
    BY <1>1
  <2> QED  BY <1>2, <2>1 DEF ZerosFirst
<1>6. ZerosFirst(q, b) /\ Has0(Tail(q)) => Head(q) <= b
  BY <1>1, <1>2, <1>3 DEF ZerosFirst, Has0
<1>7. Has0(Tail(q)) => Has0(q)
  BY <1>2 DEF Has0
<1>8. Head(q) = 0 => Has0(q)
  BY <1>1, <1>3 DEF Has0
<1> QED  BY <1>4, <1>5, <1>6, <1>7, <1>8

\* A queue after x is added.
LEMMA AppendKeeps ==
  ASSUME NEW q \in Seq(Nat), NEW x \in Nat, NEW n \in Nat, NEW b \in Nat
  PROVE  /\ AtMost(q, n) /\ x <= n => AtMost(Append(q, x), n)
         /\ ZerosFirst(q, b) /\ (x = 0 => AtMost(q, b)) => ZerosFirst(Append(q, x), b)
         /\ Has0(Append(q, x)) => Has0(q) \/ x = 0
<1> DEFINE r == Append(q, x)
<1>1. /\ Len(q) \in Nat /\ Len(r) = Len(q) + 1 /\ r[Len(q) + 1] = x
      /\ \A i \in 1..Len(q) : r[i] = q[i]
  OBVIOUS
<1>2. \A i \in 1..Len(r) : (i \in 1..Len(q) /\ r[i] = q[i]) \/ (i = Len(q) + 1 /\ r[i] = x)
  BY <1>1
<1>3. AtMost(q, n) /\ x <= n => AtMost(r, n)
  BY <1>2 DEF AtMost
<1>4. ZerosFirst(q, b) /\ (x = 0 => AtMost(q, b)) => ZerosFirst(r, b)
  <2> SUFFICES ASSUME ZerosFirst(q, b), x = 0 => AtMost(q, b), NEW i \in 1..Len(r),
                      NEW j \in 1..Len(r), i < j, r[j] = 0
               PROVE  r[i] <= b
    BY DEF ZerosFirst
  <2>1. i \in 1..Len(q) /\ r[i] = q[i]
    BY <1>1, <1>2
  <2> QED  BY <1>2, <2>1 DEF ZerosFirst, AtMost
<1>5. Has0(r) => Has0(q) \/ x = 0
  BY <1>2 DEF Has0
<1> QED  BY <1>3, <1>4, <1>5

LEMMA QueueOf ==
  ASSUME NEW S, NEW T, S \subseteq T, NEW q \in Seq(S)
  PROVE  q \in Seq(T)
<1>1. Len(q) \in Nat /\ q = [i \in 1..Len(q) |-> q[i]]
  OBVIOUS
<1>2. \A i \in 1..Len(q) : q[i] \in T
  OBVIOUS
<1> QED  BY <1>1, <1>2

\* The queues hold heights.
LEMMA QueuesType ==
  ASSUME TypeOK
  PROVE  results \in Seq(Nat) /\ write_receiver \in Seq(Nat)
<1>1. \A q \in Seq(0..MaxHeight) : q \in Seq(Nat)
  BY ChainAssumption, QueueOf
<1> QED  BY <1>1, Zenon DEF TypeOK

LEMMA GenesisInit == Init => GenesisInv /\ StatusInv
<1> SUFFICES ASSUME Init PROVE GenesisInv /\ StatusInv
  OBVIOUS
<1>1. AtMost(results, 0) /\ ZerosFirst(results, 0) /\ AtMost(results, 1)
  BY DEF Init, AtMost, ZerosFirst
<1>2. AtMost(write_receiver, 0) /\ ZerosFirst(write_receiver, 0) /\ AtMost(write_receiver, 1)
  BY DEF Init, AtMost, ZerosFirst
<1>3. Bar = 0
  BY DEF Init, Bar
<1>4. LowTo(0) /\ LowTo(1)
  BY DEF Init, LowTo, WriterIdle
<1> QED  BY <1>1, <1>2, <1>3, <1>4 DEF GenesisInv, StatusInv, Init

\* What the two speak of.
watched == <<current_header, disk_header, richstatus, w, results, write_receiver, exec_height,
             exec_disk, exec_lost>>

LEMMA GenesisFrame ==
  ASSUME GenesisInv, StatusInv, UNCHANGED watched
  PROVE  GenesisInv' /\ StatusInv'
BY Zenon DEF watched, GenesisInv, StatusInv, Has0, LowTo, Bar

LEMMA GenesisForwardResult ==
  ASSUME TypeOK, GenesisInv, StatusInv, ForwardResult
  PROVE  GenesisInv' /\ StatusInv'
<1> DEFINE x == Head(results)
<1>1. /\ results \in Seq(Nat) /\ write_receiver \in Seq(Nat) /\ results # <<>>
      /\ results' = Tail(results) /\ write_receiver' = Append(write_receiver, x)
      /\ UNCHANGED <<current_header, disk_header, richstatus, w, exec_height, exec_disk, exec_lost>>
  BY QueuesType DEF ForwardResult, memory, disk, outputs
<1>2. x \in Nat /\ Bar \in Nat /\ 1 \in Nat
  BY <1>1, HeadType, BarType
<1>3. Bar' = Bar /\ (LowTo(1)' <=> LowTo(1)) /\ (LowTo(Bar)' <=> LowTo(Bar)) /\ StatusInv'
  BY <1>1, Zenon DEF Bar, LowTo, StatusInv
<1>4. /\ ZerosFirst(results', Bar)
      /\ x = 0 => AtMost(write_receiver, Bar) /\ LowTo(Bar)
      /\ Has0(results') => AtMost(write_receiver, Bar) /\ LowTo(Bar) /\ x <= Bar
  BY <1>1, <1>2, TailKeeps DEF GenesisInv
<1>5. /\ ZerosFirst(write_receiver', Bar)
      /\ Has0(write_receiver') => LowTo(Bar)
      /\ Has0(results') => AtMost(write_receiver', Bar)
  BY <1>1, <1>2, <1>4, AppendKeeps DEF GenesisInv
<1>6. exec_disk = 0 => AtMost(results', 1) /\ AtMost(write_receiver', 1)
  BY <1>1, <1>2, TailKeeps, AppendKeeps DEF GenesisInv
<1>7. exec_height = 0 => AtMost(results', Bar) /\ AtMost(write_receiver', Bar)
  BY <1>1, <1>2, TailKeeps, AppendKeeps DEF GenesisInv
<1> QED  BY <1>1, <1>3, <1>4, <1>5, <1>6, <1>7, Zenon DEF GenesisInv

\* The writer takes a result.
LEMMA GenesisResult ==
  ASSUME TypeOK, GenesisInv, StatusInv, WriterInv, set_excuted_result
  PROVE  GenesisInv' /\ StatusInv'
<1> DEFINE x == Head(write_receiver)
<1>1. /\ write_receiver \in Seq(Nat) /\ write_receiver # <<>> /\ w.pc = "Recv"
      /\ write_receiver' = Tail(write_receiver)
      /\ UNCHANGED <<current_header, disk_header, results, exec_height, exec_disk, exec_lost>>
  BY QueuesType DEF set_excuted_result, disk, executor
<1>2. x \in Nat /\ Bar \in Nat /\ 1 \in Nat
  BY <1>1, HeadType, BarType
<1>3. Bar' = Bar
  BY <1>1, Zenon DEF Bar
<1>4. /\ w'.pc \in {"Recv", "Lookup"} \/ (w'.pc = "Config" /\ x = 0)
      /\ w'.number \in {w.number, x} /\ richstatus' \in {richstatus, current_header}
  BY Zenon DEF set_excuted_result, WriterIdle, delivery_rich_status
<1>5. /\ ZerosFirst(write_receiver', Bar)
      /\ Has0(write_receiver') => LowTo(Bar) /\ x <= Bar
      /\ x = 0 => LowTo(Bar)
      /\ Has0(results) => AtMost(write_receiver', Bar) /\ LowTo(Bar) /\ x <= Bar
      /\ exec_disk = 0 => AtMost(write_receiver', 1) /\ x <= 1
      /\ exec_height = 0 => AtMost(write_receiver', Bar) /\ x <= Bar
  BY <1>1, <1>2, TailKeeps DEF GenesisInv
<1>6. ASSUME NEW n \in Nat, LowTo(n), x <= n
      PROVE  LowTo(n)'
  BY <1>1, <1>4, <1>6 DEF LowTo
<1>7. StatusInv'
  <2>1. current_header = disk_header
    BY <1>1 DEF WriterInv
  <2> QED  BY <1>1, <1>3, <1>4, <2>1, HeightTypes DEF StatusInv
<1>8. exec_disk = 0 => LowTo(1)'
  BY <1>2, <1>5, <1>6 DEF GenesisInv
<1>9. /\ exec_height = 0 => LowTo(Bar)'
      /\ Has0(results) => LowTo(Bar)'
      /\ Has0(write_receiver') => LowTo(Bar)'
      /\ x = 0 => LowTo(Bar)'
  <2>1. LowTo(Bar) /\ x <= Bar => (current_header' <= Bar /\ disk_header' <= Bar
                                    /\ richstatus' <= Bar /\ w'.number <= Bar)
    BY <1>1, <1>4 DEF LowTo
  <2>2. x = 0 => x <= Bar
    BY BarType
  <2> QED  BY <1>3, <1>5, <2>1, <2>2, Zenon DEF GenesisInv, LowTo
<1> QED  BY <1>1, <1>3, <1>4, <1>5, <1>7, <1>8, <1>9, Zenon DEF GenesisInv

\* The writer looks for the block, and writes it.
LEMMA GenesisLookup ==
  ASSUME TypeOK, GenesisInv, StatusInv, WriterLookup \/ set_db_config \/ SplitMap
  PROVE  GenesisInv' /\ StatusInv'
<1>1. UNCHANGED <<current_header, disk_header, richstatus, results, write_receiver, exec_height,
                  exec_disk, exec_lost>>
  BY Zenon DEF WriterLookup, set_db_config, SplitMap, memory, disk, outputs, executor
<1>2. /\ w'.number \in {0, w.number}
      /\ w'.pc \in {"Config", "Write", "Header"} /\ w'.number = 0 =>
           w.pc = "Config" /\ w.number = 0
  <2>1. CASE WriterLookup
    BY <2>1 DEF WriterLookup, TypeOK, WriterThread, Heights
  <2>2. CASE set_db_config
    BY <2>2 DEF set_db_config, TypeOK, WriterThread
  <2>3. CASE SplitMap
    BY <2>3 DEF SplitMap, WriterIdle
  <2> QED  BY <2>1, <2>2, <2>3
<1>3. Bar' = Bar /\ StatusInv'
  BY <1>1, Zenon DEF Bar, StatusInv
<1>4. (LowTo(1) => LowTo(1)') /\ (LowTo(Bar) => LowTo(Bar)')
  BY <1>1, <1>2, <1>3, BarType DEF LowTo
<1> QED  BY <1>1, <1>2, <1>3, <1>4, Zenon DEF GenesisInv, Has0

LEMMA GenesisWrite ==
  ASSUME TypeOK, GenesisInv, StatusInv, WriterInv, set_db_result
  PROVE  GenesisInv' /\ StatusInv'
<1>1. /\ disk_header' = w.number /\ w'.number = w.number /\ w.pc = "Write" /\ w'.pc = "Header"
      /\ UNCHANGED <<current_header, richstatus, results, write_receiver, exec_height, exec_disk,
                     exec_lost>>
  BY DEF set_db_result, TypeOK, WriterThread, memory, outputs, executor
<1>2. Bar' = Bar
  BY <1>1, Zenon DEF Bar
<1>3. (LowTo(1) => LowTo(1)') /\ (LowTo(Bar) => LowTo(Bar)')
  BY <1>1, <1>2 DEF LowTo
<1>4. StatusInv'
  <2>1. CASE w.number = 0
    BY <1>1, <1>2, <2>1 DEF GenesisInv, LowTo, StatusInv
  <2>2. CASE w.number = disk_header + 1
    BY <1>1, <1>2, <2>2, BarType, HeightTypes DEF StatusInv
  <2> QED  BY <1>1, <2>1, <2>2 DEF WriterInv
<1> QED  BY <1>1, <1>2, <1>3, <1>4, Zenon DEF GenesisInv, Has0

LEMMA GenesisHeader ==
  ASSUME TypeOK, GenesisInv, StatusInv, WriterInv, SetHeader
  PROVE  GenesisInv' /\ StatusInv'
<1>1. /\ current_header' = w.number /\ richstatus' \in {richstatus, w.number}
      /\ w.pc = "Header" /\ disk_header = w.number
      /\ UNCHANGED <<disk_header, results, write_receiver, exec_height, exec_disk, exec_lost>>
  BY DEF SetHeader, delivery_rich_status, WriterInv, disk, executor
<1>2. w'.pc \in {"Recv", "Split"} /\ w'.number \in {0, w.number}
  BY DEF SetHeader, WriterIdle, TypeOK, WriterThread
<1>3. Bar' = Bar
  BY <1>1, Zenon DEF Bar
<1>4. (LowTo(1) => LowTo(1)') /\ (LowTo(Bar) => LowTo(Bar)')
  BY <1>1, <1>2, <1>3, BarType DEF LowTo
<1>5. StatusInv'
  BY <1>1, <1>3, HeightTypes DEF StatusInv
<1> QED  BY <1>1, <1>2, <1>3, <1>4, <1>5, Zenon DEF GenesisInv, Has0

LEMMA GenesisCrash ==
  ASSUME TypeOK, GenesisInv, StatusInv, init_chain
  PROVE  GenesisInv' /\ StatusInv'
<1>1. /\ current_header' = disk_header /\ write_receiver' = <<>>
      /\ w'.pc = "Recv" /\ w'.number = 0
      /\ UNCHANGED <<disk_header, richstatus, results, exec_height, exec_disk, exec_lost>>
  BY DEF init_chain, WriterIdle, disk, executor
<1>2. Bar' = Bar /\ StatusInv'
  BY <1>1, Zenon DEF Bar, StatusInv
<1>3. (LowTo(1) => LowTo(1)') /\ (LowTo(Bar) => LowTo(Bar)')
  BY <1>1, <1>2, BarType DEF LowTo
<1>4. \A n : AtMost(write_receiver', n) /\ ZerosFirst(write_receiver', n)
  BY <1>1 DEF AtMost, ZerosFirst
<1>5. ~Has0(write_receiver')
  BY <1>1 DEF Has0
<1> QED  BY <1>1, <1>2, <1>3, <1>4, <1>5, Zenon DEF GenesisInv

\* The executor sends the result of the next block, or that of its last one again.
LEMMA GenesisExecute ==
  ASSUME TypeOK, GenesisInv, StatusInv, Execute
  PROVE  GenesisInv' /\ StatusInv'
<1>1. /\ results \in Seq(Nat) /\ results' = Append(results, exec_height')
      /\ exec_disk = exec_height /\ exec_height' = exec_height + 1
      /\ UNCHANGED <<current_header, disk_header, richstatus, w, write_receiver, exec_disk, exec_lost>>
  BY QueuesType DEF Execute, memory, disk, outputs
<1>2. Bar' = Bar /\ (LowTo(1)' <=> LowTo(1)) /\ (LowTo(Bar)' <=> LowTo(Bar)) /\ StatusInv'
  BY <1>1, Zenon DEF Bar, LowTo, StatusInv
<1>3. exec_height' \in Nat /\ exec_height' # 0 /\ Bar \in Nat /\ 1 \in Nat
  BY <1>1, HeightTypes, BarType
<1>4. /\ ZerosFirst(results', Bar)
      /\ Has0(results') => Has0(results)
      /\ exec_disk = 0 => AtMost(results', 1)
  BY <1>1, <1>3, AppendKeeps DEF GenesisInv
<1>5. exec_disk <= exec_height' /\ (exec_disk = 0 => exec_height' <= 1)
  BY <1>1, HeightTypes
<1> QED  BY <1>1, <1>2, <1>3, <1>4, <1>5, Zenon DEF GenesisInv

LEMMA GenesisBatch ==
  ASSUME TypeOK, GenesisInv, StatusInv, write_batch
  PROVE  GenesisInv' /\ StatusInv'
<1>1. /\ exec_disk' = exec_height /\ exec_height' = exec_height
      /\ UNCHANGED <<current_header, disk_header, richstatus, w, results, write_receiver, exec_lost>>
  BY DEF write_batch, memory, disk, outputs
<1>2. exec_height # 0 /\ exec_height <= exec_height
  BY HeightTypes DEF write_batch
<1>3. Bar' = Bar /\ (LowTo(Bar)' <=> LowTo(Bar)) /\ StatusInv'
  BY <1>1, Zenon DEF Bar, LowTo, StatusInv
<1> QED  BY <1>1, <1>2, <1>3, Zenon DEF GenesisInv, Has0

LEMMA GenesisResend ==
  ASSUME TypeOK, GenesisInv, StatusInv, ResendResult
  PROVE  GenesisInv' /\ StatusInv'
<1>1. /\ results' = Append(results, exec_height) /\ results \in Seq(Nat)
      /\ UNCHANGED <<current_header, disk_header, richstatus, w, write_receiver, exec_height,
                     exec_disk, exec_lost>>
  BY QueuesType DEF ResendResult, memory, disk, outputs
<1>2. Bar' = Bar /\ (LowTo(1)' <=> LowTo(1)) /\ (LowTo(Bar)' <=> LowTo(Bar)) /\ StatusInv'
  BY <1>1, Zenon DEF Bar, LowTo, StatusInv
<1>3. exec_height \in Nat /\ Bar \in Nat /\ 1 \in Nat /\ 0 <= Bar
  BY HeightTypes, BarType
<1>4. /\ ZerosFirst(results', Bar)
      /\ Has0(results') => Has0(results) \/ exec_height = 0
      /\ exec_disk = 0 => AtMost(results', 1)
      /\ exec_height = 0 => AtMost(results', Bar)
  BY <1>1, <1>3, AppendKeeps DEF GenesisInv
<1> QED  BY <1>1, <1>2, <1>4, Zenon DEF GenesisInv

\* The executor restarts: Bar rises when it lost block 1.
LEMMA GenesisRestart ==
  ASSUME TypeOK, GenesisInv, StatusInv, init_executor
  PROVE  GenesisInv' /\ StatusInv'
<1>1. /\ results' = Append(results, exec_disk) /\ results \in Seq(Nat)
      /\ write_receiver \in Seq(Nat) /\ exec_height' = exec_disk
      /\ exec_lost' = exec_lost \cup ((exec_disk + 1)..exec_height)
      /\ UNCHANGED <<current_header, disk_header, richstatus, w, write_receiver, exec_disk>>
  BY QueuesType DEF init_executor, memory, disk, outputs
<1>2. /\ exec_disk \in Nat /\ exec_height \in Nat /\ exec_disk <= exec_height
      /\ Bar \in {0, 1} /\ Bar' \in {0, 1}
  BY HeightTypes, BarType DEF GenesisInv, Bar
<1>3. /\ Bar <= Bar'
      /\ exec_disk = 0 /\ exec_height # 0 => Bar' = 1
  BY <1>1, <1>2 DEF Bar
<1>4. ASSUME NEW q \in Seq(Nat)
      PROVE  /\ AtMost(q, Bar) => AtMost(q, Bar')
             /\ ZerosFirst(q, Bar) => ZerosFirst(q, Bar')
  <2>1. \A i \in 1..Len(q) : q[i] \in Nat /\ (q[i] <= Bar => q[i] <= Bar')
    BY <1>2, <1>3
  <2> QED  BY <2>1 DEF AtMost, ZerosFirst
<1>5. (LowTo(1) => LowTo(1)') /\ (LowTo(Bar) => LowTo(Bar)')
  BY <1>1, <1>2, <1>3, HeightTypes DEF LowTo
<1>6. StatusInv'
  BY <1>1, <1>2, <1>3, HeightTypes DEF StatusInv
<1>7. exec_disk = 0 => AtMost(results, Bar') /\ AtMost(write_receiver, Bar') /\ LowTo(Bar)'
  <2>1. CASE exec_disk = 0 /\ exec_height = 0
    BY <1>1, <1>4, <1>5, <2>1 DEF GenesisInv
  <2>2. CASE exec_disk = 0 /\ exec_height # 0
    <3>1. Bar' = 1
      BY <1>3, <2>2
    <3> QED  BY <1>1, <2>2, <3>1 DEF GenesisInv, LowTo
  <2> QED  BY <2>1, <2>2
<1>8. /\ ZerosFirst(results', Bar')
      /\ exec_disk = 0 => AtMost(results', 1) /\ AtMost(results', Bar')
      /\ Has0(results') => Has0(results) \/ exec_disk = 0
  <2>1. ZerosFirst(results, Bar') /\ Bar' \in Nat /\ 0 <= Bar' /\ 0 <= 1 /\ 1 \in Nat
    BY <1>1, <1>2, <1>4 DEF GenesisInv
  <2>2. exec_disk = 0 => AtMost(results, 1)
    BY DEF GenesisInv
  <2> QED  BY <1>1, <1>2, <1>7, <2>1, <2>2, AppendKeeps
<1>9. Has0(results') => AtMost(write_receiver', Bar') /\ LowTo(Bar)'
  BY <1>1, <1>4, <1>5, <1>7, <1>8 DEF GenesisInv
<1>10. /\ exec_disk' <= exec_height'
       /\ exec_disk' = 0 => exec_height' <= 1
       /\ ZerosFirst(write_receiver', Bar')
       /\ Has0(write_receiver') => LowTo(Bar)'
  BY <1>1, <1>2, <1>4, <1>5 DEF GenesisInv
<1> QED  BY <1>1, <1>5, <1>6, <1>7, <1>8, <1>9, <1>10, Zenon DEF GenesisInv

LEMMA GenesisKeeps == IInv /\ GenesisInv /\ StatusInv /\ [Next]_vars => GenesisInv' /\ StatusInv'
<1> SUFFICES ASSUME IInv, GenesisInv, StatusInv, [Next]_vars PROVE GenesisInv' /\ StatusInv'
  OBVIOUS
<1>1. TypeOK /\ WriterInv
  BY DEF IInv
<1>2. CASE Receive \/ Forward
  <2>1. CASE ForwardResult
    BY <1>1, <2>1, GenesisForwardResult
  <2>2. CASE ~ForwardResult
    <3>1. UNCHANGED watched
      BY <1>2, <2>2, Zenon DEF Receive, Forward, consensus_block_enqueue, reply_syn_req,
         deal_sync_blocks, save_current_block_poof, set_block_body, StoreHeight, SyncRead,
         add_sync_block, memory, disk, outputs, executor, watched
    <3> QED  BY <3>1, GenesisFrame
  <2> QED  BY <2>1, <2>2
<1>3. CASE Writer
  BY <1>1, <1>3, GenesisResult, GenesisLookup, GenesisWrite, GenesisHeader, Zenon DEF Writer
<1>4. CASE Executor \/ init_chain
  BY <1>1, <1>4, GenesisExecute, GenesisBatch, GenesisRestart, GenesisResend, GenesisCrash, Zenon
     DEF Executor
<1>5. CASE UNCHANGED vars
  <2>1. UNCHANGED watched
    BY <1>5, Zenon DEF vars, memory, disk, outputs, executor, watched
  <2> QED  BY <2>1, GenesisFrame
<1> QED  BY <1>2, <1>3, <1>4, <1>5 DEF Next

LEMMA GenesisInvariance == Spec => [](GenesisInv /\ StatusInv)
BY Invariance, GenesisInit, GenesisKeeps, PTL DEF Spec

\* Consensus never hears of a height that is not on disk (SetHeader comes after the write
\* of set_db_result), and the status of a block that is on disk stays true through every
\* crash; but an executor that sent the result of block 1 and lost the block makes the
\* chain write genesis again (set_excuted_result_genesis).
THEOREM StatusDurable == Spec => []RichStatusOnDisk
<1>1. IInv /\ StatusInv => RichStatusOnDisk
  BY HeightTypes DEF IInv, StatusInv, Bar, RichStatusOnDisk
<1> QED  BY <1>1, Invariance, GenesisInvariance, PTL

\* Blocks are committed one height at a time (set_excuted_result), whatever results the
\* executor sends again; only genesis can come back, over block 1, when the executor lost
\* that block.
THEOREM CommitsInOrder == Spec => CommitNext
<1>1. IInv /\ GenesisInv /\ [Next]_vars =>
        [\/ disk_header' \in {disk_header, disk_header + 1}
         \/ disk_header = 1 /\ disk_header' = 0 /\ 1 \in exec_lost]_vars
  <2> SUFFICES ASSUME IInv, GenesisInv, [Next]_vars
               PROVE  \/ disk_header' \in {disk_header, disk_header + 1}
                      \/ disk_header = 1 /\ disk_header' = 0 /\ 1 \in exec_lost
    OBVIOUS
  <2>1. CASE set_db_result
    <3>1. disk_header' = w.number /\ w.number \in {0, disk_header + 1} /\ w.pc = "Write"
      BY <2>1 DEF set_db_result, IInv, WriterInv
    <3>2. CASE w.number = 0
      <4>1. disk_header <= Bar /\ disk_header \in Nat
        BY <3>1, <3>2, HeightTypes DEF GenesisInv, LowTo, IInv
      <4> QED  BY <3>1, <3>2, <4>1 DEF Bar
    <3> QED  BY <3>1, <3>2
  <2>2. CASE ~set_db_result
    BY Zenon, <2>2 DEF Next, Receive, Forward, Writer, consensus_block_enqueue, reply_syn_req,
       deal_sync_blocks, save_current_block_poof, set_block_body, StoreHeight, SyncRead,
       add_sync_block, ForwardResult, set_excuted_result, WriterLookup, set_db_config,
       SetHeader, SplitMap, Executor, Execute, write_batch, init_executor, ResendResult,
       init_chain, disk, vars
  <2> QED  BY <2>1, <2>2
<1> QED  BY <1>1, Invariance, GenesisInvariance, PTL DEF Spec, CommitNext

-----------------------------------------------------------------------------
(* The hashes that auth gets.                                              *)

\* The block that the forward thread has filed and not yet announced to auth.
Filing == IF f.pc \in {"Proof", "Body", "Store"} THEN {f.number} ELSE {}

Handed == txhashes \cup Filing

\* A block can be committed only through block_map, and whatever is filed there
\* was announced to auth or is in the hands of the forward thread.
DeliveryInv ==
  /\ started \in Nat
  /\ \A h \in Heights : block_map[h] # "None" => h \in Handed
  /\ w.pc \in {"Config", "Write", "Header"} => w.number = 0 \/ w.number \in Handed
  /\ w.pc = "Header" => w.number \in {0, current_header + 1}
  /\ \A h \in Heights : started < h /\ h <= current_header => h \in Handed

\* Without a crash nothing that was handed over is forgotten.
LEMMA HandedGrows ==
  ASSUME IInv, [Next]_vars, ~init_chain
  PROVE  Handed \subseteq Handed' /\ started' = started
<1> USE DEF Handed, Filing
<1>1. ASSUME NEW h \in Heights, consensus_block_enqueue(h)
      PROVE  Handed \subseteq Handed' /\ started' = started
  BY <1>1 DEF consensus_block_enqueue, Publish, outputs
<1>2. ASSUME NEW a \in Heights, NEW b \in Heights, deal_sync_blocks(a, b)
      PROVE  Handed \subseteq Handed' /\ started' = started
  BY <1>2 DEF deal_sync_blocks, Publish, outputs
<1>3. CASE save_current_block_poof \/ set_block_body
  <2>1. f'.number = f.number /\ f'.pc \in {"Body", "Store"}
    BY <1>3, SMTT(30) DEF save_current_block_poof, set_block_body, IInv, TypeOK, ForwardThread
  <2> QED  BY <1>3, <2>1 DEF save_current_block_poof, set_block_body, outputs
<1>4. CASE StoreHeight
  BY <1>4 DEF StoreHeight, delivery_block_tx_hashes
<1>5. CASE SyncRead \/ add_sync_block
  BY <1>5 DEF SyncRead, add_sync_block, delivery_block_tx_hashes, outputs
<1>6. CASE ForwardResult \/ (\E h \in Heights : reply_syn_req(h)) \/ Executor
  BY <1>6 DEF ForwardResult, reply_syn_req, Executor, Execute, write_batch, init_executor,
     ResendResult, outputs
<1>7. CASE Writer
  BY <1>7 DEF Writer, set_excuted_result, WriterLookup, set_db_config, set_db_result, SetHeader,
     SplitMap, delivery_block_tx_hashes, outputs
<1>8. CASE UNCHANGED vars
  BY <1>8 DEF vars, outputs
<1> QED  BY <1>1, <1>2, <1>3, <1>4, <1>5, <1>6, <1>7, <1>8 DEF Next, Receive, Forward

LEMMA DeliveryInit == Init => DeliveryInv
BY DEF Init, DeliveryInv, EmptyMap, WriterIdle, Heights

\* The forward thread files a block and takes it in hand in one step.
LEMMA DeliveryForward ==
  ASSUME IInv, DeliveryInv, Handed \subseteq Handed', started' = started,
         Receive \/ Forward
  PROVE  DeliveryInv'
<1>1. w' = w /\ current_header' = current_header
  BY Zenon DEF Receive, Forward, consensus_block_enqueue, reply_syn_req, deal_sync_blocks,
     save_current_block_poof, set_block_body, StoreHeight, SyncRead, add_sync_block,
     ForwardResult, memory
<1>2. ASSUME NEW h \in Heights, block_map'[h] # "None"
      PROVE  h \in Handed'
  <2>1. CASE block_map[h] # "None"
    BY <2>1 DEF DeliveryInv
  <2>2. CASE block_map[h] = "None"
    <3>1. PICK k \in Heights : consensus_block_enqueue(k) \/ (add_sync_block /\ k = f.number)
      <4>1. CASE add_sync_block
        <5>1. f.number \in Heights
          BY <4>1, ThreadTypes, ChainAssumption DEF add_sync_block, IInv, ForwardInv, Heights
        <5> QED  BY <4>1, <5>1
      <4>2. CASE ~add_sync_block /\ ~\E k \in Heights : consensus_block_enqueue(k)
        <5>1. block_map' = block_map
          BY <4>2, Zenon DEF Receive, Forward, reply_syn_req, deal_sync_blocks,
             save_current_block_poof, set_block_body, StoreHeight, SyncRead, ForwardResult, memory
        <5> QED  BY <1>2, <2>2, <5>1, SMTT(30)
      <4>3. CASE \E k \in Heights : consensus_block_enqueue(k)
        BY <4>3
      <4> QED  BY Zenon, <4>1, <4>2, <4>3
    <3>2. CASE consensus_block_enqueue(k)
      <4>1. block_map' = [block_map EXCEPT ![k] = "Consensus"]
            /\ f' = [ForwardIdle EXCEPT !.pc = "Proof", !.number = k]
        BY <1>2, <2>2, <3>2 DEF consensus_block_enqueue
      <4>2. h = k
        BY <1>2, <2>2, <4>1 DEF IInv, TypeOK
      <4>3. f'.pc = "Proof" /\ f'.number = k
        BY <4>1 DEF ForwardIdle
      <4> QED  BY <4>2, <4>3 DEF Handed, Filing
    <3>3. CASE add_sync_block /\ k = f.number
      <4>1. block_map' = [block_map EXCEPT ![k] = "Sync"] /\ txhashes' = txhashes \cup {k}
        BY <1>2, <2>2, <3>3 DEF add_sync_block, delivery_block_tx_hashes
      <4>2. h = k
        BY <1>2, <2>2, <4>1 DEF IInv, TypeOK
      <4> QED  BY <4>1, <4>2 DEF Handed
    <3> QED  BY <3>1, <3>2, <3>3
  <2> QED  BY <2>1, <2>2
<1> QED  BY <1>1, <1>2, SMTT(30) DEF DeliveryInv

\* The writer commits only what it found in block_map.
LEMMA DeliveryWriter ==
  ASSUME IInv, DeliveryInv, Handed \subseteq Handed', started' = started, Writer
  PROVE  DeliveryInv'
<1>1. CASE set_excuted_result
  <2>1. w'.pc \in {"Recv", "Lookup"} \/ (w'.pc = "Config" /\ w'.number = 0)
    BY <1>1, Zenon DEF set_excuted_result, WriterIdle
  <2>2. current_header' = current_header /\ block_map' = block_map
    BY <1>1 DEF set_excuted_result
  <2> QED  BY <2>1, <2>2 DEF DeliveryInv
<1>2. CASE WriterLookup
  <2>1. current_header' = current_header /\ block_map' = block_map
    BY <1>2 DEF WriterLookup, memory
  <2>2. \/ w'.pc = "Split"
        \/ w'.pc = "Config" /\ w'.number \in Heights /\ block_map[w'.number] # "None"
    BY <1>2 DEF WriterLookup, IInv, TypeOK, WriterThread
  <2> QED  BY <2>1, <2>2 DEF DeliveryInv
<1>3. CASE set_db_config
  <2>1. current_header' = current_header /\ block_map' = block_map
    BY <1>3 DEF set_db_config
  <2>2. w.pc = "Config" /\ w'.pc = "Write" /\ w'.number = w.number
    BY <1>3 DEF set_db_config, IInv, TypeOK, WriterThread
  <2> QED  BY <2>1, <2>2 DEF DeliveryInv
<1>4. CASE set_db_result
  <2>1. current_header' = current_header /\ block_map' = block_map
    BY <1>4 DEF set_db_result, memory
  <2>2. w.pc = "Write" /\ w'.pc = "Header" /\ w'.number = w.number
    BY <1>4 DEF set_db_result, IInv, TypeOK, WriterThread
  <2>3. w.number \in {0, current_header + 1}
    BY <2>2 DEF IInv, WriterInv
  <2> QED  BY <2>1, <2>2, <2>3 DEF DeliveryInv
<1>5. CASE SetHeader
  <2>1. /\ w.pc = "Header" /\ w'.pc \in {"Recv", "Split"}
        /\ current_header' = w.number /\ block_map' = block_map
    BY <1>5 DEF SetHeader, WriterIdle, IInv, TypeOK, WriterThread
  <2>2. w.number = 0 \/ (w.number = current_header + 1 /\ w.number \in Handed')
    BY <2>1 DEF DeliveryInv
  <2>3. ASSUME NEW h \in Heights, started' < h, h <= current_header'
        PROVE  h \in Handed'
    <3>1. w.number = current_header + 1 /\ w.number \in Handed'
      BY <2>1, <2>2, <2>3 DEF Heights
    <3>2. h = w.number \/ h <= current_header
      BY <2>1, <2>3, <3>1 DEF IInv, TypeOK, Heights
    <3> QED  BY <2>3, <3>1, <3>2 DEF DeliveryInv
  <2> QED  BY <2>1, <2>3 DEF DeliveryInv
<1>6. CASE SplitMap
  <2>1. w'.pc = "Recv" /\ current_header' = current_header
        /\ \A h \in Heights : block_map'[h] # "None" => block_map[h] # "None"
    BY <1>6 DEF SplitMap, WriterIdle
  <2> QED  BY <2>1 DEF DeliveryInv
<1> QED  BY <1>1, <1>2, <1>3, <1>4, <1>5, <1>6 DEF Writer

LEMMA DeliveryKeeps == IInv /\ DeliveryInv /\ [Next]_vars => DeliveryInv'
<1> SUFFICES ASSUME IInv, DeliveryInv, [Next]_vars PROVE DeliveryInv'
  OBVIOUS
<1>1. CASE init_chain
  <2>1. started' = disk_header /\ current_header' = disk_header /\ block_map' = EmptyMap
        /\ w'.pc = "Recv" /\ disk_header \in Nat
    BY <1>1, ChainAssumption DEF init_chain, WriterIdle, IInv, TypeOK
  <2> QED  BY <2>1, ChainAssumption DEF DeliveryInv, EmptyMap, Heights
<1>2. CASE Receive \/ Forward
  <2>1. CASE init_chain
    BY <1>1, <2>1
  <2> QED  BY <1>1, <1>2, HandedGrows, DeliveryForward
<1>3. CASE Writer
  BY <1>1, <1>3, HandedGrows, DeliveryWriter
<1>4. CASE Executor \/ UNCHANGED vars
  BY <1>4 DEF Executor, Execute, write_batch, init_executor, ResendResult, vars, memory, outputs,
     DeliveryInv, Handed, Filing
<1> QED  BY <1>1, <1>2, <1>3, <1>4 DEF Next

\* The hashes of every block committed since the start went to auth once the
\* forward thread is idle: however the writer thread, which commits, overtakes
\* the forward thread, which announces, and wherever the service crashes.
THEOREM AuthHearsOfCommitted == Spec => []HashesDelivered
<1>1. IInv /\ DeliveryInv => HashesDelivered
  <2> SUFFICES ASSUME IInv, DeliveryInv, f.pc = "Idle",
                      NEW h \in (started + 1)..current_header
               PROVE  h \in txhashes
    BY DEF HashesDelivered
  <2>1. h \in Heights /\ started < h /\ h <= current_header
    BY ChainAssumption DEF DeliveryInv, IInv, TypeOK, Heights
  <2> QED  BY <2>1 DEF DeliveryInv, Handed, Filing
<1> QED  BY <1>1, Invariance, DeliveryInit, DeliveryKeeps, PTL DEF Spec

-----------------------------------------------------------------------------
(* The proof that goes with the block of the current height.               *)

\* The height of the last proof saved, or about to be saved.
Proofed == IF f.pc = "Proof" THEN f.number ELSE disk_proof

\* Consensus blocks alone, before any crash: the proof on disk is that of the
\* last body stored, and nothing is filed or committed beyond it.
SavedInv ==
  /\ f.pc \in {"Idle", "Proof", "Body", "Store"}
  /\ f.pc \in {"Idle", "Proof"} => disk_proof = max_store_height
  /\ f.pc = "Proof" => f.number = max_store_height + 1
  /\ f.pc \in {"Body", "Store"} => disk_proof = f.number
  /\ \A h \in Heights : block_map[h] # "None" => h <= Proofed
  /\ w.pc \in {"Config", "Write", "Header"} => w.number <= Proofed
  /\ current_header <= Proofed
  /\ ReplyProof

NoCrash == ~SyncOn /\ crashes = 0
CrashInv == crashes \in Nat /\ (NoCrash => SavedInv)

LEMMA SavedInit == Init => SavedInv
BY DEF Init, SavedInv, ReplyProof, ForwardIdle, WriterIdle, EmptyMap, Proofed

LEMMA ProofedType ==
  ASSUME TypeOK
  PROVE  Proofed \in Nat
BY ThreadTypes, ChainAssumption DEF TypeOK, Proofed

\* The forward thread: the next block is the one after the last body stored.
LEMMA SavedForward ==
  ASSUME IInv, SavedInv, ~SyncOn, Receive \/ Forward
  PROVE  SavedInv'
<1> USE DEF SavedInv
<1>1. TypeOK
  BY DEF IInv
<1>2. ASSUME NEW h \in Heights, consensus_block_enqueue(h)
      PROVE  SavedInv'
  <2>1. h \in Nat
    BY DEF Heights
  <2>2. /\ f.pc = "Idle" /\ Proofed = max_store_height
        /\ UNCHANGED <<w, current_header, max_store_height, disk_proof, reply>>
    BY <1>2 DEF consensus_block_enqueue, Publish, disk, outputs, Proofed
  <2>3. CASE f' = f /\ block_map' = block_map
    BY <2>2, <2>3 DEF Proofed, ReplyProof
  <2>4. CASE /\ h = max_store_height + 1
             /\ f' = [ForwardIdle EXCEPT !.pc = "Proof", !.number = h]
             /\ block_map' = [block_map EXCEPT ![h] = "Consensus"]
    <3>1. f'.pc = "Proof" /\ f'.number = h /\ Proofed' = h
      BY <2>4 DEF ForwardIdle, Proofed
    <3>2. Proofed \in Nat /\ Proofed < h /\ w.number \in Nat /\ current_header \in Nat
      BY <1>1, <2>1, <2>2, <2>4, ProofedType, ThreadTypes, ChainAssumption, SMTT(30) DEF TypeOK
    <3>3. ASSUME NEW k \in Heights, block_map'[k] # "None"
          PROVE  k <= h
      <4>1. k = h \/ block_map[k] # "None"
        BY <1>1, <2>4, <3>3 DEF TypeOK
      <4>2. k \in Nat
        BY DEF Heights
      <4> QED  BY <2>1, <3>2, <4>1, <4>2
    <3>4. w'.pc \in {"Config", "Write", "Header"} => w'.number <= h
      BY <2>1, <2>2, <3>2
    <3>5. current_header' <= h
      BY <2>1, <2>2, <3>2
    <3> QED  BY <2>2, <2>4, <3>1, <3>3, <3>4, <3>5 DEF ReplyProof
  <2> QED  BY <1>2, <2>3, <2>4 DEF consensus_block_enqueue
<1>3. ASSUME NEW h \in Heights, reply_syn_req(h)
      PROVE  SavedInv'
  <2>1. f.pc = "Idle" /\ Proofed = disk_proof /\ disk_proof >= current_header
    BY <1>1, <1>3, ChainAssumption DEF reply_syn_req, Proofed, TypeOK
  <2>2. ReplyProof'
    BY <1>3, <2>1 DEF reply_syn_req, ReplyProof, NoProof
  <2> QED  BY <1>3, <2>2 DEF reply_syn_req, memory, disk, Proofed
<1>4. CASE save_current_block_poof
  <2>1. f'.number = f.number /\ f.pc = "Proof" /\ f'.pc = "Body"
    BY <1>1, <1>4 DEF save_current_block_poof, TypeOK, ForwardThread
  <2>2. Proofed' = Proofed
    BY <1>4, <2>1 DEF save_current_block_poof, Proofed
  <2> QED  BY <1>4, <2>1, <2>2 DEF save_current_block_poof, memory, outputs, ReplyProof
<1>5. CASE set_block_body
  <2>1. f'.number = f.number /\ f.pc = "Body" /\ f'.pc = "Store"
    BY <1>1, <1>5 DEF set_block_body, TypeOK, ForwardThread
  <2>2. Proofed' = Proofed
    BY <1>5, <2>1 DEF set_block_body, Proofed
  <2> QED  BY <1>5, <2>1, <2>2 DEF set_block_body, memory, outputs, ReplyProof
<1>6. CASE StoreHeight
  <2>1. f.pc = "Store" /\ f'.pc = "Idle" /\ disk_proof' = f.number /\ max_store_height' = f.number
    BY <1>6 DEF StoreHeight, ForwardIdle, disk
  <2>2. Proofed' = Proofed
    BY <1>6, <2>1 DEF StoreHeight, disk, Proofed
  <2> QED  BY <1>6, <2>1, <2>2 DEF StoreHeight, ReplyProof
<1>7. CASE ForwardResult
  BY <1>7, SMTT(30) DEF ForwardResult, memory, disk, outputs, ReplyProof, Proofed
<1>8. ~SyncRead /\ ~add_sync_block /\ \A a, b \in Heights : ~deal_sync_blocks(a, b)
  BY Zenon DEF SyncRead, add_sync_block, deal_sync_blocks
<1> QED  BY <1>2, <1>3, <1>4, <1>5, <1>6, <1>7, <1>8 DEF Receive, Forward

\* The writer thread commits what is filed, so never beyond the proof.
LEMMA SavedWriter ==
  ASSUME IInv, SavedInv, Writer
  PROVE  SavedInv'
<1> USE DEF SavedInv
<1>1. UNCHANGED <<f, max_store_height, disk_proof, reply>> /\ Proofed' = Proofed
      /\ (ReplyProof' <=> ReplyProof)
  BY DEF Writer, set_excuted_result, WriterLookup, set_db_config, set_db_result, SetHeader,
     SplitMap, memory, disk, outputs, Proofed, ReplyProof
<1>2. CASE set_excuted_result
  <2>1. /\ w'.pc \in {"Recv", "Lookup"} \/ (w'.pc = "Config" /\ w'.number = 0)
        /\ UNCHANGED <<current_header, block_map>>
    BY <1>2, Zenon DEF set_excuted_result, WriterIdle
  <2>2. 0 <= Proofed
    BY ProofedType DEF IInv
  <2> QED  BY <1>1, <2>1, <2>2
<1>3. CASE WriterLookup
  <2>1. UNCHANGED <<current_header, block_map>>
    BY <1>3 DEF WriterLookup, memory
  <2>2. \/ w'.pc = "Split"
        \/ w'.pc = "Config" /\ w'.number \in Heights /\ block_map[w'.number] # "None"
    BY <1>3 DEF WriterLookup, IInv, TypeOK, WriterThread
  <2> QED  BY <1>1, <2>1, <2>2
<1>4. CASE set_db_config \/ set_db_result
  <2>1. UNCHANGED <<current_header, block_map>>
    BY <1>4 DEF set_db_config, set_db_result, memory
  <2>2. w.pc \in {"Config", "Write"} /\ w'.number = w.number
    BY <1>4, Zenon DEF set_db_config, set_db_result, IInv, TypeOK, WriterThread
  <2> QED  BY <1>1, <2>1, <2>2
<1>5. CASE SetHeader
  <2>1. /\ w.pc = "Header" /\ w'.pc \in {"Recv", "Split"}
        /\ current_header' = w.number /\ block_map' = block_map
    BY <1>5 DEF SetHeader, WriterIdle, IInv, TypeOK, WriterThread
  <2> QED  BY <1>1, <2>1
<1>6. CASE SplitMap
  <2>1. w'.pc = "Recv" /\ current_header' = current_header
        /\ \A h \in Heights : block_map'[h] # "None" => block_map[h] # "None"
    BY <1>6 DEF SplitMap, WriterIdle
  <2> QED  BY <1>1, <2>1
<1> QED  BY <1>2, <1>3, <1>4, <1>5, <1>6 DEF Writer

\* Crashes are counted.
LEMMA CrashesCount ==
  ASSUME crashes \in Nat, [Next]_vars
  PROVE  /\ crashes' \in Nat
         /\ crashes' = 0 => crashes = 0 /\ ~init_chain
<1>1. CASE init_chain
  BY <1>1 DEF init_chain
<1>2. CASE ~init_chain
  <2>1. crashes' = crashes
    BY <1>2, Zenon DEF Next, Receive, Forward, Writer, consensus_block_enqueue, reply_syn_req,
       deal_sync_blocks, save_current_block_poof, set_block_body, StoreHeight, SyncRead,
       add_sync_block, ForwardResult, set_excuted_result, WriterLookup, set_db_config,
       set_db_result, SetHeader, SplitMap, Executor, Execute, write_batch, init_executor,
       ResendResult, vars
  <2> QED  BY <1>2, <2>1, SMTT(30)
<1> QED  BY <1>1, <1>2

LEMMA SavedKeeps == IInv /\ CrashInv /\ [Next]_vars => CrashInv'
<1> SUFFICES ASSUME IInv, crashes \in Nat, NoCrash => SavedInv, [Next]_vars, NoCrash'
             PROVE  SavedInv'
  BY CrashesCount DEF CrashInv
<1>1. SavedInv /\ ~SyncOn /\ ~init_chain
  BY CrashesCount DEF NoCrash
<1>2. CASE Executor \/ UNCHANGED vars
  BY <1>1, <1>2 DEF Executor, Execute, write_batch, init_executor, ResendResult, vars, memory,
     disk, outputs, SavedInv, ReplyProof, Proofed
<1> QED  BY <1>1, <1>2, SavedForward, SavedWriter DEF Next

\* The proof sent with the block of the current height is not older than the
\* block (reply_syn_req), as long as blocks come from consensus and the service
\* has not crashed.  After a crash between the insertion into block_map and
\* save_current_block_poof the block can be committed without its proof.
THEOREM ReplyNotStale == Spec => [](NoCrash => ReplyProof)
<1>1. Init => CrashInv
  BY SavedInit DEF Init, CrashInv
<1>2. CrashInv => (NoCrash => ReplyProof)
  BY DEF CrashInv, SavedInv
<1> QED  BY <1>1, <1>2, Invariance, SavedKeeps, PTL DEF Spec

=============================================================================
