-------------------------- MODULE Executor_proofs --------------------------
(***************************************************************************)
(* Proofs about Executor, for every number of heights, messages, copies    *)
(* and crashes and every set of roots.                                     *)
(***************************************************************************)
EXTENDS Executor, TLAPS

Blocks == Len(current_header.hash)

\* A height that the distributor validated: at that time it was the next one,
\* and since then blocks were only added.
FromDist(h) == h <= Blocks \/ (h = Blocks + 1 /\ current_header.number = Blocks)

\* While no block was executed twice, every block executed was decided.
HeaderInv ==
  /\ current_header.number = Blocks => 1..Blocks \subseteq decided
  /\ current_header.number # 0 => current_header.number \in decided
  /\ persisted = IF m.pc = "Commit" THEN FinalHeader ELSE current_header
  /\ result = IF m.pc \in {"Write", "Commit"} THEN FinalHeader ELSE current_header

\* What block_map says of decisions and of validated heights.
MapInv ==
  \A h \in Heights :
    /\ block_map[h].kind \in {"Proposal", "Consensus"} => FromDist(h)
    /\ block_map[h].kind = "Consensus" => h \in decided
    /\ block_map[h].proof = "good" => h \in decided

SyncMapInv == \A h \in Heights : sync_map[h].proof = "good" => h \in decided

DistInv ==
  /\ d.kind = "Consensus" => d.number \in decided
  /\ d.pc \in {"ReadStage", "Decide", "LoadFlag", "SetFlag", "Insert"} =>
       d.root \in Roots /\ d.kind \in {"Proposal", "Consensus"}
  /\ d.pc \in {"LoadFlag", "SetFlag", "Insert"} => FromDist(d.number)

\* The next height, validated and decided, on a chain without double execution.
NextDecided ==
  /\ m.number = Blocks + 1
  /\ current_header.number = Blocks
  /\ m.number \in decided

\* A closed block that was executed on the current state.
OnCurrent(blk) ==
  /\ blk # NoBlock
  /\ blk.base = current_header.hash
  /\ FromDist(blk.number)

MainInv ==
  /\ m.pc = "ReadStage" => /\ m.entry.kind = "Consensus" => m.number \in decided
                           /\ m.entry.kind = "Proposal" => FromDist(m.number)
  /\ m.pc = "Consensus" => /\ m.entry # NoEntry
                           /\ m.number \in decided
                           /\ m.stage = stage
  /\ m.pc \in {"Proposal", "StartProposal"} => m.entry # NoEntry /\ FromDist(m.number)
  /\ m.pc = "StartProposal" => m.mode = "proposal"
  /\ m.pc = "Start" => /\ NextDecided
                       /\ m.entry # NoEntry
                       /\ m.mode \in {"block", "finalize"}
                       /\ m.mode = "finalize" => OnCurrent(m.block)
  /\ m.pc = "Apply" => /\ m.entry # NoEntry
                       /\ m.mode \in {"block", "sync", "proposal"}
                       /\ m.mode # "proposal" => NextDecided
                       /\ m.mode = "proposal" => FromDist(m.number)
  /\ m.pc \in {"Executed", "Reread", "Wait"} =>
       m.mode = "proposal" /\ OnCurrent(m.block) /\ m.block.number = m.number
  /\ m.pc \in {"Publish", "Write", "Commit"} =>
       OnCurrent(m.block) /\ (m.block.number # 0 => m.block.number \in decided)

StageInv ==
  stage = "WaitFinalized" =>
       /\ m.pc # "Start" => OnCurrent(closed_block)
       /\ m.pc \in {"Recv", "ReadStage", "Consensus", "Start", "Sync", "Proposal",
                    "StartProposal"}

IInv ==
  /\ TypeOK
  /\ HeaderInv
  /\ MapInv
  /\ SyncMapInv
  /\ DistInv
  /\ MainInv
  /\ StageInv

-----------------------------------------------------------------------------
LEMMA ParentLen ==
  ASSUME NEW s \in Seq(Roots), NEW h \in Nat \ {0}, s = ParentHash(h)
  PROVE  Len(s) = h - 1
  BY DEF ParentHash

LEMMA IdleTypes ==
  /\ NoEntry \in Entry
  /\ NoBlock \in Closed
  /\ EmptyMap \in [Heights -> Entry]
  /\ MainIdle \in MainThread
  /\ DistIdle \in DistThread
<1>1. NoEntry \in Entry /\ NoBlock \in Closed
  BY DEF Entry, Closed
<1>2. EmptyMap \in [Heights -> Entry]
  BY <1>1 DEF EmptyMap
<1>3. MainIdle \in MainThread
  BY <1>1 DEF MainIdle, MainThread, MainPC, Stages
<1>4. 1 \in Heights
  BY ExecutorAssumption DEF Heights
<1>5. DistIdle \in DistThread
  BY <1>1, <1>4 DEF DistIdle, DistThread, Stages
<1> QED
  BY <1>1, <1>2, <1>3, <1>5

LEMMA EntryAtType ==
  ASSUME NEW map \in [Heights -> Entry], NEW h
  PROVE  EntryAt(map, h) \in Entry
  BY IdleTypes DEF EntryAt

\* A record that is an entry but not the empty one has all its fields.
LEMMA RealEntry ==
  ASSUME NEW e \in Entry
  PROVE  /\ e # NoEntry => e.root \in Roots
         /\ e.kind # "None" => e # NoEntry
         /\ e.proof # "none" => e # NoEntry
  BY DEF Entry, NoEntry

-----------------------------------------------------------------------------
(* The types are kept by every step.  IInv is needed where a field of an   *)
(* entry or of a closed block is read.                                     *)

LEMMA TypeDist ==
  ASSUME IInv, Receive \/ Distribute
  PROVE  TypeOK'
<1> USE DEF IInv
<1>1. ASSUME NEW h \in Heights, RecvConsensus(h) PROVE TypeOK'
  <2>1. d' \in DistThread
    BY Zenon, <1>1, IdleTypes, ExecutorAssumption DEF RecvConsensus, TypeOK, DistThread, DistIdle
  <2> QED
    BY <1>1, <2>1 DEF RecvConsensus, TakeMsg, TypeOK, shared
<1>2. ASSUME NEW h \in Heights, NEW r \in ProposalRoots, RecvProposal(h, r)
      PROVE  TypeOK'
  <2>1. d' \in DistThread
    BY Zenon, <1>2, IdleTypes, ExecutorAssumption DEF RecvProposal, TypeOK, DistThread, DistIdle
  <2> QED
    BY <1>2, <2>1 DEF RecvProposal, TakeMsg, TypeOK, shared
<1>3. ASSUME NEW a \in Heights, NEW b \in Heights, NEW last \in BOOLEAN,
             NEW sound \in BOOLEAN, NEW proof \in Proofs,
             RecvSync(a, b, last, sound, proof)
      PROVE  TypeOK'
  <2> DEFINE blk(h) == [number |-> h, last |-> FALSE, sound |-> sound, proof |-> proof]
             tail == [number |-> b, last |-> TRUE, sound |-> TRUE, proof |-> proof]
             body == [i \in 1..(b - a + 1) |-> blk(a + i - 1)]
  <2>1. tail \in SyncBlock /\ \A h \in Heights : blk(h) \in SyncBlock
    BY ExecutorAssumption DEF SyncBlock
  <2>2. a \in Nat /\ b \in Nat /\ a <= b
    BY <1>3, ExecutorAssumption DEF RecvSync, Heights
  <2>3. \A i \in 1..(b - a + 1) : a + i - 1 \in Heights
    BY <2>2, ExecutorAssumption DEF Heights
  <2> HIDE DEF blk, tail
  <2>4. body \in Seq(SyncBlock)
    BY <2>1, <2>2, <2>3
  <2>5. Append(body, tail) \in Seq(SyncBlock)
    BY <2>1, <2>4
  <2> HIDE DEF body
  <2>6. d' = [DistIdle EXCEPT !.pc = "SyncAdd", !.kind = "Sync",
                !.rest = IF last THEN Append(body, tail) ELSE body]
    BY <1>3 DEF RecvSync, body, blk, tail
  <2>7. d' \in DistThread
    BY Zenon, <2>4, <2>5, <2>6, IdleTypes DEF DistThread, DistIdle
  <2> QED
    BY <1>3, <2>7 DEF RecvSync, TakeMsg, TypeOK, shared
<1>4. CASE DistReadStage
  <2>1. d' \in DistThread
    BY Zenon, <1>4 DEF DistReadStage, TypeOK, DistThread
  <2> QED
    BY <1>4, <2>1 DEF DistReadStage, TypeOK, shared, history
<1>5. CASE DistDecide
  <2>1. consensus_block_enqueue \in {"Recv", "LoadFlag", "Insert"}
    BY DEF consensus_block_enqueue, TypeOK, DistThread, Stages
  <2>2. proposal_enqueue \in {"Recv", "LoadFlag", "Insert"}
    BY DEF proposal_enqueue, TypeOK, DistThread, Stages
  <2>3. d' \in DistThread
    BY Zenon, <1>5, <2>1, <2>2 DEF DistDecide, TypeOK, DistThread
  <2> QED
    BY <1>5, <2>3 DEF DistDecide, TypeOK, shared, history
<1>6. CASE DistLoadFlag
  <2>1. d' \in DistThread
    BY Zenon, <1>6 DEF DistLoadFlag, TypeOK, DistThread
  <2> QED
    BY <1>6, <2>1 DEF DistLoadFlag, TypeOK, shared, history
<1>7. CASE DistSetFlag
  <2>1. d' \in DistThread
    BY Zenon, <1>7 DEF DistSetFlag, TypeOK, DistThread
  <2> QED
    BY <1>7, <2>1 DEF DistSetFlag, TypeOK, history
<1>8. CASE DistInsert
  <2>1. d' \in DistThread
    BY Zenon, <1>8 DEF DistInsert, TypeOK, DistThread
  <2>2. [kind |-> d.kind, root |-> d.root, proof |-> "none"] \in Entry
    BY <1>8 DEF DistInsert, DistInv, Entry
  <2>3. block_map' \in [Heights -> Entry]
    BY Zenon, <1>8, <2>2 DEF DistInsert, TypeOK
  <2> QED
    BY <1>8, <2>1, <2>3 DEF DistInsert, TypeOK, history
<1>9. CASE DistSend
  <2>1. d' \in DistThread
    BY Zenon, <1>9 DEF DistSend, TypeOK, DistThread
  <2>2. queue' \in Seq(Nat) /\ max_height' \in Nat
    BY <1>9, ExecutorAssumption DEF DistSend, TypeOK, DistThread, Heights
  <2> QED
    BY <1>9, <2>1, <2>2 DEF DistSend, TypeOK, history
<1>10. CASE DistSyncAdd
  <2> DEFINE b == Head(d.rest)
  <2>1. b \in SyncBlock /\ Tail(d.rest) \in Seq(SyncBlock) /\ d.rest \in Seq(SyncBlock)
    BY <1>10 DEF DistSyncAdd, TypeOK, DistThread
  <2> HIDE DEF b
  <2>2. d' \in DistThread
    <3>1. \/ d' = DistIdle
          \/ d' = [d EXCEPT !.rest = <<>>]
          \/ d' = [d EXCEPT !.rest = Tail(d.rest)]
      BY <1>10 DEF DistSyncAdd
    <3>2. <<>> \in Seq(SyncBlock)
      OBVIOUS
    <3> QED
      BY Zenon, <3>1, <3>2, <2>1, IdleTypes DEF TypeOK, DistThread
  <2>3. decided' \in SUBSET Heights
    BY <1>10 DEF DistSyncAdd, TypeOK
  <2>4. b.number \in Heights /\ b.number \in Nat /\ b.proof \in {"good", "bad"}
    BY <2>1, ExecutorAssumption DEF SyncBlock, Heights
  <2>5. ASSUME NEW h PROVE SetProof(block_map, h, b) \in [Heights -> Entry]
    <3>1. CASE h \in Heights /\ block_map[h].kind = "Sync"
      <4>1. [block_map[h] EXCEPT !.proof = b.proof] \in Entry
        <5>1. block_map[h] \in Entry /\ block_map[h] # NoEntry
          BY <3>1, RealEntry DEF TypeOK
        <5> QED
          BY <5>1, <2>4 DEF Entry
      <4> QED
        BY <3>1, <4>1 DEF SetProof, TypeOK
    <3> QED
      BY <3>1 DEF SetProof, TypeOK
  <2>6. [kind |-> "Sync", root |-> Decided[b.number], proof |-> "none"] \in Entry
    BY <2>4, ExecutorAssumption DEF Entry
  <2>7. block_map' \in [Heights -> Entry] /\ max_height' \in Nat
    <3>1. CASE add_sync_block(b)
      BY <3>1, <2>4, <2>5, <2>6 DEF add_sync_block, TypeOK
    <3>2. CASE UNCHANGED <<block_map, max_height>>
      BY <3>2 DEF TypeOK
    <3> QED
      BY <1>10, <3>1, <3>2 DEF DistSyncAdd, b
  <2> QED
    BY <1>10, <2>2, <2>3, <2>7 DEF DistSyncAdd, TypeOK
<1>11. CASE DistSyncSend
  <2>1. queue' \in Seq(Nat)
    BY <1>11 DEF DistSyncSend, TypeOK, Header
  <2> QED
    BY <1>11, <2>1, IdleTypes DEF DistSyncSend, TypeOK, history
<1> QED
  BY <1>1, <1>2, <1>3, <1>4, <1>5, <1>6, <1>7, <1>8, <1>9, <1>10, <1>11
  DEF Receive, Distribute

LEMMA FinalHeaderType ==
  ASSUME TypeOK, m.block # NoBlock
  PROVE  FinalHeader \in Header
<1>1. m.block \in [number : Nat, root : Roots, base : Seq(Roots)]
  BY DEF TypeOK, MainThread, Closed
<1> QED
  BY <1>1 DEF FinalHeader, Header

LEMMA ResumeType ==
  ASSUME TypeOK, NEW pc \in MainPC
  PROVE  Resume(pc) \in MainThread
<1>1. "SyncLoop" \in MainPC /\ "Finish" \in MainPC
  BY DEF MainPC
<1>2. ASSUME NEW p \in MainPC PROVE [m EXCEPT !.pc = p] \in MainThread
  BY Zenon DEF TypeOK, MainThread
<1>3. [m EXCEPT !.pc = "SyncLoop", !.number = m.number + 1] \in MainThread
  <2>1. m.number + 1 \in Nat
    BY DEF TypeOK, MainThread
  <2>2. ASSUME NEW n \in Nat, NEW p \in MainPC
        PROVE  [m EXCEPT !.pc = p, !.number = n] \in MainThread
    BY Zenon DEF TypeOK, MainThread
  <2> QED
    BY Zenon, <1>1, <2>1, <2>2
<1>4. (IF m.mode = "proposal" THEN pc ELSE "Finish") \in MainPC
  BY <1>1
<1> QED
  BY <1>2, <1>3, <1>4 DEF Resume

LEMMA TypeMain ==
  ASSUME IInv, Main
  PROVE  TypeOK'
<1> USE DEF IInv
<1>1. CASE MainRecv
  <2>1. Head(queue) \in Nat /\ Tail(queue) \in Seq(Nat)
    BY <1>1 DEF MainRecv, TypeOK
  <2>2. EntryAt(block_map, Head(queue)) \in Entry
    BY EntryAtType DEF TypeOK
  <2>3. m' \in MainThread
    BY Zenon, <1>1, <2>1, <2>2, IdleTypes DEF MainRecv, MainThread, MainIdle, MainPC
  <2> QED
    BY <1>1, <2>1, <2>3 DEF MainRecv, TypeOK, history
<1>2. CASE MainReadStage
  <2>1. m' \in MainThread
    BY Zenon, <1>2 DEF MainReadStage, TypeOK, MainThread, MainPC
  <2> QED
    BY <1>2, <2>1 DEF MainReadStage, TypeOK, MainThread, shared, history
<1>3. CASE MainConsensus
  <2>1. m' \in MainThread
    <3>1. \/ m' = [m EXCEPT !.pc = "Recv"]
          \/ m' = [m EXCEPT !.pc = "Finish"]
          \/ m' = [m EXCEPT !.pc = "Start", !.mode = "block"]
          \/ m' = [m EXCEPT !.pc = "Start", !.block = closed_block, !.mode = "block"]
          \/ m' = [m EXCEPT !.pc = "Start", !.block = closed_block, !.mode = "finalize"]
      BY Zenon, <1>3 DEF MainConsensus
    <3> QED
      BY ZenonT(60), <3>1 DEF TypeOK, MainThread, MainPC
  <2>2. closed_block' \in Closed /\ is_interrupted' \in BOOLEAN
    BY Zenon, <1>3, IdleTypes DEF MainConsensus, TypeOK
  <2> QED
    BY <1>3, <2>1, <2>2 DEF MainConsensus, TypeOK, history
<1>4. CASE MainStart
  <2>1. Checks[m.entry.root] \in Nat
    BY <1>4, RealEntry, ExecutorAssumption DEF MainStart, MainInv, TypeOK, MainThread
  <2>2. m' \in MainThread
    BY Zenon, <1>4, <2>1 DEF MainStart, TypeOK, MainThread, MainPC
  <2> QED
    BY <1>4, <2>2 DEF MainStart, TypeOK, Stages, history
<1>5. CASE apply_transactions
  <2>1. m.entry.root \in Roots
    BY <1>5, RealEntry DEF apply_transactions, MainInv, TypeOK, MainThread
  <2>2. [number |-> m.number, root |-> m.entry.root, base |-> current_header.hash] \in Closed
    BY <2>1 DEF TypeOK, MainThread, Header, Closed
  <2>3. Resume("Recv") \in MainThread
    BY ResumeType DEF MainPC
  <2>4. CASE m.checks = 0
    <3>1. m' \in MainThread
      BY Zenon, <1>5, <2>2, <2>4 DEF apply_transactions, TypeOK, MainThread, MainPC
    <3> QED
      BY <1>5, <3>1 DEF apply_transactions, TypeOK, shared, history
  <2>5. CASE m.checks # 0
    <3>1. m.checks - 1 \in Nat
      BY <2>5 DEF TypeOK, MainThread
    <3>2. m' = Resume("Recv") \/ m' = [m EXCEPT !.checks = m.checks - 1]
      BY <1>5, <2>5 DEF apply_transactions
    <3>3. m' \in MainThread
      BY Zenon, <2>3, <3>1, <3>2 DEF TypeOK, MainThread
    <3> QED
      BY <1>5, <3>3 DEF apply_transactions, TypeOK, shared, history
  <2> QED
    BY <2>4, <2>5
<1>6. CASE send_executed_info_to_chain
  <2>1. FinalHeader \in Header
    BY <1>6, FinalHeaderType DEF send_executed_info_to_chain, MainInv, OnCurrent
  <2>2. m' \in MainThread
    BY Zenon, <1>6 DEF send_executed_info_to_chain, TypeOK, MainThread, MainPC
  <2> QED
    BY <1>6, <2>1, <2>2 DEF send_executed_info_to_chain, TypeOK, history
<1>7. CASE write_batch
  <2>1. FinalHeader \in Header
    BY <1>7, FinalHeaderType DEF write_batch, MainInv, OnCurrent
  <2>2. m' \in MainThread
    BY Zenon, <1>7 DEF write_batch, TypeOK, MainThread, MainPC
  <2> QED
    BY <1>7, <2>1, <2>2 DEF write_batch, TypeOK, history
<1>8. CASE MainCommit
  <2>1. FinalHeader \in Header
    BY <1>8, FinalHeaderType DEF MainCommit, MainInv, OnCurrent
  <2>2. m' \in MainThread
    BY <1>8, ResumeType DEF MainCommit, MainPC
  <2> QED
    BY <1>8, <2>1, <2>2 DEF MainCommit, TypeOK, history
<1>9. CASE MainFinish
  <2>1. m' \in MainThread
    BY Zenon, <1>9 DEF MainFinish, TypeOK, MainThread, MainPC
  <2> QED
    BY <1>9, <2>1 DEF MainFinish, TypeOK, MainThread, Stages, history
<1>10. CASE MainClean
  <2>1. m' \in MainThread
    BY Zenon, <1>10 DEF MainClean, TypeOK, MainThread, MainPC
  <2>2. block_map' \in [Heights -> Entry]
    BY <1>10, IdleTypes DEF MainClean, TypeOK, split_off
  <2> QED
    BY <1>10, <2>1, <2>2 DEF MainClean, TypeOK, history
<1>11. CASE MainSync
  <2>1. m' \in MainThread
    BY <1>11 DEF MainSync, TypeOK, MainThread, MainPC
  <2> QED
    BY <1>11, <2>1 DEF MainSync, TypeOK, MainThread, Stages, history
<1>12. CASE MainSyncFlag
  <2>1. m' \in MainThread
    BY Zenon, <1>12 DEF MainSyncFlag, TypeOK, MainThread, MainPC
  <2> QED
    BY <1>12, <2>1 DEF MainSyncFlag, TypeOK, MainThread, Stages, history
<1>13. CASE MainSyncClone
  <2>1. m' \in MainThread
    BY Zenon, <1>13 DEF MainSyncClone, TypeOK, MainThread, MainPC
  <2> QED
    BY <1>13, <2>1 DEF MainSyncClone, TypeOK, MainThread, shared, history
<1>14. CASE MainSyncLoop
  <2> DEFINE e == EntryAt(sync_map, m.number)
  <2>1. e \in Entry
    BY EntryAtType DEF TypeOK
  <2> HIDE DEF e
  <2>2. e.proof # "none" => Checks[e.root] \in Nat
    BY <2>1, RealEntry, ExecutorAssumption
  <2>3. m' \in MainThread
    BY ZenonT(60), <1>14, <2>1, <2>2 DEF MainSyncLoop, TypeOK, MainThread, MainPC, e
  <2>4. sync_map' \in [Heights -> Entry] /\ block_map' \in [Heights -> Entry]
    BY <1>14, IdleTypes DEF MainSyncLoop, TypeOK
  <2> QED
    BY <1>14, <2>3, <2>4 DEF MainSyncLoop, TypeOK, history
<1>15. CASE MainProposal
  <2>1. m' \in MainThread
    BY Zenon, <1>15 DEF MainProposal, TypeOK, MainThread, MainPC
  <2> QED
    BY Zenon, <1>15, <2>1 DEF MainProposal, TypeOK, MainThread, Stages, history
<1>16. CASE MainStartProposal
  <2>1. Checks[m.entry.root] \in Nat
    BY <1>16, RealEntry, ExecutorAssumption DEF MainStartProposal, MainInv, TypeOK, MainThread
  <2>2. m' \in MainThread
    BY Zenon, <1>16, <2>1 DEF MainStartProposal, TypeOK, MainThread, MainPC
  <2> QED
    BY <1>16, <2>2 DEF MainStartProposal, TypeOK, Stages, history
<1>17. CASE MainExecuted
  <2>1. m' \in MainThread
    BY Zenon, <1>17 DEF MainExecuted, TypeOK, MainThread, MainPC
  <2> QED
    BY Zenon, <1>17, <2>1 DEF MainExecuted, TypeOK, MainThread, Stages, history
<1>18. CASE MainReread
  <2>1. m' \in MainThread
    BY Zenon, <1>18 DEF MainReread, TypeOK, MainThread, MainPC
  <2> QED
    BY <1>18, <2>1 DEF MainReread, TypeOK, MainThread, shared, history
<1>19. CASE MainWait
  <2>1. m' \in MainThread
    BY Zenon, <1>19 DEF MainWait, TypeOK, MainThread, MainPC
  <2> QED
    BY <1>19, <2>1 DEF MainWait, TypeOK, MainThread, Stages, history
<1> QED
  BY <1>1, <1>2, <1>3, <1>4, <1>5, <1>6, <1>7, <1>8, <1>9, <1>10,
     <1>11, <1>12, <1>13, <1>14, <1>15, <1>16, <1>17, <1>18, <1>19
  DEF Main

-----------------------------------------------------------------------------
(* Steps of the distributor: they leave the headers and the main thread    *)
(* alone, and decisions are only added.                                    *)

DistFrame ==
  /\ UNCHANGED <<current_header, persisted, result, stage, closed_block, m, sync_map>>
  /\ decided \subseteq decided'

LEMMA DistFrameHolds ==
  ASSUME Receive \/ Distribute
  PROVE  DistFrame
<1>1. ASSUME NEW h \in Heights, RecvConsensus(h) PROVE DistFrame
  BY <1>1 DEF RecvConsensus, DistFrame, shared
<1>2. ASSUME NEW h \in Heights, NEW r \in ProposalRoots, RecvProposal(h, r)
      PROVE  DistFrame
  BY <1>2 DEF RecvProposal, DistFrame, shared
<1>3. ASSUME NEW a \in Heights, NEW b \in Heights, NEW last \in BOOLEAN,
             NEW sound \in BOOLEAN, NEW proof \in Proofs,
             RecvSync(a, b, last, sound, proof)
      PROVE  DistFrame
  BY <1>3 DEF RecvSync, DistFrame, shared
<1>4. CASE DistReadStage \/ DistDecide \/ DistLoadFlag
  BY <1>4 DEF DistReadStage, DistDecide, DistLoadFlag, DistFrame, shared, history
<1>5. CASE DistSetFlag \/ DistInsert \/ DistSend \/ DistSyncSend
  BY <1>5 DEF DistSetFlag, DistInsert, DistSend, DistSyncSend, DistFrame, history
<1>6. CASE DistSyncAdd
  BY <1>6 DEF DistSyncAdd, DistFrame
<1> QED
  BY <1>1, <1>2, <1>3, <1>4, <1>5, <1>6 DEF Receive, Distribute

LEMMA DistKeeps ==
  ASSUME IInv, DistFrame
  PROVE  HeaderInv' /\ SyncMapInv' /\ MainInv' /\ StageInv'
<1> USE DEF IInv, DistFrame
<1>1. ASSUME NEW h PROVE FromDist(h)' = FromDist(h)
  BY DEF FromDist, Blocks
<1>2. ASSUME NEW blk PROVE OnCurrent(blk) => OnCurrent(blk)'
  BY DEF OnCurrent, FromDist, Blocks
<1>3. HeaderInv'
  BY DEF HeaderInv, FinalHeader, Blocks
<1>4. SyncMapInv'
  BY DEF SyncMapInv
<1>5. NextDecided => NextDecided'
  BY DEF NextDecided, Blocks
<1>6. MainInv'
  BY <1>5 DEF MainInv, OnCurrent, FromDist, Blocks
<1>7. StageInv'
  BY DEF StageInv, OnCurrent, FromDist, Blocks
<1> QED
  BY <1>3, <1>4, <1>6, <1>7

LEMMA DistDistInv ==
  ASSUME IInv, Receive \/ Distribute
  PROVE  DistInv'
<1> USE DEF IInv
<1>0. DistFrame
  BY DistFrameHolds
<1>1. ASSUME NEW h PROVE FromDist(h)' = FromDist(h)
  BY <1>0 DEF FromDist, Blocks, DistFrame
<1>2. CASE d' = DistIdle
  BY <1>2 DEF DistIdle, DistInv
<1>3. ASSUME NEW h \in Heights, RecvConsensus(h) PROVE DistInv'
  BY <1>2, <1>3, ExecutorAssumption DEF RecvConsensus, DistInv, DistIdle
<1>4. ASSUME NEW h \in Heights, NEW r \in ProposalRoots, RecvProposal(h, r)
      PROVE  DistInv'
  BY <1>2, <1>4, ExecutorAssumption DEF RecvProposal, DistInv, DistIdle
<1>5. ASSUME NEW a \in Heights, NEW b \in Heights, NEW last \in BOOLEAN,
             NEW sound \in BOOLEAN, NEW proof \in Proofs,
             RecvSync(a, b, last, sound, proof)
      PROVE  DistInv'
  BY <1>5 DEF RecvSync, DistInv, DistIdle
<1>6. CASE DistReadStage
  BY <1>0, <1>1, <1>6 DEF DistReadStage, DistInv, TypeOK, DistThread, DistFrame
<1>7. CASE DistDecide
  <2>1. CASE validates(d.number)
    <3>1. d.number \in Nat \ {0}
      BY ExecutorAssumption DEF TypeOK, DistThread, Heights
    <3>2. current_header.hash \in Seq(Roots) /\ current_header.number \in Nat
      BY DEF TypeOK, Header
    <3>3. FromDist(d.number)
      BY <2>1, <3>1, <3>2, ParentLen
      DEF validates, validate_height, validate_hash, FromDist, Blocks
    <3> QED
      BY <1>0, <1>1, <1>7, <3>3 DEF DistDecide, DistInv, TypeOK, DistThread, DistFrame
  <2>2. CASE ~validates(d.number)
    BY <1>0, <1>7, <2>2 DEF DistDecide, DistInv, TypeOK, DistThread, DistFrame
  <2> QED
    BY <2>1, <2>2
<1>8. CASE DistLoadFlag \/ DistSetFlag
  BY Zenon, <1>0, <1>1, <1>8
  DEF DistLoadFlag, DistSetFlag, DistInv, TypeOK, DistThread, DistFrame
<1>9. CASE DistInsert \/ DistSend
  BY Zenon, <1>0, <1>1, <1>9 DEF DistInsert, DistSend, DistInv, TypeOK, DistThread, DistFrame
<1>10. CASE DistSyncAdd
  <2>1. \/ d' = DistIdle
        \/ d' = [d EXCEPT !.rest = <<>>]
        \/ d' = [d EXCEPT !.rest = Tail(d.rest)]
    BY <1>10 DEF DistSyncAdd
  <2> QED
    BY Zenon, <1>0, <1>2, <1>10, <2>1 DEF DistSyncAdd, DistInv, TypeOK, DistThread, DistFrame
<1>11. CASE DistSyncSend
  BY <1>2, <1>11 DEF DistSyncSend
<1> QED
  BY <1>3, <1>4, <1>5, <1>6, <1>7, <1>8, <1>9, <1>10, <1>11 DEF Receive, Distribute

LEMMA DistMapInv ==
  ASSUME IInv, Receive \/ Distribute
  PROVE  MapInv'
<1> USE DEF IInv
<1>0. DistFrame
  BY DistFrameHolds
<1>1. ASSUME NEW h PROVE FromDist(h)' = FromDist(h)
  BY <1>0 DEF FromDist, Blocks, DistFrame
<1>2. CASE UNCHANGED block_map
  BY <1>0, <1>1, <1>2 DEF MapInv, DistFrame
<1>3. CASE DistInsert
  BY <1>0, <1>1, <1>3 DEF DistInsert, MapInv, DistInv, DistFrame, TypeOK
<1>4. CASE DistSyncAdd
  <2> DEFINE b == Head(d.rest)
  <2>1. b \in SyncBlock
    BY <1>4 DEF DistSyncAdd, TypeOK, DistThread
  <2> HIDE DEF b
  <2>2. b.number \in Heights /\ b.number \in Nat /\ b.proof \in {"good", "bad"}
    BY <2>1, ExecutorAssumption DEF SyncBlock, Heights
  <2>3. ASSUME NEW k, b.proof = "good" /\ k \in Heights => k \in decided',
               NEW h \in Heights
        PROVE  /\ SetProof(block_map, k, b)[h].kind = block_map[h].kind
               /\ SetProof(block_map, k, b)[h].proof = "good" => h \in decided'
    <3>1. CASE h # k \/ SetProof(block_map, k, b) = block_map
      BY Zenon, <1>0, <3>1 DEF SetProof, MapInv, TypeOK, DistFrame
    <3>2. CASE h = k /\ block_map[h].kind = "Sync"
      <4>1. block_map[h] \in Entry /\ block_map[h] # NoEntry
        BY <3>2, RealEntry DEF TypeOK
      <4> QED
        BY <1>0, <2>3, <3>2, <4>1 DEF SetProof, MapInv, TypeOK, DistFrame, Entry
    <3> QED
      BY <3>1, <3>2 DEF SetProof
  <2>4. CASE add_sync_block(b) /\ b.last
    <3>1. b.proof = "good" => b.number \in decided'
      BY <1>4, <2>2, <2>4 DEF DistSyncAdd, b
    <3>2. block_map' = block_map \/ block_map' = SetProof(block_map, b.number, b)
      BY <2>4 DEF add_sync_block
    <3> QED
      BY <1>0, <1>1, <1>2, <2>3, <3>1, <3>2 DEF MapInv, DistFrame
  <2>5. CASE add_sync_block(b) /\ ~b.last /\ b.number - 1 = max_height
    <3>1. b.proof = "good" /\ b.number - 1 \in Heights => b.number - 1 \in decided'
      BY <1>4, <2>2, <2>5 DEF DistSyncAdd, b
    <3>2. block_map' = [SetProof(block_map, b.number - 1, b) EXCEPT ![b.number] =
                          [kind |-> "Sync", root |-> Decided[b.number], proof |-> "none"]]
      BY <2>5 DEF add_sync_block
    <3>3. DOMAIN SetProof(block_map, b.number - 1, b) = Heights
      BY DEF SetProof, TypeOK
    <3>4. ASSUME NEW h \in Heights, h # b.number
          PROVE  block_map'[h] = SetProof(block_map, b.number - 1, b)[h]
      BY <3>2, <3>3, <3>4
    <3>5. block_map'[b.number] =
            [kind |-> "Sync", root |-> Decided[b.number], proof |-> "none"]
      BY <2>2, <3>2, <3>3
    <3> QED
      BY <1>0, <1>1, <2>3, <3>1, <3>4, <3>5 DEF MapInv, DistFrame
  <2>6. CASE add_sync_block(b) /\ ~b.last /\ b.number - 1 # max_height
    BY <1>2, <2>6 DEF add_sync_block
  <2> QED
    BY <1>2, <1>4, <2>4, <2>5, <2>6 DEF DistSyncAdd, b
<1> QED
  BY Zenon, <1>2, <1>3, <1>4
  DEF Receive, Distribute, RecvConsensus, RecvProposal, RecvSync, DistReadStage,
      DistDecide, DistLoadFlag, DistSetFlag, DistSend, DistSyncSend, shared

-----------------------------------------------------------------------------
(* Steps of the main thread that do not commit.                            *)

MainWork ==
  \/ MainRecv \/ MainReadStage \/ MainConsensus \/ MainStart
  \/ apply_transactions \/ send_executed_info_to_chain \/ write_batch
  \/ MainFinish \/ MainClean \/ MainSync \/ MainSyncFlag
  \/ MainSyncClone \/ MainSyncLoop \/ MainProposal \/ MainStartProposal
  \/ MainExecuted \/ MainReread \/ MainWait

LEMMA MainFrame ==
  ASSUME MainWork
  PROVE  UNCHANGED <<current_header, decided, d>>
<1>1. CASE MainRecv
  BY <1>1 DEF MainRecv, history
<1>2. CASE MainReadStage
  BY <1>2 DEF MainReadStage, history, shared
<1>3. CASE MainConsensus
  BY <1>3 DEF MainConsensus, history
<1>4. CASE MainStart
  BY <1>4 DEF MainStart, history
<1>5. CASE apply_transactions
  BY <1>5 DEF apply_transactions, history, shared
<1>6. CASE send_executed_info_to_chain
  BY <1>6 DEF send_executed_info_to_chain, history
<1>7. CASE write_batch
  BY <1>7 DEF write_batch, history
<1>8. CASE MainFinish
  BY <1>8 DEF MainFinish, history
<1>9. CASE MainClean
  BY <1>9 DEF MainClean, history
<1>10. CASE MainSync
  BY <1>10 DEF MainSync, history
<1>11. CASE MainSyncFlag
  BY <1>11 DEF MainSyncFlag, history
<1>12. CASE MainSyncClone
  BY <1>12 DEF MainSyncClone, history, shared
<1>13. CASE MainSyncLoop
  BY <1>13 DEF MainSyncLoop, history
<1>14. CASE MainProposal
  BY <1>14 DEF MainProposal, history
<1>15. CASE MainStartProposal
  BY <1>15 DEF MainStartProposal, history
<1>16. CASE MainExecuted
  BY <1>16 DEF MainExecuted, history
<1>17. CASE MainReread
  BY <1>17 DEF MainReread, history, shared
<1>18. CASE MainWait
  BY <1>18 DEF MainWait, history
<1> QED
  BY <1>1, <1>2, <1>3, <1>4, <1>5, <1>6, <1>7, <1>8, <1>9,
     <1>10, <1>11, <1>12, <1>13, <1>14, <1>15, <1>16, <1>17, <1>18
  DEF MainWork

LEMMA MainMaps ==
  ASSUME IInv, MainWork
  PROVE  DistInv' /\ MapInv' /\ SyncMapInv'
<1> USE DEF IInv
<1>0. UNCHANGED <<current_header, decided, d>>
  BY MainFrame
<1>1. ASSUME NEW h PROVE FromDist(h)' = FromDist(h)
  BY <1>0 DEF FromDist, Blocks
<1>2. DistInv'
  BY SMTT(30), <1>0, <1>1 DEF DistInv
<1>3. \A h \in Heights : block_map'[h] = block_map[h] \/ block_map'[h] = NoEntry
  <2>1. CASE MainClean
    BY <2>1 DEF MainClean, split_off
  <2>2. CASE MainSyncLoop
    BY <2>2 DEF MainSyncLoop, EmptyMap
  <2> QED
    BY <2>1, <2>2
    DEF MainWork, MainRecv, MainReadStage, MainConsensus, MainStart, apply_transactions,
        send_executed_info_to_chain, write_batch, MainFinish, MainSync, MainSyncFlag,
        MainSyncClone, MainProposal, MainStartProposal, MainExecuted, MainReread,
        MainWait, shared
<1>4. MapInv'
  BY SMTT(30), <1>0, <1>1, <1>3 DEF MapInv, NoEntry
<1>5. \A h \in Heights : \/ sync_map'[h] = sync_map[h]
                         \/ sync_map'[h] = block_map[h]
                         \/ sync_map'[h] = NoEntry
  <2>1. CASE MainSyncLoop
    BY <2>1 DEF MainSyncLoop, EmptyMap, TypeOK
  <2> QED
    BY <2>1
    DEF MainWork, MainRecv, MainReadStage, MainConsensus, MainStart, apply_transactions,
        send_executed_info_to_chain, write_batch, MainFinish, MainSync, MainSyncFlag,
        MainSyncClone, MainProposal, MainStartProposal, MainExecuted, MainReread,
        MainWait, MainClean
<1>6. SyncMapInv'
  BY <1>0, <1>5 DEF MapInv, SyncMapInv, NoEntry
<1> QED
  BY <1>2, <1>4, <1>6

LEMMA MainLocals ==
  ASSUME IInv, MainWork
  PROVE  HeaderInv' /\ MainInv' /\ StageInv'
<1> USE DEF IInv
<1>0. UNCHANGED <<current_header, decided, d>>
  BY MainFrame
<1>a. ASSUME NEW h PROVE FromDist(h)' = FromDist(h)
  BY <1>0 DEF FromDist, Blocks
<1>b. m \in MainThread /\ Blocks' = Blocks /\ DOMAIN m = {"pc", "number", "entry", "stage", "mode", "checks", "block"}
  BY <1>0 DEF TypeOK, MainThread, Blocks
<1>1. CASE MainRecv
  <2>1. HeaderInv'
    BY <1>0, <1>b, <1>1 DEF MainRecv, HeaderInv, FinalHeader, MainThread
  <2>2. MainInv'
    <3>1. m'.pc = "ReadStage" /\ m'.number = Head(queue)
          /\ m'.entry = EntryAt(block_map, Head(queue))
      BY <1>1 DEF MainRecv, MainIdle
    <3>2. \/ m'.entry = NoEntry
          \/ m'.number \in Heights /\ m'.entry = block_map[m'.number]
      BY <3>1 DEF EntryAt
    <3>3. /\ m'.entry.kind = "Consensus" => m'.number \in decided
          /\ m'.entry.kind = "Proposal" => FromDist(m'.number)
      BY <3>2 DEF MapInv, NoEntry
    <3> QED
      BY <1>0, <3>1, <3>3 DEF MainInv, FromDist, Blocks
  <2>3. StageInv'
    BY <1>0, <1>a, <1>b, <1>1 DEF MainRecv, StageInv, MainThread, OnCurrent
  <2> QED
    BY <2>1, <2>2, <2>3
<1>2. CASE MainReadStage
  <2>1. HeaderInv'
    BY <1>0, <1>b, <1>2 DEF MainReadStage, HeaderInv, FinalHeader, MainThread, shared
  <2>2. MainInv'
    <3>1. m.entry.kind # "None" => m.entry # NoEntry
      BY DEF NoEntry
    <3>2. UNCHANGED stage
      BY <1>2 DEF MainReadStage, shared
    <3>3. m' = [m EXCEPT !.stage = stage, !.pc = m'.pc]
      BY <1>2, <1>b DEF MainReadStage
    <3>4. \/ m'.pc = "Consensus" /\ m.entry.kind = "Consensus"
          \/ m'.pc = "Proposal" /\ m.entry.kind = "Proposal"
          \/ m'.pc \in {"Sync", "Recv"}
      BY <1>2, <1>b DEF MainReadStage
    <3>5. m'.entry = m.entry /\ m'.number = m.number /\ m'.stage = stage
      BY Zenon, <3>3, <1>b
    <3>6. m.pc = "ReadStage"
      BY <1>2 DEF MainReadStage
    <3> QED
      BY <1>0, <3>1, <3>2, <3>4, <3>5, <3>6 DEF MainInv, FromDist, Blocks
  <2>3. StageInv'
    BY <1>0, <1>a, <1>b, <1>2 DEF MainReadStage, StageInv, MainThread, OnCurrent, shared
  <2> QED
    BY <2>1, <2>2, <2>3
<1>3. CASE MainConsensus
  <2>1. HeaderInv'
    BY Zenon, <1>0, <1>b, <1>3 DEF MainConsensus, HeaderInv, FinalHeader, MainThread
  <2>2. MainInv'
    <3>0. m.entry # NoEntry /\ m.number \in decided /\ m.stage = stage /\ UNCHANGED stage
      BY <1>3 DEF MainConsensus, MainInv
    <3>1. validates(m.number) => NextDecided
      <4>1. current_header.number \in Nat /\ current_header.hash \in Seq(Roots)
            /\ m.number \in Nat
        BY <1>b DEF TypeOK, Header, MainThread
      <4> QED
        BY <3>0, <4>1, ParentLen
        DEF validates, validate_height, validate_hash, NextDecided, Blocks
    <3>2. CASE m'.pc \in {"Recv", "Finish"}
      BY <3>2 DEF MainInv
    <3>3. CASE m' = [m EXCEPT !.pc = "Start", !.mode = "block"] /\ validates(m.number)
      <4>1. m'.pc = "Start" /\ m'.mode = "block" /\ m'.number = m.number
            /\ m'.entry = m.entry
        BY <3>3, <1>b DEF MainThread
      <4> QED
        BY <1>0, <3>0, <3>1, <3>3, <4>1 DEF MainInv, NextDecided, Blocks
    <3>4. CASE /\ m' = [m EXCEPT !.pc = "Start", !.block = closed_block,
                           !.mode = IF closed_block = NoBlock THEN "block"
                                    ELSE "finalize"]
               /\ validates(m.number)
               /\ m.stage = "WaitFinalized"
      <4>1. m'.pc = "Start" /\ m'.mode \in {"block", "finalize"} /\ m'.number = m.number
            /\ m'.entry = m.entry /\ m'.block = closed_block
        BY <3>4, <1>b DEF MainThread
      <4>2. OnCurrent(closed_block)
        BY <1>3, <3>0, <3>4 DEF StageInv, MainConsensus
      <4> QED
        BY <1>0, <3>0, <3>1, <3>4, <4>1, <4>2
        DEF MainInv, NextDecided, Blocks, OnCurrent, FromDist
    <3> QED
      BY <1>3, <1>b, <3>2, <3>3, <3>4 DEF MainConsensus, MainThread
  <2>3. StageInv'
    <3>1. UNCHANGED stage /\ m.stage = stage /\ m.pc = "Consensus"
      BY <1>3 DEF MainConsensus, MainInv
    <3>2. CASE stage # "WaitFinalized"
      BY <3>1, <3>2 DEF StageInv
    <3>3. CASE stage = "WaitFinalized" /\ m'.pc = "Start"
      BY <3>3 DEF StageInv
    <3>4. CASE stage = "WaitFinalized" /\ m'.pc = "Recv" /\ UNCHANGED closed_block
      BY <1>0, <3>1, <3>4 DEF StageInv, OnCurrent, FromDist, Blocks
    <3> QED
      BY Zenon, <1>3, <1>b, <3>1, <3>2, <3>3, <3>4 DEF MainConsensus, MainThread
  <2> QED
    BY <2>1, <2>2, <2>3
<1>4. CASE MainStart
  <2>1. HeaderInv'
    BY <1>0, <1>b, <1>4 DEF MainStart, HeaderInv, FinalHeader, MainThread
  <2>2. MainInv'
    <3>1. NextDecided /\ m.entry # NoEntry /\ m.mode \in {"block", "finalize"}
          /\ (m.mode = "finalize" => OnCurrent(m.block))
      BY <1>4 DEF MainStart, MainInv
    <3>2. CASE m.mode = "block"
      <4>1. m'.pc = "Apply" /\ m'.mode = m.mode /\ m'.number = m.number
            /\ m'.entry = m.entry
        BY <1>4, <1>b, <3>2 DEF MainStart, MainThread
      <4> QED
        BY <1>0, <3>1, <3>2, <4>1 DEF MainInv, NextDecided, Blocks
    <3>3. CASE m.mode = "finalize"
      <4>1. m'.pc = "Publish" /\ m'.block = m.block
        BY <1>4, <1>b, <3>3 DEF MainStart, MainThread
      <4>2. m.block.number \in Nat /\ Blocks \in Nat
        BY <1>b DEF MainThread, Closed, NoBlock, TypeOK, Header, Blocks
      <4>3. m.block.number # 0 => m.block.number \in decided
        BY <3>1, <3>3, <4>2 DEF OnCurrent, FromDist, NextDecided, HeaderInv
      <4> QED
        BY <1>0, <3>1, <3>3, <4>1, <4>3 DEF MainInv, OnCurrent, FromDist, Blocks
    <3> QED
      BY <3>1, <3>2, <3>3
  <2>3. StageInv'
    BY <1>0, <1>a, <1>b, <1>4 DEF MainStart, StageInv, MainThread, OnCurrent
  <2> QED
    BY <2>1, <2>2, <2>3
<1>5. CASE apply_transactions
  <2>1. HeaderInv'
    <3>1. m.pc = "Apply" /\ m'.pc \notin {"Write", "Commit"}
          /\ UNCHANGED <<persisted, result>>
      BY <1>5, <1>b DEF apply_transactions, Resume, MainThread, shared
    <3> QED
      BY <1>0, <3>1 DEF HeaderInv, Blocks
  <2>2. MainInv'
    <3>1. m.pc = "Apply" /\ m.entry # NoEntry /\ m.mode \in {"block", "sync", "proposal"}
          /\ (m.mode # "proposal" => NextDecided)
          /\ (m.mode = "proposal" => FromDist(m.number))
      BY <1>5 DEF apply_transactions, MainInv
    <3>2. CASE m.checks = 0
      <4> DEFINE blk == [number |-> m.number, root |-> m.entry.root,
                         base |-> current_header.hash]
      <4>1. m'.pc = (IF m.mode = "proposal" THEN "Executed" ELSE "Publish")
            /\ m'.block = blk /\ m'.mode = m.mode /\ m'.number = m.number
        BY <1>5, <1>b, <3>2 DEF apply_transactions, MainThread
      <4>2. blk # NoBlock
        <5>1. m.entry.root \in Roots
          BY <1>b, <3>1, RealEntry DEF MainThread
        <5> QED
          BY <5>1, ExecutorAssumption DEF NoBlock
      <4>3. FromDist(m.number)
        BY <3>1 DEF FromDist, NextDecided
      <4>4. OnCurrent(blk)
        BY <4>2, <4>3 DEF OnCurrent
      <4> QED
        BY <1>0, <3>1, <4>1, <4>4 DEF MainInv, OnCurrent, FromDist, Blocks, NextDecided
    <3>3. CASE m.checks # 0 /\ is_interrupted
      <4>1. m'.pc \in {"SyncLoop", "Recv", "Finish"}
        BY <1>5, <1>b, <3>3 DEF apply_transactions, Resume, MainThread
      <4> QED
        BY <4>1 DEF MainInv
    <3>4. CASE m.checks # 0 /\ ~is_interrupted
      <4>1. m'.pc = "Apply" /\ m'.mode = m.mode /\ m'.number = m.number
            /\ m'.entry = m.entry
        BY <1>5, <1>b, <3>1, <3>4 DEF apply_transactions, MainThread
      <4> QED
        BY <1>0, <3>1, <4>1 DEF MainInv, NextDecided, FromDist, Blocks
    <3> QED
      BY <3>2, <3>3, <3>4 DEF TypeOK
  <2>3. StageInv'
    BY <1>0, <1>a, <1>b, <1>5 DEF apply_transactions, StageInv, MainThread, OnCurrent, shared
  <2> QED
    BY <2>1, <2>2, <2>3
<1>6. CASE send_executed_info_to_chain
  <2>1. HeaderInv'
    BY <1>0, <1>b, <1>6 DEF send_executed_info_to_chain, HeaderInv, FinalHeader, MainThread
  <2>2. MainInv'
    BY <1>0, <1>a, <1>b, <1>6 DEF send_executed_info_to_chain, MainInv, MainThread, OnCurrent, NextDecided
  <2>3. StageInv'
    BY <1>0, <1>a, <1>b, <1>6 DEF send_executed_info_to_chain, StageInv, MainThread, OnCurrent
  <2> QED
    BY <2>1, <2>2, <2>3
<1>7. CASE write_batch
  <2>1. HeaderInv'
    BY <1>0, <1>b, <1>7 DEF write_batch, HeaderInv, FinalHeader, MainThread
  <2>2. MainInv'
    BY <1>0, <1>a, <1>b, <1>7 DEF write_batch, MainInv, MainThread, OnCurrent, NextDecided
  <2>3. StageInv'
    BY <1>0, <1>a, <1>b, <1>7 DEF write_batch, StageInv, MainThread, OnCurrent
  <2> QED
    BY <2>1, <2>2, <2>3
<1>8. CASE MainFinish
  <2>1. HeaderInv'
    BY <1>0, <1>b, <1>8 DEF MainFinish, HeaderInv, FinalHeader, MainThread
  <2>2. MainInv'
    BY <1>0, <1>a, <1>b, <1>8 DEF MainFinish, MainInv, MainThread, OnCurrent, NextDecided
  <2>3. StageInv'
    BY <1>0, <1>a, <1>b, <1>8 DEF MainFinish, StageInv, MainThread, OnCurrent
  <2> QED
    BY <2>1, <2>2, <2>3
<1>9. CASE MainClean
  <2>1. HeaderInv'
    BY <1>0, <1>b, <1>9 DEF MainClean, HeaderInv, FinalHeader, MainThread
  <2>2. MainInv'
    BY <1>0, <1>a, <1>b, <1>9 DEF MainClean, MainInv, MainThread, OnCurrent, NextDecided
  <2>3. StageInv'
    BY <1>0, <1>a, <1>b, <1>9 DEF MainClean, StageInv, MainThread, OnCurrent
  <2> QED
    BY <2>1, <2>2, <2>3
<1>10. CASE MainSync
  <2>1. HeaderInv'
    BY <1>0, <1>b, <1>10 DEF MainSync, HeaderInv, FinalHeader, MainThread
  <2>2. MainInv'
    BY <1>0, <1>a, <1>b, <1>10 DEF MainSync, MainInv, MainThread, OnCurrent, NextDecided
  <2>3. StageInv'
    BY <1>0, <1>a, <1>b, <1>10 DEF MainSync, StageInv, MainThread, OnCurrent
  <2> QED
    BY <2>1, <2>2, <2>3
<1>11. CASE MainSyncFlag
  <2>1. HeaderInv'
    BY <1>0, <1>b, <1>11 DEF MainSyncFlag, HeaderInv, FinalHeader, MainThread
  <2>2. MainInv'
    BY <1>0, <1>a, <1>b, <1>11 DEF MainSyncFlag, MainInv, MainThread, OnCurrent, NextDecided
  <2>3. StageInv'
    BY <1>0, <1>a, <1>b, <1>11 DEF MainSyncFlag, StageInv, MainThread, OnCurrent
  <2> QED
    BY <2>1, <2>2, <2>3
<1>12. CASE MainSyncClone
  <2>1. HeaderInv'
    BY <1>0, <1>b, <1>12 DEF MainSyncClone, HeaderInv, FinalHeader, MainThread, shared
  <2>2. MainInv'
    BY <1>0, <1>a, <1>b, <1>12 DEF MainSyncClone, MainInv, MainThread, OnCurrent, NextDecided, shared
  <2>3. StageInv'
    BY <1>0, <1>a, <1>b, <1>12 DEF MainSyncClone, StageInv, MainThread, OnCurrent, shared
  <2> QED
    BY <2>1, <2>2, <2>3
<1>13. CASE MainSyncLoop
  <2>1. HeaderInv'
    BY Zenon, <1>0, <1>b, <1>13 DEF MainSyncLoop, HeaderInv, FinalHeader, MainThread
  <2>2. MainInv'
    <3> DEFINE e == EntryAt(sync_map, m.number)
    <3>1. CASE m'.pc = "SyncEnd"
      BY <3>1 DEF MainInv
    <3>2. CASE m'.pc # "SyncEnd"
      <4>1. /\ e.proof = "good" /\ validates(m.number)
            /\ m' = [m EXCEPT !.pc = "Apply", !.mode = "sync", !.entry = e,
                        !.checks = Checks[e.root]]
        BY <1>13, <1>b, <3>2, RealEntry, EntryAtType DEF MainSyncLoop, TypeOK, Entry, NoEntry
      <4>2. e # NoEntry /\ m.number \in decided
        BY <4>1 DEF EntryAt, NoEntry, SyncMapInv
      <4>3. NextDecided
        <5>1. current_header.number \in Nat /\ current_header.hash \in Seq(Roots)
              /\ m.number \in Nat
          BY <1>b DEF TypeOK, Header, MainThread
        <5> QED
          BY <4>1, <4>2, <5>1, ParentLen
          DEF validates, validate_height, validate_hash, NextDecided, Blocks
      <4> HIDE DEF e
      <4>4. m'.pc = "Apply" /\ m'.mode = "sync" /\ m'.entry = e /\ m'.number = m.number
        BY <1>b, <4>1 DEF MainThread
      <4> QED
        BY <1>0, <4>2, <4>3, <4>4 DEF MainInv, NextDecided, Blocks
    <3> QED
      BY <3>1, <3>2
  <2>3. StageInv'
    BY <1>0, <1>a, <1>b, <1>13 DEF MainSyncLoop, StageInv, MainThread, OnCurrent
  <2> QED
    BY <2>1, <2>2, <2>3
<1>14. CASE MainProposal
  <2>1. HeaderInv'
    BY <1>0, <1>b, <1>14 DEF MainProposal, HeaderInv, FinalHeader, MainThread
  <2>2. MainInv'
    BY <1>0, <1>a, <1>b, <1>14 DEF MainProposal, MainInv, MainThread, OnCurrent, NextDecided
  <2>3. StageInv'
    BY <1>0, <1>a, <1>b, <1>14 DEF MainProposal, StageInv, MainThread, OnCurrent
  <2> QED
    BY <2>1, <2>2, <2>3
<1>15. CASE MainStartProposal
  <2>1. HeaderInv'
    BY <1>0, <1>b, <1>15 DEF MainStartProposal, HeaderInv, FinalHeader, MainThread
  <2>2. MainInv'
    BY <1>0, <1>a, <1>b, <1>15 DEF MainStartProposal, MainInv, MainThread, OnCurrent, NextDecided
  <2>3. StageInv'
    BY <1>0, <1>a, <1>b, <1>15 DEF MainStartProposal, StageInv, MainThread, OnCurrent
  <2> QED
    BY <2>1, <2>2, <2>3
<1>16. CASE MainExecuted
  <2>1. HeaderInv'
    BY <1>0, <1>b, <1>16 DEF MainExecuted, HeaderInv, FinalHeader, MainThread
  <2>2. MainInv'
    BY <1>0, <1>a, <1>b, <1>16 DEF MainExecuted, MainInv, MainThread, OnCurrent, NextDecided
  <2>3. StageInv'
    BY <1>0, <1>a, <1>b, <1>16 DEF MainExecuted, StageInv, MainThread, OnCurrent
  <2> QED
    BY <2>1, <2>2, <2>3
<1>17. CASE MainReread
  <2>1. HeaderInv'
    BY <1>0, <1>b, <1>17 DEF MainReread, HeaderInv, FinalHeader, MainThread, shared
  <2>2. MainInv'
    <3> DEFINE e == EntryAt(block_map, m.number)
    <3>1. m.pc = "Reread" /\ m.mode = "proposal" /\ OnCurrent(m.block)
          /\ m.block.number = m.number
      BY <1>17 DEF MainReread, MainInv
    <3>2. e.kind = "Consensus" => m.number \in decided
      BY DEF EntryAt, NoEntry, MapInv
    <3> HIDE DEF e
    <3>3. m'.mode = m.mode /\ m'.block = m.block /\ m'.number = m.number
      BY <1>17, <1>b DEF MainReread, MainThread
    <3>4. \/ m'.pc = "Publish" /\ e.kind = "Consensus"
          \/ m'.pc \in {"Wait", "Recv"}
      BY <1>17, <1>b DEF MainReread, MainThread, e
    <3> QED
      BY <1>0, <3>1, <3>2, <3>3, <3>4 DEF MainInv, OnCurrent, FromDist, Blocks
  <2>3. StageInv'
    BY <1>0, <1>a, <1>b, <1>17 DEF MainReread, StageInv, MainThread, OnCurrent, shared
  <2> QED
    BY <2>1, <2>2, <2>3
<1>18. CASE MainWait
  <2>1. HeaderInv'
    BY <1>0, <1>b, <1>18 DEF MainWait, HeaderInv, FinalHeader, MainThread
  <2>2. MainInv'
    BY <1>0, <1>a, <1>b, <1>18 DEF MainWait, MainInv, MainThread, OnCurrent, NextDecided
  <2>3. StageInv'
    <3>1. OnCurrent(m.block)
      BY <1>18 DEF MainWait, MainInv
    <3>2. m'.pc = "Recv" /\ closed_block' = m.block
      BY <1>18, <1>b DEF MainWait, MainThread
    <3> QED
      BY <1>0, <3>1, <3>2 DEF StageInv, OnCurrent, FromDist, Blocks
  <2> QED
    BY <2>1, <2>2, <2>3
<1> QED
  BY <1>1, <1>2, <1>3, <1>4, <1>5, <1>6, <1>7, <1>8, <1>9,
     <1>10, <1>11, <1>12, <1>13, <1>14, <1>15, <1>16, <1>17, <1>18
  DEF MainWork

-----------------------------------------------------------------------------
(* The commit: one block is added, and a validated height stays validated. *)

LEMMA CommitAdds ==
  ASSUME IInv, m.pc \in {"Publish", "Write", "Commit"},
         current_header' = FinalHeader, decided' = decided
  PROVE  /\ Blocks' = Blocks + 1
         /\ \A h \in Nat : FromDist(h) => FromDist(h)'
         /\ current_header'.number = Blocks' => 1..Blocks' \subseteq decided
         /\ current_header'.number # 0 => current_header'.number \in decided
<1> USE DEF IInv
<1>1. OnCurrent(m.block) /\ (m.block.number # 0 => m.block.number \in decided)
  BY DEF MainInv
<1>2. m.block \in [number : Nat, root : Roots, base : Seq(Roots)]
  BY <1>1 DEF OnCurrent, TypeOK, MainThread, Closed
<1>3. current_header.hash \in Seq(Roots) /\ current_header.number \in Nat /\ Blocks \in Nat
  BY DEF TypeOK, Header, Blocks
<1>4. Blocks' = Blocks + 1 /\ current_header'.number = m.block.number
  BY <1>1, <1>2, <1>3 DEF Blocks, FinalHeader, OnCurrent
<1>5. ASSUME NEW h \in Nat, FromDist(h) PROVE FromDist(h)'
  BY <1>3, <1>4, <1>5 DEF FromDist
<1>6. ASSUME m.block.number = Blocks + 1 PROVE 1..(Blocks + 1) \subseteq decided
  <2>1. current_header.number = Blocks
    BY <1>1, <1>3, <1>6 DEF OnCurrent, FromDist
  <2>2. 1..Blocks \subseteq decided
    BY <2>1 DEF HeaderInv
  <2> QED
    BY <1>1, <1>3, <1>6, <2>2
<1> QED
  BY <1>1, <1>4, <1>5, <1>6

LEMMA CommitStep ==
  ASSUME IInv, MainCommit
  PROVE  HeaderInv' /\ MapInv' /\ SyncMapInv' /\ DistInv' /\ MainInv' /\ StageInv'
<1> USE DEF IInv
<1>1. m.pc = "Commit" /\ current_header' = FinalHeader
      /\ UNCHANGED <<decided, persisted, result, block_map, sync_map, d, stage>>
  BY DEF MainCommit, history
<1>2. \A h \in Nat : FromDist(h) => FromDist(h)'
  BY <1>1, CommitAdds
<1>3. m'.pc \in {"SyncLoop", "EndProposal", "Finish"}
  BY DEF MainCommit, Resume, TypeOK, MainThread
<1>4. HeaderInv'
  BY <1>1, <1>3, CommitAdds DEF HeaderInv
<1>5. MapInv'
  BY <1>1, <1>2, ExecutorAssumption DEF MapInv, Heights
<1>6. SyncMapInv'
  BY <1>1 DEF SyncMapInv
<1>7. DistInv'
  <2>1. d.number \in Nat
    BY ExecutorAssumption DEF TypeOK, DistThread, Heights
  <2> QED
    BY <1>1, <1>2, <2>1 DEF DistInv
<1>8. MainInv'
  BY <1>3 DEF MainInv
<1>9. StageInv'
  BY <1>1 DEF StageInv
<1> QED
  BY <1>4, <1>5, <1>6, <1>7, <1>8, <1>9

LEMMA CrashStep ==
  ASSUME IInv, Crash
  PROVE  IInv'
<1> USE DEF IInv
<1>1. TypeOK'
  <2>1. queue' \in Seq(Nat) /\ stage' \in Stages /\ max_height' \in Nat
    BY DEF Crash, Stages, TypeOK, Header
  <2>2. crashes' \in Nat
    BY DEF Crash, TypeOK
  <2>3. UNCHANGED <<persisted, decided, copies, msgs>>
    BY DEF Crash
  <2>4. m' \in MainThread /\ d' \in DistThread /\ closed_block' \in Closed
        /\ block_map' \in [Heights -> Entry] /\ sync_map' \in [Heights -> Entry]
    BY IdleTypes DEF Crash
  <2>5. current_header' \in Header /\ result' \in Header
        /\ is_interrupted' \in BOOLEAN /\ is_sync' \in BOOLEAN
    BY ZenonT(60) DEF Crash, TypeOK
  <2> QED
    BY <2>1, <2>2, <2>3, <2>4, <2>5 DEF TypeOK
<1>2. /\ current_header'.number = Blocks' => 1..Blocks' \subseteq decided
      /\ current_header'.number # 0 => current_header'.number \in decided
  <2>1. CASE m.pc = "Commit"
    BY <2>1, CommitAdds DEF Crash, HeaderInv
  <2>2. CASE m.pc # "Commit"
    BY <2>2 DEF Crash, HeaderInv, Blocks
  <2> QED
    BY <2>1, <2>2
<1>3. m'.pc = "Recv" /\ d'.pc = "Recv" /\ d'.kind = "Proposal" /\ stage' = "Idle"
  BY DEF Crash, MainIdle, DistIdle
<1>4. HeaderInv'
  BY <1>2, <1>3 DEF Crash, HeaderInv
<1>5. MapInv' /\ SyncMapInv'
  BY DEF Crash, MapInv, SyncMapInv, EmptyMap, NoEntry
<1>6. DistInv' /\ MainInv' /\ StageInv'
  BY <1>3 DEF DistInv, MainInv, StageInv
<1> QED
  BY <1>1, <1>4, <1>5, <1>6

LEMMA InitHolds ==
  ASSUME Init
  PROVE  IInv
<1>1. TypeOK
  <2>1. Genesis \in Header
    BY DEF Genesis, Header
  <2>2. queue \in Seq(Nat) /\ stage \in Stages /\ copies \in [Heights -> Nat]
    BY DEF Init, Stages
  <2> QED
    BY Zenon, <2>1, <2>2, IdleTypes DEF Init, TypeOK
<1>2. HeaderInv
  BY DEF Init, HeaderInv, Genesis, MainIdle, Blocks
<1>3. MapInv /\ SyncMapInv
  BY DEF Init, MapInv, SyncMapInv, EmptyMap, NoEntry
<1>4. DistInv /\ MainInv /\ StageInv
  BY DEF Init, DistInv, MainInv, StageInv, DistIdle, MainIdle
<1> QED
  BY <1>1, <1>2, <1>3, <1>4 DEF IInv

LEMMA StepKeeps ==
  ASSUME IInv, [Next]_vars
  PROVE  IInv'
<1>1. CASE Receive \/ Distribute
  BY <1>1, TypeDist, DistFrameHolds, DistKeeps, DistDistInv, DistMapInv DEF IInv
<1>2. CASE MainWork
  <2>1. Main
    BY <1>2 DEF MainWork, Main
  <2> QED
    BY <1>2, <2>1, TypeMain, MainMaps, MainLocals DEF IInv
<1>3. CASE MainCommit
  <2>1. Main
    BY <1>3 DEF Main
  <2> QED
    BY <1>3, <2>1, TypeMain, CommitStep DEF IInv
<1>4. CASE Crash
  BY <1>4, CrashStep
<1>5. CASE MainTimeout \/ UNCHANGED vars
  <2>1. UNCHANGED vars
    BY <1>5 DEF MainTimeout
  <2> USE <2>1 DEF vars, shared, history
  <2>2. TypeOK'
    BY SMTT(30) DEF IInv, TypeOK
  <2>3. HeaderInv'
    BY DEF IInv, HeaderInv, Blocks, FinalHeader
  <2>4. MapInv' /\ SyncMapInv' /\ DistInv'
    <3>1. MapInv'
      BY DEF IInv, MapInv, FromDist, Blocks
    <3>2. SyncMapInv'
      BY DEF IInv, SyncMapInv
    <3>3. DistInv'
      BY SMTT(30) DEF IInv, DistInv, FromDist, Blocks
    <3> QED  BY <3>1, <3>2, <3>3
  <2>5. MainInv' /\ StageInv'
    BY DEF IInv, MainInv, StageInv, OnCurrent, NextDecided, FromDist, Blocks, FinalHeader
  <2> QED
    BY <2>2, <2>3, <2>4, <2>5 DEF IInv
<1> QED
  BY <1>1, <1>2, <1>3, <1>4, <1>5 DEF Next, Main, MainWork

\* Every reachable state satisfies the inductive invariant.
THEOREM Invariance == Spec => []IInv
<1>1. Init => IInv
  BY InitHolds
<1>2. IInv /\ [Next]_vars => IInv'
  BY StepKeeps
<1> QED
  BY <1>1, <1>2, PTL DEF Spec

\* The variables of the two threads keep their types.
THEOREM TypeCorrect == Spec => []TypeOK
<1>1. IInv => TypeOK
  BY DEF IInv
<1> QED
  BY <1>1, Invariance, PTL

\* Whatever the interleaving of the two threads, the copies and the crashes,
\* execute_block makes no height final before a decision for it arrived.
THEOREM DecidedCommitted == Spec => []OnlyDecidedCommitted
<1>1. IInv => OnlyDecidedCommitted
  <2> SUFFICES ASSUME IInv PROVE OnlyDecidedCommitted
    OBVIOUS
  <2>1. current_header.number # 0 => current_header.number \in decided
    BY DEF IInv, HeaderInv
  <2>2. m.pc \in {"Write", "Commit"} => (FinalHeader.number # 0 => FinalHeader.number \in decided)
    BY DEF IInv, MainInv, FinalHeader
  <2> QED
    BY <2>1, <2>2 DEF IInv, HeaderInv, OnlyDecidedCommitted
<1> QED
  BY <1>1, Invariance, PTL

\* The branch commented "Maybe never reach" for a missing closed block is
\* never reached.
THEOREM ClosedAtHand == Spec => []ClosedBlockAtHand
<1>1. IInv => ClosedBlockAtHand
  BY DEF IInv, MainInv, StageInv, OnCurrent, ClosedBlockAtHand
<1> QED
  BY <1>1, Invariance, PTL

=============================================================================
