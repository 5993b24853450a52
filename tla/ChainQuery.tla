----------------------------- MODULE ChainQuery -----------------------------
(***************************************************************************)
(* The queries of the chain service: filters that clients poll, searches   *)
(* in the index of log blooms, receipts.  The forward thread answers them  *)
(* one at a time while the writer thread commits blocks and the main       *)
(* thread drops cached data.                                               *)
(*                                                                         *)
(* Bodies, headers, receipts and addresses of transactions never change    *)
(* once they are written, so it makes no difference whether they are read  *)
(* from disk or from a cache.  A group of blooms changes with every block  *)
(* that has logs.  The model has one group, which stands for those of all  *)
(* levels that lead to the blocks at hand.  A bloom is what it answers:    *)
(* whether the block has logs to look at.                                  *)
(***************************************************************************)
EXTENDS LogIndex

CONSTANTS
  Blocks,        \* the blocks there are, as sequences of receipts
  MaxHeight,     \* bound on heights
  MaxPolls,      \* bound on filters created
  MaxCollected,  \* bound on rounds of garbage collection
  MaxCrashes     \* bound on restarts of the service

VARIABLES
  height,             \* of current_header
  blocks,             \* on disk: the receipts of block n at n
  disk_blooms,        \* on disk: the blocks in the group of blooms
  blocks_blooms,      \* the group in the cache, or NoGroup
  writer,             \* pc, the block and the group it writes
  reader,             \* pc, the filter, the range searched and the group read from disk
  polls,              \* id -> filter
  next_available_id,
  collected,          \* rounds of garbage collection so far
  restarts            \* restarts so far

store == <<height, blocks, disk_blooms>>
table == <<polls, next_available_id>>
bounds == <<collected, restarts>>
queryVars == <<store, blocks_blooms, writer, reader, table, bounds>>

NoGroup == {-1}
WriterIdle == [pc |-> "recv", block |-> <<>>, group |-> {}]
ReaderIdle == [pc |-> "recv", id |-> 0, from |-> 0, to |-> 0, group |-> {}]

QueryInit ==
  /\ height = 0 /\ blocks = <<>> /\ disk_blooms = {} /\ blocks_blooms = NoGroup
  /\ writer = WriterIdle /\ reader = ReaderIdle
  /\ polls = <<>> /\ next_available_id = 0 /\ collected = 0 /\ restarts = 0

-----------------------------------------------------------------------------
(* What the forward thread finds of block n.                               *)

transaction_address(n) ==
  \/ n \in 1..Len(blocks) /\ blocks[n] # <<>>
  \/ n = height + 1 /\ writer.pc = "addresses" /\ writer.block # <<>>

block_receipts(n) == transaction_address(n)

block_height_by_hash(n) == n <= Len(blocks)

block_header_by_height(n) == n = height \/ n <= Len(blocks)

block_body_by_height(n) == n <= Len(blocks)

block_hash_by_height(n) == block_header_by_height(n)

block_body_by_hash(n) == block_height_by_hash(n) /\ block_body_by_height(n)

transaction_by_address(n) == block_body_by_hash(n)

\* The bloom group, in the cache or on disk.
blooms_at == IF blocks_blooms = NoGroup THEN disk_blooms ELSE blocks_blooms

blocks_with_bloom(from, to) == {n \in blooms_at : from <= n /\ n <= to}

-----------------------------------------------------------------------------
(* The writer thread: set_db_result.                                       *)

HasLogs(block) == \E k \in 1..Len(block) : block[k].logs # <<>>

\* The locks of the caches are held from the first entry to the new header.
CachesFree == writer.pc # "written"

\* The group with the bloom of the next block in it, read as read_with_cache
\* does.  After it the receipts and the addresses of the block can be found.
NewBlock(block) ==
  /\ writer.pc = "recv" /\ height < MaxHeight
  /\ IF HasLogs(block)
     THEN /\ writer' = [pc |-> "addresses", block |-> block, group |-> blooms_at \cup {height + 1}]
          /\ blocks_blooms' = IF blooms_at = {} THEN NoGroup ELSE blooms_at
     ELSE /\ writer' = [pc |-> "addresses", block |-> block, group |-> NoGroup]
          /\ UNCHANGED blocks_blooms
  /\ UNCHANGED <<store, reader, table, bounds>>

\* Caches, then one batch to disk.
WriteBlock ==
  /\ writer.pc = "addresses"
  /\ blocks' = Append(blocks, writer.block)
  /\ IF writer.group = NoGroup THEN UNCHANGED <<blocks_blooms, disk_blooms>>
     ELSE blocks_blooms' = writer.group /\ disk_blooms' = writer.group
  /\ writer' = [writer EXCEPT !.pc = "written"]
  /\ UNCHANGED <<height, reader, table, bounds>>

SetHeader ==
  /\ writer.pc = "written"
  /\ height' = height + 1
  /\ writer' = WriterIdle
  /\ UNCHANGED <<blocks, disk_blooms, blocks_blooms, reader, table, bounds>>

-----------------------------------------------------------------------------
(* The forward thread: filters.                                            *)

\* A filter with the block it starts from, the next one to report and, for the
\* properties, the blocks reported or searched so far, in order.
Poll(kind, n) == [kind |-> kind, start |-> n, block_number |-> n, seen |-> <<>>]

Heights(from, to) == [i \in 1..(IF to < from THEN 0 ELSE to - from + 1) |-> from + i - 1]

HashesOf(from, to) == SelectSeq(Heights(from, to), block_hash_by_height)

create_poll(filter) ==
  /\ next_available_id < MaxPolls
  /\ polls' = polls @@ (next_available_id :> filter)
  /\ next_available_id' = next_available_id + 1

new_filter ==
  /\ reader.pc = "recv" /\ create_poll(Poll("Logs", height))
  /\ UNCHANGED <<store, blocks_blooms, writer, reader, bounds>>

new_block_filter ==
  /\ reader.pc = "recv" /\ create_poll(Poll("Block", height))
  /\ UNCHANGED <<store, blocks_blooms, writer, reader, bounds>>

\* remove_poll on request; prune drops one that was not polled for a minute.
uninstall_filter(id) ==
  /\ reader.pc = "recv" /\ id \in DOMAIN polls
  /\ polls' = [p \in DOMAIN polls \ {id} |-> polls[p]]
  /\ UNCHANGED <<store, blocks_blooms, writer, reader, next_available_id, bounds>>

\* Mutant of BlockChanges: max_height, set before the new header, is what is saved.
BlockChangesSkip(id) ==
  /\ reader.pc = "recv" /\ id \in DOMAIN polls /\ polls[id].kind = "Block"
  /\ polls' = [polls EXCEPT ![id].seen = @ \o HashesOf(polls[id].block_number, height),
                            ![id].block_number = 1 +
                              (IF writer.pc = "written" THEN height + 1 ELSE height)]
  /\ UNCHANGED <<store, blocks_blooms, writer, reader, next_available_id, bounds>>

\* filter_changes of a block filter: one read of the height serves both ends.
BlockChanges(id) ==
  /\ reader.pc = "recv" /\ id \in DOMAIN polls /\ polls[id].kind = "Block"
  /\ polls' = [polls EXCEPT ![id].seen = @ \o HashesOf(polls[id].block_number, height),
                            ![id].block_number = height + 1]
  /\ UNCHANGED <<store, blocks_blooms, writer, reader, next_available_id, bounds>>

\* filter_changes of a log filter: the height now, and what the next poll starts from.
LogChanges(id) ==
  /\ reader.pc = "recv" /\ id \in DOMAIN polls /\ polls[id].kind = "Logs"
  /\ reader' = [ReaderIdle EXCEPT !.pc = "search", !.id = id, !.from = polls[id].block_number]
  /\ polls' = [polls EXCEPT ![id].block_number = height + 1]
  /\ UNCHANGED <<store, blocks_blooms, writer, next_available_id, bounds>>

\* filter_logs, or a search on its own: from the first block.
filter_logs ==
  /\ reader.pc = "recv"
  /\ reader' = [ReaderIdle EXCEPT !.pc = "search", !.id = MaxPolls, !.from = 1]
  /\ UNCHANGED <<store, blocks_blooms, writer, table, bounds>>

\* The end of a search: the filter has seen the range.
Searched(id, to) ==
  IF id \in DOMAIN polls
  THEN [polls EXCEPT ![id].seen = @ \o Heights(reader.from, to)] ELSE polls

\* get_logs: the range ends at the height of this moment.  A group in the cache
\* is used; otherwise the disk is next.
get_logs ==
  /\ reader.pc = "search" /\ CachesFree
  /\ IF blocks_blooms # NoGroup
     THEN reader' = ReaderIdle /\ polls' = Searched(reader.id, height)
     ELSE /\ reader' = [reader EXCEPT !.pc = "read", !.to = height]
          /\ UNCHANGED polls
  /\ UNCHANGED <<store, blocks_blooms, writer, next_available_id, bounds>>

\* read_with_cache after a miss: the disk ...
ReadGroup ==
  /\ reader.pc = "read"
  /\ reader' = [reader EXCEPT !.pc = "fill", !.group = disk_blooms]
  /\ UNCHANGED <<store, blocks_blooms, writer, table, bounds>>

\* ... and what was read goes to the cache.
FillCache ==
  /\ reader.pc = "fill" /\ CachesFree
  /\ blocks_blooms' = IF reader.group = {} THEN blocks_blooms ELSE reader.group
  /\ polls' = Searched(reader.id, reader.to)
  /\ reader' = ReaderIdle
  /\ UNCHANGED <<store, writer, next_available_id, bounds>>

-----------------------------------------------------------------------------
(* The forward thread: receipts.                                           *)

\* localized_receipt: address and receipts of a transaction are found ...
FindReceipt(n) ==
  /\ reader.pc = "recv"
  /\ transaction_address(n) /\ block_receipts(n)
  /\ reader' = [ReaderIdle EXCEPT !.pc = "receipt", !.to = n]
  /\ UNCHANGED <<store, blocks_blooms, writer, table, bounds>>

\* ... and then its block, by the hash.  Where there is none yet the thread panics.
TransactionByAddress ==
  /\ reader.pc = "receipt" /\ CachesFree
  /\ reader' = IF transaction_by_address(reader.to) THEN ReaderIdle
               ELSE [ReaderIdle EXCEPT !.pc = "panicked"]
  /\ UNCHANGED <<store, blocks_blooms, writer, table, bounds>>

-----------------------------------------------------------------------------
(* The main thread, and the end of the process.                            *)

\* What was used longest ago goes; a group may be among it.
collect_garbage ==
  /\ collected < MaxCollected /\ CachesFree
  /\ blocks_blooms # NoGroup /\ blocks_blooms' = NoGroup
  /\ collected' = collected + 1
  /\ UNCHANGED <<store, writer, reader, table, restarts>>

\* The service is stopped at any point and started again.
init_chain ==
  /\ restarts < MaxCrashes
  /\ height' = Len(blocks)
  /\ blocks_blooms' = NoGroup /\ writer' = WriterIdle /\ reader' = ReaderIdle
  /\ polls' = <<>> /\ next_available_id' = 0
  /\ restarts' = restarts + 1
  /\ UNCHANGED <<blocks, disk_blooms, collected>>

set_db_result == (\E block \in Blocks : NewBlock(block)) \/ WriteBlock \/ SetHeader

reply_request ==
  \/ new_filter \/ new_block_filter \/ filter_logs
  \/ \E id \in DOMAIN polls : uninstall_filter(id) \/ BlockChanges(id) \/ LogChanges(id)
  \/ get_logs \/ ReadGroup \/ FillCache
  \/ (\E n \in 1..MaxHeight : FindReceipt(n)) \/ TransactionByAddress

QueryNext == set_db_result \/ reply_request \/ collect_garbage \/ init_chain

QuerySpec == QueryInit /\ [][QueryNext]_queryVars

-----------------------------------------------------------------------------
(* Properties.                                                             *)

\* A client that polls misses no block.  A block filter reports the blocks from
\* the one that was current when it was made, each once and in order, and a log
\* filter at rest has searched every block before the one it continues from,
\* wherever commits fall between the reads of the height.
FiltersMissNothing ==
  \A id \in DOMAIN polls :
    LET p == polls[id] IN
    /\ p.kind = "Block" => p.seen = Heights(p.start, p.block_number - 1)
    /\ (p.kind = "Logs" /\ (reader.pc = "recv" \/ reader.id # id))
         => p.start..(p.block_number - 1) \subseteq {p.seen[i] : i \in 1..Len(p.seen)}

\* Where every transaction of the block just written has a receipt, the search for
\* logs, which numbers them from the last one back, and the receipts, which number
\* them from the first one on, give a log the same place; and a search with a limit
\* gives the last logs of the search without.
QueriesAgree ==
  (writer.pc = "written" /\ NoReceipt \notin {writer.block[k] : k \in 1..Len(writer.block)}) =>
    LET n == Len(blocks)
        all == logs(blocks, <<n>>, {}, Unlimited)
        receipts == [k \in 1..Len(blocks[n]) |-> localized_receipt(blocks[n], k - 1).logs]
    IN  /\ [i \in 1..Len(all) |-> all[i].log] = FlattenSeq(receipts)
        /\ \A limit \in 0..2 : limit_logs(logs(blocks, <<n>>, {}, limit), limit)
                                 = limit_logs(all, limit)

\* blocks_with_bloom gives the numbers of all blocks that have the bloom: between
\* commits, a search finds every block with logs.
BloomsFound ==
  writer.pc = "recv" =>
    \A n \in 1..height : HasLogs(blocks[n]) => n \in blocks_with_bloom(1, height)
=============================================================================
