---------------------------- MODULE Synchronizer ----------------------------
(***************************************************************************)
(* The block synchronizer of the network service.  It learns the height of *)
(* the local chain (LOCAL statuses) and of the peers (REMOTE statuses),    *)
(* asks one peer for the blocks that are missing, keeps what arrives in    *)
(* block_lists and submits runs of consecutive blocks to the local chain.  *)
(* All handlers run in the one receiver loop of the service, so each is a  *)
(* step.                                                                   *)
(*                                                                         *)
(* A block is its height; the block of height u64::MAX, which carries the  *)
(* proof of the last block of a chain, is MAX.                             *)
(***************************************************************************)
EXTENDS Integers, Sequences, FiniteSets

CONSTANTS
  Peers,       \* the peers in the configuration
  MaxHeight,   \* bound on heights
  SYNC_STEP    \* blocks asked for in one request

Heights == 1..MaxHeight
MAX == MaxHeight + 3

ASSUME SynchronizerAssumption ==
  /\ Peers # {}
  /\ MaxHeight \in Nat
  /\ SYNC_STEP \in Nat \ {0}

VARIABLES
  current_status,      \* height of the local chain
  global_status,       \* greatest height a peer announced
  sync_end_height,     \* the height the blocks submitted lead to
  is_synchronizing,
  latest_status_lists, \* the pairs <<height, peer>> announced above current
  block_lists,         \* heights of the blocks kept
  timed_out,           \* more than SYNC_TIME_OUT passed since sync_time_out
  no_peers,            \* the table of peers of the connections is empty
  panicked,            \* a handler divided by its length: nothing is handled any more
  requests,            \* sync requests on their way: [heights, origin]
  batches              \* sync responses on their way to the local chain

vars == <<current_status, global_status, sync_end_height, is_synchronizing,
          latest_status_lists, block_lists, timed_out, no_peers, panicked, requests, batches>>

InitSync ==
  /\ current_status = 0
  /\ global_status = 0
  /\ sync_end_height = 0
  /\ is_synchronizing = TRUE
  /\ latest_status_lists = {}
  /\ block_lists = {}
  /\ timed_out = FALSE
  /\ no_peers \in BOOLEAN
  /\ panicked = FALSE

Init == InitSync /\ requests = {} /\ batches = <<>>

-----------------------------------------------------------------------------
(* Requests.                                                               *)

\* Mutant of packets: the loop starts one height too low.
PacketsLow(start, end) ==
  {{h \in (start - 1)..end : (h - start + 1) \div SYNC_STEP = k} :
     k \in {(h - start + 1) \div SYNC_STEP : h \in (start - 1)..end}}

\* The heights start..end in packets of SYNC_STEP, all to one peer.
packets(start, end) ==
  {{h \in start..end : (h - start) \div SYNC_STEP = k} :
     k \in {(h - start) \div SYNC_STEP : h \in start..end}}

sync_strategy(start, end, origin, current) ==
  IF start >= current /\ start <= end
  THEN requests' = requests \cup {[heights |-> p, origin |-> origin] : p \in packets(start, end)}
  ELSE UNCHANGED requests

\* start_sync_req over the given lists and local height: the peer is any one
\* that announced the greatest height (2 / (3 * peers) is 0 in integers, so one
\* announcement is enough).  An end of 0 stands for one above that height.  With
\* an announcement and no peer in the table, the division is one by zero.
start_sync_req(start, end, lists, current) ==
  /\ panicked' = (lists # {} /\ no_peers)
  /\ IF lists = {} \/ no_peers THEN UNCHANGED requests
     ELSE \E best \in lists :
            /\ \A s \in lists : s[1] <= best[1]
            /\ IF best[1] > current
               THEN sync_strategy(start, IF end = 0 THEN best[1] + 1 ELSE end, best[2], current)
               ELSE UNCHANGED requests

-----------------------------------------------------------------------------
(* Submission to the local chain.                                          *)

\* The length of the run of blocks from height up, at most SYNC_STEP + 1.
RunLength(blocks, height) ==
  Cardinality({i \in 0..SYNC_STEP : \A j \in 0..i : height + j \in blocks \ {MAX}})

\* Mutant of pub_blocks: without its test for an empty list.
PubEmpty(current, len, max) ==
  /\ sync_end_height' = current + (IF max THEN len + 1 ELSE len) - 1
  /\ batches' = Append(batches, [from |-> current + 1, len |-> len, max |-> max])

pub_blocks(current, len, max) ==
  LET count == IF max THEN len + 1 ELSE len
  IN IF count > 0
     THEN /\ sync_end_height' = current + count - 1
          /\ batches' = Append(batches, [from |-> current + 1, len |-> len, max |-> max])
     ELSE UNCHANGED <<sync_end_height, batches>>

\* Mutant of NotOnChain: the old blocks are not split off.
EveryBlock(blocks, current) == blocks

\* split_off of block_lists at the height above the chain.
NotOnChain(blocks, current) == {b \in blocks : b > current}

\* The run above the chain goes out; its last block is kept, for it may have to
\* be sent again with the block that proves it.  MAX goes out when only it is
\* left.
submit_blocks(blocks, current) ==
  LET len == RunLength(blocks, current + 1)
      rest == NotOnChain(blocks, current) \ ((current + 1)..(current + len))
      max == rest = {MAX}
  IN /\ block_lists' = IF max THEN {}
                       ELSE IF len > 0 THEN rest \cup {current + len} ELSE rest
     /\ pub_blocks(current, len, max)

-----------------------------------------------------------------------------
(* Handlers.                                                               *)

\* split_off of latest_status_lists.
AboveHeight(lists, h) == {s \in lists : s[1] > h}

\* A status of the local chain.
update_current_status(h) ==
  LET lists == AboveHeight(latest_status_lists, h)
  IN /\ latest_status_lists' = lists
     /\ current_status' = h
     /\ IF h <= current_status
        THEN /\ is_synchronizing' = TRUE
             /\ start_sync_req(h + 1, 0, lists, h)
             /\ UNCHANGED <<sync_end_height, block_lists, timed_out, batches>>
        ELSE IF h < sync_end_height
        THEN /\ is_synchronizing' = TRUE
             /\ timed_out' = FALSE
             /\ start_sync_req(h + 1, sync_end_height + 1, lists, h)
             /\ UNCHANGED <<sync_end_height, block_lists, batches>>
        ELSE IF h = sync_end_height
        THEN /\ is_synchronizing' = TRUE
             /\ timed_out' = FALSE
             /\ IF {h + 1, h + 2} \subseteq block_lists
                THEN submit_blocks(block_lists, h) /\ UNCHANGED <<requests, panicked>>
                ELSE /\ start_sync_req(h + 1, 0, lists, h)
                     /\ UNCHANGED <<sync_end_height, block_lists, batches>>
        ELSE /\ sync_end_height' = h
             /\ is_synchronizing' = FALSE
             /\ UNCHANGED <<block_lists, timed_out, panicked, requests, batches>>
     /\ UNCHANGED <<global_status, no_peers>>

\* A status of a peer.
update_global_status(h, origin) ==
  LET grew == h > global_status
      lists == latest_status_lists \cup {<<h, origin>>}
  IN /\ global_status' = IF grew THEN h ELSE global_status
     /\ IF h <= current_status
        THEN /\ is_synchronizing' = FALSE
             /\ UNCHANGED <<latest_status_lists, timed_out, panicked, requests>>
        ELSE IF h = current_status + 1
        THEN /\ latest_status_lists' = lists
             /\ IF grew /\ is_synchronizing
                THEN start_sync_req(h, h, lists, current_status) /\ UNCHANGED is_synchronizing
                ELSE is_synchronizing' = FALSE /\ UNCHANGED <<requests, panicked>>
             /\ UNCHANGED timed_out
        ELSE /\ latest_status_lists' = lists
             /\ is_synchronizing' = TRUE
             /\ IF timed_out \/ ~is_synchronizing
                THEN /\ timed_out' = FALSE
                     /\ start_sync_req(current_status + 1, h, lists, current_status)
                ELSE /\ UNCHANGED timed_out
                     /\ IF grew THEN start_sync_req(h, h, lists, current_status)
                        ELSE UNCHANGED <<requests, panicked>>
     /\ UNCHANGED <<current_status, sync_end_height, block_lists, no_peers, batches>>

\* A sync response of a peer, with the blocks of the given heights.
process_sync(blocks) ==
  /\ submit_blocks(block_lists \cup blocks, current_status)
  /\ UNCHANGED <<current_status, global_status, is_synchronizing,
                 latest_status_lists, timed_out, no_peers, panicked, requests>>

\* SYNC_TIME_OUT seconds pass.
TimePasses ==
  /\ ~timed_out
  /\ timed_out' = TRUE
  /\ UNCHANGED <<current_status, global_status, sync_end_height, is_synchronizing,
                 latest_status_lists, block_lists, no_peers, panicked, requests, batches>>

\* A new configuration file empties the table of peers, or fills it again: the
\* thread that watches the file, between two messages of the synchronizer.
PeersChange ==
  /\ no_peers' = ~no_peers
  /\ UNCHANGED <<current_status, global_status, sync_end_height, is_synchronizing,
                 latest_status_lists, block_lists, timed_out, panicked, requests, batches>>

-----------------------------------------------------------------------------
(* The component alone: any status and any blocks may arrive at any time,  *)
(* and what it sends is taken away.  Only a handler looks at the table of  *)
(* peers, so it is enough that the table changes right before one.         *)

Deliver ==
  /\ requests' = {}
  /\ batches' = <<>>
  /\ requests # {} \/ batches # <<>>
  /\ UNCHANGED <<current_status, global_status, sync_end_height, is_synchronizing,
                 latest_status_lists, block_lists, timed_out, no_peers, panicked>>

Next ==
  \/ Deliver
  \/ TimePasses
  \/ /\ requests = {} /\ batches = <<>>
     /\ \/ PeersChange
        \/ \E h \in 0..MaxHeight : ~panicked /\ update_current_status(h)
        \/ \E h \in Heights, p \in Peers : ~panicked /\ update_global_status(h, p)
        \/ \E blocks \in SUBSET (Heights \cup {MAX}) : ~panicked /\ process_sync(blocks)

Spec == Init /\ [][Next]_vars

-----------------------------------------------------------------------------
(* Properties.                                                             *)

\* The comment on sync_end_height, "current_status <= sync_end_status".
SyncEndBound == current_status <= sync_end_height

\* What is asked for is missing: no request names a height that the chain has.
RequestsAhead == \A r \in requests : \A h \in r.heights : h > current_status

\* The announcements kept are those that are news: above the local height.
\* start_sync_req relies on it when it takes the last of them.
StatusesAhead == \A s \in latest_status_lists : s[1] > current_status

\* A submission starts right above the chain, and the heights it was built
\* from are gone from block_lists except the last one, whose proof is still to
\* come: nothing is handed over twice or left behind a gap.
SubmitsNext ==
  [][\A i \in (Len(batches) + 1)..Len(batches') :
       /\ batches'[i].from = current_status' + 1
       /\ sync_end_height' = current_status' + batches'[i].len
                               - (IF batches'[i].max THEN 0 ELSE 1)
       /\ \A b \in block_lists' \ {MAX} : b >= current_status' + batches'[i].len]_vars
=============================================================================
