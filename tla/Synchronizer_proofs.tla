------------------------- MODULE Synchronizer_proofs -------------------------
(***************************************************************************)
(* Proofs about Synchronizer, for every set of peers, every bound on the   *)
(* heights and every SYNC_STEP.                                            *)
(***************************************************************************)
EXTENDS Synchronizer, TLAPS, FiniteSetTheorems

\* What the three properties need together: the heights are numbers, an end of
\* synchronization is never behind the chain, the announcements are ahead of it,
\* and so are the heights asked for until the requests are taken.
IInv ==
  /\ current_status \in Nat
  /\ sync_end_height \in Nat
  /\ latest_status_lists \subseteq Nat \X Peers
  /\ SyncEndBound
  /\ StatusesAhead
  /\ RequestsAhead

-----------------------------------------------------------------------------
\* A run of blocks has a length.
LEMMA RunLengthType ==
  ASSUME NEW blocks, NEW height
  PROVE  RunLength(blocks, height) \in Nat
<1> DEFINE S == {i \in 0..SYNC_STEP : \A j \in 0..i : height + j \in blocks \ {MAX}}
<1>1. IsFiniteSet(0..SYNC_STEP)
  BY FS_Interval, SynchronizerAssumption
<1>2. IsFiniteSet(S)
  BY Zenon, <1>1, FS_Subset
<1>3. Cardinality(S) \in Nat
  BY <1>2, FS_CardinalityType
<1> QED  BY <1>3 DEF RunLength

\* A submission leaves sync_end_height at or above the height it starts from, or
\* as it was.
LEMMA SubmitBound ==
  ASSUME NEW blocks, NEW current \in Nat, sync_end_height \in Nat,
         submit_blocks(blocks, current)
  PROVE  /\ sync_end_height' \in Nat
         /\ sync_end_height' >= current \/ sync_end_height' = sync_end_height
<1>1. PICK len \in Nat : \E max : pub_blocks(current, len, max)
  BY RunLengthType DEF submit_blocks
<1>2. PICK max : pub_blocks(current, len, max)
  BY <1>1
<1> QED  BY <1>2 DEF pub_blocks

\* Every height of a packet lies between the two ends of the request.
LEMMA PacketsRange ==
  ASSUME NEW start \in Nat, NEW end \in Nat, NEW p \in packets(start, end)
  PROVE  \A h \in p : h \in Nat /\ h >= start
BY DEF packets

\* A request starts at or above start.
LEMMA RequestsFrom ==
  ASSUME NEW start \in Nat, NEW end \in Nat, NEW current \in Nat,
         NEW lists \in SUBSET (Nat \X Peers),
         start_sync_req(start, end, lists, current)
  PROVE  \A r \in requests' : r \in requests \/ \A h \in r.heights : h \in Nat /\ h >= start
<1>1. CASE requests' = requests
  BY <1>1
<1>2. CASE requests' # requests
  <2>1. PICK best \in lists :
          sync_strategy(start, IF end = 0 THEN best[1] + 1 ELSE end, best[2], current)
    BY <1>2 DEF start_sync_req
  <2> DEFINE last == IF end = 0 THEN best[1] + 1 ELSE end
  <2>2. last \in Nat
    BY <2>1
  <2>3. requests' = requests \cup {[heights |-> p, origin |-> best[2]] : p \in packets(start, last)}
    BY <1>2, <2>1 DEF sync_strategy
  <2> HIDE DEF last
  <2>4. \A p \in packets(start, last) : \A h \in p : h \in Nat /\ h >= start
    BY <2>2, PacketsRange
  <2> QED  BY <2>3, <2>4
<1> QED  BY <1>1, <1>2

-----------------------------------------------------------------------------
\* A status of the local chain keeps the invariant.
LEMMA CurrentStatusKeeps ==
  ASSUME IInv, requests = {}, NEW h \in 0..MaxHeight, update_current_status(h)
  PROVE  IInv'
<1> DEFINE lists == AboveHeight(latest_status_lists, h)
<1>1. /\ latest_status_lists' = lists
      /\ current_status' = h
      /\ h \in Nat
  BY SynchronizerAssumption DEF update_current_status
<1>2. lists \in SUBSET (Nat \X Peers) /\ \A s \in lists : s[1] > h
  BY DEF AboveHeight, IInv
<1> HIDE DEF lists
<1>3. /\ sync_end_height' \in Nat
      /\ h <= sync_end_height'
  <2>1. CASE h <= current_status
    BY <1>1, <2>1 DEF update_current_status, IInv, SyncEndBound
  <2>2. CASE h > current_status /\ h < sync_end_height
    BY <1>1, <2>2 DEF update_current_status, IInv
  <2>3. CASE h > current_status /\ h = sync_end_height
    <3>1. sync_end_height' = sync_end_height \/ submit_blocks(block_lists, h)
      BY <1>1, <2>3 DEF update_current_status, IInv
    <3> QED  BY <1>1, <2>3, <3>1, SubmitBound DEF IInv
  <2>4. CASE h > current_status /\ h > sync_end_height
    BY <1>1, <2>4 DEF update_current_status, IInv
  <2> QED  BY <1>1, <2>1, <2>2, <2>3, <2>4 DEF IInv
<1>4. \/ requests' = requests
      \/ \E end \in Nat : start_sync_req(h + 1, end, lists, h)
  <2>1. 0 \in Nat /\ sync_end_height + 1 \in Nat
    BY DEF IInv
  <2> QED  BY <2>1 DEF update_current_status, lists
<1>5. \A r \in requests' : \A g \in r.heights : g > h
  <2>1. CASE requests' = requests
    BY <2>1
  <2>2. ASSUME NEW end \in Nat, start_sync_req(h + 1, end, lists, h)
        PROVE  \A r \in requests' : \A g \in r.heights : g \in Nat /\ g >= h + 1
    <3>1. h + 1 \in Nat
      BY <1>1
    <3> QED  BY <1>1, <1>2, <2>2, <3>1, RequestsFrom
  <2>3. CASE \A r \in requests' : \A g \in r.heights : g \in Nat /\ g >= h + 1
    <3>1. SUFFICES ASSUME NEW r \in requests', NEW g \in r.heights PROVE g > h
      OBVIOUS
    <3>2. g \in Nat /\ g >= h + 1
      BY <2>3
    <3> QED  BY <3>2, <1>1
  <2> QED  BY <1>4, <2>1, <2>2, <2>3
<1> QED  BY <1>1, <1>2, <1>3, <1>5 DEF IInv, SyncEndBound, StatusesAhead, RequestsAhead

\* A status of a peer keeps the invariant.
LEMMA GlobalStatusKeeps ==
  ASSUME IInv, requests = {}, NEW h \in Heights, NEW origin \in Peers,
         update_global_status(h, origin)
  PROVE  IInv'
<1> DEFINE lists == latest_status_lists \cup {<<h, origin>>}
<1>1. /\ h \in Nat
      /\ current_status' = current_status
      /\ sync_end_height' = sync_end_height
      /\ current_status \in Nat
  BY SynchronizerAssumption DEF update_global_status, Heights, IInv
<1>2. lists \in SUBSET (Nat \X Peers)
  BY <1>1 DEF IInv
<1>3. \/ latest_status_lists' = latest_status_lists
      \/ h > current_status /\ latest_status_lists' = lists
  BY <1>1 DEF update_global_status
<1>4. \/ requests' = requests
      \/ \E start \in Nat, end \in Nat :
           start > current_status /\ start_sync_req(start, end, lists, current_status)
  <2>1. current_status + 1 \in Nat /\ current_status + 1 > current_status
    BY <1>1
  <2>2. CASE h <= current_status
    BY <2>2 DEF update_global_status
  <2>3. CASE h > current_status
    <3> HIDE DEF lists
    <3>1. \/ requests' = requests
          \/ start_sync_req(h, h, lists, current_status)
          \/ start_sync_req(current_status + 1, h, lists, current_status)
      BY <1>1, <2>3 DEF update_global_status, lists
    <3> QED  BY <1>1, <2>1, <2>3, <3>1
  <2>4. h <= current_status \/ h > current_status
    BY <1>1
  <2> HIDE DEF lists
  <2> QED  BY <2>2, <2>3, <2>4 
<1>5. RequestsAhead'
  <2>1. CASE requests' = requests
    BY <2>1 DEF RequestsAhead
  <2>2. ASSUME NEW start \in Nat, NEW end \in Nat, start > current_status,
               start_sync_req(start, end, lists, current_status)
        PROVE  RequestsAhead'
    <3> HIDE DEF lists
    <3>1. \A r \in requests' : \A g \in r.heights : g \in Nat /\ g >= start
      BY <1>1, <1>2, <2>2, RequestsFrom
    <3> QED  BY <1>1, <2>2, <3>1 DEF RequestsAhead
  <2> QED  BY Zenon, <1>4, <2>1, <2>2
<1>6. /\ latest_status_lists' \subseteq Nat \X Peers
      /\ StatusesAhead'
  BY <1>1, <1>2, <1>3 DEF IInv, StatusesAhead
<1> QED  BY <1>1, <1>5, <1>6 DEF IInv, SyncEndBound

-----------------------------------------------------------------------------
\* The inductive invariant holds throughout.
THEOREM Invariance == Spec => []IInv
<1>1. Init => IInv
  BY DEF Init, InitSync, IInv, SyncEndBound, StatusesAhead, RequestsAhead
<1>2. IInv /\ [Next]_vars => IInv'
  <2> SUFFICES ASSUME IInv, [Next]_vars PROVE IInv'
    OBVIOUS
  <2>1. CASE Deliver
    BY <2>1 DEF Deliver, IInv, SyncEndBound, StatusesAhead, RequestsAhead
  <2>2. CASE TimePasses
    BY <2>2 DEF TimePasses, IInv, SyncEndBound, StatusesAhead, RequestsAhead
  <2>3. ASSUME requests = {}, NEW h \in 0..MaxHeight, update_current_status(h)
        PROVE  IInv'
    BY <2>3, CurrentStatusKeeps
  <2>4. ASSUME requests = {}, NEW h \in Heights, NEW p \in Peers, update_global_status(h, p)
        PROVE  IInv'
    BY <2>4, GlobalStatusKeeps
  <2>5. ASSUME NEW blocks, process_sync(blocks)
        PROVE  IInv'
    <3>1. submit_blocks(block_lists \cup blocks, current_status)
      BY <2>5 DEF process_sync
    <3>2. sync_end_height' \in Nat /\ current_status <= sync_end_height'
      BY <3>1, SubmitBound DEF IInv, SyncEndBound
    <3> QED  BY <2>5, <3>2 DEF process_sync, IInv, SyncEndBound, StatusesAhead, RequestsAhead
  <2>6. CASE UNCHANGED vars
    BY <2>6 DEF vars, IInv, SyncEndBound, StatusesAhead, RequestsAhead
  <2>7. CASE PeersChange
    BY <2>7 DEF PeersChange, IInv, SyncEndBound, StatusesAhead, RequestsAhead
  <2> QED  BY <2>1, <2>2, <2>3, <2>4, <2>5, <2>6, <2>7 DEF Next
<1> QED  BY <1>1, <1>2, PTL DEF Spec

\* The comment on sync_end_height holds: the height that the blocks submitted
\* lead to is never behind the local chain (synchronizer.rs, State).
THEOREM SyncEndNeverBehind == Spec => []SyncEndBound
<1>1. IInv => SyncEndBound
  BY DEF IInv
<1> QED  BY <1>1, Invariance, PTL

\* The announcements that start_sync_req chooses from are all ahead of the
\* local chain (update_current_status, add_latest_sync_lists).
THEOREM AnnouncementsAhead == Spec => []StatusesAhead
<1>1. IInv => StatusesAhead
  BY DEF IInv
<1> QED  BY <1>1, Invariance, PTL

\* No request names a block that the local chain has (sync_strategy).
THEOREM AsksForMissing == Spec => []RequestsAhead
<1>1. IInv => RequestsAhead
  BY DEF IInv
<1> QED  BY <1>1, Invariance, PTL

=============================================================================
