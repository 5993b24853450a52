------------------------------ MODULE SysConfig ------------------------------
(***************************************************************************)
(* The system configuration that executors work with: who may send and     *)
(* create, the consensus nodes and the quotas.  It is read from the system *)
(* contracts at the end of every block, kept in a queue with the height at *)
(* which it was read, and takes effect some blocks later.                  *)
(*                                                                         *)
(* All nodes execute the same chain.  What the contracts say after a block *)
(* is one value; the contracts themselves are in SystemContracts.  A node  *)
(* executes a block, reloads the configuration, writes the block, and may  *)
(* be restarted in between.                                                *)
(***************************************************************************)
EXTENDS Integers, Sequences

CONSTANTS
  Nodes,
  Syncing,      \* the nodes that get their blocks by synchronization
  Values,       \* what the contracts may say
  Genesis,      \* what they say after the genesis block
  Delay,        \* delay_active_interval, fixed by ParamConstant
  MaxHeight,    \* bound on heights
  MaxRestarts   \* bound on the restarts of all nodes

VARIABLES
  chain,        \* chain[h]: what the contracts say after block h
  height,       \* per node: height of current_header, on disk too
  max_height,   \* per node: max height in block_map
  pc,           \* per node: between blocks, executed a proposal or a block, reloaded
  sys_configs,  \* per node: the queue of configurations, newest first
  disk_configs, \* per node: CurrentConfig
  used,         \* per node: the configuration each block was executed with
  sent,         \* per node: the configuration sent with the result of each block
  proposed,     \* per node: the heights executed as proposals
  restarts      \* per node

vars == <<chain, height, max_height, pc, sys_configs, disk_configs, used, sent, proposed, restarts>>

Heights == 1..MaxHeight
After(h) == IF h = 0 THEN Genesis ELSE chain[h]

-----------------------------------------------------------------------------
(* The queue of configurations.                                            *)

Active(confs, i, now) == confs[i].changed_height + Delay <= now

\* The newest configuration that is old enough; before there is any, the newest.
get_current_sys_conf(confs, now) ==
  LET ripe == {i \in 1..Len(confs) : Active(confs, i, now)}
  IN confs[IF ripe = {} THEN 1 ELSE CHOOSE i \in ripe : \A j \in ripe : i <= j].value

\* Mutant of Reloaded: the height of the last change is kept.
ReloadedKeepingHeight(confs, read, max) ==
  IF confs = <<>> THEN <<[value |-> read, changed_height |-> 0]>>
  ELSE LET kept == IF Active(confs, 1, max) THEN <<confs[1]>> ELSE confs
       IN IF confs[1].value = read THEN kept
          ELSE <<[value |-> read, changed_height |-> confs[1].changed_height]>> \o kept

\* reload_config: the queue after the value read.  A queue whose head is active
\* is cut to it; a new value is put in front.
Reloaded(confs, read, max) ==
  IF confs = <<>> THEN <<[value |-> read, changed_height |-> 0]>>
  ELSE LET kept == IF Active(confs, 1, max) THEN <<confs[1]>> ELSE confs
       IN IF confs[1].value = read THEN kept
          ELSE <<[value |-> read, changed_height |-> max]>> \o kept

\* Whether reload_config saves the queue.
Added(confs, read) == confs = <<>> \/ confs[1].value # read

-----------------------------------------------------------------------------
Init ==
  /\ chain = <<>>
  /\ height = [n \in Nodes |-> 0]
  /\ max_height = [n \in Nodes |-> 0]
  /\ pc = [n \in Nodes |-> "Idle"]
  /\ sys_configs = [n \in Nodes |-> Reloaded(<<>>, Genesis, 0)]
  /\ disk_configs = sys_configs
  /\ used = [n \in Nodes |-> <<>>]
  /\ sent = [n \in Nodes |-> <<>>]
  /\ proposed = [n \in Nodes |-> {}]
  /\ restarts = [n \in Nodes |-> 0]

\* Consensus decides a block, after which the contracts say v.
Decide(v) ==
  /\ Len(chain) < MaxHeight
  /\ chain' = Append(chain, v)
  /\ UNCHANGED <<height, max_height, pc, sys_configs, disk_configs, used, sent, proposed, restarts>>

\* send_block files the next block when the one before is done; add_sync_block
\* files the blocks of a batch ahead of their execution.
File(n) ==
  /\ max_height[n] < Len(chain)
  /\ n \notin Syncing => max_height[n] = height[n]
  /\ max_height' = [max_height EXCEPT ![n] = @ + 1]
  /\ UNCHANGED <<chain, height, pc, sys_configs, disk_configs, used, sent, proposed, restarts>>

\* execute_proposal: the proposal of the next height, which is the block that
\* consensus decides; send_proposal has not moved max_height.
execute_proposal(n) ==
  /\ n \notin Syncing
  /\ pc[n] = "Idle"
  /\ height[n] = max_height[n] /\ height[n] < Len(chain)
  /\ used' = [used EXCEPT ![n] = Append(@, get_current_sys_conf(sys_configs[n], max_height[n]))]
  /\ proposed' = [proposed EXCEPT ![n] = @ \cup {height[n] + 1}]
  /\ pc' = [pc EXCEPT ![n] = "Proposed"]
  /\ UNCHANGED <<chain, height, max_height, sys_configs, disk_configs, sent, restarts>>

\* finalize_proposal, once the consensus block of the same height is filed.
finalize_proposal(n) ==
  /\ pc[n] = "Proposed"
  /\ height[n] < max_height[n]
  /\ pc' = [pc EXCEPT ![n] = "Executed"]
  /\ UNCHANGED <<chain, height, max_height, sys_configs, disk_configs, used, sent, proposed, restarts>>

execute_block(n) ==
  /\ pc[n] = "Idle"
  /\ height[n] < max_height[n]
  /\ used' = [used EXCEPT ![n] = Append(@, get_current_sys_conf(sys_configs[n], max_height[n]))]
  /\ pc' = [pc EXCEPT ![n] = "Executed"]
  /\ UNCHANGED <<chain, height, max_height, sys_configs, disk_configs, sent, proposed, restarts>>

\* finalize_block up to the result: reload_config calls the contracts in the
\* state of the current header, which is still the block before.
reload_config(n) ==
  /\ pc[n] = "Executed"
  /\ sys_configs' = [sys_configs EXCEPT ![n] = Reloaded(@, After(height[n]), max_height[n])]
  /\ disk_configs' = [disk_configs EXCEPT ![n] =
                        IF Added(sys_configs[n], After(height[n])) THEN sys_configs'[n] ELSE @]
  /\ sent' = [sent EXCEPT ![n] = Append(@, get_current_sys_conf(sys_configs'[n], max_height[n]))]
  /\ pc' = [pc EXCEPT ![n] = "Reloaded"]
  /\ UNCHANGED <<chain, height, max_height, used, proposed, restarts>>

\* write_batch and the new current header.
write_batch(n) ==
  /\ pc[n] = "Reloaded"
  /\ height' = [height EXCEPT ![n] = @ + 1]
  /\ pc' = [pc EXCEPT ![n] = "Idle"]
  /\ UNCHANGED <<chain, max_height, sys_configs, disk_configs, used, sent, proposed, restarts>>

\* init_executor on the database: the saved queue, then reload_config.
init_executor(n) ==
  /\ restarts[n] < MaxRestarts
  /\ restarts' = [restarts EXCEPT ![n] = @ + 1]
  /\ max_height' = [max_height EXCEPT ![n] = height[n]]
  /\ pc' = [pc EXCEPT ![n] = "Idle"]
  /\ sys_configs' = [sys_configs EXCEPT ![n] =
                       Reloaded(disk_configs[n], After(height[n]), height[n])]
  /\ disk_configs' = [disk_configs EXCEPT ![n] =
                        IF Added(@, After(height[n])) THEN sys_configs'[n] ELSE @]
  /\ used' = [used EXCEPT ![n] = SubSeq(@, 1, height[n])]
  /\ sent' = [sent EXCEPT ![n] = SubSeq(@, 1, height[n])]
  /\ proposed' = [proposed EXCEPT ![n] = @ \ {height[n] + 1}]
  /\ UNCHANGED <<chain, height>>

Next ==
  \/ \E v \in Values : Decide(v)
  \/ \E n \in Nodes : File(n) \/ execute_proposal(n) \/ finalize_proposal(n)
                      \/ execute_block(n) \/ reload_config(n) \/ write_batch(n) \/ init_executor(n)

Spec == Init /\ [][Next]_vars

-----------------------------------------------------------------------------
(* Properties.                                                             *)

\* The block after which the contracts said what block h is executed with, at a
\* node that was never restarted: a proposal is one block late.
Source(n, h) == h - 1 - Delay - (IF h \in proposed[n] THEN 1 ELSE 0)

\* The heights for which a configuration can be old enough.
Ripe(n) == {h \in 1..Len(used[n]) : Source(n, h) >= 0}

\* A node that was never restarted and follows consensus executes a block with
\* what the contracts said a fixed number of blocks before, whatever changes
\* came meanwhile: that is what reload_config and get_current_sys_conf compute
\* with their queue.
FixedDelay ==
  \A n \in Nodes \ Syncing : restarts[n] = 0 =>
    \A h \in Ripe(n) : used[n][h] = After(Source(n, h))

\* Restarts make a node see a change at most one block early, never late, when
\* it executes a block that is not a proposal.
RestartOneEarly ==
  \A n \in Nodes \ Syncing : \A h \in Ripe(n) \ proposed[n] :
    used[n][h] \in {After(Source(n, h)), After(Source(n, h) + 1)}

\* The configuration that goes to consensus with the result of a block is the
\* one that the block was executed with, unless it was executed as a proposal.
SentAsUsed ==
  \A n \in Nodes \ Syncing : \A h \in Ripe(n) \ proposed[n] :
    h <= Len(sent[n]) => sent[n][h] = used[n][h]

\* "All nodes reach the same state": nodes that executed the same blocks
\* executed them with the same configuration.
SameOnAllNodes ==
  \A m, n \in Nodes : \A h \in 1..Len(used[m]) :
    h <= Len(used[n]) => used[m][h] = used[n][h]
=============================================================================
