-------------------------- MODULE SystemContracts --------------------------
(***************************************************************************)
(* The three system contracts whose storage the executor turns into its     *)
(* configuration.  The transactions of a block call them one at a time; a   *)
(* call that fails its modifiers changes nothing, so only the calls that    *)
(* succeed are steps.  The contracts share no storage and call nothing, and *)
(* each property is about one of them: the calls of a behaviour are those   *)
(* of one contract, chosen at the start.                                    *)
(***************************************************************************)
EXTENDS Integers, Sequences, SequencesExt

CONSTANTS
  Addresses,
  InitNodes, InitAdmins, MaxBlock,                   \* NodeManager
  InitSenders, InitCreators, MaxList,                \* PermissionManager
  QuotaAdmin, Limits, BaseLimit, BlockLimit, MaxLimit,
  InitAccount, InitBlock, Word,                      \* QuotaManager
  MaxCalls                                           \* bound on the calls of QuotaManager

ASSUME SystemContractsAssumption ==
  /\ InitNodes \in Seq(Addresses) /\ IsInjective(InitNodes)
  /\ InitSenders \in Seq(Addresses) /\ IsInjective(InitSenders)
  /\ InitCreators \in Seq(Addresses) /\ IsInjective(InitCreators)
  /\ InitAdmins \subseteq Addresses /\ QuotaAdmin \in Addresses
  /\ Limits \subseteq Nat /\ {MaxBlock, MaxList, MaxCalls} \subseteq Nat
  /\ 0 < BaseLimit /\ BaseLimit < BlockLimit /\ BlockLimit < MaxLimit /\ MaxLimit < Word
  /\ BaseLimit <= InitAccount /\ BlockLimit < InitBlock /\ InitBlock <= MaxLimit

VARIABLES
  status, admins, block_op, nodes, number, operations,
  senders, creators, user_permission,
  quota_admins, is_global, global, special, special_users, users_quota, set_special,
  contract,   \* the contract that is called
  calls       \* calls of QuotaManager so far

N == INSTANCE NodeManager
P == INSTANCE PermissionManager WITH Users <- Addresses
Q == INSTANCE QuotaManager

nodeVars == <<status, admins, block_op, nodes, number, operations>>
permissionVars == <<senders, creators, user_permission>>
quotaVars == <<quota_admins, is_global, global, special, special_users, users_quota, set_special>>
vars == <<nodeVars, permissionVars, quotaVars, contract, calls>>

Deployed == N!Init /\ P!Init /\ Q!Init /\ calls = 0

Init == Deployed /\ contract \in {"NodeManager", "PermissionManager", "QuotaManager"}

CallNodes ==
  /\ contract = "NodeManager"
  /\ N!Call \/ N!NextBlock
  /\ UNCHANGED <<permissionVars, quotaVars, contract, calls>>

CallPermissions ==
  /\ contract = "PermissionManager"
  /\ P!Call
  /\ UNCHANGED <<nodeVars, quotaVars, contract, calls>>

CallQuota ==
  /\ contract = "QuotaManager" /\ calls < MaxCalls
  /\ Q!Call
  /\ calls' = calls + 1
  /\ UNCHANGED <<nodeVars, permissionVars, contract>>

Next == CallNodes \/ CallPermissions \/ CallQuota

Spec == Init /\ [][Next]_vars

-----------------------------------------------------------------------------
(* What reload_config reads.                                               *)

load_creators == ToSet(creators)

-----------------------------------------------------------------------------
(* Properties.                                                             *)

\* listNode and the status of each node are kept together by newNode,
\* approveNode and deleteNode.
ListMatchesStatus == N!ListMatchesStatus

\* Nothing follows an approval in its block (approveNode marks the block).
ApprovalIsLast == N!ApprovalIsLast

\* The lists of creators and senders and user_permission are kept together by
\* grantPermission and revokePermission.
ListsMatchPermissions == P!ListsMatchPermissions

\* The assertion of load_creators, "there must be at least one creator": no
\* sequence of calls empties the list, since who revokes the permission keeps it.
CreatorLoaded == InitCreators # <<>> => load_creators # {}

\* The executor's limit of an account is the one the contract answers, but after
\* setSpecial and for a global limit that does not fit into 64 bits.
LimitAsAnswered == Q!LimitAsAnswered
=============================================================================
