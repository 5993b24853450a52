------------------------- MODULE MCSystemContracts -------------------------
(***************************************************************************)
(* An instance for TLC of the contracts of scripts/contracts, and of what  *)
(* executors make of the first three of them (SysConfig).  They share no   *)
(* storage: a behaviour is that of the one that is chosen at the start.    *)
(***************************************************************************)
EXTENDS SystemContracts

CONSTANTS a1, a2, a3
MCAddresses == {a1, a2, a3}
MCNodes == <<a1, a2>>
MCAdmins == {a1}
MCSenders == <<a1>>
MCCreators == <<a2>>
\* 0, a limit for an account, limits for a block, and one beyond a u64.
MCLimits == {0, 1, 3, 4, 7}

VARIABLES
  superAdmin, groups, roles, role_groups, group_roles, group_applicants,
  user_groups, group_names, role_names, half_renamed,
  perm_calls,                                                \* PermissionSystem
  resources, deployed, permissions, accounts,                \* PermissionManagement
  chain, height, max_height, pc, sys_configs, disk_configs,
  used, sent, proposed, restarts                             \* SysConfig

permVars == <<superAdmin, groups, roles, role_groups, group_roles,
              group_applicants, user_groups, group_names, role_names, half_renamed, perm_calls>>
managementVars == <<resources, deployed, permissions, accounts>>
configVars == <<chain, height, max_height, pc, sys_configs, disk_configs, used, sent,
                proposed, restarts>>

-----------------------------------------------------------------------------
\* With a super admin and without; three names, each of which may be given to a group
\* and to a role; a list of permissions that lets its holder do everything else.
G == INSTANCE PermissionSystem
  WITH Users <- {"admin", "u"}, GivenNames <- {"x", "y"},
       SuperAdmins <- {"admin", "no user"}, AdamEve <- <<"u">>, UserLists <- {<<"u">>},
       PermissionLists <- {<<>>, <<"CreateRole", "UpdateRole", "DeleteRole", "CreateAuth",
                                   "DeteleAuth", "UpdateGroup", "CreateGroup", "DeleteGroup">>},
       MaxPermCalls <- 3

M == INSTANCE PermissionManagement
  WITH Accounts <- {"admin", "u"}, Permissions <- {"p", "q"}, GenesisPermissions <- <<"p">>,
       genesisAdmin <- "admin", Resources <- {"x"}, ResourceLists <- {<<>>, <<"x">>, <<"x", "y">>},
       MaxResources <- 2, MaxAuths <- 3

\* One node that may be restarted once; the contracts may change at every block.
S == INSTANCE SysConfig
  WITH Nodes <- {"n"}, Syncing <- {}, Values <- {"v1", "v2", "v3"}, Genesis <- "v1",
       Delay <- 2, MaxHeight <- 5, MaxRestarts <- 1

-----------------------------------------------------------------------------
ContractsInit ==
  /\ Deployed /\ G!PermissionInit /\ M!ManagementInit /\ S!Init
  /\ contract \in {"NodeManager", "PermissionManager", "QuotaManager", "PermissionSystem",
                   "Authorization", "configuration"}
  /\ contract # "PermissionSystem" => superAdmin = "admin"

CallSystem == Next /\ UNCHANGED <<permVars, managementVars, configVars>>

CallPermissionSystem ==
  /\ contract = "PermissionSystem" /\ G!PermissionNext
  /\ UNCHANGED <<vars, managementVars, configVars>>

CallManagement ==
  /\ contract = "Authorization" /\ M!ManagementNext
  /\ UNCHANGED <<vars, permVars, configVars>>

Configure ==
  /\ contract = "configuration" /\ S!Next
  /\ UNCHANGED <<vars, permVars, managementVars>>

ContractsNext == CallSystem \/ CallPermissionSystem \/ CallManagement \/ Configure

ContractsSpec == ContractsInit /\ [][ContractsNext]_<<vars, permVars, managementVars, configVars>>

-----------------------------------------------------------------------------
\* What a contract keeps twice stays together under every order of calls: in
\* NodeManager the list of nodes and the status of each, with nothing after an approval
\* in its block; in PermissionManager the lists of users and user_permission; in
\* PermissionSystem the names of roles and the roles, but for the names that a rename
\* left half done; in Authorization the mapping of accounts and that of permissions.
\* Deletions in one block are not limited: deleteNode clears the mark of oneOperate.
ListsMatch ==
  /\ ListMatchesStatus /\ ApprovalIsLast
  /\ ListsMatchPermissions
  /\ contract = "PermissionSystem" => G!RolesListed
  /\ contract = "Authorization" => M!AuthMirrored

\* A node that was never restarted executes a block with what the contracts said a
\* fixed number of blocks before (reload_config, get_current_sys_conf).  Restarts make
\* it see a change at most one block early, never late, and the configuration that
\* goes to consensus is the one that the block was executed with.
FixedDelay ==
  contract = "configuration" => S!FixedDelay /\ S!RestartOneEarly /\ S!SentAsUsed
=============================================================================
