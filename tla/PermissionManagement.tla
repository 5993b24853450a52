------------------------ MODULE PermissionManagement ------------------------
(***************************************************************************)
(* The contracts of permission_management/: PermissionManagement, which    *)
(* creates, changes and closes the Permission contracts through            *)
(* PermissionCreator, and Authorization, which files the permissions of an *)
(* account and the accounts of a permission.  Only PermissionManagement    *)
(* may call the others.                                                    *)
(*                                                                         *)
(* A resource is a contract and a function of it; the two arrays of a call *)
(* are one list of resources, since a shorter _funcs throws and a longer   *)
(* one is cut.  A call that throws changes nothing and is not a step.  The *)
(* name of a permission, which nothing reads, and the queries are left     *)
(* out.                                                                    *)
(***************************************************************************)
EXTENDS Integers, Sequences, FiniteSets, SequencesExt

CONSTANTS
  Accounts, Permissions,
  GenesisPermissions,   \* the permission contracts of the genesis, in the order they are given
  genesisAdmin,         \* _superAdmin of Authorization
  Resources,
  ResourceLists,        \* bound: the lists of resources that calls are made with
  MaxResources,         \* bound on the resources of a permission
  MaxAuths              \* bound on the permissions of an account

VARIABLES
  resources,     \* permission -> resources
  deployed,      \* permission -> "not yet", "open" or "closed"
  permissions,   \* account -> its permissions
  accounts       \* permission -> its accounts

managementVars == <<resources, deployed, permissions, accounts>>

\* The genesis, with the constructor of Authorization.
ManagementInit ==
  /\ resources \in [Permissions -> {<<>>} \cup {<<x>> : x \in Resources}]
  /\ \A p \in Permissions : (resources[p] = <<>>) <=> p \notin ToSet(GenesisPermissions)
  /\ deployed = [p \in Permissions |-> IF p \in ToSet(GenesisPermissions) THEN "open" ELSE "not yet"]
  /\ permissions = [a \in Accounts |-> IF a = genesisAdmin THEN GenesisPermissions ELSE <<>>]
  /\ accounts = [p \in Permissions |->
       IF p \in ToSet(GenesisPermissions) THEN <<genesisAdmin>> ELSE <<>>]

-----------------------------------------------------------------------------
(* Permission, called by PermissionManagement: a call to a contract that is *)
(* not there throws.                                                        *)

newPermission(p, rs) ==
  /\ rs # <<>> /\ deployed[p] = "not yet" /\ Len(rs) <= MaxResources
  /\ deployed' = [deployed EXCEPT ![p] = "open"]
  /\ resources' = [resources EXCEPT ![p] = rs]
  /\ UNCHANGED <<permissions, accounts>>

\* Permission.close: the authorizations stay.
deletePermission(p) ==
  /\ deployed[p] = "open"
  /\ deployed' = [deployed EXCEPT ![p] = "closed"]
  /\ resources' = [resources EXCEPT ![p] = <<>>]
  /\ UNCHANGED <<permissions, accounts>>

addResources(p, rs) ==
  /\ deployed[p] = "open" /\ Len(resources[p]) + Len(rs) <= MaxResources
  /\ resources' = [resources EXCEPT ![p] = @ \o rs]
  /\ UNCHANGED <<deployed, permissions, accounts>>

\* resourceDelete of each, the first that is found.
deleteResources(p, rs) ==
  /\ deployed[p] = "open"
  /\ resources' = [resources EXCEPT ![p] = FoldLeft(RemoveFirst, @, rs)]
  /\ UNCHANGED <<deployed, permissions, accounts>>

-----------------------------------------------------------------------------
(* Authorization.                                                          *)

\* Any address may be given, of a contract or not, and again.
setAuth(a, p) ==
  /\ Len(permissions[a]) < MaxAuths
  /\ permissions' = [permissions EXCEPT ![a] = Append(@, p)]
  /\ accounts' = [accounts EXCEPT ![p] = Append(@, a)]
  /\ UNCHANGED <<resources, deployed>>

cancelAuth(a, p) ==
  /\ accounts' = [accounts EXCEPT ![p] = RemoveFirst(@, a)]
  /\ permissions' = [permissions EXCEPT ![a] = RemoveFirst(@, p)]
  /\ UNCHANGED <<resources, deployed>>

\* Mutant of clearAuth: the account leaves each of its permissions once.
ClearOnce(a) ==
  /\ accounts' = [p \in Permissions |->
       IF p \in ToSet(permissions[a]) THEN RemoveFirst(accounts[p], a) ELSE accounts[p]]
  /\ permissions' = [permissions EXCEPT ![a] = <<>>]
  /\ UNCHANGED <<resources, deployed>>

clearAuth(a) ==
  /\ accounts' = [p \in Permissions |->
       FoldLeft(LAMBDA s, q : IF q = p THEN RemoveFirst(s, a) ELSE s, accounts[p], permissions[a])]
  /\ permissions' = [permissions EXCEPT ![a] = <<>>]
  /\ UNCHANGED <<resources, deployed>>

-----------------------------------------------------------------------------

ManagementNext ==
  \/ \E p \in Permissions :
       \/ deletePermission(p)
       \/ \E rs \in ResourceLists :
            newPermission(p, rs) \/ addResources(p, rs) \/ deleteResources(p, rs)
       \/ \E a \in Accounts : setAuth(a, p) \/ cancelAuth(a, p)
  \/ \E a \in Accounts : clearAuth(a)

-----------------------------------------------------------------------------
(* Properties.                                                             *)

Count(x, s) == Cardinality({i \in DOMAIN s : s[i] = x})

\* The two mappings of Authorization are kept together by setAuth, cancelAuth and
\* clearAuth, repeated authorizations and closed permissions included: an account
\* is filed as often under a permission as the permission is under the account.
AuthMirrored ==
  \A a \in Accounts, p \in Permissions : Count(p, permissions[a]) = Count(a, accounts[p])
=============================================================================
