-------------------------- MODULE PermissionSystem --------------------------
(***************************************************************************)
(* The permission system contract (0x...13241a5): groups of users in a     *)
(* tree, roles with permissions, and the authorization of groups by roles. *)
(*                                                                         *)
(* Groups and roles are named by bytes32 values of one space, and a name   *)
(* that nothing was stored under reads as an empty group or role, so that  *)
(* the functions are total.  A call whose modifiers fail, or that throws,  *)
(* changes nothing: only the calls that succeed are steps.  The set        *)
(* operations of Util write to a memory array of length zero, so a call    *)
(* that would have to put an element into their result throws.             *)
(* The profile of a group is free text that nothing reads and is left out. *)
(***************************************************************************)
EXTENDS Integers, Sequences, FiniteSets, SequencesExt, Functions

CONSTANTS
  Users,
  GivenNames,         \* bound: the names that calls are made with, for groups and for roles
  SuperAdmins,        \* what the genesis gives as super admin; NoUser for none
  AdamEve,            \* the users of the root group when there is no super admin
  UserLists,          \* bound: the user lists that calls are made with
  PermissionLists,    \* bound: the permission lists that calls are made with
  MaxPermCalls        \* bound on the calls

VARIABLES
  superAdmin, groups, roles, role_groups, group_roles,
  group_applicants, user_groups, group_names, role_names,
  half_renamed,       \* names of roles that a rename took away and left in role_names
  perm_calls          \* calls so far

permVars == <<superAdmin, groups, roles, role_groups, group_roles,
              group_applicants, user_groups, group_names, role_names, half_renamed, perm_calls>>
authVars == <<role_groups, group_roles>>

Nul == "0x0"
NoUser == "no user"
Root == "root"
Basic == "basic"
Names == GivenNames \cup {Root, Basic, Nul}
SetOps == {"None", "Union", "Interaction", "Diff"}

EmptyGroup == [name |-> Nul, users |-> <<>>, subGroups |-> <<>>, subSwitch |-> FALSE,
               parentGroup |-> Nul]
EmptyRole == [name |-> Nul, permissions |-> <<>>]
Nothing == [n \in Names |-> <<>>]
_per_basic == <<"SendTx", "CreateGroup", "CreateRole", "CreateAuth">>

\* The constructor, and genesis when there is no super admin: its authorization
\* files the role as a group and the group as a role.
PermissionInit ==
  /\ superAdmin \in SuperAdmins
  /\ group_applicants = Nothing /\ user_groups = [u \in Users |-> <<>>]
  /\ half_renamed = {} /\ perm_calls = 0
  /\ \/ /\ superAdmin # NoUser
        /\ groups = [n \in Names |-> EmptyGroup] /\ roles = [n \in Names |-> EmptyRole]
        /\ role_groups = Nothing /\ group_roles = Nothing
        /\ group_names = <<>> /\ role_names = <<>>
     \/ /\ superAdmin = NoUser
        /\ groups = [n \in Names |-> IF n = Root
                                     THEN [EmptyGroup EXCEPT !.name = Root, !.users = AdamEve]
                                     ELSE EmptyGroup]
        /\ roles = [n \in Names |-> IF n = Basic
                                    THEN [name |-> Basic, permissions |-> _per_basic]
                                    ELSE EmptyRole]
        /\ role_groups = [Nothing EXCEPT ![Basic] = <<Basic>>]
        /\ group_roles = [Nothing EXCEPT ![Root] = <<Root>>]
        /\ group_names = <<Root>> /\ role_names = <<Basic>>

-----------------------------------------------------------------------------
(* Util.                                                                   *)

InArray(v, s) == v \in ToSet(s)
ArrayNul(s) == ToSet(s) \subseteq {Nul, NoUser}
Delete(v, s) == RemoveFirst(s, v)

\* bytes32Replace: the first occurrence.
Replace(old, new, s) ==
  IF InArray(old, s) THEN ReplaceAt(s, SelectInSeq(s, LAMBDA x : x = old), new) ELSE s

\* The elements that setOp puts into its result.
setOp(one, other, op) ==
  CASE op = "Union" -> ToSet(one) \cup ToSet(other)
    [] op = "Interaction" -> ToSet(one) \cap ToSet(other)
    [] op = "Diff" -> ToSet(one) \ ToSet(other)

\* The result has length zero: putting an element into it throws.
Throws(one, other, op) == setOp(one, other, op) # {}

-----------------------------------------------------------------------------
(* PermissionCheck.                                                        *)

userInGroup(u, g) == u # superAdmin => InArray(u, groups[g].users)

resourceBelongGroup(res, g) ==
  IF groups[g].subSwitch THEN InArray(res, groups[g].subGroups) ELSE res = g

check(u, g, res, r, p) ==
  /\ userInGroup(u, g)
  /\ InArray(r, group_roles[g])
  /\ InArray(p, roles[r].permissions)
  /\ resourceBelongGroup(res, g)

can(u, g, res, r, p) == u # superAdmin => check(u, g, res, r, p)

groupNul(g) ==
  /\ groups[g].name = Nul /\ ~groups[g].subSwitch
  /\ ArrayNul(groups[g].users) /\ ArrayNul(groups[g].subGroups) /\ ArrayNul(group_roles[g])

roleNul(r) ==
  /\ roles[r].name = Nul
  /\ ArrayNul(roles[r].permissions) /\ ArrayNul(role_groups[r])

-----------------------------------------------------------------------------
(* Groups.                                                                 *)

Called == perm_calls < MaxPermCalls /\ perm_calls' = perm_calls + 1 /\ UNCHANGED superAdmin

initGroup(u, root, us, switch) ==
  /\ Called /\ u = superAdmin /\ groupNul(root)
  /\ groups' = [groups EXCEPT ![root] = [@ EXCEPT !.name = root, !.users = @ \o us,
                                                  !.subSwitch = switch]]
  /\ group_names' = Append(group_names, root)
  /\ UNCHANGED <<roles, authVars, group_applicants, user_groups, role_names, half_renamed>>

applyGroup(u, g) ==
  /\ Called
  /\ group_applicants' = [group_applicants EXCEPT ![g] = Append(@, u)]
  /\ UNCHANGED <<groups, roles, authVars, user_groups, group_names, role_names, half_renamed>>

\* addUsers and deleteUsers, called by approveApply and grantRole, and by revokeRole and
\* approveQuit: what does not throw has an empty result, of which nothing is pushed.
\* Nothing is ever filed in group_resignations: approveQuit deletes no one, and quitGroup
\* finds nothing to delete.
ChangeUsers(u, g, res, r) ==
  /\ Called
  /\ \/ \E us \in UserLists \cup {group_applicants[g]} :
          /\ can(u, g, res, r, "UpdateGroup") \/ can(u, g, g, r, "UpdateGroup")
          /\ ~Throws(groups[res].users, us, "Union")
     \/ \E us \in UserLists \cup {<<>>} :
          can(u, g, res, r, "UpdateGroup") /\ ~Throws(groups[g].users, us, "Diff")
     \/ userInGroup(u, g)
  /\ UNCHANGED <<groups, roles, authVars, group_applicants, user_groups, group_names,
                 role_names, half_renamed>>

\* The users are pushed after whatever the new name already holds.
newGroup(u, g, new, us, switch, op, r) ==
  /\ Called /\ ~InArray(new, group_names) /\ can(u, g, new, r, "CreateGroup")
  /\ op # "None" => ~Throws(groups[g].users, us, op)
  /\ LET pushed == IF op = "None" THEN us ELSE <<>>
         made == [groups EXCEPT ![new] = [@ EXCEPT !.name = new, !.subSwitch = switch,
                                                   !.parentGroup = g, !.users = @ \o pushed]]
     IN  groups' = [made EXCEPT ![g].subGroups = Append(@, new)]
  /\ user_groups' = [v \in Users |->
       user_groups[v] \o [i \in 1..Cardinality({j \in DOMAIN us : us[j] = v}) |-> new]]
  /\ group_names' = Append(group_names, new)
  /\ UNCHANGED <<roles, authVars, group_applicants, role_names, half_renamed>>

\* The group, its entry in its parent, its authorizations and its name; user_groups keeps it.
deleteGroup(u, g, res, r) ==
  /\ Called /\ InArray(res, group_names) /\ can(u, g, res, r, "DeleteGroup")
  /\ ArrayNul(groups[res].subGroups)
  /\ LET parent == groups[res].parentGroup
     IN  groups' = [groups EXCEPT ![parent].subGroups = Delete(res, @), ![res] = EmptyGroup]
  /\ role_groups' = [x \in Names |->
       FoldLeft(LAMBDA s, y : IF y = x THEN Delete(res, s) ELSE s,
                role_groups[x], group_roles[res])]
  /\ group_roles' = [group_roles EXCEPT ![res] = <<>>]
  /\ group_names' = Delete(res, group_names)
  /\ UNCHANGED <<roles, group_applicants, user_groups, role_names, half_renamed>>

\* AuthorizationManager.replaceGroup: it gives up, with what it has changed so far, at a
\* role that does not list the group.
replaceGroup(old, new) ==
  FoldLeft(LAMBDA a, r : IF a.ok /\ InArray(old, a.role_groups[r])
                         THEN [a EXCEPT !.role_groups[r] = Replace(old, new, @)]
                         ELSE [a EXCEPT !.ok = FALSE],
           [ok |-> TRUE, role_groups |-> role_groups], group_roles[old])

\* Neither the parent's subGroups nor the children's parentGroup follow the new name, and
\* group_names does only when replaceGroup went through.
modifyGroupName(u, old, new, res, r) ==
  /\ Called /\ ~InArray(new, group_names) /\ can(u, old, res, r, "UpdateGroup")
  /\ user_groups' = [v \in Users |->
       FoldLeft(LAMBDA s, y : IF y = v THEN Replace(old, new, s) ELSE s,
                user_groups[v], groups[old].users)]
  /\ groups' = [[groups EXCEPT ![new] = [groups[old] EXCEPT !.name = new]]
                 EXCEPT ![old] = EmptyGroup]
  /\ LET a == replaceGroup(old, new)
     IN  /\ role_groups' = a.role_groups
         /\ group_roles' = IF a.ok
                           THEN [[group_roles EXCEPT ![new] = group_roles[old]]
                                  EXCEPT ![old] = <<>>]
                           ELSE group_roles
         /\ group_names' = IF a.ok THEN Replace(old, new, group_names) ELSE group_names
  /\ UNCHANGED <<roles, group_applicants, role_names, half_renamed>>

modifySubSwitch(u, g, res, r, switch) ==
  /\ Called /\ can(u, g, res, r, "UpdateGroup")
  /\ groups' = [groups EXCEPT ![g].subSwitch = switch]
  /\ UNCHANGED <<roles, authVars, group_applicants, user_groups, group_names, role_names, half_renamed>>

-----------------------------------------------------------------------------
(* Roles.                                                                  *)

initRole(u, basic, ps) ==
  /\ Called /\ u = superAdmin /\ roleNul(basic)
  /\ roles' = [roles EXCEPT ![basic] = [name |-> basic, permissions |-> @.permissions \o ps]]
  /\ role_names' = Append(role_names, basic)
  /\ UNCHANGED <<groups, authVars, group_applicants, user_groups, group_names, half_renamed>>

\* A set operation is with the permissions of the role that has the group's name.
newRole(u, g, new, r, ps, op) ==
  /\ Called /\ ~InArray(new, role_names)
  /\ r # Nul => ToSet(ps) \subseteq ToSet(roles[r].permissions)
  /\ can(u, g, g, r, "CreateRole")
  /\ op # "None" => ~Throws(roles[g].permissions, ps, op)
  /\ LET pushed == IF op = "None" THEN ps ELSE <<>>
     IN  roles' = [roles EXCEPT ![new] = [name |-> new, permissions |-> @.permissions \o pushed]]
  /\ role_names' = Append(role_names, new)
  /\ half_renamed' = half_renamed \ {new}
  /\ UNCHANGED <<groups, authVars, group_applicants, user_groups, group_names>>

deleteRole(u, r, g, res) ==
  /\ Called /\ InArray(r, role_names) /\ can(u, g, res, r, "DeleteRole")
  /\ roles' = [roles EXCEPT ![r] = EmptyRole]
  /\ group_roles' = [x \in Names |->
       FoldLeft(LAMBDA s, y : IF y = x THEN Delete(r, s) ELSE s, group_roles[x], role_groups[r])]
  /\ role_groups' = [role_groups EXCEPT ![r] = <<>>]
  /\ role_names' = Delete(r, role_names)
  /\ UNCHANGED <<groups, group_applicants, user_groups, group_names, half_renamed>>

\* AuthorizationManager.replaceRole: the groups it goes through are the roles of the group
\* that has the role's name.
replaceRole(old, new) ==
  FoldLeft(LAMBDA a, g : IF a.ok /\ InArray(old, a.group_roles[g])
                         THEN [a EXCEPT !.group_roles[g] = Replace(old, new, @)]
                         ELSE [a EXCEPT !.ok = FALSE],
           [ok |-> TRUE, group_roles |-> group_roles], group_roles[old])

\* The role under its new name, and the authorizations as far as replaceRole went:
\* where it gave up, the old name stays in role_names, without a role.
RenameRole(u, old, new, g, res) ==
  /\ Called /\ ~InArray(new, role_names) /\ can(u, g, res, old, "UpdateRole")
  /\ roles' = [[roles EXCEPT ![new] = [roles[old] EXCEPT !.name = new]] EXCEPT ![old] = EmptyRole]
  /\ LET a == replaceRole(old, new)
     IN  /\ group_roles' = a.group_roles
         /\ role_groups' = IF a.ok
                           THEN [[role_groups EXCEPT ![new] = group_roles[old]]
                                  EXCEPT ![old] = <<>>]
                           ELSE role_groups
         /\ half_renamed' = IF a.ok THEN half_renamed ELSE half_renamed \cup {old}
  /\ UNCHANGED <<groups, group_applicants, user_groups, group_names>>

\* Mutant of modifyRoleName: role_names keeps the old name.
ModifyRoleOnly(u, old, new, g, res) ==
  RenameRole(u, old, new, g, res) /\ UNCHANGED role_names

modifyRoleName(u, old, new, g, res) ==
  /\ RenameRole(u, old, new, g, res)
  /\ role_names' = IF replaceRole(old, new).ok THEN Replace(old, new, role_names) ELSE role_names

\* addPermissions and deletePermissions: what does not throw pushes nothing.
ChangePermissions(u, r, ps, g, res) ==
  /\ Called /\ can(u, g, res, r, "UpdateRole")
  /\ \/ InArray(r, role_names) /\ ~Throws(roles[r].permissions, ps, "Union")
     \/ ~Throws(roles[r].permissions, ps, "Diff")
  /\ UNCHANGED <<groups, roles, authVars, group_applicants, user_groups, group_names,
                 role_names, half_renamed>>

-----------------------------------------------------------------------------
(* Authorizations.                                                         *)

\* As in genesis, the role is filed as a group and the group as a role.
initAuthorization(u, g, r) ==
  /\ Called /\ u = superAdmin
  /\ ArrayNul(role_groups[r]) /\ ArrayNul(group_roles[g])
  /\ role_groups' = [role_groups EXCEPT ![r] = Append(@, r)]
  /\ group_roles' = [group_roles EXCEPT ![g] = Append(@, g)]
  /\ UNCHANGED <<groups, roles, group_applicants, user_groups, group_names, role_names, half_renamed>>

setAuthorization(u, g, r, res) ==
  /\ Called /\ can(u, g, res, r, "CreateAuth")
  /\ role_groups' = [role_groups EXCEPT ![r] = Append(@, g)]
  /\ group_roles' = [group_roles EXCEPT ![g] = Append(@, r)]
  /\ UNCHANGED <<groups, roles, group_applicants, user_groups, group_names, role_names, half_renamed>>

\* The permission asked for is "DeteleAuth", not the DeleteAuth of the list.
cancelAuthorization(u, g, r, res) ==
  /\ Called /\ can(u, g, res, r, "DeteleAuth")
  /\ role_groups' = [role_groups EXCEPT ![r] = Delete(g, @)]
  /\ group_roles' = [group_roles EXCEPT ![g] = Delete(r, @)]
  /\ UNCHANGED <<groups, roles, group_applicants, user_groups, group_names, role_names, half_renamed>>

-----------------------------------------------------------------------------

CallGroups(u, g, res, r) ==
  \/ applyGroup(u, g)
  \/ ChangeUsers(u, g, res, r)
  \/ deleteGroup(u, g, res, r)
  \/ modifyGroupName(u, g, res, g, r) \/ modifyGroupName(u, g, res, res, r)
  \/ \E switch \in BOOLEAN :
       \/ modifySubSwitch(u, g, res, r, switch)
       \/ \E us \in UserLists : initGroup(u, g, us, switch)
       \/ \E us \in UserLists, op \in SetOps : newGroup(u, g, res, us, switch, op, r)

CallRoles(u, g, res, r) ==
  \/ deleteRole(u, r, g, res)
  \/ \E s \in GivenNames :
       \/ modifyRoleName(u, r, s, g, res)
       \/ \E ps \in PermissionLists, op \in SetOps, x \in {s, Nul} : newRole(u, g, r, x, ps, op)
  \/ \E ps \in PermissionLists : initRole(u, r, ps) \/ ChangePermissions(u, r, ps, g, res)

CallAuthorizations(u, g, res, r) ==
  \/ initAuthorization(u, g, r)
  \/ setAuthorization(u, g, r, res)
  \/ cancelAuthorization(u, g, r, res)

PermissionNext ==
  \E u \in Users, g, res, r \in GivenNames :
    CallGroups(u, g, res, r) \/ CallRoles(u, g, res, r) \/ CallAuthorizations(u, g, res, r)

-----------------------------------------------------------------------------
(* Properties.                                                             *)

\* role_names and the roles are kept together by initRole, newRole, deleteRole and
\* modifyRoleName, whatever names groups and roles share: a listed name is listed once
\* and is that of a role, unless a modifyRoleName whose replaceRole gave up took the
\* role away from it.
RolesListed ==
  \A i \in DOMAIN role_names :
    role_names[i] \notin half_renamed =>
      /\ roles[role_names[i]].name = role_names[i]
      /\ \A j \in DOMAIN role_names : role_names[j] = role_names[i] => j = i

=============================================================================
