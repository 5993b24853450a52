-------------------------- MODULE PermissionManager --------------------------
(***************************************************************************)
(* The system contract that keeps who may send transactions and who may    *)
(* create contracts: a permission per user, and two lists of users that    *)
(* queryUsersOfPermission returns.                                         *)
(***************************************************************************)
EXTENDS Integers, Sequences, SequencesExt

CONSTANTS
  Users,
  InitSenders,   \* lists given to the constructor
  InitCreators,
  MaxList        \* bound on the length of a list

\* UserPermission { None, Send, Create }
None == 0
Send == 1
Create == 2
Permissions == {None, Send, Create}

VARIABLES
  senders,          \* users having the send tx permission
  creators,         \* users having the create contract permission
  user_permission

vars == <<senders, creators, user_permission>>

Init ==
  /\ senders = InitSenders
  /\ creators = InitCreators
  /\ user_permission = [u \in Users |-> IF u \in ToSet(InitCreators) THEN Create
                                        ELSE IF u \in ToSet(InitSenders) THEN Send ELSE None]

\* Mutant of grantPermission: whoever has less or as much may be granted.
GrantAgain(sender, user, permission) ==
  /\ user_permission[sender] = permission
  /\ user_permission[user] <= permission
  /\ permission = Send => Len(senders) < MaxList
  /\ permission = Create => Len(creators) < MaxList
  /\ senders' = IF permission = Send THEN Append(senders, user) ELSE senders
  /\ creators' = IF permission = Create THEN Append(creators, user) ELSE creators
  /\ user_permission' = [user_permission EXCEPT ![user] = permission]

grantPermission(sender, user, permission) ==
  /\ user_permission[sender] = permission
  /\ user_permission[user] < permission
  /\ permission = Send => Len(senders) < MaxList
  /\ permission = Create => Len(creators) < MaxList
  /\ senders' = IF permission = Send THEN Append(senders, user) ELSE senders
  /\ creators' = IF permission = Create THEN Append(creators, user) ELSE creators
  /\ user_permission' = [user_permission EXCEPT ![user] = permission]

\* Mutant of revokePermission: without notSelf.
RevokeSelf(sender, user, permission) ==
  /\ user_permission[sender] >= permission
  /\ user_permission[user] = permission
  /\ user_permission' = [user_permission EXCEPT ![user] = None]
  /\ senders' = IF permission = Send THEN RemoveFirst(senders, user) ELSE senders
  /\ creators' = IF permission = Create THEN RemoveFirst(creators, user) ELSE creators

\* deleteUser removes the first entry of the user from the list.
revokePermission(sender, user, permission) ==
  /\ user_permission[sender] >= permission
  /\ user_permission[user] = permission
  /\ user # sender
  /\ user_permission' = [user_permission EXCEPT ![user] = None]
  /\ senders' = IF permission = Send THEN RemoveFirst(senders, user) ELSE senders
  /\ creators' = IF permission = Create THEN RemoveFirst(creators, user) ELSE creators

Call ==
  \E s, u \in Users, p \in Permissions :
    grantPermission(s, u, p) \/ revokePermission(s, u, p)

-----------------------------------------------------------------------------
(* Properties.                                                             *)

\* creators is exactly the list of the users with the permission Create, and
\* every user with the permission Send is in the list of senders.
ListsMatchPermissions ==
  /\ IsInjective(creators)
  /\ ToSet(creators) = {u \in Users : user_permission[u] = Create}
  /\ \A u \in Users : user_permission[u] = Send => Contains(senders, u)
=============================================================================
