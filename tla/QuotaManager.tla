---------------------------- MODULE QuotaManager ----------------------------
(***************************************************************************)
(* The system contract that keeps the gas limits, and the executor's        *)
(* reading of it.  An account's own limit is written in two places: in the  *)
(* mapping special, which the contract's getters use, and at the end of the *)
(* two append-only lists that the executor zips.                            *)
(***************************************************************************)
EXTENDS Integers, Sequences, SequencesExt

CONSTANTS
  Addresses,
  QuotaAdmin,    \* the account given to the constructor
  Limits,        \* the values calls give
  BaseLimit, BlockLimit, MaxLimit,  \* 2^22 - 1, 2^28 - 1, 2^63 - 1
  InitAccount, InitBlock,           \* 268435456, 1073741824
  Word           \* 2^64: one more than the largest u64

VARIABLES
  quota_admins,
  is_global,     \* mapping (bytes32 => bool)
  global,        \* mapping (bytes32 => uint)
  special,       \* mapping (address => mapping (bytes32 => uint))
  special_users,
  users_quota,
  set_special    \* accounts whose own gas limit setSpecial wrote last

vars == <<quota_admins, is_global, global, special, special_users, users_quota, set_special>>

Keys == {"blockGasLimit", "accountGasLimit"}

Init ==
  /\ quota_admins = {QuotaAdmin}
  /\ is_global = [k \in Keys |-> k = "blockGasLimit"]
  /\ global = [k \in Keys |-> IF k = "blockGasLimit" THEN InitBlock ELSE InitAccount]
  /\ special = [a \in Addresses |->
                 [k \in Keys |-> IF a = QuotaAdmin /\ k = "accountGasLimit" THEN InitBlock ELSE 0]]
  /\ special_users = <<QuotaAdmin>>
  /\ users_quota = <<InitBlock>>
  /\ set_special = {}

onlyAdmin(sender) == sender \in quota_admins
checkLimit(v) == BaseLimit <= v /\ v <= MaxLimit
checkBlockLimit(v) == v > BlockLimit

addAdmin(sender, a) ==
  /\ onlyAdmin(sender)
  /\ quota_admins' = quota_admins \cup {a}
  /\ UNCHANGED <<is_global, global, special, special_users, users_quota, set_special>>

setIsGlobal(sender, k, b) ==
  /\ onlyAdmin(sender)
  /\ is_global' = [is_global EXCEPT ![k] = b]
  /\ UNCHANGED <<quota_admins, global, special, special_users, users_quota, set_special>>

setGlobal(sender, k, v) ==
  /\ onlyAdmin(sender)
  /\ global' = [global EXCEPT ![k] = v]
  /\ UNCHANGED <<quota_admins, is_global, special, special_users, users_quota, set_special>>

\* setSpecial writes the mapping and not the lists.
setSpecial(sender, a, k, v) ==
  /\ onlyAdmin(sender)
  /\ special' = [special EXCEPT ![a][k] = v]
  /\ set_special' = IF k = "accountGasLimit" THEN set_special \cup {a} ELSE set_special
  /\ UNCHANGED <<quota_admins, is_global, global, special_users, users_quota>>

setBlockGasLimit(sender, v) ==
  /\ checkLimit(v) /\ checkBlockLimit(v)
  /\ setGlobal(sender, "blockGasLimit", v)

setGlobalAccountGasLimit(sender, v) ==
  /\ checkLimit(v)
  /\ setGlobal(sender, "accountGasLimit", v)

\* Mutant of setAccountGasLimit: a listed account is not listed again.
SetAccountOnce(sender, a, v) ==
  /\ onlyAdmin(sender) /\ checkLimit(v)
  /\ special' = [special EXCEPT ![a]["accountGasLimit"] = v]
  /\ special_users' = IF Contains(special_users, a) THEN special_users ELSE Append(special_users, a)
  /\ users_quota' = IF Contains(special_users, a) THEN users_quota ELSE Append(users_quota, v)
  /\ set_special' = set_special \ {a}
  /\ UNCHANGED <<quota_admins, is_global, global>>

setAccountGasLimit(sender, a, v) ==
  /\ onlyAdmin(sender) /\ checkLimit(v)
  /\ special' = [special EXCEPT ![a]["accountGasLimit"] = v]
  /\ special_users' = Append(special_users, a)
  /\ users_quota' = Append(users_quota, v)
  /\ set_special' = set_special \ {a}
  /\ UNCHANGED <<quota_admins, is_global, global>>

Call ==
  \E s, a \in Addresses :
    \/ addAdmin(s, a)
    \/ \E k \in Keys :
         \/ \E b \in BOOLEAN : setIsGlobal(s, k, b)
         \/ \E v \in Limits : setGlobal(s, k, v) \/ setSpecial(s, a, k, v)
    \/ \E v \in Limits : \/ setBlockGasLimit(s, v)
                         \/ setGlobalAccountGasLimit(s, v)
                         \/ setAccountGasLimit(s, a, v)

getAccountQuota(a) ==
  IF special[a]["accountGasLimit"] = 0 THEN global["accountGasLimit"]
                                       ELSE special[a]["accountGasLimit"]

-----------------------------------------------------------------------------
(* What the executor reads.                                                *)

low_u64(v) == v % Word

\* The zip of the two lists: a later entry replaces an earlier one.
specific ==
  LET pairs == 1..Len(special_users) \cap 1..Len(users_quota)
      LastOf(a) == CHOOSE i \in pairs : /\ special_users[i] = a
                                        /\ \A j \in pairs : special_users[j] = a => j <= i
  IN [a \in {special_users[i] : i \in pairs} |-> low_u64(users_quota[LastOf(a)])]

account_gas_limit == low_u64(global["accountGasLimit"])
\* The limit a transaction of the account meets.
AccountLimit(a) == IF a \in DOMAIN specific THEN specific[a] ELSE account_gas_limit

-----------------------------------------------------------------------------
(* Properties.                                                             *)

\* The limit the executor applies to an account, from the lists, is the one that
\* getAccountQuota answers, from the mapping, but in two cases: the account's own limit
\* was last written by setSpecial, which leaves the lists alone, or it has none and
\* setGlobal gave all accounts one that does not fit into 64 bits.
LimitAsAnswered ==
  \A a \in Addresses :
    \/ AccountLimit(a) = getAccountQuota(a)
    \/ a \in set_special
    \/ special[a]["accountGasLimit"] = 0 /\ global["accountGasLimit"] >= Word
=============================================================================
