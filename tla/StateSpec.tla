------------------------------ MODULE StateSpec ------------------------------
(***************************************************************************)
(* The promise of State to its callers: one map of accounts, and the maps  *)
(* saved by the checkpoints that are open.  checkpoint saves the map,      *)
(* discard_checkpoint forgets the last saved one, revert_to_checkpoint     *)
(* brings it back, an operation on an account makes that change of the map *)
(* and no other, a read returns what is in the map, and commit changes     *)
(* nothing.                                                                *)
(***************************************************************************)
EXTENDS Accounts, Sequences

CONSTANTS
  Addresses,
  Values,    \* what set_storage may write
  Codes      \* what init_code may write

VARIABLES
  accounts,
  saved,     \* what accounts was at each open checkpoint
  call       \* the last call: its name and arguments, and what a read returned

vars == <<accounts, saved, call>>

Init ==
  /\ accounts = NoAccounts
  /\ saved = <<>>
  /\ call = <<>>

Checkpoint ==
  /\ call' = <<"checkpoint">>
  /\ saved' = Append(saved, accounts)
  /\ UNCHANGED accounts

Discard ==
  /\ call' = <<"discard_checkpoint">>
  /\ saved # <<>>
  /\ saved' = SubSeq(saved, 1, Len(saved) - 1)
  /\ UNCHANGED accounts

Revert ==
  /\ call' = <<"revert_to_checkpoint">>
  /\ saved # <<>>
  /\ accounts' = saved[Len(saved)]
  /\ saved' = SubSeq(saved, 1, Len(saved) - 1)

\* The operation c makes the map m.
Becomes(m, c) ==
  /\ call' = c
  /\ accounts' = m
  /\ UNCHANGED saved

Change(a) ==
  \/ Becomes(IncNonce(accounts, a), <<"inc_nonce", a>>)
  \/ Becomes(NewContract(accounts, a), <<"new_contract", a>>)
  \/ Becomes(Without(accounts, a), <<"kill_account", a>>)
  \/ \E k \in Keys, v \in Values :
       Becomes(SetStorage(accounts, a, k, v), <<"set_storage", a, k, v>>)
  \/ \E c \in Codes : Becomes(InitCode(accounts, a, c), <<"init_code", a, c>>)

Read(a) ==
  \/ Becomes(accounts, <<"nonce", a, NonceOf(accounts, a)>>)
  \/ Becomes(accounts, <<"code", a, CodeOf(accounts, a)>>)
  \/ \E k \in Keys : Becomes(accounts, <<"storage_at", a, k, StorageAt(accounts, a, k)>>)

Commit ==
  /\ Becomes(accounts, <<"commit">>)
  /\ saved = <<>>

Next ==
  \/ Checkpoint \/ Discard \/ Revert \/ Commit
  \/ \E a \in Addresses : Change(a) \/ Read(a)

Spec == Init /\ [][Next]_vars
=============================================================================
