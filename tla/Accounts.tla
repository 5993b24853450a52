------------------------------ MODULE Accounts ------------------------------
(***************************************************************************)
(* What the account state of the executor is to the code that runs         *)
(* transactions: a map from addresses to accounts.  An address outside the *)
(* domain of the map has no account.                                       *)
(*                                                                         *)
(* A hash stands for what it is the hash of: a code is its own hash, the   *)
(* root of a storage is the function from keys to values, 0 at the keys    *)
(* that are not there.                                                     *)
(***************************************************************************)
EXTENDS Naturals

CONSTANT Keys      \* storage keys

NoCode == "no code"
Absent == "absent"
Zeros == [k \in Keys |-> 0]

NewAccount == [nonce |-> 0, storage |-> Zeros, code |-> NoCode]
NoAccounts == [a \in {} |-> NewAccount]

With(m, a, account) == [b \in DOMAIN m \cup {a} |-> IF b = a THEN account ELSE m[b]]
Without(m, a) == [b \in DOMAIN m \ {a} |-> m[b]]

\* State::require: the account, a new one if there is none.
Required(m, a) == IF a \in DOMAIN m THEN m[a] ELSE NewAccount

NonceOf(m, a) == Required(m, a).nonce
StorageAt(m, a, k) == Required(m, a).storage[k]
CodeOf(m, a) == IF a \in DOMAIN m THEN m[a].code ELSE Absent
IncNonce(m, a) == With(m, a, [Required(m, a) EXCEPT !.nonce = @ + 1])
InitCode(m, a, c) == With(m, a, [Required(m, a) EXCEPT !.code = c])
SetStorage(m, a, k, v) ==
  IF StorageAt(m, a, k) = v THEN m ELSE With(m, a, [Required(m, a) EXCEPT !.storage[k] = v])
NewContract(m, a) == With(m, a, NewAccount)
=============================================================================
