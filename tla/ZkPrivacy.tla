------------------------------ MODULE ZkPrivacy ------------------------------
(***************************************************************************)
(* The native contract ZkPrivacy (feature privatetx): balances that are    *)
(* turned into coins, and coins into balances.                             *)
(*                                                                         *)
(* The contract only sees commitments; here a balance is its amount and a  *)
(* coin is a name with a value that the sender gives it.  p2c_verify,      *)
(* c2p_verify and the Merkle tree are of a library: a proof of sending     *)
(* shows that the amount taken is that of the coin and not more than the   *)
(* balance it was made for, a proof of receiving that the nullifier is of  *)
(* a coin under the given root with that amount.  The root stands for the  *)
(* coins under it.                                                         *)
(***************************************************************************)
EXTENDS Integers, Sequences, SequencesExt, FiniteSets, FiniteSetsExt

CONSTANTS Users, Coins, Amounts, MaxBlock

VARIABLES
  balances, last_spent, coins, nullifier_set,
  tree,         \* the coins under the root, from left, right and parents
  number,       \* env_info().number
  value,        \* value[c]: the amount of a coin that was sent, else 0
  proofs,       \* proofs of receiving that users have made: [coin, root]
  issued        \* what set_banlance gave, less what it overwrote

zkVars == <<balances, last_spent, coins, nullifier_set, tree, number, value, proofs, issued>>

NewBlock ==
  /\ number < MaxBlock
  /\ number' = number + 1
  /\ UNCHANGED <<balances, last_spent, coins, nullifier_set, tree, value, proofs, issued>>

\* The balance of u is set, whatever it was and however often.
set_banlance(u, n) ==
  /\ balances' = [balances EXCEPT ![u] = n]
  /\ issued' = issued - balances[u] + n
  /\ UNCHANGED <<last_spent, coins, nullifier_set, tree, number, value, proofs>>

\* Refused for a coin that is there, in a block the user has sent in, and for a proof
\* for another balance: an Internal error, before anything is written.
send_verify(u, c, n) ==
  /\ c \notin ToSet(coins)
  /\ last_spent[u] < number
  /\ n <= balances[u]
  /\ last_spent' = [last_spent EXCEPT ![u] = number]
  /\ coins' = Append(coins, c)
  /\ tree' = Append(tree, c)
  /\ balances' = [balances EXCEPT ![u] = @ - n]
  /\ value' = [value EXCEPT ![c] = n]
  /\ UNCHANGED <<nullifier_set, number, proofs, issued>>

\* A user makes a proof for a coin of theirs, with the root of now.
Prove(c) ==
  /\ c \in ToSet(tree)
  /\ proofs' = proofs \cup {[coin |-> c, root |-> tree]}
  /\ UNCHANGED <<balances, last_spent, coins, nullifier_set, tree, number, value, issued>>

\* Mutant of receive_verify: the nullifiers are not looked at.
ReceiveAny(u, p) ==
  /\ p \in proofs
  /\ p.root = tree
  /\ nullifier_set' = Append(nullifier_set, p.coin)
  /\ balances' = [balances EXCEPT ![u] = @ + value[p.coin]]
  /\ UNCHANGED <<last_spent, coins, tree, number, value, proofs, issued>>

\* Refused for a nullifier that is there and for a root of before the last coin.
receive_verify(u, p) ==
  /\ p \in proofs
  /\ p.coin \notin ToSet(nullifier_set)
  /\ p.root = tree
  /\ nullifier_set' = Append(nullifier_set, p.coin)
  /\ balances' = [balances EXCEPT ![u] = @ + value[p.coin]]
  /\ UNCHANGED <<last_spent, coins, tree, number, value, proofs, issued>>

ZkInit ==
  /\ balances = [u \in Users |-> 0] /\ last_spent = [u \in Users |-> 0]
  /\ coins = <<>> /\ nullifier_set = <<>> /\ tree = <<>> /\ number = 1
  /\ value = [c \in Coins |-> 0] /\ proofs = {} /\ issued = 0

ZkNext ==
  \/ NewBlock
  \/ \E u \in Users, n \in Amounts : set_banlance(u, n)
  \/ \E u \in Users, c \in Coins, n \in Amounts : send_verify(u, c, n)
  \/ \E c \in Coins : Prove(c)
  \/ \E u \in Users, p \in proofs : receive_verify(u, p)

\* Sending and receiving keep what there is: the balances and the coins that were
\* not received add up to what set_banlance gave, less what it overwrote.  No coin is received twice, whatever
\* proofs there are of it (nullifier_set), or sent twice (coins).
Conserved ==
  /\ MapThenSumSet(LAMBDA u : balances[u], Users)
       + MapThenSumSet(LAMBDA c : value[c], ToSet(coins) \ ToSet(nullifier_set)) = issued
  /\ tree = coins /\ IsInjective(coins) /\ IsInjective(nullifier_set)
=============================================================================
