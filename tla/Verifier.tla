------------------------------ MODULE Verifier ------------------------------
(***************************************************************************)
(* The verifier of the auth service: the hashes of the transactions in the *)
(* last BLOCKLIMIT blocks, filled from what the chain service sends, and   *)
(* the verdict on one transaction.                                         *)
(*                                                                         *)
(* The chain sends the hashes of a block when it has it, when auth asks    *)
(* for them and when the chain is started again, so that the hashes of any *)
(* block may come at any time, in any order, more than once or never.      *)
(* send_txhashs_req adds nothing to that.  The block of a height is the    *)
(* agreed one.  A transaction is its hash; what is wrong with it in itself *)
(* is Fault.                                                               *)
(***************************************************************************)
EXTENDS Integers, FiniteSets

CONSTANTS
  Txs,
  Fault,               \* Fault[t]: "OK", or why t is refused whatever the chain is
  valid_until_block,   \* valid_until_block[t]
  BLOCKLIMIT,
  StartHeight,         \* bound: blocks up to it hold no transaction of Txs
  MaxHeight            \* bound on heights

ASSUME VerifierAssumption ==
  /\ Fault \in [Txs -> {"OK", "InvalidNonce", "BadSig"}]
  /\ valid_until_block \in [Txs -> Nat]
  /\ BLOCKLIMIT \in Nat \ {0} /\ MaxHeight \in Nat /\ StartHeight \in 0..MaxHeight

VARIABLES
  tip,            \* height of the chain
  chain,          \* chain[h]: the transactions of block h
  inited,
  height_latest,  \* -1 for None
  height_low,     \* -1 for None
  hashes          \* height -> hashes of the transactions of that block

chainVars == <<tip, chain>>
verifierVars == <<inited, height_latest, height_low, hashes>>

None == -1

VerifierInit ==
  /\ tip = StartHeight /\ chain = [h \in 0..MaxHeight |-> {}]
  /\ inited = FALSE /\ height_latest = None /\ height_low = None
  /\ hashes = [h \in {} |-> {}]

-----------------------------------------------------------------------------
(* The chain service.                                                      *)

\* A block is agreed on.  It holds no transaction of an earlier one or past its
\* limit, and an auth service took each of its transactions, with the limit at most
\* BLOCKLIMIT ahead, at the height before or earlier.
NewBlock(S) ==
  /\ tip < MaxHeight
  /\ \A t \in S : /\ \A h \in 0..tip : t \notin chain[h]
                  /\ tip + 1 <= valid_until_block[t]
                  /\ valid_until_block[t] <= tip + BLOCKLIMIT
  /\ tip' = tip + 1
  /\ chain' = [chain EXCEPT ![tip + 1] = S]
  /\ UNCHANGED verifierVars

-----------------------------------------------------------------------------
(* The verifier.                                                           *)

low_of(h) == IF h < BLOCKLIMIT THEN 0 ELSE h - BLOCKLIMIT + 1

\* hashes.insert, after the removal of what is below low.
Inserted(h, low) ==
  [k \in {j \in DOMAIN hashes : j >= low} \cup {h} |-> IF k = h THEN chain[h] ELSE hashes[k]]

\* The end of update_hashes: the new entry, and whether there are enough now.
File(h, latest, low) ==
  /\ height_latest' = latest /\ height_low' = low
  /\ hashes' = Inserted(h, low)
  /\ inited' = (inited \/ Cardinality(DOMAIN hashes') = latest - low + 1)

\* Mutant of update_hashes: hashes past a gap are filed like the next ones.
UpdateAny(h) ==
  IF h > height_latest THEN File(h, h, low_of(h))
  ELSE IF h < height_low THEN UNCHANGED verifierVars
  ELSE File(h, height_latest, height_low)

\* The first hashes, the next, some past a gap, of the window, and below it.
update_hashes(h) ==
  \/ /\ height_latest = None
     /\ File(h, h, low_of(h))
  \/ /\ height_latest # None /\ h = height_latest + 1
     /\ File(h, h, low_of(h))
  \/ /\ height_latest # None /\ h > height_latest + 1
     /\ UNCHANGED verifierVars
  \/ /\ height_latest # None /\ height_low <= h /\ h <= height_latest
     /\ File(h, height_latest, height_low)
  \/ /\ height_latest # None /\ h < height_low
     /\ UNCHANGED verifierVars

\* check_hash_exist of a verifier that is ready.
check_hash_exist(t) == \E h \in DOMAIN hashes : t \in hashes[h]

\* Mutant of verfiy_tx: the verifier is taken to be ready.
VerifyEarly(t) ==
  IF Fault[t] = "InvalidNonce" THEN "InvalidNonce"
  ELSE IF check_hash_exist(t) THEN "Dup"
  ELSE Fault[t]

verfiy_tx(t) ==
  IF Fault[t] = "InvalidNonce" THEN "InvalidNonce"
  ELSE IF ~inited THEN "NotReady"
  ELSE IF check_hash_exist(t) THEN "Dup"
  ELSE Fault[t]

verify_valid_until_block(t) ==
  /\ height_latest # None
  /\ height_latest < valid_until_block[t]
  /\ valid_until_block[t] <= height_latest + BLOCKLIMIT
=============================================================================
