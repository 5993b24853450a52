---------------------------- MODULE MCChainQuery ----------------------------
(* An instance of ChainQuery for TLC: a block without logs and one with.   *)
EXTENDS ChainQuery

MCBlocks == {<<>>, <<[gas_used |-> 1, logs |-> <<"t">>]>>}
=============================================================================
