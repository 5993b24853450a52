----------------------------- MODULE MCExecutor -----------------------------
(* Instances of Executor for TLC.                                          *)
EXTENDS Executor, TLC

CONSTANTS r1, r2

MCRoots == {r1, r2}
MCDecided == [h \in Heights |-> IF h = 1 THEN r1 ELSE r2]

\* r1 is an empty block (no look at is_interrupted), r2 a block of up to 256
\* transactions.
MCChecks == (r1 :> 0) @@ (r2 :> 1)

MCNone == {}
MCProofs == {"good", "bad"}
MCGood == {"good"}
=============================================================================
