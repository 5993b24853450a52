---------------------------- MODULE MCSysConfig ----------------------------
(* Instances of SysConfig for TLC.                                         *)
EXTENDS SysConfig

CONSTANTS n1, n2, v1, v2

MCTwo == {n1, n2}
MCNone == {}
MCTwoValues == {v1, v2}
=============================================================================
