------------------------- MODULE MCWithdrawalTree -------------------------
(* Model-checking instance of WithdrawalTree: the cfgs give the chain     *)
(* bounds, the crash and corruption bounds and the model values.          *)
EXTENDS WithdrawalTree
=============================================================================
