-------------------------- MODULE MCFeeSettlement ---------------------------
(***************************************************************************)
(* Instances of FeeSettlement for TLC: the charge f is of f units.         *)
(***************************************************************************)
EXTENDS FeeSettlement, FiniteSetsExt

TwoFees == {1, 2}
TotalOfFees == [S \in SUBSET TwoFees |-> SumSet(S)]
=============================================================================
