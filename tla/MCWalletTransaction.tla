------------------------- MODULE MCWalletTransaction -------------------------
(* Small instances of WalletTransaction for TLC.                           *)
EXTENDS WalletTransaction, TLC

Symmetry == Permutations(RequestIds)
=============================================================================
