--------------------------- MODULE MCCreditWallet ---------------------------
(* Small instances of CreditWallet for TLC.                                *)
EXTENDS CreditWallet, TLC

Symmetry == Permutations(Requests) \cup Permutations(GrantKeys)
NeverOnly == {Never}
=============================================================================
