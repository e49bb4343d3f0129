------------------------------ MODULE MCWallet ------------------------------
(* Wallet on small instances. *)
EXTENDS Wallet, TLC

Symmetry == Permutations(Task) \cup Permutations(EscrowId)
=============================================================================
