-------------------------- MODULE MCScooterWallet --------------------------
(* Small instances of the scooter rental and the wallet.                   *)
EXTENDS ScooterWallet, TLC

Symmetry == Permutations(Users) \cup Permutations(Slots)
============================================================================
