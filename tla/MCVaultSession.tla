--------------------------- MODULE MCVaultSession ---------------------------
(* VaultSession for TLC. *)
EXTENDS VaultSession, TLC

Symmetry == Permutations(Account) \union Permutations(Item) \union Permutations(Op)
=============================================================================
