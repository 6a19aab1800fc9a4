---------------------------- MODULE MCVaultItems ----------------------------
(* VaultItems for TLC: two spellings of one address and a second address.  *)
EXTENDS VaultItems, TLC

CONSTANTS ann, Ann, bob

MCEmail == {ann, Ann, bob}
MCLower == (ann :> "ann") @@ (Ann :> "ann") @@ (bob :> "bob")

Symmetry == Permutations(User) \union Permutations(Item) \union Permutations(Request)
              \union Permutations(Wiper)
=============================================================================
