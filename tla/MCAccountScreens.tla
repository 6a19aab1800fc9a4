-------------------------- MODULE MCAccountScreens --------------------------
EXTENDS AccountScreens, TLC

Symmetry == Permutations(Account)
=============================================================================
