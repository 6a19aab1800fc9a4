---------------------------- MODULE MCItemPanel ----------------------------
EXTENDS ItemPanel, TLC

Symmetry ==
  Permutations(Item) \union Permutations(Name) \union Permutations(Op) \union Permutations(Fetch)
=============================================================================
