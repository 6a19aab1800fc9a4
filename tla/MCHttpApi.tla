------------------------------ MODULE MCHttpApi ------------------------------
EXTENDS HttpApi, TLC

Symmetry == Permutations(Visitor)
=============================================================================
