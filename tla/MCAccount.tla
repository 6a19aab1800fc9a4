----------------------------- MODULE MCAccount -----------------------------
(* Small instances of Account for TLC.                                     *)
EXTENDS Account, TLC

\* Requests are interchangeable: no action or property names one of them.
Interchangeable == Permutations(Request)
=============================================================================
