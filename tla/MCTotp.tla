------------------------------- MODULE MCTotp -------------------------------
(* Small instances of Totp for TLC.                                        *)
EXTENDS Totp, TLC

\* Requests are interchangeable, and so are the places of a set of codes: no
\* action or property names one of them.
Interchangeable == Permutations(Request) \cup Permutations(Slot)
=============================================================================
