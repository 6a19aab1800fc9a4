-------------------------- MODULE MCRefreshTokens --------------------------
(* Small instances of RefreshTokens for TLC: three requests over a pool of *)
(* two (MCRefreshTokens.cfg), and three over a pool of the size db.js has  *)
(* (MCRefreshTokensLate.cfg).                                              *)
EXTENDS RefreshTokens
=============================================================================
