---------------------------- MODULE MCApiClient ----------------------------
(* A small instance of ApiClient for TLC.                                  *)
EXTENDS ApiClient
=============================================================================
