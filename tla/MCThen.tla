------------------------------- MODULE MCThen -------------------------------
(***************************************************************************)
(* Pipelines for TLC.                                                      *)
(***************************************************************************)
EXTENDS Then

MCMixed == <<"maybe", "then", "then", "value">>
=============================================================================
