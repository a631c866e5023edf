---------------------------- MODULE MCLocalStore ----------------------------
(***************************************************************************)
(* Instances of LocalStore for TLC.                                        *)
(***************************************************************************)
EXTENDS LocalStore, TLC

CONSTANTS a1, a2

=============================================================================
