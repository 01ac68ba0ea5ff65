------------------------------- MODULE MCShell -------------------------------
(***************************************************************************)
(* A small instance of Shell for TLC.                                      *)
(***************************************************************************)
EXTENDS Shell
=============================================================================
