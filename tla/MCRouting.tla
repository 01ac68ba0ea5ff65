------------------------------ MODULE MCRouting ------------------------------
(***************************************************************************)
(* A small instance of Routing for TLC.                                    *)
(***************************************************************************)
EXTENDS Routing
=============================================================================
