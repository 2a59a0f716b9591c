------------------------------ MODULE MCRelay ------------------------------
(***************************************************************************)
(* Instances of Relay for TLC.                                             *)
(***************************************************************************)
EXTENDS Relay

=============================================================================
