---------------------------- MODULE MCAddressPool ----------------------------
(***************************************************************************)
(* Two addresses, each imported for users or for a machine.                *)
(***************************************************************************)
EXTENDS AddressPool

CONSTANTS x1, x2, m1, h1

=============================================================================
