---------------------------- MODULE MCStorefront ----------------------------
(***************************************************************************)
(* Instances of Storefront for TLC.                                        *)
(***************************************************************************)
EXTENDS Storefront

CONSTANTS b1, b2, i1, i2

=============================================================================
