---------------------------- MODULE MCChainWatch ----------------------------
(***************************************************************************)
(* Two payments, over any tree of three blocks.                            *)
(***************************************************************************)
EXTENDS ChainWatch

CONSTANTS p1, p2
Two == {p1, p2}

=============================================================================
