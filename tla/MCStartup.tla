----------------------------- MODULE MCStartup -----------------------------
(***************************************************************************)
(* The instance of Startup for TLC: one number that may be 0 and one that  *)
(* must be positive.                                                       *)
(***************************************************************************)
EXTENDS Startup

Defaults == <<0, 1>>
Leasts == <<0, 1>>
=============================================================================
