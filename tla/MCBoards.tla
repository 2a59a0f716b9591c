------------------------------ MODULE MCBoards ------------------------------
(***************************************************************************)
(* The instance of Boards for TLC.                                         *)
(***************************************************************************)
EXTENDS Boards
=============================================================================
