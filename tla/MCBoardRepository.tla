-------------------------- MODULE MCBoardRepository --------------------------
(* A small instance of BoardRepository for TLC. *)
EXTENDS BoardRepository
=============================================================================
