------------------------------- MODULE MCTurn -------------------------------
(* A small instance of Turn, alone.                                        *)
EXTENDS Turn
=============================================================================
