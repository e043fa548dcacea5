---------------------------- MODULE MCLifecycle -----------------------------
(* A small instance of Lifecycle.                                          *)
EXTENDS Lifecycle, TLC

CONSTANTS i1, i2, a, b, c1, c2, c3

\* Callers, entities and command ids are interchangeable.
Symmetry == Permutations(Caller) \cup Permutations(Id) \cup Permutations(Command)
=============================================================================
