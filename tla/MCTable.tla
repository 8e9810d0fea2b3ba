------------------------------- MODULE MCTable -------------------------------
(***************************************************************************)
(* Model-checking instance of Table.                                       *)
(***************************************************************************)
EXTENDS Table, TLC

\* Connections are interchangeable.
Symmetry == Permutations(Clients)
=============================================================================
