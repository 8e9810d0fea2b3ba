------------------------------- MODULE MCKey --------------------------------
(***************************************************************************)
(* Model-checking instances of Key.                                        *)
(***************************************************************************)
EXTENDS Key, TLC

\* Connections are interchangeable, and so are members.
Symmetry == Permutations(Clients) \cup Permutations(Members)
=============================================================================
