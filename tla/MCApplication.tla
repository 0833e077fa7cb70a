--------------------------- MODULE MCApplication ---------------------------
(***************************************************************************)
(* An instance of Application for TLC.                                     *)
(***************************************************************************)
EXTENDS Application, TLC

CONSTANTS ana, root, desk, office

\* Two administrators at two addresses.
Seats == ana :> desk @@ root :> office

Symmetry == Permutations(Thread) \union Permutations(Action)
=============================================================================
