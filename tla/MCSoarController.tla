-------------------------- MODULE MCSoarController --------------------------
(***************************************************************************)
(* Instances of SoarController for TLC.                                    *)
(***************************************************************************)
EXTENDS SoarController, TLC

CONSTANTS i1, e1, c1, c2, w1, w2

OneIncident == [a \in Action |-> i1]

Symmetry == Permutations(Worker) \union Permutations({c1, c2})
=============================================================================
