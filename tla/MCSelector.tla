----------------------------- MODULE MCSelector -----------------------------
(***************************************************************************)
(* A small instance of Selector: one pod, with one endpoint that comes,    *)
(* hangs, comes back and goes while Selects are under way.                 *)
(***************************************************************************)
EXTENDS Selector, TLC

CONSTANTS p1, e1

OneEndpoint == e1 :> p1

Symmetry == Permutations(Threads)
=============================================================================
