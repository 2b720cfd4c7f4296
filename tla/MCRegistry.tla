----------------------------- MODULE MCRegistry -----------------------------
(* The registry for TLC: pods and clients are interchangeable. *)
EXTENDS Registry, TLC

CONSTANTS p1, p2, c1

MCPods2 == {p1, p2}
MCClients == {c1}

PodSymmetry == Permutations(MCPods2)
=============================================================================
