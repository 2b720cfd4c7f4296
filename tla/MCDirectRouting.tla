-------------------------- MODULE MCDirectRouting --------------------------
(***************************************************************************)
(* Small instances of DirectRouting: a migrator in server a, or in a       *)
(* client process, where the servers may be exchanged for one another.     *)
(***************************************************************************)
EXTENDS DirectRouting, TLC

CONSTANTS a, b, c, m1

InServer == m1 :> a
InClient == m1 :> NoRoute

AnyServer == Permutations(Endpoints)
============================================================================
