------------------------------ MODULE MCConfig ------------------------------
(***************************************************************************)
(* Two processes with different configurations.  Version 9, which strings  *)
(* order after 10, adds a selector and a router and points the other       *)
(* router at the new selector.                                             *)
(***************************************************************************)
EXTENDS Config

MCProcs == {"p1", "p2"}
MCSelectors == {"s1", "s2"}
MCRouters == {"r1", "r2"}
MCConfigs == {"nine", "ten"}
MCConfigOf == [p \in MCProcs |-> IF p = "p1" THEN "nine" ELSE "ten"]
MCVersion == [c \in MCConfigs |-> IF c = "nine" THEN <<9>> ELSE <<1, 0>>]
MCSelectorsOf == [c \in MCConfigs |-> IF c = "nine" THEN {"s1", "s2"} ELSE {"s1"}]
MCUses == [c \in MCConfigs |->
             IF c = "nine" THEN [r \in {"r1", "r2"} |-> IF r = "r1" THEN {"s2"} ELSE {"s1"}]
             ELSE [r \in {"r1"} |-> {"s1"}]]
=============================================================================
