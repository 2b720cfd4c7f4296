------------------------------ MODULE LruSpec ------------------------------
(***************************************************************************)
(* What the direct strategy's LRU cache promises: at most Capacity custom  *)
(* routes, the least recently looked up one dropped first, a failed lookup *)
(* never cached, and a refresh that replaces or drops an entry without     *)
(* counting as a use of it.                                                *)
(***************************************************************************)
EXTENDS Naturals, Sequences

CONSTANTS Keys,      \* header values
          Values,    \* endpoints
          NoValue,   \* the store has no route: ErrNoCustomRoute
          Capacity

VARIABLES items,   \* entries, most recently used first
          answer   \* what the last Get returned

Entry == [key : Keys, value : Values]
Has(k) == \E i \in 1..Len(items) : items[i].key = k
Place(k) == CHOOSE i \in 1..Len(items) : items[i].key = k
Lookup(k) == items[Place(k)]
Without(k) == IF Has(k) THEN SubSeq(items, 1, Place(k) - 1)
                               \o SubSeq(items, Place(k) + 1, Len(items))
              ELSE items
Cut(s) == IF Len(s) > Capacity THEN SubSeq(s, 1, Capacity) ELSE s

Init == items = <<>> /\ answer = NoValue

Get(k, stored) ==
    IF Has(k) THEN /\ items' = <<Lookup(k)>> \o Without(k)
                   /\ answer' = Lookup(k).value
    ELSE /\ items' = IF stored = NoValue THEN items
                     ELSE Cut(<<[key |-> k, value |-> stored]>> \o items)
         /\ answer' = stored

Refresh(k, stored) ==
    /\ items' = IF stored = NoValue THEN Without(k)
                ELSE [i \in 1..Len(items) |->
                        IF items[i].key = k THEN [items[i] EXCEPT !.value = stored] ELSE items[i]]
    /\ UNCHANGED answer

Clear == items' = <<>> /\ UNCHANGED answer

Next == \/ \E k \in Keys, stored \in Values \cup {NoValue} : Get(k, stored) \/ Refresh(k, stored)
        \/ Clear

Spec == Init /\ [][Next]_<<items, answer>>
=============================================================================
