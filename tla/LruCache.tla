------------------------------ MODULE LruCache ------------------------------
(***************************************************************************)
(* cache/impl/lru.go: a map from header values to nodes of a doubly linked *)
(* list.  Nodes are addresses; what nothing points to is garbage, and an   *)
(* allocation takes garbage.  Get, Clear and Refresh hold the cache's      *)
(* mutex throughout, the call to the store included, so each is one step;  *)
(* what the store answers is an input.                                     *)
(***************************************************************************)
EXTENDS Naturals, FiniteSets, Sequences

CONSTANTS Keys, Values, NoValue, Capacity,
          Nodes,   \* addresses: at most Capacity + 1 are ever in use
          Nil

ASSUME CapacityAssumption == Capacity \in Nat \ {0}
ASSUME NodesAssumption == /\ IsFiniteSet(Nodes)
                          /\ Cardinality(Nodes) > Capacity
                          /\ Nil \notin Nodes

VARIABLES buf,   \* header value to node
          list,  \* head, tail and every node's Prev and Next
          node,  \* every node's HeaderValue and Endpoint
          answer

vars == <<buf, list, node, answer>>

Stored == Values \cup {NoValue}
Blank == [key |-> NoValue, value |-> NoValue]

(* NewLRUBuffer *)
Init == /\ buf = [k \in Keys |-> Nil]
        /\ list = [head |-> Nil, tail |-> Nil,
                   prev |-> [n \in Nodes |-> Nil], next |-> [n \in Nodes |-> Nil]]
        /\ node = [n \in Nodes |-> Blank]
        /\ answer = NoValue

-----------------------------------------------------------------------------
(* The list operations, from one value of list to the next. *)
remove_KeepsTail(l, n) ==
    LET p == l.prev[n]
        x == l.next[n]
    IN  [head |-> IF l.head = n THEN x ELSE l.head,
         tail |-> l.tail,
         next |-> IF p # Nil THEN [l.next EXCEPT ![p] = x] ELSE l.next,
         prev |-> IF x # Nil THEN [l.prev EXCEPT ![x] = p] ELSE l.prev]

remove(l, n) ==
    LET p == l.prev[n]
        x == l.next[n]
    IN  [head |-> IF l.head = n THEN x ELSE l.head,
         tail |-> IF l.tail = n THEN p ELSE l.tail,
         next |-> IF p # Nil THEN [l.next EXCEPT ![p] = x] ELSE l.next,
         prev |-> IF x # Nil THEN [l.prev EXCEPT ![x] = p] ELSE l.prev]

moveToHead_NewOnly(l, n) ==
    IF l.head = n \/ l.prev[n] # Nil THEN l
    ELSE [head |-> n,
          tail |-> IF l.tail = Nil THEN n ELSE l.tail,
          next |-> [l.next EXCEPT ![n] = l.head],
          prev |-> IF l.head # Nil THEN [l.prev EXCEPT ![n] = Nil, ![l.head] = n] ELSE l.prev]

moveToHead(l, n) ==
    IF l.head = n THEN l
    ELSE LET r == remove(l, n)
             q == [r.prev EXCEPT ![n] = Nil]
         IN  [head |-> n,
              tail |-> IF r.tail = Nil THEN n ELSE r.tail,
              next |-> [r.next EXCEPT ![n] = r.head],
              prev |-> IF r.head # Nil THEN [q EXCEPT ![r.head] = n] ELSE q]

Size(b) == Cardinality({k \in Keys : b[k] # Nil})

(***************************************************************************)
(* resize, of the pair of map and list.  Get adds one entry to a cache     *)
(* within its capacity, so its loop runs at most once.                     *)
(***************************************************************************)
resize(b, l, keyOf) ==
    IF Size(b) > Capacity
    THEN [buf |-> [b EXCEPT ![keyOf[l.tail]] = Nil], list |-> remove(l, l.tail)]
    ELSE [buf |-> b, list |-> l]

(* The nodes that at most i pointers lead to from the roots. *)
Within(roots, l) ==
    LET within[i \in 0..Cardinality(Nodes)] ==
          IF i = 0 THEN roots
          ELSE LET S == within[i - 1]
               IN  (S \cup {l.prev[n] : n \in S} \cup {l.next[n] : n \in S}) \ {Nil}
    IN  within

(***************************************************************************)
(* Go's memory: the nodes the map, the head and the tail lead to.  The     *)
(* contents of the others are forgotten when an operation ends.            *)
(***************************************************************************)
Reachable(b, l) ==
    LET roots == ({b[k] : k \in Keys} \cup {l.head, l.tail}) \ {Nil}
    IN  Within(roots, l)[Cardinality(Nodes)]

Heap(b, l, contents) ==
    LET kept == Reachable(b, l)
        Keep(f, none) == [n \in Nodes |-> IF n \in kept THEN f[n] ELSE none]
    IN  /\ buf' = b
        /\ list' = [l EXCEPT !.prev = Keep(l.prev, Nil), !.next = Keep(l.next, Nil)]
        /\ node' = Keep(contents, Blank)

-----------------------------------------------------------------------------
GetHit(k) ==
    /\ buf[k] # Nil
    /\ Heap(buf, moveToHead(list, buf[k]), node)
    /\ answer' = node[buf[k]].value

GetMiss(k, stored) ==
    /\ buf[k] = Nil
    /\ stored # NoValue
    /\ LET n == CHOOSE n \in Nodes \ Reachable(buf, list) : TRUE
           named == [node EXCEPT ![n] = [key |-> k, value |-> stored]]
           after == resize([buf EXCEPT ![k] = n], moveToHead(list, n),
                           [x \in Nodes |-> named[x].key])
       IN  Heap(after.buf, after.list, named)
    /\ answer' = stored

(* GetCustomRoute failed: the error is returned, and nothing is cached. *)
GetError(k) ==
    /\ buf[k] = Nil
    /\ answer' = NoValue
    /\ UNCHANGED <<buf, list, node>>

Clear ==
    /\ Heap([k \in Keys |-> Nil], [list EXCEPT !.head = Nil, !.tail = Nil], node)
    /\ UNCHANGED answer

Refresh(k, stored) ==
    /\ buf[k] # Nil
    /\ LET updated == [node EXCEPT ![buf[k]].value = stored]
       IN  IF stored = NoValue
           THEN Heap([buf EXCEPT ![k] = Nil], remove(list, buf[k]), updated)
           ELSE Heap(buf, list, updated)
    /\ UNCHANGED answer

Next == \/ \E k \in Keys : GetHit(k) \/ GetError(k)
        \/ \E k \in Keys, stored \in Values : GetMiss(k, stored)
        \/ \E k \in Keys, stored \in Stored : Refresh(k, stored)
        \/ Clear

Spec == Init /\ [][Next]_vars

-----------------------------------------------------------------------------
(* The map, the list and the nodes have their types. *)
TypeOK ==
    /\ buf \in [Keys -> Nodes \cup {Nil}]
    /\ list \in [head : Nodes \cup {Nil}, tail : Nodes \cup {Nil},
                 prev : [Nodes -> Nodes \cup {Nil}], next : [Nodes -> Nodes \cup {Nil}]]
    /\ node \in [Nodes -> [key : Keys \cup {NoValue}, value : Stored]]
    /\ answer \in Stored

(* The nodes from one end, following link; Nil once the end is passed. *)
Steps(start, link) ==
    LET at[i \in 1..Cardinality(Nodes)] ==
          IF i = 1 THEN start ELSE IF at[i - 1] = Nil THEN Nil ELSE link[at[i - 1]]
    IN  at

Walk(start, link) ==
    LET at == Steps(start, link)
    IN  [i \in 1..Cardinality({i \in 1..Cardinality(Nodes) : at[i] # Nil}) |-> at[i]]

Forward == Walk(list.head, list.next)
Backward == Walk(list.tail, list.prev)

(***************************************************************************)
(* The list read from its tail is the list read from its head reversed, it *)
(* holds exactly the nodes the map holds, each under its own key, and it   *)
(* is never longer than the capacity: so resize evicts an entry of the map *)
(* and never dereferences a nil tail (lru.go:41-81).                       *)
(***************************************************************************)
ListMatchesMap ==
    /\ Len(Forward) = Len(Backward)
    /\ \A i \in 1..Len(Forward) : Forward[i] = Backward[Len(Forward) + 1 - i]
    /\ {Forward[i] : i \in 1..Len(Forward)} = {buf[k] : k \in Keys} \ {Nil}
    /\ \A k \in Keys : buf[k] # Nil => node[buf[k]].key = k
    /\ Len(Forward) <= Capacity

(***************************************************************************)
(* The linked list implements the abstract cache: it drops the least       *)
(* recently used entry, and answers what the abstract cache answers.       *)
(***************************************************************************)
Abstract == INSTANCE LruSpec WITH items <- [i \in 1..Len(Forward) |-> node[Forward[i]]]
ImplementsLru == Abstract!Spec
=============================================================================
