----------------------------- MODULE Strategies -----------------------------
(***************************************************************************)
(* The routing strategies of strategy/impl but for the stateful direct     *)
(* one: what each Update builds from the endpoints it is offered, in any   *)
(* order for a Go map has none, and what Select may then return.           *)
(*                                                                         *)
(* order is the sequence Update went through the endpoints in, attr gives  *)
(* each endpoint's attributes, of which weight and rps may be Nil.         *)
(***************************************************************************)
EXTENDS Integers, Sequences, FiniteSets, FiniteSetsExt

CONSTANTS Nil,       \* Go's nil
          Width,     \* bits of the unsigned counters (32)
          Replicas,  \* points on the ring for a weight of one (8)
          Hash,      \* the hash of <<endpoint, replica>>
          KeyHashes, \* the hashes of the header values requests carry
          Sample, SampleWeights \* bounds: the inputs the properties range over

NoEndpoint == "ErrNoEndpointAvailable"
NoValue == "ErrNoValueAvailable"
OutOfRange == "ErrLuaIndexOutOfRange"
Errors == {NoEndpoint, NoValue, OutOfRange}

ASSUME NilAssumption == Nil \notin Int
ASSUME WidthAssumption == Width \in Nat /\ 2 ^ Width \in Nat \ {0}
ASSUME SampleAssumption == /\ IsFiniteSet(Sample)
                           /\ Sample \cap Errors = {}
                           /\ SampleWeights \subseteq Nat \cup {Nil}
ASSUME HashAssumption ==
    /\ Replicas \in Nat \ {0}
    /\ KeyHashes \subseteq Nat
    /\ \A e \in Sample : \A w \in (SampleWeights \ {Nil}) \cup {1} :
         \A i \in 0..(w * Replicas - 1) : Hash[<<e, i>>] \in Nat

Wrap(n) == n % (2 ^ Width)
LastOf(S) == CHOOSE i \in S : \A j \in S : j <= i
Orders(S) == {f \in [1..Cardinality(S) -> S] : \A e \in S : \E i \in DOMAIN f : f[i] = e}

WeightOf(attr, e) == IF attr[e].weight = Nil THEN 1 ELSE attr[e].weight
RPSOf(attr, e) == IF attr[e].rps = Nil THEN 0 ELSE attr[e].rps

-----------------------------------------------------------------------------
(* A treemap: what is put last at a key stays.  keys[i] is where order[i]  *)
(* went.                                                                   *)
At_First(order, keys, k) ==
    order[CHOOSE i \in DOMAIN order : keys[i] = k /\ \A j \in 1..(i - 1) : keys[j] # k]
At(order, keys, k) == order[LastOf({i \in DOMAIN order : keys[i] = k})]

Floor(order, keys, k) ==
    LET below == {keys[i] : i \in {j \in DOMAIN order : keys[j] <= k}} IN
    IF below = {} THEN Nil ELSE At(order, keys, LastOf(below))

-----------------------------------------------------------------------------
(* weighted_random.go and weighted_round_robin.go *)
WeightSums(order, attr) ==
    LET sum[j \in 0..Len(order)] == IF j = 0 THEN 0 ELSE sum[j - 1] + WeightOf(attr, order[j])
    IN  sum

WeightBefore(order, attr, i) == WeightSums(order, attr)[i - 1]

TotalWeight(order, attr) == WeightBefore(order, attr, Len(order) + 1)

Stages_End(order, attr) ==
    [i \in DOMAIN order |-> WeightBefore(order, attr, i + 1)]
Stages(order, attr) == [i \in DOMAIN order |-> WeightBefore(order, attr, i)]

(* The round robin counts in uint32: its stages and its total wrap. *)
WrappedStages(order, attr) ==
    [i \in DOMAIN order |-> Wrap(Stages(order, attr)[i])]
WrappedTotal(order, attr) == Wrap(TotalWeight(order, attr))

WeightedRandom(order, attr) ==
    IF TotalWeight(order, attr) = 0 THEN {NoEndpoint}
    ELSE {Floor(order, Stages(order, attr), rnd) : rnd \in 0..(TotalWeight(order, attr) - 1)}

WeightedRoundRobin(order, attr, lastIdx) ==
    IF WrappedTotal(order, attr) = 0 THEN {NoEndpoint}
    ELSE {Floor(order, WrappedStages(order, attr), lastIdx % WrappedTotal(order, attr))}

-----------------------------------------------------------------------------
(* round_robin.go, random.go *)
RoundRobin(order, lastIdx) ==
    IF order = <<>> THEN {NoEndpoint} ELSE {order[(lastIdx % Len(order)) + 1]}

Random(order) ==
    IF order = <<>> THEN {NoEndpoint} ELSE {order[i] : i \in DOMAIN order}

(* least_request.go and least_cost.go: the better of two random samples,   *)
(* which may be the same one.                                              *)
Better(i, j, cost) == IF cost[i] < cost[j] THEN i ELSE j

Least(order, cost) ==
    IF order = <<>> THEN {NoEndpoint}
    ELSE {order[Better(i, j, cost)] : i, j \in DOMAIN order}

LeastRequest(order, attr) == Least(order, [i \in DOMAIN order |-> RPSOf(attr, order[i])])
LeastCost(order, attr) == Least(order, [i \in DOMAIN order |-> WeightOf(attr, order[i])])

-----------------------------------------------------------------------------
(* hash_ring.go: a point goes to the last endpoint that was put there, a   *)
(* key to the first point at or after its hash.                            *)
PointsOf(attr, e) == {Hash[<<e, i>>] : i \in 0..(WeightOf(attr, e) * Replicas - 1)}
Points(order, attr) == UNION {PointsOf(attr, order[i]) : i \in DOMAIN order}

Ceiling_Modulo(points, h) ==
    CHOOSE p \in points : Cardinality({q \in points : q < p}) = h % Cardinality(points)
Ceiling(points, h) ==
    LET after == {p \in points : p >= h} IN
    IF after # {} THEN Min(after) ELSE Min(points)

RingOwner(order, attr, h) ==
    LET p == Ceiling(Points(order, attr), h) IN
    order[LastOf({i \in DOMAIN order : p \in PointsOf(attr, order[i])})]

HashRing(order, attr) ==
    IF Points(order, attr) = {} THEN {NoEndpoint}
    ELSE {NoValue} \cup {RingOwner(order, attr, h) : h \in KeyHashes}

-----------------------------------------------------------------------------
(* custom_lua.go: the script, which is external, returns any index. *)
CustomLua(order) ==
    {IF idx = -1 THEN NoEndpoint
     ELSE IF idx \notin 0..(Len(order) - 1) THEN OutOfRange
     ELSE order[idx + 1] : idx \in -2..Len(order)}

-----------------------------------------------------------------------------
Counting == {"round_robin", "weighted_round_robin"}
Unfiltered == {"hash_ring", "custom_lua"}
StrategyNames == {"random", "weighted_random", "least_request", "least_cost"}
                 \cup Counting \cup Unfiltered

Picks(strategy, order, attr, lastIdx) ==
    CASE strategy = "random" -> Random(order)
      [] strategy = "weighted_random" -> WeightedRandom(order, attr)
      [] strategy = "round_robin" -> RoundRobin(order, lastIdx)
      [] strategy = "weighted_round_robin" -> WeightedRoundRobin(order, attr, lastIdx)
      [] strategy = "least_request" -> LeastRequest(order, attr)
      [] strategy = "least_cost" -> LeastCost(order, attr)
      [] strategy = "hash_ring" -> HashRing(order, attr)
      [] OTHER -> CustomLua(order)

-----------------------------------------------------------------------------
(* Any endpoints of Sample, in any order, with any weights and loads. *)
SampleOrders == UNION {Orders(S) : S \in SUBSET Sample}
SampleAttrs == [Sample -> [weight : SampleWeights, rps : {Nil, 1}]]
Offers(order) == {order[i] : i \in DOMAIN order}
=============================================================================
