---------------------------- MODULE LoadReports ----------------------------
(***************************************************************************)
(* The loop that keeps load balanced: a client's strategy picks endpoints  *)
(* by the attributes it knows (selector.go), servers count the requests of *)
(* an endpoint and report the number a second later (sdk.go), a Redis      *)
(* script merges each report into the stored attributes and publishes the  *)
(* result, and clients apply what was published (impl.go).  One selector   *)
(* with max_requests set, whose endpoints each live in a server.           *)
(*                                                                         *)
(* Requests, reporting goroutines and the goroutines that apply messages   *)
(* interleave freely; a report may fail, a message may be lost, and either *)
(* may be overtaken by a newer one.  "old" marks what was overtaken.       *)
(*                                                                         *)
(* The client dies when it picks an endpoint that nobody has reported      *)
(* about; what it has sent is served.                                      *)
(***************************************************************************)
EXTENDS Strategies

CONSTANTS Eps,         \* endpoints of the selector's service
          Strategy,    \* the selector's strategy
          Serving,     \* those whose servers run in the model
          Callers,     \* client goroutines
          MaxRequests, \* the selector's max_requests
          Weights,     \* weights servers report
          MaxCalls,    \* bound: requests
          MaxWeights,  \* bound: calls of ReportWeight
          MaxFaults    \* bound: failed reports and lost messages

ASSUME SelectorAssumption == Serving \subseteq Eps /\ Strategy \in StrategyNames
ASSUME BoundsAssumption == {MaxCalls, MaxWeights, MaxFaults, MaxRequests} \subseteq Nat

VARIABLES order, snap, lastIdx, \* what its Update left, and its counter
          pc, at,               \* client goroutines, the endpoints they called
          calls, weights, faults,
          counter, mark,        \* requestCounter, leastRequestReportMark
          asleep, awake,        \* reporters waiting for their second; past it
          reports,              \* reports sent, in the order of the counter's reads
          stored, staleStored,  \* the Redis hash; its rps is of an overtaken report
          msgs,                 \* published, not yet applied
          attr, staleAttr       \* the client's view; it is of an overtaken message

vars == <<order, snap, lastIdx, pc, at, calls, weights, faults, counter, mark,
          asleep, awake, reports, stored, staleStored, msgs, attr, staleAttr>>
clientVars == <<order, snap, lastIdx, calls>>
reportVars == <<asleep, awake, reports>>
redisVars == <<weights, stored, staleStored, msgs, attr, staleAttr>>

(* What an endpoint has that nobody reported about, and one that was idle. *)
NoAttribute == [weight |-> Nil, rps |-> Nil]
IdleReported == [weight |-> Nil, rps |-> 0]

Init ==
    /\ order = <<>>
    /\ attr \in [Eps -> {NoAttribute, IdleReported}]
    /\ snap = attr
    /\ lastIdx = 0
    /\ pc = [c \in Callers |-> "idle"]
    /\ at = [c \in Callers |-> Nil]
    /\ calls = 0 /\ weights = 0 /\ faults = 0
    /\ counter = [e \in Eps |-> 0]
    /\ mark = [e \in Eps |-> FALSE]
    /\ asleep = [e \in Eps |-> 0]
    /\ awake = [e \in Eps |-> 0]
    /\ reports = [e \in Eps |-> <<>>]
    /\ stored = attr
    /\ staleStored = [e \in Eps |-> FALSE]
    /\ msgs = [e \in Eps |-> <<>>]
    /\ staleAttr = [e \in Eps |-> FALSE]

(* What overtakes marks everything before it. *)
Overtaken(m) == [m EXCEPT !.old = TRUE]
Take(seq, i) ==
    [j \in 1..(Len(seq) - 1) |-> IF j < i THEN Overtaken(seq[j]) ELSE seq[j + 1]]

-----------------------------------------------------------------------------
(* Selector.Select: the filters; the update, when the attributes changed   *)
(* and the throttle lets it; the pick; the check of the limit, which       *)
(* dereferences the AttributeInSelector, nil if there was no report.       *)
Fused(e) == attr[e].rps # Nil /\ attr[e].rps > MaxRequests

Offered == IF Strategy \in Unfiltered THEN Eps ELSE {e \in Eps : ~Fused(e)}

Update ==
    /\ snap # attr \/ order = <<>>
    /\ order' \in Orders(Offered)
    /\ snap' = attr

(* The counter is read again after AddUint32: others may have added too. *)
Advanced(n) == IF Strategy \in Counting THEN Wrap(n + 1) ELSE n
Others == 0..(Cardinality(Callers) - 1)

OverLimit(e) == attr[e].rps # Nil /\ attr[e].rps >= MaxRequests

After(e) ==
    IF e \in Eps /\ attr[e] = NoAttribute THEN "panic"
    ELSE IF e \in Serving /\ ~OverLimit(e) THEN "called" ELSE "idle"

Crashed == \E c \in Callers : pc[c] = "panic"

Select(c) ==
    /\ ~Crashed
    /\ pc[c] = "idle" /\ calls < MaxCalls
    /\ calls' = calls + 1
    /\ Update \/ UNCHANGED <<order, snap>>
    /\ lastIdx' = Advanced(lastIdx)
    /\ \E n \in Others : \E e \in Picks(Strategy, order', snap', Wrap(lastIdx' + n)) :
         /\ pc' = [pc EXCEPT ![c] = After(e)]
         /\ at' = IF After(e) = "called" THEN [at EXCEPT ![c] = e] ELSE at
    /\ UNCHANGED <<faults, counter, mark, reportVars, redisVars>>

-----------------------------------------------------------------------------
(* OnRequestReceived: count, checkUpdate, handle, uncount, checkUpdate. *)
Count(c, from, d, to) ==
    /\ pc[c] = from
    /\ pc' = [pc EXCEPT ![c] = to]
    /\ counter' = [counter EXCEPT ![at[c]] = @ + d]
    /\ UNCHANGED <<clientVars, at, faults, mark, reportVars, redisVars>>

Receive(c) == Count(c, "called", 1, "received")

AfterHandler_NoCheck == "idle"
AfterHandler == "sent"
Respond(c) == Count(c, "handling", -1, AfterHandler)

(* LoadOrStore: only who sets the mark starts a reporter. *)
Starts(e) == ~mark[e]

checkUpdate(c) ==
    LET e == at[c] IN
    /\ pc[c] \in {"received", "sent"}
    /\ pc' = [pc EXCEPT ![c] = IF pc[c] = "received" THEN "handling" ELSE "idle"]
    /\ at' = [at EXCEPT ![c] = IF pc[c] = "received" THEN e ELSE Nil]
    /\ mark' = [mark EXCEPT ![e] = TRUE]
    /\ asleep' = [asleep EXCEPT ![e] = IF Starts(e) THEN @ + 1 ELSE @]
    /\ UNCHANGED <<clientVars, faults, counter, awake, reports, redisVars>>

(* The reporter: after its second it deletes the mark, reads the counter,  *)
(* and has Redis evaluate the script.                                      *)
Unmarked_Kept(e) == mark
Unmarked(e) == [mark EXCEPT ![e] = FALSE]

Wake(e) ==
    /\ asleep[e] > 0
    /\ asleep' = [asleep EXCEPT ![e] = @ - 1]
    /\ awake' = [awake EXCEPT ![e] = @ + 1]
    /\ mark' = Unmarked(e)
    /\ UNCHANGED <<clientVars, pc, at, faults, counter, reports, redisVars>>

Load(e) ==
    /\ awake[e] > 0
    /\ awake' = [awake EXCEPT ![e] = @ - 1]
    /\ reports' = [reports EXCEPT ![e] = Append(@, [rps |-> counter[e], old |-> FALSE])]
    /\ UNCHANGED <<clientVars, pc, at, faults, counter, mark, asleep, redisVars>>

-----------------------------------------------------------------------------
(* The script: what the report names replaces what was stored, and all of  *)
(* it is published.                                                        *)
Merged_Replace(old, new) == new
Merged(old, new) == [f \in DOMAIN old |-> IF new[f] = Nil THEN old[f] ELSE new[f]]

Published_Report(merged, new) == new
Published(merged, new) == merged

Eval(e, new) ==
    LET merged == Merged(stored[e], new) IN
    /\ stored' = [stored EXCEPT ![e] = merged]
    /\ msgs' = [msgs EXCEPT ![e] = Append(@, [attr |-> Published(merged, new), old |-> FALSE])]
    /\ UNCHANGED <<attr, staleAttr>>

reportRPS(e) ==
    \E i \in DOMAIN reports[e] :
        LET r == reports[e][i] IN
        /\ reports' = [reports EXCEPT ![e] = Take(@, i)]
        /\ \/ /\ Eval(e, [weight |-> Nil, rps |-> r.rps])
              /\ staleStored' = [staleStored EXCEPT ![e] = r.old]
              /\ UNCHANGED faults
           \/ /\ faults < MaxFaults
              /\ faults' = faults + 1
              /\ staleStored' = [staleStored EXCEPT ![e] = @ \/ ~r.old]
              /\ UNCHANGED <<stored, msgs, attr, staleAttr>>
        /\ UNCHANGED <<clientVars, pc, at, weights, counter, mark, asleep, awake>>

ReportWeight(e, w) ==
    /\ weights < MaxWeights
    /\ weights' = weights + 1
    /\ Eval(e, [weight |-> w, rps |-> Nil])
    /\ UNCHANGED <<clientVars, pc, at, faults, counter, mark, reportVars, staleStored>>

(* A goroutine of the client applies a message, whichever comes first. *)
Apply(e) ==
    /\ ~Crashed
    /\ \E i \in DOMAIN msgs[e] :
         LET m == msgs[e][i] IN
         /\ msgs' = [msgs EXCEPT ![e] = Take(@, i)]
         /\ \/ /\ attr' = [attr EXCEPT ![e] = m.attr]
               /\ staleAttr' = [staleAttr EXCEPT ![e] = m.old]
               /\ UNCHANGED faults
            \/ /\ faults < MaxFaults
               /\ faults' = faults + 1
               /\ staleAttr' = [staleAttr EXCEPT ![e] = @ \/ ~m.old]
               /\ UNCHANGED attr
    /\ UNCHANGED <<clientVars, pc, at, weights, counter, mark, reportVars, stored, staleStored>>

Next == \/ \E c \in Callers : Select(c) \/ Receive(c) \/ Respond(c) \/ checkUpdate(c)
        \/ \E e \in Serving : \/ Wake(e) \/ Load(e) \/ reportRPS(e) \/ Apply(e)
                          \/ \E w \in Weights : ReportWeight(e, w)

(* Goroutines go on, Redis answers; nobody need call or set a weight, and  *)
(* a request need not arrive of a client that died meanwhile.              *)
Spec == /\ Init /\ [][Next]_vars
        /\ \A c \in Callers : /\ WF_vars(~Crashed /\ Receive(c))
                             /\ WF_vars(Respond(c) \/ checkUpdate(c))
        /\ \A e \in Serving : WF_vars(Wake(e)) /\ WF_vars(Load(e))
                          /\ WF_vars(reportRPS(e)) /\ WF_vars(Apply(e))

-----------------------------------------------------------------------------
AttributeType == [weight : Weights \cup {Nil}, rps : (0..MaxCalls) \cup {Nil}]

TypeOK ==
    /\ \A i \in DOMAIN order : order[i] \in Eps /\ \A j \in 1..(i - 1) : order[j] # order[i]
    /\ {snap, stored, attr} \subseteq [Eps -> AttributeType]
    /\ lastIdx \in 0..(2 ^ Width - 1)
    /\ pc \in [Callers -> {"idle", "called", "received", "handling", "sent", "panic"}]
    /\ at \in [Callers -> Eps \cup {Nil}]
    /\ calls \in 0..MaxCalls /\ weights \in 0..MaxWeights /\ faults \in 0..MaxFaults
    /\ {counter, awake} \subseteq [Eps -> 0..MaxCalls * 2]
    /\ \A e \in Eps : asleep[e] = IF mark[e] THEN 1 ELSE 0
    /\ {mark, staleStored, staleAttr} \subseteq [Eps -> BOOLEAN]
    /\ \A e \in Eps : \A i \in DOMAIN reports[e] :
         reports[e][i] \in [rps : 0..MaxCalls, old : BOOLEAN]
    /\ \A e \in Eps : \A i \in DOMAIN msgs[e] :
         msgs[e][i] \in [attr : AttributeType, old : BOOLEAN]

(***************************************************************************)
(* The mark never loses a change of the counter: once no request waits for *)
(* its checkUpdate and no report is under way, Redis holds the number of   *)
(* requests the endpoint handles, unless the last report failed or was     *)
(* overtaken (sdk.go:157-175).                                             *)
(***************************************************************************)
QuietReport ==
    \A e \in Eps :
        /\ ~mark[e] /\ awake[e] = 0 /\ reports[e] = <<>> /\ ~staleStored[e]
        /\ \A c \in Callers : at[c] = e => pc[c] \notin {"received", "sent"}
        => RPSOf(stored, e) = counter[e]

(***************************************************************************)
(* A client that applied the newest message last holds all of the stored   *)
(* attributes, though every report names one of them (impl.go:408-417, 464).*)
(***************************************************************************)
ClientCurrent ==
    \A e \in Eps : msgs[e] = <<>> /\ ~staleAttr[e] => attr[e] = stored[e]

(***************************************************************************)
(* A report of the load never takes the weight away, nor one of the weight *)
(* the load (impl.go:394-410).                                             *)
(***************************************************************************)
FieldsKept ==
    [][\A e \in Eps : \A f \in {"weight", "rps"} :
         stored[e][f] # Nil => stored'[e][f] # Nil]_vars

(* The strategies do not depend on the state: the run checks them over all *)
(* the samples once, where it starts.                                      *)
AtStart == calls = 0 /\ weights = 0

(***************************************************************************)
(* A strategy gives one of the endpoints of its last Update or an error,   *)
(* never nil, even where the sum of the weights wraps, for which           *)
(* weighted_round_robin.go:31-33 has no test.  Only a weighted one has     *)
(* nothing to give from endpoints: their weights are all zero, or sum up   *)
(* to a multiple of 2^32 in uint32.                                        *)
(***************************************************************************)
PicksOffered == AtStart =>
    \A s \in StrategyNames : \A o \in SampleOrders : \A a \in SampleAttrs :
      \A n \in 0..(2 ^ Width - 1) :
        LET picks == Picks(s, o, a, n) IN
        /\ picks # {} /\ picks \subseteq Offers(o) \cup Errors
        /\ o # <<>> /\ NoEndpoint \in picks /\ s # "custom_lua" =>
             \/ s = "weighted_round_robin" /\ WrappedTotal(o, a) = 0
             \/ s \in {"weighted_random", "hash_ring"} /\ TotalWeight(o, a) = 0

(***************************************************************************)
(* Of totalWeight consecutive turns of the weighted round robin each       *)
(* endpoint gets as many as its weight, one of weight zero none, unless    *)
(* the sum of the weights wraps; so of the numbers weighted random draws   *)
(* (weighted_round_robin.go:44-55, weighted_random.go:42-53).              *)
(***************************************************************************)
WeightsExact == AtStart =>
    \A o \in SampleOrders : \A a \in SampleAttrs :
        LET total == TotalWeight(o, a)
            turns == [k \in 0..(total - 1) |-> Floor(o, Stages(o, a), k)]
        IN  /\ \A i \in DOMAIN o :
                 Cardinality({k \in DOMAIN turns : turns[k] = o[i]})
                   = WeightOf(a, o[i])
            /\ total = WrappedTotal(o, a) =>
                 \A k \in DOMAIN turns : WeightedRoundRobin(o, a, k) = {turns[k]}

(***************************************************************************)
(* Endpoints that leave the ring hand their own keys over and no other,    *)
(* whatever order the map is walked in before and after: a key whose       *)
(* endpoint stays keeps its point, and changes hands only if the two       *)
(* endpoints put the very same point there (hash_ring.go:34-40, 49-61).    *)
(***************************************************************************)
RingStable == AtStart =>
    \A o, rest \in SampleOrders : \A a \in SampleAttrs : \A h \in KeyHashes :
        LET point == Ceiling(Points(o, a), h)
            before == RingOwner(o, a, h)
            after == RingOwner(rest, a, h)
        IN  /\ Offers(rest) \subseteq Offers(o) /\ Points(rest, a) # {}
            /\ before \in Offers(rest)
            => after = before \/ point \in PointsOf(a, before) \cap PointsOf(a, after)

(***************************************************************************)
(* A fused endpoint does not stay so: once its requests are answered, the  *)
(* client, unless it died of a pick without a report, learns that it is    *)
(* idle, unless a report or message failed or was overtaken by an older    *)
(* one (sdk.go:171-174, types.go:62, selector.go:138).                     *)
(***************************************************************************)
FusedRecovers ==
    <>[](\A e \in Eps : faults = 0 /\ ~staleStored[e] /\ ~staleAttr[e]
                        => /\ counter[e] = 0
                           /\ Crashed \/ (~Fused(e) /\ ~OverLimit(e)))
=============================================================================
