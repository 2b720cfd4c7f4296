------------------------------ MODULE Balancer ------------------------------
(***************************************************************************)
(* The gRPC side of the client: the resolver (resolver.go) that turns the  *)
(* endpoints of a router's services into addresses, and the balancer       *)
(* (balancer.go) that keeps one sub-connection per address and publishes a *)
(* connectivity state and a picker.                                        *)
(*                                                                         *)
(* gRPC is external.  It runs every call of the balancer from one FIFO     *)
(* queue; the resolver's call waits in it like the reports of the          *)
(* sub-connections.  Sub-connections fail, are lost, and fall back to Idle *)
(* after a failure; Shutdown() makes Shutdown their last report.  The k-th *)
(* connection to address a is <<a, k>>.                                    *)
(***************************************************************************)
EXTENDS Integers, Sequences, FiniteSets

CONSTANTS Addrs,       \* IP:port of the endpoints
          MaxChanges,  \* bound: changes of the services' endpoints
          MaxBreaks,   \* bound: failed dials and lost connections
          MaxFaults    \* bound: failed loads of router or services, failed NewSubConn

ASSUME BoundsAssumption == MaxChanges \in Nat /\ MaxBreaks \in Nat /\ MaxFaults \in Nat
ASSUME AddrsAssumption == IsFiniteSet(Addrs)

VARIABLES backend,    \* the addresses the router's services have
          changes, breaks, faults,
          loaded,     \* core's routers and services maps are filled
          rn,         \* the resolver's channel of capacity 1 is full
          resolving,  \* the watcher waits for cc.UpdateState to return
          queue,      \* gRPC's queue of calls into the balancer
          real,       \* every connection's state inside gRPC
          asked,      \* connections on which Connect() was called
          subConns,   \* address to its connection (0: none)
          made,       \* connections made for each address
          scStates, csEvltr, state, resolverErr, connErr,
          published   \* the last cc.UpdateState: state and picker

envVars == <<backend, changes, breaks, faults, loaded, rn>>
balVars == <<subConns, made, scStates, csEvltr, state, resolverErr, connErr, published>>
vars == <<envVars, resolving, queue, real, asked, balVars>>

States == {"Idle", "Connecting", "Ready", "TransientFailure"}
Conns == Addrs \X (1..(MaxChanges + 1))
Live == {c \in Conns : subConns[c[1]] = c[2]}
Report(c, s) == [kind |-> "conn", conn |-> c, state |-> s]
Resolved(S) == [kind |-> "resolver", addrs |-> S]
NoEndpoints == [kind |-> "none"]

Init ==
    /\ backend \in SUBSET Addrs
    /\ changes = 0 /\ breaks = 0 /\ faults = 0
    /\ loaded = FALSE
    /\ rn = TRUE
    /\ resolving = FALSE
    /\ queue = <<>>
    /\ real = [c \in Conns |-> "Idle"]
    /\ asked = {}
    /\ subConns = [a \in Addrs |-> 0]
    /\ made = [a \in Addrs |-> 0]
    /\ scStates = [c \in Conns |-> "absent"]
    /\ csEvltr = [s \in States |-> 0]
    /\ state = "Connecting"
    /\ resolverErr = FALSE
    /\ connErr = FALSE
    /\ published = [state |-> "Connecting", picker |-> "wait", conns |-> subConns, cause |-> {}]

-----------------------------------------------------------------------------
(* balancer.ConnectivityStateEvaluator *)
Record(e, from, to) ==
    [s \in States |-> e[s] + (IF s = to THEN 1 ELSE 0) - (IF s = from THEN 1 ELSE 0)]

CurrentState(e) ==
    IF e["Ready"] > 0 THEN "Ready"
    ELSE IF e["Connecting"] > 0 THEN "Connecting"
    ELSE IF e["Idle"] > 0 THEN "Idle"
    ELSE "TransientFailure"

(* regeneratePicker, mergeErrors and cc.UpdateState; a picker keeps the map *)
(* it was made with.                                                       *)
PickerConns_Before(conns) == subConns
PickerConns(conns) == conns

Publish(st, conns) ==
    published' =
      [state |-> st,
       picker |-> IF st = "TransientFailure" THEN "error" ELSE "route",
       conns |-> PickerConns(conns),
       cause |-> IF st # "TransientFailure" THEN {}
                 ELSE {x \in {"resolver", "conn"} :
                         IF x = "resolver" THEN resolverErr' ELSE connErr'}]

(* ResolverError: heard only while there is no connection or all failed. *)
ResolverError ==
    LET st == IF Live = {} THEN "TransientFailure" ELSE state IN
    /\ resolverErr' = TRUE
    /\ state' = st
    /\ UNCHANGED <<real, asked, subConns, made, scStates, csEvltr, connErr, faults>>
    /\ IF st = "TransientFailure" THEN Publish(st, subConns) ELSE UNCHANGED published

KeptConnErr_Cleared == FALSE
KeptConnErr == connErr

(* The states kept of the connections shut down: all, until they report it. *)
KeptStates_Dropped(gone) == [c \in Conns |-> IF c \in gone THEN "absent" ELSE scStates[c]]
KeptStates(gone) == scStates

(***************************************************************************)
(* UpdateClientConnState with at least one endpoint, whose addresses are   *)
(* addrs; NewSubConn fails for those in failed, each a ResolverError whose *)
(* own publication the one at the end replaces.                            *)
(***************************************************************************)
UpdateClientConnState(addrs, failed, rest) ==
    LET new == {a \in addrs : subConns[a] = 0} \ failed
        gone == {c \in Live : c[1] \notin addrs}
        conns == [a \in Addrs |-> IF a \in new THEN made[a] + 1
                                  ELSE IF a \in addrs THEN subConns[a] ELSE 0]
        fresh == {<<a, made[a] + 1>> : a \in new}
        empty == \A a \in Addrs : conns[a] = 0
        st == IF empty \/ (failed # {} /\ Live = {}) THEN "TransientFailure" ELSE state
    IN  /\ failed \subseteq {a \in addrs : subConns[a] = 0}
        /\ faults + Cardinality(failed) <= MaxFaults
        /\ faults' = faults + Cardinality(failed)
        /\ subConns' = conns
        /\ made' = [a \in Addrs |-> IF a \in new THEN made[a] + 1 ELSE made[a]]
        /\ scStates' = [c \in Conns |-> IF c \in fresh THEN "Idle" ELSE KeptStates(gone)[c]]
        /\ csEvltr' = [csEvltr EXCEPT !["Idle"] = @ + Cardinality(fresh)]
        /\ asked' = asked \cup fresh
        /\ real' = [c \in Conns |-> IF c \in gone THEN "Shutdown" ELSE real[c]]
        /\ \E order \in [1..Cardinality(gone) -> gone] :
             /\ {order[i] : i \in DOMAIN order} = gone
             /\ queue' = rest \o [i \in DOMAIN order |-> Report(order[i], "Shutdown")]
        /\ resolverErr' = (empty \/ failed # {})
        /\ state' = st
        /\ connErr' = KeptConnErr
        /\ Publish(st, conns)

(***************************************************************************)
(* updateSubConnState.  After a failure only Ready, or another failure, is *)
(* heard; Idle is always answered with Connect().                          *)
(***************************************************************************)
Unknown(c) == scStates[c] = "absent"
Ignored(c, s) == scStates[c] = "TransientFailure" /\ s \in {"Connecting", "Idle"}
Reconnects_UnlessFailed(c, s) == s = "Idle" /\ scStates[c] # "TransientFailure"
Reconnects(c, s) == s = "Idle"

StateAfter(s) == IF s = "Shutdown" THEN "absent" ELSE s

Hear(c, s) ==
    LET old == scStates[c]
        e == Record(csEvltr, old, s)
        st == CurrentState(e)
    IN  /\ scStates' = [scStates EXCEPT ![c] = StateAfter(s)]
        /\ csEvltr' = e
        /\ state' = st
        /\ connErr' = (connErr \/ s = "TransientFailure")
        /\ UNCHANGED resolverErr
        /\ IF (s = "Ready") # (old = "Ready") \/ st = "TransientFailure"
           THEN Publish(st, subConns)
           ELSE published' = [published EXCEPT !.state = st]

updateSubConnState(c, s) ==
    /\ asked' = IF ~Unknown(c) /\ Reconnects(c, s) THEN asked \cup {c} ELSE asked
    /\ IF Unknown(c) \/ Ignored(c, s)
       THEN UNCHANGED <<scStates, csEvltr, state, connErr, resolverErr, published>>
       ELSE Hear(c, s)
    /\ UNCHANGED <<real, subConns, made, faults>>

(* gRPC runs the next call of its queue. *)
Serve ==
    /\ queue # <<>>
    /\ LET call == Head(queue) IN
       \/ /\ call.kind = "conn"
          /\ updateSubConnState(call.conn, call.state)
          /\ queue' = Tail(queue)
          /\ UNCHANGED resolving
       \/ /\ call.kind = "none"
          /\ ResolverError
          /\ queue' = Tail(queue)
          /\ resolving' = FALSE
       \/ /\ call.kind = "resolver"
          /\ \E failed \in SUBSET call.addrs :
               UpdateClientConnState(call.addrs, failed, Tail(queue))
          /\ resolving' = FALSE
    /\ UNCHANGED <<backend, changes, breaks, loaded, rn>>

-----------------------------------------------------------------------------
(***************************************************************************)
(* The resolver's watcher: woken by rn or by the ticker, it loads the      *)
(* router, then Endpoints() the services, and passes every address once.   *)
(***************************************************************************)
Resolve ==
    /\ ~resolving
    /\ rn' \in {FALSE, rn}
    /\ \/ /\ loaded' = TRUE
          /\ resolving' = TRUE
          /\ queue' = Append(queue, Resolved(backend))
          /\ UNCHANGED faults
       \/ /\ ~loaded /\ faults < MaxFaults
          /\ faults' = faults + 1
          /\ \/ UNCHANGED <<queue, resolving>>              \* GetRouter failed
             \/ /\ queue' = Append(queue, NoEndpoints)     \* GetService failed
                /\ resolving' = TRUE
          /\ UNCHANGED loaded
    /\ UNCHANGED <<backend, changes, breaks, real, asked, balVars>>

(* Pods come and go: the services the watch goroutine keeps change. *)
BackendChanges ==
    /\ changes < MaxChanges
    /\ changes' = changes + 1
    /\ backend' \in (SUBSET Addrs) \ {backend}
    /\ UNCHANGED <<breaks, faults, loaded, rn, resolving, queue, real, asked, balVars>>

(***************************************************************************)
(* What gRPC's connections do.  When one fails, gRPC may call ResolveNow,  *)
(* which is dropped while rn is full.                                      *)
(***************************************************************************)
ResolveNow == rn' = TRUE

Moves(c, from, to) ==
    /\ real[c] = from
    /\ real' = [real EXCEPT ![c] = to]
    /\ queue' = Append(queue, Report(c, to))
    /\ UNCHANGED <<backend, changes, faults, loaded, resolving, balVars>>

Dial(c) == /\ c \in asked
           /\ Moves(c, "Idle", "Connecting")
           /\ asked' = asked \ {c}
           /\ UNCHANGED <<breaks, rn>>

Connected(c) == Moves(c, "Connecting", "Ready") /\ UNCHANGED <<asked, breaks, rn>>

Backoff(c) == Moves(c, "TransientFailure", "Idle") /\ UNCHANGED <<asked, breaks, rn>>

Break(c) ==
    /\ breaks < MaxBreaks
    /\ breaks' = breaks + 1
    /\ \/ Moves(c, "Connecting", "TransientFailure")
       \/ Moves(c, "Ready", "Idle")
    /\ ResolveNow \/ UNCHANGED rn
    /\ UNCHANGED asked

Next == Serve \/ Resolve \/ BackendChanges
        \/ \E c \in Conns : Dial(c) \/ Connected(c) \/ Backoff(c) \/ Break(c)

(* The 4 s ticker fires for ever, gRPC's queue is served, dials end. *)
Spec == /\ Init /\ [][Next]_vars
        /\ WF_vars(Serve) /\ WF_vars(Resolve)
        /\ \A c \in Conns : WF_vars(Dial(c)) /\ WF_vars(Connected(c)) /\ WF_vars(Backoff(c))

-----------------------------------------------------------------------------
Calls == [kind : {"conn"}, conn : Conns, state : States \cup {"Shutdown"}]
           \cup [kind : {"resolver"}, addrs : SUBSET Addrs] \cup {NoEndpoints}

(* Every variable has its type, and the queue holds the three kinds of call. *)
TypeOK ==
    /\ backend \subseteq Addrs
    /\ changes \in 0..MaxChanges /\ breaks \in 0..MaxBreaks /\ faults \in 0..MaxFaults
    /\ loaded \in BOOLEAN /\ rn \in BOOLEAN /\ resolving \in BOOLEAN
    /\ resolverErr \in BOOLEAN /\ connErr \in BOOLEAN
    /\ queue \in Seq(Calls)
    /\ real \in [Conns -> States \cup {"Shutdown"}]
    /\ asked \subseteq Conns
    /\ subConns \in [Addrs -> 0..(MaxChanges + 1)]
    /\ made \in [Addrs -> 0..(MaxChanges + 1)]
    /\ scStates \in [Conns -> States \cup {"absent"}]
    /\ csEvltr \in [States -> Nat]
    /\ state \in States
    /\ published \in [state : States, picker : {"wait", "error", "route"},
                      conns : [Addrs -> 0..(MaxChanges + 1)], cause : SUBSET {"resolver", "conn"}]

(***************************************************************************)
(* Whatever late and ignored reports arrive, the evaluator counts the      *)
(* states in scStates; every connection of the map is counted, and a       *)
(* counted connection outside it is shut down with its last report still   *)
(* in the queue: no connection leaks (balancer.go:120-131, 189-203).       *)
(***************************************************************************)
ConnsCounted ==
    /\ \A s \in States : csEvltr[s] = Cardinality({c \in Conns : scStates[c] = s})
    /\ \A c \in Live : scStates[c] # "absent" /\ real[c] # "Shutdown"
    /\ \A c \in Conns : scStates[c] # "absent" /\ c \notin Live =>
         \E i \in DOMAIN queue : queue[i] = Report(c, "Shutdown")

(***************************************************************************)
(* The picker RPCs use fits the state it was published with: it fails them *)
(* while every connection failed, routes while one of the map is ready,    *)
(* and routes over the connections of the last resolution only, so never   *)
(* over one that was shut down (balancer.go:131-138, 205-209).             *)
(***************************************************************************)
PickerFits ==
    /\ published.state = "TransientFailure" => published.picker = "error"
    /\ (\E c \in Live : scStates[c] = "Ready") => published.picker = "route"
    /\ published.picker = "route" => published.conns = subConns

(***************************************************************************)
(* An error picker names a cause, but for one case the comment of          *)
(* mergeErrors (balancer.go:145) leaves out: after a resolution without    *)
(* connections the next one finds state still failing, and RPCs fail for   *)
(* no reason while its connections are dialled, until one is ready or all  *)
(* have failed.                                                            *)
(***************************************************************************)
ErrorHasCause ==
    published.picker = "error" =>
        /\ Live = {} => "resolver" \in published.cause
        /\ published.cause = {} => /\ \A c \in Live : scStates[c] # "Ready"
                                  /\ \E c \in Conns : scStates[c] \in {"Idle", "Connecting"}

(***************************************************************************)
(* Once the services are stable and the network is, the balancer holds a   *)
(* ready connection to exactly the addresses of the services and routes    *)
(* over them, however it failed before.                                    *)
(***************************************************************************)
EventuallyServes ==
    <>[](/\ \A a \in Addrs : (a \in backend) = (subConns[a] # 0)
         /\ \A c \in Live : scStates[c] = "Ready"
         /\ backend # {} => published.state = "Ready" /\ published.picker = "route"
                            /\ published.conns = subConns)
=============================================================================
