------------------------------- MODULE Service -------------------------------
(***************************************************************************)
(* The client's view of one service (types/service.go), for one selector:  *)
(* the endpoints its pods registered, their attributes, and the version    *)
(* that tells a selector when to rebuild.  Two kinds of goroutine change   *)
(* it: the etcd watch loop (RegisterPod, RemovePod, HangPod, each followed *)
(* by the deferred update()) and the goroutines that apply attribute       *)
(* messages (SetAttributeInSelector).  The accessors Version() and         *)
(* Attributes() also call update(), from the goroutines of the requests.   *)
(*                                                                         *)
(* A critical section of s.mu is one step.  dirty and version are read     *)
(* outside the mutex by update(), Version() and Attributes(): each such    *)
(* read is a step of its own.  Definitions named X_Defect are mutants of X *)
(* that the properties must detect; no specification uses them.            *)
(***************************************************************************)
EXTENDS Integers, FiniteSets

CONSTANTS Endpoints,   \* endpoints the pods may register
          Pods,        \* pods of the service
          PodOf,       \* the pod an endpoint carries in its identity
          RPSLevels,   \* the reports that occur, see AttributeInSelector
          MaxEvents    \* bound: watch events and attribute messages delivered

ASSUME PodOfAssumption == PodOf \in [Endpoints -> Pods]
ASSUME PodsAssumption == IsFiniteSet(Pods)
ASSUME MaxEventsAssumption == MaxEvents \in Nat

VARIABLES endpoints,       \* how often the list holds each endpoint
          endpointsSet,
          endpointsByPod,
          available,       \* attrMap: no entry, or CommonAttribute.Available
          inSelector,      \* attrMap: the entry of the selector, if any
          dirty,
          version,
          watcher,         \* where the watch goroutine is
          events           \* watch events and attribute messages so far

catalogVars == <<endpoints, endpointsSet, endpointsByPod, available, inSelector>>
serviceVars == <<catalogVars, dirty, version, watcher, events>>

(***************************************************************************)
(* An AttributeInSelector is told apart by its RPS only: not reported or   *)
(* below the selector's MaxRequests, equal to it, above it.                *)
(***************************************************************************)
AttributeInSelector == {"under", "at", "over"}
NoAttribute == "absent"

ASSUME RPSLevelsAssumption == RPSLevels \subseteq AttributeInSelector

EndpointsOf(pod) == {e \in Endpoints : PodOf[e] = pod}
Listed == {e \in Endpoints : endpoints[e] > 0}

(***************************************************************************)
(* GetServices has registered every pod whose data key it found, setting   *)
(* the stored attributes of a pod's endpoints right after registering it.  *)
(* Each RegisterPod ran one update(); the attributes of the pod loaded     *)
(* last may have left the service dirty.                                   *)
(***************************************************************************)
ServiceInit ==
    /\ endpointsByPod \in {f \in [Pods -> SUBSET Endpoints] :
                             /\ \A p \in Pods : f[p] \subseteq EndpointsOf(p)
                             /\ \E p \in Pods : f[p] # {}}
    /\ endpointsSet = UNION {endpointsByPod[p] : p \in Pods}
    /\ endpoints = [e \in Endpoints |-> IF e \in endpointsSet THEN 1 ELSE 0]
    /\ available = [e \in Endpoints |-> IF e \in endpointsSet THEN "up" ELSE "absent"]
    /\ inSelector \in {f \in [Endpoints -> RPSLevels \cup {NoAttribute}] :
                         \A e \in Endpoints \ endpointsSet : f[e] = NoAttribute}
    /\ \E last \in {p \in Pods : endpointsByPod[p] # {}} :
          dirty = (\E e \in endpointsByPod[last] : inSelector[e] # NoAttribute)
    /\ version = Cardinality({p \in Pods : endpointsByPod[p] # {}})
    /\ watcher = "idle"
    /\ events = 0

-----------------------------------------------------------------------------
(***************************************************************************)
(* update(): the body that runs under the mutex.  It does not look at      *)
(* dirty again, so two goroutines that both saw it set both bump version.  *)
(***************************************************************************)
UpdateLocked_CountsDown ==
    /\ dirty' = FALSE
    /\ version' = version - 1
    /\ UNCHANGED catalogVars

UpdateLocked ==
    /\ dirty' = FALSE
    /\ version' = version + 1
    /\ UNCHANGED catalogVars

(***************************************************************************)
(* The critical sections that change the catalog; each ends in setDirty(). *)
(***************************************************************************)
RegisterPod_NotDirty(pod, eps) ==
    LET old == endpointsByPod[pod] IN
    /\ available' = [e \in Endpoints |-> IF e \in eps THEN "up"
                                         ELSE IF e \in old THEN "absent"
                                         ELSE available[e]]
    /\ inSelector' = [e \in Endpoints |-> IF e \in eps \cup old THEN NoAttribute
                                          ELSE inSelector[e]]
    /\ endpointsSet' = endpointsSet \cup eps
    /\ endpoints' = [e \in Endpoints |-> IF e \in eps THEN endpoints[e] + 1
                                         ELSE endpoints[e]]
    /\ endpointsByPod' = [endpointsByPod EXCEPT ![pod] = eps]
    /\ UNCHANGED dirty

RegisterPod(pod, eps) ==
    LET old == endpointsByPod[pod] IN
    /\ available' = [e \in Endpoints |-> IF e \in eps THEN "up"
                                         ELSE IF e \in old THEN "absent"
                                         ELSE available[e]]
    /\ inSelector' = [e \in Endpoints |-> IF e \in eps \cup old THEN NoAttribute
                                          ELSE inSelector[e]]
    /\ endpointsSet' = endpointsSet \cup eps
    /\ endpoints' = [e \in Endpoints |-> IF e \in eps THEN endpoints[e] + 1
                                         ELSE endpoints[e]]
    /\ endpointsByPod' = [endpointsByPod EXCEPT ![pod] = eps]
    /\ dirty' = TRUE

RemovePod_KeepsList(pod) ==
    LET old == endpointsByPod[pod] IN
    /\ available' = [e \in Endpoints |-> IF e \in old THEN "absent" ELSE available[e]]
    /\ inSelector' = [e \in Endpoints |-> IF e \in old THEN NoAttribute ELSE inSelector[e]]
    /\ endpointsSet' = endpointsSet \ old
    /\ endpointsByPod' = [endpointsByPod EXCEPT ![pod] = {}]
    /\ dirty' = TRUE
    /\ UNCHANGED endpoints

RemovePod(pod) ==
    LET old == endpointsByPod[pod] IN
    /\ available' = [e \in Endpoints |-> IF e \in old THEN "absent" ELSE available[e]]
    /\ inSelector' = [e \in Endpoints |-> IF e \in old THEN NoAttribute ELSE inSelector[e]]
    /\ endpointsSet' = endpointsSet \ old
    /\ endpoints' = [e \in Endpoints |-> IF e \in endpointsSet \ old THEN 1 ELSE 0]
    /\ endpointsByPod' = [endpointsByPod EXCEPT ![pod] = {}]
    /\ dirty' = TRUE

HangPod(pod) ==
    /\ available' = [e \in Endpoints |->
                       IF e \in endpointsByPod[pod] /\ available[e] # "absent"
                       THEN "down" ELSE available[e]]
    /\ dirty' = TRUE
    /\ UNCHANGED <<endpoints, endpointsSet, endpointsByPod, inSelector>>

SetAttributeInSelector_NotDirty(e, attr) ==
    /\ e \in endpointsSet
    /\ available' = [available EXCEPT ![e] = IF @ = "absent" THEN "up" ELSE @]
    /\ inSelector' = [inSelector EXCEPT ![e] = attr]
    /\ UNCHANGED <<endpoints, endpointsSet, endpointsByPod, dirty>>

SetAttributeInSelector(e, attr) ==
    /\ e \in endpointsSet
    /\ available' = [available EXCEPT ![e] = IF @ = "absent" THEN "up" ELSE @]
    /\ inSelector' = [inSelector EXCEPT ![e] = attr]
    /\ dirty' = TRUE
    /\ UNCHANGED <<endpoints, endpointsSet, endpointsByPod>>

-----------------------------------------------------------------------------
(***************************************************************************)
(* The watch goroutine: one event at a time, then the deferred update().   *)
(***************************************************************************)
Watch ==
    /\ watcher = "idle"
    /\ events < MaxEvents
    /\ \E pod \in Pods :
          \/ \E eps \in SUBSET EndpointsOf(pod) : eps # {} /\ RegisterPod(pod, eps)
          \/ RemovePod(pod)
          \/ HangPod(pod)
    /\ watcher' = "check"
    /\ events' = events + 1
    /\ UNCHANGED version

WatchCheck ==
    /\ watcher = "check"
    /\ watcher' = IF dirty THEN "update" ELSE "idle"
    /\ UNCHANGED <<catalogVars, dirty, version, events>>

WatchUpdate ==
    /\ watcher = "update"
    /\ UpdateLocked
    /\ watcher' = "idle"
    /\ UNCHANGED events

(***************************************************************************)
(* A goroutine of RegisterAttributeChangeListener applies one message.     *)
(***************************************************************************)
AttributeChange ==
    /\ events < MaxEvents
    /\ \E e \in Endpoints, attr \in RPSLevels : SetAttributeInSelector(e, attr)
    /\ events' = events + 1
    /\ UNCHANGED <<version, watcher>>

ServiceNext == Watch \/ WatchCheck \/ WatchUpdate \/ AttributeChange

-----------------------------------------------------------------------------
ServiceTypeOK ==
    /\ endpoints \in [Endpoints -> Nat]
    /\ endpointsSet \in SUBSET Endpoints
    /\ endpointsByPod \in [Pods -> SUBSET Endpoints]
    /\ available \in [Endpoints -> {"absent", "up", "down"}]
    /\ inSelector \in [Endpoints -> AttributeInSelector \cup {NoAttribute}]
    /\ dirty \in BOOLEAN
    /\ version \in Nat
    /\ watcher \in {"idle", "check", "update"}
    /\ events \in Nat

(***************************************************************************)
(* The list handed to resolvers and strategies and the set that guards     *)
(* attribute messages and blocked requests name the same endpoints; every  *)
(* endpoint with attributes is among them; and every endpoint a pod owns   *)
(* is listed and has attributes, whatever order pods come, hang, return    *)
(* with other endpoints and leave in.                                      *)
(***************************************************************************)
CatalogConsistent ==
    /\ Listed = endpointsSet
    /\ \A e \in Endpoints : available[e] # "absent" => e \in endpointsSet
    /\ \A e \in Endpoints : inSelector[e] # NoAttribute => available[e] # "absent"
    /\ \A p \in Pods : endpointsByPod[p] \subseteq endpointsSet \cap EndpointsOf(p)
    /\ \A p \in Pods : \A e \in endpointsByPod[p] : available[e] # "absent"
=============================================================================
