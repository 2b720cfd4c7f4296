-------------------------- MODULE CustomRouteClients --------------------------
(***************************************************************************)
(* The custom route of one header value under any sequence of calls of the *)
(* store's operations, each atomic in Redis, by any number of callers.     *)
(***************************************************************************)
EXTENDS CustomRoute

VARIABLE last  \* history: the last call and what the caller was told

clientVars == <<storeVars, last>>

Told(op, endpoint, old, answer) ==
    last' = [op |-> op, endpoint |-> endpoint, old |-> old, answer |-> answer]

ClientsInit ==
    /\ StoreInit
    /\ last = [op |-> "none", endpoint |-> NoRoute, old |-> NoRoute, answer |-> NoRoute]

SetCall ==
    \E endpoint \in Endpoints, old \in Endpoints \cup {NoRoute}, timeout \in Timeouts :
        /\ SetCustomRoute(endpoint, old, timeout)
        /\ Told("set", endpoint, old, RealOld(old))

GetCall == Told("get", NoRoute, NoRoute, GetCustomRoute) /\ UNCHANGED storeVars

RemoveCall == /\ AllowRemove
              /\ RemoveCustomRoute
              /\ Told("remove", NoRoute, NoRoute, NoRoute)

TimePasses == Expire /\ Told("time", NoRoute, NoRoute, NoRoute)

ClientsNext == SetCall \/ GetCall \/ RemoveCall \/ TimePasses

ClientsSpec == ClientsInit /\ [][ClientsNext]_clientVars

-----------------------------------------------------------------------------
(* The route, its deadline and the record of the last call have their types. *)
ClientsTypeOK ==
    /\ StoreTypeOK
    /\ last \in [op : {"none", "set", "get", "remove", "time"},
                 endpoint : Endpoints \cup {NoRoute},
                 old : Endpoints \cup {NoRoute},
                 answer : Endpoints \cup {NoRoute}]

(***************************************************************************)
(* impl.go:509 and 528: "inserted: missing, expired or equal to the old    *)
(* value", "set successfully".  A caller that is told its SetCustomRoute   *)
(* succeeded is the stored route when the call returns.                    *)
(***************************************************************************)
SuccessMeansStored ==
    last.op = "set" /\ last.answer = NoRoute => route = last.endpoint

(***************************************************************************)
(* A permanent route (timeout 0) changes hands only to a caller that named *)
(* it as the old value, over any sequence of sets and expiries of earlier  *)
(* routes with a deadline (unless it is removed).                          *)
(***************************************************************************)
PermanentNeedsConsent ==
    [][ddl = "perm" /\ route # NoRoute /\ route' # route
         => last'.old = route \/ last'.op = "remove"]_clientVars
=============================================================================
