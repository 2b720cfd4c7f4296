--------------------------- MODULE DirectRouting ---------------------------
(***************************************************************************)
(* The direct strategy end to end, for one selector and one header value:  *)
(* the stored custom route, the clients' caches, the servers' routing      *)
(* tables, the migrations announced over Redis pub/sub, and calls that are *)
(* sent to the cached endpoint, judged by the server they reach and        *)
(* retried when it is the wrong one.                                       *)
(*                                                                         *)
(* A server has one endpoint, and is named by it.  All endpoints are       *)
(* available.  The store, the cache behind its mutex and the routing table *)
(* behind its mutex each change in one step; what happens between them is  *)
(* interleaved.                                                            *)
(***************************************************************************)
EXTENDS CustomRoute, Sequences

CONSTANTS Clients,    \* client processes, one call at a time each
          Migrators,  \* goroutines that call SetCustomRoute
          Site,       \* the server a migrator runs in, NoRoute for a client
          Modes,      \* calls are made with GRPCClientInterceptor, Invoke
          Lossy,      \* a subscriber may miss a published message
          StoreFails, \* a command to Redis may fail
          MaxSets     \* bound: calls of SetCustomRoute

ASSUME SiteAssumption == Site \in [Migrators -> Endpoints \cup {NoRoute}]
ASSUME ModesAssumption == Modes \subseteq {"grpc", "invoke"} /\ MaxSets \in Nat
ASSUME FailuresAssumption == Lossy \in BOOLEAN /\ StoreFails \in BOOLEAN

VARIABLES table,    \* a server's RoutingTable entry
          inbox,    \* _migration messages a server has yet to handle
          overtaken,\* history: servers whose entry is from a read that was stale
          mig,      \* each migrator: where it is, and its migration
          sets,     \* SetCustomRoute calls so far
          cache,    \* a client's cached endpoint, NoRoute if none
          pc,       \* where each client's call is
          mode,     \* which way the call is made
          attempt,  \* invoke's loop counter, from 1
          target,   \* the endpoint the attempt goes to (yapr-endpoint)
          rejected, \* the endpoints that rejected, in order
          expect,   \* the endpoint a Refresh has read and will add
          outcome,  \* what the last call returned
          first,    \* history: target of the first attempt
          since,    \* history: stored routes since the call began
          failed,   \* history: a Refresh of this call could not read the store
          ever      \* history: all stored routes

serverVars == <<table, inbox, overtaken>>
migratorVars == <<mig, sets>>
callVars == <<cache, pc, mode, attempt, target, rejected, expect, outcome, first>>
history == <<since, failed, ever>>
vars == <<storeVars, serverVars, migratorVars, callVars, history>>

MaxAttempts == 3
Routes == Endpoints \cup {NoRoute}
Idle == [at |-> "idle", from |-> NoRoute, to |-> NoRoute]

Init ==
    /\ StoreInit
    /\ table = [s \in Endpoints |-> NoRoute]
    /\ inbox = [s \in Endpoints |-> <<>>]
    /\ overtaken = {}
    /\ mig = [m \in Migrators |-> Idle]
    /\ sets = 0
    /\ cache = [c \in Clients |-> NoRoute]
    /\ pc = [c \in Clients |-> "done"]
    /\ mode \in [Clients -> Modes]
    /\ attempt = [c \in Clients |-> 1]
    /\ target = [c \in Clients |-> NoRoute]
    /\ rejected = [c \in Clients |-> <<>>]
    /\ expect = [c \in Clients |-> NoRoute]
    /\ outcome = [c \in Clients |-> "none"]
    /\ first = [c \in Clients |-> NoRoute]
    /\ since = [c \in Clients |-> {}]
    /\ failed = [c \in Clients |-> FALSE]
    /\ ever = {}

-----------------------------------------------------------------------------
(***************************************************************************)
(* onMigration at server s.  With one endpoint per server at most one of   *)
(* its two branches applies, because from and to differ.                   *)
(***************************************************************************)
onMigration_KeepsOld(s, from, to) ==
    IF from # to /\ to = s
    THEN table' = [table EXCEPT ![s] = s] /\ overtaken' = overtaken \ {s}
    ELSE UNCHANGED <<table, overtaken>>

onMigration(s, from, to) ==
    IF from # to /\ s \in {from, to}
    THEN /\ table' = [table EXCEPT ![s] = IF from = s THEN NoRoute ELSE s]
         /\ overtaken' = overtaken \ {s}
    ELSE UNCHANGED <<table, overtaken>>

(***************************************************************************)
(* SetCustomRoute of either SDK: the script, whose answer may be lost, so  *)
(* that nothing is announced of what it stored, ...                        *)
(***************************************************************************)
Set(m) ==
    /\ mig[m].at = "idle"
    /\ sets < MaxSets
    /\ sets' = sets + 1
    /\ \E endpoint \in Endpoints, old \in Routes, timeout \in Timeouts :
          /\ SetCustomRoute(endpoint, old, timeout)
          /\ \/ mig' = IF old # NoRoute /\ RealOld(old) = NoRoute
                       THEN [mig EXCEPT ![m] =
                               [at |-> IF Site[m] = NoRoute THEN "publish" ELSE "local",
                                from |-> old, to |-> endpoint]]
                       ELSE mig
             \/ StoreFails /\ mig' = mig
    /\ since' = [c \in Clients |-> IF pc[c] = "done" THEN since[c] ELSE since[c] \cup {route'}]
    /\ ever' = ever \cup {route'}
    /\ UNCHANGED <<serverVars, callVars, failed>>

(* ... in a server, its own onMigration, ... *)
Local(m) ==
    /\ mig[m].at = "local"
    /\ onMigration(Site[m], mig[m].from, mig[m].to)
    /\ mig' = [mig EXCEPT ![m].at = "publish"]
    /\ UNCHANGED <<storeVars, inbox, sets, callVars, history>>

(* ... and NotifyMigration, to every server that is subscribed. *)
Publish(m) ==
    /\ mig[m].at = "publish"
    /\ \E reached \in (IF Lossy THEN SUBSET Endpoints ELSE {Endpoints}) :
          inbox' = [s \in Endpoints |->
                      IF s \in reached
                      THEN Append(inbox[s], [from |-> mig[m].from, to |-> mig[m].to])
                      ELSE inbox[s]]
    /\ mig' = [mig EXCEPT ![m] = Idle]
    /\ UNCHANGED <<storeVars, table, overtaken, sets, callVars, history>>

(* RegisterMigrationListener's goroutine: one message after the other. *)
Deliver(s) ==
    /\ inbox[s] # <<>>
    /\ onMigration(s, Head(inbox[s]).from, Head(inbox[s]).to)
    /\ inbox' = [inbox EXCEPT ![s] = Tail(@)]
    /\ UNCHANGED <<storeVars, migratorVars, callVars, history>>

Deadline == Expire /\ UNCHANGED <<serverVars, migratorVars, callVars, history>>

-----------------------------------------------------------------------------
Goto(c, from, to) == /\ pc[c] = from
                     /\ pc' = [pc EXCEPT ![c] = to]

Finish(c, from, result) == /\ Goto(c, from, "done")
                           /\ outcome' = [outcome EXCEPT ![c] = result]

Begin(c) ==
    /\ Goto(c, "done", "route")
    /\ \E how \in Modes : mode' = [mode EXCEPT ![c] = how]
    /\ attempt' = [attempt EXCEPT ![c] = 1]
    /\ target' = [target EXCEPT ![c] = NoRoute]
    /\ rejected' = [rejected EXCEPT ![c] = <<>>]
    /\ outcome' = [outcome EXCEPT ![c] = "none"]
    /\ first' = [first EXCEPT ![c] = NoRoute]
    /\ since' = [since EXCEPT ![c] = {route}]
    /\ failed' = [failed EXCEPT ![c] = FALSE]
    /\ UNCHANGED <<storeVars, serverVars, migratorVars, cache, expect, ever>>

(* Another header value pushes this one out of the client's LRU cache. *)
Evict(c) ==
    /\ cache[c] # NoRoute
    /\ cache' = [cache EXCEPT ![c] = NoRoute]
    /\ UNCHANGED <<storeVars, serverVars, migratorVars, pc, mode, attempt, target, rejected,
                   expect, outcome, first, history>>

(* A read of the store.  Every reader takes a failure as no stored route. *)
Answers == {GetCustomRoute} \cup {r \in {NoRoute} : StoreFails}

(***************************************************************************)
(* Routing of an attempt: cache.Get, which reads the store on a miss.  The *)
(* gRPC picker routes every attempt; Invoke has routed once, before them.  *)
(***************************************************************************)
Reroutes(c) == mode[c] = "grpc" \/ attempt[c] = 1
Found(c) == IF cache[c] # NoRoute THEN {cache[c]} ELSE Answers

Route(c) ==
    /\ Reroutes(c)
    /\ Goto(c, "route", "get")
    /\ \E found \in Found(c) \ {NoRoute} :
          /\ cache' = [cache EXCEPT ![c] = found]
          /\ target' = [target EXCEPT ![c] = found]
          /\ first' = IF attempt[c] = 1 THEN [first EXCEPT ![c] = found] ELSE first
    /\ UNCHANGED <<storeVars, serverVars, migratorVars, mode, attempt, rejected, expect, outcome,
                   history>>

RouteFails(c) ==
    /\ Reroutes(c)
    /\ NoRoute \in Found(c)
    /\ Finish(c, "route", "error")
    /\ UNCHANGED <<storeVars, serverVars, migratorVars, cache, mode, attempt, target, rejected, expect,
                   first, history>>

Resend(c) ==
    /\ ~Reroutes(c)
    /\ Goto(c, "route", "get")
    /\ UNCHANGED <<storeVars, serverVars, migratorVars, cache, mode, attempt, target, rejected, expect,
                   outcome, first, history>>

(***************************************************************************)
(* yapr-last-endpoint as the server reads it.  Invoke overwrites the       *)
(* header; the interceptor appends to the metadata of the call's context,  *)
(* and the server takes the first value of the list.                       *)
(***************************************************************************)
LastEndpoint(c) ==
    IF rejected[c] = <<>> THEN NoRoute
    ELSE IF mode[c] = "grpc" THEN Head(rejected[c]) ELSE rejected[c][Len(rejected[c])]

(* OnRequestReceived: GetRoute, and whether to Refresh it. *)
MustRefresh_IgnoresHeader(c) == table[target[c]] = NoRoute

MustRefresh(c) == table[target[c]] = NoRoute \/ LastEndpoint(c) = target[c]

Judge(c, from, expected) ==
    IF expected = target[c] THEN Finish(c, from, "ok")
    ELSE Goto(c, from, "notify") /\ UNCHANGED outcome

GetRoute(c) ==
    /\ pc[c] = "get"
    /\ IF MustRefresh(c) THEN Goto(c, "get", "read") /\ UNCHANGED outcome
       ELSE Judge(c, "get", table[target[c]])
    /\ UNCHANGED <<storeVars, serverVars, migratorVars, cache, mode, attempt, target, rejected, expect,
                   first, history>>

(* Refresh: the store is read, and the table is written later. *)
RefreshRead(c) ==
    /\ pc[c] = "read"
    /\ \E read \in Answers :
          /\ expect' = [expect EXCEPT ![c] = read]
          /\ failed' = [failed EXCEPT ![c] = @ \/ read # GetCustomRoute]
          /\ IF read = NoRoute THEN Judge(c, "read", NoRoute)
             ELSE Goto(c, "read", "add") /\ UNCHANGED outcome
    /\ UNCHANGED <<storeVars, serverVars, migratorVars, cache, mode, attempt, target, rejected, first,
                   since, ever>>

RefreshAdd(c) ==
    /\ pc[c] = "add"
    /\ table' = [table EXCEPT ![target[c]] = expect[c]]
    /\ overtaken' = IF expect[c] = route THEN overtaken \ {target[c]} ELSE overtaken \cup {target[c]}
    /\ expect' = [expect EXCEPT ![c] = NoRoute]
    /\ Judge(c, "add", expect[c])
    /\ UNCHANGED <<storeVars, inbox, migratorVars, cache, mode, attempt, target, rejected, first,
                   history>>

(***************************************************************************)
(* The client's side of ErrWrongEndpoint: NotifyRetry (cache.Refresh: an   *)
(* entry takes the stored route, or goes when none was read), the header,  *)
(* and the next attempt.                                                   *)
(***************************************************************************)
Refreshed_KeepsEntry(c) == {cache[c]}

Refreshed(c) == IF cache[c] = NoRoute THEN {NoRoute} ELSE Answers

NotifyRetry(c) ==
    /\ \E entry \in Refreshed(c) : cache' = [cache EXCEPT ![c] = entry]
    /\ rejected' = [rejected EXCEPT ![c] = Append(@, target[c])]
    /\ IF attempt[c] < MaxAttempts
       THEN /\ Goto(c, "notify", "route")
            /\ attempt' = [attempt EXCEPT ![c] = @ + 1]
            /\ UNCHANGED outcome
       ELSE Finish(c, "notify", "ErrMaxRetries") /\ UNCHANGED attempt
    /\ UNCHANGED <<storeVars, serverVars, migratorVars, mode, target, expect, first, history>>

-----------------------------------------------------------------------------
Call(c) == \/ Route(c) \/ RouteFails(c) \/ Resend(c)
           \/ GetRoute(c) \/ RefreshRead(c) \/ RefreshAdd(c)
           \/ NotifyRetry(c)

Next == \/ \E m \in Migrators : Set(m) \/ Local(m) \/ Publish(m)
        \/ \E s \in Endpoints : Deliver(s)
        \/ \E c \in Clients : Begin(c) \/ Evict(c) \/ Call(c)
        \/ Deadline

Spec == Init /\ [][Next]_vars

-----------------------------------------------------------------------------
Message == [from : Endpoints, to : Endpoints]

(* Every variable has its type, and the histories are sets of routes. *)
TypeOK ==
    /\ StoreTypeOK
    /\ table \in [Endpoints -> Routes]
    /\ inbox \in [Endpoints -> Seq(Message)]
    /\ overtaken \subseteq Endpoints
    /\ mig \in [Migrators -> [at : {"idle", "local", "publish"}, from : Routes, to : Routes]]
    /\ sets \in 0..MaxSets
    /\ cache \in [Clients -> Routes]
    /\ pc \in [Clients -> {"done", "route", "get", "read", "add", "notify"}]
    /\ mode \in [Clients -> Modes]
    /\ attempt \in [Clients -> 1..MaxAttempts]
    /\ target \in [Clients -> Routes]
    /\ rejected \in [Clients -> Seq(Endpoints)]
    /\ expect \in [Clients -> Routes]
    /\ outcome \in [Clients -> {"none", "ok", "error", "ErrMaxRetries"}]
    /\ first \in [Clients -> Routes]
    /\ since \in [Clients -> SUBSET Routes]
    /\ failed \in [Clients -> BOOLEAN]
    /\ ever \subseteq Endpoints

(***************************************************************************)
(* Caches, routing tables and announced migrations only ever name an       *)
(* endpoint that has been the stored route: a SetCustomRoute that lost     *)
(* against another leaves no trace anywhere (sdk/server/sdk.go:229-238).   *)
(***************************************************************************)
OnlyStoredRoutes ==
    /\ \A s \in Endpoints : table[s] \in ever \cup {NoRoute}
    /\ \A s \in Endpoints : \A i \in 1..Len(inbox[s]) : inbox[s][i].to \in ever
    /\ \A c \in Clients : {cache[c], target[c]} \subseteq ever \cup {NoRoute}

(***************************************************************************)
(* A call whose first attempt went to the stored route, and during which   *)
(* the route did not change, does not fail with ErrMaxRetries, whatever    *)
(* the server's table held: the second attempt makes it read the store,    *)
(* and only when that read itself fails may the owner go on rejecting.     *)
(***************************************************************************)
OwnerReachable ==
    \A c \in Clients :
       outcome[c] = "ErrMaxRetries" => since[c] # {first[c]} \/ failed[c]

(***************************************************************************)
(* A retried attempt that the server was told it had just rejected is      *)
(* accepted only if the endpoint was the stored route during the call: the *)
(* table alone, which may be stale, does not decide a second time.         *)
(***************************************************************************)
RetryReadsStore ==
    \A c \in Clients :
       outcome[c] = "ok" /\ LastEndpoint(c) = target[c] => target[c] \in since[c]

(***************************************************************************)
(* After a rejection the client's cache holds a route that was stored      *)
(* during this call, or nothing: NotifyRetry never leaves the endpoint     *)
(* that was rejected only because it had been the route long ago.          *)
(***************************************************************************)
RetryCacheFresh ==
    \A c \in Clients :
       pc[c] # "done" /\ attempt[c] > 1 => cache[c] \in since[c] \cup {NoRoute}

(***************************************************************************)
(* When nothing is under way, a server whose table names itself, and which *)
(* therefore accepts without asking the store, is the stored route: "judge *)
(* whether the request is legitimate" (sdk/server/sdk.go:113).  The one    *)
(* exception is an entry left by a Refresh that read the store, was        *)
(* overtaken by a SetCustomRoute and the migration it announced, and then  *)
(* added what it had read (routing_table.go:53-58): it stays until the     *)
(* next migration that concerns the server, or the next Refresh.           *)
(***************************************************************************)
Quiescent == /\ \A m \in Migrators : mig[m].at = "idle"
             /\ \A s \in Endpoints : inbox[s] = <<>>
             /\ \A c \in Clients : pc[c] = "done"

SingleOwner ==
    Quiescent => \A s \in Endpoints : table[s] = s => route = s \/ s \in overtaken
=============================================================================
