------------------------ MODULE DirectRoutingProofs ------------------------
(***************************************************************************)
(* Proofs about DirectRouting, for any servers, clients, migrators and     *)
(* bound: that no endpoint is used which never was the stored route, what  *)
(* a retried call is owed, and, for one migrator at a time, that a server  *)
(* at rest which accepts requests is the owner or was overtaken in a       *)
(* Refresh; and at the end, about the custom route by itself,              *)
(* CustomRouteClients.                                                     *)
(***************************************************************************)
EXTENDS DirectRouting, CustomRouteClients, TLAPS

-----------------------------------------------------------------------------
(***************************************************************************)
(* The inductive invariants.  A route without a deadline is one that never *)
(* was set, so the script's false answer cannot pass for a success, and    *)
(* every announced migration is one that was stored.                       *)
(***************************************************************************)
StoredInv ==
    /\ route = NoRoute => ddl = "past"
    /\ route \in ever \cup {NoRoute}
    /\ \A m \in Migrators : mig[m].at # "idle" => mig[m].from \in Endpoints /\ mig[m].to \in ever
    /\ \A c \in Clients : expect[c] \in ever \cup {NoRoute}

(***************************************************************************)
(* Where a call is, and what it has seen of the store.  A call during      *)
(* which the stored route was the target of the first attempt makes at     *)
(* most one more: that one goes to the same server, which is told so,      *)
(* reads the store, if it can, and accepts.                                *)
(***************************************************************************)
Sent(c) == pc[c] \in {"get", "read", "add", "notify"}
Settled(c) ==
    pc[c] # "done" /\ (Sent(c) \/ attempt[c] # 1) /\ since[c] = {first[c]} /\ ~failed[c]

CallFine(c) ==
    /\ outcome[c] # "none" => pc[c] = "done"
    /\ pc[c] # "done" => route \in since[c]
    /\ Sent(c) \/ attempt[c] # 1 => target[c] \in Endpoints
    /\ pc[c] = "add" => expect[c] \in since[c]
    /\ attempt[c] = 1 => rejected[c] = <<>> /\ (Sent(c) => target[c] = first[c])
    /\ Settled(c) =>
          /\ attempt[c] <= 2
          /\ attempt[c] = 2 => /\ rejected[c] = <<first[c]>>
                               /\ pc[c] # "notify"
                               /\ (pc[c] = "route" /\ Reroutes(c)) \/ target[c] = first[c]
    /\ outcome[c] = "ErrMaxRetries" => since[c] # {first[c]} \/ failed[c]
    /\ outcome[c] = "ok" /\ LastEndpoint(c) = target[c] => target[c] \in since[c]
    /\ pc[c] # "done" /\ attempt[c] > 1 => cache[c] \in since[c] \cup {NoRoute}

CallInv == \A c \in Clients : CallFine(c)

DirectInv == TypeOK /\ StoredInv /\ OnlyStoredRoutes /\ CallInv

-----------------------------------------------------------------------------
(***************************************************************************)
(* One migrator at a time, no failure, no expiry, and any calls: what each *)
(* table will say once its inbox is empty is told by the last message in   *)
(* it that is about the server, and by the table if there is none; unless  *)
(* a Refresh that was overtaken has written the table.                     *)
(***************************************************************************)
Sequential == ~Lossy /\ ~StoreFails /\ ~AllowExpiry /\ \A m, n \in Migrators : m = n

Concerns(s, msg) == msg.from # msg.to /\ s \in {msg.from, msg.to}

LastConcern(q, i, s) == Concerns(s, q[i]) /\ \A j \in 1..Len(q) : Concerns(s, q[j]) => j <= i

(* The stored route, and the one a migration under way has just replaced. *)
Holders == {route} \cup {mig[m].from : m \in {m \in Migrators : mig[m].at # "idle"}}

OwnedInv ==
    /\ ddl = "past" => route = NoRoute
    /\ ddl # "live"
    /\ \A m \in Migrators : mig[m].at # "idle" => mig[m].to = route
    /\ \A s \in Endpoints :
         /\ \A i \in 1..Len(inbox[s]) :
               LastConcern(inbox[s], i, s) /\ inbox[s][i].to = s => s \in Holders
         /\ (\A i \in 1..Len(inbox[s]) : ~Concerns(s, inbox[s][i])) /\ table[s] = s
               => s \in Holders \cup overtaken

-----------------------------------------------------------------------------
(* Nothing is stored, and no call has begun. *)
LEMMA InitDirect == Init => DirectInv
<1> SUFFICES ASSUME Init PROVE DirectInv
  OBVIOUS
<1>1. TypeOK
  BY ModesAssumption DEF Init, StoreInit, TypeOK, StoreTypeOK, Routes, Idle, MaxAttempts
<1>2. StoredInv /\ OnlyStoredRoutes
  BY DEF Init, StoreInit, StoredInv, OnlyStoredRoutes, Idle
<1>3. CallInv
  BY DEF Init, CallInv, CallFine, Sent, Settled
<1>4. QED
  BY <1>1, <1>2, <1>3 DEF DirectInv

(* A SetCustomRoute leaves a route in the store; it announces a migration  *)
(* only if the route is the one it asked for (sdk/server/sdk.go:229-238).  *)
LEMMA SetShape ==
    ASSUME DirectInv, NEW m \in Migrators, Set(m)
    PROVE  /\ route' \in Endpoints
           /\ ddl' \in {"past", "live", "perm"}
           /\ ever' = ever \cup {route'}
           /\ \/ mig' = mig
              \/ \E old \in Endpoints, at \in {"publish", "local"} :
                   mig' = [mig EXCEPT ![m] = [at |-> at, from |-> old, to |-> route']]
           /\ sets' \in 0..MaxSets
           /\ since' = [c \in Clients |-> IF pc[c] = "done" THEN since[c] ELSE since[c] \cup {route'}]
           /\ UNCHANGED <<serverVars, callVars, failed>>
<1> USE DEF DirectInv
<1>1. PICK endpoint \in Endpoints, old \in Routes, timeout \in Timeouts :
          /\ SetCustomRoute(endpoint, old, timeout)
          /\ \/ mig' = IF old # NoRoute /\ RealOld(old) = NoRoute
                       THEN [mig EXCEPT ![m] =
                               [at |-> IF Site[m] = NoRoute THEN "publish" ELSE "local",
                                from |-> old, to |-> endpoint]]
                       ELSE mig
             \/ StoreFails /\ mig' = mig
  BY DEF Set
<1>2. timeout \in {"live", "perm"}
  BY DEF Timeouts
<1>5. /\ sets' \in 0..MaxSets
      /\ ever' = ever \cup {route'}
      /\ since' = [c \in Clients |-> IF pc[c] = "done" THEN since[c] ELSE since[c] \cup {route'}]
      /\ UNCHANGED <<serverVars, callVars, failed>>
  BY ModesAssumption DEF Set, TypeOK
<1>3. CASE Inserts(old)
  <2>1. route' = endpoint /\ ddl' = timeout
    BY <1>1, <1>3 DEF SetCustomRoute
  <2>2. \/ mig' = mig
        \/ \E o \in Endpoints, at \in {"publish", "local"} :
             mig' = [mig EXCEPT ![m] = [at |-> at, from |-> o, to |-> route']]
    BY <1>1, <2>1 DEF Routes
  <2>3. QED
    BY <1>2, <1>5, <2>1, <2>2
<1>4. CASE ~Inserts(old)
  <2>1. UNCHANGED storeVars
    BY <1>1, <1>4 DEF SetCustomRoute
  <2>2. ddl # "past" /\ route # NoRoute
    BY <1>4 DEF Inserts, Existing, StoredInv
  <2>3. route \in Endpoints /\ Existing = route
    BY <2>2 DEF Existing, TypeOK, StoreTypeOK
  <2>4. RealOld(old) # NoRoute
    BY <1>4, <2>3, LuaAssumption, NoRouteAssumption DEF RealOld
  <2>5. mig' = mig
    BY <1>1, <2>4
  <2>6. QED
    BY <1>5, <2>1, <2>3, <2>5 DEF storeVars, TypeOK, StoreTypeOK
<1>6. QED
  BY <1>3, <1>4

(* A call in flight sees every route that is stored meanwhile. *)
LEMMA CallsKept ==
    ASSUME CallInv, UNCHANGED <<callVars, failed>>,
           \A c \in Clients :
              \/ since'[c] = since[c] /\ (pc[c] = "done" \/ UNCHANGED route)
              \/ pc[c] # "done" /\ since'[c] = since[c] \cup {route'}
    PROVE  CallInv'
<1> SUFFICES ASSUME NEW c \in Clients PROVE CallFine(c)'
  BY DEF CallInv
<1>1. UNCHANGED <<cache, pc, mode, attempt, target, rejected, expect, outcome, first, failed>>
  BY DEF callVars
<1>2. CallFine(c)
  BY DEF CallInv
<1>3. Settled(c)' => Settled(c)
  BY <1>1, <1>2 DEF Settled, Sent, CallFine
<1>4. since[c] \subseteq since'[c]
  OBVIOUS
<1>5. pc[c] # "done" => route' \in since'[c]
  BY <1>2 DEF CallFine
<1>6. pc[c] = "done" => since'[c] = since[c]
  OBVIOUS
<1>7. QED
  BY <1>1, <1>2, <1>3, <1>4, <1>5, <1>6 DEF CallFine, Sent, Reroutes, LastEndpoint

(* A SetCustomRoute, which a call in flight notices. *)
LEMMA SetStep ==
    ASSUME DirectInv, NEW m \in Migrators, Set(m)
    PROVE  DirectInv'
<1> USE DEF DirectInv
<1>1. /\ route' \in Endpoints
      /\ ddl' \in {"past", "live", "perm"}
      /\ ever' = ever \cup {route'}
      /\ sets' \in 0..MaxSets
      /\ since' = [c \in Clients |-> IF pc[c] = "done" THEN since[c] ELSE since[c] \cup {route'}]
      /\ UNCHANGED <<serverVars, callVars, failed>>
  BY SetShape
<1>3. /\ mig' \in [Migrators -> [at : {"idle", "local", "publish"}, from : Routes, to : Routes]]
      /\ \A n \in Migrators : mig'[n].at # "idle" => mig'[n].from \in Endpoints /\ mig'[n].to \in ever'
  <2>1. CASE mig' = mig
    BY <1>1, <2>1 DEF TypeOK, StoredInv
  <2>2. CASE \E old \in Endpoints, at \in {"publish", "local"} :
               mig' = [mig EXCEPT ![m] = [at |-> at, from |-> old, to |-> route']]
    <3>1. PICK old \in Endpoints, at \in {"publish", "local"} :
                 mig' = [mig EXCEPT ![m] = [at |-> at, from |-> old, to |-> route']]
      BY <2>2
    <3>2. [at |-> at, from |-> old, to |-> route']
            \in [at : {"idle", "local", "publish"}, from : Routes, to : Routes]
      BY <1>1 DEF Routes
    <3>3. \A n \in Migrators : n = m \/ mig'[n] = mig[n]
      BY <3>1 DEF TypeOK
    <3>4. mig'[m].from = old /\ mig'[m].to = route'
      BY <3>1 DEF TypeOK
    <3>5. mig' \in [Migrators -> [at : {"idle", "local", "publish"}, from : Routes, to : Routes]]
      BY <3>1, <3>2 DEF TypeOK
    <3>6. QED
      BY <1>1, <3>3, <3>4, <3>5 DEF StoredInv
  <2>3. QED
    BY <2>1, <2>2, SetShape
<1>4. since' \in [Clients -> SUBSET Routes]
  BY <1>1 DEF TypeOK, Routes
<1>5. TypeOK'
  BY <1>1, <1>3, <1>4 DEF TypeOK, StoreTypeOK, serverVars, callVars
<1>6. StoredInv'
  BY <1>1, <1>3, NoRouteAssumption DEF StoredInv, callVars
<1>7. OnlyStoredRoutes'
  BY <1>1 DEF OnlyStoredRoutes, serverVars, callVars
<1>8. CallInv'
  BY <1>1, CallsKept
<1>9. QED
  BY <1>5, <1>6, <1>7, <1>8

(* NotifyMigration appends the migration to inboxes. *)
LEMMA PublishShape ==
    ASSUME DirectInv, NEW m \in Migrators, Publish(m)
    PROVE  /\ inbox' \in [Endpoints -> Seq(Message)]
           /\ \A s \in Endpoints :
                \/ inbox'[s] = inbox[s]
                \/ /\ Len(inbox'[s]) = Len(inbox[s]) + 1
                   /\ \A i \in 1..Len(inbox[s]) : inbox'[s][i] = inbox[s][i]
                   /\ inbox'[s][Len(inbox[s]) + 1] = [from |-> mig[m].from, to |-> mig[m].to]
           /\ ~Lossy => \A s \in Endpoints : Len(inbox'[s]) = Len(inbox[s]) + 1
<1> USE DEF DirectInv
<1> DEFINE msg == [from |-> mig[m].from, to |-> mig[m].to]
<1>1. PICK reached \in SUBSET Endpoints :
        /\ inbox' = [s \in Endpoints |-> IF s \in reached THEN Append(inbox[s], msg) ELSE inbox[s]]
        /\ ~Lossy => reached = Endpoints
  BY DEF Publish
<1>2. msg \in Message
  BY DEF TypeOK, Message, StoredInv, Publish
<1> HIDE DEF msg
<1>3. ASSUME NEW s \in Endpoints
      PROVE  /\ inbox'[s] \in Seq(Message)
             /\ \/ inbox'[s] = inbox[s]
                \/ /\ Len(inbox'[s]) = Len(inbox[s]) + 1
                   /\ \A i \in 1..Len(inbox[s]) : inbox'[s][i] = inbox[s][i]
                   /\ inbox'[s][Len(inbox[s]) + 1] = msg
             /\ s \in reached => Len(inbox'[s]) = Len(inbox[s]) + 1
  <2>1. inbox[s] \in Seq(Message)
    BY DEF TypeOK
  <2>2. inbox'[s] = IF s \in reached THEN Append(inbox[s], msg) ELSE inbox[s]
    BY <1>1
  <2>3. QED
    BY <1>2, <2>1, <2>2
<1>4. inbox' \in [Endpoints -> Seq(Message)]
  BY <1>1, <1>3
<1>5. QED
  BY <1>1, <1>3, <1>4 DEF msg

(* A migration that was stored leaves stored routes in the tables. *)
LEMMA MigrationTypes ==
    ASSUME TypeOK, OnlyStoredRoutes, NEW s, NEW from, NEW to \in ever, onMigration(s, from, to)
    PROVE  /\ table' \in [Endpoints -> Routes] /\ overtaken' \subseteq Endpoints
           /\ \A q \in Endpoints : table'[q] \in ever \cup {NoRoute}
<1>1. /\ table \in [Endpoints -> Routes] /\ overtaken \subseteq Endpoints
      /\ \A q \in Endpoints : table[q] \in ever \cup {NoRoute}
      /\ ever \subseteq Routes
  BY DEF TypeOK, OnlyStoredRoutes, Routes
<1>2. CASE from # to /\ s \in {from, to}
  <2> DEFINE entry == IF from = s THEN NoRoute ELSE s
  <2>1. entry \in ever \cup {NoRoute}
    BY <1>2
  <2>2. table' = [table EXCEPT ![s] = entry] /\ overtaken' = overtaken \ {s}
    BY <1>2 DEF onMigration
  <2> HIDE DEF entry
  <2>3. QED
    BY <1>1, <2>1, <2>2 DEF Routes
<1>3. CASE ~(from # to /\ s \in {from, to})
  BY <1>1, <1>3 DEF onMigration
<1>4. QED
  BY <1>2, <1>3

(* The other steps of the migrators, the listeners, the clock. *)
LEMMA LocalStep ==
    ASSUME DirectInv, NEW m \in Migrators, Local(m)
    PROVE  DirectInv'
<1> USE DEF DirectInv
<1>1. /\ mig[m].at = "local" /\ mig[m].to \in ever
      /\ onMigration(Site[m], mig[m].from, mig[m].to)
      /\ mig' = [mig EXCEPT ![m].at = "publish"]
      /\ UNCHANGED <<route, ddl, inbox, sets, callVars, since, failed, ever>>
  BY DEF Local, storeVars, history, StoredInv
<1>2. /\ table' \in [Endpoints -> Routes] /\ overtaken' \subseteq Endpoints
      /\ \A q \in Endpoints : table'[q] \in ever \cup {NoRoute}
  BY <1>1, MigrationTypes
<1>3. TypeOK'
  <2>1. StoreTypeOK'
    BY <1>1 DEF TypeOK, StoreTypeOK
  <2>2. mig' \in [Migrators -> [at : {"idle", "local", "publish"}, from : Routes, to : Routes]]
    <3>1. mig \in [Migrators -> [at : {"idle", "local", "publish"}, from : Routes, to : Routes]]
      BY DEF TypeOK
    <3>2. QED
      BY <1>1, <3>1
  <2> HIDE DEF DirectInv
  <2>3. TypeOK
    BY DEF DirectInv
  <2>4. QED
    BY <1>1, <1>2, <2>1, <2>2, <2>3 DEF TypeOK, callVars
<1>4. StoredInv'
  BY <1>1 DEF StoredInv, TypeOK, callVars
<1>5. OnlyStoredRoutes'
  BY <1>1, <1>2 DEF OnlyStoredRoutes, callVars
<1>6. CallInv'
  BY <1>1, CallsKept
<1>7. QED
  BY <1>3, <1>4, <1>5, <1>6

LEMMA PublishStep ==
    ASSUME DirectInv, NEW m \in Migrators, Publish(m)
    PROVE  DirectInv'
<1> USE DEF DirectInv
<1>1. /\ mig[m].at = "publish" /\ mig[m].to \in ever /\ mig[m].from \in Endpoints
      /\ mig' = [mig EXCEPT ![m] = Idle]
      /\ UNCHANGED <<route, ddl, table, overtaken, sets, callVars, since, failed, ever>>
  BY DEF Publish, storeVars, history, StoredInv
<1>2. TypeOK'
  BY <1>1, PublishShape DEF TypeOK, StoreTypeOK, callVars, Idle, Routes
<1>3. StoredInv'
  BY <1>1 DEF StoredInv, TypeOK, callVars, Idle
<1>4. ASSUME NEW s \in Endpoints, NEW i \in 1..Len(inbox'[s])
      PROVE  inbox'[s][i].to \in ever
  <2>1. inbox[s] \in Seq(Message)
    BY DEF TypeOK
  <2>2. CASE inbox'[s] = inbox[s]
    BY <2>2 DEF OnlyStoredRoutes
  <2>3. CASE inbox'[s] # inbox[s]
    <3>0. /\ Len(inbox'[s]) = Len(inbox[s]) + 1
          /\ \A j \in 1..Len(inbox[s]) : inbox'[s][j] = inbox[s][j]
          /\ inbox'[s][Len(inbox[s]) + 1] = [from |-> mig[m].from, to |-> mig[m].to]
      BY <2>3, PublishShape, Zenon
    <3>1. /\ Len(inbox'[s]) = Len(inbox[s]) + 1
          /\ \A j \in 1..Len(inbox[s]) : inbox'[s][j] = inbox[s][j]
          /\ inbox'[s][Len(inbox[s]) + 1].to = mig[m].to
      BY <3>0
    <3>2. i \in 1..Len(inbox[s]) \/ i = Len(inbox[s]) + 1
      BY <2>1, <3>1
    <3>3. QED
      BY <1>1, <3>1, <3>2 DEF OnlyStoredRoutes
  <2>4. QED
    BY <2>2, <2>3
<1>5. OnlyStoredRoutes'
  BY <1>1, <1>4 DEF OnlyStoredRoutes, callVars
<1>6. CallInv'
  BY <1>1, CallsKept
<1>7. QED
  BY <1>2, <1>3, <1>5, <1>6

(* RegisterMigrationListener takes the first message of the inbox. *)
LEMMA DeliverShape ==
    ASSUME TypeOK, NEW s \in Endpoints, Deliver(s)
    PROVE  /\ inbox[s] \in Seq(Message) /\ 1 \in 1..Len(inbox[s]) /\ inbox[s][1] \in Message
           /\ onMigration(s, inbox[s][1].from, inbox[s][1].to)
           /\ inbox' = [inbox EXCEPT ![s] = Tail(inbox[s])]
           /\ Tail(inbox[s]) \in Seq(Message)
           /\ \A i \in 1..Len(Tail(inbox[s])) :
                Tail(inbox[s])[i] = inbox[s][i + 1] /\ i + 1 \in 1..Len(inbox[s])
           /\ \A j \in 1..Len(inbox[s]) : j = 1 \/ \E i \in 1..Len(Tail(inbox[s])) : j = i + 1
           /\ UNCHANGED <<route, ddl, mig, sets, callVars, since, failed, ever>>
<1>1. /\ inbox[s] \in Seq(Message) /\ inbox[s] # <<>>
      /\ onMigration(s, Head(inbox[s]).from, Head(inbox[s]).to)
      /\ inbox' = [inbox EXCEPT ![s] = Tail(inbox[s])]
      /\ UNCHANGED <<route, ddl, mig, sets, callVars, since, failed, ever>>
  BY DEF Deliver, storeVars, migratorVars, history, TypeOK
<1>2. /\ Head(inbox[s]) = inbox[s][1] /\ 1 \in 1..Len(inbox[s]) /\ inbox[s][1] \in Message
      /\ Tail(inbox[s]) \in Seq(Message) /\ Len(Tail(inbox[s])) = Len(inbox[s]) - 1
      /\ Len(inbox[s]) \in Nat
      /\ \A i \in 1..Len(Tail(inbox[s])) :
           Tail(inbox[s])[i] = inbox[s][i + 1] /\ i + 1 \in 1..Len(inbox[s])
  BY <1>1
<1>3. ASSUME NEW j \in 1..Len(inbox[s]), j # 1
      PROVE  \E i \in 1..Len(Tail(inbox[s])) : j = i + 1
  <2>1. j - 1 \in 1..Len(Tail(inbox[s])) /\ j = (j - 1) + 1
    BY <1>2, <1>3
  <2>2. QED
    BY <2>1
<1>4. QED
  BY <1>1, <1>2, <1>3

LEMMA DeliverStep ==
    ASSUME DirectInv, NEW s \in Endpoints, Deliver(s)
    PROVE  DirectInv'
<1> USE DEF DirectInv
<1>1. /\ inbox[s][1].to \in ever
      /\ onMigration(s, inbox[s][1].from, inbox[s][1].to)
      /\ inbox' = [inbox EXCEPT ![s] = Tail(inbox[s])]
      /\ \A i \in 1..Len(Tail(inbox[s])) :
           Tail(inbox[s])[i] = inbox[s][i + 1] /\ i + 1 \in 1..Len(inbox[s])
  BY DeliverShape DEF OnlyStoredRoutes
<1>2. /\ table' \in [Endpoints -> Routes] /\ overtaken' \subseteq Endpoints
      /\ \A q \in Endpoints : table'[q] \in ever \cup {NoRoute}
  BY <1>1, MigrationTypes
<1>3. inbox' \in [Endpoints -> Seq(Message)]
  <2>1. inbox \in [Endpoints -> Seq(Message)]
    BY DEF TypeOK
  <2>2. Tail(inbox[s]) \in Seq(Message)
    BY DeliverShape
  <2> DEFINE rest == Tail(inbox[s])
             M == Seq(Message)
  <2>3. inbox' = [inbox EXCEPT ![s] = rest] /\ rest \in M /\ inbox \in [Endpoints -> M]
    BY <1>1, <2>1, <2>2
  <2> HIDE DEF rest, M, DirectInv
  <2>4. inbox' \in [Endpoints -> M]
    BY <2>3
  <2>5. QED
    BY <2>4 DEF M
<1>4. \A q \in Endpoints : \A i \in 1..Len(inbox'[q]) : inbox'[q][i].to \in ever
  BY <1>1 DEF OnlyStoredRoutes, TypeOK
<1>5. TypeOK'
  <2>1. UNCHANGED <<route, ddl, mig, sets, callVars, since, failed, ever>>
    BY DeliverShape
  <2>2. StoreTypeOK'
    BY <2>1 DEF TypeOK, StoreTypeOK
  <2>3. QED
    BY <1>2, <1>3, <2>1, <2>2 DEF TypeOK, callVars
<1>6. StoredInv' /\ OnlyStoredRoutes'
  BY <1>2, <1>4, DeliverShape DEF StoredInv, OnlyStoredRoutes, callVars
<1>7. CallInv'
  BY DeliverShape, CallsKept
<1>8. QED
  BY <1>5, <1>6, <1>7

LEMMA DeadlineStep ==
    ASSUME DirectInv, Deadline
    PROVE  DirectInv'
<1> USE DEF DirectInv
<1>1. /\ ddl' = "past"
      /\ UNCHANGED <<route, table, inbox, overtaken, mig, sets, callVars, since, failed, ever>>
  BY DEF Deadline, Expire, serverVars, migratorVars, history
<1>2. TypeOK' /\ StoredInv' /\ OnlyStoredRoutes'
  BY <1>1 DEF TypeOK, StoreTypeOK, StoredInv, OnlyStoredRoutes, callVars
<1>3. CallInv'
  BY <1>1, CallsKept
<1>4. QED
  BY <1>2, <1>3

-----------------------------------------------------------------------------
(* The steps of a client's call, and what they leave alone. *)
CallStep(c) == Begin(c) \/ Evict(c) \/ Call(c)

LEMMA CallFrame ==
    ASSUME TypeOK, NEW c \in Clients, CallStep(c)
    PROVE  /\ UNCHANGED <<route, ddl, inbox, mig, sets, ever>>
           /\ \A d \in Clients \ {c} :
                /\ cache'[d] = cache[d] /\ pc'[d] = pc[d] /\ mode'[d] = mode[d]
                /\ attempt'[d] = attempt[d] /\ target'[d] = target[d]
                /\ rejected'[d] = rejected[d] /\ expect'[d] = expect[d]
                /\ outcome'[d] = outcome[d] /\ first'[d] = first[d] /\ since'[d] = since[d]
                /\ failed'[d] = failed[d]
<1> USE DEF storeVars, serverVars, migratorVars, history, Goto, Finish, Judge
<1>1. CASE Begin(c)
  BY <1>1 DEF Begin, TypeOK
<1>2. CASE Evict(c)
  BY <1>2 DEF Evict, TypeOK
<1>3. CASE Route(c)
  BY <1>3 DEF Route, TypeOK
<1>4. CASE RouteFails(c) \/ Resend(c)
  BY <1>4 DEF RouteFails, Resend, TypeOK
<1>5. CASE GetRoute(c)
  BY <1>5 DEF GetRoute, TypeOK
<1>6. CASE RefreshRead(c)
  BY <1>6 DEF RefreshRead, TypeOK
<1>7. CASE RefreshAdd(c)
  BY <1>7 DEF RefreshAdd, TypeOK
<1>8. CASE NotifyRetry(c)
  BY <1>8 DEF NotifyRetry, TypeOK
<1>9. QED
  BY <1>1, <1>2, <1>3, <1>4, <1>5, <1>6, <1>7, <1>8 DEF CallStep, Call

(* Types, and that a call uses stored routes only. *)
LEMMA CallTypeStep ==
    ASSUME DirectInv, NEW c \in Clients, CallStep(c)
    PROVE  TypeOK' /\ StoredInv' /\ OnlyStoredRoutes'
<1> USE DEF DirectInv, Goto, Finish, Judge
<1>1. UNCHANGED <<route, ddl, inbox, mig, sets, ever>>
  BY CallFrame
<1>2. /\ route \in ever \cup {NoRoute} /\ cache[c] \in ever \cup {NoRoute}
      /\ target[c] \in ever \cup {NoRoute} /\ expect[c] \in ever \cup {NoRoute}
      /\ ever \subseteq Endpoints /\ route \in Routes
  BY DEF StoredInv, OnlyStoredRoutes, TypeOK, Routes, StoreTypeOK
<1> DEFINE Fields == /\ table' \in [Endpoints -> ever \cup {NoRoute}]
                     /\ cache' \in [Clients -> ever \cup {NoRoute}]
                     /\ target' \in [Clients -> ever \cup {NoRoute}]
                     /\ expect' \in [Clients -> ever \cup {NoRoute}]
                     /\ pc' \in [Clients -> {"done", "route", "get", "read", "add", "notify"}]
                     /\ mode' \in [Clients -> Modes]
                     /\ attempt' \in [Clients -> 1..MaxAttempts]
                     /\ rejected' \in [Clients -> Seq(Endpoints)]
                     /\ outcome' \in [Clients -> {"none", "ok", "error", "ErrMaxRetries"}]
                     /\ first' \in [Clients -> Routes]
                     /\ since' \in [Clients -> SUBSET Routes]
                     /\ failed' \in [Clients -> BOOLEAN]
                     /\ overtaken' \subseteq Endpoints
<1>3. /\ table \in [Endpoints -> ever \cup {NoRoute}]
      /\ cache \in [Clients -> ever \cup {NoRoute}]
      /\ target \in [Clients -> ever \cup {NoRoute}]
      /\ expect \in [Clients -> ever \cup {NoRoute}]
  BY DEF TypeOK, StoredInv, OnlyStoredRoutes
<1>4. ASSUME Fields PROVE TypeOK' /\ StoredInv' /\ OnlyStoredRoutes'
  BY <1>1, <1>2, <1>4 DEF TypeOK, StoreTypeOK, StoredInv, OnlyStoredRoutes, Routes
<1> USE DEF history
<1>5. CASE Begin(c)
  BY <1>2, <1>3, <1>4, <1>5 DEF Begin, TypeOK, MaxAttempts, serverVars, Routes
<1>6. CASE Evict(c)
  BY <1>3, <1>4, <1>6 DEF Evict, TypeOK, serverVars
<1>7. CASE Route(c)
  <2>1. Found(c) \ {NoRoute} \subseteq ever /\ ever \subseteq Routes
    BY <1>2 DEF Found, Answers, GetCustomRoute, Routes
  <2>2. PICK found \in ever :
          /\ cache' = [cache EXCEPT ![c] = found]
          /\ target' = [target EXCEPT ![c] = found]
          /\ first' = IF attempt[c] = 1 THEN [first EXCEPT ![c] = found] ELSE first
    BY <1>7, <2>1 DEF Route
  <2>3. UNCHANGED <<table, overtaken, mode, attempt, rejected, expect, outcome, since, failed>>
    BY <1>7 DEF Route, serverVars
  <2>4. pc' = [pc EXCEPT ![c] = "get"]
    BY <1>7 DEF Route
  <2>5. cache' \in [Clients -> ever \cup {NoRoute}] /\ target' \in [Clients -> ever \cup {NoRoute}]
    BY <1>3, <2>2
  <2>6. first' \in [Clients -> Routes]
    BY <2>1, <2>2 DEF TypeOK
  <2>7. QED
    BY <1>3, <1>4, <2>3, <2>4, <2>5, <2>6 DEF TypeOK
<1>8. CASE RouteFails(c) \/ Resend(c)
  BY <1>3, <1>4, <1>8 DEF RouteFails, Resend, TypeOK, serverVars
<1>9. CASE GetRoute(c)
  <2>1. CASE MustRefresh(c)
    BY <1>3, <1>4, <1>9, <2>1 DEF GetRoute, TypeOK, serverVars
  <2>2. CASE ~MustRefresh(c)
    BY <1>3, <1>4, <1>9, <2>2 DEF GetRoute, TypeOK, serverVars
  <2>3. QED
    BY <2>1, <2>2
<1>10. CASE RefreshRead(c)
  <2>1. Answers \subseteq ever \cup {NoRoute}
    BY <1>2 DEF Answers, GetCustomRoute
  <2>2. PICK read \in Answers :
             /\ expect' = [expect EXCEPT ![c] = read]
             /\ failed' = [failed EXCEPT ![c] = @ \/ read # GetCustomRoute]
             /\ IF read = NoRoute THEN Judge(c, "read", NoRoute)
                ELSE Goto(c, "read", "add") /\ UNCHANGED outcome
    BY <1>10 DEF RefreshRead
  <2>3. expect' \in [Clients -> ever \cup {NoRoute}]
    BY <1>3, <2>1, <2>2
  <2>4. failed' \in [Clients -> BOOLEAN]
    BY <2>2 DEF TypeOK
  <2>5. /\ pc' \in [Clients -> {"done", "route", "get", "read", "add", "notify"}]
        /\ outcome' \in [Clients -> {"none", "ok", "error", "ErrMaxRetries"}]
    BY <2>2 DEF TypeOK
  <2>6. UNCHANGED <<table, overtaken, cache, mode, attempt, target, rejected, first, since>>
    BY <1>10 DEF RefreshRead, serverVars
  <2>7. QED
    BY <1>3, <1>4, <2>3, <2>4, <2>5, <2>6 DEF TypeOK
<1>11. CASE RefreshAdd(c)
  <2>1. target[c] \in Endpoints
    BY <1>11 DEF RefreshAdd, CallInv, CallFine, Sent
  <2>2. overtaken' \subseteq Endpoints
    BY <1>11, <2>1 DEF RefreshAdd, TypeOK
  <2>3. QED
    BY <1>2, <1>3, <1>4, <1>11, <2>2 DEF RefreshAdd, TypeOK
<1>12. CASE NotifyRetry(c)
  <2>1. Refreshed(c) \subseteq ever \cup {NoRoute}
    BY <1>2 DEF Refreshed, Answers, GetCustomRoute
  <2>2. target[c] \in Endpoints
    BY <1>12 DEF NotifyRetry, CallInv, CallFine, Sent
  <2>3. rejected' \in [Clients -> Seq(Endpoints)]
    <3>1. Append(rejected[c], target[c]) \in Seq(Endpoints)
      BY <2>2 DEF TypeOK
    <3>2. QED
      BY <1>12, <3>1 DEF NotifyRetry, TypeOK
  <2>4. cache' \in [Clients -> ever \cup {NoRoute}]
    BY <1>3, <1>12, <2>1 DEF NotifyRetry
  <2>5. attempt' \in [Clients -> 1..MaxAttempts]
    <3>1. \/ attempt' = attempt
          \/ attempt[c] < MaxAttempts /\ attempt' = [attempt EXCEPT ![c] = attempt[c] + 1]
      BY <1>12 DEF NotifyRetry
    <3>2. attempt[c] < MaxAttempts => attempt[c] + 1 \in 1..MaxAttempts
      <4>1. attempt[c] \in 1..MaxAttempts
        BY DEF TypeOK
      <4>2. QED
        BY <4>1 DEF MaxAttempts
    <3>3. QED
      BY <3>1, <3>2 DEF TypeOK
  <2>6. /\ pc' \in [Clients -> {"done", "route", "get", "read", "add", "notify"}]
        /\ outcome' \in [Clients -> {"none", "ok", "error", "ErrMaxRetries"}]
    BY <1>12 DEF NotifyRetry, TypeOK
  <2>7. QED
    BY <1>3, <1>4, <1>12, <2>3, <2>4, <2>5, <2>6 DEF NotifyRetry, TypeOK, serverVars
<1>13. QED
  BY <1>5, <1>6, <1>7, <1>8, <1>9, <1>10, <1>11, <1>12 DEF CallStep, Call

(* A step of one client changes nothing for the call of another. *)
LEMMA OtherCalls ==
    ASSUME DirectInv, NEW c \in Clients, CallStep(c), NEW d \in Clients \ {c}
    PROVE  CallFine(d)'
<1>1. /\ route' = route
      /\ cache'[d] = cache[d] /\ pc'[d] = pc[d] /\ mode'[d] = mode[d]
      /\ attempt'[d] = attempt[d] /\ target'[d] = target[d]
      /\ rejected'[d] = rejected[d] /\ expect'[d] = expect[d]
      /\ outcome'[d] = outcome[d] /\ first'[d] = first[d] /\ since'[d] = since[d]
      /\ failed'[d] = failed[d]
  BY CallFrame DEF DirectInv
<1>2. CallFine(d)
  BY DEF DirectInv, CallInv
<1>3. (Sent(d)' <=> Sent(d)) /\ (Settled(d)' <=> Settled(d)) /\ (Reroutes(d)' <=> Reroutes(d))
  BY <1>1 DEF Settled, Sent, Reroutes
<1>4. LastEndpoint(d)' = LastEndpoint(d)
  BY <1>1 DEF LastEndpoint
<1>5. QED
  BY <1>1, <1>2, <1>3, <1>4 DEF CallFine

(***************************************************************************)
(* Every step of a call keeps what it is owed: a rejected attempt          *)
(* refreshes the cache, the retry tells the server, and the server that is *)
(* told reads the store.                                                   *)
(***************************************************************************)
LEMMA OwnCall ==
    ASSUME DirectInv, NEW c \in Clients, CallStep(c)
    PROVE  CallFine(c)'
<1> USE DEF DirectInv, Goto, Finish, Judge, history, storeVars, migratorVars, serverVars
<1>1. CallFine(c) /\ UNCHANGED route
  BY CallFrame DEF CallInv
<1>2. /\ pc[c] \in {"done", "route", "get", "read", "add", "notify"}
      /\ attempt[c] \in 1..3 /\ mode[c] \in {"grpc", "invoke"}
      /\ rejected[c] \in Seq(Endpoints)
      /\ route \in Routes /\ cache[c] \in Routes /\ target[c] \in Routes
  BY ModesAssumption DEF TypeOK, MaxAttempts, StoreTypeOK, Routes
<1>3. CASE Begin(c)
  <2>1. /\ pc'[c] = "route" /\ attempt'[c] = 1 /\ rejected'[c] = <<>> /\ outcome'[c] = "none"
        /\ since'[c] = {route} /\ UNCHANGED expect
    BY <1>3 DEF Begin, TypeOK
  <2>2. QED
    BY <1>1, <2>1 DEF CallFine, Sent, Settled
<1>4. CASE Evict(c)
  <2>1. /\ UNCHANGED <<pc, mode, attempt, target, rejected, expect, outcome, first, since, failed>>
        /\ cache'[c] = NoRoute
    BY <1>4 DEF Evict, TypeOK
  <2>2. QED
    BY <1>1, <2>1 DEF CallFine, Sent, Settled, Reroutes, LastEndpoint
<1>5. CASE Route(c)
  <2>0. PICK found \in Found(c) \ {NoRoute} :
             /\ cache' = [cache EXCEPT ![c] = found]
             /\ target' = [target EXCEPT ![c] = found]
             /\ first' = IF attempt[c] = 1 THEN [first EXCEPT ![c] = found] ELSE first
    BY <1>5 DEF Route
  <2>1. /\ pc[c] = "route" /\ pc'[c] = "get"
        /\ UNCHANGED <<mode, attempt, rejected, expect, outcome, since, failed>>
        /\ cache'[c] = found /\ target'[c] = found
        /\ first'[c] = IF attempt[c] = 1 THEN found ELSE first[c]
        /\ found # NoRoute /\ Reroutes(c)
    BY <1>5, <2>0 DEF Route, TypeOK
  <2>2. found = cache[c] \/ found = route
    BY <2>1 DEF Found, Answers, GetCustomRoute
  <2>3. /\ found \in Endpoints
        /\ attempt[c] > 1 => found \in since[c]
    BY <1>1, <1>2, <2>1, <2>2 DEF CallFine, Routes
  <2>4. outcome[c] = "none"
    BY <1>1, <2>1 DEF CallFine
  <2>5. attempt[c] # 1 /\ since[c] = {first[c]} /\ ~failed[c] => found = first[c] /\ Settled(c)
    BY <1>2, <2>1, <2>3 DEF Settled
  <2>6. QED
    BY <1>1, <1>2, <2>1, <2>3, <2>4, <2>5 DEF CallFine, Sent, Settled
<1>6. CASE RouteFails(c)
  <2>1. /\ pc'[c] = "done" /\ outcome'[c] = "error"
        /\ UNCHANGED <<mode, attempt, rejected, expect, first, since, failed, cache, target>>
    BY <1>6 DEF RouteFails, TypeOK
  <2>2. QED
    BY <1>1, <2>1 DEF CallFine, Sent, Settled
<1>7. CASE Resend(c)
  <2>1. /\ pc[c] = "route" /\ pc'[c] = "get" /\ attempt[c] # 1 /\ ~Reroutes(c)
        /\ UNCHANGED <<mode, attempt, rejected, expect, first, since, failed, cache, target, outcome>>
    BY <1>7 DEF Resend, TypeOK, Reroutes
  <2>2. target[c] \in Endpoints
    BY <1>1, <1>2, <2>1 DEF CallFine
  <2>3. QED
    BY <1>1, <1>2, <2>1, <2>2 DEF CallFine, Sent, Settled, Reroutes, LastEndpoint
<1>8. CASE GetRoute(c)
  <2>1. /\ pc[c] = "get"
        /\ UNCHANGED <<mode, attempt, rejected, first, since, failed, cache, target>>
        /\ \/ pc'[c] = "read" /\ UNCHANGED outcome
           \/ /\ LastEndpoint(c) # target[c]
              /\ pc'[c] = "done" /\ outcome'[c] = "ok"
           \/ /\ LastEndpoint(c) # target[c]
              /\ pc'[c] = "notify" /\ UNCHANGED outcome
    BY <1>8 DEF GetRoute, MustRefresh, TypeOK
  <2>2. LastEndpoint(c)' = LastEndpoint(c)
    BY <2>1 DEF LastEndpoint
  <2>3. outcome[c] = "none"
    BY <1>1, <2>1 DEF CallFine
  <2>4. attempt[c] = 2 /\ Settled(c) => LastEndpoint(c) = target[c]
    <3>1. ASSUME attempt[c] = 2, Settled(c) PROVE rejected[c] = <<target[c]>>
      BY <1>1, <2>1, <3>1 DEF CallFine
    <3>2. /\ <<target[c]>> # <<>> /\ Head(<<target[c]>>) = target[c]
          /\ <<target[c]>>[Len(<<target[c]>>)] = target[c]
      OBVIOUS
    <3>3. QED
      BY <3>1, <3>2 DEF LastEndpoint
  <2>5. QED
    BY <1>1, <1>2, <2>1, <2>2, <2>3, <2>4 DEF CallFine, Sent, Settled
<1>9. CASE RefreshRead(c)
  <2>0. PICK read \in Answers :
             /\ expect' = [expect EXCEPT ![c] = read]
             /\ failed' = [failed EXCEPT ![c] = failed[c] \/ read # route]
             /\ IF read = NoRoute THEN Judge(c, "read", NoRoute)
                ELSE Goto(c, "read", "add") /\ UNCHANGED outcome
    BY <1>9 DEF RefreshRead, GetCustomRoute
  <2>1. /\ pc[c] = "read" /\ expect'[c] = read
        /\ UNCHANGED <<mode, attempt, rejected, first, since, cache, target>>
    BY <1>9, <2>0 DEF RefreshRead, TypeOK
  <2>2. target[c] \in Endpoints /\ target[c] # NoRoute
    BY <1>1, <2>1, NoRouteAssumption DEF CallFine, Sent
  <2>3. /\ IF read = NoRoute THEN pc'[c] = "notify" ELSE pc'[c] = "add"
        /\ UNCHANGED outcome
    BY <2>0, <2>2 DEF TypeOK
  <2>4. failed[c] \in BOOLEAN /\ failed \in [Clients -> BOOLEAN]
    BY DEF TypeOK
  <2>5. ~failed'[c] => ~failed[c] /\ read = route
    BY <2>0, <2>4
  <2>6. failed[c] => failed'[c]
    BY <2>0, <2>4
  <2>7. read # NoRoute => read \in since[c]
    BY <1>1, <2>1 DEF Answers, GetCustomRoute, CallFine
  <2>8. Settled(c)' => Settled(c) /\ read # NoRoute
    <3>1. Settled(c)' => Settled(c) /\ read = route
      BY <2>1, <2>5 DEF Settled, Sent
    <3>2. Settled(c) => route = first[c] /\ target[c] = first[c]
      BY <1>1, <1>2, <2>1 DEF CallFine, Settled, Sent
    <3>3. QED
      BY <2>2, <3>1, <3>2
  <2>9. outcome[c] = "none"
    BY <1>1, <2>1 DEF CallFine
  <2>10. QED
    BY <1>1, <1>2, <2>1, <2>3, <2>7, <2>8, <2>9 DEF CallFine, Sent, Reroutes
<1>10. CASE RefreshAdd(c)
  <2>1. /\ pc[c] = "add"
        /\ UNCHANGED <<mode, attempt, rejected, first, since, failed, cache, target>>
        /\ IF expect[c] = target[c] THEN pc'[c] = "done" /\ outcome'[c] = "ok"
                                    ELSE pc'[c] = "notify" /\ UNCHANGED outcome
    BY <1>10 DEF RefreshAdd, TypeOK
  <2>2. expect[c] \in since[c]
    BY <1>1, <2>1 DEF CallFine
  <2>3. Settled(c) => expect[c] = target[c]
    BY <1>1, <1>2, <2>1, <2>2 DEF CallFine, Settled, Sent
  <2>4. QED
    BY <1>1, <1>2, <2>1, <2>2, <2>3 DEF CallFine, Sent, Settled
<1>11. CASE NotifyRetry(c)
  <2>1. /\ pc[c] = "notify"
        /\ UNCHANGED <<mode, first, since, failed, target, expect>>
        /\ cache'[c] \in Refreshed(c)
        /\ rejected'[c] = Append(rejected[c], target[c])
        /\ IF attempt[c] < MaxAttempts
           THEN pc'[c] = "route" /\ attempt'[c] = attempt[c] + 1 /\ UNCHANGED outcome
           ELSE pc'[c] = "done" /\ outcome'[c] = "ErrMaxRetries" /\ UNCHANGED attempt
    BY <1>11 DEF NotifyRetry, TypeOK
  <2>2. Refreshed(c) \subseteq since[c] \cup {NoRoute}
    BY <1>1, <2>1 DEF CallFine, Refreshed, Answers, GetCustomRoute
  <2>3. Settled(c) => attempt[c] = 1 /\ rejected'[c] = <<first[c]>> /\ target[c] = first[c]
    <3>1. Settled(c) => attempt[c] = 1
      BY <1>1, <1>2, <2>1 DEF CallFine
    <3>2. attempt[c] = 1 => rejected[c] = <<>> /\ target[c] = first[c]
      BY <1>1, <2>1 DEF CallFine, Sent
    <3>3. Append(<<>>, target[c]) = <<target[c]>>
      OBVIOUS
    <3>4. QED
      BY <2>1, <3>1, <3>2, <3>3
  <2>4. Settled(c)' => Settled(c)
    BY <2>1 DEF Settled, Sent
  <2>5. since[c] = {first[c]} /\ ~failed[c] => Settled(c)
    BY <2>1 DEF Settled, Sent
  <2>6. QED
    BY <1>1, <1>2, <2>1, <2>2, <2>3, <2>4, <2>5 DEF CallFine, Sent, MaxAttempts
<1>12. QED
  BY <1>3, <1>4, <1>5, <1>6, <1>7, <1>8, <1>9, <1>10, <1>11 DEF CallStep, Call

-----------------------------------------------------------------------------
(* The invariant holds of every state of DirectRouting. *)
LEMMA DirectStep == DirectInv /\ [Next]_vars => DirectInv'
<1> SUFFICES ASSUME DirectInv, [Next]_vars PROVE DirectInv'
  OBVIOUS
<1>1. CASE \E c \in Clients : CallStep(c)
  <2>1. PICK c \in Clients : CallStep(c)
    BY <1>1
  <2>2. TypeOK' /\ StoredInv' /\ OnlyStoredRoutes'
    BY <2>1, CallTypeStep
  <2>3. \A d \in Clients : CallFine(d)'
    BY <2>1, OwnCall, OtherCalls
  <2>4. QED
    BY <2>2, <2>3 DEF DirectInv, CallInv
<1>2. CASE \/ \E m \in Migrators : Set(m) \/ Local(m) \/ Publish(m)
           \/ \E s \in Endpoints : Deliver(s)
           \/ Deadline
  BY <1>2, SetStep, LocalStep, PublishStep, DeliverStep, DeadlineStep
<1>3. CASE UNCHANGED vars
  <2>1. UNCHANGED <<storeVars, serverVars, migratorVars, callVars, history>>
    BY <1>3 DEF vars
  <2>2. TypeOK' /\ StoredInv' /\ OnlyStoredRoutes'
    BY <2>1 DEF DirectInv, TypeOK, StoreTypeOK, StoredInv, OnlyStoredRoutes, storeVars, serverVars,
                migratorVars, callVars, history
  <2>3. CallInv'
    BY <2>1, CallsKept DEF DirectInv, storeVars, history
  <2>4. QED
    BY <2>2, <2>3 DEF DirectInv
<1>4. QED
  BY <1>1, <1>2, <1>3 DEF Next, CallStep

LEMMA DirectAlways == Spec => []DirectInv
BY InitDirect, DirectStep, PTL DEF Spec

(***************************************************************************)
(* Caches, routing tables and announced migrations name only endpoints     *)
(* that have been the stored route, whoever sets it and whatever of it     *)
(* gets lost (sdk/server/sdk.go:229-238).                                  *)
(***************************************************************************)
THEOREM NoForeignRoutes == Spec => []OnlyStoredRoutes
<1>1. DirectInv => OnlyStoredRoutes
  BY DEF DirectInv
<1>2. QED
  BY DirectAlways, <1>1, PTL

(***************************************************************************)
(* A call whose first attempt went to the stored route, which did not      *)
(* change meanwhile, does not fail with ErrMaxRetries, whatever the tables *)
(* held and the messages did (sdk/server/sdk.go:113).                      *)
(***************************************************************************)
THEOREM OwnersReachable == Spec => []OwnerReachable
<1>1. DirectInv => OwnerReachable
  BY DEF DirectInv, CallInv, CallFine, OwnerReachable
<1>2. QED
  BY DirectAlways, <1>1, PTL

(***************************************************************************)
(* The table alone does not accept an attempt that the server was told it  *)
(* had just rejected: the store did, during the call.                      *)
(***************************************************************************)
THEOREM RetriesReadStore == Spec => []RetryReadsStore
<1>1. DirectInv => RetryReadsStore
  BY DEF DirectInv, CallInv, CallFine, RetryReadsStore
<1>2. QED
  BY DirectAlways, <1>1, PTL

(***************************************************************************)
(* After a rejection the cache holds a route stored during the call, or    *)
(* none (NotifyRetry).                                                     *)
(***************************************************************************)
THEOREM RetryCachesFresh == Spec => []RetryCacheFresh
<1>1. DirectInv => RetryCacheFresh
  BY DEF DirectInv, CallInv, CallFine, RetryCacheFresh
<1>2. QED
  BY DirectAlways, <1>1, PTL

-----------------------------------------------------------------------------
(***************************************************************************)
(* One migrator at a time.  By a message, a table comes to name its own    *)
(* server only if it is a migration to it, ...                             *)
(***************************************************************************)
LEMMA MigrationEffect ==
    ASSUME TypeOK, NEW s, NEW from, NEW to, onMigration(s, from, to),
           NEW q \in Endpoints, table'[q] = q, q \notin overtaken'
    PROVE  (table[q] = q /\ q \notin overtaken) \/ (q = s /\ from # to /\ to = q)
<1>1. CASE from = s
  BY <1>1, NoRouteAssumption DEF onMigration, TypeOK
<1>2. CASE from # s
  BY <1>2 DEF onMigration, TypeOK
<1>3. QED
  BY <1>1, <1>2

(* ... and loses it by the first message that is about the server. *)
LEMMA ConcernEffect ==
    ASSUME TypeOK, NEW s \in Endpoints, NEW msg \in Message, onMigration(s, msg.from, msg.to),
           Concerns(s, msg), table'[s] = s
    PROVE  msg.to = s
<1>1. CASE msg.from = s
  <2>1. table'[s] = NoRoute
    BY <1>1 DEF onMigration, TypeOK, Concerns
  <2>2. QED
    BY <2>1, NoRouteAssumption
<1>2. CASE msg.from # s
  BY <1>2 DEF Concerns
<1>3. QED
  BY <1>1, <1>2

(* With one migrator, the holders are the route and what it has replaced. *)
LEMMA OneMigrator ==
    ASSUME Sequential, NEW m \in Migrators
    PROVE  Holders = IF mig[m].at = "idle" THEN {route} ELSE {route, mig[m].from}
<1>1. \A n \in Migrators : n = m
  BY DEF Sequential
<1>2. QED
  BY <1>1 DEF Holders

(* A new route is told to the server of the old one, which stays a holder. *)
LEMMA OwnedSet ==
    ASSUME Sequential, DirectInv, OwnedInv, NEW m \in Migrators, Set(m)
    PROVE  OwnedInv'
<1> USE DEF DirectInv
<1>1. PICK endpoint \in Endpoints, old \in Routes, timeout \in Timeouts :
          /\ SetCustomRoute(endpoint, old, timeout)
          /\ \/ mig' = IF old # NoRoute /\ RealOld(old) = NoRoute
                       THEN [mig EXCEPT ![m] =
                               [at |-> IF Site[m] = NoRoute THEN "publish" ELSE "local",
                                from |-> old, to |-> endpoint]]
                       ELSE mig
             \/ StoreFails /\ mig' = mig
  BY DEF Set
<1>8. mig' = IF old # NoRoute /\ RealOld(old) = NoRoute
             THEN [mig EXCEPT ![m] =
                     [at |-> IF Site[m] = NoRoute THEN "publish" ELSE "local",
                      from |-> old, to |-> endpoint]]
             ELSE mig
  BY <1>1 DEF Sequential
<1>2. timeout = "perm"
  BY DEF Timeouts, Sequential
<1>3. /\ mig[m].at = "idle" /\ UNCHANGED <<table, inbox, overtaken>>
      /\ \A n \in Migrators : n = m
  BY DEF Set, serverVars, Sequential
<1>4. Holders = {route}
  BY <1>3, OneMigrator
<1>5. CASE ~Inserts(old)
  <2>1. UNCHANGED <<route, ddl>>
    BY <1>1, <1>5 DEF SetCustomRoute, storeVars
  <2>2. ddl # "past" /\ route \in Endpoints /\ Existing = route
    BY <1>5 DEF Inserts, Existing, StoredInv, TypeOK, StoreTypeOK
  <2>3. RealOld(old) # NoRoute
    BY <1>5, <2>2, LuaAssumption, NoRouteAssumption DEF RealOld
  <2>4. mig' = mig
    BY <1>8, <2>3
  <2>5. Holders' = Holders
    BY <2>1, <2>4 DEF Holders
  <2>6. QED
    BY <1>3, <2>1, <2>4, <2>5 DEF OwnedInv
<1>6. CASE Inserts(old)
  <2>1. route' = endpoint /\ ddl' = "perm"
    BY <1>1, <1>2, <1>6 DEF SetCustomRoute
  <2>2. \A n \in Migrators : mig'[n].at # "idle" => mig'[n].to = route'
    BY <1>3, <1>8, <2>1 DEF TypeOK
  <2>3. route = NoRoute \/ (route = old /\ old # NoRoute)
    <3>1. CASE ddl = "past"
      BY <3>1 DEF OwnedInv
    <3>2. CASE ddl # "past"
      <4>1. route \in Endpoints /\ Existing = route
        BY <3>2 DEF Existing, StoredInv, TypeOK, StoreTypeOK
      <4>2. QED
        BY <1>6, <4>1, LuaAssumption DEF Inserts
    <3>3. QED
      BY <3>1, <3>2
  <2>4. ASSUME NEW s \in Endpoints, s \in Holders PROVE s \in Holders'
    <3>1. s = old /\ old # NoRoute
      BY <1>4, <2>3, <2>4, NoRouteAssumption
    <3>2. RealOld(old) = NoRoute
      BY <1>6 DEF RealOld
    <3>3. mig'[m].at # "idle" /\ mig'[m].from = s
      BY <1>8, <3>1, <3>2 DEF TypeOK
    <3>4. QED
      BY <3>3 DEF Holders
  <2>5. QED
    BY <1>3, <2>1, <2>2, <2>4 DEF OwnedInv
<1>7. QED
  BY <1>5, <1>6

(* The migrator's own server takes the migration before the others. *)
LEMMA OwnedLocal ==
    ASSUME Sequential, DirectInv, OwnedInv, NEW m \in Migrators, Local(m)
    PROVE  OwnedInv'
<1> USE DEF DirectInv
<1>1. /\ mig[m].at = "local" /\ mig[m].to = route
      /\ onMigration(Site[m], mig[m].from, mig[m].to)
      /\ mig' = [mig EXCEPT ![m].at = "publish"]
      /\ UNCHANGED <<route, ddl, inbox>>
      /\ \A n \in Migrators : n = m
  BY DEF Local, storeVars, OwnedInv, Sequential
<1>2. mig'[m].at = "publish" /\ mig'[m].from = mig[m].from /\ mig'[m].to = mig[m].to
  BY <1>1 DEF TypeOK
<1>3. Holders' = Holders /\ route \in Holders
  BY <1>1, <1>2 DEF Holders
<1>4. ASSUME NEW s \in Endpoints, table'[s] = s, s \notin overtaken'
      PROVE  (table[s] = s /\ s \notin overtaken) \/ s \in Holders
  BY <1>1, <1>3, <1>4, MigrationEffect
<1>5. QED
  BY <1>1, <1>2, <1>3, <1>4 DEF OwnedInv

(* NotifyMigration: the replaced server is no longer a holder, and the     *)
(* last message in its inbox that is about it says so.                     *)
LEMMA OwnedPublish ==
    ASSUME Sequential, DirectInv, OwnedInv, NEW m \in Migrators, Publish(m)
    PROVE  OwnedInv'
<1> USE DEF DirectInv
<1> DEFINE msg == [from |-> mig[m].from, to |-> mig[m].to]
<1>1. /\ mig[m].at = "publish" /\ mig[m].to = route
      /\ mig' = [mig EXCEPT ![m] = Idle]
      /\ UNCHANGED <<route, ddl, table, overtaken>>
      /\ \A n \in Migrators : n = m
  BY DEF Publish, storeVars, OwnedInv, Sequential
<1>2. Holders = {route, msg.from} /\ msg.to = route
  BY <1>1, OneMigrator
<1>3. mig'[m].at = "idle"
  BY <1>1 DEF TypeOK, Idle
<1>4. route \in Holders'
  BY <1>1 DEF Holders
<1>5. ASSUME NEW s \in Endpoints
      PROVE  /\ Len(inbox[s]) \in Nat /\ Len(inbox'[s]) = Len(inbox[s]) + 1
             /\ \A i \in 1..Len(inbox[s]) : inbox'[s][i] = inbox[s][i]
             /\ inbox'[s][Len(inbox[s]) + 1] = msg
  <2>1. inbox[s] \in Seq(Message) /\ Len(inbox'[s]) = Len(inbox[s]) + 1
    BY PublishShape DEF TypeOK, Sequential
  <2>2. Len(inbox[s]) \in Nat
    BY <2>1
  <2>3. inbox'[s] # inbox[s]
    BY <2>1, <2>2
  <2>4. QED
    BY <2>1, <2>2, <2>3, PublishShape, Zenon
<1> HIDE DEF msg
<1>6. ASSUME NEW s \in Endpoints, ~Concerns(s, msg), s \in Holders PROVE s = route
  BY <1>2, <1>6 DEF Concerns
<1>7. ASSUME NEW s \in Endpoints, NEW i \in 1..Len(inbox'[s]),
             LastConcern(inbox'[s], i, s), inbox'[s][i].to = s
      PROVE  s = route
  <2>1. i \in 1..Len(inbox[s]) \/ i = Len(inbox[s]) + 1
    BY <1>5
  <2>2. CASE i = Len(inbox[s]) + 1
    BY <1>2, <1>5, <1>7, <2>2
  <2>3. CASE i \in 1..Len(inbox[s])
    <3>1. ~Concerns(s, msg)
      BY <1>5, <1>7, <2>3 DEF LastConcern
    <3>2. LastConcern(inbox[s], i, s) /\ inbox[s][i].to = s
      BY <1>5, <1>7, <2>3 DEF LastConcern
    <3>3. s \in Holders
      BY <2>3, <3>2 DEF OwnedInv
    <3>4. QED
      BY <1>6, <3>1, <3>3
  <2>4. QED
    BY <2>1, <2>2, <2>3
<1>8. ASSUME NEW s \in Endpoints, \A i \in 1..Len(inbox'[s]) : ~Concerns(s, inbox'[s][i]),
             table'[s] = s, s \notin overtaken'
      PROVE  s = route
  <2>1. /\ \A i \in 1..Len(inbox[s]) : ~Concerns(s, inbox[s][i])
        /\ ~Concerns(s, msg)
    BY <1>5, <1>8
  <2>2. s \in Holders
    BY <1>1, <1>8, <2>1 DEF OwnedInv
  <2>3. QED
    BY <1>6, <2>1, <2>2
<1>9. QED
  BY <1>1, <1>3, <1>4, <1>7, <1>8 DEF OwnedInv

(* A message that is handled leaves the one that counts where it is, or is *)
(* the last that counts, and then the table says what it said.             *)
LEMMA OwnedDeliver ==
    ASSUME DirectInv, OwnedInv, NEW s \in Endpoints, Deliver(s)
    PROVE  OwnedInv'
<1> USE DEF DirectInv
<1> DEFINE q == inbox[s]
           t == Tail(q)
<1>1. /\ 1 \in 1..Len(q) /\ q[1] \in Message /\ t \in Seq(Message)
      /\ onMigration(s, q[1].from, q[1].to)
      /\ inbox' = [inbox EXCEPT ![s] = t]
      /\ \A i \in 1..Len(t) : t[i] = q[i + 1] /\ i + 1 \in 1..Len(q)
      /\ \A j \in 1..Len(q) : j = 1 \/ \E i \in 1..Len(t) : j = i + 1
      /\ UNCHANGED <<route, ddl, mig>>
  BY DeliverShape
<1>2. Holders' = Holders
  BY <1>1 DEF Holders
<1>3. inbox'[s] = t
  BY <1>1 DEF TypeOK
<1> HIDE DEF t
<1>4. ASSUME NEW i \in 1..Len(t), LastConcern(t, i, s) PROVE LastConcern(q, i + 1, s)
  <2>1. Concerns(s, q[i + 1])
    BY <1>1, <1>4 DEF LastConcern
  <2>2. ASSUME NEW j \in 1..Len(q), Concerns(s, q[j]) PROVE j <= i + 1
    <3>1. CASE j = 1
      BY <3>1
    <3>2. CASE j # 1
      <4>1. PICK k \in 1..Len(t) : j = k + 1
        BY <1>1, <3>2
      <4>2. k <= i
        BY <1>1, <1>4, <2>2, <4>1 DEF LastConcern
      <4>3. QED
        BY <4>1, <4>2
    <3>3. QED
      BY <3>1, <3>2
  <2>3. QED
    BY <2>1, <2>2 DEF LastConcern
<1>5. ASSUME NEW i \in 1..Len(t), LastConcern(t, i, s), t[i].to = s PROVE s \in Holders
  <2>1. LastConcern(q, i + 1, s) /\ q[i + 1].to = s /\ i + 1 \in 1..Len(q)
    BY <1>1, <1>4, <1>5
  <2>2. QED
    BY <2>1 DEF OwnedInv
<1>6. ASSUME \A i \in 1..Len(t) : ~Concerns(s, t[i]), table'[s] = s, s \notin overtaken'
      PROVE  s \in Holders
  <2>1. \A j \in 1..Len(q) : j = 1 \/ ~Concerns(s, q[j])
    BY <1>1, <1>6
  <2>2. CASE Concerns(s, q[1])
    <3>1. q[1].to = s
      BY <1>1, <1>6, <2>2, ConcernEffect
    <3>2. LastConcern(q, 1, s)
      BY <1>1, <2>1, <2>2 DEF LastConcern
    <3>3. QED
      BY <1>1, <3>1, <3>2 DEF OwnedInv
  <2>3. CASE ~Concerns(s, q[1])
    <3>1. table[s] = s /\ s \notin overtaken
      BY <1>1, <1>6, <2>3, MigrationEffect DEF Concerns
    <3>2. QED
      BY <2>1, <2>3, <3>1 DEF OwnedInv
  <2>4. QED
    BY <2>2, <2>3
<1>7. ASSUME NEW r \in Endpoints, r # s
      PROVE  /\ inbox'[r] = inbox[r]
             /\ table'[r] = r /\ r \notin overtaken' => table[r] = r /\ r \notin overtaken
  <2>1. inbox'[r] = inbox[r]
    BY <1>1, <1>7 DEF TypeOK
  <2>2. table'[r] = r /\ r \notin overtaken' => table[r] = r /\ r \notin overtaken
    BY <1>1, <1>7, MigrationEffect
  <2>3. QED
    BY <2>1, <2>2
<1>8. ASSUME NEW r \in Endpoints
      PROVE  /\ \A i \in 1..Len(inbox'[r]) :
                   LastConcern(inbox'[r], i, r) /\ inbox'[r][i].to = r => r \in Holders
             /\ (\A i \in 1..Len(inbox'[r]) : ~Concerns(r, inbox'[r][i])) /\ table'[r] = r
                   => r \in Holders \cup overtaken'
  <2>1. CASE r = s
    BY <1>3, <1>5, <1>6, <2>1
  <2>2. CASE r # s
    BY <1>7, <2>2 DEF OwnedInv
  <2>3. QED
    BY <2>1, <2>2
<1>9. QED
  BY <1>1, <1>2, <1>8 DEF OwnedInv

(***************************************************************************)
(* Of the steps of a call only RefreshAdd writes a table: it writes the    *)
(* stored route, or it has been overtaken and is recorded as such.         *)
(***************************************************************************)
LEMMA OwnedCall ==
    ASSUME DirectInv, OwnedInv, NEW c \in Clients, CallStep(c)
    PROVE  OwnedInv'
<1> USE DEF DirectInv
<1>1. UNCHANGED <<route, ddl, inbox, mig>>
  BY CallFrame
<1>2. Holders' = Holders /\ route \in Holders
  BY <1>1 DEF Holders
<1>3. CASE UNCHANGED <<table, overtaken>>
  BY <1>1, <1>2, <1>3 DEF OwnedInv
<1>4. CASE RefreshAdd(c)
  <2>1. /\ table' = [table EXCEPT ![target[c]] = expect[c]]
        /\ overtaken' = IF expect[c] = route THEN overtaken \ {target[c]}
                        ELSE overtaken \cup {target[c]}
    BY <1>4 DEF RefreshAdd
  <2>2. ASSUME NEW s \in Endpoints, table'[s] = s, s \notin overtaken'
        PROVE  s \in Holders \/ (table[s] = s /\ s \notin overtaken)
    <3>1. CASE s = target[c]
      <4>1. expect[c] = route
        BY <2>1, <2>2, <3>1
      <4>2. table'[s] = expect[c]
        BY <2>1, <3>1 DEF TypeOK
      <4>3. QED
        BY <1>2, <2>2, <4>1, <4>2
    <3>2. CASE s # target[c]
      BY <2>1, <2>2, <3>2 DEF TypeOK
    <3>3. QED
      BY <3>1, <3>2
  <2>3. QED
    BY <1>1, <1>2, <2>2 DEF OwnedInv
<1>5. RefreshAdd(c) \/ UNCHANGED <<table, overtaken>>
  BY DEF CallStep, Call, Begin, Evict, Route, RouteFails, Resend, GetRoute, RefreshRead, NotifyRetry,
         serverVars
<1>6. QED
  BY <1>3, <1>4, <1>5

LEMMA OwnedStep == Sequential /\ DirectInv /\ OwnedInv /\ [Next]_vars => OwnedInv'
<1> SUFFICES ASSUME Sequential, DirectInv, OwnedInv, [Next]_vars PROVE OwnedInv'
  OBVIOUS
<1>1. CASE Deadline
  BY <1>1 DEF Deadline, Expire, OwnedInv
<1>2. CASE UNCHANGED vars
  <2>1. UNCHANGED <<route, ddl, table, inbox, overtaken, mig>>
    BY <1>2 DEF vars, storeVars, serverVars, migratorVars
  <2>2. Holders' = Holders
    BY <2>1 DEF Holders
  <2>3. QED
    BY <2>1, <2>2 DEF OwnedInv
<1>3. CASE \E c \in Clients : CallStep(c)
  BY <1>3, OwnedCall
<1>4. QED
  BY <1>1, <1>2, <1>3, OwnedSet, OwnedLocal, OwnedPublish, OwnedDeliver DEF Next, CallStep

(***************************************************************************)
(* If one goroutine sets the route at a time, no command to Redis and no   *)
(* message is lost and no route expires, then whatever the clients call, a *)
(* server whose table names itself is the stored route once nothing is     *)
(* under way (sdk/server/sdk.go:113), unless the entry was added by a      *)
(* Refresh that a migration overtook between its read and its write        *)
(* (routing_table.go:53-58).  Two concurrent SetCustomRoute calls can      *)
(* break it: their announcements are published after, and not in the order *)
(* of, their scripts.                                                      *)
(***************************************************************************)
THEOREM OneOwner == ASSUME Sequential PROVE Spec => []SingleOwner
<1>1. Init => OwnedInv
  BY NoRouteAssumption DEF Init, StoreInit, OwnedInv, Idle, Holders
<1>2. DirectInv /\ OwnedInv /\ [Next]_vars => OwnedInv'
  BY OwnedStep
<1>3. OwnedInv => SingleOwner
  <2> SUFFICES ASSUME OwnedInv, Quiescent, NEW s \in Endpoints, table[s] = s, s \notin overtaken
               PROVE  route = s
    BY DEF SingleOwner
  <2>1. \A i \in 1..Len(inbox[s]) : ~Concerns(s, inbox[s][i])
    BY DEF Quiescent
  <2>2. s \in Holders
    BY <2>1 DEF OwnedInv
  <2>3. QED
    BY <2>2 DEF Holders, Quiescent
<1>4. QED
  BY <1>1, <1>2, <1>3, DirectAlways, PTL DEF Spec

-----------------------------------------------------------------------------
(***************************************************************************)
(* The custom route by itself, under any sequence of calls of the store's  *)
(* operations: the specification is CustomRouteClients.                    *)
(***************************************************************************)

(***************************************************************************)
(* What the script decides on while a permanent route is stored: it writes *)
(* only for a caller that names that route (impl.go:492-504).              *)
(***************************************************************************)
LEMMA PermanentInserts ==
    ASSUME ClientsTypeOK, ddl = "perm", route # NoRoute,
           NEW old \in Endpoints \cup {NoRoute}, Inserts(old)
    PROVE  old = route
<1>1. route \in Endpoints
  BY DEF ClientsTypeOK, StoreTypeOK
<1>2. Existing = route
  BY DEF Existing
<1>3. Existing # LuaNil
  BY <1>1, <1>2, LuaAssumption DEF LuaNil
<1>4. QED
  BY <1>2, <1>3 DEF Inserts

(* The answer of the script, as Go returns it, is an endpoint or nil. *)
LEMMA RealOldType ==
    ASSUME ClientsTypeOK, NEW old \in Endpoints \cup {NoRoute}
    PROVE  RealOld(old) \in Endpoints \cup {NoRoute}
<1>1. CASE Inserts(old) \/ Existing = LuaFalse
  BY <1>1 DEF RealOld
<1>2. CASE ~Inserts(old) /\ Existing # LuaFalse
  <2>1. Existing = route
    BY <1>2 DEF Existing, Inserts
  <2>2. QED
    BY <1>2, <2>1 DEF RealOld, ClientsTypeOK, StoreTypeOK
<1>3. QED
  BY <1>1, <1>2

LEMMA StoreStep == ClientsTypeOK /\ [ClientsNext]_clientVars => ClientsTypeOK'
<1> SUFFICES ASSUME ClientsTypeOK, [ClientsNext]_clientVars PROVE ClientsTypeOK'
  OBVIOUS
<1>1. CASE SetCall
  <2>1. PICK endpoint \in Endpoints, old \in Endpoints \cup {NoRoute},
             timeout \in Timeouts :
           /\ SetCustomRoute(endpoint, old, timeout)
           /\ Told("set", endpoint, old, RealOld(old))
    BY <1>1 DEF SetCall
  <2>2. timeout \in {"past", "live", "perm"}
    BY DEF Timeouts
  <2>3. StoreTypeOK'
    BY <2>1, <2>2 DEF SetCustomRoute, storeVars, ClientsTypeOK, StoreTypeOK
  <2>4. QED
    BY <2>1, <2>3, RealOldType DEF ClientsTypeOK, Told
<1>2. CASE GetCall
  BY <1>2 DEF GetCall, Told, GetCustomRoute, ClientsTypeOK, StoreTypeOK, storeVars
<1>3. CASE RemoveCall
  BY <1>3 DEF RemoveCall, RemoveCustomRoute, Told, ClientsTypeOK, StoreTypeOK
<1>4. CASE TimePasses
  BY <1>4 DEF TimePasses, Expire, Told, ClientsTypeOK, StoreTypeOK
<1>5. CASE UNCHANGED clientVars
  BY <1>5 DEF clientVars, storeVars, ClientsTypeOK, StoreTypeOK
<1>6. QED
  BY <1>1, <1>2, <1>3, <1>4, <1>5 DEF ClientsNext

(* The stored route, its deadline and every answer keep their types. *)
THEOREM CustomRouteTypes == ClientsSpec => []ClientsTypeOK
<1>1. ClientsInit => ClientsTypeOK
  BY DEF ClientsInit, StoreInit, ClientsTypeOK, StoreTypeOK
<1>2. QED
  BY <1>1, StoreStep, PTL DEF ClientsSpec

(***************************************************************************)
(* A permanent route changes hands only to a caller that named it as the   *)
(* old value, or is removed: the compare-and-set of the Lua script, for    *)
(* every set of endpoints and any sequence of calls and expiries.          *)
(***************************************************************************)
THEOREM PermanentRouteKept == ClientsSpec => PermanentNeedsConsent
<1> DEFINE Kept == ddl = "perm" /\ route # NoRoute /\ route' # route
                     => last'.old = route \/ last'.op = "remove"
<1>1. ClientsTypeOK /\ [ClientsNext]_clientVars => [Kept]_clientVars
  <2> SUFFICES ASSUME ClientsTypeOK, ClientsNext, ddl = "perm", route # NoRoute, route' # route
               PROVE  last'.old = route \/ last'.op = "remove"
    OBVIOUS
  <2>1. CASE SetCall
    <3>1. PICK endpoint \in Endpoints, old \in Endpoints \cup {NoRoute},
               timeout \in Timeouts :
             /\ SetCustomRoute(endpoint, old, timeout)
             /\ Told("set", endpoint, old, RealOld(old))
      BY <2>1 DEF SetCall
    <3>2. Inserts(old)
      BY <3>1 DEF SetCustomRoute, storeVars
    <3>3. old = route
      BY <3>2, PermanentInserts
    <3>4. QED
      BY <3>1, <3>3 DEF Told
  <2>2. CASE GetCall
    BY <2>2 DEF GetCall, storeVars
  <2>3. CASE RemoveCall
    BY <2>3 DEF RemoveCall, Told
  <2>4. CASE TimePasses
    BY <2>4 DEF TimePasses, Expire
  <2>5. QED
    BY <2>1, <2>2, <2>3, <2>4 DEF ClientsNext
<1>2. QED
  BY <1>1, CustomRouteTypes, PTL DEF ClientsSpec, PermanentNeedsConsent
=============================================================================
