--------------------------- MODULE RegistryProofs ---------------------------
(***************************************************************************)
(* Proofs about Registry, for any pods, clients and leases: that a client  *)
(* which follows the watch has a healthy pod, hangs a dead one and drops   *)
(* one that unregistered.                                                  *)
(***************************************************************************)
EXTENDS Registry, TLAPS

-----------------------------------------------------------------------------
(***************************************************************************)
(* The inductive invariants.  A client that has not handled its queue is   *)
(* behind; what it will have seen of a pod is told by the last event of    *)
(* the pod in the queue, and by its view if there is none.                 *)
(***************************************************************************)
Tells(c, p) == stage[c] # "start" /\ known[c] /\ p \notin missed[c]

IsOf(e, p) == e.pod = p
IsDataOf(e, p) == e.pod = p /\ e.kind # "leaseDeleted"

Last(q, i, p) == IsOf(q[i], p) /\ \A j \in 1..Len(q) : IsOf(q[j], p) => j <= i
LastData(q, i, p) == IsDataOf(q[i], p) /\ \A j \in 1..Len(q) : IsDataOf(q[j], p) => j <= i

(* The data key as the client will have seen it. *)
DataInv ==
    \A c \in Clients, p \in Pods : Tells(c, p) =>
        /\ \A i \in 1..Len(queue[c]) :
              LastData(queue[c], i, p) => (queue[c][i].kind = "dataPut" <=> data[p])
        /\ (\A i \in 1..Len(queue[c]) : ~IsDataOf(queue[c][i], p))
              => (view[c][p] # "absent" <=> data[p])

(* A registration that succeeded and whose lease holds. *)
Healthy(p) == answer[p] = "ok" /\ entry[p] \in leases[p]

(* The lease of a healthy pod is the one of its lease key. *)
HealthyInv ==
    \A p \in Pods :
        /\ answer[p] = "ok" => at[p] = "idle"
        /\ at[p] = "putData" /\ entry[p] \in leases[p] => leaseKey[p] = entry[p]
        /\ Healthy(p) => leaseKey[p] = entry[p] /\ data[p]

(* The lease key as the client will have seen it. *)
LeaseInv ==
    \A c \in Clients, p \in Pods : Tells(c, p) =>
        /\ \A i \in 1..Len(queue[c]) : Last(queue[c], i, p) =>
              IF queue[c][i].kind = "dataPut" THEN leaseKey[p] = 0 => p \in latePut
                                              ELSE ~Healthy(p)
        /\ (\A i \in 1..Len(queue[c]) : ~IsOf(queue[c][i], p)) =>
              IF view[c][p] = "up" THEN leaseKey[p] = 0 => p \in latePut \/ p \in lateLoad[c]
                                   ELSE ~Healthy(p)

QueueInv == \A c \in Clients : stage[c] # "watching" => queue[c] = <<>>

RegistryInv == TypeOK /\ QueueInv /\ HealthyInv /\ DataInv /\ LeaseInv

Kinds == {"dataPut", "dataDeleted", "leaseDeleted"}

-----------------------------------------------------------------------------
(* The state in which no client has loaded the service. *)
LEMMA InitRegistry == Init => RegistryInv
<1> SUFFICES ASSUME Init PROVE RegistryInv
  OBVIOUS
<1>1. TypeOK
  BY MaxLeasesAssumption DEF Init, TypeOK
<1>2. QueueInv /\ HealthyInv
  BY DEF Init, QueueInv, HealthyInv, Healthy
<1>3. DataInv /\ LeaseInv
  BY DEF Init, DataInv, LeaseInv, Tells
<1>4. QED
  BY <1>1, <1>2, <1>3 DEF RegistryInv

(* An event reaches the clients that watch, at the end of their queues,    *)
(* and is missed by those that have loaded the service only.               *)
LEMMA EventShape ==
    ASSUME TypeOK, QueueInv, NEW kind \in Kinds, NEW r \in Pods, Event(kind, r),
           UNCHANGED clientVars,
           NEW c \in Clients, NEW p \in Pods, Tells(c, p)'
    PROVE  /\ Tells(c, p)
           /\ view'[c] = view[c] /\ lateLoad'[c] = lateLoad[c]
           /\ \/ stage[c] = "loaded" /\ p # r /\ queue'[c] = queue[c]
              \/ /\ stage[c] = "watching"
                 /\ queue'[c] = Append(queue[c], [kind |-> kind, pod |-> r])
<1>1. /\ UNCHANGED <<stage, known, view, lateLoad>>
      /\ queue'[c] = IF stage[c] = "watching"
                     THEN Append(queue[c], [kind |-> kind, pod |-> r]) ELSE queue[c]
      /\ missed'[c] = IF stage[c] = "loaded" THEN missed[c] \cup {r} ELSE missed[c]
  BY DEF Event, clientVars
<1>2. QED
  BY <1>1 DEF TypeOK, Tells

(* The type of the queues after an event. *)
LEMMA EventType ==
    ASSUME TypeOK, QueueInv, NEW kind \in Kinds, NEW r \in Pods, Event(kind, r), UNCHANGED stage
    PROVE  /\ queue' \in [Clients -> Seq([kind : Kinds, pod : Pods])]
           /\ missed' \in [Clients -> SUBSET Pods]
           /\ QueueInv'
<1>1. [kind |-> kind, pod |-> r] \in [kind : Kinds, pod : Pods]
  OBVIOUS
<1>2. queue' \in [Clients -> Seq([kind : Kinds, pod : Pods])]
  <2>1. \A c \in Clients : queue[c] \in Seq([kind : Kinds, pod : Pods])
    BY DEF TypeOK, Kinds
  <2>2. \A c \in Clients :
          Append(queue[c], [kind |-> kind, pod |-> r]) \in Seq([kind : Kinds, pod : Pods])
    <3>1. \A S : \A q \in Seq(S), e \in S : Append(q, e) \in Seq(S)
      OBVIOUS
    <3>2. QED
      BY <1>1, <2>1, <3>1
  <2>3. QED
    BY <2>1, <2>2 DEF Event
<1>3. missed' \in [Clients -> SUBSET Pods]
  BY DEF Event, TypeOK
<1>4. QueueInv'
  BY DEF Event, TypeOK, QueueInv
<1>5. QED
  BY <1>2, <1>3, <1>4

(***************************************************************************)
(* What the requests to etcd have in common.  One that sends no event      *)
(* leaves the data keys alone, deletes no lease key, and makes no pod      *)
(* healthy; one that sends an event of pod r says what it did to r.        *)
(***************************************************************************)
LeaseKept(p) ==
    /\ leaseKey'[p] = 0 => leaseKey[p] = 0 /\ (p \in latePut => p \in latePut')
    /\ Healthy(p)' => Healthy(p)

Silent == NoEvent /\ UNCHANGED data /\ \A p \in Pods : LeaseKept(p)

Says(kind, r) ==
    /\ Event(kind, r)
    /\ \A p \in Pods : data'[p] = IF p = r /\ kind # "leaseDeleted" THEN kind = "dataPut"
                                                                   ELSE data[p]
    /\ \A p \in Pods \ {r} : LeaseKept(p)
    /\ IF kind = "dataPut" THEN leaseKey'[r] = 0 => r \in latePut' ELSE ~Healthy(r)'

(* What etcd sends agrees with what it does to the data keys. *)
LEMMA EventData ==
    ASSUME TypeOK, QueueInv, DataInv, NEW kind \in Kinds, NEW r \in Pods, Says(kind, r),
           UNCHANGED clientVars
    PROVE  DataInv'
<1>0. /\ Event(kind, r)
      /\ \A p \in Pods : data'[p] = IF p = r /\ kind # "leaseDeleted" THEN kind = "dataPut"
                                                                     ELSE data[p]
  BY DEF Says
<1> SUFFICES ASSUME NEW c \in Clients, NEW p \in Pods, Tells(c, p)'
             PROVE  /\ \A i \in 1..Len(queue'[c]) :
                         LastData(queue'[c], i, p) => (queue'[c][i].kind = "dataPut" <=> data'[p])
                    /\ (\A i \in 1..Len(queue'[c]) : ~IsDataOf(queue'[c][i], p))
                         => (view'[c][p] # "absent" <=> data'[p])
  BY DEF DataInv, LastData, IsDataOf
<1>1. Tells(c, p) /\ view'[c] = view[c]
  BY <1>0, EventShape
<1>2. CASE queue'[c] = queue[c] /\ p # r
  BY <1>0, <1>1, <1>2 DEF DataInv
<1>3. CASE queue'[c] = Append(queue[c], [kind |-> kind, pod |-> r])
  <2> DEFINE q == queue[c]
             e == [kind |-> kind, pod |-> r]
  <2>1. q \in Seq([kind : Kinds, pod : Pods])
    BY DEF TypeOK, Kinds
  <2>2. /\ Len(Append(q, e)) = Len(q) + 1 /\ Len(q) \in Nat
        /\ \A i \in 1..Len(q) : Append(q, e)[i] = q[i]
        /\ Append(q, e)[Len(q) + 1] = e
    BY <2>1
  <2>6. queue'[c] = Append(q, e)
    BY <1>3
  <2> HIDE DEF q, e
  <2>3. CASE p = r /\ kind # "leaseDeleted"
    <3>1. IsDataOf(e, p) /\ e.kind = kind
      BY <2>3 DEF e, IsDataOf
    <3>2. \A i \in 1..Len(q) : ~LastData(Append(q, e), i, p)
      <4> SUFFICES ASSUME NEW i \in 1..Len(q), LastData(Append(q, e), i, p) PROVE FALSE
        OBVIOUS
      <4>1. Len(q) + 1 \in 1..Len(Append(q, e))
        BY <2>2
      <4>2. Len(q) + 1 <= i
        BY <2>2, <3>1, <4>1 DEF LastData
      <4>3. QED
        BY <2>2, <4>2
    <3>3. QED
      <4>1. data'[p] <=> kind = "dataPut"
        BY <1>0, <2>3
      <4>2. Len(q) + 1 \in 1..Len(Append(q, e)) /\ Append(q, e)[Len(q) + 1] = e
        BY <2>2
      <4>3. \A i \in 1..Len(Append(q, e)) : LastData(Append(q, e), i, p) => i = Len(q) + 1
        BY <2>2, <3>2
      <4>4. QED
        BY <2>6, <3>1, <4>1, <4>2, <4>3
  <2>4. CASE ~(p = r /\ kind # "leaseDeleted")
    <3>1. ~IsDataOf(e, p)
      BY <2>4 DEF e, IsDataOf
    <3>2. \A i \in 1..Len(q) : LastData(Append(q, e), i, p) => LastData(q, i, p)
      BY <2>2, <3>1 DEF LastData
    <3>3. ~LastData(Append(q, e), Len(q) + 1, p)
      BY <2>2, <3>1 DEF LastData
    <3>4. (\A i \in 1..Len(Append(q, e)) : ~IsDataOf(Append(q, e)[i], p)) =>
             \A i \in 1..Len(q) : ~IsDataOf(q[i], p)
      BY <2>2
    <3>5. data'[p] = data[p]
      BY <1>0, <2>4
    <3>6. QED
      BY <1>1, <2>2, <2>6, <3>2, <3>3, <3>4, <3>5 DEF q, DataInv
  <2>5. QED
    BY <2>3, <2>4
<1>4. QED
  BY <1>0, <1>2, <1>3, EventShape

(* A request that causes no event changes no data key the client follows. *)
LEMMA NoEventData ==
    ASSUME DataInv, Silent, UNCHANGED clientVars
    PROVE  DataInv'
BY DEF DataInv, Silent, NoEvent, clientVars, Tells, LastData, IsDataOf

(* A lease key that goes is the last a client hears of its pod, until the  *)
(* pod's data is put again.                                                *)
LEMMA EventLease ==
    ASSUME TypeOK, QueueInv, LeaseInv, NEW kind \in Kinds, NEW r \in Pods, Says(kind, r),
           UNCHANGED clientVars
    PROVE  LeaseInv'
<1>0. /\ Event(kind, r)
      /\ \A p \in Pods \ {r} : LeaseKept(p)
      /\ IF kind = "dataPut" THEN leaseKey'[r] = 0 => r \in latePut' ELSE ~Healthy(r)'
  BY DEF Says
<1> SUFFICES ASSUME NEW c \in Clients, NEW p \in Pods, Tells(c, p)'
             PROVE  /\ \A i \in 1..Len(queue'[c]) : Last(queue'[c], i, p) =>
                         IF queue'[c][i].kind = "dataPut" THEN leaseKey'[p] = 0 => p \in latePut'
                                                          ELSE ~Healthy(p)'
                    /\ (\A i \in 1..Len(queue'[c]) : ~IsOf(queue'[c][i], p)) =>
                         IF view'[c][p] = "up"
                         THEN leaseKey'[p] = 0 => p \in latePut' \/ p \in lateLoad'[c]
                         ELSE ~Healthy(p)'
  BY DEF LeaseInv, Last, IsOf
<1>1. Tells(c, p) /\ view'[c] = view[c] /\ lateLoad'[c] = lateLoad[c]
  BY <1>0, EventShape
<1>2. CASE queue'[c] = queue[c] /\ p # r
  BY <1>0, <1>1, <1>2 DEF LeaseInv, LeaseKept
<1>3. CASE queue'[c] = Append(queue[c], [kind |-> kind, pod |-> r])
  <2> DEFINE q == queue[c]
             e == [kind |-> kind, pod |-> r]
  <2>1. q \in Seq([kind : Kinds, pod : Pods])
    BY DEF TypeOK, Kinds
  <2>2. /\ Len(Append(q, e)) = Len(q) + 1 /\ Len(q) \in Nat
        /\ \A i \in 1..Len(q) : Append(q, e)[i] = q[i]
        /\ Append(q, e)[Len(q) + 1] = e
    BY <2>1
  <2>3. queue'[c] = Append(q, e)
    BY <1>3
  <2> HIDE DEF q, e
  <2>4. CASE p = r
    <3>1. IsOf(e, p) /\ e.kind = kind
      BY <2>4 DEF e, IsOf
    <3>2. Len(q) + 1 \in 1..Len(Append(q, e)) /\ Append(q, e)[Len(q) + 1] = e
      BY <2>2
    <3>3. \A i \in 1..Len(Append(q, e)) : Last(Append(q, e), i, p) => i = Len(q) + 1
      BY <2>2, <3>1, <3>2 DEF Last
    <3>4. QED
      BY <1>0, <2>3, <2>4, <3>1, <3>2, <3>3
  <2>5. CASE p # r
    <3>1. ~IsOf(e, p)
      BY <2>5 DEF e, IsOf
    <3>2. \A i \in 1..Len(q) : Last(Append(q, e), i, p) => Last(q, i, p)
      BY <2>2, <3>1 DEF Last
    <3>3. ~Last(Append(q, e), Len(q) + 1, p)
      BY <2>2, <3>1 DEF Last
    <3>4. (\A i \in 1..Len(Append(q, e)) : ~IsOf(Append(q, e)[i], p)) =>
             \A i \in 1..Len(q) : ~IsOf(q[i], p)
      BY <2>2
    <3>5. LeaseKept(p)
      BY <1>0, <2>5
    <3>6. QED
      BY <1>1, <2>2, <2>3, <3>2, <3>3, <3>4, <3>5 DEF q, LeaseInv, LeaseKept
  <2>6. QED
    BY <2>4, <2>5
<1>4. QED
  BY <1>0, <1>2, <1>3, EventShape

(* Nothing a client will not hear of makes a pod healthy or takes its      *)
(* lease key away.                                                         *)
LEMMA NoEventLease ==
    ASSUME LeaseInv, Silent, UNCHANGED clientVars
    PROVE  LeaseInv'
<1>1. /\ UNCHANGED <<queue, missed, stage, known, view, lateLoad>>
      /\ \A p \in Pods : LeaseKept(p)
  BY DEF Silent, NoEvent, clientVars
<1>2. QED
  BY <1>1 DEF LeaseInv, LeaseKept, Tells, Last, IsOf

(* The queue after its first event, and the last event of a pod in it. *)
LEMMA TailFacts ==
    ASSUME NEW S, NEW q \in Seq(S), q # <<>>
    PROVE  /\ Len(q) \in Nat \ {0} /\ Len(Tail(q)) = Len(q) - 1
           /\ Head(q) = q[1] /\ Head(q) \in S
           /\ \A i \in 1..Len(Tail(q)) : Tail(q)[i] = q[i + 1] /\ i + 1 \in 1..Len(q)
           /\ \A j \in 1..Len(q) : j = 1 \/ \E i \in 1..Len(Tail(q)) : j = i + 1
<1>1. Len(q) \in Nat \ {0} /\ Len(Tail(q)) = Len(q) - 1
  OBVIOUS
<1>2. Head(q) = q[1] /\ Head(q) \in S
  OBVIOUS
<1>3. \A i \in 1..Len(Tail(q)) : Tail(q)[i] = q[i + 1] /\ i + 1 \in 1..Len(q)
  OBVIOUS
<1>4. ASSUME NEW j \in 1..Len(q), j # 1 PROVE \E i \in 1..Len(Tail(q)) : j = i + 1
  <2>1. j - 1 \in 1..Len(Tail(q)) /\ j = (j - 1) + 1
    BY <1>1, <1>4
  <2>2. QED
    BY <2>1
<1>5. QED
  BY <1>1, <1>2, <1>3, <1>4

LEMMA TailLast ==
    ASSUME NEW S, NEW q \in Seq(S), q # <<>>, NEW p, NEW i \in 1..Len(Tail(q))
    PROVE  /\ Last(Tail(q), i, p) => Last(q, i + 1, p)
           /\ LastData(Tail(q), i, p) => LastData(q, i + 1, p)
<1>1. /\ Tail(q)[i] = q[i + 1] /\ i + 1 \in 1..Len(q)
      /\ \A j \in 1..Len(q) : j = 1 \/ \E k \in 1..Len(Tail(q)) : j = k + 1 /\ Tail(q)[k] = q[j]
  BY TailFacts
<1>2. ASSUME NEW j \in 1..Len(q), \A k \in 1..Len(Tail(q)) : Tail(q)[k] = q[j] => k <= i
      PROVE  j <= i + 1
  BY <1>1, <1>2
<1>3. QED
  BY <1>1, <1>2 DEF Last, LastData

(* The listener brings the view one event closer to the end of the queue.  *)
LEMMA HandleStep ==
    ASSUME RegistryInv, NEW d \in Clients, Handle(d)
    PROVE  QueueInv' /\ DataInv' /\ LeaseInv'
<1> USE DEF RegistryInv
<1>0. /\ UNCHANGED <<etcdVars, podVars, stage, known, missed, lateLoad, latePut>>
      /\ queue' = [queue EXCEPT ![d] = Tail(@)]
      /\ queue[d] # <<>>
  BY DEF Handle
<1>1. /\ UNCHANGED <<data, leaseKey, answer, entry, leases>>
      /\ \A c \in Clients, p \in Pods : Tells(c, p)' <=> Tells(c, p)
  BY <1>0 DEF etcdVars, podVars, Tells
<1>2. QueueInv'
  BY <1>0 DEF QueueInv, TypeOK
<1>3. \A c \in Clients \ {d} : queue'[c] = queue[c] /\ view'[c] = view[c]
  BY <1>0 DEF Handle, TypeOK
<1> DEFINE q == queue[d]
           e == Head(q)
<1>4. queue'[d] = Tail(q)
  BY <1>0 DEF TypeOK
<1>5. q \in Seq([kind : Kinds, pod : Pods]) /\ q # <<>>
  BY <1>0 DEF TypeOK, Kinds
<1>6. /\ e = q[1] /\ 1 \in 1..Len(q) /\ e \in [kind : Kinds, pod : Pods]
      /\ \A i \in 1..Len(Tail(q)) : Tail(q)[i] = q[i + 1] /\ i + 1 \in 1..Len(q)
      /\ \A j \in 1..Len(q) : j = 1 \/ \E i \in 1..Len(Tail(q)) : j = i + 1
  <2> DEFINE S == [kind : Kinds, pod : Pods]
  <2>1. q \in Seq(S)
    BY <1>5
  <2> HIDE DEF S
  <2>2. /\ Len(q) \in Nat \ {0} /\ e = q[1] /\ e \in S
        /\ \A i \in 1..Len(Tail(q)) : Tail(q)[i] = q[i + 1] /\ i + 1 \in 1..Len(q)
        /\ \A j \in 1..Len(q) : j = 1 \/ \E i \in 1..Len(Tail(q)) : j = i + 1
    BY <1>5, <2>1, TailFacts DEF e
  <2>3. 1 \in 1..Len(q)
    BY <2>2
  <2>4. QED
    BY <2>2, <2>3 DEF S
<1>7. known[d] => view'[d] = [view[d] EXCEPT ![e.pod] = After(e, @)]
  BY DEF Handle, TypeOK
<1> HIDE DEF q, e
<1>8. ASSUME NEW p \in Pods, Tells(d, p)
      PROVE  view'[d][p] = IF e.pod = p THEN After(e, view[d][p]) ELSE view[d][p]
  BY <1>7, <1>8, <1>6 DEF TypeOK, Tells
<1>9. DataInv'
  <2> SUFFICES ASSUME NEW c \in Clients, NEW p \in Pods, Tells(c, p)
               PROVE  /\ \A i \in 1..Len(queue'[c]) :
                           LastData(queue'[c], i, p) => (queue'[c][i].kind = "dataPut" <=> data[p])
                      /\ (\A i \in 1..Len(queue'[c]) : ~IsDataOf(queue'[c][i], p))
                           => (view'[c][p] # "absent" <=> data[p])
    BY <1>1 DEF DataInv, LastData, IsDataOf
  <2>1. CASE c # d
    BY <1>3, <2>1 DEF DataInv
  <2>2. CASE c = d
    <3>1. \A i \in 1..Len(Tail(q)) : LastData(Tail(q), i, p) => LastData(q, i + 1, p)
      BY <1>5, TailLast
    <3>4. \A i \in 1..Len(q) : LastData(q, i, p) => (q[i].kind = "dataPut" <=> data[p])
      BY <2>2 DEF q, DataInv
    <3>2. CASE \E i \in 1..Len(Tail(q)) : IsDataOf(Tail(q)[i], p)
      <4>1. \A i \in 1..Len(Tail(q)) : LastData(Tail(q), i, p) => (Tail(q)[i].kind = "dataPut" <=> data[p])
        BY <1>6, <3>1, <3>4
      <4>2. QED
        BY <1>4, <2>2, <3>2, <4>1
    <3>3. CASE \A i \in 1..Len(Tail(q)) : ~IsDataOf(Tail(q)[i], p)
      <4>1. view'[d][p] # "absent" <=> data[p]
        <5>1. CASE IsDataOf(e, p)
          <6>1. LastData(q, 1, p)
            BY <1>6, <3>3, <5>1 DEF LastData
          <6>2. e.kind = "dataPut" <=> data[p]
            BY <1>6, <2>2, <6>1 DEF q, DataInv
          <6>3. view'[d][p] # "absent" <=> e.kind = "dataPut"
            BY <1>6, <1>8, <2>2, <5>1 DEF IsDataOf, After, Kinds
          <6>4. QED
            BY <6>2, <6>3
        <5>2. CASE ~IsDataOf(e, p)
          <6>1. \A i \in 1..Len(q) : ~IsDataOf(q[i], p)
            BY <1>6, <3>3, <5>2
          <6>2. view[d][p] # "absent" <=> data[p]
            BY <2>2, <6>1 DEF q, DataInv
          <6>3. view'[d][p] # "absent" <=> view[d][p] # "absent"
            BY <1>6, <1>8, <2>2, <5>2 DEF IsDataOf, After, Kinds
          <6>4. QED
            BY <6>2, <6>3
        <5>3. QED
          BY <5>1, <5>2
      <4>2. QED
        BY <1>4, <2>2, <3>3, <4>1 DEF q, LastData
    <3>5. QED
      BY <3>2, <3>3
  <2>3. QED
    BY <2>1, <2>2
<1>10. LeaseInv'
  <2> SUFFICES ASSUME NEW c \in Clients, NEW p \in Pods, Tells(c, p)
               PROVE  /\ \A i \in 1..Len(queue'[c]) : Last(queue'[c], i, p) =>
                           IF queue'[c][i].kind = "dataPut" THEN leaseKey[p] = 0 => p \in latePut
                                                            ELSE ~Healthy(p)
                      /\ (\A i \in 1..Len(queue'[c]) : ~IsOf(queue'[c][i], p)) =>
                           IF view'[c][p] = "up"
                           THEN leaseKey[p] = 0 => p \in latePut \/ p \in lateLoad[c]
                           ELSE ~Healthy(p)
    <3>1. \A c \in Clients, p \in Pods : Tells(c, p)' <=> Tells(c, p)
      BY <1>1
    <3>2. \A p \in Pods : Healthy(p)' <=> Healthy(p)
      BY <1>1 DEF Healthy
    <3>3. UNCHANGED <<leaseKey, latePut, lateLoad>>
      BY <1>0, <1>1
    <3>4. \A c \in Clients : \A i, p :
             /\ Last(queue[c], i, p)' <=> Last(queue'[c], i, p)
             /\ IsOf(queue[c][i], p)' <=> IsOf(queue'[c][i], p)
      BY DEF Last, IsOf
    <3>5. QED
      BY <3>1, <3>2, <3>3, <3>4 DEF LeaseInv
  <2>1. CASE c # d
    BY <1>3, <2>1 DEF LeaseInv
  <2>2. CASE c = d
    <3>1. \A i \in 1..Len(Tail(q)) : Last(Tail(q), i, p) => Last(q, i + 1, p)
      BY <1>5, TailLast
    <3>4. \A i \in 1..Len(q) : Last(q, i, p) =>
            IF q[i].kind = "dataPut" THEN leaseKey[p] = 0 => p \in latePut ELSE ~Healthy(p)
      BY <2>2 DEF q, LeaseInv
    <3>2. CASE \E i \in 1..Len(Tail(q)) : IsOf(Tail(q)[i], p)
      <4>1. \A i \in 1..Len(Tail(q)) : Last(Tail(q), i, p) =>
                IF Tail(q)[i].kind = "dataPut" THEN leaseKey[p] = 0 => p \in latePut ELSE ~Healthy(p)
        BY <1>6, <3>1, <3>4
      <4>2. QED
        BY <1>4, <2>2, <3>2, <4>1
    <3>3. CASE \A i \in 1..Len(Tail(q)) : ~IsOf(Tail(q)[i], p)
      <4>1. IF view'[d][p] = "up"
            THEN leaseKey[p] = 0 => p \in latePut \/ p \in lateLoad[d]
            ELSE ~Healthy(p)
        <5>1. CASE IsOf(e, p)
          <6>1. Last(q, 1, p)
            BY <1>6, <3>3, <5>1 DEF Last
          <6>2. IF e.kind = "dataPut" THEN leaseKey[p] = 0 => p \in latePut ELSE ~Healthy(p)
            BY <1>6, <2>2, <6>1 DEF q, LeaseInv
          <6>3. view'[d][p] = "up" <=> e.kind = "dataPut"
            BY <1>6, <1>8, <2>2, <5>1 DEF IsOf, After, Kinds
          <6>4. QED
            BY <6>2, <6>3
        <5>2. CASE ~IsOf(e, p)
          <6>1. \A i \in 1..Len(q) : ~IsOf(q[i], p)
            BY <1>6, <3>3, <5>2
          <6>2. view'[d][p] = view[d][p]
            BY <1>8, <2>2, <5>2 DEF IsOf
          <6>3. QED
            BY <2>2, <6>1, <6>2 DEF q, LeaseInv
        <5>3. QED
          BY <5>1, <5>2
      <4>2. QED
        BY <1>4, <2>2, <3>3, <4>1 DEF q, Last
    <3>5. QED
      BY <3>2, <3>3
  <2>3. QED
    BY <2>1, <2>2
<1>11. QED
  BY <1>2, <1>9, <1>10

(* GetServices takes the data keys as they are, and the pods that have no  *)
(* lease key are noted.                                                    *)
LEMMA LoadStep ==
    ASSUME RegistryInv, NEW d \in Clients, Load(d)
    PROVE  QueueInv' /\ DataInv' /\ LeaseInv'
<1> USE DEF RegistryInv
<1>1. /\ UNCHANGED <<etcdVars, podVars, latePut, queue, missed>>
      /\ queue[d] = <<>>
  BY DEF Load, NoEvent, QueueInv
<1>2. /\ UNCHANGED <<data, leaseKey, answer, entry, leases>>
      /\ \A p \in Pods : Healthy(p) => data[p]
  BY <1>1 DEF etcdVars, podVars, HealthyInv
<1>3. QueueInv'
  BY <1>1 DEF QueueInv, TypeOK, Load
<1>4. \A c \in Clients \ {d} : /\ view'[c] = view[c] /\ lateLoad'[c] = lateLoad[c]
                               /\ \A p \in Pods : Tells(c, p)' <=> Tells(c, p)
  BY <1>1 DEF Load, TypeOK, Tells
<1>5. \A p \in Pods : /\ view'[d][p] = IF data[p] THEN "up" ELSE "absent"
                      /\ p \in lateLoad'[d] <=> data[p] /\ leaseKey[p] = 0
  BY DEF Load, TypeOK
<1>6. DataInv'
  <2>1. ASSUME NEW c \in Clients, NEW p \in Pods, Tells(c, p)'
        PROVE  /\ \A i \in 1..Len(queue[c]) :
                    LastData(queue[c], i, p) => (queue[c][i].kind = "dataPut" <=> data[p])
               /\ (\A i \in 1..Len(queue[c]) : ~IsDataOf(queue[c][i], p))
                    => (view'[c][p] # "absent" <=> data[p])
    <3>1. CASE c = d
      <4>1. \A i \in 1..Len(queue[c]) : FALSE
        BY <1>1, <3>1
      <4>2. QED
        BY <1>5, <3>1, <4>1
    <3>2. CASE c # d
      BY <1>4, <2>1, <3>2 DEF DataInv
    <3>3. QED
      BY <3>1, <3>2
  <2>2. QED
    BY <1>1, <1>2, <2>1 DEF DataInv, LastData, IsDataOf
<1>7. LeaseInv'
  <2>1. ASSUME NEW c \in Clients, NEW p \in Pods, Tells(c, p)'
        PROVE  /\ \A i \in 1..Len(queue[c]) : Last(queue[c], i, p) =>
                    IF queue[c][i].kind = "dataPut" THEN leaseKey[p] = 0 => p \in latePut
                                                    ELSE ~Healthy(p)
               /\ (\A i \in 1..Len(queue[c]) : ~IsOf(queue[c][i], p)) =>
                    IF view'[c][p] = "up"
                    THEN leaseKey[p] = 0 => p \in latePut \/ p \in lateLoad'[c]
                    ELSE ~Healthy(p)
    <3>1. CASE c = d
      <4>1. \A i \in 1..Len(queue[c]) : FALSE
        BY <1>1, <3>1
      <4>2. QED
        BY <1>2, <1>5, <3>1, <4>1
    <3>2. CASE c # d
      BY <1>4, <2>1, <3>2 DEF LeaseInv
    <3>3. QED
      BY <3>1, <3>2
  <2>2. QED
    BY <1>1, <1>2, <2>1 DEF LeaseInv, Last, IsOf, Healthy
<1>8. QED
  BY <1>3, <1>6, <1>7

(* Opening the watch changes nothing the client has seen. *)
LEMMA OpenWatchStep ==
    ASSUME RegistryInv, NEW d \in Clients, OpenWatch(d)
    PROVE  QueueInv' /\ DataInv' /\ LeaseInv'
<1> USE DEF RegistryInv
<1>1. /\ UNCHANGED <<etcdVars, podVars, latePut, queue, missed, view, lateLoad>>
      /\ \A c \in Clients, p \in Pods : Tells(c, p)' <=> Tells(c, p)
  BY DEF OpenWatch, NoEvent, Tells, TypeOK
<1>2. UNCHANGED <<data, leaseKey, answer, entry, leases>>
  BY <1>1 DEF etcdVars, podVars
<1>3. QueueInv'
  BY <1>1 DEF QueueInv, OpenWatch, TypeOK
<1>4. DataInv' /\ LeaseInv'
  BY <1>1, <1>2 DEF DataInv, LeaseInv, LastData, IsDataOf, Last, IsOf, Healthy
<1>5. QED
  BY <1>3, <1>4

-----------------------------------------------------------------------------
(* The steps of a pod. *)
PodStep(p) ==
    \/ RegisterService(p) \/ AlreadyRegistered(p)
    \/ PutLease(p) \/ PutLeaseFails(p) \/ Revoke(p)
    \/ PutData(p) \/ PutDataFails(p)
    \/ UnregisterService(p) \/ DeleteLease(p) \/ DeleteData(p)
    \/ Crash(p) \/ Restart(p)
    \/ LeaseExpires(p)

ClientStep(c) == Load(c) \/ OpenWatch(c) \/ Handle(c)

(* A lease that ends takes its key with it, and tells the clients. *)
LEMMA EndLeaseShape ==
    ASSUME TypeOK, NEW p \in Pods, NEW l \in 0..MaxLeases, EndLease(p, l)
    PROVE  /\ leases' = [leases EXCEPT ![p] = @ \ {l}]
           /\ leases' \in [Pods -> SUBSET (1..MaxLeases)]
           /\ channel' \in [Pods -> {"none", "open", "closed"}]
           /\ leaseKey' \in [Pods -> 0..MaxLeases]
           /\ \/ NoEvent /\ leaseKey[p] # l /\ UNCHANGED leaseKey
              \/ /\ Event("leaseDeleted", p)
                 /\ leaseKey[p] = l
                 /\ leaseKey' = [leaseKey EXCEPT ![p] = 0]
<1>1. leases' = [leases EXCEPT ![p] = @ \ {l}]
  BY DEF EndLease
<1>2. leases' \in [Pods -> SUBSET (1..MaxLeases)]
  BY <1>1 DEF TypeOK
<1>3. channel' \in [Pods -> {"none", "open", "closed"}]
  BY DEF EndLease, Closed, TypeOK
<1>4. \/ NoEvent /\ leaseKey[p] # l /\ UNCHANGED leaseKey
      \/ /\ Event("leaseDeleted", p)
         /\ leaseKey[p] = l
         /\ leaseKey' = [leaseKey EXCEPT ![p] = 0]
  BY DEF EndLease
<1>5. leaseKey' \in [Pods -> 0..MaxLeases]
  <2>1. 0 \in 0..MaxLeases
    BY MaxLeasesAssumption
  <2>2. \/ leaseKey' = leaseKey
        \/ leaseKey' = [leaseKey EXCEPT ![p] = 0]
    BY <1>4
  <2>3. QED
    BY <2>1, <2>2 DEF TypeOK
<1>6. QED
  BY <1>1, <1>2, <1>3, <1>4, <1>5

(* What a step of a pod tells the clients that follow it, and that a lease *)
(* which is not the pod's current one can end without a word of it.        *)
LEMMA PodTells ==
    ASSUME RegistryInv, NEW p \in Pods, PodStep(p)
    PROVE  /\ HealthyInv'
           /\ UNCHANGED clientVars
           /\ Silent \/ \E kind \in Kinds : Says(kind, p)
<1> USE DEF RegistryInv, HealthyInv, Healthy
<1>0. \A q \in Pods : 0 \notin leases[q]
  BY DEF TypeOK
<1>1. CASE RegisterService(p)
  BY <1>0, <1>1 DEF RegisterService, Goto, Answer, TypeOK, Silent, LeaseKept
<1>2. CASE AlreadyRegistered(p)
  BY <1>2 DEF AlreadyRegistered, Answer, TypeOK, Silent, LeaseKept, etcdVars
<1>3. CASE PutLease(p)
  BY <1>3 DEF PutLease, Goto, TypeOK, Silent, LeaseKept
<1>4. CASE PutLeaseFails(p)
  BY <1>4 DEF PutLeaseFails, Goto, TypeOK, Silent, LeaseKept
<1>6. CASE PutData(p)
  <2>1. data'[p] /\ \A q \in Pods \ {p} : data'[q] = data[q]
    BY <1>6 DEF PutData, TypeOK
  <2>2. /\ at[p] = "putData"
        /\ at' = [at EXCEPT ![p] = "idle"]
        /\ UNCHANGED <<leases, leaseKey, entry, clientVars>>
        /\ Event("dataPut", p)
        /\ latePut' = IF leaseKey[p] = 0 THEN latePut \cup {p} ELSE latePut \ {p}
    BY <1>6 DEF PutData, Goto
  <2>3. \A q \in Pods \ {p} : answer'[q] = answer[q]
    BY <1>6 DEF PutData, Answer, TypeOK
  <2>4. HealthyInv'
    BY <2>1, <2>2, <2>3 DEF TypeOK
  <2>5. Says("dataPut", p)
    <3>1. \A q \in Pods : data'[q] = IF q = p /\ "dataPut" # "leaseDeleted"
                                    THEN "dataPut" = "dataPut" ELSE data[q]
      BY <1>6 DEF PutData, TypeOK
    <3>2. QED
      BY <2>2, <2>3, <3>1 DEF Says, LeaseKept
  <2>6. QED
    BY <2>2, <2>4, <2>5 DEF Kinds
<1>5. ASSUME NEW l \in 0..MaxLeases, EndLease(p, l),
             UNCHANGED <<data, latePut, clientVars>>,
             \A q \in Pods : entry'[q] \in {0, entry[q]} /\ (answer'[q] = "ok" => answer[q] = "ok"),
             \A q \in Pods : at'[q] # "putData" \/ (at'[q] = at[q] /\ entry'[q] = entry[q]),
             \A q \in Pods : answer'[q] = "ok" => at'[q] = at[q]
      PROVE  HealthyInv' /\ (Silent \/ Says("leaseDeleted", p))
  <2>1. /\ leases' = [leases EXCEPT ![p] = @ \ {l}]
        /\ leases' \in [Pods -> SUBSET (1..MaxLeases)]
        /\ \/ NoEvent /\ leaseKey[p] # l /\ UNCHANGED leaseKey
           \/ /\ Event("leaseDeleted", p)
              /\ leaseKey[p] = l
              /\ leaseKey' = [leaseKey EXCEPT ![p] = 0]
    BY <1>5, EndLeaseShape
  <2>2. \A q \in Pods : /\ leases'[q] \subseteq leases[q]
                        /\ 0 \notin leases'[q]
                        /\ q = p => l \notin leases'[q]
    BY <2>1 DEF TypeOK
  <2>3. \A q \in Pods : entry'[q] \in leases'[q] => entry'[q] = entry[q] /\ entry[q] \in leases[q]
    BY <1>5, <2>2
  <2>4. \A q \in Pods : entry'[q] \in leases'[q] /\ leaseKey[q] = entry[q] => leaseKey'[q] = entry'[q]
    BY <2>1, <2>2, <2>3 DEF TypeOK
  <2>5. HealthyInv'
    BY <1>5, <2>3, <2>4
  <2>6. CASE NoEvent /\ UNCHANGED leaseKey
    BY <1>5, <2>3, <2>5, <2>6 DEF Silent, LeaseKept
  <2>7. CASE /\ Event("leaseDeleted", p)
             /\ leaseKey[p] = l
             /\ leaseKey' = [leaseKey EXCEPT ![p] = 0]
    <3>1. ~(answer'[p] = "ok" /\ entry'[p] \in leases'[p])
      BY <1>5, <2>2, <2>3, <2>7
    <3>2. \A q \in Pods : data'[q] = IF q = p /\ "leaseDeleted" # "leaseDeleted"
                                    THEN "leaseDeleted" = "dataPut" ELSE data[q]
      BY <1>5
    <3>3. \A q \in Pods \ {p} : LeaseKept(q)
      BY <1>5, <2>3, <2>7 DEF LeaseKept, TypeOK
    <3>4. QED
      BY <2>5, <2>7, <3>1, <3>2, <3>3 DEF Says
  <2>8. QED
    BY <2>1, <2>6, <2>7
<1>8. CASE Revoke(p)
  <2>1. CASE EndLease(p, leaseID[p])
    BY <1>5, <1>8, <2>1 DEF Revoke, Goto, Answer, TypeOK, Kinds
  <2>2. CASE NoEvent /\ UNCHANGED <<leases, leaseKey, channel>>
    BY <1>0, <1>8, <2>2 DEF Revoke, Goto, Answer, TypeOK, Silent, LeaseKept
  <2>3. QED
    BY <1>8, <2>1, <2>2 DEF Revoke
<1>13. CASE UnregisterService(p)
  <2>1. CASE EndLease(p, entry[p])
    BY <1>5, <1>13, <2>1 DEF UnregisterService, Goto, Answer, TypeOK, Kinds
  <2>2. CASE NoEvent /\ UNCHANGED <<leases, leaseKey, channel>>
    BY <1>0, <1>13, <2>2 DEF UnregisterService, Goto, Answer, TypeOK, Silent, LeaseKept
  <2>3. QED
    BY <1>13, <2>1, <2>2 DEF UnregisterService
<1>14. CASE LeaseExpires(p)
  <2>1. PICK l \in leases[p] : EndLease(p, l)
    BY <1>14 DEF LeaseExpires
  <2>2. l \in 0..MaxLeases
    BY DEF TypeOK
  <2>3. QED
    BY <1>5, <1>14, <2>1, <2>2 DEF LeaseExpires, Kinds
<1>7. CASE PutDataFails(p)
  BY <1>7 DEF PutDataFails, Goto, Answer, TypeOK, Silent, LeaseKept, etcdVars
<1>9. CASE DeleteLease(p)
  <2>1. /\ at[p] = "deleteLease" /\ at' = [at EXCEPT ![p] = "deleteData"]
        /\ UNCHANGED <<leases, data, entry, answer, clientVars, latePut>>
    BY <1>9 DEF DeleteLease, Goto
  <2>2. answer[p] # "ok" /\ ~Healthy(p)' /\ \A q \in Pods : q # p => at'[q] = at[q]
    BY <2>1 DEF TypeOK
  <2>3. CASE Event("leaseDeleted", p) /\ leaseKey' = [leaseKey EXCEPT ![p] = 0]
    <3>1. \A q \in Pods : q # p => leaseKey'[q] = leaseKey[q]
      BY <2>3 DEF TypeOK
    <3>2. HealthyInv'
      BY <2>1, <2>2, <3>1 DEF TypeOK
    <3>3. \A q \in Pods \ {p} : LeaseKept(q)
      BY <2>1, <3>1 DEF LeaseKept
    <3>4. Says("leaseDeleted", p)
      BY <2>1, <2>2, <2>3, <3>3 DEF Says
    <3>5. QED
      BY <2>1, <3>2, <3>4 DEF Kinds
  <2>4. CASE NoEvent /\ UNCHANGED leaseKey
    <3>1. HealthyInv'
      BY <2>1, <2>2, <2>4 DEF TypeOK
    <3>2. Silent
      BY <2>1, <2>4 DEF Silent, LeaseKept
    <3>3. QED
      BY <2>1, <3>1, <3>2
  <2>5. QED
    BY <1>9, <2>3, <2>4 DEF DeleteLease
<1>10. CASE DeleteData(p)
  <2>1. /\ at[p] = "deleteData" /\ at' = [at EXCEPT ![p] = "idle"]
        /\ UNCHANGED <<leases, leaseKey, entry, answer, clientVars, latePut>>
    BY <1>10 DEF DeleteData, Goto
  <2>2. answer[p] # "ok" /\ ~Healthy(p)' /\ \A q \in Pods : q # p => at'[q] = at[q]
    BY <2>1
  <2>3. \A q \in Pods : LeaseKept(q)
    BY <2>1 DEF LeaseKept
  <2>4. CASE Event("dataDeleted", p) /\ data' = [data EXCEPT ![p] = FALSE]
    <3>1. ~data'[p] /\ \A q \in Pods : q # p => data'[q] = data[q]
      BY <2>4 DEF TypeOK
    <3>2. HealthyInv'
      BY <2>1, <2>2, <3>1 DEF TypeOK
    <3>3. \A q \in Pods : data'[q] = IF q = p /\ "dataDeleted" # "leaseDeleted"
                                    THEN "dataDeleted" = "dataPut" ELSE data[q]
      BY <2>4 DEF TypeOK
    <3>4. Says("dataDeleted", p)
      BY <2>2, <2>3, <2>4, <3>3 DEF Says
    <3>5. QED
      BY <2>1, <3>2, <3>4 DEF Kinds
  <2>5. CASE NoEvent /\ UNCHANGED data
    <3>1. HealthyInv'
      BY <2>1, <2>2, <2>5 DEF TypeOK
    <3>2. Silent
      BY <2>3, <2>5 DEF Silent
    <3>3. QED
      BY <2>1, <3>1, <3>2
  <2>6. QED
    BY <1>10, <2>4, <2>5 DEF DeleteData
<1>11. CASE Crash(p)
  BY <1>0, <1>11 DEF Crash, Answer, TypeOK, Silent, LeaseKept, etcdVars
<1>12. CASE Restart(p)
  BY <1>12 DEF Restart, Goto, TypeOK, Silent, LeaseKept, etcdVars
<1>15. QED
  BY <1>1, <1>2, <1>3, <1>4, <1>6, <1>7, <1>8, <1>9, <1>10, <1>11, <1>12, <1>13, <1>14 DEF PodStep

(* The type invariant and the queues of those that do not watch. *)
LEMMA PodTypeStep ==
    ASSUME RegistryInv, NEW p \in Pods, PodStep(p)
    PROVE  TypeOK' /\ QueueInv'
<1> USE DEF RegistryInv
<1> DEFINE Queues == /\ queue' \in [Clients -> Seq([kind : Kinds, pod : Pods])]
                     /\ missed' \in [Clients -> SUBSET Pods]
                     /\ UNCHANGED clientVars
<1>1. Queues /\ QueueInv'
  <2>1. CASE NoEvent
    BY <2>1, PodTells DEF NoEvent, TypeOK, Kinds, QueueInv, clientVars
  <2>2. CASE \E kind \in Kinds : Event(kind, p)
    BY <2>2, PodTells, EventType DEF clientVars
  <2>3. QED
    BY <2>1, <2>2, PodTells DEF Silent, Says
<1> HIDE DEF Queues
<1> SUFFICES TypeOK'
  BY <1>1
<1> USE DEF Goto, Answer
<1>2. CASE RegisterService(p)
  <2>1. granted' \in 1..MaxLeases
    BY <1>2, MaxLeasesAssumption DEF RegisterService, TypeOK
  <2>2. /\ leases' \in [Pods -> SUBSET (1..MaxLeases)]
        /\ leaseID' \in [Pods -> 0..MaxLeases]
    BY <1>2, <2>1 DEF RegisterService, TypeOK
  <2>3. \A q \in Pods : entry'[q] \in {0, leaseID'[q]}
    BY <1>2 DEF RegisterService, TypeOK
  <2>4. QED
    BY <1>1, <1>2, <2>1, <2>2, <2>3 DEF RegisterService, TypeOK, Queues, Kinds, clientVars
<1>3. CASE AlreadyRegistered(p)
  BY <1>1, <1>3 DEF AlreadyRegistered, TypeOK, Queues, Kinds, clientVars, etcdVars
<1>4. CASE PutLease(p)
  BY <1>1, <1>4 DEF PutLease, TypeOK, Queues, Kinds, clientVars
<1>5. CASE PutLeaseFails(p)
  <2>1. leaseKey' \in [Pods -> 0..MaxLeases]
    <3>1. leaseKey \in [Pods -> 0..MaxLeases] /\ leaseID[p] \in 0..MaxLeases
      BY DEF TypeOK
    <3>2. leaseKey' = leaseKey \/ leaseKey' = [leaseKey EXCEPT ![p] = leaseID[p]]
      BY <1>5 DEF PutLeaseFails
    <3>3. QED
      BY <3>1, <3>2
  <2>2. QED
    BY <1>1, <1>5, <2>1 DEF PutLeaseFails, TypeOK, Queues, Kinds, clientVars
<1>6. CASE PutData(p)
  <2>1. data' \in [Pods -> BOOLEAN]
    BY <1>6 DEF PutData, TypeOK
  <2>2. latePut' \in SUBSET Pods
    BY <1>6 DEF PutData, TypeOK
  <2>3. answer' \in [Pods -> {"none", "ok", "error", "ErrServiceAlreadyRegistered"}]
    BY <1>6 DEF PutData, TypeOK
  <2>4. QED
    BY <1>1, <1>6, <2>1, <2>2, <2>3 DEF PutData, TypeOK, Queues, Kinds, clientVars
<1>7. CASE PutDataFails(p)
  BY <1>1, <1>7 DEF PutDataFails, TypeOK, Queues, Kinds, clientVars, etcdVars
<1>8. CASE DeleteLease(p)
  <2>1. leaseKey' \in [Pods -> 0..MaxLeases]
    <3>1. leaseKey' = leaseKey \/ leaseKey' = [leaseKey EXCEPT ![p] = 0]
      BY <1>8 DEF DeleteLease
    <3>2. 0 \in 0..MaxLeases
      BY MaxLeasesAssumption
    <3>3. QED
      BY <3>1, <3>2 DEF TypeOK
  <2>2. QED
    BY <1>1, <1>8, <2>1 DEF DeleteLease, TypeOK, Queues, Kinds, clientVars
<1>9. CASE DeleteData(p)
  <2>1. data' \in [Pods -> BOOLEAN]
    BY <1>9 DEF DeleteData, TypeOK
  <2>2. QED
    BY <1>1, <1>9, <2>1 DEF DeleteData, TypeOK, Queues, Kinds, clientVars
<1>10. CASE Crash(p)
  <2>1. \A q \in Pods : entry'[q] \in {0, leaseID'[q]}
    BY <1>10 DEF Crash, TypeOK
  <2>2. QED
    BY <1>1, <1>10, <2>1, MaxLeasesAssumption
       DEF Crash, TypeOK, Queues, Kinds, clientVars, etcdVars
<1>11. CASE Restart(p)
  BY <1>1, <1>11 DEF Restart, TypeOK, Queues, Kinds, clientVars, etcdVars
<1>12. ASSUME NEW l \in 0..MaxLeases,
              EndLease(p, l) \/ UNCHANGED <<leases, leaseKey, channel>>
       PROVE  /\ leases' \in [Pods -> SUBSET (1..MaxLeases)]
              /\ channel' \in [Pods -> {"none", "open", "closed"}]
              /\ leaseKey' \in [Pods -> 0..MaxLeases]
  BY <1>12, EndLeaseShape DEF TypeOK
<1>13. CASE Revoke(p) \/ UnregisterService(p) \/ LeaseExpires(p)
  <2>1. \E l \in 0..MaxLeases : EndLease(p, l) \/ UNCHANGED <<leases, leaseKey, channel>>
    BY <1>13 DEF Revoke, UnregisterService, LeaseExpires, TypeOK
  <2>2. /\ leases' \in [Pods -> SUBSET (1..MaxLeases)]
        /\ channel' \in [Pods -> {"none", "open", "closed"}]
        /\ leaseKey' \in [Pods -> 0..MaxLeases]
    BY <1>12, <2>1
  <2>3. /\ entry' \in [Pods -> 0..MaxLeases]
        /\ UNCHANGED leaseID
        /\ \A q \in Pods : entry'[q] \in {0, leaseID[q]}
    <3>1. entry' = entry \/ entry' = [entry EXCEPT ![p] = 0]
      BY <1>13 DEF Revoke, UnregisterService, LeaseExpires
    <3>2. UNCHANGED leaseID
      BY <1>13 DEF Revoke, UnregisterService, LeaseExpires
    <3>3. 0 \in 0..MaxLeases
      BY MaxLeasesAssumption
    <3>4. QED
      BY <3>1, <3>2, <3>3 DEF TypeOK
  <2>4. /\ UNCHANGED <<granted, data, latePut>>
        /\ at' \in [Pods -> {"idle", "putLease", "revoke", "putData", "deleteLease",
                            "deleteData", "down"}]
    BY <1>13 DEF Revoke, UnregisterService, LeaseExpires, TypeOK
  <2>5. answer' \in [Pods -> {"none", "ok", "error", "ErrServiceAlreadyRegistered"}]
    BY <1>13 DEF Revoke, UnregisterService, LeaseExpires, TypeOK
  <2>6. QED
    BY <1>1, <2>2, <2>3, <2>4, <2>5 DEF TypeOK, Queues, Kinds, clientVars
<1>14. QED
  BY <1>2, <1>3, <1>4, <1>5, <1>6, <1>7, <1>8, <1>9, <1>10, <1>11, <1>13 DEF PodStep

LEMMA ClientTypeStep ==
    ASSUME RegistryInv, NEW d \in Clients, ClientStep(d)
    PROVE  TypeOK' /\ HealthyInv'
<1> USE DEF RegistryInv
<1>1. UNCHANGED <<etcdVars, podVars, latePut>>
  BY DEF ClientStep, Load, OpenWatch, Handle
<1>2. HealthyInv'
  BY <1>1 DEF HealthyInv, Healthy, etcdVars, podVars
<1>3. CASE Load(d)
  <2>1. known' \in [Clients -> BOOLEAN]
    BY <1>3 DEF Load, TypeOK
  <2>2. view' \in [Clients -> [Pods -> {"absent", "up", "down"}]]
    BY <1>3 DEF Load, TypeOK
  <2>3. lateLoad' \in [Clients -> SUBSET Pods]
    BY <1>3 DEF Load, TypeOK
  <2>4. QED
    BY <1>1, <1>2, <1>3, <2>1, <2>2, <2>3 DEF Load, NoEvent, TypeOK, etcdVars, podVars
<1>4. CASE OpenWatch(d)
  BY <1>1, <1>2, <1>4 DEF OpenWatch, NoEvent, TypeOK, etcdVars, podVars
<1>5. CASE Handle(d)
  <2>1. queue[d] \in Seq([kind : Kinds, pod : Pods]) /\ queue[d] # <<>>
    BY <1>5 DEF Handle, TypeOK, Kinds
  <2>2. Head(queue[d]) \in [kind : Kinds, pod : Pods] /\ Tail(queue[d]) \in Seq([kind : Kinds, pod : Pods])
    <3>1. \A S : \A q \in Seq(S) : q # <<>> => Head(q) \in S /\ Tail(q) \in Seq(S)
      OBVIOUS
    <3>2. QED
      BY <2>1, <3>1
  <2>3. queue' \in [Clients -> Seq([kind : Kinds, pod : Pods])]
    BY <1>5, <2>2 DEF Handle, TypeOK, Kinds
  <2>4. view' \in [Clients -> [Pods -> {"absent", "up", "down"}]]
    <3>1. \A old \in {"absent", "up", "down"} :
            After(Head(queue[d]), old) \in {"absent", "up", "down"}
      BY <2>2 DEF After, Kinds
    <3>2. QED
      <4>1. \/ view' = view
            \/ view' = [view EXCEPT ![d] = [view[d] EXCEPT ![Head(queue[d]).pod] =
                          After(Head(queue[d]), view[d][Head(queue[d]).pod])]]
        BY <1>5 DEF Handle, TypeOK
      <4>2. Head(queue[d]).pod \in Pods
        BY <2>2
      <4>3. view[d] \in [Pods -> {"absent", "up", "down"}]
        BY DEF TypeOK
      <4>4. After(Head(queue[d]), view[d][Head(queue[d]).pod]) \in {"absent", "up", "down"}
        BY <3>1, <4>2, <4>3
      <4>5. [view[d] EXCEPT ![Head(queue[d]).pod] =
               After(Head(queue[d]), view[d][Head(queue[d]).pod])]
              \in [Pods -> {"absent", "up", "down"}]
        BY <4>2, <4>3, <4>4
      <4>6. QED
        <5> DEFINE seen == [view[d] EXCEPT ![Head(queue[d]).pod] =
                              After(Head(queue[d]), view[d][Head(queue[d]).pod])]
        <5> HIDE DEF seen
        <5>1. view' = view \/ view' = [view EXCEPT ![d] = seen]
          BY <4>1 DEF seen
        <5>2. seen \in [Pods -> {"absent", "up", "down"}]
          BY <4>5 DEF seen
        <5>3. QED
          BY <5>1, <5>2 DEF TypeOK
  <2>5. QED
    BY <1>1, <1>2, <1>5, <2>3, <2>4 DEF Handle, TypeOK, Kinds, etcdVars, podVars
<1>6. QED
  BY <1>2, <1>3, <1>4, <1>5 DEF ClientStep

-----------------------------------------------------------------------------
(* The invariant holds of every state of Registry. *)
LEMMA RegistryAlways == Spec => []RegistryInv
<1>1. RegistryInv /\ [Next]_vars => RegistryInv'
  <2> SUFFICES ASSUME RegistryInv, [Next]_vars PROVE RegistryInv'
    OBVIOUS
  <2>1. CASE \E p \in Pods : PodStep(p)
    <3>1. PICK p \in Pods : PodStep(p)
      BY <2>1
    <3>2. TypeOK' /\ QueueInv' /\ HealthyInv'
      BY <3>1, PodTypeStep, PodTells
    <3>3. DataInv' /\ LeaseInv'
      BY <3>1, PodTells, EventData, NoEventData, EventLease, NoEventLease DEF RegistryInv
    <3>4. QED
      BY <3>2, <3>3 DEF RegistryInv
  <2>2. CASE \E c \in Clients : ClientStep(c)
    BY <2>2, ClientTypeStep, LoadStep, OpenWatchStep, HandleStep DEF ClientStep, RegistryInv
  <2>3. CASE UNCHANGED vars
    <3>1. UNCHANGED <<etcdVars, podVars, clientVars, queue, missed, latePut>>
      BY <2>3 DEF vars
    <3>2. TypeOK'
      BY <3>1 DEF RegistryInv, TypeOK, etcdVars, podVars, clientVars
    <3>3. QueueInv' /\ HealthyInv'
      BY <3>1 DEF RegistryInv, QueueInv, HealthyInv, Healthy, etcdVars, podVars, clientVars
    <3>4. Silent /\ UNCHANGED clientVars
      BY <3>1 DEF Silent, NoEvent, LeaseKept, Healthy, etcdVars, podVars
    <3>5. QED
      BY <3>2, <3>3, <3>4, NoEventData, NoEventLease DEF RegistryInv
  <2>4. QED
    BY <2>1, <2>2, <2>3 DEF Next, PodStep, ClientStep
<1>2. QED
  BY InitRegistry, <1>1, PTL DEF Spec

(***************************************************************************)
(* The state of the registry has its types: serviceToLease has at most the *)
(* lease of the last registration (impl.go:115-183).                       *)
(***************************************************************************)
THEOREM RegistryTypes == Spec => []TypeOK
<1>1. RegistryInv => TypeOK
  BY DEF RegistryInv
<1>2. QED
  BY RegistryAlways, <1>1, PTL

(***************************************************************************)
(* A pod whose registration succeeded and whose lease holds is available   *)
(* to every client that follows: no Timeout of an old lease hangs it.      *)
(***************************************************************************)
THEOREM HealthyPodsSeen == Spec => []HealthySeen
<1>1. RegistryInv => HealthySeen
  <2> SUFFICES ASSUME RegistryInv, NEW c \in Clients, NEW p \in Pods, Follows(c, p), Healthy(p)
               PROVE  view[c][p] = "up"
    BY DEF HealthySeen, Healthy
  <2>1. Tells(c, p) /\ \A i \in 1..Len(queue[c]) : ~IsOf(queue[c][i], p)
    BY DEF Follows, Tells
  <2>2. QED
    BY <2>1 DEF RegistryInv, LeaseInv
<1>2. QED
  BY RegistryAlways, <1>1, PTL

(***************************************************************************)
(* A pod without a lease key is in use by a client that follows only if    *)
(* its data key was written or read after the lease key went.              *)
(***************************************************************************)
THEOREM DeadPodsHung == Spec => []DeadPodHung
<1>1. RegistryInv => DeadPodHung
  <2> SUFFICES ASSUME RegistryInv, NEW c \in Clients, NEW p \in Pods, Follows(c, p),
                      leaseKey[p] = 0, view[c][p] = "up"
               PROVE  p \in latePut \/ p \in lateLoad[c]
    BY DEF DeadPodHung
  <2>1. Tells(c, p) /\ \A i \in 1..Len(queue[c]) : ~IsOf(queue[c][i], p)
    BY DEF Follows, Tells
  <2>2. QED
    BY <2>1 DEF RegistryInv, LeaseInv
<1>2. QED
  BY RegistryAlways, <1>1, PTL

(***************************************************************************)
(* A client that follows has dropped every pod without a data key, in      *)
(* whatever order its keys were deleted, expired and written again.        *)
(***************************************************************************)
THEOREM UnregisteredPodsGone == Spec => []UnregisteredGone
<1>1. RegistryInv => UnregisteredGone
  <2> SUFFICES ASSUME RegistryInv, NEW c \in Clients, NEW p \in Pods, Follows(c, p), ~data[p]
               PROVE  view[c][p] = "absent"
    BY DEF UnregisteredGone
  <2>1. Tells(c, p) /\ \A i \in 1..Len(queue[c]) : ~IsDataOf(queue[c][i], p)
    BY DEF Follows, Tells
  <2>2. QED
    BY <2>1 DEF RegistryInv, DataInv
<1>2. QED
  BY RegistryAlways, <1>1, PTL
=============================================================================
