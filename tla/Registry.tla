------------------------------ MODULE Registry ------------------------------
(***************************************************************************)
(* Registration of one service in etcd (store/impl/impl.go): pods that     *)
(* register, lose their lease, crash, restart under the same name and      *)
(* unregister, and clients that load the service once and then follow a    *)
(* watch.  A pod has two keys: the lease key, which goes with its lease,   *)
(* and the data key with its endpoints, which has no lease and stays.      *)
(*                                                                         *)
(* etcd applies one request at a time and delivers the events of a watch   *)
(* in order (external).  Leases are numbered in the order of their Grants. *)
(***************************************************************************)
EXTENDS Naturals, Sequences

CONSTANTS Pods,
          Clients,
          EtcdFails,  \* a request to etcd may fail without effect
          MaxLeases   \* bound: leases granted

ASSUME EtcdFailsAssumption == EtcdFails \in BOOLEAN
ASSUME MaxLeasesAssumption == MaxLeases \in Nat

VARIABLES leases,    \* each pod's leases that have not ended
          granted,   \* leases granted so far
          leaseKey,  \* the lease attached to a pod's svc/lease key, 0 if no key
          data,      \* whether a pod's svc/data key exists
          at,        \* where each pod's process is
          leaseID,   \* the lease of the last registration, 0 if none
          entry,     \* serviceToLease, 0 if there is no entry
          channel,   \* the channel the last registration returned
          answer,    \* what the last RegisterService returned
          stage,     \* where each client's GetServices is
          known,     \* whether the client's services map has the service
          view,      \* the client's pods, as its Service has them
          queue,     \* events of the client's watch not handled yet
          missed,    \* history: pods with an event between load and watch
          lateLoad,  \* history: pods the client loaded without a lease key
          latePut    \* history: pods whose data was put without a lease key

etcdVars == <<leases, granted, leaseKey, data>>
podVars == <<at, leaseID, entry, channel, answer>>
clientVars == <<stage, known, view, lateLoad>>
vars == <<etcdVars, podVars, clientVars, queue, missed, latePut>>

Init ==
    /\ leases = [p \in Pods |-> {}]
    /\ granted = 0
    /\ leaseKey = [p \in Pods |-> 0]
    /\ data \in [Pods -> BOOLEAN]   \* data keys stay when their pods are long gone
    /\ at = [p \in Pods |-> "idle"]
    /\ leaseID = [p \in Pods |-> 0]
    /\ entry = [p \in Pods |-> 0]
    /\ channel = [p \in Pods |-> "none"]
    /\ answer = [p \in Pods |-> "none"]
    /\ stage = [c \in Clients |-> "start"]
    /\ known = [c \in Clients |-> FALSE]
    /\ view = [c \in Clients |-> [p \in Pods |-> "absent"]]
    /\ queue = [c \in Clients |-> <<>>]
    /\ missed = [c \in Clients |-> {}]
    /\ lateLoad = [c \in Clients |-> {}]
    /\ latePut = {p \in Pods : data[p]}

-----------------------------------------------------------------------------
(* etcd sends an event to the watches there are. *)
Event(kind, p) ==
    /\ queue' = [c \in Clients |-> IF stage[c] = "watching"
                                   THEN Append(queue[c], [kind |-> kind, pod |-> p]) ELSE queue[c]]
    /\ missed' = [c \in Clients |-> IF stage[c] = "loaded" THEN missed[c] \cup {p} ELSE missed[c]]

NoEvent == UNCHANGED <<queue, missed>>

Closed(p) == IF channel[p] = "open" THEN [channel EXCEPT ![p] = "closed"] ELSE channel

(* A lease ends: the key attached to it goes, which is an event, and the *)
(* process that keeps it alive closes the channel it gave out.           *)
EndLease(p, l) ==
    /\ leases' = [leases EXCEPT ![p] = @ \ {l}]
    /\ channel' = IF leaseID[p] = l THEN Closed(p) ELSE channel
    /\ IF leaseKey[p] = l THEN Event("leaseDeleted", p) /\ leaseKey' = [leaseKey EXCEPT ![p] = 0]
       ELSE NoEvent /\ UNCHANGED leaseKey

Goto(p, from, to) == at[p] = from /\ at' = [at EXCEPT ![p] = to]
Answer(p, value) == answer' = [answer EXCEPT ![p] = value]

(***************************************************************************)
(* RegisterService: refused while the service is in serviceToLease, else   *)
(* Grant and KeepAlive, ...                                                *)
(***************************************************************************)
RegisterService(p) ==
    /\ entry[p] = 0
    /\ granted < MaxLeases
    /\ Goto(p, "idle", "putLease")
    /\ granted' = granted + 1
    /\ leases' = [leases EXCEPT ![p] = @ \cup {granted'}]
    /\ leaseID' = [leaseID EXCEPT ![p] = granted']
    /\ channel' = [channel EXCEPT ![p] = "open"]
    /\ Answer(p, "none")
    /\ NoEvent
    /\ UNCHANGED <<leaseKey, data, entry, clientVars, latePut>>

AlreadyRegistered(p) ==
    /\ at[p] = "idle"
    /\ entry[p] # 0
    /\ Answer(p, "ErrServiceAlreadyRegistered")
    /\ NoEvent
    /\ UNCHANGED <<etcdVars, at, leaseID, entry, channel, clientVars, latePut>>

(* ... the lease key, which needs a lease that is still there, ... *)
PutLease_KeepsOldLease(p) ==
    /\ leaseID[p] \in leases[p]
    /\ Goto(p, "putLease", "putData")
    /\ leaseKey' = [leaseKey EXCEPT ![p] = IF @ = 0 THEN leaseID[p] ELSE @]
    /\ entry' = [entry EXCEPT ![p] = leaseID[p]]
    /\ NoEvent
    /\ UNCHANGED <<leases, granted, data, leaseID, channel, answer, clientVars, latePut>>

PutLease(p) ==
    /\ leaseID[p] \in leases[p]
    /\ Goto(p, "putLease", "putData")
    /\ leaseKey' = [leaseKey EXCEPT ![p] = leaseID[p]]
    /\ entry' = [entry EXCEPT ![p] = leaseID[p]]
    /\ NoEvent
    /\ UNCHANGED <<leases, granted, data, leaseID, channel, answer, clientVars, latePut>>

(* ... (an error does not say whether the key was written) ... *)
PutLeaseFails(p) ==
    /\ EtcdFails \/ leaseID[p] \notin leases[p]
    /\ Goto(p, "putLease", "revoke")
    /\ \/ UNCHANGED leaseKey
       \/ leaseID[p] \in leases[p] /\ leaseKey' = [leaseKey EXCEPT ![p] = leaseID[p]]
    /\ NoEvent
    /\ UNCHANGED <<leases, granted, data, leaseID, entry, channel, answer, clientVars, latePut>>

(* ... after which the lease is revoked, whatever that answers, ... *)
Revoke(p) ==
    /\ Goto(p, "revoke", "idle")
    /\ \/ EndLease(p, leaseID[p])
       \/ EtcdFails /\ NoEvent /\ UNCHANGED <<leases, leaseKey, channel>>
    /\ entry' = [entry EXCEPT ![p] = 0]
    /\ Answer(p, "error")
    /\ UNCHANGED <<granted, data, leaseID, clientVars, latePut>>

(* ... and the data key, whose failure leaves serviceToLease as it is. *)
PutData(p) ==
    /\ Goto(p, "putData", "idle")
    /\ data' = [data EXCEPT ![p] = TRUE]
    /\ Event("dataPut", p)
    /\ latePut' = IF leaseKey[p] = 0 THEN latePut \cup {p} ELSE latePut \ {p}
    /\ \/ Answer(p, "ok")
       \/ EtcdFails /\ Answer(p, "error")   \* written, but the reply is lost
    /\ UNCHANGED <<leases, granted, leaseKey, leaseID, entry, channel, clientVars>>

PutDataFails(p) ==
    /\ EtcdFails
    /\ Goto(p, "putData", "idle")
    /\ Answer(p, "error")
    /\ NoEvent
    /\ UNCHANGED <<etcdVars, leaseID, entry, channel, clientVars, latePut>>

(***************************************************************************)
(* UnregisterService: revoke the lease, forget it, delete the lease key,   *)
(* delete the data key.  A failure of any of the three is only logged.     *)
(***************************************************************************)
UnregisterService(p) ==
    /\ entry[p] # 0
    /\ Goto(p, "idle", "deleteLease")
    /\ \/ EndLease(p, entry[p])
       \/ EtcdFails /\ NoEvent /\ UNCHANGED <<leases, leaseKey, channel>>
    /\ entry' = [entry EXCEPT ![p] = 0]
    /\ Answer(p, "none")
    /\ UNCHANGED <<granted, data, leaseID, clientVars, latePut>>

DeleteLease(p) ==
    /\ Goto(p, "deleteLease", "deleteData")
    /\ \/ leaseKey[p] # 0 /\ Event("leaseDeleted", p) /\ leaseKey' = [leaseKey EXCEPT ![p] = 0]
       \/ (leaseKey[p] = 0 \/ EtcdFails) /\ NoEvent /\ UNCHANGED leaseKey
    /\ UNCHANGED <<leases, granted, data, leaseID, entry, channel, answer, clientVars, latePut>>

DeleteData(p) ==
    /\ Goto(p, "deleteData", "idle")
    /\ \/ data[p] /\ Event("dataDeleted", p) /\ data' = [data EXCEPT ![p] = FALSE]
       \/ (~data[p] \/ EtcdFails) /\ NoEvent /\ UNCHANGED data
    /\ UNCHANGED <<leases, granted, leaseKey, leaseID, entry, channel, answer, clientVars, latePut>>

(* No KeepAlive of the pod reached etcd for 5 s. *)
LeaseExpires(p) ==
    /\ \E l \in leases[p] : EndLease(p, l)
    /\ UNCHANGED <<granted, data, at, leaseID, entry, answer, clientVars, latePut>>

(* The process ends at any point, and starts again with nothing. *)
Crash(p) ==
    /\ at[p] # "down"
    /\ at' = [at EXCEPT ![p] = "down"]
    /\ leaseID' = [leaseID EXCEPT ![p] = 0]
    /\ entry' = [entry EXCEPT ![p] = 0]
    /\ channel' = [channel EXCEPT ![p] = "none"]
    /\ Answer(p, "none")
    /\ NoEvent
    /\ UNCHANGED <<etcdVars, clientVars, latePut>>

Restart(p) ==
    /\ Goto(p, "down", "idle")
    /\ NoEvent
    /\ UNCHANGED <<etcdVars, leaseID, entry, channel, answer, clientVars, latePut>>

-----------------------------------------------------------------------------
(***************************************************************************)
(* GetServices: one Get of the data keys, whatever the lease keys say; the *)
(* service exists for the client if a pod has one.                         *)
(***************************************************************************)
Load(c) ==
    /\ stage[c] = "start"
    /\ stage' = [stage EXCEPT ![c] = "loaded"]
    /\ known' = [known EXCEPT ![c] = \E p \in Pods : data[p]]
    /\ view' = [view EXCEPT ![c] = [p \in Pods |-> IF data[p] THEN "up" ELSE "absent"]]
    /\ lateLoad' = [lateLoad EXCEPT ![c] = {p \in Pods : data[p] /\ leaseKey[p] = 0}]
    /\ NoEvent
    /\ UNCHANGED <<etcdVars, podVars, latePut>>

(* RegisterServiceChangeListener's goroutine opens the watch afterwards. *)
OpenWatch(c) ==
    /\ stage[c] = "loaded"
    /\ stage' = [stage EXCEPT ![c] = "watching"]
    /\ NoEvent
    /\ UNCHANGED <<etcdVars, podVars, known, view, lateLoad, latePut>>

(* The listener: RegisterPod, HangPod (of a pod it has), RemovePod. *)
After_IgnoresLease(event, old) ==
    CASE event.kind = "dataPut" -> "up"
      [] event.kind = "dataDeleted" -> "absent"
      [] event.kind = "leaseDeleted" -> old

After_IgnoresDelete(event, old) ==
    CASE event.kind = "dataPut" -> "up"
      [] OTHER -> IF old = "absent" THEN "absent" ELSE "down"

After(event, old) ==
    CASE event.kind = "dataPut" -> "up"
      [] event.kind = "dataDeleted" -> "absent"
      [] event.kind = "leaseDeleted" -> IF old = "absent" THEN "absent" ELSE "down"

Handle(c) ==
    /\ queue[c] # <<>>
    /\ LET event == Head(queue[c]) IN
       view' = IF known[c] THEN [view EXCEPT ![c][event.pod] = After(event, @)] ELSE view
    /\ queue' = [queue EXCEPT ![c] = Tail(@)]
    /\ UNCHANGED <<etcdVars, podVars, stage, known, missed, lateLoad, latePut>>

Next ==
    \/ \E p \in Pods :
          \/ RegisterService(p) \/ AlreadyRegistered(p)
          \/ PutLease(p) \/ PutLeaseFails(p) \/ Revoke(p)
          \/ PutData(p) \/ PutDataFails(p)
          \/ UnregisterService(p) \/ DeleteLease(p) \/ DeleteData(p)
          \/ Crash(p) \/ Restart(p)
          \/ LeaseExpires(p)
    \/ \E c \in Clients : Load(c) \/ OpenWatch(c) \/ Handle(c)

Spec == Init /\ [][Next]_vars

-----------------------------------------------------------------------------
(***************************************************************************)
(* The type invariant.  serviceToLease has at most the lease of the last   *)
(* registration, since RegisterService refuses a second one.               *)
(***************************************************************************)
TypeOK ==
    /\ leases \in [Pods -> SUBSET (1..MaxLeases)]
    /\ granted \in 0..MaxLeases
    /\ leaseKey \in [Pods -> 0..MaxLeases]
    /\ data \in [Pods -> BOOLEAN]
    /\ at \in [Pods -> {"idle", "putLease", "revoke", "putData", "deleteLease",
                      "deleteData", "down"}]
    /\ leaseID \in [Pods -> 0..MaxLeases]
    /\ entry \in [Pods -> 0..MaxLeases]
    /\ \A p \in Pods : entry[p] \in {0, leaseID[p]}
    /\ channel \in [Pods -> {"none", "open", "closed"}]
    /\ answer \in [Pods -> {"none", "ok", "error", "ErrServiceAlreadyRegistered"}]
    /\ stage \in [Clients -> {"start", "loaded", "watching"}]
    /\ known \in [Clients -> BOOLEAN]
    /\ view \in [Clients -> [Pods -> {"absent", "up", "down"}]]
    /\ missed \in [Clients -> SUBSET Pods]
    /\ lateLoad \in [Clients -> SUBSET Pods]
    /\ latePut \in SUBSET Pods
    /\ queue \in [Clients -> Seq([kind : {"dataPut", "dataDeleted", "leaseDeleted"}, pod : Pods])]

(***************************************************************************)
(* A client that has loaded the service, and has handled every event it    *)
(* was sent, has seen what happened to p.  The events between the Get of   *)
(* GetServices and its Watch, and all events of a service that had no pod  *)
(* at the Get, are the ones it never sees.                                 *)
(***************************************************************************)
Follows(c, p) == stage[c] = "watching" /\ known[c] /\ queue[c] = <<>> /\ p \notin missed[c]

(***************************************************************************)
(* RegisterService, GetServices, the listener.  A pod whose registration   *)
(* succeeded and whose lease holds is available to every client that       *)
(* follows, whatever the pod's earlier lives under the same name left      *)
(* behind in etcd: the Timeout of an old lease does not hang it.           *)
(***************************************************************************)
HealthySeen ==
    \A c \in Clients, p \in Pods :
       (Follows(c, p) /\ at[p] = "idle" /\ answer[p] = "ok" /\ entry[p] \in leases[p])
          => view[c][p] = "up"

(***************************************************************************)
(* RegisterServiceChangeListener, HangPod.  A pod without a lease key is   *)
(* available to a client that follows only if its data key was written or  *)
(* read after the lease key went: no other path leaves a dead pod in use.  *)
(***************************************************************************)
DeadPodHung ==
    \A c \in Clients, p \in Pods :
       (Follows(c, p) /\ leaseKey[p] = 0 /\ view[c][p] = "up")
          => p \in latePut \/ p \in lateLoad[c]

(***************************************************************************)
(* UnregisterService, RemovePod.  A client that follows has dropped every  *)
(* pod without a data key, in whatever order its two keys were deleted,    *)
(* expired and written again.                                              *)
(***************************************************************************)
UnregisteredGone ==
    \A c \in Clients, p \in Pods : Follows(c, p) /\ ~data[p] => view[c][p] = "absent"
=============================================================================
