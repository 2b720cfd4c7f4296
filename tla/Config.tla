------------------------------- MODULE Config -------------------------------
(***************************************************************************)
(* How processes load their configuration (Impl.LoadConfig, impl.go) and   *)
(* read it back (GetRouter and GetSelector of package core).  Under an     *)
(* etcd mutex a process compares its version with the stored one, as       *)
(* strings, and puts its selectors, its routers and last its version, one  *)
(* key after the other; a client caches all selectors at the first one it  *)
(* needs and each router by itself, and never reads either again.          *)
(*                                                                         *)
(* Faults: the read of the version may fail, and a put, having been        *)
(* applied or not; a process may crash at any step and start again; the    *)
(* mutex belongs to a lease of 5 s, which may run out while its process    *)
(* goes on, for nothing fences the puts.                                   *)
(***************************************************************************)
EXTENDS Naturals, Sequences, FiniteSets

CONSTANTS Procs,       \* processes that call NewImpl
          Selectors,   \* selector names
          Routers,     \* router names
          Configs,     \* configurations (YaprConfig)
          ConfigOf,    \* the configuration each process starts with
          Version,     \* the version of each, as a string of digits
          SelectorsOf, \* the selectors of each
          Uses,        \* for each, the selectors its routers' rules name
          None,        \* not a configuration
          MaxFaults    \* bound: crashes, failed puts and lost leases

ASSUME FaultsAssumption == MaxFaults \in Nat
Orphan == "orphan"
ASSUME NoneAssumption == None \notin Configs /\ {None, Orphan} \cap Procs = {}

(* A router only names selectors of its own configuration.  The code does  *)
(* not check it; the files of the repository keep it.                      *)
ASSUME ConfigAssumption ==
    /\ ConfigOf \in [Procs -> Configs]
    /\ Version \in [Configs -> Seq(Nat)]
    /\ SelectorsOf \in [Configs -> SUBSET Selectors]
    /\ \A c \in Configs :
         /\ DOMAIN Uses[c] \subseteq Routers
         /\ \A r \in DOMAIN Uses[c] : Uses[c][r] \subseteq SelectorsOf[c]

VARIABLES pc,      \* where each process is
          left,    \* the keys it still has to put
          holder,  \* who holds the mutex: a process, None, or a dead one's lease
          lost,    \* a lease ran out under its process (history)
          faults,
          store,   \* etcd: key to the configuration its value is of
          slts,    \* core's selectors map: a copy of the keys, None before
          rtrs,    \* core's routers map
          late     \* routers a process cached after the selectors (history)

vars == <<pc, left, holder, lost, faults, store, slts, rtrs, late>>
cacheVars == <<slts, rtrs, late>>

Slt(s) == <<"slt", s>>
Rtr(r) == <<"rtr", r>>
VersionKey == <<"version", "">>
Keys == {Slt(s) : s \in Selectors} \cup {Rtr(r) : r \in Routers} \cup {VersionKey}

NoRouters == [r \in Routers |-> None]

(* Go's order of strings. *)
Less(a, b) ==
    \E i \in 1..Len(b) :
        /\ \A j \in 1..(i - 1) : j <= Len(a) /\ a[j] = b[j]
        /\ Len(a) < i \/ a[i] < b[i]

ItemsOf(c) == {Slt(s) : s \in SelectorsOf[c]} \cup {Rtr(r) : r \in DOMAIN Uses[c]}
              \cup {VersionKey}

Init ==
    /\ pc = [p \in Procs |-> "lock"]
    /\ left = [p \in Procs |-> {}]
    /\ holder = None
    /\ lost = FALSE
    /\ faults = 0
    /\ store = [k \in Keys |-> None]
    /\ slts = [p \in Procs |-> None]
    /\ rtrs = [p \in Procs |-> NoRouters]
    /\ late = [p \in Procs |-> {}]

-----------------------------------------------------------------------------
Lock(p) ==
    /\ pc[p] = "lock" /\ holder = None
    /\ pc' = [pc EXCEPT ![p] = "check"]
    /\ holder' = p
    /\ UNCHANGED <<left, lost, faults, store, cacheVars>>

IsLoaded_Never(p) == FALSE
IsLoaded(p) ==
    /\ store[VersionKey] # None
    /\ ~Less(Version[store[VersionKey]], Version[ConfigOf[p]])

(* Reading the version, and the early return when it is not older. *)
WhenLoaded_Locked == "done"
WhenLoaded == "unlock"

Check(p) ==
    /\ pc[p] = "check"
    /\ IF IsLoaded(p)
       THEN pc' = [pc EXCEPT ![p] = WhenLoaded] /\ UNCHANGED left
       ELSE /\ pc' = [pc EXCEPT ![p] = "put"]
            /\ left' = [left EXCEPT ![p] = ItemsOf(ConfigOf[p])]
    /\ UNCHANGED <<holder, lost, faults, store, cacheVars>>

CheckFails(p) ==
    /\ pc[p] = "check" /\ faults < MaxFaults
    /\ faults' = faults + 1
    /\ pc' = [pc EXCEPT ![p] = "abort"]
    /\ UNCHANGED <<left, holder, lost, store, cacheVars>>

(* The order of the puts. *)
Rank_RoutersFirst(k) == CASE k[1] = "rtr" -> 1 [] k[1] = "slt" -> 2 [] OTHER -> 3
Rank_VersionFirst(k) == CASE k[1] = "slt" -> 2 [] k[1] = "rtr" -> 3 [] OTHER -> 1
Rank(k) == CASE k[1] = "slt" -> 1 [] k[1] = "rtr" -> 2 [] OTHER -> 3

AfterError_Continue(rest) == [pc |-> "put", left |-> rest]
AfterError(rest) == [pc |-> "abort", left |-> {}]

Written(k, p) == [store EXCEPT ![k] = ConfigOf[p]]

Put(p) ==
    /\ pc[p] = "put"
    /\ \E k \in left[p] :
         LET rest == left[p] \ {k} IN
         /\ \A other \in left[p] : Rank(k) <= Rank(other)
         /\ \/ /\ store' = Written(k, p)
               /\ left' = [left EXCEPT ![p] = rest]
               /\ pc' = [pc EXCEPT ![p] = IF rest = {} THEN "unlock" ELSE "put"]
               /\ UNCHANGED faults
            \/ /\ faults < MaxFaults
               /\ faults' = faults + 1
               /\ store' \in {store, Written(k, p)}
               /\ left' = [left EXCEPT ![p] = AfterError(rest).left]
               /\ pc' = [pc EXCEPT ![p] = AfterError(rest).pc]
    /\ UNCHANGED <<holder, lost, cacheVars>>

(* The deferred Unlock and Close.  After an error NewImpl panics; a lease  *)
(* that is gone cannot be closed, which is fatal too.                      *)
Unlock(p) ==
    /\ pc[p] \in {"unlock", "abort"}
    /\ pc' = [pc EXCEPT ![p] = IF pc[p] = "unlock" /\ holder = p THEN "done" ELSE "down"]
    /\ holder' = IF holder = p THEN None ELSE holder
    /\ UNCHANGED <<left, lost, faults, store, cacheVars>>

-----------------------------------------------------------------------------
(* Reading a router and all selectors from etcd ... *)
ReadRouter(r) == store[Rtr(r)]
ReadSelectors == [s \in Selectors |-> store[Slt(s)]]

(* ... which core.GetSelector does once, for every selector there is, and  *)
(* core.GetRouter for each router not cached; one not stored is an error.  *)
GetSelector(p) ==
    /\ pc[p] = "done" /\ slts[p] = None
    /\ slts' = [slts EXCEPT ![p] = ReadSelectors]
    /\ UNCHANGED <<pc, left, holder, lost, faults, store, rtrs, late>>

GetRouter(p, r) ==
    /\ pc[p] = "done" /\ rtrs[p][r] = None /\ ReadRouter(r) # None
    /\ rtrs' = [rtrs EXCEPT ![p][r] = ReadRouter(r)]
    /\ late' = [late EXCEPT ![p] = IF slts[p] = None THEN @ ELSE @ \cup {r}]
    /\ UNCHANGED <<pc, left, holder, lost, faults, store, slts>>

-----------------------------------------------------------------------------
Crash(p) ==
    /\ pc[p] # "down" /\ faults < MaxFaults
    /\ faults' = faults + 1
    /\ pc' = [pc EXCEPT ![p] = "down"]
    /\ left' = [left EXCEPT ![p] = {}]
    /\ holder' = IF holder = p THEN Orphan ELSE holder
    /\ slts' = [slts EXCEPT ![p] = None]
    /\ rtrs' = [rtrs EXCEPT ![p] = NoRouters]
    /\ late' = [late EXCEPT ![p] = {}]
    /\ UNCHANGED <<lost, store>>

Restart(p) ==
    /\ pc[p] = "down"
    /\ pc' = [pc EXCEPT ![p] = "lock"]
    /\ UNCHANGED <<left, holder, lost, faults, store, cacheVars>>

(* etcd drops the lease of a dead process, *)
Expire ==
    /\ holder = Orphan
    /\ holder' = None
    /\ UNCHANGED <<pc, left, lost, faults, store, cacheVars>>

(* or of one that could not keep it alive. *)
LoseLease(p) ==
    /\ holder = p /\ faults < MaxFaults
    /\ faults' = faults + 1
    /\ holder' = None
    /\ lost' = TRUE
    /\ UNCHANGED <<pc, left, store, cacheVars>>

Next == \/ \E p \in Procs : \/ Lock(p) \/ Check(p) \/ CheckFails(p) \/ Put(p)
                            \/ Unlock(p) \/ GetSelector(p) \/ Crash(p) \/ Restart(p) \/ LoseLease(p)
                            \/ \E r \in Routers : GetRouter(p, r)
        \/ Expire

Spec == Init /\ [][Next]_vars

(* etcd answers, grants a free mutex and expires the leases of the dead. *)
FairSpec == /\ Spec /\ WF_vars(Expire)
            /\ \A p \in Procs : WF_vars(Lock(p)) /\ WF_vars(Check(p))
                                /\ WF_vars(Put(p)) /\ WF_vars(Unlock(p))

-----------------------------------------------------------------------------
(* Types, and that a process has keys left exactly while it puts them. *)
TypeOK ==
    /\ pc \in [Procs -> {"lock", "check", "put", "unlock", "abort", "done", "down"}]
    /\ left \in [Procs -> SUBSET Keys]
    /\ \A p \in Procs : left[p] # {} <=> pc[p] = "put"
    /\ holder \in Procs \cup {None, Orphan}
    /\ lost \in BOOLEAN
    /\ faults \in 0..MaxFaults
    /\ store \in [Keys -> Configs \cup {None}]
    /\ slts \in [Procs -> [Selectors -> Configs \cup {None}] \cup {None}]
    /\ rtrs \in [Procs -> [Routers -> Configs \cup {None}]]
    /\ late \in [Procs -> SUBSET Routers]

(***************************************************************************)
(* Wherever loads fail, crash or overlap, a stored router finds every      *)
(* selector its rules name: LoadConfig puts the selectors first            *)
(* (impl.go:105-131).                                                      *)
(***************************************************************************)
RoutersRunnable ==
    \A r \in Routers :
        LET c == store[Rtr(r)] IN
        c # None => /\ r \in DOMAIN Uses[c]
                    /\ \A s \in Uses[c][r] : store[Slt(s)] # None

(***************************************************************************)
(* A client finds the selectors of a router it cached before the           *)
(* selectors, even if it cached both in the middle of a load.  A router    *)
(* cached later may name selectors the client will never see               *)
(* (selector.go:33-43, router.go:27-36).                                   *)
(***************************************************************************)
ClientRunnable ==
    \A p \in Procs : \A r \in Routers \ late[p] :
        LET c == rtrs[p][r] IN
        c # None /\ slts[p] # None =>
            \A s \in Uses[c][r] : slts[p][s] # None

(***************************************************************************)
(* While no lease ran out under its process: the stored version stands for *)
(* a whole configuration, each of whose keys is stored, from it or from    *)
(* one not older; and a process that went on after LoadConfig finds a      *)
(* version not older than its own.  A crashed load never leaves a version  *)
(* behind that the next one would take for done (impl.go:97-103, 133).     *)
(***************************************************************************)
AtLeast(c, d) == c # None /\ ~Less(Version[c], Version[d])

LoadedIsComplete ==
    ~lost =>
        /\ store[VersionKey] # None =>
             \A k \in ItemsOf(store[VersionKey]) : AtLeast(store[k], store[VersionKey])
        /\ \A p \in Procs : pc[p] \in {"unlock", "done"} =>
             AtLeast(store[VersionKey], ConfigOf[p])

(***************************************************************************)
(* Nor does the stored version ever go back (impl.go:97-103); the order is *)
(* that of strings, in which 10.0 comes before 9.0.                        *)
(***************************************************************************)
VersionMonotone ==
    [][~lost' /\ store[VersionKey] # None =>
         AtLeast(store'[VersionKey], store[VersionKey])]_vars

(***************************************************************************)
(* A process that waits for the mutex gets through its load or stops: no   *)
(* error, early return or crash of another leaves the mutex locked         *)
(* (impl.go:73-90).                                                        *)
(***************************************************************************)
LoadEnds == \A p \in Procs : pc[p] = "lock" ~> pc[p] \in {"done", "down"}
=============================================================================
