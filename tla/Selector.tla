------------------------------ MODULE Selector ------------------------------
(***************************************************************************)
(* Selector.Select (selector.go), called by concurrent requests, over a    *)
(* service that the watch and attribute goroutines change meanwhile.       *)
(* Select builds the strategy once, refreshes its endpoints at most every  *)
(* 50 ms when the service has a newer version, lets it pick, and looks the *)
(* pick up in the service again.                                           *)
(*                                                                         *)
(* The strategy is abstracted to the table its Update received; its Select *)
(* picks any endpoint of the table.  s.strategy, s.lastVersion and         *)
(* s.lastUpdate are read outside s.mu, each read a step of its own.        *)
(***************************************************************************)
EXTENDS Service

CONSTANTS Threads,        \* goroutines that call Select
          NoThread,       \* holder of a free lock
          Filtered,       \* the strategy's EndpointFilters are Good and Fuse
          HasMaxRequests, \* the selector sets MaxRequests
          Strategies      \* configured: with a builder ("nil") or without ("unknown")

ASSUME NoThreadAssumption == NoThread \notin Threads
ASSUME FlagsAssumption == /\ Filtered \in BOOLEAN
                          /\ HasMaxRequests \in BOOLEAN
                          /\ Strategies \subseteq {"nil", "unknown"}

VARIABLES strategy,     \* s.strategy: nil ("unknown" if it stays so), or built
          table,        \* what strategy.Update received last
          lastVersion,
          due,          \* more than 50 ms since s.lastUpdate
          mu,           \* holder of s.mu
          strategyMu,   \* holder of s.strategyMu for writing
          pc,           \* where each Select is
          ver,          \* Select's local version
          pick,         \* the endpoint strategy.Select returned
          result        \* what the thread's last Select returned

selectorVars == <<strategy, table, lastVersion, due, mu, strategyMu, pc, ver, pick, result>>
vars == <<serviceVars, selectorVars>>

Out == "out"      \* not in the table
NoEndpoint == "none"

(***************************************************************************)
(* EndpointsWithAttribute: each listed endpoint that passes the strategy's *)
(* filters, with its attributes.  NoAttribute stands for NewDefaultAttr(). *)
(***************************************************************************)
GoodEndpointFilter(e) == available[e] = "up"
FuseEndpointFilter(e) == HasMaxRequests => inSelector[e] # "over"
Passes(e) == Filtered => GoodEndpointFilter(e) /\ FuseEndpointFilter(e)

EndpointsWithAttribute ==
    [e \in Endpoints |-> IF endpoints[e] > 0 /\ Passes(e) THEN inSelector[e] ELSE Out]

Offered(t) == {e \in Endpoints : t[e] # Out}

Crashed == \E t \in Threads : pc[t] = "panic"

Goto(t, from, to) == /\ pc[t] = from
                     /\ pc' = [pc EXCEPT ![t] = to]

(* Select returns; its locals go out of scope. *)
Return(t, from, value) == /\ Goto(t, from, "idle")
                          /\ result' = [result EXCEPT ![t] = value]
                          /\ ver' = [ver EXCEPT ![t] = 0]
                          /\ pick' = [pick EXCEPT ![t] = NoEndpoint]

(* A step that changes nothing but where its thread is. *)
OnlyMoves ==
    UNCHANGED <<serviceVars, strategy, table, lastVersion, due, mu, strategyMu, ver, pick, result>>

SelectorInit ==
    /\ strategy \in Strategies
    /\ table = [e \in Endpoints |-> Out]
    /\ lastVersion = 0
    /\ due = TRUE
    /\ mu = NoThread
    /\ strategyMu = NoThread
    /\ pc = [t \in Threads |-> "idle"]
    /\ ver = [t \in Threads |-> 0]
    /\ pick = [t \in Threads |-> NoEndpoint]
    /\ result = [t \in Threads |-> "none"]

Init == ServiceInit /\ SelectorInit

-----------------------------------------------------------------------------
(* Select starts: the unlocked test of s.strategy. *)
Begin(t) ==
    /\ Goto(t, "idle", IF strategy = "built" THEN "throttle" ELSE "build")
    /\ result' = [result EXCEPT ![t] = "none"]
    /\ UNCHANGED <<serviceVars, strategy, table, lastVersion, due, mu, strategyMu, ver, pick>>

(* Under s.mu, GetStrategy unless another Select was first. *)
Build(t) ==
    /\ mu = NoThread
    /\ strategy # "unknown"
    /\ Goto(t, "build", "throttle")
    /\ strategy' = "built"
    /\ UNCHANGED <<serviceVars, table, lastVersion, due, mu, strategyMu, ver, pick, result>>

(* GetStrategy knows no builder: Select returns its error with s.mu locked. *)
BuildFails(t) ==
    /\ mu = NoThread
    /\ strategy = "unknown"
    /\ Return(t, "build", "error")
    /\ mu' = t
    /\ UNCHANGED <<serviceVars, strategy, table, lastVersion, due, strategyMu>>

Throttle(t) ==
    /\ Goto(t, "throttle", IF due THEN "version" ELSE "select")
    /\ OnlyMoves

(* Service.Version(): two unlocked tests of dirty, update(), the read. *)
VersionDirty_SkipsUpdate(t) == Goto(t, "version", "verRead") /\ OnlyMoves

VersionDirty(t) ==
    /\ Goto(t, "version", IF dirty THEN "verCheck" ELSE "verRead")
    /\ OnlyMoves

VersionCheck(t) ==
    /\ Goto(t, "verCheck", IF dirty THEN "verUpdate" ELSE "verRead")
    /\ OnlyMoves

VersionUpdate(t) ==
    /\ Goto(t, "verUpdate", "verRead")
    /\ UpdateLocked
    /\ UNCHANGED <<watcher, events, strategy, table, lastVersion, due, mu, strategyMu, ver, pick, result>>

VersionRead(t) ==
    /\ Goto(t, "verRead", "compare")
    /\ ver' = [ver EXCEPT ![t] = version]
    /\ UNCHANGED <<serviceVars, strategy, table, lastVersion, due, mu, strategyMu, pick, result>>

(* The unlocked comparison with s.lastVersion, and the one under s.mu. *)
Newer(t) == ver[t] > lastVersion

Compare(t) ==
    /\ Goto(t, "compare", IF Newer(t) THEN "lock" ELSE "select")
    /\ OnlyMoves

Lock_NoRecheck(t) ==
    /\ mu = NoThread
    /\ Goto(t, "lock", "attrs")
    /\ mu' = t
    /\ strategyMu' = t
    /\ UNCHANGED <<serviceVars, strategy, table, lastVersion, due, ver, pick, result>>

Lock(t) ==
    /\ mu = NoThread
    /\ Goto(t, "lock", IF Newer(t) THEN "attrs" ELSE "select")
    /\ mu' = IF Newer(t) THEN t ELSE NoThread
    /\ strategyMu' = IF Newer(t) THEN t ELSE NoThread
    /\ UNCHANGED <<serviceVars, strategy, table, lastVersion, due, ver, pick, result>>

(* Service.Attributes(): its own tests of dirty and update() ... *)
AttributesDirty(t) ==
    /\ Goto(t, "attrs", IF dirty THEN "attrCheck" ELSE "refresh")
    /\ OnlyMoves

AttributesCheck(t) ==
    /\ Goto(t, "attrCheck", IF dirty THEN "attrUpdate" ELSE "refresh")
    /\ OnlyMoves

AttributesUpdate(t) ==
    /\ Goto(t, "attrUpdate", "refresh")
    /\ UpdateLocked
    /\ UNCHANGED <<watcher, events, strategy, table, lastVersion, due, mu, strategyMu, ver, pick, result>>

(* ... then the read under the service's mutex, filters, strategy.Update. *)
Refresh(t) ==
    /\ Goto(t, "refresh", "commit")
    /\ table' = EndpointsWithAttribute
    /\ strategyMu' = NoThread
    /\ UNCHANGED <<serviceVars, strategy, lastVersion, due, mu, ver, pick, result>>

(* s.lastVersion is the version read at the start, not the current one. *)
Commit_CurrentVersion(t) ==
    /\ Goto(t, "commit", "stamp")
    /\ lastVersion' = version
    /\ UNCHANGED <<serviceVars, strategy, table, due, mu, strategyMu, ver, pick, result>>

Commit(t) ==
    /\ Goto(t, "commit", "stamp")
    /\ lastVersion' = ver[t]
    /\ UNCHANGED <<serviceVars, strategy, table, due, mu, strategyMu, ver, pick, result>>

Stamp_KeepsLock(t) ==
    /\ Goto(t, "stamp", "select")
    /\ due' = FALSE
    /\ UNCHANGED <<serviceVars, strategy, table, lastVersion, mu, strategyMu, ver, pick, result>>

Stamp(t) ==
    /\ Goto(t, "stamp", "select")
    /\ due' = FALSE
    /\ mu' = NoThread
    /\ UNCHANGED <<serviceVars, strategy, table, lastVersion, strategyMu, ver, pick, result>>

(* strategy.Select under the read lock. *)
Pick(t) ==
    /\ strategyMu = NoThread
    /\ \E e \in Offered(table) : pick' = [pick EXCEPT ![t] = e]
    /\ Goto(t, "select", "lookup")
    /\ UNCHANGED <<serviceVars, strategy, table, lastVersion, due, mu, strategyMu, ver, result>>

PickNothing(t) ==
    /\ strategyMu = NoThread
    /\ Offered(table) = {}
    /\ Return(t, "select", "ErrNoEndpointAvailable")
    /\ UNCHANGED <<serviceVars, strategy, table, lastVersion, due, mu, strategyMu>>

(***************************************************************************)
(* Service.GetAttribute(pick): nil when attrMap has no entry, and then     *)
(* attribute.Available is a nil dereference; an entry without this         *)
(* selector has a nil AttributeInSelector, and then so is attribute.RPS,   *)
(* which is read only when MaxRequests is set.                             *)
(***************************************************************************)
Lookup(t) ==
    LET e == pick[t] IN
    /\ pc[t] = "lookup"
    /\ available[e] # "absent"
    /\ available[e] = "up" /\ HasMaxRequests => inSelector[e] # NoAttribute
    /\ Return(t, "lookup",
              IF available[e] = "down" THEN "ErrEndpointUnavailable"
              ELSE IF HasMaxRequests /\ inSelector[e] \in {"at", "over"} THEN "ErrEndpointRPSLimit"
              ELSE "ok")
    /\ UNCHANGED <<serviceVars, strategy, table, lastVersion, due, mu, strategyMu>>

LookupPanics(t) ==
    LET e == pick[t] IN
    /\ pc[t] = "lookup"
    /\ \/ available[e] = "absent"
       \/ available[e] = "up" /\ HasMaxRequests /\ inSelector[e] = NoAttribute
    /\ Goto(t, "lookup", "panic")
    /\ OnlyMoves

(* 50 ms pass. *)
Tick ==
    /\ ~due
    /\ due' = TRUE
    /\ UNCHANGED <<serviceVars, strategy, table, lastVersion, mu, strategyMu, pc, ver, pick, result>>

-----------------------------------------------------------------------------
Choose(t) == Pick(t) \/ PickNothing(t)

Finish(t) == Lookup(t) \/ LookupPanics(t)

Step(t) ==
    \/ Build(t) \/ BuildFails(t) \/ Throttle(t)
    \/ VersionDirty(t) \/ VersionCheck(t) \/ VersionUpdate(t) \/ VersionRead(t)
    \/ Compare(t) \/ Lock(t)
    \/ AttributesDirty(t) \/ AttributesCheck(t) \/ AttributesUpdate(t)
    \/ Refresh(t) \/ Commit(t) \/ Stamp(t)
    \/ Choose(t) \/ Finish(t)

Environment == /\ ServiceNext
               /\ UNCHANGED selectorVars

(* An unrecovered panic ends the process: nothing happens afterwards. *)
Next == /\ ~Crashed
        /\ \/ \E t \in Threads : Begin(t) \/ Step(t)
           \/ Tick
           \/ Environment

Spec == Init /\ [][Next]_vars

(***************************************************************************)
(* Fairness: the Go scheduler runs every goroutine that can run, and a     *)
(* sync.Mutex hands itself to a waiter that has waited too long (strong    *)
(* fairness: only waiting for a lock ever disables a step).  BusySpec adds *)
(* that requests keep arriving and that time passes.                       *)
(***************************************************************************)
Fairness ==
    /\ \A t \in Threads : SF_vars(~Crashed /\ Step(t))
    /\ WF_vars(~Crashed /\ (WatchCheck \/ WatchUpdate) /\ UNCHANGED selectorVars)

FairSpec == Spec /\ Fairness

BusySpec == /\ FairSpec
            /\ WF_vars(~Crashed /\ Tick)
            /\ \A t \in Threads : WF_vars(~Crashed /\ Begin(t))

-----------------------------------------------------------------------------
PCs == {"idle", "build", "throttle", "version", "verCheck", "verUpdate", "verRead",
        "compare", "lock", "attrs", "attrCheck", "attrUpdate", "refresh", "commit",
        "stamp", "select", "lookup", "panic"}

Results == {"none", "ok", "error", "ErrNoEndpointAvailable", "ErrEndpointUnavailable",
            "ErrEndpointRPSLimit"}

SelectorTypeOK ==
    /\ strategy \in {"nil", "unknown", "built"}
    /\ table \in [Endpoints -> AttributeInSelector \cup {NoAttribute, Out}]
    /\ lastVersion \in Nat
    /\ due \in BOOLEAN
    /\ mu \in Threads \cup {NoThread}
    /\ strategyMu \in Threads \cup {NoThread}
    /\ pc \in [Threads -> PCs]
    /\ ver \in [Threads -> Nat]
    /\ pick \in [Threads -> Endpoints \cup {NoEndpoint}]
    /\ result \in [Threads -> Results]

(* Every variable of the service and of the selector has its type. *)
TypeOK == ServiceTypeOK /\ SelectorTypeOK

(***************************************************************************)
(* No change of the service is ever lost on a selector: when it believes   *)
(* to be up to date (lastVersion = version, nothing dirty), so that no     *)
(* Select will rebuild, the strategy's table is what the service offers.   *)
(* About the unlocked version reads of Select (selector.go:113-128)        *)
(* against RegisterPod, RemovePod, HangPod and SetAttributeInSelector.     *)
(***************************************************************************)
SnapshotFresh ==
    lastVersion = version /\ ~dirty => table = EndpointsWithAttribute

(***************************************************************************)
(* s.lastVersion never goes back, although Selects that read the version   *)
(* at different times commit in any order: an older table never replaces a *)
(* newer one as the current one (the second test under s.mu).              *)
(***************************************************************************)
LastVersionMonotone == [][lastVersion' >= lastVersion]_lastVersion

(***************************************************************************)
(* Every Select returns (or the process panicked): no order in which the   *)
(* requests take s.mu and s.strategyMu leaves one waiting for ever.        *)
(***************************************************************************)
SelectReturns ==
    \A t \in Threads : pc[t] # "idle" ~> pc[t] = "idle" \/ Crashed

(***************************************************************************)
(* When the service stops changing and requests keep coming, the strategy  *)
(* ends up with what the service offers and keeps it: the 50 ms throttle   *)
(* and the lazily cleared dirty flag delay a change but never drop one.    *)
(***************************************************************************)
EventuallyCurrent == <>[](Crashed \/ table = EndpointsWithAttribute)
=============================================================================
