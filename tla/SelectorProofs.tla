--------------------------- MODULE SelectorProofs ---------------------------
(***************************************************************************)
(* Proofs about Selector, for any pods, endpoints, threads and bounds:     *)
(* type correctness, that no change of the service is lost on a selector   *)
(* (SnapshotFresh), that lastVersion never goes back, and that a Select    *)
(* which passed the throttle picks nothing stale (FreshPick).              *)
(***************************************************************************)
EXTENDS SelectorFresh, TLAPS, FiniteSetTheorems

-----------------------------------------------------------------------------
(* Where a Select holds s.mu, where it also holds s.strategyMu, and where  *)
(* its local version has been read.                                        *)
HoldsBoth == {"attrs", "attrCheck", "attrUpdate", "refresh"}
HoldsMu == HoldsBoth \cup {"commit", "stamp"}
Rebuilding == HoldsBoth \cup {"commit"}

(***************************************************************************)
(* The inductive invariant.  SnapshotFresh alone is not inductive: Commit  *)
(* makes lastVersion current for a table read earlier, so the thread that  *)
(* commits must carry the fact that its table is current if its version    *)
(* still is; and a table may be replaced by nobody else meanwhile, which   *)
(* is mutual exclusion on s.mu.                                            *)
(***************************************************************************)
MutexInv == \A t \in Threads : pc[t] \in HoldsMu => mu = t

VersionInv == /\ lastVersion <= version
              /\ \A t \in Threads : ver[t] <= version
              /\ \A t \in Threads : pc[t] \in Rebuilding => lastVersion < ver[t]

CommitInv == \A t \in Threads :
    pc[t] = "commit" /\ ver[t] = version /\ ~dirty => table = EndpointsWithAttribute

Inv == TypeOK /\ MutexInv /\ VersionInv /\ CommitInv /\ SnapshotFresh

-----------------------------------------------------------------------------
(* What the service offers depends on its catalog only. *)
LEMMA SameOffer == UNCHANGED catalogVars => EndpointsWithAttribute' = EndpointsWithAttribute
BY DEF catalogVars, EndpointsWithAttribute, Passes, GoodEndpointFilter, FuseEndpointFilter

(* A table read from the service has the type of a table. *)
LEMMA OfferType ==
    ASSUME ServiceTypeOK
    PROVE  EndpointsWithAttribute \in [Endpoints -> AttributeInSelector \cup {NoAttribute, Out}]
BY DEF ServiceTypeOK, EndpointsWithAttribute

(* update() and the goroutines of the service keep the service's types. *)
LEMMA UpdateType ==
    ASSUME ServiceTypeOK, UpdateLocked, events' = events,
           watcher' \in {"idle", "check", "update"}
    PROVE  ServiceTypeOK'
<1>1. dirty' \in BOOLEAN
  BY Zenon DEF UpdateLocked
<1>2. version' \in Nat
  BY DEF ServiceTypeOK, UpdateLocked
<1>3. UNCHANGED <<endpoints, endpointsSet, endpointsByPod, available, inSelector>>
  BY DEF UpdateLocked, catalogVars
<1>4. QED
  BY <1>1, <1>2, <1>3 DEF ServiceTypeOK

LEMMA ServiceType ==
    ASSUME ServiceTypeOK, ServiceNext
    PROVE  ServiceTypeOK'
<1>1. CASE Watch
  <2>0. PICK pod \in Pods : \/ \E eps \in SUBSET EndpointsOf(pod) : eps # {} /\ RegisterPod(pod, eps)
                            \/ RemovePod(pod)
                            \/ HangPod(pod)
    BY <1>1 DEF Watch
  <2>1. ASSUME NEW eps \in SUBSET EndpointsOf(pod), RegisterPod(pod, eps)
        PROVE  ServiceTypeOK'
    <3>1. eps \subseteq Endpoints
      BY DEF EndpointsOf
    <3>2. QED
      BY <1>1, <2>1, <3>1 DEF ServiceTypeOK, Watch, RegisterPod, catalogVars
  <2>2. CASE RemovePod(pod)
    BY <1>1, <2>2 DEF ServiceTypeOK, Watch, RemovePod
  <2>3. CASE HangPod(pod)
    BY <1>1, <2>3 DEF ServiceTypeOK, Watch, HangPod
  <2>4. QED
    BY <2>0, <2>1, <2>2, <2>3
<1>2. CASE WatchCheck
  BY <1>2 DEF WatchCheck, ServiceTypeOK, catalogVars
<1>3. CASE WatchUpdate
  BY <1>3, UpdateType DEF WatchUpdate
<1>4. CASE AttributeChange
  BY <1>4, RPSLevelsAssumption DEF AttributeChange, SetAttributeInSelector, ServiceTypeOK
<1>5. QED
  BY <1>1, <1>2, <1>3, <1>4 DEF ServiceNext

-----------------------------------------------------------------------------
(* The state GetServices leaves behind: at least one pod is registered, so *)
(* the version is positive and no selector starts up to date.              *)
LEMMA InitInv == Init => Inv
<1> SUFFICES ASSUME Init PROVE Inv
  OBVIOUS
<1> DEFINE registered == {p \in Pods : endpointsByPod[p] # {}}
<1>1. version \in Nat /\ version # 0
  <2>1. IsFiniteSet(registered) /\ registered # {}
    BY PodsAssumption, FS_Subset DEF Init, ServiceInit
  <2>2. QED
    BY <2>1, FS_CardinalityType, FS_EmptySet DEF Init, ServiceInit
<1>2. ServiceTypeOK
  <2>1. endpointsByPod \in [Pods -> SUBSET Endpoints] /\ endpointsSet \subseteq Endpoints
    BY DEF Init, ServiceInit
  <2>2. inSelector \in [Endpoints -> AttributeInSelector \cup {NoAttribute}]
    BY RPSLevelsAssumption DEF Init, ServiceInit
  <2>3. QED
    BY <1>1, <2>1, <2>2 DEF Init, ServiceInit, ServiceTypeOK
<1>3. SelectorTypeOK
  BY FlagsAssumption DEF Init, SelectorInit, SelectorTypeOK, PCs, Results
<1>4. MutexInv /\ CommitInv
  BY DEF Init, SelectorInit, MutexInv, CommitInv, HoldsMu, HoldsBoth
<1>5. VersionInv /\ SnapshotFresh
  BY <1>1 DEF Init, SelectorInit, VersionInv, SnapshotFresh, Rebuilding, HoldsBoth
<1>6. QED
  BY <1>2, <1>3, <1>4, <1>5 DEF Inv, TypeOK

-----------------------------------------------------------------------------
(* A step that only moves its thread, and not into a critical section. *)
LEMMA Moves ==
    ASSUME Inv, NEW t \in Threads, NEW a, NEW b \in PCs, Goto(t, a, b), OnlyMoves,
           b \in HoldsMu => a \in HoldsBoth /\ b \in HoldsBoth
    PROVE  Inv'
<1>1. UNCHANGED <<catalogVars, dirty, version, table, lastVersion, mu, ver>>
  BY DEF OnlyMoves, serviceVars
<1>2. EndpointsWithAttribute' = EndpointsWithAttribute
  BY <1>1, SameOffer
<1>3. TypeOK'
  BY DEF Inv, TypeOK, ServiceTypeOK, SelectorTypeOK, Goto, OnlyMoves, serviceVars, catalogVars
<1>4. MutexInv'
  BY <1>1 DEF Inv, TypeOK, SelectorTypeOK, MutexInv, Goto, HoldsMu, HoldsBoth
<1>5. VersionInv'
  BY <1>1 DEF Inv, TypeOK, SelectorTypeOK, VersionInv, Goto, HoldsMu, HoldsBoth, Rebuilding
<1>6. CommitInv'
  BY <1>1, <1>2 DEF Inv, TypeOK, SelectorTypeOK, CommitInv, Goto, HoldsMu, HoldsBoth
<1>7. SnapshotFresh'
  BY <1>1, <1>2 DEF Inv, SnapshotFresh
<1>8. QED
  BY <1>3, <1>4, <1>5, <1>6, <1>7 DEF Inv

(* A change of the catalog leaves the service dirty, so no table counts as *)
(* current; a bump of the version leaves every recorded version behind.    *)
LEMMA ServiceSteps ==
    ASSUME Inv, ServiceTypeOK', UNCHANGED <<table, lastVersion, mu, ver>>, SelectorTypeOK',
           \A t \in Threads : pc'[t] = "commit" => pc[t] = "commit",
           \A t \in Threads : pc'[t] \in Rebuilding => pc[t] \in Rebuilding,
           \A t \in Threads : pc'[t] \in HoldsMu => pc[t] \in HoldsMu,
           \/ dirty' /\ version' = version
           \/ version' = version + 1
           \/ UNCHANGED <<catalogVars, dirty, version>>
    PROVE  Inv'
<1>1. MutexInv'
  BY DEF Inv, MutexInv
<1>2. VersionInv'
  BY DEF Inv, VersionInv, TypeOK, ServiceTypeOK, SelectorTypeOK
<1>3. CASE dirty' /\ version' = version
  BY <1>1, <1>2, <1>3 DEF Inv, TypeOK, CommitInv, SnapshotFresh
<1>4. CASE version' = version + 1
  <2>1. lastVersion' # version' /\ \A t \in Threads : ver'[t] # version'
    BY <1>4 DEF Inv, VersionInv, TypeOK, ServiceTypeOK, SelectorTypeOK
  <2>2. QED
    BY <1>1, <1>2, <2>1 DEF Inv, TypeOK, CommitInv, SnapshotFresh
<1>5. CASE UNCHANGED <<catalogVars, dirty, version>>
  <2>1. EndpointsWithAttribute' = EndpointsWithAttribute
    BY <1>5, SameOffer
  <2>2. CommitInv' /\ SnapshotFresh'
    BY <1>5, <2>1 DEF Inv, CommitInv, SnapshotFresh
  <2>3. QED
    BY <1>1, <1>2, <2>2 DEF Inv, TypeOK
<1>6. QED
  BY <1>3, <1>4, <1>5

-----------------------------------------------------------------------------
(* A Select that returns gives up its locals outside any critical section. *)
LEMMA Returns ==
    ASSUME Inv, NEW t \in Threads, NEW a, NEW v \in Results, Return(t, a, v),
           UNCHANGED <<serviceVars, strategy, table, lastVersion, due, strategyMu>>,
           mu' = mu \/ (mu = NoThread /\ mu' = t)
    PROVE  Inv'
<1>1. EndpointsWithAttribute' = EndpointsWithAttribute
  BY SameOffer DEF serviceVars
<1>2. TypeOK'
  BY DEF Inv, TypeOK, ServiceTypeOK, SelectorTypeOK, Return, Goto, serviceVars, catalogVars, PCs
<1>3. MutexInv'
  BY NoThreadAssumption
  DEF Inv, TypeOK, SelectorTypeOK, MutexInv, Return, Goto, HoldsMu, HoldsBoth
<1>4. VersionInv'
  BY DEF Inv, TypeOK, ServiceTypeOK, SelectorTypeOK, VersionInv, Return, Goto, Rebuilding,
         HoldsBoth, serviceVars
<1>5. CommitInv' /\ SnapshotFresh'
  BY <1>1 DEF Inv, TypeOK, SelectorTypeOK, CommitInv, SnapshotFresh, Return, Goto, serviceVars
<1>6. QED
  BY <1>2, <1>3, <1>4, <1>5 DEF Inv

(* The refresh of the table, in the three steps that matter. *)
LEMMA LockInv == ASSUME Inv, NEW t \in Threads, Lock(t) PROVE Inv'
<1>1. UNCHANGED <<catalogVars, dirty, version, table, lastVersion, ver>>
  BY DEF Lock, serviceVars
<1>2. EndpointsWithAttribute' = EndpointsWithAttribute
  BY <1>1, SameOffer
<1>3. TypeOK'
  BY DEF Inv, TypeOK, ServiceTypeOK, SelectorTypeOK, Lock, Goto, serviceVars, catalogVars, PCs
<1>4. MutexInv'
  BY NoThreadAssumption
  DEF Inv, TypeOK, SelectorTypeOK, MutexInv, Lock, Goto, HoldsMu, HoldsBoth
<1>5. VersionInv'
  BY <1>1 DEF Inv, TypeOK, ServiceTypeOK, SelectorTypeOK, VersionInv, Lock, Goto, Newer,
              Rebuilding, HoldsBoth
<1>6. CommitInv' /\ SnapshotFresh'
  BY <1>1, <1>2 DEF Inv, TypeOK, SelectorTypeOK, CommitInv, SnapshotFresh, Lock, Goto
<1>7. QED
  BY <1>3, <1>4, <1>5, <1>6 DEF Inv

LEMMA RefreshInv == ASSUME Inv, NEW t \in Threads, Refresh(t) PROVE Inv'
<1>1. UNCHANGED <<catalogVars, dirty, version, lastVersion, mu, ver>>
  BY DEF Refresh, serviceVars
<1>2. EndpointsWithAttribute' = EndpointsWithAttribute /\ table' = EndpointsWithAttribute
  BY <1>1, SameOffer DEF Refresh
<1>3. TypeOK'
  <2>1. table' \in [Endpoints -> AttributeInSelector \cup {NoAttribute, Out}]
    BY <1>2, OfferType DEF Inv, TypeOK
  <2>2. QED
    BY <2>1 DEF Inv, TypeOK, ServiceTypeOK, SelectorTypeOK, Refresh, Goto, serviceVars,
                catalogVars, PCs
<1>4. MutexInv' /\ VersionInv'
  BY <1>1 DEF Inv, TypeOK, SelectorTypeOK, MutexInv, VersionInv, Refresh, Goto, HoldsMu,
              Rebuilding, HoldsBoth
<1>5. CommitInv' /\ SnapshotFresh'
  BY <1>2 DEF CommitInv, SnapshotFresh
<1>6. QED
  BY <1>3, <1>4, <1>5 DEF Inv

LEMMA CommitStepInv == ASSUME Inv, NEW t \in Threads, Commit(t) PROVE Inv'
<1>1. UNCHANGED <<catalogVars, dirty, version, table, mu, ver>> /\ lastVersion' = ver[t]
  BY DEF Commit, serviceVars
<1>2. EndpointsWithAttribute' = EndpointsWithAttribute
  BY <1>1, SameOffer
<1>3. TypeOK'
  BY DEF Inv, TypeOK, ServiceTypeOK, SelectorTypeOK, Commit, Goto, serviceVars, catalogVars, PCs
<1>4. \A u \in Threads : pc[u] \in HoldsMu => u = t
  BY DEF Inv, MutexInv, Commit, Goto, HoldsMu
<1>5. MutexInv' /\ VersionInv' /\ CommitInv'
  BY <1>1, <1>4 DEF Inv, TypeOK, SelectorTypeOK, MutexInv, VersionInv, CommitInv, Commit, Goto,
                    HoldsMu, Rebuilding, HoldsBoth
<1>6. SnapshotFresh'
  BY <1>1, <1>2 DEF Inv, CommitInv, SnapshotFresh, Commit, Goto
<1>7. QED
  BY <1>3, <1>5, <1>6 DEF Inv

LEMMA StampInv == ASSUME Inv, NEW t \in Threads, Stamp(t) PROVE Inv'
<1>1. UNCHANGED <<catalogVars, dirty, version, table, lastVersion, ver>>
  BY DEF Stamp, serviceVars
<1>2. EndpointsWithAttribute' = EndpointsWithAttribute
  BY <1>1, SameOffer
<1>3. TypeOK'
  <2>1. due' \in BOOLEAN
    BY Zenon DEF Stamp
  <2>2. QED
    BY <2>1 DEF Inv, TypeOK, ServiceTypeOK, SelectorTypeOK, Stamp, Goto, serviceVars,
                catalogVars, PCs
<1>4. \A u \in Threads : pc[u] \in HoldsMu => u = t
  BY DEF Inv, MutexInv, Stamp, Goto, HoldsMu
<1>5. MutexInv' /\ VersionInv'
  BY <1>1, <1>4 DEF Inv, TypeOK, SelectorTypeOK, MutexInv, VersionInv, Stamp, Goto, HoldsMu,
                    Rebuilding, HoldsBoth
<1>6. CommitInv' /\ SnapshotFresh'
  BY <1>1, <1>2 DEF Inv, TypeOK, SelectorTypeOK, CommitInv, SnapshotFresh, Stamp, Goto
<1>7. QED
  BY <1>3, <1>5, <1>6 DEF Inv

(* The remaining steps of a Select that do more than move. *)
LEMMA OtherSteps ==
    ASSUME Inv, NEW t \in Threads, Begin(t) \/ Build(t) \/ VersionRead(t) \/ Pick(t)
    PROVE  Inv'
<1>1. UNCHANGED <<catalogVars, dirty, version, table, lastVersion, mu>>
  BY DEF Begin, Build, VersionRead, Pick, serviceVars
<1>2. EndpointsWithAttribute' = EndpointsWithAttribute
  BY <1>1, SameOffer
<1>3. strategy' \in {"nil", "unknown", "built"}
  BY Zenon DEF Inv, TypeOK, SelectorTypeOK, Begin, Build, VersionRead, Pick
<1>4. TypeOK'
  <2>1. CASE Begin(t)
    BY <2>1 DEF Inv, TypeOK, ServiceTypeOK, SelectorTypeOK, Begin, Goto, serviceVars,
                catalogVars, PCs, Results
  <2>2. CASE Build(t)
    BY <1>3, <2>2 DEF Inv, TypeOK, ServiceTypeOK, SelectorTypeOK, Build, Goto, serviceVars,
                catalogVars, PCs
  <2>3. CASE VersionRead(t)
    BY <2>3 DEF Inv, TypeOK, ServiceTypeOK, SelectorTypeOK, VersionRead, Goto, serviceVars,
                catalogVars, PCs
  <2>4. CASE Pick(t)
    BY <2>4 DEF Inv, TypeOK, ServiceTypeOK, SelectorTypeOK, Pick, Offered, Goto, serviceVars,
                catalogVars, PCs
  <2>5. QED
    BY <2>1, <2>2, <2>3, <2>4
<1>5. MutexInv' /\ CommitInv' /\ SnapshotFresh'
  <2>1. \A u \in Threads : pc'[u] \in HoldsMu => pc'[u] = pc[u] /\ ver'[u] = ver[u]
    BY DEF Inv, TypeOK, SelectorTypeOK, Begin, Build, VersionRead, Pick, Goto, HoldsMu, HoldsBoth
  <2>2. QED
    BY <1>1, <1>2, <2>1 DEF Inv, MutexInv, CommitInv, SnapshotFresh, HoldsMu
<1>6. VersionInv'
  <2>1. \A u \in Threads : /\ ver'[u] <= version
                           /\ pc'[u] \in Rebuilding => pc'[u] = pc[u] /\ ver'[u] = ver[u]
    BY DEF Inv, TypeOK, ServiceTypeOK, SelectorTypeOK, VersionInv, Begin, Build, VersionRead,
           Pick, Goto, Rebuilding, HoldsBoth
  <2>2. QED
    BY <1>1, <2>1 DEF Inv, VersionInv
<1>7. QED
  BY <1>4, <1>5, <1>6 DEF Inv

-----------------------------------------------------------------------------
(* What a goroutine of the service may do to the version and the catalog. *)
LEMMA ServiceStepKinds ==
    ASSUME ServiceNext
    PROVE  \/ dirty' /\ version' = version
           \/ version' = version + 1
           \/ UNCHANGED <<catalogVars, dirty, version>>
<1>1. Watch => dirty' /\ version' = version
  BY Zenon DEF Watch, RegisterPod, RemovePod, HangPod
<1>2. AttributeChange => dirty' /\ version' = version
  BY Zenon DEF AttributeChange, SetAttributeInSelector
<1>3. WatchCheck => UNCHANGED <<catalogVars, dirty, version>>
  BY DEF WatchCheck
<1>4. WatchUpdate => version' = version + 1
  BY DEF WatchUpdate, UpdateLocked
<1>5. QED
  BY <1>1, <1>2, <1>3, <1>4 DEF ServiceNext

LEMMA StepInv == ASSUME Inv, NEW t \in Threads, Step(t) PROVE Inv'
<1>1. CASE Throttle(t) \/ VersionDirty(t) \/ VersionCheck(t) \/ Compare(t)
           \/ AttributesDirty(t) \/ AttributesCheck(t) \/ LookupPanics(t)
  <2>1. PICK a \in PCs, b \in PCs :
           /\ Goto(t, a, b) /\ OnlyMoves
           /\ b \in HoldsMu => a \in HoldsBoth /\ b \in HoldsBoth
    <3>1. CASE Throttle(t)
      BY <3>1 DEF Throttle, PCs, HoldsMu, HoldsBoth
    <3>2. CASE VersionDirty(t)
      BY <3>2 DEF VersionDirty, PCs, HoldsMu, HoldsBoth
    <3>3. CASE VersionCheck(t)
      BY <3>3 DEF VersionCheck, PCs, HoldsMu, HoldsBoth
    <3>4. CASE Compare(t)
      BY <3>4 DEF Compare, PCs, HoldsMu, HoldsBoth
    <3>5. CASE AttributesDirty(t)
      BY <3>5 DEF AttributesDirty, PCs, HoldsMu, HoldsBoth
    <3>6. CASE AttributesCheck(t)
      BY <3>6 DEF AttributesCheck, PCs, HoldsMu, HoldsBoth
    <3>7. CASE LookupPanics(t)
      BY <3>7 DEF LookupPanics, PCs, HoldsMu, HoldsBoth
    <3>8. QED
      BY <1>1, <3>1, <3>2, <3>3, <3>4, <3>5, <3>6, <3>7
  <2>2. QED
    BY <2>1, Moves
<1>2. CASE VersionUpdate(t) \/ AttributesUpdate(t)
  <2>1. UpdateLocked /\ UNCHANGED <<watcher, events, strategy, table, lastVersion, due, mu,
                                    strategyMu, ver, pick, result>>
    BY <1>2 DEF VersionUpdate, AttributesUpdate
  <2>2. ServiceTypeOK' /\ version' = version + 1
    BY <2>1, UpdateType DEF Inv, TypeOK, ServiceTypeOK, UpdateLocked
  <2>3. Goto(t, "verUpdate", "verRead") \/ Goto(t, "attrUpdate", "refresh")
    BY <1>2 DEF VersionUpdate, AttributesUpdate
  <2>4. SelectorTypeOK'
    BY <2>1, <2>3 DEF Inv, TypeOK, SelectorTypeOK, Goto, PCs
  <2>5. \A u \in Threads : /\ pc'[u] = "commit" => pc[u] = "commit"
                           /\ pc'[u] \in Rebuilding => pc[u] \in Rebuilding
                           /\ pc'[u] \in HoldsMu => pc[u] \in HoldsMu
    BY <2>3 DEF Inv, TypeOK, SelectorTypeOK, Goto, Rebuilding, HoldsMu, HoldsBoth
  <2>6. QED
    BY <2>1, <2>2, <2>4, <2>5, ServiceSteps
<1>3. CASE BuildFails(t)
  BY <1>3, Returns DEF BuildFails, Results
<1>4. CASE PickNothing(t)
  BY <1>4, Returns DEF PickNothing, Results
<1>5. CASE Lookup(t)
  BY <1>5, Returns DEF Lookup, Results
<1>6. QED
  BY <1>1, <1>2, <1>3, <1>4, <1>5, LockInv, RefreshInv, CommitStepInv, StampInv, OtherSteps
  DEF Step, Choose, Finish

LEMMA NextInv == Inv /\ [Next]_vars => Inv'
<1> SUFFICES ASSUME Inv, [Next]_vars PROVE Inv'
  OBVIOUS
<1>1. ASSUME NEW t \in Threads, Begin(t) \/ Step(t) PROVE Inv'
  BY <1>1, OtherSteps, StepInv
<1>2. CASE Tick
  <2>1. due' \in BOOLEAN
    BY <1>2, Zenon DEF Tick
  <2>2. ServiceTypeOK' /\ SelectorTypeOK'
    BY <1>2, <2>1 DEF Inv, TypeOK, ServiceTypeOK, SelectorTypeOK, Tick, serviceVars, catalogVars
  <2>3. QED
    BY <1>2, <2>2, ServiceSteps DEF Tick, serviceVars
<1>3. CASE Environment
  <2>1. ServiceTypeOK'
    BY <1>3, ServiceType DEF Environment, Inv, TypeOK
  <2>2. SelectorTypeOK'
    BY <1>3 DEF Environment, selectorVars, Inv, TypeOK, SelectorTypeOK
  <2>3. QED
    BY <1>3, <2>1, <2>2, ServiceStepKinds, ServiceSteps DEF Environment, selectorVars
<1>4. CASE UNCHANGED vars
  <2>1. ServiceTypeOK' /\ SelectorTypeOK'
    BY <1>4 DEF vars, serviceVars, catalogVars, selectorVars, Inv, TypeOK, ServiceTypeOK, SelectorTypeOK
  <2>2. QED
    BY <1>4, <2>1, ServiceSteps DEF vars, serviceVars, selectorVars
<1>5. QED
  BY <1>1, <1>2, <1>3, <1>4 DEF Next

-----------------------------------------------------------------------------
(* Every variable of the service and of the selector keeps its type. *)
THEOREM TypeCorrect == Spec => []TypeOK
<1>1. Inv => TypeOK
  BY DEF Inv
<1>2. QED
  BY InitInv, NextInv, <1>1, PTL DEF Spec

(***************************************************************************)
(* No change of the service is lost on a selector, for any number of       *)
(* threads, pods and endpoints: about Select's unlocked reads of the       *)
(* version and of lastVersion (selector.go:113-128).                       *)
(***************************************************************************)
THEOREM NoLostUpdate == Spec => []SnapshotFresh
<1>1. Inv => SnapshotFresh
  BY DEF Inv
<1>2. QED
  BY InitInv, NextInv, <1>1, PTL DEF Spec

(***************************************************************************)
(* lastVersion never goes back: Selects that read the version at different *)
(* times may commit in any order (the second comparison, selector.go:117). *)
(***************************************************************************)
THEOREM LastVersionNeverBack == Spec => LastVersionMonotone
<1>1. ASSUME Inv, [Next]_vars PROVE [lastVersion' >= lastVersion]_lastVersion
  <2>1. ASSUME NEW t \in Threads, Begin(t) \/ Step(t) PROVE lastVersion' >= lastVersion
    <3>1. CASE Commit(t)
      BY <1>1, <3>1 DEF Commit, Goto, Inv, VersionInv, TypeOK, SelectorTypeOK, ServiceTypeOK, Rebuilding
    <3>2. ~Commit(t) => lastVersion' = lastVersion
      BY <2>1 DEF Begin, Step, Build, BuildFails, Throttle, VersionDirty, VersionCheck,
                  VersionUpdate, VersionRead, Compare, Lock, AttributesDirty, AttributesCheck,
                  AttributesUpdate, Refresh, Stamp, Choose, Pick, PickNothing, Finish, Lookup,
                  LookupPanics, OnlyMoves
    <3>3. QED
      BY <1>1, <3>1, <3>2 DEF Inv, TypeOK, SelectorTypeOK
  <2>2. Tick \/ Environment \/ UNCHANGED vars => lastVersion' = lastVersion
    BY DEF Tick, Environment, selectorVars, vars
  <2>3. QED
    BY <1>1, <2>1, <2>2 DEF Next
<1>2. QED
  BY InitInv, NextInv, <1>1, PTL DEF Spec, LastVersionMonotone

-----------------------------------------------------------------------------
(* A step that leaves the catalog alone leaves it consistent. *)
LEMMA SameCatalog == ASSUME CatalogConsistent, UNCHANGED catalogVars PROVE CatalogConsistent'
BY DEF CatalogConsistent, Listed, catalogVars, EndpointsOf

LEMMA CatalogStep ==
    ASSUME ServiceTypeOK, CatalogConsistent, ServiceNext
    PROVE  CatalogConsistent'
<1>1. CASE Watch
  <2>0. PICK pod \in Pods : \/ \E eps \in SUBSET EndpointsOf(pod) : eps # {} /\ RegisterPod(pod, eps)
                            \/ RemovePod(pod)
                            \/ HangPod(pod)
    BY <1>1 DEF Watch
  <2>1. ASSUME NEW eps \in SUBSET EndpointsOf(pod), RegisterPod(pod, eps)
        PROVE  CatalogConsistent'
    <3>1. Listed' = endpointsSet'
      BY <2>1 DEF RegisterPod, CatalogConsistent, Listed, ServiceTypeOK, EndpointsOf
    <3>2. \A p \in Pods : /\ endpointsByPod'[p] \subseteq endpointsSet' \cap EndpointsOf(p)
                          /\ \A e \in endpointsByPod'[p] : available'[e] # "absent"
      BY <2>1 DEF RegisterPod, CatalogConsistent, ServiceTypeOK, EndpointsOf
    <3>3. \A e \in Endpoints : /\ available'[e] # "absent" => e \in endpointsSet'
                               /\ inSelector'[e] # NoAttribute => available'[e] # "absent"
      BY <2>1 DEF RegisterPod, CatalogConsistent, ServiceTypeOK
    <3>4. QED
      BY <3>1, <3>2, <3>3 DEF CatalogConsistent, EndpointsOf
  <2>2. CASE RemovePod(pod)
    <3>1. Listed' = endpointsSet'
      BY <2>2 DEF RemovePod, Listed, ServiceTypeOK
    <3>2. \A p \in Pods : /\ endpointsByPod'[p] \subseteq endpointsSet' \cap EndpointsOf(p)
                          /\ \A e \in endpointsByPod'[p] : available'[e] # "absent"
      BY <2>2 DEF RemovePod, CatalogConsistent, ServiceTypeOK, EndpointsOf
    <3>3. \A e \in Endpoints : /\ available'[e] # "absent" => e \in endpointsSet'
                               /\ inSelector'[e] # NoAttribute => available'[e] # "absent"
      BY <2>2 DEF RemovePod, CatalogConsistent, ServiceTypeOK
    <3>4. QED
      BY <3>1, <3>2, <3>3 DEF CatalogConsistent, EndpointsOf
  <2>3. CASE HangPod(pod)
    BY <2>3 DEF HangPod, CatalogConsistent, Listed, ServiceTypeOK, EndpointsOf
  <2>4. QED
    BY <2>0, <2>1, <2>2, <2>3
<1>2. CASE WatchCheck \/ WatchUpdate
  BY <1>2, SameCatalog DEF WatchCheck, WatchUpdate, UpdateLocked
<1>3. CASE AttributeChange
  BY <1>3 DEF AttributeChange, SetAttributeInSelector, CatalogConsistent, Listed, ServiceTypeOK,
              EndpointsOf
<1>4. QED
  BY <1>1, <1>2, <1>3 DEF ServiceNext

(***************************************************************************)
(* The list, the set and the attributes of a service stay consistent       *)
(* through every order of RegisterPod, RemovePod, HangPod and attribute    *)
(* messages (types/service.go:122-204).                                    *)
(***************************************************************************)
THEOREM CatalogAlwaysConsistent == Spec => []CatalogConsistent
<1>1. Init => CatalogConsistent
  BY DEF Init, ServiceInit, CatalogConsistent, Listed, EndpointsOf
<1>2. TypeOK /\ CatalogConsistent /\ [Next]_vars => CatalogConsistent'
  <2> SUFFICES ASSUME TypeOK, CatalogConsistent, [Next]_vars PROVE CatalogConsistent'
    OBVIOUS
  <2>1. ASSUME NEW t \in Threads, Begin(t) \/ Step(t) PROVE UNCHANGED catalogVars
    BY <2>1 DEF Begin, Step, Build, BuildFails, Throttle, VersionDirty, VersionCheck,
                VersionUpdate, VersionRead, Compare, Lock, AttributesDirty, AttributesCheck,
                AttributesUpdate, Refresh, Commit, Stamp, Choose, Pick, PickNothing, Finish,
                Lookup, LookupPanics, OnlyMoves, UpdateLocked, serviceVars
  <2>2. Tick \/ UNCHANGED vars => UNCHANGED catalogVars
    BY DEF Tick, vars, serviceVars
  <2>3. Environment => CatalogConsistent'
    BY CatalogStep DEF Environment, TypeOK
  <2>4. QED
    BY <2>1, <2>2, <2>3, SameCatalog DEF Next
<1>3. QED
  BY <1>1, <1>2, TypeCorrect, PTL DEF Spec

-----------------------------------------------------------------------------
(***************************************************************************)
(* FreshPick.  Seen(t): everything in the table was offered since t's      *)
(* Select began.  It stays so once it is, for a newer table is seen too.   *)
(* A Select that has found the service clean knows it of every table that  *)
(* is, or is about to be, recorded as no older than the version it reads:  *)
(* such a table is what the service offers (SnapshotFresh, CommitInv), or  *)
(* is made later.  So it may skip the refresh.                             *)
(***************************************************************************)
Seen(t) == Offered(table) \subseteq offered[t]

Covers(t, v) ==
    /\ lastVersion >= v => Seen(t)
    /\ \A u \in Threads : pc[u] = "commit" /\ ver[u] >= v => Seen(t)

SeenBy(t) ==
    /\ pc[t] = "verRead" => Covers(t, version)
    /\ pc[t] \in {"compare", "lock"} => Covers(t, ver[t])
    /\ pc[t] \in {"commit", "stamp"} => Seen(t)
    /\ pc[t] = "select" /\ checked[t] => Seen(t)
    /\ pc[t] \in {"lookup", "panic"} /\ checked[t] => pick[t] \in offered[t]

SeenInv == \A t \in Threads : SeenBy(t)

(* What the history makes of a step of a Select that has not returned. *)
Remembers(t) ==
    /\ offered[t] \cup Offered(EndpointsWithAttribute') \subseteq offered'[t]
    /\ checked'[t] = IF pc[t] = "throttle" /\ pc'[t] # pc[t] THEN due ELSE checked[t]

LEMMA HistoryStep ==
    ASSUME FreshNext, NEW t \in Threads, pc'[t] # "idle"
    PROVE  Remembers(t)
<1>1. offered'[t] = offered[t] \cup Offered(EndpointsWithAttribute')
  BY DEF FreshNext
<1>2. checked'[t] = IF pc[t] = "throttle" /\ pc'[t] # pc[t] THEN due ELSE checked[t]
  BY DEF FreshNext
<1>3. QED
  BY <1>1, <1>2 DEF Remembers

(* What a step does to the table and to the versions recorded for it. *)
CommitsKept == \A w \in Threads : pc'[w] = "commit" => pc[w] = "commit" /\ ver'[w] = ver[w]

TableEffect ==
    \/ table' = EndpointsWithAttribute'
    \/ /\ table' = table /\ version' >= version /\ CommitsKept
       /\ \/ lastVersion' = lastVersion
          \/ \E u \in Threads : pc[u] = "commit" /\ lastVersion' = ver[u]

(* A step of another goroutine keeps what t has seen. *)
LEMMA WatchedStep ==
    ASSUME Inv, Inv', NEW t \in Threads, SeenBy(t), Remembers(t), TableEffect,
           pc'[t] = pc[t], ver'[t] = ver[t], pick'[t] = pick[t]
    PROVE  SeenBy(t)'
<1>1. /\ lastVersion \in Nat /\ version \in Nat /\ lastVersion' \in Nat /\ version' \in Nat
      /\ \A u \in Threads : ver[u] \in Nat /\ ver'[u] \in Nat
  BY DEF Inv, TypeOK, ServiceTypeOK, SelectorTypeOK
<1>2. offered[t] \subseteq offered'[t] /\ (checked'[t] => checked[t] \/ pc'[t] # "select")
  BY DEF Remembers
<1>3. pc'[t] \in {"lookup", "panic"} /\ checked'[t] => pick'[t] \in offered'[t]
  BY <1>2 DEF SeenBy, Remembers
<1>4. CASE table' = EndpointsWithAttribute'
  <2>1. Seen(t)'
    BY <1>4 DEF Seen, Remembers, Offered
  <2>2. QED
    BY <1>3, <2>1 DEF SeenBy, Covers
<1>5. CASE /\ table' = table /\ version' >= version /\ CommitsKept
           /\ \/ lastVersion' = lastVersion
              \/ \E u \in Threads : pc[u] = "commit" /\ lastVersion' = ver[u]
  <2>1. Seen(t) => Seen(t)'
    BY <1>2, <1>5 DEF Seen, Offered
  <2>2. ASSUME NEW v \in Nat, NEW w \in Nat, w >= v, Covers(t, v)
        PROVE  /\ lastVersion' >= w => Seen(t)'
               /\ \A u \in Threads : pc'[u] = "commit" /\ ver'[u] >= w => Seen(t)'
    <3>1. ASSUME lastVersion' >= w PROVE Seen(t)'
      <4>1. CASE lastVersion' = lastVersion
        BY <1>1, <2>1, <2>2, <3>1, <4>1 DEF Covers
      <4>2. ASSUME NEW u \in Threads, pc[u] = "commit", lastVersion' = ver[u] PROVE Seen(t)'
        <5>1. ver[u] >= v
          BY <1>1, <2>2, <3>1, <4>2
        <5>2. QED
          BY <2>1, <2>2, <4>2, <5>1 DEF Covers
      <4>3. QED
        BY <1>5, <4>1, <4>2
    <3>2. ASSUME NEW u \in Threads, pc'[u] = "commit", ver'[u] >= w PROVE Seen(t)'
      <4>1. pc[u] = "commit" /\ ver[u] >= v
        BY <1>1, <1>5, <2>2, <3>2 DEF CommitsKept
      <4>2. QED
        BY <2>1, <2>2, <4>1 DEF Covers
    <3>3. QED
      BY <3>1, <3>2
  <2>3. pc'[t] = "verRead" => Covers(t, version)'
    BY <1>1, <1>5, <2>2 DEF SeenBy, Covers
  <2>4. pc'[t] \in {"compare", "lock"} => Covers(t, ver[t])'
    BY <1>1, <2>2 DEF SeenBy, Covers
  <2>5. QED
    BY <1>2, <1>3, <2>1, <2>3, <2>4 DEF SeenBy
<1>6. QED
  BY <1>4, <1>5 DEF TableEffect

(* A Select that finds the service clean may rely on what is recorded. *)
LEMMA CleanCovers ==
    ASSUME Inv, NEW t \in Threads, ~dirty, Goto(t, pc[t], "verRead"), OnlyMoves, Remembers(t)
    PROVE  Covers(t, version)'
<1>1. UNCHANGED <<catalogVars, dirty, version, table, lastVersion, ver>>
  BY DEF OnlyMoves, serviceVars
<1>2. EndpointsWithAttribute' = EndpointsWithAttribute
  BY <1>1, SameOffer
<1>3. /\ lastVersion \in Nat /\ version \in Nat /\ lastVersion <= version
      /\ \A u \in Threads : ver[u] \in Nat /\ ver[u] <= version
  BY DEF Inv, TypeOK, ServiceTypeOK, SelectorTypeOK, VersionInv
<1>4. table = EndpointsWithAttribute => Seen(t)'
  BY <1>1, <1>2 DEF Seen, Remembers, Offered
<1>5. lastVersion >= version => table = EndpointsWithAttribute
  BY <1>3 DEF Inv, SnapshotFresh
<1>6. ASSUME NEW u \in Threads, pc'[u] = "commit", ver[u] >= version
      PROVE  table = EndpointsWithAttribute
  <2>1. pc[u] = "commit"
    BY <1>6 DEF Goto, Inv, TypeOK, SelectorTypeOK
  <2>2. ver[u] = version
    BY <1>3, <1>6
  <2>3. QED
    BY <2>1, <2>2 DEF Inv, CommitInv
<1>7. QED
  BY <1>1, <1>4, <1>5, <1>6 DEF Covers

(* A Select's own step. *)
LEMMA OwnStep ==
    ASSUME Inv, Inv', NEW t \in Threads, SeenBy(t), Begin(t) \/ Step(t),
           pc'[t] # "idle" => Remembers(t)
    PROVE  SeenBy(t)'
<1> DEFINE Quiet == {"idle", "build", "throttle", "version", "verCheck", "verUpdate", "attrs",
                     "attrCheck", "attrUpdate", "refresh"}
<1>1. pc \in [Threads -> PCs]
  BY DEF Inv, TypeOK, SelectorTypeOK
<1>2. ASSUME pc'[t] \in Quiet PROVE SeenBy(t)'
  BY <1>2 DEF SeenBy
<1>3. CASE Begin(t) \/ Build(t) \/ BuildFails(t) \/ AttributesDirty(t) \/ AttributesCheck(t)
           \/ AttributesUpdate(t) \/ PickNothing(t) \/ Lookup(t)
  <2>1. pc'[t] \in Quiet
    BY <1>1, <1>3 DEF Begin, Build, BuildFails, AttributesDirty, AttributesCheck,
         AttributesUpdate, PickNothing, Lookup, Return, Goto
  <2>2. QED
    BY <1>2, <2>1
<1>4. CASE Throttle(t)
  <2>1. CASE due
    <3>1. pc'[t] \in Quiet
      BY <1>1, <1>4, <2>1 DEF Throttle, Goto
    <3>2. QED
      BY <1>2, <3>1
  <2>2. CASE ~due
    <3>1. pc[t] = "throttle" /\ pc'[t] = "select"
      BY <1>1, <1>4, <2>2 DEF Throttle, Goto
    <3>2. ~checked'[t]
      BY <2>2, <3>1 DEF Remembers
    <3>3. QED
      BY <3>1, <3>2 DEF SeenBy
  <2>3. QED
    BY <2>1, <2>2
<1>5. CASE (VersionDirty(t) \/ VersionCheck(t)) /\ dirty
  <2>1. pc'[t] \in Quiet
    BY <1>1, <1>5 DEF VersionDirty, VersionCheck, Goto
  <2>2. QED
    BY <1>2, <2>1
<1>6. CASE (VersionDirty(t) \/ VersionCheck(t)) /\ ~dirty
  <2>1. Goto(t, pc[t], "verRead") /\ OnlyMoves
    BY <1>6 DEF VersionDirty, VersionCheck, Goto
  <2>2. pc'[t] = "verRead"
    BY <1>1, <2>1 DEF Goto
  <2>3. Covers(t, version)'
    BY <1>6, <2>1, <2>2, CleanCovers
  <2>4. QED
    BY <2>2, <2>3 DEF SeenBy
<1>7. CASE VersionUpdate(t)
  <2>1. /\ pc' = [pc EXCEPT ![t] = "verRead"] /\ version' = version + 1
        /\ lastVersion' = lastVersion /\ ver' = ver
    BY <1>7 DEF VersionUpdate, UpdateLocked, Goto
  <2>2. /\ lastVersion \in Nat /\ version \in Nat /\ lastVersion <= version
        /\ \A u \in Threads : ver[u] \in Nat /\ ver[u] <= version
    BY DEF Inv, TypeOK, ServiceTypeOK, SelectorTypeOK, VersionInv
  <2>3. ~(lastVersion' >= version') /\ \A u \in Threads : ~(ver'[u] >= version')
    BY <2>1, <2>2
  <2>4. Covers(t, version)'
    BY <2>3 DEF Covers
  <2>5. pc'[t] = "verRead"
    BY <1>1, <2>1
  <2>6. QED
    BY <2>4, <2>5 DEF SeenBy
<1>8. CASE VersionRead(t)
  <2>1. /\ pc[t] = "verRead" /\ pc'[t] = "compare" /\ ver'[t] = version
        /\ \A u \in Threads \ {t} : pc'[u] = pc[u] /\ ver'[u] = ver[u]
        /\ lastVersion' = lastVersion /\ table' = table
    BY <1>1, <1>8 DEF VersionRead, Goto, Inv, TypeOK, SelectorTypeOK
  <2>2. Covers(t, version)
    BY <2>1 DEF SeenBy
  <2>3. Seen(t) => Seen(t)'
    BY <2>1 DEF Seen, Remembers, Offered
  <2>4. Covers(t, ver[t])'
    BY <2>1, <2>2, <2>3 DEF Covers
  <2>5. QED
    BY <2>1, <2>4 DEF SeenBy
<1>9. CASE Compare(t) \/ Lock(t)
  <2>1. /\ pc[t] \in {"compare", "lock"} /\ ver' = ver /\ lastVersion' = lastVersion
        /\ table' = table
        /\ \A u \in Threads \ {t} : pc'[u] = pc[u]
    BY <1>1, <1>9 DEF Compare, Lock, OnlyMoves, Goto
  <2>2. Covers(t, ver[t])
    BY <2>1 DEF SeenBy
  <2>3. lastVersion \in Nat /\ ver[t] \in Nat
    BY DEF Inv, TypeOK, SelectorTypeOK
  <2>4. CASE Newer(t)
    <3>1. pc'[t] \in {"lock", "attrs"}
      BY <1>1, <1>9, <2>4 DEF Compare, Lock, Goto
    <3>2. CASE pc'[t] = "lock"
      <4>1. Seen(t) => Seen(t)'
        BY <2>1, <3>2 DEF Seen, Remembers, Offered
      <4>2. Covers(t, ver[t])'
        BY <2>1, <2>2, <3>2, <4>1 DEF Covers
      <4>3. QED
        BY <3>2, <4>2 DEF SeenBy
    <3>3. CASE pc'[t] = "attrs"
      BY <1>2, <3>3
    <3>4. QED
      BY <3>1, <3>2, <3>3
  <2>5. CASE ~Newer(t)
    <3>1. pc'[t] = "select"
      BY <1>1, <1>9, <2>5 DEF Compare, Lock, Goto
    <3>2. Seen(t)
      BY <2>2, <2>3, <2>5 DEF Newer, Covers
    <3>3. Seen(t)'
      BY <2>1, <3>1, <3>2 DEF Seen, Remembers, Offered
    <3>4. QED
      BY <3>1, <3>3 DEF SeenBy
  <2>6. QED
    BY <2>4, <2>5
<1>10. CASE Refresh(t)
  <2>1. UNCHANGED catalogVars /\ table' = EndpointsWithAttribute /\ pc'[t] = "commit"
    BY <1>1, <1>10 DEF Refresh, Goto, serviceVars
  <2>2. table' = EndpointsWithAttribute'
    BY <2>1, SameOffer
  <2>3. Seen(t)'
    BY <2>1, <2>2 DEF Seen, Remembers, Offered
  <2>4. QED
    BY <2>1, <2>3 DEF SeenBy
<1>11. CASE Commit(t) \/ Stamp(t)
  <2>1. pc[t] \in {"commit", "stamp"} /\ pc'[t] \in {"stamp", "select"} /\ table' = table
    BY <1>1, <1>11 DEF Commit, Stamp, Goto
  <2>2. Seen(t)
    BY <2>1 DEF SeenBy
  <2>3. Seen(t)'
    BY <2>1, <2>2 DEF Seen, Remembers, Offered
  <2>4. QED
    BY <2>1, <2>3 DEF SeenBy
<1>12. CASE Pick(t)
  <2>1. PICK e \in Offered(table) : pick' = [pick EXCEPT ![t] = e]
    BY <1>12 DEF Pick
  <2>2. pc[t] = "select" /\ pc'[t] = "lookup" /\ pick'[t] = e
    BY <1>1, <1>12, <2>1 DEF Pick, Goto, Inv, TypeOK, SelectorTypeOK
  <2>3. checked'[t] => checked[t]
    BY <2>2 DEF Remembers
  <2>4. checked[t] => e \in offered[t]
    BY <2>2 DEF SeenBy, Seen
  <2>5. offered[t] \subseteq offered'[t]
    BY <2>2 DEF Remembers
  <2>6. QED
    BY <2>2, <2>3, <2>4, <2>5 DEF SeenBy
<1>13. CASE LookupPanics(t)
  <2>1. pc[t] = "lookup" /\ pc'[t] = "panic" /\ pick' = pick
    BY <1>1, <1>13 DEF LookupPanics, OnlyMoves, Goto
  <2>2. checked'[t] => checked[t]
    BY <2>1 DEF Remembers
  <2>3. checked[t] => pick[t] \in offered[t]
    BY <2>1 DEF SeenBy
  <2>4. offered[t] \subseteq offered'[t]
    BY <2>1 DEF Remembers
  <2>5. QED
    BY <2>1, <2>2, <2>3, <2>4 DEF SeenBy
<1>14. QED
  BY <1>3, <1>4, <1>5, <1>6, <1>7, <1>8, <1>9, <1>10, <1>11, <1>12, <1>13
     DEF Step, Choose, Finish

(* The effect of any step on the table, and on the Selects that do not take it. *)
LEMMA StepEffect ==
    ASSUME Inv, NEW u \in Threads, Begin(u) \/ Step(u)
    PROVE  /\ TableEffect
           /\ \A t \in Threads \ {u} :
                pc'[t] = pc[t] /\ ver'[t] = ver[t] /\ pick'[t] = pick[t]
<1>1. /\ pc \in [Threads -> PCs] /\ ver \in [Threads -> Nat]
      /\ pick \in [Threads -> Endpoints \cup {NoEndpoint}] /\ version \in Nat
  BY DEF Inv, TypeOK, ServiceTypeOK, SelectorTypeOK
<1>2. \A t \in Threads \ {u} : pc'[t] = pc[t] /\ ver'[t] = ver[t] /\ pick'[t] = pick[t]
  <2>1. \A t \in Threads \ {u} : pc'[t] = pc[t]
    BY <1>1 DEF Begin, Step, Build, BuildFails, Throttle, VersionDirty, VersionCheck,
                VersionUpdate, VersionRead, Compare, Lock, AttributesDirty, AttributesCheck,
                AttributesUpdate, Refresh, Commit, Stamp, Choose, Pick, PickNothing, Finish,
                Lookup, LookupPanics, Return, Goto
  <2>2. \A t \in Threads \ {u} : ver'[t] = ver[t]
    BY <1>1 DEF Begin, Step, Build, BuildFails, Throttle, VersionDirty, VersionCheck,
                VersionUpdate, VersionRead, Compare, Lock, AttributesDirty, AttributesCheck,
                AttributesUpdate, Refresh, Commit, Stamp, Choose, Pick, PickNothing, Finish,
                Lookup, LookupPanics, Return, OnlyMoves
  <2>3. \A t \in Threads \ {u} : pick'[t] = pick[t]
    BY <1>1 DEF Begin, Step, Build, BuildFails, Throttle, VersionDirty, VersionCheck,
                VersionUpdate, VersionRead, Compare, Lock, AttributesDirty, AttributesCheck,
                AttributesUpdate, Refresh, Commit, Stamp, Choose, Pick, PickNothing, Finish,
                Lookup, LookupPanics, Return, OnlyMoves
  <2>4. QED
    BY <2>1, <2>2, <2>3
<1>3. CASE Refresh(u)
  <2>1. UNCHANGED catalogVars /\ table' = EndpointsWithAttribute
    BY <1>3 DEF Refresh, serviceVars
  <2>2. QED
    BY <1>2, <2>1, SameOffer DEF TableEffect
<1>4. CASE ~Refresh(u)
  <2>1. table' = table
    BY <1>4 DEF Begin, Step, Build, BuildFails, Throttle, VersionDirty, VersionCheck,
                VersionUpdate, VersionRead, Compare, Lock, AttributesDirty, AttributesCheck,
                AttributesUpdate, Commit, Stamp, Choose, Pick, PickNothing, Finish,
                Lookup, LookupPanics, OnlyMoves
  <2>2. version' >= version
    <3>1. CASE VersionUpdate(u) \/ AttributesUpdate(u)
      BY <1>1, <3>1 DEF VersionUpdate, AttributesUpdate, UpdateLocked
    <3>2. CASE ~VersionUpdate(u) /\ ~AttributesUpdate(u)
      <4>1. version' = version
        BY <1>4, <3>2 DEF Begin, Step, Build, BuildFails, Throttle, VersionDirty, VersionCheck,
                    VersionRead, Compare, Lock, AttributesDirty, AttributesCheck,
                    Commit, Stamp, Choose, Pick, PickNothing, Finish,
                    Lookup, LookupPanics, OnlyMoves, serviceVars
      <4>2. QED
        BY <1>1, <4>1
    <3>3. QED
      BY <3>1, <3>2
  <2>3. pc'[u] # "commit"
    BY <1>1, <1>4 DEF Begin, Step, Build, BuildFails, Throttle, VersionDirty, VersionCheck,
                VersionUpdate, VersionRead, Compare, Lock, AttributesDirty, AttributesCheck,
                AttributesUpdate, Commit, Stamp, Choose, Pick, PickNothing, Finish,
                Lookup, LookupPanics, Return, Goto
  <2>4. CommitsKept
    BY <1>2, <2>3 DEF CommitsKept
  <2>5. lastVersion' = lastVersion \/ (pc[u] = "commit" /\ lastVersion' = ver[u])
    BY <1>4 DEF Begin, Step, Build, BuildFails, Throttle, VersionDirty, VersionCheck,
                VersionUpdate, VersionRead, Compare, Lock, AttributesDirty, AttributesCheck,
                AttributesUpdate, Commit, Stamp, Choose, Pick, PickNothing, Finish,
                Lookup, LookupPanics, OnlyMoves, Goto
  <2>6. QED
    BY <1>2, <2>1, <2>2, <2>4, <2>5 DEF TableEffect
<1>5. QED
  BY <1>3, <1>4

LEMMA EnvironmentEffect ==
    ASSUME Inv, Tick \/ Environment
    PROVE  TableEffect /\ UNCHANGED <<pc, ver, pick>>
<1>1. UNCHANGED <<pc, ver, pick, table, lastVersion>>
  BY DEF Tick, Environment, selectorVars
<1>2. version \in Nat
  BY DEF Inv, TypeOK, ServiceTypeOK
<1>3. version' >= version
  <2>1. version' = version \/ version' = version + 1
    BY ServiceStepKinds DEF Tick, Environment, serviceVars
  <2>2. QED
    BY <1>2, <2>1
<1>4. CommitsKept
  BY <1>1 DEF CommitsKept
<1>5. QED
  BY <1>1, <1>3, <1>4 DEF TableEffect

LEMMA SeenStep ==
    ASSUME Inv, Inv', SeenInv, FreshNext
    PROVE  SeenInv'
<1> SUFFICES ASSUME NEW t \in Threads PROVE SeenBy(t)'
  BY DEF SeenInv
<1>1. SeenBy(t)
  BY DEF SeenInv
<1>2. CASE pc'[t] = "idle"
  BY <1>2 DEF SeenBy
<1>3. CASE pc'[t] # "idle"
  <2>1. Remembers(t)
    BY <1>3, HistoryStep
  <2>2. ASSUME NEW u \in Threads, Begin(u) \/ Step(u) PROVE SeenBy(t)'
    <3>1. CASE u = t
      BY <1>1, <2>1, <2>2, <3>1, OwnStep
    <3>2. CASE u # t
      <4>1. TableEffect /\ pc'[t] = pc[t] /\ ver'[t] = ver[t] /\ pick'[t] = pick[t]
        BY <2>2, <3>2, StepEffect
      <4>2. QED
        BY <1>1, <2>1, <4>1, WatchedStep
    <3>3. QED
      BY <3>1, <3>2
  <2>3. CASE Tick \/ Environment
    <3>1. TableEffect /\ pc'[t] = pc[t] /\ ver'[t] = ver[t] /\ pick'[t] = pick[t]
      BY <2>3, EnvironmentEffect
    <3>2. QED
      BY <1>1, <2>1, <3>1, WatchedStep
  <2>4. QED
    BY <2>2, <2>3 DEF FreshNext, Next
<1>4. QED
  BY <1>2, <1>3

(***************************************************************************)
(* FreshPick holds for any number of Selects, whatever the watch goroutine *)
(* and other Selects do between their unlocked reads: who passed the 50 ms *)
(* test never picks what was gone before it began (selector.go:113-133).   *)
(***************************************************************************)
THEOREM PicksAreFresh == FreshSpec => []FreshPick
<1>1. FreshInit => Inv /\ SeenInv
  <2> SUFFICES ASSUME FreshInit PROVE Inv /\ SeenInv
    OBVIOUS
  <2>1. Inv
    BY InitInv DEF FreshInit
  <2>2. \A t \in Threads : pc[t] = "idle"
    BY DEF FreshInit, Init, SelectorInit
  <2>3. QED
    BY <2>1, <2>2 DEF SeenInv, SeenBy
<1>2. Inv /\ SeenInv /\ [FreshNext]_<<vars, historyVars>> => Inv' /\ SeenInv'
  <2> SUFFICES ASSUME Inv, SeenInv, [FreshNext]_<<vars, historyVars>> PROVE Inv' /\ SeenInv'
    OBVIOUS
  <2>1. Inv'
    BY NextInv DEF FreshNext
  <2>2. CASE FreshNext
    BY <2>1, <2>2, SeenStep
  <2>3. CASE UNCHANGED <<vars, historyVars>>
    BY <2>1, <2>3 DEF vars, historyVars, selectorVars, serviceVars, SeenInv, SeenBy, Covers, Seen, Offered
  <2>4. QED
    BY <2>1, <2>2, <2>3
<1>3. Inv /\ SeenInv => FreshPick
  BY DEF SeenInv, SeenBy, FreshPick
<1>4. QED
  BY <1>1, <1>2, <1>3, PTL DEF FreshSpec
=============================================================================
