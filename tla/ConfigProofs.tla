---------------------------- MODULE ConfigProofs ----------------------------
(***************************************************************************)
(* Proofs about Config, for any processes, configurations and bound: type  *)
(* correctness, that routers find their selectors in etcd and in a client  *)
(* whatever fails, that a version stands for a whole configuration while   *)
(* no lease is lost, and that the stored version never goes back.          *)
(***************************************************************************)
EXTENDS Config, WellFoundedInduction, FiniteSetTheorems, TLAPS

-----------------------------------------------------------------------------
(* The order of versions.                                                  *)

(* A nonempty set of numbers has a least one: the smallest interval 1..x.  *)
LEMMA LeastNumber ==
    ASSUME NEW T, T \subseteq Nat, T # {}
    PROVE  \E x \in T : \A y \in T : x <= y
<1> DEFINE D == {1..x : x \in T}
<1>1. D \subseteq FiniteSubsetsOf(Nat) /\ D # {}
  <2>1. \A x \in Nat : IsFiniteSet(1..x) /\ 1..x \subseteq Nat
    BY FS_Interval
  <2>2. QED
    BY <2>1 DEF FiniteSubsetsOf
<1>2. PICK d \in D : \A e \in D : ~(<<e, d>> \in StrictSubsetOrdering(Nat))
  <2>1. IsWellFoundedOn(StrictSubsetOrdering(Nat), FiniteSubsetsOf(Nat))
    BY FS_StrictSubsetOrderingWellFounded
  <2> HIDE DEF D
  <2>2. QED
    BY <1>1, <2>1, WFMin
<1>3. PICK x \in T : d = 1..x
  OBVIOUS
<1>4. \A y \in T : x <= y
  <2> SUFFICES ASSUME NEW y \in T, y < x PROVE FALSE
    OBVIOUS
  <2>1. 1..y \subseteq 1..x /\ 1..y # 1..x
    <3>1. x \in 1..x /\ x \notin 1..y
      OBVIOUS
    <3>2. QED
      BY <3>1
  <2>2. 1..y \in SUBSET Nat /\ 1..x \in SUBSET Nat
    OBVIOUS
  <2>3. <<1..y, 1..x>> \in StrictSubsetOrdering(Nat)
    BY <2>1, <2>2 DEF StrictSubsetOrdering
  <2>4. QED
    BY <1>2, <1>3, <2>3
<1>5. QED
  BY <1>4

(* A string is a sequence of numbers. *)
LEMMA Numbers ==
    ASSUME NEW a \in Seq(Nat)
    PROVE  Len(a) \in Nat /\ \A j \in 1..Len(a) : a[j] \in Nat
OBVIOUS

(* Less, over the lengths n and m and the characters of two strings; a and *)
(* b need not be sequences here, which keeps the steps below small.        *)
Row(a, n) == \A j \in 1..n : a[j] \in Nat

Before(a, n, b, m) ==
    \E i \in 1..m : /\ \A j \in 1..(i - 1) : j <= n /\ a[j] = b[j]
                    /\ n < i \/ a[i] < b[i]

(* A string is less than another at the first place where they differ, so  *)
(* not both ways.                                                          *)
LEMMA BeforeAsymmetric ==
    ASSUME NEW a, NEW b, NEW n \in Nat, NEW m \in Nat, Row(a, n), Row(b, m),
           Before(a, n, b, m)
    PROVE  ~Before(b, m, a, n)
<1> SUFFICES ASSUME Before(b, m, a, n) PROVE FALSE
  OBVIOUS
<1>1. PICK i \in 1..m : /\ \A j \in 1..(i - 1) : j <= n /\ a[j] = b[j]
                        /\ n < i \/ a[i] < b[i]
  BY DEF Before
<1>2. PICK k \in 1..n : /\ \A j \in 1..(k - 1) : j <= m /\ b[j] = a[j]
                        /\ m < k \/ b[k] < a[k]
  BY DEF Before
<1>3. CASE i < k
  <2>1. i \in 1..(k - 1) /\ i \in 1..n
    BY <1>3
  <2>2. b[i] = a[i] /\ a[i] \in Nat
    BY <1>2, <2>1 DEF Row
  <2>3. QED
    BY <1>1, <2>1, <2>2
<1>4. CASE k < i
  <2>1. k \in 1..(i - 1) /\ k \in 1..m
    BY <1>4
  <2>2. a[k] = b[k] /\ b[k] \in Nat
    BY <1>1, <2>1 DEF Row
  <2>3. QED
    BY <1>2, <2>1, <2>2
<1>5. CASE i = k
  <2>1. i \in 1..n /\ i \in 1..m
    BY <1>5
  <2>2. a[i] \in Nat /\ b[i] \in Nat
    BY <2>1 DEF Row
  <2>3. a[i] < b[i] /\ b[i] < a[i]
    BY <1>1, <1>2, <1>5, <2>1
  <2>4. QED
    BY <2>2, <2>3
<1>6. QED
  BY <1>3, <1>4, <1>5

LEMMA LessAsymmetric ==
    ASSUME NEW a \in Seq(Nat), NEW b \in Seq(Nat), Less(a, b)
    PROVE  ~Less(b, a)
<1> DEFINE n == Len(a)
           m == Len(b)
<1>1. n \in Nat /\ m \in Nat /\ Row(a, n) /\ Row(b, m)
  BY Numbers DEF Row
<1>2. Less(a, b) <=> Before(a, n, b, m)
  BY DEF Less, Before
<1>3. Less(b, a) <=> Before(b, m, a, n)
  BY DEF Less, Before
<1> HIDE DEF n, m
<1>4. QED
  BY <1>1, <1>2, <1>3, BeforeAsymmetric

(* Nor is its negation's transitivity: the first place where b differs     *)
(* from c, up to the one that makes a less than c, decides.                *)
LEMMA NotBeforeTransitive ==
    ASSUME NEW a, NEW b, NEW c, NEW n \in Nat, NEW m \in Nat, NEW o \in Nat,
           Row(a, n), Row(b, m), Row(c, o),
           ~Before(a, n, b, m), ~Before(b, m, c, o)
    PROVE  ~Before(a, n, c, o)
<1> SUFFICES ASSUME Before(a, n, c, o) PROVE FALSE
  OBVIOUS
<1>1. PICK i \in 1..o : /\ \A j \in 1..(i - 1) : j <= n /\ a[j] = c[j]
                        /\ n < i \/ a[i] < c[i]
  BY DEF Before
<1> DEFINE D == {j \in 1..i : m < j \/ b[j] # c[j]}
<1>2. CASE D = {}
  <2>1. ASSUME NEW j \in 1..i PROVE j <= m /\ b[j] = c[j]
    <3>1. j \notin D
      BY <1>2
    <3>2. QED
      BY <3>1
  <2>2. i \in 1..m /\ b[i] = c[i]
    BY <2>1
  <2>3. \A j \in 1..(i - 1) : j <= n /\ a[j] = b[j]
    <3> SUFFICES ASSUME NEW j \in 1..(i - 1) PROVE j <= n /\ a[j] = b[j]
      OBVIOUS
    <3>1. j \in 1..i
      OBVIOUS
    <3>2. QED
      BY <1>1, <2>1, <3>1
  <2>4. n < i \/ a[i] < b[i]
    BY <1>1, <2>2
  <2>5. QED
    BY <2>2, <2>3, <2>4 DEF Before
<1>3. CASE D # {}
  <2>1. PICK k \in D : \A j \in D : k <= j
    <3>1. D \subseteq Nat
      OBVIOUS
    <3> HIDE DEF D
    <3>2. QED
      BY <1>3, <3>1, LeastNumber
  <2>2. k \in 1..i /\ k \in 1..o
    OBVIOUS
  <2>3. \A j \in 1..(k - 1) : j <= m /\ b[j] = c[j]
    <3> SUFFICES ASSUME NEW j \in 1..(k - 1) PROVE j <= m /\ b[j] = c[j]
      OBVIOUS
    <3>1. j \in 1..i /\ j \in Nat /\ ~(k <= j)
      BY <2>2
    <3>2. j \notin D
      BY <2>1, <3>1
    <3>3. QED
      BY <3>1, <3>2
  <2>4. m < k \/ b[k] # c[k]
    OBVIOUS
  <2> HIDE DEF D
  <2>5. CASE m < k \/ b[k] < c[k]
    BY <2>2, <2>3, <2>5 DEF Before
  <2>6. CASE k <= m /\ ~(b[k] < c[k])
    <3>1. k \in 1..m
      BY <2>2, <2>6
    <3>2. b[k] \in Nat /\ c[k] \in Nat
      BY <2>2, <3>1 DEF Row
    <3>3. c[k] < b[k]
      BY <2>4, <2>6, <3>1, <3>2
    <3>4. \A j \in 1..(k - 1) : j <= n /\ a[j] = b[j]
      <4> SUFFICES ASSUME NEW j \in 1..(k - 1) PROVE j <= n /\ a[j] = b[j]
        OBVIOUS
      <4>1. j \in 1..(i - 1)
        BY <2>2
      <4>2. QED
        BY <1>1, <2>3, <4>1
    <3>5. n < k \/ a[k] < b[k]
      <4>1. CASE k < i
        <5>1. k \in 1..(i - 1)
          BY <4>1, <2>2
        <5>2. a[k] = c[k]
          BY <1>1, <5>1
        <5>3. QED
          BY <3>3, <5>2
      <4>2. CASE k = i /\ ~(n < k)
        <5>1. k \in 1..n
          BY <4>2, <2>2
        <5>2. a[k] \in Nat
          BY <5>1 DEF Row
        <5>3. a[k] < c[k]
          BY <1>1, <4>2
        <5>4. QED
          BY <3>2, <3>3, <5>2, <5>3
      <4>3. k \in Int /\ i \in Int /\ k <= i
        BY <2>2
      <4>4. QED
        BY <4>1, <4>2, <4>3
    <3>6. QED
      BY <3>1, <3>4, <3>5 DEF Before
  <2>7. k \in Int
    BY <2>2
  <2>8. QED
    BY <2>5, <2>6, <2>7
<1>4. QED
  BY <1>2, <1>3

LEMMA NotLessTransitive ==
    ASSUME NEW a \in Seq(Nat), NEW b \in Seq(Nat), NEW c \in Seq(Nat),
           ~Less(a, b), ~Less(b, c)
    PROVE  ~Less(a, c)
<1> DEFINE n == Len(a)
           m == Len(b)
           o == Len(c)
<1>1. n \in Nat /\ m \in Nat /\ o \in Nat /\ Row(a, n) /\ Row(b, m) /\ Row(c, o)
  BY Numbers DEF Row
<1>2. Less(a, b) <=> Before(a, n, b, m)
  BY DEF Less, Before
<1>3. Less(b, c) <=> Before(b, m, c, o)
  BY DEF Less, Before
<1>4. Less(a, c) <=> Before(a, n, c, o)
  BY DEF Less, Before
<1> HIDE DEF n, m, o
<1>5. QED
  BY <1>1, <1>2, <1>3, <1>4, NotBeforeTransitive
-----------------------------------------------------------------------------
(***************************************************************************)
(* The inductive invariant.  RoutersRunnable needs to know of a process    *)
(* that puts its keys that every selector is stored or still to be put,    *)
(* and ClientRunnable that a cached router's selectors are stored; neither *)
(* speaks of the mutex.  LoadedIsComplete does: while no lease is lost who *)
(* is between lock and unlock holds it, and who puts has a newer version   *)
(* than the stored one and finds the keys it has put as it put them.       *)
(***************************************************************************)
SelectorsPut ==
    \A p \in Procs : pc[p] = "put" =>
        /\ left[p] \subseteq ItemsOf(ConfigOf[p])
        /\ \A s \in SelectorsOf[ConfigOf[p]] : Slt(s) \in left[p] \/ store[Slt(s)] # None

CachedRunnable ==
    \A p \in Procs, r \in Routers :
        LET c == rtrs[p][r] IN
        c # None => /\ r \in DOMAIN Uses[c]
                    /\ \A s \in Uses[c][r] : store[Slt(s)] # None

RunnableInv == SelectorsPut /\ RoutersRunnable /\ CachedRunnable /\ ClientRunnable

MutexInv ==
    ~lost => \A p \in Procs : pc[p] \in {"check", "put", "unlock", "abort"} => holder = p

PutterInv ==
    ~lost => \A p \in Procs : pc[p] = "put" =>
        /\ store[VersionKey] # None => Less(Version[store[VersionKey]], Version[ConfigOf[p]])
        /\ \A k \in ItemsOf(ConfigOf[p]) \ left[p] : store[k] = ConfigOf[p]

VersionInv == MutexInv /\ PutterInv /\ LoadedIsComplete

-----------------------------------------------------------------------------
(* Keys of different kinds are different, and ranked as they are put.      *)
LEMMA KeyFacts ==
    /\ \A s, t \in Selectors : Slt(s) = Slt(t) => s = t
    /\ \A s \in Selectors, r \in Routers : Slt(s) # Rtr(r)
    /\ \A r, q \in Routers : Rtr(r) = Rtr(q) => r = q
    /\ \A s \in Selectors : Slt(s) \in Keys /\ Slt(s) # VersionKey /\ Rank(Slt(s)) = 1
    /\ \A r \in Routers : Rtr(r) \in Keys /\ Rtr(r) # VersionKey /\ Rank(Rtr(r)) = 2
    /\ VersionKey \in Keys /\ Rank(VersionKey) = 3
BY DEF Slt, Rtr, VersionKey, Keys, Rank

(* What LoadConfig puts for a configuration: keys, the version among them  *)
(* and ranked last, and every selector its routers name (impl.go:105-133). *)
LEMMA ItemFacts ==
    ASSUME NEW c \in Configs
    PROVE  /\ ItemsOf(c) \subseteq Keys
           /\ VersionKey \in ItemsOf(c)
           /\ \A k \in ItemsOf(c) : k = VersionKey \/ Rank(k) < 3
           /\ SelectorsOf[c] \subseteq Selectors
           /\ \A s \in SelectorsOf[c] : Slt(s) \in ItemsOf(c)
           /\ DOMAIN Uses[c] \subseteq Routers
           /\ \A r \in DOMAIN Uses[c] : Uses[c][r] \subseteq SelectorsOf[c]
           /\ \A r \in Routers : Rtr(r) \in ItemsOf(c) => r \in DOMAIN Uses[c]
<1>1. /\ SelectorsOf[c] \subseteq Selectors
      /\ DOMAIN Uses[c] \subseteq Routers
      /\ \A r \in DOMAIN Uses[c] : Uses[c][r] \subseteq SelectorsOf[c]
  BY ConfigAssumption
<1>2. QED
  BY <1>1, KeyFacts DEF ItemsOf

(* What a put does: one key of the lowest rank left, and the process goes  *)
(* on, has put everything, or gives up.                                    *)
PutOf(p, k) ==
    /\ k \in left[p]
    /\ \A other \in left[p] : Rank(k) <= Rank(other)
    /\ \/ /\ left[p] \ {k} # {}
          /\ store' = Written(k, p)
          /\ left' = [left EXCEPT ![p] = @ \ {k}]
          /\ pc' = [pc EXCEPT ![p] = "put"]
       \/ /\ left[p] = {k}
          /\ store' = Written(k, p)
          /\ left' = [left EXCEPT ![p] = {}]
          /\ pc' = [pc EXCEPT ![p] = "unlock"]
       \/ /\ store' \in {store, Written(k, p)}
          /\ left' = [left EXCEPT ![p] = {}]
          /\ pc' = [pc EXCEPT ![p] = "abort"]
    /\ faults' \in {faults, faults + 1}
    /\ faults' <= faults \/ faults < MaxFaults
    /\ UNCHANGED <<holder, lost, cacheVars>>

(* Put is PutOf for one of the keys (impl.go:105-135).                     *)
LEMMA PutShape ==
    ASSUME TypeOK, NEW p \in Procs, Put(p)
    PROVE  /\ pc[p] = "put"
           /\ \E k \in Keys : PutOf(p, k)
<1>1. pc[p] = "put" /\ left[p] \subseteq Keys
  BY DEF Put, TypeOK
<1>2. PICK k \in left[p] :
        /\ \A other \in left[p] : Rank(k) <= Rank(other)
        /\ \/ /\ store' = Written(k, p)
              /\ left' = [left EXCEPT ![p] = left[p] \ {k}]
              /\ pc' = [pc EXCEPT ![p] = IF left[p] \ {k} = {} THEN "unlock" ELSE "put"]
              /\ UNCHANGED faults
           \/ /\ faults < MaxFaults
              /\ faults' = faults + 1
              /\ store' \in {store, Written(k, p)}
              /\ left' = [left EXCEPT ![p] = {}]
              /\ pc' = [pc EXCEPT ![p] = "abort"]
  BY DEF Put, AfterError
<1>3. UNCHANGED <<holder, lost, cacheVars>>
  BY DEF Put
<1>4. faults \in Nat
  BY FaultsAssumption DEF TypeOK
<1>5. PutOf(p, k)
  BY <1>2, <1>3, <1>4 DEF PutOf
<1>6. QED
  BY <1>1, <1>5

(* A put changes its own key, to the configuration of the process.         *)
LEMMA WrittenType ==
    ASSUME TypeOK, NEW p \in Procs, NEW k \in Keys
    PROVE  /\ Written(k, p) \in [Keys -> Configs \cup {None}]
           /\ Written(k, p)[k] = ConfigOf[p]
           /\ \A other \in Keys \ {k} : Written(k, p)[other] = store[other]
           /\ ConfigOf[p] \in Configs /\ ConfigOf[p] # None
BY ConfigAssumption, NoneAssumption DEF TypeOK, Written

-----------------------------------------------------------------------------
(* Every step keeps the types; Check leaves keys to put, for a version is   *)
(* always one of them.                                                     *)
LEMMA TypesStep ==
    ASSUME TypeOK, [Next]_vars
    PROVE  TypeOK'
<1> USE FaultsAssumption
<1>1. ASSUME NEW p \in Procs, Lock(p) PROVE TypeOK'
  BY <1>1 DEF TypeOK, Lock, cacheVars
<1>2. ASSUME NEW p \in Procs, Check(p) PROVE TypeOK'
  <2>1. ItemsOf(ConfigOf[p]) \subseteq Keys /\ ItemsOf(ConfigOf[p]) # {}
    BY ItemFacts, ConfigAssumption
  <2>2. CASE IsLoaded(p)
    BY <1>2, <2>2 DEF TypeOK, Check, WhenLoaded, cacheVars
  <2>3. CASE ~IsLoaded(p)
    <3> DEFINE L == ItemsOf(ConfigOf[p])
    <3>1. /\ pc[p] = "check" /\ pc' = [pc EXCEPT ![p] = "put"]
          /\ left' = [left EXCEPT ![p] = L] /\ L \subseteq Keys /\ L # {}
          /\ UNCHANGED <<store, holder, lost, cacheVars, faults>>
      BY <1>2, <2>1, <2>3 DEF Check
    <3> HIDE DEF L
    <3>2. QED
      BY <3>1 DEF TypeOK, cacheVars
  <2>4. QED
    BY <2>2, <2>3
<1>3. ASSUME NEW p \in Procs, CheckFails(p) PROVE TypeOK'
  BY <1>3 DEF TypeOK, CheckFails, cacheVars
<1>4. ASSUME NEW p \in Procs, Put(p) PROVE TypeOK'
  <2>1. PICK k \in Keys : PutOf(p, k)
    BY <1>4, PutShape
  <2>2. pc[p] = "put"
    BY <1>4, PutShape
  <2>3. store' \in [Keys -> Configs \cup {None}]
    BY <2>1, WrittenType DEF PutOf, TypeOK
  <2>4. faults' \in 0..MaxFaults
    BY <2>1 DEF PutOf, TypeOK
  <2>5. /\ pc' \in [Procs -> {"lock", "check", "put", "unlock", "abort", "done", "down"}]
        /\ left' \in [Procs -> SUBSET Keys]
        /\ \A q \in Procs : left'[q] # {} <=> pc'[q] = "put"
    <3>1. pc' \in [Procs -> {"lock", "check", "put", "unlock", "abort", "done", "down"}]
      BY <2>1 DEF PutOf, TypeOK
    <3>2. left' \in [Procs -> SUBSET Keys]
      BY <2>1 DEF PutOf, TypeOK
    <3>3. left'[p] # {} <=> pc'[p] = "put"
      BY <2>1, <2>2 DEF PutOf, TypeOK
    <3>4. \A q \in Procs \ {p} : left'[q] = left[q] /\ pc'[q] = pc[q]
      BY <2>1 DEF PutOf, TypeOK
    <3>5. QED
      BY <3>1, <3>2, <3>3, <3>4 DEF TypeOK
  <2>6. QED
    BY <2>1, <2>3, <2>4, <2>5 DEF PutOf, TypeOK, cacheVars
<1>5. ASSUME NEW p \in Procs, Unlock(p) PROVE TypeOK'
  BY <1>5 DEF TypeOK, Unlock, cacheVars
<1>6. ASSUME NEW p \in Procs, GetSelector(p) PROVE TypeOK'
  <2>1. ReadSelectors \in [Selectors -> Configs \cup {None}]
    BY KeyFacts DEF TypeOK, ReadSelectors
  <2>2. QED
    BY <1>6, <2>1 DEF TypeOK, GetSelector
<1>7. ASSUME NEW p \in Procs, NEW r \in Routers, GetRouter(p, r) PROVE TypeOK'
  <2>1. ReadRouter(r) \in Configs \cup {None}
    BY KeyFacts DEF TypeOK, ReadRouter
  <2>2. rtrs' \in [Procs -> [Routers -> Configs \cup {None}]]
    BY <1>7, <2>1 DEF TypeOK, GetRouter
  <2>3. late' \in [Procs -> SUBSET Routers]
    BY <1>7 DEF TypeOK, GetRouter
  <2>4. QED
    BY <1>7, <2>2, <2>3 DEF TypeOK, GetRouter
<1>8. ASSUME NEW p \in Procs, Crash(p) PROVE TypeOK'
  BY <1>8 DEF TypeOK, Crash, NoRouters
<1>9. ASSUME NEW p \in Procs, Restart(p) PROVE TypeOK'
  BY <1>9 DEF TypeOK, Restart, cacheVars
<1>10. ASSUME NEW p \in Procs, LoseLease(p) PROVE TypeOK'
  BY <1>10 DEF TypeOK, LoseLease, cacheVars
<1>11. CASE Expire
  BY <1>11 DEF TypeOK, Expire, cacheVars
<1>12. CASE UNCHANGED vars
  BY <1>12 DEF TypeOK, vars, cacheVars
<1>13. QED
  BY <1>1, <1>2, <1>3, <1>4, <1>5, <1>6, <1>7, <1>8, <1>9, <1>10, <1>11, <1>12 DEF Next

(* Types, and that LoadConfig has keys left exactly while it puts them     *)
(* (impl.go:105-135).                                                      *)
THEOREM ConfigTypes == Spec => []TypeOK
<1>1. ASSUME Init PROVE TypeOK
  <2>1. /\ pc \in [Procs -> {"lock", "check", "put", "unlock", "abort", "done", "down"}]
        /\ left \in [Procs -> SUBSET Keys]
        /\ \A p \in Procs : left[p] = {} /\ pc[p] # "put"
    BY <1>1 DEF Init
  <2>2. /\ holder \in Procs \cup {None, Orphan} /\ lost \in BOOLEAN
        /\ faults \in 0..MaxFaults
    <3>1. holder \in Procs \cup {None, Orphan} /\ lost \in BOOLEAN
      BY <1>1 DEF Init
    <3>2. faults = 0 /\ 0 \in 0..MaxFaults
      BY <1>1, FaultsAssumption DEF Init
    <3>3. QED
      BY <3>1, <3>2
  <2>3. /\ store \in [Keys -> Configs \cup {None}]
        /\ slts \in [Procs -> [Selectors -> Configs \cup {None}] \cup {None}]
    BY <1>1 DEF Init
  <2>4. /\ rtrs \in [Procs -> [Routers -> Configs \cup {None}]]
        /\ late \in [Procs -> SUBSET Routers]
    BY <1>1 DEF Init, NoRouters
  <2>5. QED
    BY <2>1, <2>2, <2>3, <2>4 DEF TypeOK
<1>2. TypeOK /\ [Next]_vars => TypeOK'
  BY TypesStep
<1>3. QED
  BY <1>1, <1>2, PTL DEF Spec

-----------------------------------------------------------------------------
(* A selector once stored stays stored: no step removes a key.             *)
LEMMA StoredStays ==
    ASSUME TypeOK, [Next]_vars, NEW k \in Keys, store[k] # None
    PROVE  store'[k] # None
<1>1. ASSUME NEW p \in Procs, Put(p) PROVE store'[k] # None
  <2>1. PICK j \in Keys : PutOf(p, j)
    BY <1>1, PutShape
  <2>2. store' \in {store, Written(j, p)}
    BY <2>1 DEF PutOf
  <2>3. QED
    BY <2>2, WrittenType
<1>2. (\E p \in Procs : Put(p)) \/ store' = store
  BY DEF Next, vars, Lock, Check, CheckFails, Unlock, GetSelector, GetRouter, Crash,
         Restart, Expire, LoseLease
<1>3. QED
  BY <1>1, <1>2

(* What RoutersRunnable and CachedRunnable say of one router.              *)
Finds(c, r) == c # None => /\ r \in DOMAIN Uses[c]
                           /\ \A s \in Uses[c][r] : store[Slt(s)] # None

(* Which selectors a configuration uses does not change, and they stay.    *)
LEMMA FindsStays ==
    ASSUME TypeOK, [Next]_vars, NEW c \in Configs \cup {None}, NEW r \in Routers,
           Finds(c, r)
    PROVE  Finds(c, r)'
<1> SUFFICES ASSUME c # None PROVE Finds(c, r)'
  BY DEF Finds
<1>1. r \in DOMAIN Uses[c] /\ \A s \in Uses[c][r] : store[Slt(s)] # None
  BY DEF Finds
<1>2. \A s \in Uses[c][r] : s \in Selectors
  BY <1>1, ItemFacts
<1>3. \A s \in Uses[c][r] : Slt(s) \in Keys
  BY <1>2, KeyFacts
<1>4. \A s \in Uses[c][r] : store'[Slt(s)] # None
  BY <1>1, <1>3, StoredStays
<1>5. QED
  BY <1>1, <1>4 DEF Finds

(* A step of a load keeps RunnableInv: the keys of the lowest rank go      *)
(* first, so a router is put when no selector is left (impl.go:105-131).   *)
LEMMA PutRunnable ==
    ASSUME TypeOK, RunnableInv, NEW p \in Procs, Put(p)
    PROVE  SelectorsPut' /\ RoutersRunnable'
<1>1. PICK k \in Keys : PutOf(p, k)
  BY PutShape
<1>2. [Next]_vars
  BY DEF Next
<1>3. pc[p] = "put" /\ pc \in [Procs -> {"lock", "check", "put", "unlock", "abort", "done", "down"}]
  BY PutShape DEF TypeOK
<1>4. k \in left[p] /\ left \in [Procs -> SUBSET Keys]
  BY <1>1 DEF PutOf, TypeOK
<1>5. store' \in {store, Written(k, p)}
  BY <1>1 DEF PutOf
<1>6. ConfigOf \in [Procs -> Configs]
  BY ConfigAssumption
<1>7. /\ left[p] \subseteq ItemsOf(ConfigOf[p])
      /\ \A s \in SelectorsOf[ConfigOf[p]] : Slt(s) \in left[p] \/ store[Slt(s)] # None
  BY <1>3 DEF RunnableInv, SelectorsPut
<1>8. SelectorsPut'
  <2> SUFFICES ASSUME NEW q \in Procs, pc'[q] = "put"
               PROVE  /\ left'[q] \subseteq ItemsOf(ConfigOf[q])
                      /\ \A s \in SelectorsOf[ConfigOf[q]] :
                            Slt(s) \in left'[q] \/ store'[Slt(s)] # None
    BY DEF SelectorsPut
  <2>1. \A s \in SelectorsOf[ConfigOf[q]] : Slt(s) \in Keys
    BY <1>6, ItemFacts, KeyFacts
  <2>2. CASE q # p
    <3>1. pc[q] = "put" /\ left'[q] = left[q]
      BY <1>1, <1>3, <1>4, <2>2 DEF PutOf
    <3>2. QED
      BY <1>2, <2>1, <3>1, StoredStays DEF RunnableInv, SelectorsPut
  <2>3. CASE q = p
    <3>1. store' = Written(k, p) /\ left'[p] = left[p] \ {k}
      BY <1>1, <1>3, <1>4, <2>3 DEF PutOf
    <3>2. store'[k] # None
      BY <3>1, WrittenType
    <3>3. QED
      BY <1>2, <1>7, <2>1, <2>3, <3>1, <3>2, StoredStays
  <2>4. QED
    BY <2>2, <2>3
<1>9. RoutersRunnable'
  <2> SUFFICES ASSUME NEW r \in Routers
               PROVE  /\ store[Rtr(r)] \in Configs \cup {None}
                      /\ \E c \in Configs \cup {None} : store'[Rtr(r)] = c /\ Finds(c, r)'
    BY DEF RoutersRunnable, Finds
  <2>1. Rtr(r) \in Keys /\ store[Rtr(r)] \in Configs \cup {None}
    BY KeyFacts DEF TypeOK
  <2>2. CASE store'[Rtr(r)] = store[Rtr(r)]
    <3>1. Finds(store[Rtr(r)], r)
      BY DEF RunnableInv, RoutersRunnable, Finds
    <3> DEFINE c == store[Rtr(r)]
    <3>2. PICK d \in Configs \cup {None} : d = c
      BY <2>1
    <3>3. Finds(d, r)
      BY <3>1, <3>2
    <3>4. Finds(d, r)'
      BY <1>2, <3>3, FindsStays
    <3>5. QED
      BY <2>1, <2>2, <3>2, <3>4
  <2>3. CASE store'[Rtr(r)] # store[Rtr(r)]
    <3>1. k = Rtr(r) /\ store' = Written(k, p) /\ store'[k] = ConfigOf[p]
      BY <1>5, <2>1, <2>3, WrittenType
    <3>2. r \in DOMAIN Uses[ConfigOf[p]]
      BY <1>4, <1>6, <1>7, <3>1, ItemFacts
    <3>3. \A s \in SelectorsOf[ConfigOf[p]] : Slt(s) \notin left[p]
      <4> SUFFICES ASSUME NEW s \in SelectorsOf[ConfigOf[p]], Slt(s) \in left[p] PROVE FALSE
        OBVIOUS
      <4>1. s \in Selectors
        BY <1>6, ItemFacts
      <4>2. Rank(Slt(s)) = 1 /\ Rank(Rtr(r)) = 2
        BY <4>1, KeyFacts
      <4>3. Rank(k) <= Rank(Slt(s))
        BY <1>1 DEF PutOf
      <4>4. QED
        BY <3>1, <4>2, <4>3
    <3>4. \A s \in SelectorsOf[ConfigOf[p]] : Slt(s) \in Keys /\ store[Slt(s)] # None
      BY <1>6, <1>7, <3>3, ItemFacts, KeyFacts
    <3>5. \A s \in Uses[ConfigOf[p]][r] : store'[Slt(s)] # None
      BY <1>2, <1>6, <3>2, <3>4, ItemFacts, StoredStays
    <3>6. Finds(ConfigOf[p], r)'
      BY <3>2, <3>5 DEF Finds
    <3>7. QED
      BY <1>6, <2>1, <3>1, <3>6
  <2>4. QED
    BY <2>2, <2>3
<1>10. QED
  BY <1>8, <1>9

(* Every step keeps RunnableInv.                                           *)
LEMMA RunnableStep ==
    ASSUME TypeOK, RunnableInv, [Next]_vars
    PROVE  RunnableInv'
<1>1. SelectorsPut'
  <2>1. ASSUME NEW p \in Procs, Check(p), ~IsLoaded(p) PROVE SelectorsPut'
    <3>1. /\ pc' = [pc EXCEPT ![p] = "put"] /\ left' = [left EXCEPT ![p] = ItemsOf(ConfigOf[p])]
          /\ store' = store
      BY <2>1 DEF Check
    <3>2. \A s \in SelectorsOf[ConfigOf[p]] : Slt(s) \in ItemsOf(ConfigOf[p])
      BY ItemFacts, ConfigAssumption
    <3>3. QED
      BY <3>1, <3>2 DEF RunnableInv, SelectorsPut, TypeOK
  <2>2. ASSUME store' = store, \A q \in Procs : pc'[q] = "put" => pc[q] = "put" /\ left'[q] = left[q]
        PROVE  SelectorsPut'
    BY <2>2 DEF RunnableInv, SelectorsPut
  <2>3. ASSUME NEW p \in Procs, Check(p), IsLoaded(p) PROVE SelectorsPut'
    <3>1. pc' = [pc EXCEPT ![p] = "unlock"] /\ UNCHANGED <<left, store>>
      BY <2>3 DEF Check, WhenLoaded
    <3>2. QED
      BY <2>2, <3>1 DEF TypeOK
  <2>4. ASSUME NEW p \in Procs,
               \/ Lock(p) \/ CheckFails(p) \/ Unlock(p) \/ GetSelector(p) \/ Restart(p)
               \/ LoseLease(p) \/ \E r \in Routers : GetRouter(p, r)
        PROVE  SelectorsPut'
    <3>1. /\ store' = store /\ left' = left
          /\ pc' = pc \/ \E v \in {"check", "abort", "done", "down", "lock"} : pc' = [pc EXCEPT ![p] = v]
      BY <2>4 DEF Lock, CheckFails, Unlock, GetSelector, Restart, LoseLease, GetRouter
    <3>2. QED
      BY <2>2, <3>1 DEF TypeOK
  <2>5. ASSUME NEW p \in Procs, Crash(p) PROVE SelectorsPut'
    <3>1. /\ pc' = [pc EXCEPT ![p] = "down"] /\ left' = [left EXCEPT ![p] = {}]
          /\ store' = store
      BY <2>5 DEF Crash
    <3>2. QED
      BY <2>2, <3>1 DEF TypeOK
  <2>6. CASE Expire \/ UNCHANGED vars
    BY <2>2, <2>6 DEF Expire, vars
  <2>7. QED
    BY <2>1, <2>3, <2>4, <2>5, <2>6, PutRunnable DEF Next
<1>2. RoutersRunnable'
  <2>1. ASSUME store' = store PROVE RoutersRunnable'
    BY <2>1 DEF RunnableInv, RoutersRunnable
  <2>2. (\E p \in Procs : Put(p)) \/ store' = store
    BY DEF Next, vars, Lock, Check, CheckFails, Unlock, GetSelector, GetRouter, Crash,
           Restart, Expire, LoseLease
  <2>3. QED
    BY <2>1, <2>2, PutRunnable
<1>3. CachedRunnable'
  <2> SUFFICES ASSUME NEW p \in Procs, NEW r \in Routers,
                      NEW c \in Configs \cup {None}, c = rtrs'[p][r]
               PROVE  Finds(c, r)'
    <3>1. TypeOK'
      BY TypesStep
    <3>2. \A p \in Procs, r \in Routers : rtrs'[p][r] \in Configs \cup {None}
      BY <3>1 DEF TypeOK
    <3>3. QED
      BY <3>2 DEF CachedRunnable, Finds
  <2>1. CASE c = rtrs[p][r]
    <3>1. Finds(c, r)
      BY <2>1 DEF RunnableInv, CachedRunnable, Finds
    <3>2. QED
      BY <3>1, FindsStays
  <2>2. CASE c = None
    BY <2>2 DEF Finds
  <2>3. CASE c = store[Rtr(r)]
    <3>1. Finds(c, r)
      BY <2>3 DEF RunnableInv, RoutersRunnable, Finds
    <3>2. QED
      BY <3>1, FindsStays
  <2>4. c \in {rtrs[p][r], None, store[Rtr(r)]}
    <3>1. ASSUME NEW q \in Procs, NEW t \in Routers, GetRouter(q, t) PROVE c \in {rtrs[p][r], store[Rtr(r)]}
      <4>1. rtrs' = [rtrs EXCEPT ![q][t] = store[Rtr(t)]]
        BY <3>1 DEF GetRouter, ReadRouter
      <4>2. QED
        BY <4>1 DEF TypeOK
    <3>2. ASSUME NEW q \in Procs, Crash(q) PROVE c \in {rtrs[p][r], None}
      BY <3>2 DEF Crash, NoRouters, TypeOK
    <3>3. \/ \E q \in Procs, t \in Routers : GetRouter(q, t)
          \/ \E q \in Procs : Crash(q)
          \/ rtrs' = rtrs
      BY DEF Next, vars, cacheVars, Lock, Check, CheckFails, Put, Unlock, GetSelector,
             Restart, Expire, LoseLease
    <3>4. QED
      BY <3>1, <3>2, <3>3
  <2>5. QED
    BY <2>1, <2>2, <2>3, <2>4
<1>4. ClientRunnable'
  <2> SUFFICES ASSUME NEW p \in Procs, NEW r \in Routers, r \notin late'[p],
                      rtrs'[p][r] # None, slts'[p] # None,
                      NEW s \in Uses[rtrs'[p][r]][r]
               PROVE  slts'[p][s] # None
    BY DEF ClientRunnable
  <2>1. CASE UNCHANGED cacheVars
    BY <2>1 DEF RunnableInv, ClientRunnable, cacheVars
  <2>2. ASSUME NEW q \in Procs, GetSelector(q) PROVE slts'[p][s] # None
    <3>1. slts' = [slts EXCEPT ![q] = ReadSelectors] /\ rtrs' = rtrs /\ late' = late
      BY <2>2 DEF GetSelector
    <3>2. CASE q # p
      <4>1. slts'[p] = slts[p]
        BY <3>1, <3>2 DEF TypeOK
      <4>2. QED
        BY <3>1, <4>1 DEF RunnableInv, ClientRunnable
    <3>3. CASE q = p
      <4>1. slts'[p] = ReadSelectors
        BY <3>1, <3>3 DEF TypeOK
      <4>2. /\ r \in DOMAIN Uses[rtrs[p][r]] /\ rtrs[p][r] # None
            /\ \A t \in Uses[rtrs[p][r]][r] : store[Slt(t)] # None
        BY <3>1 DEF RunnableInv, CachedRunnable
      <4>3. rtrs[p][r] \in Configs
        BY <4>2 DEF TypeOK
      <4>4. s \in Selectors /\ store[Slt(s)] # None
        BY <3>1, <4>2, <4>3, ItemFacts
      <4>5. QED
        BY <4>1, <4>4 DEF ReadSelectors
    <3>4. QED
      BY <3>2, <3>3
  <2>3. ASSUME NEW q \in Procs, NEW t \in Routers, GetRouter(q, t) PROVE slts'[p][s] # None
    <3>1. /\ rtrs' = [rtrs EXCEPT ![q][t] = ReadRouter(t)] /\ slts' = slts
          /\ late' = [late EXCEPT ![q] = IF slts[q] = None THEN @ ELSE @ \cup {t}]
      BY <2>3 DEF GetRouter
    <3>2. late'[p] = late[p] \/ (p = q /\ late'[p] = late[p] \cup {t})
      BY <3>1 DEF TypeOK
    <3>3. ~(p = q /\ r = t)
      BY <3>1 DEF TypeOK
    <3>4. rtrs'[p][r] = rtrs[p][r]
      BY <3>1, <3>3 DEF TypeOK
    <3>5. r \notin late[p]
      BY <3>2
    <3>6. QED
      BY <3>1, <3>4, <3>5 DEF RunnableInv, ClientRunnable
  <2>4. ASSUME NEW q \in Procs, Crash(q) PROVE slts'[p][s] # None
    <3>1. /\ slts' = [slts EXCEPT ![q] = None] /\ rtrs' = [rtrs EXCEPT ![q] = NoRouters]
          /\ late' = [late EXCEPT ![q] = {}]
      BY <2>4 DEF Crash
    <3>2. p # q
      BY <3>1 DEF TypeOK
    <3>3. slts'[p] = slts[p] /\ rtrs'[p] = rtrs[p] /\ late'[p] = late[p]
      BY <3>1, <3>2 DEF TypeOK
    <3>4. QED
      BY <3>3 DEF RunnableInv, ClientRunnable
  <2>5. \/ \E q \in Procs : GetSelector(q) \/ Crash(q)
        \/ \E q \in Procs, t \in Routers : GetRouter(q, t)
        \/ UNCHANGED cacheVars
    BY DEF Next, vars, cacheVars, Lock, Check, CheckFails, Put, Unlock, Restart, Expire,
           LoseLease
  <2>6. QED
    BY <2>1, <2>2, <2>3, <2>4, <2>5
<1>5. QED
  BY <1>1, <1>2, <1>3, <1>4 DEF RunnableInv

(* The invariant holds of every behaviour.                                 *)
LEMMA RunnableAlways == Spec => []RunnableInv
<1>1. ASSUME Init PROVE RunnableInv
  <2>1. \A p \in Procs : pc[p] # "put" /\ slts[p] = None /\ \A r \in Routers : rtrs[p][r] = None
    BY <1>1 DEF Init, NoRouters
  <2>2. \A r \in Routers : store[Rtr(r)] = None
    BY <1>1, KeyFacts DEF Init
  <2>3. QED
    BY <2>1, <2>2 DEF RunnableInv, SelectorsPut, RoutersRunnable, CachedRunnable, ClientRunnable
<1>2. TypeOK /\ RunnableInv /\ [Next]_vars => RunnableInv'
  BY RunnableStep
<1>3. QED
  BY <1>1, <1>2, ConfigTypes, PTL DEF Spec

(* A stored router finds every selector its rules name, whatever fails     *)
(* (impl.go:105-131).                                                      *)
THEOREM RoutersAlwaysRunnable == Spec => []RoutersRunnable
<1>1. RunnableInv => RoutersRunnable
  BY DEF RunnableInv
<1>2. QED
  BY <1>1, RunnableAlways, PTL

(* A client finds the selectors of each router it cached before them       *)
(* (selector.go:33-43, router.go:27-36).                                   *)
THEOREM ClientsAlwaysRunnable == Spec => []ClientRunnable
<1>1. RunnableInv => ClientRunnable
  BY DEF RunnableInv
<1>2. QED
  BY <1>1, RunnableAlways, PTL

-----------------------------------------------------------------------------
(* A configuration is at least as new as itself, and as those it is newer  *)
(* than; and at least as new is transitive.                                *)
LEMMA AtLeastFacts ==
    /\ \A c \in Configs : AtLeast(c, c)
    /\ \A c, d \in Configs : Less(Version[d], Version[c]) => AtLeast(c, d)
    /\ \A c, d, e \in Configs : AtLeast(c, d) /\ AtLeast(d, e) => AtLeast(c, e)
<1>1. \A c \in Configs : Version[c] \in Seq(Nat) /\ c # None
  BY ConfigAssumption, NoneAssumption
<1>2. \A c, d \in Configs : Less(Version[d], Version[c]) => ~Less(Version[c], Version[d])
  BY <1>1, LessAsymmetric
<1>3. ASSUME NEW c \in Configs, NEW d \in Configs, NEW e \in Configs,
             AtLeast(c, d), AtLeast(d, e)
      PROVE  AtLeast(c, e)
  BY <1>1, <1>3, NotLessTransitive DEF AtLeast
<1>4. QED
  BY <1>1, <1>2, <1>3 DEF AtLeast

(* While no lease is lost the mutex excludes: a step moves only its own    *)
(* process between the lock and the unlock, and it holds the mutex.        *)
LEMMA MutexStep ==
    ASSUME TypeOK, MutexInv, [Next]_vars
    PROVE  MutexInv'
<1> DEFINE Inside == {"check", "put", "unlock", "abort"}
<1> SUFFICES ASSUME ~lost', NEW q \in Procs, pc'[q] \in Inside PROVE holder' = q
  BY DEF MutexInv
<1>1. ~lost
  BY DEF Next, vars, cacheVars, Lock, Check, CheckFails, Put, Unlock, GetSelector, GetRouter,
         Crash, Restart, Expire, LoseLease
<1>2. \A p \in Procs : pc[p] \in Inside => holder = p
  BY <1>1 DEF MutexInv
<1>3. ASSUME NEW p \in Procs, Lock(p) PROVE holder' = q
  <2>1. holder = None /\ holder' = p /\ pc' = [pc EXCEPT ![p] = "check"]
    BY <1>3 DEF Lock
  <2>2. q # p => pc[q] \in Inside
    BY <2>1 DEF TypeOK
  <2>3. QED
    BY <1>2, <2>1, <2>2, NoneAssumption
<1>4. ASSUME NEW p \in Procs, Check(p) \/ CheckFails(p) \/ Put(p) PROVE holder' = q
  <2>1. /\ pc[p] \in Inside /\ holder' = holder
        /\ \E v \in Inside : pc' = [pc EXCEPT ![p] = v]
    BY <1>4 DEF Check, CheckFails, Put, WhenLoaded, AfterError
  <2>2. pc[q] \in Inside
    BY <2>1 DEF TypeOK
  <2>3. QED
    BY <1>2, <2>1, <2>2
<1>5. ASSUME NEW p \in Procs, Unlock(p) \/ Crash(p) PROVE holder' = q
  <2>1. /\ pc' = [pc EXCEPT ![p] = "done"] \/ pc' = [pc EXCEPT ![p] = "down"]
        /\ holder # p => holder' = holder
    BY <1>5 DEF Unlock, Crash
  <2>2. q # p /\ pc[q] \in Inside
    BY <2>1 DEF TypeOK
  <2>3. QED
    BY <1>2, <2>1, <2>2
<1>6. ASSUME NEW p \in Procs,
             GetSelector(p) \/ Restart(p) \/ \E r \in Routers : GetRouter(p, r)
      PROVE  holder' = q
  <2>1. holder' = holder /\ (pc' = pc \/ pc' = [pc EXCEPT ![p] = "lock"])
    BY <1>6 DEF GetSelector, Restart, GetRouter
  <2>2. pc[q] \in Inside
    BY <2>1 DEF TypeOK
  <2>3. QED
    BY <1>2, <2>1, <2>2
<1>7. CASE Expire
  <2>1. holder = Orphan /\ pc' = pc
    BY <1>7 DEF Expire
  <2>2. QED
    BY <1>2, <2>1, NoneAssumption
<1>8. ASSUME NEW p \in Procs, LoseLease(p) PROVE FALSE
  BY <1>8 DEF LoseLease
<1>9. CASE UNCHANGED vars
  BY <1>2, <1>9 DEF vars
<1>10. QED
  BY <1>3, <1>4, <1>5, <1>6, <1>7, <1>8, <1>9 DEF Next

(* What a put under the mutex meets: nobody else puts, the stored version  *)
(* is older, and the version is the last key.                              *)
LEMMA PutMeets ==
    ASSUME TypeOK, SelectorsPut, MutexInv, PutterInv, ~lost,
           NEW p \in Procs, NEW k \in Keys, pc[p] = "put", PutOf(p, k)
    PROVE  /\ \A q \in Procs \ {p} : pc[q] \notin {"check", "put", "unlock", "abort"}
           /\ store[VersionKey] # None => Less(Version[store[VersionKey]], Version[ConfigOf[p]])
           /\ \A j \in ItemsOf(ConfigOf[p]) \ left[p] : store[j] = ConfigOf[p]
           /\ k = VersionKey => left[p] = {VersionKey}
<1>1. \A q \in Procs \ {p} : pc[q] \notin {"check", "put", "unlock", "abort"}
  BY DEF MutexInv
<1>2. /\ store[VersionKey] # None => Less(Version[store[VersionKey]], Version[ConfigOf[p]])
      /\ \A j \in ItemsOf(ConfigOf[p]) \ left[p] : store[j] = ConfigOf[p]
  BY DEF PutterInv
<1>3. ASSUME k = VersionKey PROVE left[p] = {VersionKey}
  <2>1. /\ left[p] \subseteq ItemsOf(ConfigOf[p]) /\ VersionKey \in left[p]
        /\ \A j \in left[p] : Rank(VersionKey) <= Rank(j)
    BY <1>3 DEF SelectorsPut, PutOf
  <2>2. \A j \in left[p] : j \in Keys /\ (j = VersionKey \/ Rank(j) < 3)
    BY <2>1, ItemFacts, ConfigAssumption
  <2>3. \A j \in left[p] : Rank(j) \in Nat
    BY DEF Rank
  <2>4. Rank(VersionKey) = 3
    BY KeyFacts
  <2>5. \A j \in left[p] : j = VersionKey
    BY <2>1, <2>2, <2>3, <2>4
  <2>6. QED
    BY <2>1, <2>5
<1>4. QED
  BY <1>1, <1>2, <1>3

(* Who puts keeps finding what it has put, under an older version.         *)
LEMMA PutterStep ==
    ASSUME TypeOK, SelectorsPut, MutexInv, PutterInv, [Next]_vars
    PROVE  PutterInv'
<1> SUFFICES ASSUME ~lost'
             PROVE  \A q \in Procs : pc'[q] = "put" =>
                      /\ store'[VersionKey] # None =>
                           Less(Version[store'[VersionKey]], Version[ConfigOf[q]])
                      /\ \A j \in ItemsOf(ConfigOf[q]) \ left'[q] : store'[j] = ConfigOf[q]
  BY DEF PutterInv
<1> DEFINE Goal == \A q \in Procs : pc'[q] = "put" =>
                      /\ store'[VersionKey] # None =>
                           Less(Version[store'[VersionKey]], Version[ConfigOf[q]])
                      /\ \A j \in ItemsOf(ConfigOf[q]) \ left'[q] : store'[j] = ConfigOf[q]
<1>1. ~lost
  BY DEF Next, vars, cacheVars, Lock, Check, CheckFails, Put, Unlock, GetSelector, GetRouter,
         Crash, Restart, Expire, LoseLease
<1>2. ASSUME store' = store, \A q \in Procs : pc'[q] = "put" => pc[q] = "put" /\ left'[q] = left[q]
      PROVE  Goal
  BY <1>1, <1>2 DEF PutterInv
<1>3. ASSUME NEW p \in Procs, Check(p) PROVE Goal
  <2>1. CASE IsLoaded(p)
    <3>1. pc' = [pc EXCEPT ![p] = "unlock"] /\ UNCHANGED <<left, store>>
      BY <1>3, <2>1 DEF Check, WhenLoaded
    <3>2. QED
      BY <1>2, <3>1 DEF TypeOK
  <2>2. CASE ~IsLoaded(p)
    <3>1. /\ pc' = [pc EXCEPT ![p] = "put"] /\ left' = [left EXCEPT ![p] = ItemsOf(ConfigOf[p])]
          /\ store' = store
      BY <1>3, <2>2 DEF Check
    <3>2. left'[p] = ItemsOf(ConfigOf[p])
      BY <3>1 DEF TypeOK
    <3>3. \A q \in Procs \ {p} : pc'[q] = pc[q] /\ left'[q] = left[q]
      BY <3>1 DEF TypeOK
    <3>4. store[VersionKey] # None => Less(Version[store[VersionKey]], Version[ConfigOf[p]])
      BY <2>2 DEF IsLoaded
    <3>5. QED
      BY <1>1, <3>1, <3>2, <3>3, <3>4 DEF PutterInv
  <2>3. QED
    BY <2>1, <2>2
<1>4. ASSUME NEW p \in Procs, Put(p) PROVE Goal
  <2>1. PICK k \in Keys : PutOf(p, k)
    BY <1>4, PutShape
  <2>2. pc[p] = "put"
    BY <1>4, PutShape
  <2>3. \E v \in {"put", "unlock", "abort"} : pc' = [pc EXCEPT ![p] = v]
    BY <2>1 DEF PutOf
  <2>4. \A q \in Procs : pc'[q] = "put" => q = p
    BY <1>1, <2>1, <2>2, <2>3, PutMeets DEF TypeOK
  <2>5. SUFFICES ASSUME pc'[p] = "put"
                 PROVE  /\ store'[VersionKey] # None =>
                             Less(Version[store'[VersionKey]], Version[ConfigOf[p]])
                        /\ \A j \in ItemsOf(ConfigOf[p]) \ left'[p] : store'[j] = ConfigOf[p]
    BY <2>4
  <2>6. /\ left[p] \ {k} # {} /\ store' = Written(k, p) /\ left'[p] = left[p] \ {k}
    BY <2>1, <2>5 DEF PutOf, TypeOK
  <2>7. k # VersionKey
    BY <1>1, <2>1, <2>2, <2>6, PutMeets
  <2>8. store'[VersionKey] = store[VersionKey]
    BY <2>6, <2>7, WrittenType, KeyFacts
  <2>9. \A j \in ItemsOf(ConfigOf[p]) : j \in Keys
    BY ItemFacts, ConfigAssumption
  <2>10. QED
    BY <1>1, <2>1, <2>2, <2>6, <2>8, <2>9, PutMeets, WrittenType
<1>5. ASSUME NEW p \in Procs,
             \/ Lock(p) \/ CheckFails(p) \/ Unlock(p) \/ GetSelector(p) \/ Restart(p)
             \/ LoseLease(p) \/ \E r \in Routers : GetRouter(p, r)
      PROVE  Goal
  <2>1. /\ store' = store /\ left' = left
        /\ pc' = pc \/ \E v \in {"check", "abort", "done", "down", "lock"} : pc' = [pc EXCEPT ![p] = v]
    BY <1>5 DEF Lock, CheckFails, Unlock, GetSelector, Restart, LoseLease, GetRouter
  <2>2. QED
    BY <1>2, <2>1 DEF TypeOK
<1>6. ASSUME NEW p \in Procs, Crash(p) PROVE Goal
  <2>1. /\ pc' = [pc EXCEPT ![p] = "down"] /\ left' = [left EXCEPT ![p] = {}]
        /\ store' = store
    BY <1>6 DEF Crash
  <2>2. QED
    BY <1>2, <2>1 DEF TypeOK
<1>7. CASE Expire \/ UNCHANGED vars
  BY <1>2, <1>7 DEF Expire, vars
<1>8. QED
  BY <1>3, <1>4, <1>5, <1>6, <1>7 DEF Next

(* A put leaves a version that stands for all its keys: another key only   *)
(* becomes newer, the version is put when all others are.                  *)
LEMMA PutComplete ==
    ASSUME TypeOK, SelectorsPut, VersionInv, ~lost, NEW p \in Procs, Put(p)
    PROVE  LoadedIsComplete'
<1> DEFINE c == ConfigOf[p]
<1>1. PICK k \in Keys : PutOf(p, k)
  BY PutShape
<1>2. pc[p] = "put"
  BY PutShape
<1>3. /\ \A q \in Procs \ {p} : pc[q] \notin {"check", "put", "unlock", "abort"}
      /\ store[VersionKey] # None => Less(Version[store[VersionKey]], Version[c])
      /\ \A j \in ItemsOf(c) \ left[p] : store[j] = c
      /\ k = VersionKey => left[p] = {VersionKey}
  BY <1>1, <1>2, PutMeets DEF VersionInv
<1>4. c \in Configs /\ c # None /\ AtLeast(c, c)
  BY ConfigAssumption, NoneAssumption, AtLeastFacts
<1>5. VersionKey \in Keys /\ store[VersionKey] \in Configs \cup {None}
  BY KeyFacts DEF TypeOK
<1>6. store[VersionKey] # None => AtLeast(c, store[VersionKey])
  BY <1>3, <1>4, <1>5, AtLeastFacts
<1>7. /\ store[VersionKey] # None =>
           \A j \in ItemsOf(store[VersionKey]) : AtLeast(store[j], store[VersionKey])
      /\ \A q \in Procs : pc[q] \in {"unlock", "done"} => AtLeast(store[VersionKey], ConfigOf[q])
  BY DEF VersionInv, LoadedIsComplete
<1>8. \/ pc'[p] = "unlock" /\ left[p] = {k} /\ store' = Written(k, p)
      \/ pc'[p] \in {"put", "abort"}
  BY <1>1 DEF PutOf, TypeOK
<1>9. \A q \in Procs \ {p} : pc'[q] = pc[q]
  BY <1>1 DEF PutOf, TypeOK
<1>10. store' = store \/ store' = Written(k, p)
  BY <1>1 DEF PutOf
<1>11. \A d \in Configs : ItemsOf(d) \subseteq Keys /\ VersionKey \in ItemsOf(d)
  BY ItemFacts
<1>12. CASE k = VersionKey /\ store' = Written(k, p)
  <2>1. store'[VersionKey] = c
    BY <1>12, WrittenType
  <2>2. ASSUME NEW j \in ItemsOf(c) PROVE store'[j] = c
    <3>1. j \in Keys
      BY <1>4, <1>11
    <3>2. CASE j = VersionKey
      BY <2>1, <3>2
    <3>3. CASE j # VersionKey
      BY <1>3, <1>12, <3>1, <3>3, WrittenType
    <3>4. QED
      BY <3>2, <3>3
  <2>3. ASSUME NEW q \in Procs, pc'[q] \in {"unlock", "done"} PROVE AtLeast(c, ConfigOf[q])
    <3>1. CASE q = p
      BY <1>4, <3>1
    <3>2. CASE q # p
      <4>1. AtLeast(store[VersionKey], ConfigOf[q])
        BY <1>7, <1>9, <2>3, <3>2
      <4>2. store[VersionKey] \in Configs
        BY <1>5, <4>1 DEF AtLeast
      <4>3. AtLeast(c, store[VersionKey])
        BY <1>6, <4>1 DEF AtLeast
      <4>4. QED
        BY <1>4, <4>1, <4>2, <4>3, AtLeastFacts, ConfigAssumption
    <3>3. QED
      BY <3>1, <3>2
  <2>4. QED
    <3> HIDE DEF c
    <3>1. /\ \A j \in ItemsOf(store'[VersionKey]) : AtLeast(store'[j], store'[VersionKey])
          /\ \A q \in Procs : pc'[q] \in {"unlock", "done"} =>
               AtLeast(store'[VersionKey], ConfigOf[q])
      BY <1>4, <2>1, <2>2, <2>3
    <3>2. QED
      BY <3>1 DEF LoadedIsComplete, AtLeast
<1>13. CASE store' = store \/ k # VersionKey
  <2>1. store'[VersionKey] = store[VersionKey]
    BY <1>5, <1>10, <1>13, WrittenType
  <2>2. pc'[p] # "unlock"
    <3> SUFFICES ASSUME pc'[p] = "unlock" PROVE FALSE
      OBVIOUS
    <3>1. left[p] = {k} /\ store' = Written(k, p)
      BY <1>8
    <3>2. store'[k] = c
      BY <3>1, WrittenType
    <3>3. store[VersionKey] = c
      <4>1. CASE k = VersionKey
        BY <1>13, <3>2, <4>1
      <4>2. CASE k # VersionKey
        BY <1>3, <1>4, <1>11, <3>1, <4>2
      <4>3. QED
        BY <4>1, <4>2
    <3>4. QED
      BY <1>3, <1>4, <3>3 DEF AtLeast
  <2>3. ASSUME store[VersionKey] # None, NEW j \in ItemsOf(store[VersionKey])
        PROVE  AtLeast(store'[j], store[VersionKey])
    <3>1. j \in Keys
      BY <1>5, <1>11, <2>3
    <3>2. store'[j] = store[j] \/ store'[j] = c
      BY <1>10, <3>1, WrittenType
    <3>3. QED
      BY <1>6, <1>7, <2>3, <3>2
  <2>4. \A q \in Procs : pc'[q] \in {"unlock", "done"} => AtLeast(store[VersionKey], ConfigOf[q])
    <3> SUFFICES ASSUME NEW q \in Procs, pc'[q] \in {"unlock", "done"}
                 PROVE  AtLeast(store[VersionKey], ConfigOf[q])
      OBVIOUS
    <3>1. q # p
      BY <1>8, <2>2
    <3>2. QED
      BY <1>7, <1>9, <3>1
  <2>5. QED
    BY <2>1, <2>3, <2>4 DEF LoadedIsComplete, AtLeast
<1>14. QED
  BY <1>10, <1>12, <1>13

(* Every step keeps VersionInv.                                            *)
LEMMA VersionStep ==
    ASSUME TypeOK, SelectorsPut, VersionInv, [Next]_vars
    PROVE  VersionInv'
<1>1. MutexInv' /\ PutterInv'
  BY MutexStep, PutterStep DEF VersionInv
<1>2. LoadedIsComplete'
  <2> SUFFICES ASSUME ~lost' PROVE LoadedIsComplete'
    BY DEF LoadedIsComplete
  <2>1. ~lost
    BY DEF Next, vars, cacheVars, Lock, Check, CheckFails, Put, Unlock, GetSelector,
           GetRouter, Crash, Restart, Expire, LoseLease
  <2>2. ASSUME store' = store,
               \A q \in Procs : pc'[q] \in {"unlock", "done"} =>
                  pc[q] \in {"unlock", "done"} \/ AtLeast(store[VersionKey], ConfigOf[q])
        PROVE  LoadedIsComplete'
    BY <2>1, <2>2 DEF VersionInv, LoadedIsComplete, AtLeast
  <2>3. ASSUME NEW p \in Procs, Check(p) PROVE LoadedIsComplete'
    <3>1. /\ store' = store
          /\ \/ pc' = [pc EXCEPT ![p] = "put"]
             \/ pc' = [pc EXCEPT ![p] = "unlock"] /\ AtLeast(store[VersionKey], ConfigOf[p])
      BY <2>3 DEF Check, WhenLoaded, IsLoaded, AtLeast
    <3>2. QED
      BY <2>2, <3>1 DEF TypeOK
  <2>4. ASSUME NEW p \in Procs,
               \/ Lock(p) \/ CheckFails(p) \/ Restart(p) \/ LoseLease(p) \/ GetSelector(p)
               \/ Crash(p) \/ \E r \in Routers : GetRouter(p, r)
        PROVE  LoadedIsComplete'
    <3>1. /\ store' = store
          /\ pc' = pc \/ \E v \in {"check", "abort", "down", "lock"} : pc' = [pc EXCEPT ![p] = v]
      BY <2>4 DEF Lock, CheckFails, GetSelector, Crash, Restart, LoseLease, GetRouter
    <3>2. QED
      BY <2>2, <3>1 DEF TypeOK
  <2>5. ASSUME NEW p \in Procs, Unlock(p) PROVE LoadedIsComplete'
    <3>1. /\ store' = store
          /\ \/ pc[p] = "unlock" /\ pc' = [pc EXCEPT ![p] = "done"]
             \/ pc' = [pc EXCEPT ![p] = "down"]
      BY <2>5 DEF Unlock
    <3>2. QED
      BY <2>2, <3>1 DEF TypeOK
  <2>6. CASE Expire \/ UNCHANGED vars
    BY <2>2, <2>6 DEF Expire, vars
  <2>7. QED
    BY <2>1, <2>3, <2>4, <2>5, <2>6, PutComplete DEF Next
<1>3. QED
  BY <1>1, <1>2 DEF VersionInv

(* The invariant holds of every behaviour.                                 *)
LEMMA VersionAlways == Spec => []VersionInv
<1>1. ASSUME Init PROVE VersionInv
  <2>1. (\A p \in Procs : pc[p] = "lock") /\ store[VersionKey] = None
    BY <1>1, KeyFacts DEF Init
  <2>2. QED
    BY <2>1 DEF VersionInv, MutexInv, PutterInv, LoadedIsComplete
<1>2. TypeOK /\ RunnableInv /\ VersionInv /\ [Next]_vars => VersionInv'
  BY VersionStep DEF RunnableInv
<1>3. QED
  BY <1>1, <1>2, ConfigTypes, RunnableAlways, PTL DEF Spec

(* While no lease is lost a stored version stands for a whole              *)
(* configuration, and who has loaded finds one not older than its own      *)
(* (impl.go:97-133).                                                       *)
THEOREM VersionStandsForAll == Spec => []LoadedIsComplete
<1>1. VersionInv => LoadedIsComplete
  BY DEF VersionInv
<1>2. QED
  BY <1>1, VersionAlways, PTL

(* Nor does the stored version go back (impl.go:97-103).                   *)
THEOREM VersionNeverBack == Spec => VersionMonotone
<1> DEFINE Forward == ~lost' /\ store[VersionKey] # None =>
                          AtLeast(store'[VersionKey], store[VersionKey])
<1>1. ASSUME TypeOK, SelectorsPut, VersionInv, [Next]_vars PROVE Forward
  <2> SUFFICES ASSUME ~lost', store[VersionKey] # None
               PROVE  AtLeast(store'[VersionKey], store[VersionKey])
    OBVIOUS
  <2>1. ~lost
    BY <1>1 DEF Next, vars, cacheVars, Lock, Check, CheckFails, Put, Unlock, GetSelector,
           GetRouter, Crash, Restart, Expire, LoseLease
  <2>2. store[VersionKey] \in Configs /\ VersionKey \in Keys
    BY <1>1, KeyFacts DEF TypeOK
  <2>3. ASSUME NEW p \in Procs, Put(p) PROVE AtLeast(store'[VersionKey], store[VersionKey])
    <3>1. PICK k \in Keys : PutOf(p, k)
      BY <1>1, <2>3, PutShape
    <3>2. pc[p] = "put"
      BY <1>1, <2>3, PutShape
    <3>3. AtLeast(ConfigOf[p], store[VersionKey])
      BY <1>1, <2>1, <2>2, <3>1, <3>2, PutMeets, AtLeastFacts, ConfigAssumption DEF VersionInv
    <3>4. store' = store \/ store' = Written(k, p)
      BY <3>1 DEF PutOf
    <3>5. store'[VersionKey] \in {store[VersionKey], ConfigOf[p]}
      BY <1>1, <2>2, <3>4, WrittenType
    <3>6. QED
      BY <2>2, <3>3, <3>5, AtLeastFacts
  <2>4. (\E p \in Procs : Put(p)) \/ store' = store
    BY <1>1 DEF Next, vars, Lock, Check, CheckFails, Unlock, GetSelector, GetRouter, Crash,
           Restart, Expire, LoseLease
  <2>5. QED
    BY <2>2, <2>3, <2>4, AtLeastFacts
<1>2. TypeOK /\ RunnableInv /\ VersionInv /\ [Next]_vars => [Forward]_vars
  BY <1>1 DEF RunnableInv
<1>3. QED
  BY <1>2, ConfigTypes, RunnableAlways, VersionAlways, PTL DEF Spec, VersionMonotone
=============================================================================
