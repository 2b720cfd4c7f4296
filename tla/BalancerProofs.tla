---------------------------- MODULE BalancerProofs ----------------------------
(***************************************************************************)
(* Proofs about Balancer, for any addresses and bounds: that it counts its *)
(* connections and leaks none, that the picker fits the state, and that    *)
(* RPCs do not fail without a cause but in the case ErrorHasCause names.   *)
(***************************************************************************)
EXTENDS Balancer, FiniteSetTheorems, TLAPS

-----------------------------------------------------------------------------
(***************************************************************************)
(* The queue holds at most one call of the resolver, which waits for it;   *)
(* whatever was shut down before the call was made reports it before.      *)
(***************************************************************************)
QueueInv ==
    /\ \A i \in 1..Len(queue) : queue[i].kind # "conn" =>
         /\ resolving
         /\ \A j \in 1..Len(queue) : queue[j].kind # "conn" => j = i
         /\ \A j \in 1..Len(queue), c \in Conns : queue[j] = Report(c, "Shutdown") => j < i
    /\ \A i \in 1..Len(queue), c \in Conns :
         queue[i] = Report(c, "Shutdown") => real[c] = "Shutdown"

(* Addresses that the resolver's call in the queue has, or has not. *)
Offered(a) == \E i \in 1..Len(queue) : queue[i].kind = "resolver" /\ a \in queue[i].addrs
Dropped(a) == \E i \in 1..Len(queue) : queue[i].kind = "resolver" /\ a \notin queue[i].addrs

(***************************************************************************)
(* An address gets another connection only after a change has removed it   *)
(* and another has brought it back; a connection that is yet to be made    *)
(* has no state.                                                           *)
(***************************************************************************)
MadeInv == \A a \in Addrs :
    /\ subConns[a] <= made[a]
    /\ made[a] <= changes + 1
    /\ subConns[a] = 0 => made[a] <= changes
    /\ subConns[a] # 0 /\ (a \notin backend \/ Dropped(a)) => made[a] <= changes
    /\ subConns[a] = 0 /\ a \notin backend /\ Offered(a) => made[a] + 1 <= changes
    /\ \A k \in 1..(MaxChanges + 1) : k > made[a] =>
         real[<<a, k>>] # "Shutdown" /\ scStates[<<a, k>>] = "absent"

(* What the errors and the picker of the last publication stand for. *)
ErrorInv ==
    /\ Live = {} => resolverErr \/ \A c \in Conns : scStates[c] = "absent"
    /\ \A c \in Conns : scStates[c] = "TransientFailure" => connErr
    /\ state = "TransientFailure" => \A c \in Live : scStates[c] # "Ready"
    /\ published.picker = "wait" => Live = {}
    /\ published.picker = "error" /\ published.cause = {} =>
         \A c \in Conns : scStates[c] # "Ready"

BalancerInv ==
    TypeOK /\ QueueInv /\ MadeInv /\ ConnsCounted /\ ErrorInv /\ PickerFits /\ ErrorHasCause

-----------------------------------------------------------------------------
(* Counting the connections in a state. *)
Count(sc, s) == Cardinality({c \in Conns : sc[c] = s})

LEMMA ConnsFinite ==
    /\ IsFiniteSet(Conns)
    /\ \A S \in SUBSET Conns : IsFiniteSet(S) /\ Cardinality(S) \in Nat
<1>1. IsFiniteSet(1..(MaxChanges + 1))
  BY BoundsAssumption, FS_Interval
<1>2. IsFiniteSet(Conns)
  BY <1>1, AddrsAssumption, FS_Product DEF Conns
<1>3. QED
  BY <1>2, FS_Subset, FS_CardinalityType

LEMMA CountZero ==
    ASSUME NEW sc, NEW s
    PROVE  Count(sc, s) \in Nat /\ (Count(sc, s) = 0 <=> \A c \in Conns : sc[c] # s)
<1> DEFINE A == {c \in Conns : sc[c] = s}
<1>1. IsFiniteSet(A) /\ Cardinality(A) \in Nat
  BY ConnsFinite
<1>2. Cardinality(A) = 0 <=> A = {}
  BY <1>1, FS_EmptySet
<1>3. QED
  BY <1>1, <1>2 DEF Count

(* One connection goes from one state to another, ... *)
LEMMA CountMove ==
    ASSUME NEW sc, NEW after, NEW c \in Conns, NEW to, NEW s,
           after[c] = to, \A d \in Conns \ {c} : after[d] = sc[d]
    PROVE  Count(after, s)
             = Count(sc, s) + (IF s = to THEN 1 ELSE 0) - (IF s = sc[c] THEN 1 ELSE 0)
<1> DEFINE A == {d \in Conns : sc[d] = s}
           B == {d \in Conns : after[d] = s}
<1>1. IsFiniteSet(A) /\ Cardinality(A) \in Nat
  BY ConnsFinite
<1>2. CASE s = to
  <2>1. B = A \cup {c}
    BY <1>2
  <2>2. Cardinality(B) = IF c \in A THEN Cardinality(A) ELSE Cardinality(A) + 1
    <3> HIDE DEF A, B
    <3>1. Cardinality(A \cup {c}) = IF c \in A THEN Cardinality(A) ELSE Cardinality(A) + 1
      BY <1>1, FS_AddElement
    <3>2. QED
      BY <2>1, <3>1
  <2>3. c \in A <=> s = sc[c]
    OBVIOUS
  <2>4. QED
    BY <1>1, <1>2, <2>2, <2>3 DEF Count
<1>3. CASE s # to
  <2>1. B = A \ {c}
    BY <1>3
  <2>2. Cardinality(B) = IF c \in A THEN Cardinality(A) - 1 ELSE Cardinality(A)
    <3> HIDE DEF A, B
    <3>1. Cardinality(A \ {c}) = IF c \in A THEN Cardinality(A) - 1 ELSE Cardinality(A)
      BY <1>1, FS_RemoveElement
    <3>2. QED
      BY <2>1, <3>1
  <2>3. c \in A <=> s = sc[c]
    OBVIOUS
  <2>4. QED
    BY <1>1, <1>3, <2>2, <2>3 DEF Count
<1>4. QED
  BY <1>2, <1>3

(* ... or several that were in none become Idle. *)
LEMMA CountFresh ==
    ASSUME NEW sc, NEW after, NEW F \in SUBSET Conns, NEW s \in States,
           \A c \in F : sc[c] = "absent" /\ after[c] = "Idle",
           \A c \in Conns \ F : after[c] = sc[c]
    PROVE  Count(after, s)
             = Count(sc, s) + (IF s = "Idle" THEN Cardinality(F) ELSE 0)
<1> DEFINE A == {d \in Conns : sc[d] = s}
           B == {d \in Conns : after[d] = s}
<1>1. IsFiniteSet(A) /\ Cardinality(A) \in Nat /\ IsFiniteSet(F) /\ Cardinality(F) \in Nat
  BY ConnsFinite
<1>2. s # "absent"
  BY DEF States
<1>3. A \cap F = {}
  BY <1>2
<1>4. CASE s = "Idle"
  <2>1. B = A \cup F
    BY <1>4
  <2>2. Cardinality(B) = Cardinality(A) + Cardinality(F) - Cardinality(A \cap F)
    BY <1>1, <2>1, FS_Union
  <2>3. Cardinality(A \cap F) = 0
    BY <1>3, FS_EmptySet
  <2>4. QED
    BY <1>1, <1>4, <2>2, <2>3 DEF Count
<1>5. CASE s # "Idle"
  <2>1. B = A
    BY <1>2, <1>5
  <2>2. Cardinality(B) = Cardinality(A)
    BY <2>1, Zenon
  <2>3. Cardinality(B) = Cardinality(A) + 0
    BY <1>1, <2>2
  <2>4. QED
    BY <1>5, <2>3 DEF Count
<1>6. QED
  BY <1>4, <1>5

(* CountFresh for the states before and after a step.                     *)
LEMMA CountUpdate ==
    ASSUME NEW F \in SUBSET Conns, NEW x \in States,
           \A c \in F : scStates[c] = "absent" /\ scStates'[c] = "Idle",
           \A c \in Conns \ F : scStates'[c] = scStates[c]
    PROVE  Count(scStates', x)
             = Count(scStates, x) + (IF x = "Idle" THEN Cardinality(F) ELSE 0)
  BY CountFresh

-----------------------------------------------------------------------------
(* The calls of the queue, and the queue after a call is added or served. *)
LEMMA CallFacts ==
    /\ \A c \in Conns, s \in States \cup {"Shutdown"} :
         /\ Report(c, s) \in Calls /\ Report(c, s).kind = "conn"
         /\ Report(c, s).conn = c /\ Report(c, s).state = s
    /\ \A S \in SUBSET Addrs :
         Resolved(S) \in Calls /\ Resolved(S).kind = "resolver" /\ Resolved(S).addrs = S
    /\ NoEndpoints \in Calls /\ NoEndpoints.kind = "none"
    /\ \A call \in Calls :
         /\ call.kind \in {"conn", "resolver", "none"}
         /\ call.kind = "conn" => /\ call.conn \in Conns
                                  /\ call.state \in States \cup {"Shutdown"}
                                  /\ call = Report(call.conn, call.state)
         /\ call.kind = "resolver" => call.addrs \in SUBSET Addrs
<1>1. ASSUME NEW c \in Conns, NEW s \in States \cup {"Shutdown"}
      PROVE  /\ Report(c, s) \in Calls /\ Report(c, s).kind = "conn"
             /\ Report(c, s).conn = c /\ Report(c, s).state = s
  BY DEF Report, Calls
<1>2. ASSUME NEW S \in SUBSET Addrs
      PROVE  Resolved(S) \in Calls /\ Resolved(S).kind = "resolver" /\ Resolved(S).addrs = S
  BY DEF Resolved, Calls
<1>3. NoEndpoints \in Calls /\ NoEndpoints.kind = "none"
  BY DEF NoEndpoints, Calls
<1>4. ASSUME NEW call \in Calls
      PROVE  /\ call.kind \in {"conn", "resolver", "none"}
             /\ call.kind = "conn" => /\ call.conn \in Conns
                                      /\ call.state \in States \cup {"Shutdown"}
                                      /\ call = Report(call.conn, call.state)
             /\ call.kind = "resolver" => call.addrs \in SUBSET Addrs
  BY DEF Report, NoEndpoints, Calls
<1>5. QED
  BY <1>1, <1>2, <1>3, <1>4

LEMMA AppendFacts ==
    ASSUME NEW S, NEW q \in Seq(S), NEW e \in S
    PROVE  /\ Append(q, e) \in Seq(S)
           /\ Len(q) \in Nat /\ Len(Append(q, e)) = Len(q) + 1
           /\ \A i \in 1..Len(q) : Append(q, e)[i] = q[i] /\ i \in 1..Len(Append(q, e))
           /\ Append(q, e)[Len(q) + 1] = e
           /\ \A i \in 1..Len(Append(q, e)) : i \in 1..Len(q) \/ i = Len(q) + 1
OBVIOUS

LEMMA TailFacts ==
    ASSUME NEW S, NEW q \in Seq(S), q # <<>>
    PROVE  /\ Len(q) \in Nat \ {0} /\ Head(q) = q[1] /\ Head(q) \in S /\ 1 \in 1..Len(q)
           /\ Tail(q) \in Seq(S) /\ Len(Tail(q)) = Len(q) - 1
           /\ \A i \in 1..Len(Tail(q)) : Tail(q)[i] = q[i + 1] /\ i + 1 \in 1..Len(q)
           /\ \A j \in 1..Len(q) : j = 1 \/ \E i \in 1..Len(Tail(q)) : j = i + 1
<1>1. /\ Len(q) \in Nat \ {0} /\ Head(q) = q[1] /\ Head(q) \in S /\ 1 \in 1..Len(q)
      /\ Tail(q) \in Seq(S) /\ Len(Tail(q)) = Len(q) - 1
  OBVIOUS
<1>2. \A i \in 1..Len(Tail(q)) : Tail(q)[i] = q[i + 1] /\ i + 1 \in 1..Len(q)
  OBVIOUS
<1>3. ASSUME NEW j \in 1..Len(q), j # 1 PROVE \E i \in 1..Len(Tail(q)) : j = i + 1
  <2>1. j - 1 \in 1..Len(Tail(q)) /\ j = (j - 1) + 1
    BY <1>1, <1>3
  <2>2. QED
    BY <2>1
<1>4. QED
  BY <1>1, <1>2, <1>3

-----------------------------------------------------------------------------
(* No connection yet. *)
LEMMA InitBalancer == Init => BalancerInv
<1> SUFFICES ASSUME Init PROVE BalancerInv
  OBVIOUS
<1>1. Live = {}
  BY DEF Init, Live, Conns
<1>2. \A c \in Conns : scStates[c] = "absent"
  BY DEF Init
<1>3. TypeOK
  <2>1. queue \in Seq(Calls)
    BY DEF Init
  <2>2. /\ 0 \in 0..MaxChanges /\ 0 \in 0..MaxBreaks /\ 0 \in 0..MaxFaults
        /\ 0 \in 0..(MaxChanges + 1)
    BY BoundsAssumption
  <2>3. "Connecting" \in States /\ "Idle" \in States
    BY DEF States
  <2>4. QED
    BY <2>1, <2>2, <2>3 DEF Init, TypeOK
<1>4. Len(queue) = 0
  BY DEF Init
<1>5. QueueInv /\ (\A a \in Addrs : ~Offered(a) /\ ~Dropped(a))
  BY <1>4 DEF QueueInv, Offered, Dropped
<1>6. MadeInv
  BY <1>2, <1>5, BoundsAssumption DEF Init, MadeInv, Conns
<1>7. ConnsCounted
  <2>1. ASSUME NEW s \in States PROVE csEvltr[s] = Count(scStates, s)
    <3>1. \A c \in Conns : scStates[c] # s
      BY <1>2 DEF States
    <3>2. Count(scStates, s) = 0
      BY <3>1, CountZero
    <3>3. QED
      BY <3>2 DEF Init
  <2>2. QED
    BY <1>1, <1>2, <2>1 DEF ConnsCounted, Count
<1>8. ErrorInv /\ PickerFits /\ ErrorHasCause
  BY <1>1, <1>2 DEF Init, ErrorInv, PickerFits, ErrorHasCause
<1>9. QED
  BY <1>3, <1>5, <1>6, <1>7, <1>8 DEF BalancerInv

(* The balancer's errors and picker stay as they are outside its handlers. *)
LEMMA BalancerIdle ==
    ASSUME BalancerInv, UNCHANGED balVars
    PROVE  ErrorInv' /\ PickerFits' /\ ErrorHasCause' /\ Live' = Live
<1>1. /\ UNCHANGED <<subConns, scStates, state, resolverErr, connErr, published>>
      /\ Live' = Live
  BY DEF balVars, Live
<1>2. QED
  BY <1>1 DEF BalancerInv, ErrorInv, PickerFits, ErrorHasCause

(* What gRPC's connections do. *)
LEMMA MovesStep ==
    ASSUME BalancerInv, NEW c \in Conns, NEW from \in States, NEW to \in States, Moves(c, from, to),
           breaks' \in 0..MaxBreaks, rn' \in BOOLEAN, asked' \in SUBSET Conns
    PROVE  BalancerInv'
<1> USE DEF BalancerInv
<1> DEFINE e == Report(c, to)
<1>1. /\ real[c] = from /\ real' = [real EXCEPT ![c] = to]
      /\ queue' = Append(queue, e)
      /\ UNCHANGED <<backend, changes, faults, loaded, resolving>>
      /\ UNCHANGED balVars
  BY DEF Moves
<1>2. UNCHANGED <<subConns, made, scStates, csEvltr, state, resolverErr, connErr, published>>
  BY <1>1 DEF balVars
<1>3. /\ e \in Calls /\ e.kind = "conn"
      /\ \A d \in Conns : e # Report(d, "Shutdown")
  <2>1. e.state = to /\ \A d \in Conns : Report(d, "Shutdown").state = "Shutdown"
    BY CallFacts
  <2>2. to # "Shutdown"
    BY DEF States
  <2>3. QED
    BY <2>1, <2>2, CallFacts
<1> HIDE DEF e
<1>4. /\ queue' \in Seq(Calls)
      /\ Len(queue) \in Nat /\ Len(queue') = Len(queue) + 1
      /\ \A i \in 1..Len(queue) : queue'[i] = queue[i] /\ i \in 1..Len(queue')
      /\ queue'[Len(queue) + 1] = e
      /\ \A i \in 1..Len(queue') : i \in 1..Len(queue) \/ i = Len(queue) + 1
  <2>1. queue \in Seq(Calls)
    BY DEF TypeOK
  <2>2. QED
    BY <1>1, <1>3, <2>1, AppendFacts
<1>5. \A d \in Conns : real'[d] = "Shutdown" <=> real[d] = "Shutdown"
  BY <1>1 DEF TypeOK, States
<1>6. TypeOK'
  <2>1. real' \in [Conns -> States \cup {"Shutdown"}]
    BY <1>1 DEF TypeOK
  <2>2. QED
    BY <1>1, <1>2, <1>4, <2>1 DEF TypeOK
<1>7. QueueInv'
  BY <1>1, <1>3, <1>4, <1>5 DEF QueueInv
<1>8. \A a \in Addrs : (Offered(a)' <=> Offered(a)) /\ (Dropped(a)' <=> Dropped(a))
  BY <1>3, <1>4 DEF Offered, Dropped
<1>9. MadeInv'
  <2>1. \A a \in Addrs, k \in 1..(MaxChanges + 1) : <<a, k>> \in Conns
    BY DEF Conns
  <2>2. QED
    BY <1>1, <1>2, <1>5, <1>8, <2>1 DEF MadeInv
<1>10. ConnsCounted'
  <2>1. Live' = Live
    BY <1>1, BalancerIdle
  <2>2. \A d \in Conns : (\E i \in 1..Len(queue) : queue[i] = Report(d, "Shutdown"))
                           => \E i \in 1..Len(queue') : queue'[i] = Report(d, "Shutdown")
    BY <1>4
  <2>3. DOMAIN queue = 1..Len(queue) /\ DOMAIN queue' = 1..Len(queue')
    BY <1>4 DEF TypeOK
  <2>4. /\ \A s \in States : csEvltr'[s] = Cardinality({d \in Conns : scStates'[d] = s})
        /\ \A d \in Live' : scStates'[d] # "absent" /\ real'[d] # "Shutdown"
    <3>1. \A d \in Live : d \in Conns
      BY DEF Live
    <3>2. QED
      BY <1>2, <1>5, <2>1, <3>1 DEF ConnsCounted
  <2>5. \A d \in Conns : scStates'[d] # "absent" /\ d \notin Live' =>
          \E i \in DOMAIN queue' : queue'[i] = Report(d, "Shutdown")
    BY <1>2, <2>1, <2>2, <2>3 DEF ConnsCounted
  <2>6. QED
    BY <2>4, <2>5 DEF ConnsCounted
<1>11. QED
  BY <1>1, <1>6, <1>7, <1>9, <1>10, BalancerIdle

(* The watcher's call, which no report of a shut down connection follows. *)
LEMMA ResolveStep == BalancerInv /\ Resolve => BalancerInv'
<1> SUFFICES ASSUME BalancerInv, Resolve PROVE BalancerInv'
  OBVIOUS
<1> USE DEF BalancerInv
<1>1. /\ ~resolving /\ rn' \in BOOLEAN /\ loaded' \in BOOLEAN /\ resolving' \in BOOLEAN
      /\ faults' \in 0..MaxFaults
      /\ UNCHANGED <<backend, changes, breaks, real, asked>>
      /\ UNCHANGED balVars
  <2>1. ~resolving /\ UNCHANGED <<backend, changes, breaks, real, asked>> /\ UNCHANGED balVars
    BY Zenon DEF Resolve
  <2>2. rn' \in BOOLEAN
    BY DEF Resolve, TypeOK
  <2>3. loaded' \in BOOLEAN
    BY DEF Resolve, TypeOK
  <2>4. resolving' \in BOOLEAN
    BY DEF Resolve, TypeOK
  <2>5. faults' = faults \/ (faults < MaxFaults /\ faults' = faults + 1)
    BY Zenon DEF Resolve
  <2>6. faults' \in 0..MaxFaults
    BY <2>5, BoundsAssumption DEF TypeOK
  <2>7. QED
    BY <2>1, <2>2, <2>3, <2>4, <2>6
<1>2. UNCHANGED <<subConns, made, scStates, csEvltr, state, resolverErr, connErr, published>>
  BY <1>1 DEF balVars
<1>3. ErrorInv' /\ PickerFits' /\ ErrorHasCause' /\ Live' = Live
  BY <1>1, BalancerIdle
<1>4. CASE queue' = queue /\ resolving' = resolving
  <2>1. TypeOK' /\ QueueInv'
    BY <1>1, <1>2, <1>4 DEF TypeOK, QueueInv
  <2>2. \A a \in Addrs : (Offered(a)' <=> Offered(a)) /\ (Dropped(a)' <=> Dropped(a))
    BY <1>4 DEF Offered, Dropped
  <2>3. MadeInv' /\ ConnsCounted'
    BY <1>1, <1>2, <1>3, <1>4, <2>2 DEF MadeInv, ConnsCounted
  <2>4. QED
    BY <1>3, <2>1, <2>3
<1>5. ASSUME NEW e \in {Resolved(backend), NoEndpoints}, queue' = Append(queue, e), resolving'
      PROVE  BalancerInv'
  <2>1. /\ e \in Calls /\ e.kind # "conn"
        /\ e.kind = "resolver" => e.addrs = backend
        /\ \A c \in Conns : e # Report(c, "Shutdown")
    <3>1. backend \in SUBSET Addrs
      BY DEF TypeOK
    <3>2. CASE e = Resolved(backend)
      BY <3>1, <3>2, CallFacts
    <3>3. CASE e = NoEndpoints
      BY <3>3, CallFacts
    <3>4. QED
      BY <3>2, <3>3
  <2>2. /\ queue' \in Seq(Calls)
        /\ Len(queue) \in Nat /\ Len(queue') = Len(queue) + 1
        /\ \A i \in 1..Len(queue) : queue'[i] = queue[i] /\ i \in 1..Len(queue')
        /\ queue'[Len(queue) + 1] = e
        /\ \A i \in 1..Len(queue') : i \in 1..Len(queue) \/ i = Len(queue) + 1
    BY <1>5, <2>1, AppendFacts DEF TypeOK
  <2>3. \A i \in 1..Len(queue) : queue[i].kind = "conn"
    BY <1>1 DEF QueueInv
  <2>4. TypeOK'
    BY <1>1, <1>2, <2>2 DEF TypeOK
  <2>5. QueueInv'
    <3>1. ASSUME NEW i \in 1..Len(queue'), queue'[i].kind # "conn"
          PROVE  /\ resolving'
                 /\ \A j \in 1..Len(queue') : queue'[j].kind # "conn" => j = i
                 /\ \A j \in 1..Len(queue'), c \in Conns :
                      queue'[j] = Report(c, "Shutdown") => j < i
      <4>1. i = Len(queue) + 1
        BY <2>2, <2>3, <3>1
      <4>2. \A j \in 1..Len(queue') : j = i \/ (j < i /\ queue'[j].kind = "conn")
        <5>1. ASSUME NEW j \in 1..Len(queue) PROVE j < i /\ queue'[j].kind = "conn"
          <6>1. j < i
            BY <2>2, <4>1
          <6>2. queue'[j].kind = "conn"
            BY <2>2, <2>3
          <6>3. QED
            BY <6>1, <6>2
        <5>2. \A j \in 1..Len(queue') : j \in 1..Len(queue) \/ j = i
          BY <2>2, <4>1
        <5>3. QED
          BY <5>1, <5>2, Zenon
      <4>3. QED
        BY <1>5, <2>1, <2>2, <4>1, <4>2
    <3>2. \A i \in 1..Len(queue'), c \in Conns :
            queue'[i] = Report(c, "Shutdown") => real'[c] = "Shutdown"
      BY <1>1, <2>1, <2>2 DEF QueueInv
    <3>3. QED
      BY <3>1, <3>2 DEF QueueInv
  <2>6. \A a \in Addrs : /\ Offered(a)' => a \in backend
                         /\ Dropped(a)' => a \notin backend
    BY <2>1, <2>2, <2>3 DEF Offered, Dropped
  <2>7. MadeInv'
    BY <1>1, <1>2, <2>6 DEF MadeInv
  <2>8. ConnsCounted'
    <3>1. \A c \in Conns : (\E i \in DOMAIN queue : queue[i] = Report(c, "Shutdown"))
                              => \E i \in DOMAIN queue' : queue'[i] = Report(c, "Shutdown")
      <4>1. DOMAIN queue = 1..Len(queue) /\ DOMAIN queue' = 1..Len(queue')
        BY <2>2 DEF TypeOK
      <4>2. QED
        BY <2>2, <4>1
    <3>2. QED
      BY <1>1, <1>2, <1>3, <3>1 DEF ConnsCounted
  <2>9. QED
    BY <1>3, <2>4, <2>5, <2>7, <2>8
<1>6. QED
  BY <1>4, <1>5 DEF Resolve

(* A change may remove an address, and then allows it one more connection. *)
LEMMA ChangeStep == BalancerInv /\ BackendChanges => BalancerInv'
<1> SUFFICES ASSUME BalancerInv, BackendChanges PROVE BalancerInv'
  OBVIOUS
<1> USE DEF BalancerInv
<1>1. /\ changes < MaxChanges /\ changes' = changes + 1 /\ backend' \in SUBSET Addrs
      /\ UNCHANGED <<breaks, faults, loaded, rn, resolving, queue, real, asked>>
      /\ UNCHANGED balVars
  BY DEF BackendChanges
<1>2. UNCHANGED <<subConns, made, scStates, csEvltr, state, resolverErr, connErr, published>>
  BY <1>1 DEF balVars
<1>3. ErrorInv' /\ PickerFits' /\ ErrorHasCause' /\ Live' = Live
  BY <1>1, BalancerIdle
<1>4. TypeOK'
  BY <1>1, <1>2, BoundsAssumption DEF TypeOK
<1>5. QueueInv' /\ ConnsCounted'
  BY <1>1, <1>2, <1>3 DEF QueueInv, ConnsCounted
<1>6. \A a \in Addrs : (Offered(a)' <=> Offered(a)) /\ (Dropped(a)' <=> Dropped(a))
  BY <1>1 DEF Offered, Dropped
<1>7. MadeInv'
  <2>1. changes \in Nat /\ \A a \in Addrs : made[a] \in Nat
    BY BoundsAssumption DEF TypeOK
  <2>2. QED
    BY <1>1, <1>2, <1>6, <2>1 DEF MadeInv
<1>8. QED
  BY <1>3, <1>4, <1>5, <1>7

(* A handler of the balancer has taken the first call from the queue. *)
LEMMA ServeShape ==
    ASSUME BalancerInv, Serve
    PROVE  /\ 1 \in 1..Len(queue) /\ Head(queue) = queue[1] /\ queue[1] \in Calls
           /\ Tail(queue) \in Seq(Calls)
           /\ \A i \in 1..Len(Tail(queue)) :
                Tail(queue)[i] = queue[i + 1] /\ i + 1 \in 1..Len(queue)
           /\ \A j \in 1..Len(queue) : j = 1 \/ \E i \in 1..Len(Tail(queue)) : j = i + 1
           /\ UNCHANGED <<backend, changes, breaks, loaded, rn>>
<1>1. queue \in Seq(Calls) /\ queue # <<>>
  BY DEF Serve, BalancerInv, TypeOK
<1>2. QED
  BY <1>1, TailFacts DEF Serve

(* The next call of the queue, with nothing shut down by it. *)
LEMMA ServeTail ==
    ASSUME BalancerInv, Serve, queue' = Tail(queue), UNCHANGED <<real, subConns, made>>,
           \/ queue[1].kind = "conn" /\ UNCHANGED resolving
           \/ queue[1].kind # "conn" /\ resolving' = FALSE,
           \A a \in Addrs, k \in 1..(MaxChanges + 1) :
              k > made[a] => scStates'[<<a, k>>] = "absent"
    PROVE  QueueInv' /\ MadeInv'
<1> USE DEF BalancerInv
<1>1. /\ 1 \in 1..Len(queue)
      /\ \A i \in 1..Len(queue') : queue'[i] = queue[i + 1] /\ i + 1 \in 1..Len(queue)
      /\ \A i \in 1..Len(queue') : i \in Nat /\ i >= 1
      /\ UNCHANGED <<backend, changes>>
  BY ServeShape
<1>2. QueueInv'
  <2>1. ASSUME NEW i \in 1..Len(queue'), queue'[i].kind # "conn"
        PROVE  /\ resolving'
               /\ \A j \in 1..Len(queue') : queue'[j].kind # "conn" => j = i
               /\ \A j \in 1..Len(queue'), c \in Conns :
                    queue'[j] = Report(c, "Shutdown") => j < i
    <3>1. /\ i + 1 \in 1..Len(queue) /\ queue[i + 1].kind # "conn" /\ i + 1 # 1
      BY <1>1, <2>1
    <3>2. resolving /\ queue[1].kind = "conn"
      BY <1>1, <3>1 DEF QueueInv
    <3>3. \A j \in 1..Len(queue') : queue'[j].kind # "conn" => j + 1 = i + 1
      BY <1>1, <3>1 DEF QueueInv
    <3>4. \A j \in 1..Len(queue'), c \in Conns :
            queue'[j] = Report(c, "Shutdown") => j + 1 < i + 1
      BY <1>1, <3>1 DEF QueueInv
    <3>5. \A j \in 1..Len(queue') : j \in Int
      BY <1>1
    <3>6. resolving'
      BY <3>2
    <3>7. \A j \in 1..Len(queue') : (j + 1 = i + 1 => j = i) /\ (j + 1 < i + 1 => j < i)
      BY <3>5
    <3>8. QED
      BY <3>3, <3>4, <3>6, <3>7
  <2>2. \A i \in 1..Len(queue'), c \in Conns :
          queue'[i] = Report(c, "Shutdown") => real'[c] = "Shutdown"
    BY <1>1 DEF QueueInv
  <2>3. QED
    BY <2>1, <2>2 DEF QueueInv
<1>3. \A a \in Addrs : (Offered(a)' => Offered(a)) /\ (Dropped(a)' => Dropped(a))
  BY <1>1 DEF Offered, Dropped
<1>4. MadeInv'
  BY <1>1, <1>3 DEF MadeInv
<1>5. QED
  BY <1>2, <1>4

-----------------------------------------------------------------------------
(* What a state computed from the counts says of the connections, ... *)
LEMMA StateTells ==
    ASSUME NEW sc \in [Conns -> States \cup {"absent"}], NEW e,
           \A s \in States : e[s] = Count(sc, s)
    PROVE  /\ CurrentState(e) \in States
           /\ CurrentState(e) = "TransientFailure" =>
                \A c \in Conns : sc[c] \in {"absent", "TransientFailure"}
           /\ (\E c \in Conns : sc[c] = "Ready") => CurrentState(e) = "Ready"
           /\ CurrentState(e) # "TransientFailure" =>
                \E c \in Conns : sc[c] \in {"Ready", "Connecting", "Idle"}
<1>1. /\ "Ready" \in States /\ "Connecting" \in States /\ "Idle" \in States
      /\ \A s \in States : s \in {"Ready", "Connecting", "Idle", "TransientFailure"}
  BY DEF States
<1>2. \A s \in States : e[s] \in Nat /\ (e[s] = 0 <=> \A c \in Conns : sc[c] # s)
  BY CountZero
<1>3. CASE e["Ready"] > 0
  <2>1. CurrentState(e) = "Ready"
    BY <1>3 DEF CurrentState
  <2>2. \E c \in Conns : sc[c] = "Ready"
    BY <1>1, <1>2, <1>3
  <2>3. QED
    BY <1>1, <2>1, <2>2
<1>4. CASE ~(e["Ready"] > 0)
  <2>1. \A c \in Conns : sc[c] # "Ready"
    BY <1>1, <1>2, <1>4
  <2>2. CASE e["Connecting"] > 0
    <3>1. CurrentState(e) = "Connecting"
      BY <1>4, <2>2 DEF CurrentState
    <3>2. \E c \in Conns : sc[c] = "Connecting"
      BY <1>1, <1>2, <2>2
    <3>3. QED
      BY <1>1, <2>1, <3>1, <3>2
  <2>3. CASE ~(e["Connecting"] > 0) /\ e["Idle"] > 0
    <3>1. CurrentState(e) = "Idle"
      BY <1>4, <2>3 DEF CurrentState
    <3>2. \E c \in Conns : sc[c] = "Idle"
      BY <1>1, <1>2, <2>3
    <3>3. QED
      BY <1>1, <2>1, <3>1, <3>2
  <2>4. CASE ~(e["Connecting"] > 0) /\ ~(e["Idle"] > 0)
    <3>1. CurrentState(e) = "TransientFailure"
      BY <1>4, <2>4 DEF CurrentState
    <3>2. \A c \in Conns : sc[c] # "Connecting" /\ sc[c] # "Idle"
      BY <1>1, <1>2, <2>4
    <3>3. QED
      BY <1>1, <2>1, <3>1, <3>2 DEF States
  <2>5. QED
    BY <2>2, <2>3, <2>4
<1>5. QED
  BY <1>3, <1>4

(* ... and what a publication says. *)
LEMMA PublishFacts ==
    ASSUME NEW st \in States, NEW conns \in [Addrs -> 0..(MaxChanges + 1)], Publish(st, conns)
    PROVE  /\ published' \in [state : States, picker : {"wait", "error", "route"},
                              conns : [Addrs -> 0..(MaxChanges + 1)],
                              cause : SUBSET {"resolver", "conn"}]
           /\ published'.state = st
           /\ published'.picker = IF st = "TransientFailure" THEN "error" ELSE "route"
           /\ published'.conns = conns
           /\ st = "TransientFailure" => /\ resolverErr' => "resolver" \in published'.cause
                                         /\ connErr' => "conn" \in published'.cause
<1> DEFINE C == IF st # "TransientFailure" THEN {}
                ELSE {x \in {"resolver", "conn"} :
                        IF x = "resolver" THEN resolverErr' ELSE connErr'}
<1>1. published' = [state |-> st,
                    picker |-> IF st = "TransientFailure" THEN "error" ELSE "route",
                    conns |-> conns, cause |-> C]
  BY DEF Publish, PickerConns
<1>2. C \in SUBSET {"resolver", "conn"}
  OBVIOUS
<1>3. st = "TransientFailure" => /\ resolverErr' => "resolver" \in C
                                 /\ connErr' => "conn" \in C
  OBVIOUS
<1> HIDE DEF C
<1>4. QED
  BY <1>1, <1>2, <1>3

-----------------------------------------------------------------------------
(* A served report keeps the account of connections still to report. *)
LEMMA ReportedLater ==
    ASSUME BalancerInv, Serve, queue' = Tail(queue), NEW d \in Conns, queue[1] # Report(d, "Shutdown"),
           \E i \in DOMAIN queue : queue[i] = Report(d, "Shutdown")
    PROVE  \E i \in DOMAIN queue' : queue'[i] = Report(d, "Shutdown")
<1>1. /\ queue \in Seq(Calls) /\ queue' \in Seq(Calls)
      /\ DOMAIN queue = 1..Len(queue) /\ DOMAIN queue' = 1..Len(queue')
  BY ServeShape DEF BalancerInv, TypeOK
<1>2. PICK j \in 1..Len(queue) : queue[j] = Report(d, "Shutdown")
  BY <1>1
<1>3. PICK i \in 1..Len(queue') : j = i + 1
  BY <1>2, ServeShape
<1>4. queue'[i] = queue[i + 1]
  BY <1>3, ServeShape
<1>5. QED
  BY <1>1, <1>2, <1>3, <1>4

(* A report of an unknown connection, or one that a failure makes ignore. *)
LEMMA UnheardStep ==
    ASSUME BalancerInv, Serve, NEW c \in Conns, NEW s \in States \cup {"Shutdown"},
           queue[1] = Report(c, s), queue' = Tail(queue), UNCHANGED resolving,
           updateSubConnState(c, s), Unknown(c) \/ Ignored(c, s)
    PROVE  BalancerInv'
<1> USE DEF BalancerInv
<1>1. /\ UNCHANGED <<scStates, csEvltr, state, connErr, resolverErr, published>>
      /\ UNCHANGED <<real, subConns, made, faults>>
      /\ asked' \in SUBSET Conns
  BY DEF updateSubConnState, TypeOK
<1>2. UNCHANGED <<backend, changes, breaks, loaded, rn>> /\ queue' \in Seq(Calls)
  BY ServeShape
<1>3. queue[1].kind = "conn" /\ queue[1].state = s /\ queue[1].conn = c
  BY CallFacts
<1>4. TypeOK'
  BY <1>1, <1>2 DEF TypeOK
<1>5. QueueInv' /\ MadeInv'
  <2>1. \A a \in Addrs, k \in 1..(MaxChanges + 1) :
          k > made[a] => scStates'[<<a, k>>] = "absent"
    BY <1>1 DEF MadeInv
  <2>2. QED
    BY <1>1, <1>3, <2>1, ServeTail
<1>6. Live' = Live
  BY <1>1 DEF Live
<1>7. ConnsCounted'
  <2>1. ASSUME NEW d \in Conns, scStates'[d] # "absent", d \notin Live
        PROVE  \E i \in DOMAIN queue' : queue'[i] = Report(d, "Shutdown")
    <3>1. queue[1] # Report(d, "Shutdown")
      <4>1. ASSUME queue[1] = Report(d, "Shutdown") PROVE FALSE
        <5>1. d = c /\ s = "Shutdown"
          BY <1>3, <4>1, CallFacts
        <5>2. QED
          BY <1>1, <2>1, <5>1 DEF Unknown, Ignored
      <4>2. QED
        BY <4>1
    <3>2. \E i \in DOMAIN queue : queue[i] = Report(d, "Shutdown")
      BY <1>1, <2>1 DEF ConnsCounted
    <3>3. QED
      BY <3>1, <3>2, ReportedLater
  <2>2. QED
    BY <1>1, <1>6, <2>1 DEF ConnsCounted
<1>8. ErrorInv' /\ PickerFits' /\ ErrorHasCause'
  BY <1>1, <1>6 DEF ErrorInv, PickerFits, ErrorHasCause
<1>9. QED
  BY <1>4, <1>5, <1>7, <1>8

(***************************************************************************)
(* A report that is heard.  Only a connection that reports Ready makes one *)
(* ready, and then a new picker is published; only Shutdown takes one out  *)
(* of the count, and that connection is not in the map.                    *)
(***************************************************************************)
LEMMA HeardStep ==
    ASSUME BalancerInv, Serve, NEW c \in Conns, NEW s \in States \cup {"Shutdown"},
           queue[1] = Report(c, s), queue' = Tail(queue), UNCHANGED resolving,
           updateSubConnState(c, s), ~Unknown(c), ~Ignored(c, s)
    PROVE  BalancerInv'
<1> USE DEF BalancerInv
<1> DEFINE e == Record(csEvltr, scStates[c], s)
           st == CurrentState(e)
<1>1. /\ scStates' = [scStates EXCEPT ![c] = StateAfter(s)]
      /\ csEvltr' = e /\ state' = st
      /\ connErr' = (connErr \/ s = "TransientFailure")
      /\ UNCHANGED resolverErr
      /\ IF (s = "Ready") # (scStates[c] = "Ready") \/ st = "TransientFailure"
         THEN Publish(st, subConns)
         ELSE published' = [published EXCEPT !.state = st]
      /\ UNCHANGED <<real, subConns, made, faults>>
      /\ asked' \in SUBSET Conns
  BY DEF updateSubConnState, Hear, TypeOK
<1> HIDE DEF st
<1>2. UNCHANGED <<backend, changes, breaks, loaded, rn>> /\ queue' \in Seq(Calls)
  BY ServeShape
<1>3. queue[1].kind = "conn" /\ queue[1].state = s /\ queue[1].conn = c
  BY CallFacts
<1>4. /\ scStates \in [Conns -> States \cup {"absent"}] /\ scStates[c] \in States
      /\ subConns \in [Addrs -> 0..(MaxChanges + 1)]
      /\ scStates' \in [Conns -> States \cup {"absent"}]
      /\ scStates'[c] = StateAfter(s) /\ \A d \in Conns : d # c => scStates'[d] = scStates[d]
  BY <1>1 DEF TypeOK, Unknown, StateAfter
<1>5. Live' = Live
  BY <1>1 DEF Live
<1>6. \A x \in States : csEvltr'[x] = Count(scStates', x)
  <2> SUFFICES ASSUME NEW x \in States PROVE csEvltr'[x] = Count(scStates', x)
    OBVIOUS
  <2>1. csEvltr[x] = Count(scStates, x) /\ Count(scStates, x) \in Nat
    <3>1. csEvltr[x] = Count(scStates, x)
      BY DEF ConnsCounted, Count
    <3>2. QED
      BY <3>1, CountZero
  <2>2. Count(scStates', x) = Count(scStates, x) + (IF x = StateAfter(s) THEN 1 ELSE 0)
                                                 - (IF x = scStates[c] THEN 1 ELSE 0)
    BY <1>4, CountMove
  <2>3. x = StateAfter(s) <=> x = s
    BY DEF StateAfter, States
  <2>4. csEvltr'[x] = csEvltr[x] + (IF x = s THEN 1 ELSE 0) - (IF x = scStates[c] THEN 1 ELSE 0)
    BY <1>1 DEF Record
  <2>5. QED
    BY <2>1, <2>2, <2>3, <2>4
<1>7. /\ st \in States
      /\ st = "TransientFailure" => \A d \in Conns : scStates'[d] \in {"absent", "TransientFailure"}
      /\ (\E d \in Conns : scStates'[d] = "Ready") => st = "Ready"
      /\ st # "TransientFailure" =>
           \E d \in Conns : scStates'[d] \in {"Ready", "Connecting", "Idle"}
  <2>1. st = CurrentState(csEvltr')
    BY <1>1 DEF st
  <2>2. QED
    BY <1>4, <1>6, <2>1, StateTells
<1>8. csEvltr' \in [States -> Nat]
  <2>1. \A x \in States : csEvltr'[x] \in Nat
    BY <1>6, CountZero
  <2>2. QED
    BY <1>1, <2>1 DEF Record
<1>9. ConnsCounted'
  <2>1. ASSUME NEW d \in Live PROVE scStates'[d] # "absent" /\ real'[d] # "Shutdown"
    <3>1. d \in Conns /\ scStates[d] # "absent" /\ real[d] # "Shutdown"
      BY DEF Live, ConnsCounted
    <3>2. d = c => s # "Shutdown"
      BY <3>1, ServeShape DEF QueueInv
    <3>3. QED
      BY <1>1, <1>4, <3>1, <3>2 DEF StateAfter, States
  <2>2. ASSUME NEW d \in Conns, scStates'[d] # "absent", d \notin Live
        PROVE  \E i \in DOMAIN queue' : queue'[i] = Report(d, "Shutdown")
    <3>1. scStates[d] # "absent" /\ (d = c => s # "Shutdown")
      BY <1>4, <2>2 DEF StateAfter, States
    <3>2. queue[1] # Report(d, "Shutdown")
      <4>1. ASSUME queue[1] = Report(d, "Shutdown") PROVE d = c /\ s = "Shutdown"
        BY <1>3, <4>1, CallFacts
      <4>2. QED
        BY <3>1, <4>1
    <3>3. \E i \in DOMAIN queue : queue[i] = Report(d, "Shutdown")
      BY <2>2, <3>1 DEF ConnsCounted
    <3>4. QED
      BY <3>2, <3>3, ReportedLater
  <2>3. QED
    BY <1>5, <1>6, <2>1, <2>2 DEF ConnsCounted, Count
<1>10. QueueInv' /\ MadeInv'
  <2>1. \A a \in Addrs, k \in 1..(MaxChanges + 1) :
          k > made[a] => scStates'[<<a, k>>] = "absent"
    <3>1. \A a \in Addrs, k \in 1..(MaxChanges + 1) : <<a, k>> \in Conns
      BY DEF Conns
    <3>2. scStates[c] # "absent"
      BY DEF Unknown
    <3>3. QED
      BY <1>4, <3>1, <3>2 DEF MadeInv
  <2>2. QED
    BY <1>1, <1>3, <2>1, ServeTail
<1> DEFINE publishes == (s = "Ready") # (scStates[c] = "Ready") \/ st = "TransientFailure"
<1>11. CASE publishes
  <2>1. /\ published' \in [state : States, picker : {"wait", "error", "route"},
                           conns : [Addrs -> 0..(MaxChanges + 1)],
                           cause : SUBSET {"resolver", "conn"}]
        /\ published'.state = st
        /\ published'.picker = IF st = "TransientFailure" THEN "error" ELSE "route"
        /\ published'.conns = subConns
        /\ st = "TransientFailure" => /\ resolverErr' => "resolver" \in published'.cause
                                      /\ connErr' => "conn" \in published'.cause
    BY <1>1, <1>4, <1>7, <1>11, PublishFacts
  <2> HIDE DEF publishes
  <2>2. Live = {} => resolverErr
    BY <1>4 DEF ErrorInv, States
  <2>3. \A d \in Conns : scStates'[d] = "TransientFailure" => connErr'
    BY <1>1, <1>4 DEF ErrorInv, StateAfter
  <2>4. TypeOK'
    BY <1>1, <1>2, <1>4, <1>7, <1>8, <2>1 DEF TypeOK
  <2>5. PickerFits'
    <3>1. (\E d \in Live : scStates'[d] = "Ready") => st = "Ready"
      BY <1>7 DEF Live
    <3>2. QED
      BY <1>1, <1>5, <2>1, <3>1 DEF PickerFits
  <2>6. st = "TransientFailure" => published'.cause # {}
    <3>1. CASE Live = {}
      BY <1>1, <2>1, <2>2, <3>1
    <3>2. CASE Live # {}
      <4>1. PICK d \in Live : scStates'[d] # "absent"
        BY <1>5, <1>9, <3>2 DEF ConnsCounted
      <4>2. d \in Conns
        BY DEF Live
      <4>3. st = "TransientFailure" => scStates'[d] = "TransientFailure"
        BY <1>7, <4>1, <4>2
      <4>4. QED
        BY <2>1, <2>3, <4>2, <4>3
    <3>3. QED
      BY <3>1, <3>2
  <2>7. ErrorInv'
    <3>1. state' = "TransientFailure" => \A d \in Live' : scStates'[d] # "Ready"
      BY <1>1, <1>5, <1>7 DEF Live
    <3>2. published'.picker # "wait" /\ ~(published'.picker = "error" /\ published'.cause = {})
      BY <2>1, <2>6
    <3>3. QED
      BY <1>1, <1>5, <2>2, <2>3, <3>1, <3>2 DEF ErrorInv
  <2>8. ErrorHasCause'
    BY <1>1, <1>5, <2>1, <2>2, <2>6 DEF ErrorHasCause
  <2>9. QED
    BY <1>9, <1>10, <2>4, <2>5, <2>7, <2>8
<1>12. CASE ~publishes
  <2>1. /\ (s = "Ready") = (scStates[c] = "Ready") /\ st # "TransientFailure"
        /\ published' = [published EXCEPT !.state = st]
    BY <1>1, <1>12
  <2>2. /\ published'.state = st /\ published'.picker = published.picker
        /\ published'.conns = published.conns /\ published'.cause = published.cause
        /\ published' \in [state : States, picker : {"wait", "error", "route"},
                           conns : [Addrs -> 0..(MaxChanges + 1)],
                           cause : SUBSET {"resolver", "conn"}]
    BY <1>7, <2>1 DEF TypeOK
  <2> HIDE DEF publishes
  <2>3. \A d \in Conns : scStates'[d] = "Ready" => scStates[d] = "Ready"
    BY <1>4, <2>1 DEF StateAfter
  <2>4. Live \subseteq Conns
    BY DEF Live
  <2>5. TypeOK'
    BY <1>1, <1>2, <1>4, <1>7, <1>8, <2>2 DEF TypeOK
  <2>6. PickerFits'
    BY <1>1, <1>5, <2>1, <2>2, <2>3, <2>4 DEF PickerFits
  <2>7. Live = {} => resolverErr
    BY <1>4 DEF ErrorInv, States
  <2>8. \A d \in Conns : scStates'[d] = "TransientFailure" => connErr'
    BY <1>1, <1>4 DEF ErrorInv, StateAfter
  <2>9. published.picker = "error" /\ published.cause = {} =>
          \A d \in Conns : scStates'[d] # "Ready"
    BY <2>3 DEF ErrorInv
  <2>10. ErrorInv'
    BY <1>1, <1>5, <2>1, <2>2, <2>7, <2>8, <2>9 DEF ErrorInv
  <2>11. ErrorHasCause'
    <3>1. published.picker = "error" /\ published.cause = {} =>
            \E d \in Conns : scStates'[d] \in {"Idle", "Connecting"}
      BY <1>7, <2>1, <2>9
    <3>2. QED
      BY <1>5, <2>2, <2>4, <2>9, <3>1 DEF ErrorHasCause
  <2>12. QED
    BY <1>9, <1>10, <2>5, <2>6, <2>10, <2>11
<1>13. QED
  BY <1>11, <1>12

(* The resolver's error: it replaces a picker only when none is ready. *)
LEMMA NoneStep ==
    ASSUME BalancerInv, Serve, queue[1].kind = "none", ResolverError,
           queue' = Tail(queue), resolving' = FALSE
    PROVE  BalancerInv'
<1> USE DEF BalancerInv
<1> DEFINE st == IF Live = {} THEN "TransientFailure" ELSE state
<1>1. /\ resolverErr' = TRUE /\ state' = st
      /\ UNCHANGED <<real, asked, subConns, made, scStates, csEvltr, connErr, faults>>
      /\ IF st = "TransientFailure" THEN Publish(st, subConns) ELSE UNCHANGED published
  BY DEF ResolverError
<1>2. UNCHANGED <<backend, changes, breaks, loaded, rn>> /\ queue' \in Seq(Calls)
  BY ServeShape
<1>3. st \in States /\ Live' = Live /\ subConns \in [Addrs -> 0..(MaxChanges + 1)]
  BY <1>1 DEF TypeOK, States, Live
<1>4. st = "TransientFailure" => \A c \in Live : scStates[c] # "Ready"
  BY DEF ErrorInv
<1>5. QueueInv' /\ MadeInv'
  <2>1. \A a \in Addrs, k \in 1..(MaxChanges + 1) :
          k > made[a] => scStates'[<<a, k>>] = "absent"
    BY <1>1 DEF MadeInv
  <2>2. QED
    BY <1>1, <2>1, ServeTail
<1>6. ConnsCounted'
  <2>1. ASSUME NEW d \in Conns, scStates'[d] # "absent", d \notin Live
        PROVE  \E i \in DOMAIN queue' : queue'[i] = Report(d, "Shutdown")
    <3>1. queue[1] # Report(d, "Shutdown")
      BY CallFacts
    <3>2. \E i \in DOMAIN queue : queue[i] = Report(d, "Shutdown")
      BY <1>1, <2>1 DEF ConnsCounted
    <3>3. QED
      BY <3>1, <3>2, ReportedLater
  <2>2. QED
    BY <1>1, <1>3, <2>1 DEF ConnsCounted
<1> HIDE DEF st
<1>7. CASE st = "TransientFailure"
  <2>1. /\ published' \in [state : States, picker : {"wait", "error", "route"},
                           conns : [Addrs -> 0..(MaxChanges + 1)],
                           cause : SUBSET {"resolver", "conn"}]
        /\ published'.picker = "error" /\ "resolver" \in published'.cause
    BY <1>1, <1>3, <1>7, PublishFacts
  <2>2. TypeOK'
    BY <1>1, <1>2, <1>3, <2>1 DEF TypeOK
  <2>3. ErrorInv' /\ PickerFits' /\ ErrorHasCause'
    BY <1>1, <1>3, <1>4, <1>7, <2>1 DEF ErrorInv, PickerFits, ErrorHasCause
  <2>4. QED
    BY <1>5, <1>6, <2>2, <2>3
<1>8. CASE st # "TransientFailure"
  <2>1. UNCHANGED published /\ Live # {}
    BY <1>1, <1>8 DEF st
  <2>2. TypeOK'
    BY <1>1, <1>2, <1>3, <2>1 DEF TypeOK
  <2>3. ErrorInv' /\ PickerFits' /\ ErrorHasCause'
    BY <1>1, <1>3, <1>8, <2>1 DEF ErrorInv, PickerFits, ErrorHasCause
  <2>4. QED
    BY <1>5, <1>6, <2>2, <2>3
<1>9. QED
  BY <1>7, <1>8

-----------------------------------------------------------------------------
(***************************************************************************)
(* A resolution: the addresses that get a connection, the connections shut *)
(* down and the new ones, and what the parts of the state become.          *)
(***************************************************************************)
Added(addrs, failed) == {a \in addrs : subConns[a] = 0} \ failed
Removed(addrs) == {c \in Live : c[1] \notin addrs}
Made(addrs, failed) == {<<a, made[a] + 1>> : a \in Added(addrs, failed)}
ConnsAfter(addrs, failed) ==
    [a \in Addrs |-> IF a \in Added(addrs, failed) THEN made[a] + 1
                     ELSE IF a \in addrs THEN subConns[a] ELSE 0]
NumbersAfter(addrs, failed) ==
    [a \in Addrs |-> IF a \in Added(addrs, failed) THEN made[a] + 1 ELSE made[a]]

LEMMA ConcatFacts ==
    ASSUME NEW S, NEW q \in Seq(S), NEW r \in Seq(S)
    PROVE  /\ q \o r \in Seq(S) /\ Len(q) \in Nat /\ Len(r) \in Nat
           /\ Len(q \o r) = Len(q) + Len(r)
           /\ \A i \in 1..Len(q \o r) :
                \/ i \in 1..Len(q) /\ (q \o r)[i] = q[i]
                \/ i - Len(q) \in 1..Len(r) /\ (q \o r)[i] = r[i - Len(q)]
           /\ \A j \in 1..Len(r) : Len(q) + j \in 1..Len(q \o r) /\ (q \o r)[Len(q) + j] = r[j]
OBVIOUS

(* The queue after a resolution: the rest of it, and the last reports. *)
LEMMA QueueShape ==
    ASSUME BalancerInv, Serve, queue[1].kind # "conn", NEW gone \in SUBSET Conns,
           NEW order \in [1..Cardinality(gone) -> gone],
           {order[i] : i \in DOMAIN order} = gone,
           queue' = Tail(queue) \o [i \in DOMAIN order |-> Report(order[i], "Shutdown")]
    PROVE  /\ queue' \in Seq(Calls)
           /\ \A i \in 1..Len(queue') :
                /\ queue'[i].kind = "conn"
                /\ \/ \E d \in gone : queue'[i] = Report(d, "Shutdown")
                   \/ \E j \in 1..Len(queue) : queue'[i] = queue[j]
           /\ \A d \in gone : \E i \in DOMAIN queue' : queue'[i] = Report(d, "Shutdown")
           /\ \A d \in Conns \ Live : scStates[d] = "absent"
<1> USE DEF BalancerInv
<1> DEFINE n == Cardinality(gone)
           r == [i \in 1..n |-> Report(order[i], "Shutdown")]
           q == Tail(queue)
<1>1. n \in Nat
  BY ConnsFinite
<1> HIDE DEF n
<1>2. queue' = q \o r
  BY DEF n
<1>3. \A i \in 1..n : order[i] \in gone
  BY DEF n
<1>4. /\ r \in Seq(Calls) /\ Len(r) = n
      /\ \A i \in 1..n : r[i] = Report(order[i], "Shutdown")
  <2>1. \A i \in 1..n : Report(order[i], "Shutdown") \in Calls
    BY <1>3, CallFacts
  <2>2. QED
    BY <1>1, <2>1
<1>5. /\ q \in Seq(Calls)
      /\ \A i \in 1..Len(q) : q[i] = queue[i + 1] /\ i + 1 \in 1..Len(queue)
      /\ \A i \in 1..Len(q) : i + 1 # 1
      /\ 1 \in 1..Len(queue)
  BY ServeShape
<1> HIDE DEF q, r
<1>6. /\ queue' \in Seq(Calls) /\ DOMAIN queue' = 1..Len(queue')
      /\ \A i \in 1..Len(queue') :
           \/ i \in 1..Len(q) /\ queue'[i] = q[i]
           \/ i - Len(q) \in 1..Len(r) /\ queue'[i] = r[i - Len(q)]
      /\ \A j \in 1..Len(r) : Len(q) + j \in 1..Len(queue') /\ queue'[Len(q) + j] = r[j]
  <2>1. q \o r \in Seq(Calls)
    BY <1>4, <1>5, ConcatFacts
  <2>2. DOMAIN queue' = 1..Len(queue')
    BY <1>2, <2>1
  <2>3. /\ \A i \in 1..Len(q \o r) :
             \/ i \in 1..Len(q) /\ (q \o r)[i] = q[i]
             \/ i - Len(q) \in 1..Len(r) /\ (q \o r)[i] = r[i - Len(q)]
        /\ \A j \in 1..Len(r) : Len(q) + j \in 1..Len(q \o r) /\ (q \o r)[Len(q) + j] = r[j]
    <3> DEFINE S == Calls
    <3>1. q \in Seq(S) /\ r \in Seq(S)
      BY <1>4, <1>5
    <3> HIDE DEF S
    <3>2. \A i \in 1..Len(q \o r) :
             \/ i \in 1..Len(q) /\ (q \o r)[i] = q[i]
             \/ i - Len(q) \in 1..Len(r) /\ (q \o r)[i] = r[i - Len(q)]
      BY ONLY <3>1, ConcatFacts
    <3>3. \A j \in 1..Len(r) : Len(q) + j \in 1..Len(q \o r) /\ (q \o r)[Len(q) + j] = r[j]
      BY ONLY <3>1, ConcatFacts
    <3>4. QED
      BY <3>2, <3>3
  <2>4. QED
    BY <1>2, <2>1, <2>2, <2>3
<1>7. \A j \in 1..Len(queue) : j # 1 =>
        queue[j].kind = "conn" /\ \A d \in Conns : queue[j] # Report(d, "Shutdown")
  BY <1>5 DEF QueueInv
<1>8. ASSUME NEW i \in 1..Len(queue')
      PROVE  /\ queue'[i].kind = "conn"
             /\ \/ \E d \in gone : queue'[i] = Report(d, "Shutdown")
                \/ \E j \in 1..Len(queue) : queue'[i] = queue[j]
  <2>1. CASE i \in 1..Len(q) /\ queue'[i] = q[i]
    BY <1>5, <1>7, <2>1
  <2>2. CASE i - Len(q) \in 1..Len(r) /\ queue'[i] = r[i - Len(q)]
    <3>1. queue'[i] = Report(order[i - Len(q)], "Shutdown") /\ order[i - Len(q)] \in gone
      BY <1>3, <1>4, <2>2
    <3>2. PICK d \in gone : queue'[i] = Report(d, "Shutdown")
      BY <3>1
    <3>3. d \in Conns /\ queue'[i].kind = "conn"
      BY <3>2, CallFacts
    <3>4. QED
      BY <3>2, <3>3
  <2>3. QED
    BY <1>6, <2>1, <2>2
<1>9. ASSUME NEW d \in gone PROVE \E i \in DOMAIN queue' : queue'[i] = Report(d, "Shutdown")
  <2>1. PICK j \in 1..n : order[j] = d
    BY DEF n
  <2>2. queue'[Len(q) + j] = Report(d, "Shutdown") /\ Len(q) + j \in 1..Len(queue')
    BY <1>4, <1>6, <2>1
  <2>3. QED
    BY <1>6, <2>2
<1>10. ASSUME NEW d \in Conns \ Live PROVE scStates[d] = "absent"
  <2>1. DOMAIN queue = 1..Len(queue)
    BY DEF TypeOK
  <2>2. queue[1] # Report(d, "Shutdown")
    BY CallFacts
  <2>3. QED
    BY <1>7, <2>1, <2>2 DEF ConnsCounted
<1>11. QED
  BY <1>6, <1>8, <1>9, <1>10

(* What UpdateClientConnState assigns, in these terms. *)
LEMMA UpdateShape ==
    ASSUME BalancerInv, NEW addrs \in SUBSET Addrs, NEW failed \in SUBSET addrs,
           UpdateClientConnState(addrs, failed, Tail(queue))
    PROVE  /\ \A a \in failed : subConns[a] = 0
           /\ faults' \in 0..MaxFaults
           /\ subConns' = ConnsAfter(addrs, failed)
           /\ made' = NumbersAfter(addrs, failed)
           /\ scStates' = [c \in Conns |-> IF c \in Made(addrs, failed) THEN "Idle" ELSE scStates[c]]
           /\ csEvltr' = [csEvltr EXCEPT !["Idle"] = @ + Cardinality(Made(addrs, failed))]
           /\ asked' = asked \cup Made(addrs, failed)
           /\ real' = [c \in Conns |-> IF c \in Removed(addrs) THEN "Shutdown" ELSE real[c]]
           /\ \E order \in [1..Cardinality(Removed(addrs)) -> Removed(addrs)] :
                /\ {order[i] : i \in DOMAIN order} = Removed(addrs)
                /\ queue' = Tail(queue) \o [i \in DOMAIN order |-> Report(order[i], "Shutdown")]
           /\ UNCHANGED connErr
           /\ \E st : /\ st = IF \/ \A a \in Addrs : subConns'[a] = 0
                                 \/ failed # {} /\ Live = {}
                              THEN "TransientFailure" ELSE state
                      /\ state' = st
                      /\ resolverErr' = ((\A a \in Addrs : subConns'[a] = 0) \/ failed # {})
                      /\ Publish(st, subConns')
<1> DEFINE conns == ConnsAfter(addrs, failed)
           empty == \A a \in Addrs : conns[a] = 0
           st == IF empty \/ (failed # {} /\ Live = {}) THEN "TransientFailure" ELSE state
<1>1. /\ subConns' = conns
      /\ made' = NumbersAfter(addrs, failed)
      /\ scStates' = [c \in Conns |-> IF c \in Made(addrs, failed) THEN "Idle" ELSE scStates[c]]
      /\ csEvltr' = [csEvltr EXCEPT !["Idle"] = @ + Cardinality(Made(addrs, failed))]
      /\ asked' = asked \cup Made(addrs, failed)
      /\ real' = [c \in Conns |-> IF c \in Removed(addrs) THEN "Shutdown" ELSE real[c]]
      /\ UNCHANGED connErr
  BY DEF UpdateClientConnState, Added, Removed, Made, ConnsAfter, NumbersAfter,
         KeptStates, KeptConnErr
<1>2. \A a \in failed : subConns[a] = 0
  BY DEF UpdateClientConnState
<1>3. faults' \in 0..MaxFaults
  <2>1. /\ faults + Cardinality(failed) <= MaxFaults
        /\ faults' = faults + Cardinality(failed)
    BY DEF UpdateClientConnState
  <2>2. Cardinality(failed) \in Nat
    BY AddrsAssumption, FS_Subset, FS_CardinalityType
  <2>3. QED
    BY <2>1, <2>2, BoundsAssumption DEF BalancerInv, TypeOK
<1>4. \E order \in [1..Cardinality(Removed(addrs)) -> Removed(addrs)] :
         /\ {order[i] : i \in DOMAIN order} = Removed(addrs)
         /\ queue' = Tail(queue) \o [i \in DOMAIN order |-> Report(order[i], "Shutdown")]
  BY Zenon DEF UpdateClientConnState, Removed
<1>5. resolverErr' = (empty \/ failed # {}) /\ state' = st /\ Publish(st, conns)
  BY Zenon DEF UpdateClientConnState, Added, ConnsAfter
<1>6. empty <=> \A a \in Addrs : subConns'[a] = 0
  BY <1>1
<1>7. \E x : /\ x = IF \/ \A a \in Addrs : subConns'[a] = 0
                       \/ failed # {} /\ Live = {}
                    THEN "TransientFailure" ELSE state
             /\ state' = x
             /\ resolverErr' = ((\A a \in Addrs : subConns'[a] = 0) \/ failed # {})
             /\ Publish(x, subConns')
  <2> HIDE DEF conns, empty
  <2>1. Publish(st, subConns')
    BY <1>1, <1>5, Zenon
  <2>2. resolverErr' = ((\A a \in Addrs : subConns'[a] = 0) \/ failed # {})
    BY <1>5, <1>6
  <2>3. st = IF \/ \A a \in Addrs : subConns'[a] = 0
                \/ failed # {} /\ Live = {}
             THEN "TransientFailure" ELSE state
    BY <1>6
  <2> HIDE DEF st
  <2>4. QED
    BY <1>5, <2>1, <2>2, <2>3, Zenon
<1>8. QED
  BY <1>1, <1>2, <1>3, <1>4, <1>7

(* The connections of the map: those that were kept, and the new ones. *)
LEMMA LiveAfter ==
    ASSUME BalancerInv, NEW addrs \in SUBSET Addrs, NEW failed \in SUBSET addrs,
           \A a \in failed : subConns[a] = 0,
           subConns' = ConnsAfter(addrs, failed)
    PROVE  /\ \A a \in Added(addrs, failed) : a \in Addrs /\ made[a] + 1 \in 1..(MaxChanges + 1)
           /\ subConns' \in [Addrs -> 0..(MaxChanges + 1)]
           /\ Made(addrs, failed) \in SUBSET Conns /\ Removed(addrs) \in SUBSET Live
           /\ Live \in SUBSET Conns /\ Live' \in SUBSET Conns
           /\ \A c \in Made(addrs, failed) :
                scStates[c] = "absent" /\ real[c] # "Shutdown" /\ c \notin Live /\ c \in Live'
           /\ \A c \in Live' : c \in Made(addrs, failed) \/ c \in Live \ Removed(addrs)
           /\ \A c \in Live : c \in Removed(addrs) \/ c \in Live'
           /\ Live' = {} <=> \A a \in Addrs : subConns'[a] = 0
<1> USE DEF BalancerInv
<1> DEFINE new == Added(addrs, failed)
           fresh == Made(addrs, failed)
           gone == Removed(addrs)
<1>1. /\ \A a \in Addrs : /\ subConns[a] \in 0..(MaxChanges + 1) /\ made[a] \in Nat
                          /\ subConns[a] <= made[a]
      /\ changes \in 0..MaxChanges /\ MaxChanges \in Nat
  BY BoundsAssumption DEF TypeOK, MadeInv
<1>2. ASSUME NEW a \in new
      PROVE  a \in Addrs /\ a \in addrs /\ subConns[a] = 0 /\ made[a] + 1 \in 1..(MaxChanges + 1)
  <2>1. a \in Addrs /\ a \in addrs /\ subConns[a] = 0
    BY DEF Added
  <2>2. made[a] <= changes
    BY <2>1 DEF MadeInv
  <2>3. QED
    BY <1>1, <2>1, <2>2
<1>3. ASSUME NEW a \in Addrs
      PROVE  /\ a \in new => subConns'[a] = made[a] + 1
             /\ a \notin new /\ a \in addrs => subConns'[a] = subConns[a]
             /\ a \notin addrs => subConns'[a] = 0
  <2>1. a \notin addrs => a \notin new
    BY <1>2
  <2>2. QED
    BY <2>1 DEF ConnsAfter
<1>4. subConns' \in [Addrs -> 0..(MaxChanges + 1)]
  BY <1>1, <1>2 DEF ConnsAfter
<1>5. Live \in SUBSET Conns /\ Live' \in SUBSET Conns /\ gone \in SUBSET Live
  BY DEF Live, Removed
<1>6. /\ \A c \in Conns : c[1] \in Addrs /\ c[2] \in 1..(MaxChanges + 1) /\ c = <<c[1], c[2]>>
      /\ \A a \in Addrs, k \in 1..(MaxChanges + 1) :
            <<a, k>> \in Conns /\ <<a, k>>[1] = a /\ <<a, k>>[2] = k
  BY DEF Conns
<1>7. /\ \A c \in Live : subConns[c[1]] = c[2]
      /\ \A c \in Conns : subConns[c[1]] = c[2] => c \in Live
      /\ \A c \in Live' : subConns'[c[1]] = c[2]
      /\ \A c \in Conns : subConns'[c[1]] = c[2] => c \in Live'
  BY DEF Live
<1>8. ASSUME NEW c \in fresh
      PROVE  /\ c \in Conns
             /\ scStates[c] = "absent" /\ real[c] # "Shutdown" /\ c \notin Live /\ c \in Live'
  <2>1. PICK a \in new : c = <<a, made[a] + 1>>
    BY DEF Made
  <2>2. c \in Conns /\ c[1] = a /\ c[2] = made[a] + 1
    BY <1>2, <1>6, <2>1
  <2>3. scStates[c] = "absent" /\ real[c] # "Shutdown"
    BY <1>1, <1>2, <2>1 DEF MadeInv
  <2>4. c \notin Live
    BY <1>1, <1>2, <1>7, <2>2
  <2>5. c \in Live'
    BY <1>2, <1>3, <1>7, <2>2
  <2>6. QED
    BY <2>2, <2>3, <2>4, <2>5
<1>9. ASSUME NEW c \in Live' PROVE c \in fresh \/ c \in Live \ gone
  <2>1. c \in Conns /\ c[1] \in Addrs /\ c[2] >= 1 /\ subConns'[c[1]] = c[2] /\ c = <<c[1], c[2]>>
    BY <1>5, <1>6, <1>7
  <2>2. CASE c[1] \in new
    BY <1>3, <2>1, <2>2 DEF Made
  <2>3. CASE c[1] \notin new
    <3>1. c[1] \in addrs /\ subConns[c[1]] = c[2]
      BY <1>3, <2>1, <2>3
    <3>2. QED
      BY <1>7, <2>1, <3>1 DEF Removed
  <2>4. QED
    BY <2>2, <2>3
<1>10. ASSUME NEW c \in Live PROVE c \in gone \/ c \in Live'
  <2>1. c \in Conns /\ c[1] \in Addrs /\ c[2] >= 1 /\ subConns[c[1]] = c[2]
    BY <1>5, <1>6, <1>7
  <2>2. CASE c[1] \notin addrs
    BY <2>2 DEF Removed
  <2>3. CASE c[1] \in addrs
    <3>1. c[1] \notin new
      BY <1>2, <2>1
    <3>2. QED
      BY <1>3, <1>7, <2>1, <2>3, <3>1
  <2>4. QED
    BY <2>2, <2>3
<1>11. Live' = {} <=> \A a \in Addrs : subConns'[a] = 0
  <2>1. ASSUME NEW c \in Live' PROVE \E a \in Addrs : subConns'[a] # 0
    BY <1>5, <1>6, <1>7
  <2>2. ASSUME NEW a \in Addrs, subConns'[a] # 0 PROVE <<a, subConns'[a]>> \in Live'
    BY <1>1, <1>4, <1>6, <1>7, <2>2
  <2>3. QED
    BY <2>1, <2>2
<1>12. QED
  BY <1>2, <1>4, <1>5, <1>8, <1>9, <1>10, <1>11

(* The number of connections made stays within the changes. *)
LEMMA MadeAfter ==
    ASSUME BalancerInv, NEW addrs \in SUBSET Addrs, NEW failed \in SUBSET addrs,
           UpdateClientConnState(addrs, failed, Tail(queue)), UNCHANGED <<backend, changes>>,
           1 \in 1..Len(queue), queue[1].kind = "resolver", queue[1].addrs = addrs,
           \A i \in 1..Len(queue') : queue'[i].kind = "conn"
    PROVE  MadeInv' /\ made' \in [Addrs -> 0..(MaxChanges + 1)]
<1> USE DEF BalancerInv
<1> DEFINE new == Added(addrs, failed)
<1>1. /\ \A a \in failed : subConns[a] = 0
      /\ subConns' = ConnsAfter(addrs, failed)
      /\ made' = [a \in Addrs |-> IF a \in new THEN made[a] + 1 ELSE made[a]]
      /\ scStates' = [c \in Conns |-> IF c \in Made(addrs, failed) THEN "Idle" ELSE scStates[c]]
      /\ real' = [c \in Conns |-> IF c \in Removed(addrs) THEN "Shutdown" ELSE real[c]]
  <2>1. /\ \A a \in failed : subConns[a] = 0
        /\ subConns' = ConnsAfter(addrs, failed)
    BY UpdateShape
  <2>2. made' = [a \in Addrs |-> IF a \in new THEN made[a] + 1 ELSE made[a]]
    <3>1. made' = NumbersAfter(addrs, failed)
      BY UpdateShape
    <3>2. QED
      BY <3>1 DEF NumbersAfter
  <2>3. scStates' = [c \in Conns |-> IF c \in Made(addrs, failed) THEN "Idle" ELSE scStates[c]]
    BY UpdateShape
  <2>4. real' = [c \in Conns |-> IF c \in Removed(addrs) THEN "Shutdown" ELSE real[c]]
    BY UpdateShape
  <2>5. QED
    BY <2>1, <2>2, <2>3, <2>4
<1>2. /\ \A a \in new : made[a] + 1 \in 1..(MaxChanges + 1)
      /\ Removed(addrs) \in SUBSET Live
  BY <1>1, LiveAfter
<1>3. made' \in [Addrs -> 0..(MaxChanges + 1)]
  <2>1. \A a \in Addrs : made[a] \in 0..(MaxChanges + 1)
    BY DEF TypeOK
  <2>2. \A a \in new : made[a] + 1 \in 0..(MaxChanges + 1)
    BY <1>2
  <2>3. QED
    BY <1>1, <2>1, <2>2
<1> SUFFICES ASSUME NEW a \in Addrs
             PROVE  /\ subConns'[a] <= made'[a]
                    /\ made'[a] <= changes + 1
                    /\ subConns'[a] = 0 => made'[a] <= changes
                    /\ subConns'[a] # 0 /\ a \notin backend => made'[a] <= changes
                    /\ ~Offered(a)' /\ ~Dropped(a)'
                    /\ \A k \in 1..(MaxChanges + 1) : k > made'[a] =>
                         real'[<<a, k>>] # "Shutdown" /\ scStates'[<<a, k>>] = "absent"
  BY <1>3 DEF MadeInv
<1>4. /\ subConns[a] \in Nat /\ made[a] \in Nat /\ changes \in Nat
      /\ subConns[a] <= made[a] /\ made[a] <= changes + 1
      /\ subConns[a] = 0 => made[a] <= changes
      /\ subConns[a] # 0 /\ a \notin backend => made[a] <= changes
  BY DEF TypeOK, MadeInv
<1>5. ~Offered(a)' /\ ~Dropped(a)'
  BY DEF Offered, Dropped
<1>6. a \in addrs => Offered(a)
  BY DEF Offered
<1>7. a \notin addrs => Dropped(a)
  BY DEF Dropped
<1>8. ASSUME NEW k \in 1..(MaxChanges + 1), k > made'[a]
      PROVE  real'[<<a, k>>] # "Shutdown" /\ scStates'[<<a, k>>] = "absent"
  <2>1. <<a, k>> \in Conns /\ <<a, k>>[1] = a /\ <<a, k>>[2] = k
    BY DEF Conns
  <2>2. k > made[a]
    BY <1>1, <1>4, <1>8
  <2>3. real[<<a, k>>] # "Shutdown" /\ scStates[<<a, k>>] = "absent"
    BY <2>2 DEF MadeInv
  <2>4. <<a, k>> \notin Removed(addrs)
    <3>1. <<a, k>> \notin Live
      BY <1>4, <2>1, <2>2 DEF Live
    <3>2. QED
      BY <1>2, <3>1
  <2>5. <<a, k>> \notin Made(addrs, failed)
    <3>1. ASSUME NEW b \in new, <<a, k>> = <<b, made[b] + 1>> PROVE FALSE
      <4>1. a = b /\ k = made[a] + 1
        BY <3>1
      <4>2. made'[a] = made[a] + 1
        BY <1>1, <4>1
      <4>3. QED
        BY <1>4, <1>8, <4>1, <4>2
    <3>2. QED
      BY <3>1 DEF Made
  <2>6. QED
    BY <1>1, <2>1, <2>3, <2>4, <2>5
<1>9. CASE a \in new
  <2>1. a \in addrs /\ subConns[a] = 0
    BY <1>9 DEF Added
  <2>2. made'[a] = made[a] + 1 /\ subConns'[a] = made[a] + 1
    BY <1>1, <1>9 DEF ConnsAfter
  <2>3. a \notin backend => made[a] + 1 <= changes
    BY <1>6, <2>1 DEF MadeInv
  <2>4. QED
    BY <1>4, <1>5, <1>8, <2>1, <2>2, <2>3
<1>10. CASE a \notin new
  <2>1. made'[a] = made[a] /\ subConns'[a] = IF a \in addrs THEN subConns[a] ELSE 0
    BY <1>1, <1>10 DEF ConnsAfter
  <2>2. a \notin addrs => made[a] <= changes
    BY <1>4, <1>7 DEF MadeInv
  <2>3. QED
    BY <1>4, <1>5, <1>8, <2>1, <2>2
<1>11. QED
  BY <1>9, <1>10

(***************************************************************************)
(* A resolution.  What was shut down before has reported by now, so every  *)
(* counted connection is in the map; the errors are those of this call.    *)
(***************************************************************************)
LEMMA UpdateStep ==
    ASSUME BalancerInv, Serve, NEW addrs \in SUBSET Addrs, NEW failed \in SUBSET addrs,
           queue[1].kind = "resolver", queue[1].addrs = addrs,
           UpdateClientConnState(addrs, failed, Tail(queue)), resolving' = FALSE
    PROVE  BalancerInv'
<1> USE DEF BalancerInv
<1> DEFINE fresh == Made(addrs, failed)
           gone == Removed(addrs)
<1>1. /\ \A a \in failed : subConns[a] = 0
      /\ faults' \in 0..MaxFaults
      /\ subConns' = ConnsAfter(addrs, failed)
      /\ scStates' = [c \in Conns |-> IF c \in fresh THEN "Idle" ELSE scStates[c]]
      /\ csEvltr' = [csEvltr EXCEPT !["Idle"] = @ + Cardinality(fresh)]
      /\ asked' = asked \cup fresh
      /\ real' = [c \in Conns |-> IF c \in gone THEN "Shutdown" ELSE real[c]]
      /\ UNCHANGED connErr
  BY UpdateShape
<1>2. PICK st : /\ st = IF \/ \A a \in Addrs : subConns'[a] = 0
                           \/ failed # {} /\ Live = {}
                        THEN "TransientFailure" ELSE state
                /\ state' = st
                /\ resolverErr' = ((\A a \in Addrs : subConns'[a] = 0) \/ failed # {})
                /\ Publish(st, subConns')
  BY UpdateShape
<1>3. PICK order \in [1..Cardinality(gone) -> gone] :
         /\ {order[i] : i \in DOMAIN order} = gone
         /\ queue' = Tail(queue) \o [i \in DOMAIN order |-> Report(order[i], "Shutdown")]
  BY UpdateShape
<1>4. /\ subConns' \in [Addrs -> 0..(MaxChanges + 1)]
      /\ fresh \in SUBSET Conns /\ gone \in SUBSET Live
      /\ Live \in SUBSET Conns /\ Live' \in SUBSET Conns
      /\ \A c \in fresh :
           scStates[c] = "absent" /\ real[c] # "Shutdown" /\ c \notin Live /\ c \in Live'
      /\ \A c \in Live' : c \in fresh \/ c \in Live \ gone
      /\ \A c \in Live : c \in gone \/ c \in Live'
      /\ Live' = {} <=> \A a \in Addrs : subConns'[a] = 0
  BY <1>1, LiveAfter
<1> HIDE DEF fresh, gone
<1>5. /\ queue' \in Seq(Calls)
      /\ \A i \in 1..Len(queue') :
           /\ queue'[i].kind = "conn"
           /\ \/ \E d \in gone : queue'[i] = Report(d, "Shutdown")
              \/ \E j \in 1..Len(queue) : queue'[i] = queue[j]
      /\ \A d \in gone : \E i \in DOMAIN queue' : queue'[i] = Report(d, "Shutdown")
      /\ \A d \in Conns \ Live : scStates[d] = "absent"
  <2>1. gone \in SUBSET Conns /\ queue[1].kind # "conn"
    BY <1>4
  <2>2. QED
    BY <1>3, <2>1, QueueShape
<1>6. /\ 1 \in 1..Len(queue)
      /\ UNCHANGED <<backend, changes, breaks, loaded, rn>>
  BY ServeShape
<1>7. MadeInv' /\ made' \in [Addrs -> 0..(MaxChanges + 1)]
  BY <1>5, <1>6, MadeAfter
<1>8. /\ \A c \in Conns : scStates[c] \in States \cup {"absent"} /\ real[c] \in States \cup {"Shutdown"}
      /\ \A c \in fresh : scStates'[c] = "Idle" /\ real'[c] = real[c]
      /\ \A c \in Conns \ fresh : scStates'[c] = scStates[c]
      /\ \A c \in gone : real'[c] = "Shutdown"
      /\ \A c \in Conns \ gone : real'[c] = real[c]
      /\ st \in States /\ state \in States
      /\ "Idle" \in States
  <2>1. \A c \in Conns : scStates[c] \in States \cup {"absent"} /\ real[c] \in States \cup {"Shutdown"}
    BY DEF TypeOK
  <2>2. st \in States /\ state \in States /\ "Idle" \in States
    BY <1>2 DEF TypeOK, States
  <2>3. /\ \A c \in fresh : scStates'[c] = "Idle" /\ real'[c] = real[c]
        /\ \A c \in Conns \ fresh : scStates'[c] = scStates[c]
    BY <1>1, <1>4
  <2>4. /\ \A c \in gone : real'[c] = "Shutdown"
        /\ \A c \in Conns \ gone : real'[c] = real[c]
    BY <1>1, <1>4
  <2>5. QED
    BY <2>1, <2>2, <2>3, <2>4
<1>9. QueueInv'
  <2>1. ASSUME NEW i \in 1..Len(queue'), NEW c \in Conns, queue'[i] = Report(c, "Shutdown")
        PROVE  real'[c] = "Shutdown"
    <3>1. CASE \E d \in gone : queue'[i] = Report(d, "Shutdown")
      <4>1. PICK d \in gone : queue'[i] = Report(d, "Shutdown")
        BY <3>1
      <4>2. d = c
        BY <1>4, <2>1, <4>1, CallFacts
      <4>3. QED
        BY <1>8, <4>2
    <3>2. CASE \E j \in 1..Len(queue) : queue'[i] = queue[j]
      <4>1. real[c] = "Shutdown"
        BY <2>1, <3>2 DEF QueueInv
      <4>2. QED
        BY <1>8, <4>1
    <3>3. QED
      BY <1>5, <3>1, <3>2
  <2>2. QED
    BY <1>5, <2>1 DEF QueueInv
<1>10. \A x \in States : csEvltr'[x] = Count(scStates', x) /\ csEvltr'[x] \in Nat
  <2> SUFFICES ASSUME NEW x \in States
               PROVE  csEvltr'[x] = Count(scStates', x) /\ csEvltr'[x] \in Nat
    OBVIOUS
  <2>1. csEvltr[x] = Count(scStates, x)
    BY DEF ConnsCounted, Count
  <2>2. Count(scStates', x) = Count(scStates, x) + (IF x = "Idle" THEN Cardinality(fresh) ELSE 0)
    <3>1. PICK F \in SUBSET Conns : F = fresh
      BY <1>4
    <3>2. /\ \A c \in F : scStates[c] = "absent" /\ scStates'[c] = "Idle"
          /\ \A c \in Conns \ F : scStates'[c] = scStates[c]
      BY <1>4, <1>8, <3>1
    <3>3. Count(scStates', x) = Count(scStates, x) + (IF x = "Idle" THEN Cardinality(F) ELSE 0)
      BY <3>2, CountUpdate
    <3>4. QED
      BY <3>1, <3>3
  <2>3. csEvltr[x] \in Nat /\ Cardinality(fresh) \in Nat
    BY <1>4, ConnsFinite DEF TypeOK
  <2>4. csEvltr'[x] = csEvltr[x] + (IF x = "Idle" THEN Cardinality(fresh) ELSE 0)
    BY <1>1, <2>3 DEF TypeOK
  <2>5. QED
    BY <2>1, <2>2, <2>3, <2>4
<1>11. ConnsCounted'
  <2>1. ASSUME NEW c \in Live' PROVE scStates'[c] # "absent" /\ real'[c] # "Shutdown"
    <3>1. CASE c \in fresh
      BY <1>4, <1>8, <3>1
    <3>2. CASE c \in Live \ gone
      <4>1. scStates[c] # "absent" /\ real[c] # "Shutdown" /\ c \in Conns /\ c \notin fresh
        BY <1>4, <3>2 DEF ConnsCounted
      <4>2. QED
        BY <1>8, <3>2, <4>1
    <3>3. QED
      BY <1>4, <3>1, <3>2
  <2>2. ASSUME NEW c \in Conns, scStates'[c] # "absent", c \notin Live'
        PROVE  \E i \in DOMAIN queue' : queue'[i] = Report(c, "Shutdown")
    <3>1. c \notin fresh
      BY <1>4, <2>2
    <3>2. c \in Live
      BY <1>5, <1>8, <2>2, <3>1
    <3>3. QED
      BY <1>4, <1>5, <2>2, <3>2
  <2>3. QED
    BY <1>10, <2>1, <2>2 DEF ConnsCounted, Count
<1>12. /\ published' \in [state : States, picker : {"wait", "error", "route"},
                          conns : [Addrs -> 0..(MaxChanges + 1)],
                          cause : SUBSET {"resolver", "conn"}]
       /\ published'.state = st
       /\ published'.picker = IF st = "TransientFailure" THEN "error" ELSE "route"
       /\ published'.conns = subConns'
       /\ st = "TransientFailure" => /\ resolverErr' => "resolver" \in published'.cause
                                     /\ connErr' => "conn" \in published'.cause
  <2> DEFINE conns == ConnsAfter(addrs, failed)
  <2>1. subConns' = conns /\ conns \in [Addrs -> 0..(MaxChanges + 1)]
    BY <1>1, <1>4
  <2> HIDE DEF conns
  <2>2. Publish(st, conns)
    BY <1>2, <2>1, Zenon
  <2>3. QED
    BY <1>8, <2>1, <2>2, PublishFacts
<1>13. TypeOK'
  <2>1. /\ scStates' \in [Conns -> States \cup {"absent"}]
        /\ real' \in [Conns -> States \cup {"Shutdown"}]
        /\ asked' \subseteq Conns
    BY <1>1, <1>4, <1>8 DEF TypeOK
  <2>2. csEvltr' \in [States -> Nat]
    BY <1>1, <1>10 DEF TypeOK
  <2>3. resolverErr' \in BOOLEAN
    BY <1>2
  <2>4. connErr' \in BOOLEAN
    BY <1>1 DEF TypeOK
  <2>5. QED
    BY <1>1, <1>2, <1>4, <1>5, <1>6, <1>7, <1>8, <1>12, <2>1, <2>2, <2>3, <2>4 DEF TypeOK
<1>14. \A c \in Live' : scStates'[c] = "Ready" => c \in Live /\ scStates[c] = "Ready"
  BY <1>4, <1>8
<1>15. st = "TransientFailure" => \A c \in Live' : scStates'[c] # "Ready"
  <2>1. CASE \A a \in Addrs : subConns'[a] = 0
    BY <1>4, <2>1
  <2>2. CASE Live = {}
    BY <1>14, <2>2
  <2>3. CASE state = "TransientFailure"
    BY <1>14, <2>3 DEF ErrorInv
  <2>4. QED
    BY <1>2, <2>1, <2>2, <2>3
<1>16. Live' = {} => resolverErr'
  BY <1>2, <1>4
<1>17. \A c \in Conns : scStates'[c] = "TransientFailure" => connErr'
  BY <1>1, <1>8 DEF ErrorInv
<1>18. published'.picker = "error" /\ published'.cause = {} =>
         \A c \in Conns : scStates'[c] # "Ready"
  <2> SUFFICES ASSUME published'.picker = "error", published'.cause = {},
                      NEW c \in Conns, scStates'[c] = "Ready"
               PROVE  FALSE
    OBVIOUS
  <2>1. st = "TransientFailure" /\ ~resolverErr'
    BY <1>12
  <2>2. failed = {} /\ ~\A a \in Addrs : subConns'[a] = 0
    BY <1>2, <2>1
  <2>3. state = "TransientFailure"
    BY <1>2, <2>1, <2>2
  <2>4. c \notin fresh /\ scStates[c] = "Ready"
    BY <1>8
  <2>5. c \in Live
    BY <1>5, <2>4
  <2>6. QED
    BY <2>3, <2>4, <2>5 DEF ErrorInv
<1>19. ErrorInv'
  BY <1>2, <1>12, <1>15, <1>16, <1>17, <1>18 DEF ErrorInv
<1>20. PickerFits'
  BY <1>12, <1>15 DEF PickerFits
<1>21. ErrorHasCause'
  <2>1. published'.picker = "error" => st = "TransientFailure"
    BY <1>12
  <2>2. published'.picker = "error" /\ Live' = {} => "resolver" \in published'.cause
    BY <1>12, <1>16, <2>1
  <2>3. ASSUME published'.picker = "error", published'.cause = {}
        PROVE  \E c \in Conns : scStates'[c] \in {"Idle", "Connecting"}
    <3>1. PICK c \in Live' : scStates'[c] # "absent"
      BY <1>11, <2>2, <2>3 DEF ConnsCounted
    <3>2. c \in Conns /\ scStates'[c] \in States \cup {"absent"}
      BY <1>4, <1>13 DEF TypeOK
    <3>3. scStates'[c] # "TransientFailure"
      BY <1>12, <1>17, <2>1, <2>3, <3>2
    <3>4. scStates'[c] # "Ready"
      BY <1>18, <2>3, <3>2
    <3>5. QED
      BY <3>1, <3>2, <3>3, <3>4 DEF States
  <2>4. QED
    BY <1>4, <1>18, <2>2, <2>3 DEF ErrorHasCause
<1>22. QED
  BY <1>7, <1>9, <1>11, <1>13, <1>19, <1>20, <1>21

(* gRPC's queue: the three kinds of call. *)
LEMMA ServeStep == BalancerInv /\ Serve => BalancerInv'
<1> SUFFICES ASSUME BalancerInv, Serve PROVE BalancerInv'
  OBVIOUS
<1>1. /\ Head(queue) = queue[1] /\ queue[1] \in Calls
      /\ queue[1].kind = "conn" => /\ queue[1].conn \in Conns
                                   /\ queue[1].state \in States \cup {"Shutdown"}
                                   /\ queue[1] = Report(queue[1].conn, queue[1].state)
      /\ queue[1].kind = "resolver" => queue[1].addrs \in SUBSET Addrs
  BY ServeShape, CallFacts
<1>2. CASE /\ queue[1].kind = "conn"
           /\ updateSubConnState(queue[1].conn, queue[1].state)
           /\ queue' = Tail(queue)
           /\ UNCHANGED resolving
  <2>1. PICK c \in Conns, s \in States \cup {"Shutdown"} :
           queue[1] = Report(c, s) /\ c = queue[1].conn /\ s = queue[1].state
    BY <1>1, <1>2
  <2>2. updateSubConnState(c, s)
    BY <1>2, <2>1
  <2>3. QED
    BY <1>2, <2>1, <2>2, UnheardStep, HeardStep
<1>3. CASE /\ queue[1].kind = "none"
           /\ ResolverError
           /\ queue' = Tail(queue)
           /\ resolving' = FALSE
  BY <1>3, NoneStep
<1>4. CASE /\ queue[1].kind = "resolver"
           /\ \E failed \in SUBSET queue[1].addrs :
                UpdateClientConnState(queue[1].addrs, failed, Tail(queue))
           /\ resolving' = FALSE
  <2>1. PICK addrs \in SUBSET Addrs : addrs = queue[1].addrs
    BY <1>1, <1>4
  <2>2. PICK failed \in SUBSET addrs : UpdateClientConnState(addrs, failed, Tail(queue))
    BY <1>4, <2>1
  <2>3. QED
    BY <1>4, <2>1, <2>2, UpdateStep
<1>5. QED
  BY <1>1, <1>2, <1>3, <1>4 DEF Serve

-----------------------------------------------------------------------------
(* The invariant holds of every state of Balancer. *)
LEMMA BalancerStep == BalancerInv /\ [Next]_vars => BalancerInv'
<1> SUFFICES ASSUME BalancerInv, [Next]_vars PROVE BalancerInv'
  OBVIOUS
<1>1. ASSUME NEW c \in Conns, Dial(c) \/ Connected(c) \/ Backoff(c) \/ Break(c)
      PROVE  BalancerInv'
  <2>1. /\ "Idle" \in States /\ "Connecting" \in States /\ "Ready" \in States
        /\ "TransientFailure" \in States
    BY DEF States
  <2>2. /\ breaks \in 0..MaxBreaks /\ rn \in BOOLEAN /\ asked \in SUBSET Conns
        /\ MaxBreaks \in Nat
    BY BoundsAssumption DEF BalancerInv, TypeOK
  <2>3. CASE Dial(c)
    BY <2>1, <2>2, <2>3, MovesStep DEF Dial
  <2>4. CASE Connected(c)
    BY <2>1, <2>2, <2>4, MovesStep DEF Connected
  <2>5. CASE Backoff(c)
    BY <2>1, <2>2, <2>5, MovesStep DEF Backoff
  <2>6. CASE Break(c)
    <3>1. breaks' \in 0..MaxBreaks /\ asked' \in SUBSET Conns
      BY <2>2, <2>6 DEF Break
    <3>2. rn' \in BOOLEAN
      BY <2>2, <2>6 DEF Break, ResolveNow
    <3>3. Moves(c, "Connecting", "TransientFailure") \/ Moves(c, "Ready", "Idle")
      BY <2>6 DEF Break
    <3>4. QED
      BY <2>1, <3>1, <3>2, <3>3, MovesStep
  <2>7. QED
    BY <1>1, <2>3, <2>4, <2>5, <2>6
<1>2. CASE UNCHANGED vars
  <2>1. /\ UNCHANGED <<envVars, resolving, queue, real, asked, balVars>>
        /\ UNCHANGED <<backend, changes, breaks, faults, loaded, rn>>
        /\ UNCHANGED <<subConns, made, scStates, csEvltr, state, resolverErr, connErr, published>>
    BY <1>2 DEF vars, envVars, balVars
  <2>2. ErrorInv' /\ PickerFits' /\ ErrorHasCause' /\ Live' = Live
    BY <2>1, BalancerIdle
  <2>3. TypeOK' /\ QueueInv'
    BY <2>1 DEF BalancerInv, TypeOK, QueueInv
  <2>4. \A a \in Addrs : (Offered(a)' <=> Offered(a)) /\ (Dropped(a)' <=> Dropped(a))
    BY <2>1 DEF Offered, Dropped
  <2>5. MadeInv' /\ ConnsCounted'
    BY <2>1, <2>2, <2>4 DEF BalancerInv, MadeInv, ConnsCounted
  <2>6. QED
    BY <2>2, <2>3, <2>5 DEF BalancerInv
<1>3. QED
  BY <1>1, <1>2, ServeStep, ResolveStep, ChangeStep DEF Next

LEMMA BalancerAlways == Spec => []BalancerInv
BY InitBalancer, BalancerStep, PTL DEF Spec

(***************************************************************************)
(* The evaluator counts the states in scStates, every connection of the    *)
(* map is counted and alive, and what else is counted is shut down with    *)
(* its last report on the way (balancer.go:120-131, 189-203).              *)
(***************************************************************************)
THEOREM NoConnLeaks == Spec => []ConnsCounted
<1>1. BalancerInv => ConnsCounted
  BY DEF BalancerInv
<1>2. QED
  BY BalancerAlways, <1>1, PTL

(***************************************************************************)
(* RPCs fail while every connection failed, are routed while one of the    *)
(* map is ready, and over connections of the last resolution only          *)
(* (balancer.go:131-138, 205-209).                                         *)
(***************************************************************************)
THEOREM PickerAlwaysFits == Spec => []PickerFits
<1>1. BalancerInv => PickerFits
  BY DEF BalancerInv
<1>2. QED
  BY BalancerAlways, <1>1, PTL

(***************************************************************************)
(* A picker that fails RPCs has a cause, or no connection is ready and one *)
(* is being dialled (balancer.go:145).                                     *)
(***************************************************************************)
THEOREM ErrorsHaveCauses == Spec => []ErrorHasCause
<1>1. BalancerInv => ErrorHasCause
  BY DEF BalancerInv
<1>2. QED
  BY BalancerAlways, <1>1, PTL
=============================================================================
