------------------------- MODULE LoadReportsProofs -------------------------
(***************************************************************************)
(* Proofs about LoadReports, for any endpoints, strategy, callers, weights *)
(* and bounds: what a quiet endpoint has reported, what a client that      *)
(* applied the newest message holds, and what the script keeps.            *)
(*                                                                         *)
(* Reports and messages are two stages of the same shape: a sequence whose *)
(* last entry is current, until it is taken and everything left is marked  *)
(* as overtaken.                                                           *)
(***************************************************************************)
EXTENDS LoadReports, FiniteSetTheorems, WellFoundedInduction, TLAPS

(* The last entry is not overtaken; all entries are. *)
NewestLast(s) == Len(s) > 0 /\ ~s[Len(s)].old
AllOld(s) == \A i \in 1..Len(s) : s[i].old

Attribute == [weight : Weights \cup {Nil}, rps : Int \cup {Nil}]
Report == [rps : Int, old : BOOLEAN]
Message == [attr : Attribute, old : BOOLEAN]

ReportTypes ==
    /\ pc \in [Callers -> {"idle", "called", "received", "handling", "sent", "panic"}]
    /\ at \in [Callers -> Eps \cup {Nil}]
    /\ \A c \in Callers : pc[c] \notin {"idle", "panic"} => at[c] \in Eps
    /\ counter \in [Eps -> Int]
    /\ mark \in [Eps -> BOOLEAN]
    /\ awake \in [Eps -> Nat]
    /\ reports \in [Eps -> Seq(Report)]
    /\ stored \in [Eps -> Attribute]
    /\ staleStored \in [Eps -> BOOLEAN]
    /\ msgs \in [Eps -> Seq(Message)]
    /\ attr \in [Eps -> Attribute]
    /\ staleAttr \in [Eps -> BOOLEAN]

(* A report of e is due: a request is about to check the mark, or a reporter *)
(* has not read the counter yet.                                           *)
Checking(e) == \E c \in Callers : at[c] = e /\ pc[c] \in {"received", "sent"}
Due(e) == mark[e] \/ awake[e] > 0 \/ Checking(e)

ReportsOf(e) ==
    \/ Due(e)
    \/ NewestLast(reports[e]) /\ reports[e][Len(reports[e])].rps = counter[e]
    \/ AllOld(reports[e]) /\ (staleStored[e] \/ RPSOf(stored, e) = counter[e])

MessagesOf(e) ==
    \/ NewestLast(msgs[e]) /\ msgs[e][Len(msgs[e])].attr = stored[e]
    \/ AllOld(msgs[e]) /\ (staleAttr[e] \/ attr[e] = stored[e])

ReportsInv == \A e \in Eps : ReportsOf(e)
MessagesInv == \A e \in Eps : MessagesOf(e)
LoadInv == ReportTypes /\ ReportsInv /\ MessagesInv

-----------------------------------------------------------------------------
(* What Append and Take do to a sequence of reports or of messages. *)
LEMMA AppendFacts ==
    ASSUME NEW S, NEW s \in Seq(S), NEW x \in S
    PROVE  /\ Append(s, x) \in Seq(S)
           /\ Len(Append(s, x)) = Len(s) + 1
           /\ Append(s, x)[Len(s) + 1] = x
           /\ Len(s) \in Nat
  OBVIOUS

LEMMA AppendNewest ==
    ASSUME NEW S, NEW s \in Seq(S), NEW x \in S, ~x.old
    PROVE  NewestLast(Append(s, x)) /\ Append(s, x)[Len(Append(s, x))] = x
  BY AppendFacts DEF NewestLast

LEMMA TakeFacts ==
    ASSUME NEW S, NEW s \in Seq(S), NEW i \in DOMAIN s,
           \A m \in S : Overtaken(m) \in S /\ Overtaken(m).old
    PROVE  /\ Take(s, i) \in Seq(S)
           /\ i < Len(s) /\ NewestLast(s) =>
                NewestLast(Take(s, i)) /\ Take(s, i)[Len(Take(s, i))] = s[Len(s)]
           /\ i = Len(s) \/ AllOld(s) => AllOld(Take(s, i))
<1>1. Len(s) \in Nat /\ i \in 1..Len(s) /\ Len(s) - 1 \in Nat
  OBVIOUS
<1> DEFINE n == Len(s) - 1
           F == [j \in 1..n |-> IF j < i THEN Overtaken(s[j]) ELSE s[j + 1]]
<1>2. Take(s, i) = F
  BY DEF Take
<1>3. \A j \in 1..n : F[j] \in S
  <2> SUFFICES ASSUME NEW j \in 1..n PROVE F[j] \in S
    OBVIOUS
  <2>1. s[j] \in S /\ s[j + 1] \in S
    BY <1>1
  <2>2. Overtaken(s[j]) \in S
    BY <2>1
  <2>3. QED
    BY <2>1, <2>2
<1>4. F \in Seq(S) /\ Len(F) = n
  <2>1. n \in Nat
    BY <1>1
  <2>2. \A m \in Nat : \A f \in [1..m -> S] : f \in Seq(S) /\ Len(f) = m
    OBVIOUS
  <2>3. F \in [1..n -> S]
    BY <1>3
  <2>4. QED
    BY <2>1, <2>2, <2>3
<1>5. ASSUME i < Len(s), NewestLast(s)
      PROVE  NewestLast(F) /\ F[Len(F)] = s[Len(s)]
  <2>1. n \in 1..n /\ ~(n < i) /\ n + 1 = Len(s)
    BY <1>1, <1>5
  <2>2. F[n] = s[n + 1]
    BY <2>1
  <2>3. QED
    BY <1>4, <1>5, <2>1, <2>2 DEF NewestLast
<1>6. ASSUME i = Len(s) \/ AllOld(s)
      PROVE  AllOld(F)
  <2> SUFFICES ASSUME NEW j \in 1..n PROVE F[j].old
    BY <1>4 DEF AllOld
  <2>1. s[j] \in S /\ j + 1 \in 1..Len(s)
    BY <1>1
  <2>2. CASE j < i
    <3>1. F[j] = Overtaken(s[j])
      BY <2>2
    <3>2. QED
      BY <2>1, <3>1
  <2>3. CASE ~(j < i)
    <3>1. F[j] = s[j + 1]
      BY <2>3
    <3>2. AllOld(s)
      BY <1>1, <1>6, <2>3
    <3>3. QED
      BY <2>1, <3>1, <3>2 DEF AllOld
  <2>4. QED
    BY <1>1, <2>2, <2>3
<1>7. QED
  BY <1>2, <1>4, <1>5, <1>6

LEMMA OvertakenFacts ==
    /\ \A m \in Report : Overtaken(m) \in Report /\ Overtaken(m).old
    /\ \A m \in Message : Overtaken(m) \in Message /\ Overtaken(m).old
  BY DEF Overtaken, Report, Message

(* The script keeps what the report does not name. *)
LEMMA MergedFacts ==
    ASSUME NEW old \in Attribute, NEW new \in Attribute
    PROVE  /\ Merged(old, new) \in Attribute
           /\ Merged(old, new).rps = IF new.rps = Nil THEN old.rps ELSE new.rps
           /\ \A f \in {"weight", "rps"} : old[f] # Nil => Merged(old, new)[f] # Nil
<1> DEFINE pick(f) == IF new[f] = Nil THEN old[f] ELSE new[f]
<1>1. DOMAIN old = {"weight", "rps"}
  BY DEF Attribute
<1>2. Merged(old, new) = [f \in {"weight", "rps"} |-> pick(f)]
  BY <1>1 DEF Merged
<1>3. /\ DOMAIN Merged(old, new) = {"weight", "rps"}
      /\ Merged(old, new)["weight"] = pick("weight")
      /\ Merged(old, new)["rps"] = pick("rps")
  BY <1>2
<1>4. pick("weight") \in Weights \cup {Nil} /\ pick("rps") \in Int \cup {Nil}
  BY DEF Attribute
<1>5. Merged(old, new) = [weight |-> pick("weight"), rps |-> pick("rps")]
  BY <1>2
<1>6. Merged(old, new) \in Attribute
  BY <1>4, <1>5 DEF Attribute
<1>7. QED
  BY <1>3, <1>6

-----------------------------------------------------------------------------
LEMMA InitLoad == Init => LoadInv
<1> SUFFICES ASSUME Init PROVE LoadInv
  OBVIOUS
<1>1. ReportTypes
  BY DEF Init, ReportTypes, Attribute, NoAttribute, IdleReported, Report, Message
<1>2. ReportsInv
  <2> SUFFICES ASSUME NEW e \in Eps PROVE ReportsOf(e)
    BY DEF ReportsInv
  <2>1. AllOld(reports[e]) /\ RPSOf(stored, e) = counter[e]
    BY DEF Init, AllOld, RPSOf, NoAttribute, IdleReported
  <2>2. QED
    BY <2>1 DEF ReportsOf
<1>3. MessagesInv
  <2> SUFFICES ASSUME NEW e \in Eps PROVE MessagesOf(e)
    BY DEF MessagesInv
  <2>1. AllOld(msgs[e]) /\ attr[e] = stored[e]
    BY DEF Init, AllOld
  <2>2. QED
    BY <2>1 DEF MessagesOf
<1>4. QED
  BY <1>1, <1>2, <1>3 DEF LoadInv

(* What a step leaves alone stays as the invariant has it. *)
LEMMA MessagesSame ==
    ASSUME MessagesInv, UNCHANGED <<msgs, stored, attr, staleAttr>>
    PROVE  MessagesInv'
  BY DEF MessagesInv, MessagesOf, NewestLast, AllOld

LEMMA ReportsSame ==
    ASSUME NEW e \in Eps, ReportsOf(e), Due(e)' = Due(e),
           reports'[e] = reports[e], counter'[e] = counter[e],
           staleStored'[e] = staleStored[e], RPSOf(stored', e) = RPSOf(stored, e)
    PROVE  ReportsOf(e)'
  BY DEF ReportsOf

(* A step that does not change the reporters, nor whether e is checked. *)
LEMMA DueSame ==
    ASSUME NEW e, UNCHANGED <<mark, awake>>, Checking(e)' = Checking(e)
    PROVE  Due(e)' = Due(e)
  BY DEF Due

-----------------------------------------------------------------------------
(* The steps of a request: only a count changes what is to be reported, and *)
(* who counted is about to check.                                          *)
LEMMA SelectStep ==
    ASSUME LoadInv, NEW c \in Callers, Select(c)
    PROVE  LoadInv'
<1> USE DEF LoadInv
<1>1. /\ pc[c] = "idle"
      /\ UNCHANGED <<faults, counter, mark, reportVars, redisVars>>
      /\ \/ pc' = [pc EXCEPT ![c] = "idle"] /\ at' = at
         \/ pc' = [pc EXCEPT ![c] = "panic"] /\ at' = at
         \/ \E e \in Serving : /\ pc' = [pc EXCEPT ![c] = "called"]
                               /\ at' = [at EXCEPT ![c] = e]
  BY DEF Select, After
<1>2. UNCHANGED <<counter, mark, awake, reports, stored, staleStored, msgs, attr, staleAttr>>
  BY <1>1 DEF reportVars, redisVars
<1>3. ReportTypes'
  <2>1. CASE at' = at /\ pc' \in {[pc EXCEPT ![c] = "idle"], [pc EXCEPT ![c] = "panic"]}
    BY <1>2, <2>1 DEF ReportTypes
  <2>2. ASSUME NEW e \in Serving, pc' = [pc EXCEPT ![c] = "called"], at' = [at EXCEPT ![c] = e]
        PROVE  ReportTypes'
    <3>1. e \in Eps
      BY SelectorAssumption
    <3>2. QED
      BY <1>2, <2>2, <3>1 DEF ReportTypes
  <2>3. QED
    BY <1>1, <2>1, <2>2
<1>4. ASSUME NEW e \in Eps PROVE Checking(e)' = Checking(e)
  <2>1. pc'[c] \notin {"received", "sent"}
    BY <1>1 DEF ReportTypes
  <2>2. \A d \in Callers \ {c} : pc'[d] = pc[d] /\ at'[d] = at[d]
    BY <1>1 DEF ReportTypes
  <2>3. pc[c] \notin {"received", "sent"}
    BY <1>1
  <2>4. QED
    BY <2>1, <2>2, <2>3, Zenon DEF Checking
<1>5. ReportsInv'
  <2> SUFFICES ASSUME NEW e \in Eps PROVE ReportsOf(e)'
    BY DEF ReportsInv
  <2>1. Due(e)' = Due(e)
    BY <1>2, <1>4, DueSame
  <2>2. ReportsOf(e) /\ RPSOf(stored', e) = RPSOf(stored, e)
    BY <1>2 DEF ReportsInv
  <2>3. QED
    BY <1>2, <2>1, <2>2, ReportsSame
<1>6. MessagesInv'
  BY <1>2, MessagesSame
<1>7. QED
  BY <1>3, <1>5, <1>6

LEMMA CountStep ==
    ASSUME LoadInv, NEW c \in Callers, NEW from, NEW d \in Int, NEW to \in {"received", "sent"},
           from \notin {"idle", "panic"}, Count(c, from, d, to)
    PROVE  LoadInv'
<1> USE DEF LoadInv
<1>1. /\ pc[c] = from /\ pc' = [pc EXCEPT ![c] = to] /\ at' = at
      /\ counter' = [counter EXCEPT ![at[c]] = @ + d]
      /\ UNCHANGED <<mark, awake, reports, stored, staleStored, msgs, attr, staleAttr>>
  BY DEF Count, reportVars, redisVars
<1>2. at[c] \in Eps /\ pc'[c] = to /\ \A x \in Callers \ {c} : pc'[x] = pc[x]
  BY <1>1 DEF ReportTypes
<1>3. ReportTypes'
  BY <1>1, <1>2 DEF ReportTypes
<1>4. ReportsInv'
  <2> SUFFICES ASSUME NEW e \in Eps PROVE ReportsOf(e)'
    BY DEF ReportsInv
  <2>1. CASE e = at[c]
    <3>1. Checking(e)'
      BY <1>1, <1>2, <2>1 DEF Checking
    <3>2. QED
      BY <3>1 DEF Due, ReportsOf
  <2>2. CASE e # at[c]
    <3>1. Checking(e)' = Checking(e)
      BY <1>1, <1>2, <2>2, Zenon DEF Checking
    <3>2. Due(e)' = Due(e)
      BY <1>1, <3>1, DueSame
    <3>3. counter'[e] = counter[e] /\ ReportsOf(e) /\ RPSOf(stored', e) = RPSOf(stored, e)
      BY <1>1, <2>2 DEF ReportTypes, ReportsInv
    <3>4. QED
      BY <1>1, <3>2, <3>3, ReportsSame
  <2>3. QED
    BY <2>1, <2>2
<1>5. MessagesInv'
  BY <1>1, MessagesSame
<1>6. QED
  BY <1>3, <1>4, <1>5

(* Who checks leaves the mark behind, its own or another's. *)
LEMMA CheckStep ==
    ASSUME LoadInv, NEW c \in Callers, checkUpdate(c)
    PROVE  LoadInv'
<1> USE DEF LoadInv
<1> DEFINE e == at[c]
<1>1. /\ pc[c] \in {"received", "sent"}
      /\ pc' = [pc EXCEPT ![c] = IF pc[c] = "received" THEN "handling" ELSE "idle"]
      /\ at' = [at EXCEPT ![c] = IF pc[c] = "received" THEN e ELSE Nil]
      /\ mark' = [mark EXCEPT ![e] = TRUE]
      /\ UNCHANGED <<counter, awake, reports, stored, staleStored, msgs, attr, staleAttr>>
  BY DEF checkUpdate, redisVars
<1>2. e \in Eps
  BY <1>1 DEF ReportTypes
<1>3. /\ pc'[c] \in {"handling", "idle"} /\ (pc'[c] # "idle" => at'[c] = e)
      /\ \A x \in Callers \ {c} : pc'[x] = pc[x] /\ at'[x] = at[x]
  BY <1>1 DEF ReportTypes
<1>4. ReportTypes'
  <2>1. /\ pc' \in [Callers -> {"idle", "called", "received", "handling", "sent", "panic"}]
        /\ at' \in [Callers -> Eps \cup {Nil}]
    BY <1>1, <1>2 DEF ReportTypes
  <2>2. \A x \in Callers : pc'[x] \notin {"idle", "panic"} => at'[x] \in Eps
    BY <1>2, <1>3 DEF ReportTypes
  <2>3. mark' \in [Eps -> BOOLEAN]
    BY <1>1, <1>2 DEF ReportTypes
  <2>4. QED
    BY <1>1, <2>1, <2>2, <2>3 DEF ReportTypes
<1>5. ReportsInv'
  <2> SUFFICES ASSUME NEW x \in Eps PROVE ReportsOf(x)'
    BY DEF ReportsInv
  <2>1. CASE x = e
    <3>1. mark'[x]
      BY <1>1, <1>2, <2>1, Zenon DEF ReportTypes
    <3>2. QED
      BY <3>1 DEF Due, ReportsOf
  <2>2. CASE x # e
    <3>1. Checking(x)' = Checking(x)
      BY <1>3, <2>2, Zenon DEF Checking
    <3>2. mark'[x] = mark[x]
      BY <1>1, <2>2, Zenon DEF ReportTypes
    <3>3. Due(x)' = Due(x)
      BY <1>1, <3>1, <3>2 DEF Due
    <3>4. ReportsOf(x) /\ RPSOf(stored', x) = RPSOf(stored, x)
      BY <1>1 DEF ReportsInv
    <3>5. QED
      BY <1>1, <3>3, <3>4, ReportsSame
  <2>3. QED
    BY <2>1, <2>2
<1>6. MessagesInv'
  BY <1>1, MessagesSame
<1>7. QED
  BY <1>4, <1>5, <1>6

-----------------------------------------------------------------------------
(* The steps of a reporter. *)
LEMMA WakeStep ==
    ASSUME LoadInv, NEW e \in Eps, Wake(e)
    PROVE  LoadInv'
<1> USE DEF LoadInv
<1>1. /\ awake' = [awake EXCEPT ![e] = @ + 1] /\ mark' = [mark EXCEPT ![e] = FALSE]
      /\ UNCHANGED <<pc, at, counter, reports, stored, staleStored, msgs, attr, staleAttr>>
  BY DEF Wake, Unmarked, redisVars
<1>2. ReportTypes'
  <2>1. awake' \in [Eps -> Nat]
    BY <1>1 DEF ReportTypes
  <2>2. mark' \in [Eps -> BOOLEAN]
    BY <1>1 DEF ReportTypes
  <2>3. QED
    BY <1>1, <2>1, <2>2 DEF ReportTypes
<1>3. ReportsInv'
  <2> SUFFICES ASSUME NEW x \in Eps PROVE ReportsOf(x)'
    BY DEF ReportsInv
  <2>1. CASE x = e
    <3>1. awake'[x] > 0
      BY <1>1, <2>1 DEF ReportTypes
    <3>2. QED
      BY <3>1 DEF Due, ReportsOf
  <2>2. CASE x # e
    <3>1. awake'[x] = awake[x]
      BY <1>1, <2>2 DEF ReportTypes
    <3>2. mark'[x] = mark[x]
      BY <1>1, <2>2, Zenon DEF ReportTypes
    <3>3. Due(x)' = Due(x)
      BY <1>1, <3>1, <3>2 DEF Due, Checking
    <3>4. ReportsOf(x) /\ RPSOf(stored', x) = RPSOf(stored, x)
      BY <1>1 DEF ReportsInv
    <3>5. QED
      BY <1>1, <3>3, <3>4, ReportsSame
  <2>3. QED
    BY <2>1, <2>2
<1>4. MessagesInv'
  BY <1>1, MessagesSame
<1>5. QED
  BY <1>2, <1>3, <1>4

(* What is read last is what is counted. *)
LEMMA LoadStep ==
    ASSUME LoadInv, NEW e \in Eps, Load(e)
    PROVE  LoadInv'
<1> USE DEF LoadInv
<1> DEFINE r == [rps |-> counter[e], old |-> FALSE]
<1>1. /\ awake[e] > 0 /\ awake' = [awake EXCEPT ![e] = @ - 1]
      /\ reports' = [reports EXCEPT ![e] = Append(@, r)]
      /\ UNCHANGED <<pc, at, counter, mark, stored, staleStored, msgs, attr, staleAttr>>
  BY DEF Load, redisVars
<1>2. r \in Report /\ ~r.old /\ r.rps = counter[e] /\ reports[e] \in Seq(Report)
  BY DEF ReportTypes, Report
<1>3. reports'[e] = Append(reports[e], r) /\ \A x \in Eps \ {e} : reports'[x] = reports[x]
  BY <1>1 DEF ReportTypes
<1>4. NewestLast(Append(reports[e], r)) /\ Append(reports[e], r)[Len(Append(reports[e], r))] = r
  BY <1>2, AppendNewest
<1>5. ReportTypes'
  <2>1. awake' \in [Eps -> Nat]
    BY <1>1 DEF ReportTypes
  <2>2. reports' \in [Eps -> Seq(Report)]
    <3>1. Append(reports[e], r) \in Seq(Report)
      BY <1>2, AppendFacts
    <3>2. QED
      BY <1>1, <3>1 DEF ReportTypes
  <2>3. QED
    BY <1>1, <2>1, <2>2 DEF ReportTypes
<1>6. ReportsInv'
  <2> SUFFICES ASSUME NEW x \in Eps PROVE ReportsOf(x)'
    BY DEF ReportsInv
  <2>1. CASE x = e
    <3>1. NewestLast(reports'[x]) /\ reports'[x][Len(reports'[x])] = r
      BY <1>3, <1>4, <2>1
    <3>2. counter'[x] = r.rps
      BY <1>1, <1>2, <2>1
    <3>3. QED
      BY <3>1, <3>2 DEF ReportsOf
  <2>2. CASE x # e
    <3>1. awake'[x] = awake[x] /\ reports'[x] = reports[x]
      BY <1>1, <1>3, <2>2 DEF ReportTypes
    <3>2. Due(x)' = Due(x)
      BY <1>1, <3>1 DEF Due, Checking
    <3>3. ReportsOf(x) /\ RPSOf(stored', x) = RPSOf(stored, x)
      BY <1>1 DEF ReportsInv
    <3>4. QED
      BY <1>1, <3>1, <3>2, <3>3, ReportsSame
  <2>3. QED
    BY <2>1, <2>2
<1>7. MessagesInv'
  BY <1>1, MessagesSame
<1>8. QED
  BY <1>5, <1>6, <1>7

-----------------------------------------------------------------------------
(* An evaluation of the script publishes what it stores. *)
LEMMA EvalEffect ==
    ASSUME LoadInv, NEW e \in Eps, NEW new \in Attribute, Eval(e, new)
    PROVE  /\ stored' \in [Eps -> Attribute] /\ msgs' \in [Eps -> Seq(Message)]
           /\ attr' = attr /\ staleAttr' = staleAttr
           /\ MessagesInv'
           /\ stored'[e] = Merged(stored[e], new)
           /\ \A x \in Eps \ {e} : stored'[x] = stored[x]
<1> USE DEF LoadInv
<1> DEFINE merged == Merged(stored[e], new)
           m == [attr |-> merged, old |-> FALSE]
<1>1. /\ stored' = [stored EXCEPT ![e] = merged]
      /\ msgs' = [msgs EXCEPT ![e] = Append(@, m)]
      /\ UNCHANGED <<attr, staleAttr>>
  BY DEF Eval, Published
<1>2. merged \in Attribute /\ msgs[e] \in Seq(Message)
  BY MergedFacts DEF ReportTypes
<1> HIDE DEF merged
<1>3. m \in Message /\ ~m.old /\ m.attr = merged
  BY <1>2 DEF Message
<1> HIDE DEF m
<1>4. /\ msgs'[e] = Append(msgs[e], m) /\ stored'[e] = merged
      /\ \A x \in Eps \ {e} : msgs'[x] = msgs[x] /\ stored'[x] = stored[x]
  BY <1>1 DEF ReportTypes
<1>5. stored' \in [Eps -> Attribute]
  BY <1>1, <1>2 DEF ReportTypes
<1>6. msgs' \in [Eps -> Seq(Message)]
  <2>1. Append(msgs[e], m) \in Seq(Message)
    BY <1>2, <1>3, AppendFacts
  <2>2. QED
    BY <1>1, <2>1 DEF ReportTypes
<1>7. MessagesInv'
  <2> SUFFICES ASSUME NEW x \in Eps PROVE MessagesOf(x)'
    BY DEF MessagesInv
  <2>1. CASE x = e
    <3>1. NewestLast(Append(msgs[e], m)) /\ Append(msgs[e], m)[Len(Append(msgs[e], m))] = m
      BY <1>2, <1>3, AppendNewest
    <3>2. QED
      BY <1>3, <1>4, <2>1, <3>1 DEF MessagesOf
  <2>2. CASE x # e
    <3>1. MessagesOf(x)
      BY DEF MessagesInv
    <3>2. QED
      BY <1>1, <1>4, <2>2, <3>1 DEF MessagesOf
  <2>3. QED
    BY <2>1, <2>2
<1>8. QED
  BY <1>1, <1>4, <1>5, <1>6, <1>7 DEF merged

LEMMA WeightStep ==
    ASSUME LoadInv, NEW e \in Eps, NEW w \in Weights, ReportWeight(e, w)
    PROVE  LoadInv'
<1> USE DEF LoadInv
<1> DEFINE new == [weight |-> w, rps |-> Nil]
<1>1. /\ Eval(e, new)
      /\ UNCHANGED <<pc, at, counter, mark, awake, reports, staleStored>>
  BY DEF ReportWeight, reportVars
<1>2. new \in Attribute /\ new.rps = Nil
  BY DEF Attribute
<1> HIDE DEF new
<1>3. /\ stored' \in [Eps -> Attribute] /\ msgs' \in [Eps -> Seq(Message)]
      /\ attr' = attr /\ staleAttr' = staleAttr
      /\ MessagesInv'
      /\ stored'[e] = Merged(stored[e], new)
      /\ \A x \in Eps \ {e} : stored'[x] = stored[x]
  BY <1>1, <1>2, EvalEffect
<1>4. ReportTypes'
  BY <1>1, <1>3 DEF ReportTypes
<1>5. ReportsInv'
  <2> SUFFICES ASSUME NEW x \in Eps PROVE ReportsOf(x)'
    BY DEF ReportsInv
  <2>1. RPSOf(stored', x) = RPSOf(stored, x)
    <3>1. CASE x = e
      <4>1. stored[e] \in Attribute
        BY DEF ReportTypes
      <4>2. Merged(stored[e], new).rps = stored[e].rps
        BY <1>2, <4>1, MergedFacts
      <4>3. QED
        BY <1>3, <3>1, <4>2 DEF RPSOf
    <3>2. CASE x # e
      BY <1>3, <3>2 DEF RPSOf
    <3>3. QED
      BY <3>1, <3>2
  <2>2. Due(x)' = Due(x) /\ ReportsOf(x)
    BY <1>1 DEF Due, Checking, ReportsInv
  <2>3. QED
    BY <1>1, <2>1, <2>2, ReportsSame
<1>6. QED
  BY <1>3, <1>4, <1>5

(* A report that reaches the script, or fails: the last one is what Redis  *)
(* holds from then on, and the others are overtaken by it.                 *)
LEMMA ReportStep ==
    ASSUME LoadInv, NEW e \in Eps, reportRPS(e)
    PROVE  LoadInv'
<1> USE DEF LoadInv
<1>1. PICK i \in DOMAIN reports[e] :
        /\ reports' = [reports EXCEPT ![e] = Take(@, i)]
        /\ \/ /\ Eval(e, [weight |-> Nil, rps |-> reports[e][i].rps])
              /\ staleStored' = [staleStored EXCEPT ![e] = reports[e][i].old]
           \/ /\ staleStored' = [staleStored EXCEPT ![e] = @ \/ ~reports[e][i].old]
              /\ UNCHANGED <<stored, msgs, attr, staleAttr>>
        /\ UNCHANGED <<pc, at, counter, mark, awake>>
  BY DEF reportRPS
<1> DEFINE s == reports[e]
           r == s[i]
           new == [weight |-> Nil, rps |-> r.rps]
<1>2. s \in Seq(Report) /\ r \in Report /\ r.rps \in Int /\ r.old \in BOOLEAN
  <2>1. s \in Seq(Report)
    BY DEF ReportTypes
  <2>2. r \in Report
    BY <2>1
  <2>3. QED
    BY <2>1, <2>2 DEF Report
<1>3. /\ Take(s, i) \in Seq(Report)
      /\ i < Len(s) /\ NewestLast(s) =>
           NewestLast(Take(s, i)) /\ Take(s, i)[Len(Take(s, i))] = s[Len(s)]
      /\ i = Len(s) \/ AllOld(s) => AllOld(Take(s, i))
  BY <1>2, OvertakenFacts, TakeFacts
<1>4. new \in Attribute /\ new.rps = r.rps /\ new.rps # Nil
  BY <1>2, NilAssumption DEF Attribute
<1>5. /\ reports'[e] = Take(s, i) /\ reports' \in [Eps -> Seq(Report)]
      /\ \A x \in Eps \ {e} : reports'[x] = reports[x]
  BY <1>1, <1>3 DEF ReportTypes
<1>6. i \in 1..Len(s) /\ Len(s) \in Nat
  BY <1>2
<1>7. ASSUME NEW x \in Eps PROVE Due(x)' = Due(x)
  BY <1>1 DEF Due, Checking
<1>8. CASE /\ Eval(e, new)
           /\ staleStored' = [staleStored EXCEPT ![e] = r.old]
  <2>1. /\ stored' \in [Eps -> Attribute] /\ msgs' \in [Eps -> Seq(Message)]
        /\ attr' = attr /\ staleAttr' = staleAttr
        /\ MessagesInv'
        /\ stored'[e] = Merged(stored[e], new)
        /\ \A x \in Eps \ {e} : stored'[x] = stored[x]
    BY <1>4, <1>8, EvalEffect
  <2>2. /\ staleStored' \in [Eps -> BOOLEAN] /\ staleStored'[e] = r.old
        /\ \A x \in Eps \ {e} : staleStored'[x] = staleStored[x]
    BY <1>2, <1>8, Zenon DEF ReportTypes
  <2>3. ReportTypes'
    BY <1>1, <1>5, <2>1, <2>2 DEF ReportTypes
  <2>4. RPSOf(stored', e) = r.rps
    <3>1. stored[e] \in Attribute
      BY DEF ReportTypes
    <3>2. Merged(stored[e], new).rps = r.rps
      BY <1>4, <3>1, MergedFacts
    <3>3. QED
      BY <1>4, <2>1, <3>2 DEF RPSOf
  <2>5. ReportsInv'
    <3> SUFFICES ASSUME NEW x \in Eps PROVE ReportsOf(x)'
      BY DEF ReportsInv
    <3>1. ReportsOf(x)
      BY DEF ReportsInv
    <3>2. CASE x # e
      <4>1. RPSOf(stored', x) = RPSOf(stored, x)
        BY <2>1, <3>2 DEF RPSOf
      <4>2. QED
        BY <1>1, <1>5, <1>7, <2>2, <3>1, <3>2, <4>1, ReportsSame
    <3>3. CASE x = e /\ Due(x)
      BY <1>7, <3>3 DEF ReportsOf
    <3>4. CASE x = e /\ NewestLast(s) /\ s[Len(s)].rps = counter[e]
      <4>1. CASE i = Len(s)
        <5>1. AllOld(reports'[e]) /\ RPSOf(stored', e) = counter'[e]
          BY <1>1, <1>3, <1>5, <2>4, <3>4, <4>1
        <5>2. QED
          BY <3>4, <5>1 DEF ReportsOf
      <4>2. CASE i < Len(s)
        <5>1. NewestLast(reports'[e]) /\ reports'[e][Len(reports'[e])].rps = counter'[e]
          BY <1>1, <1>3, <1>5, <3>4, <4>2
        <5>2. QED
          BY <3>4, <5>1 DEF ReportsOf
      <4>3. QED
        BY <1>6, <4>1, <4>2
    <3>5. CASE x = e /\ AllOld(s)
      <4>1. AllOld(reports'[e]) /\ staleStored'[e]
        BY <1>3, <1>5, <1>6, <2>2, <3>5 DEF AllOld
      <4>2. QED
        BY <3>5, <4>1 DEF ReportsOf
    <3>6. QED
      BY <3>1, <3>2, <3>3, <3>4, <3>5 DEF ReportsOf
  <2>6. QED
    BY <2>1, <2>3, <2>5
<1>9. CASE /\ staleStored' = [staleStored EXCEPT ![e] = @ \/ ~r.old]
           /\ UNCHANGED <<stored, msgs, attr, staleAttr>>
  <2>1. /\ staleStored' \in [Eps -> BOOLEAN]
        /\ staleStored'[e] <=> (staleStored[e] \/ ~r.old)
        /\ \A x \in Eps \ {e} : staleStored'[x] = staleStored[x]
    BY <1>2, <1>9, Zenon DEF ReportTypes
  <2>2. ReportTypes'
    BY <1>1, <1>5, <1>9, <2>1 DEF ReportTypes
  <2>3. ReportsInv'
    <3> SUFFICES ASSUME NEW x \in Eps PROVE ReportsOf(x)'
      BY DEF ReportsInv
    <3>1. ReportsOf(x) /\ RPSOf(stored', x) = RPSOf(stored, x)
      BY <1>9 DEF ReportsInv
    <3>2. CASE x # e
      BY <1>1, <1>5, <1>7, <2>1, <3>1, <3>2, ReportsSame
    <3>3. CASE x = e /\ Due(x)
      BY <1>7, <3>3 DEF ReportsOf
    <3>4. CASE x = e /\ NewestLast(s) /\ s[Len(s)].rps = counter[e]
      <4>1. CASE i = Len(s)
        <5>1. AllOld(reports'[e]) /\ staleStored'[e]
          BY <1>3, <1>5, <2>1, <3>4, <4>1 DEF NewestLast
        <5>2. QED
          BY <3>4, <5>1 DEF ReportsOf
      <4>2. CASE i < Len(s)
        <5>1. NewestLast(reports'[e]) /\ reports'[e][Len(reports'[e])].rps = counter'[e]
          BY <1>1, <1>3, <1>5, <3>4, <4>2
        <5>2. QED
          BY <3>4, <5>1 DEF ReportsOf
      <4>3. QED
        BY <1>6, <4>1, <4>2
    <3>5. CASE x = e /\ AllOld(s) /\ (staleStored[e] \/ RPSOf(stored, e) = counter[e])
      <4>1. AllOld(reports'[e]) /\ (staleStored'[e] \/ RPSOf(stored', e) = counter'[e])
        BY <1>1, <1>3, <1>5, <2>1, <3>1, <3>5
      <4>2. QED
        BY <3>5, <4>1 DEF ReportsOf
    <3>6. QED
      BY <3>1, <3>2, <3>3, <3>4, <3>5 DEF ReportsOf
  <2>4. MessagesInv'
    BY <1>9, MessagesSame
  <2>5. QED
    BY <2>2, <2>3, <2>4
<1>10. QED
  BY <1>1, <1>8, <1>9

(* A message that is applied, or lost: likewise, for what the client holds. *)
LEMMA ApplyStep ==
    ASSUME LoadInv, NEW e \in Eps, Apply(e)
    PROVE  LoadInv'
<1> USE DEF LoadInv
<1>1. PICK i \in DOMAIN msgs[e] :
        /\ msgs' = [msgs EXCEPT ![e] = Take(@, i)]
        /\ \/ /\ attr' = [attr EXCEPT ![e] = msgs[e][i].attr]
              /\ staleAttr' = [staleAttr EXCEPT ![e] = msgs[e][i].old]
           \/ /\ staleAttr' = [staleAttr EXCEPT ![e] = @ \/ ~msgs[e][i].old]
              /\ attr' = attr
        /\ UNCHANGED <<pc, at, counter, mark, awake, reports, stored, staleStored>>
  BY DEF Apply, reportVars
<1> DEFINE s == msgs[e]
           m == s[i]
<1>2. s \in Seq(Message) /\ m.attr \in Attribute /\ m.old \in BOOLEAN
  <2>1. s \in Seq(Message)
    BY DEF ReportTypes
  <2>2. m \in Message
    BY <2>1
  <2>3. QED
    BY <2>1, <2>2 DEF Message
<1>3. /\ Take(s, i) \in Seq(Message)
      /\ i < Len(s) /\ NewestLast(s) =>
           NewestLast(Take(s, i)) /\ Take(s, i)[Len(Take(s, i))] = s[Len(s)]
      /\ i = Len(s) \/ AllOld(s) => AllOld(Take(s, i))
  BY <1>2, OvertakenFacts, TakeFacts
<1>4. i \in 1..Len(s) /\ Len(s) \in Nat
  BY <1>2
<1>5. /\ msgs'[e] = Take(s, i) /\ msgs' \in [Eps -> Seq(Message)]
      /\ \A x \in Eps \ {e} : msgs'[x] = msgs[x]
  BY <1>1, <1>3 DEF ReportTypes
<1>6. /\ attr' \in [Eps -> Attribute] /\ staleAttr' \in [Eps -> BOOLEAN]
      /\ \A x \in Eps \ {e} : attr'[x] = attr[x] /\ staleAttr'[x] = staleAttr[x]
      /\ \/ attr'[e] = m.attr /\ staleAttr'[e] = m.old
         \/ attr'[e] = attr[e] /\ (staleAttr'[e] <=> (staleAttr[e] \/ ~m.old))
  <2>1. CASE /\ attr' = [attr EXCEPT ![e] = m.attr]
             /\ staleAttr' = [staleAttr EXCEPT ![e] = m.old]
    BY <1>2, <2>1, Zenon DEF ReportTypes
  <2>2. CASE /\ staleAttr' = [staleAttr EXCEPT ![e] = @ \/ ~m.old]
             /\ attr' = attr
    BY <1>2, <2>2, Zenon DEF ReportTypes
  <2>3. QED
    BY <1>1, <2>1, <2>2
<1>7. ReportTypes'
  BY <1>1, <1>5, <1>6 DEF ReportTypes
<1>8. ReportsInv'
  <2> SUFFICES ASSUME NEW x \in Eps PROVE ReportsOf(x)'
    BY DEF ReportsInv
  <2>1. Due(x)' = Due(x) /\ ReportsOf(x) /\ RPSOf(stored', x) = RPSOf(stored, x)
    BY <1>1 DEF Due, Checking, ReportsInv
  <2>2. QED
    BY <1>1, <2>1, ReportsSame
<1>9. MessagesInv'
  <2> SUFFICES ASSUME NEW x \in Eps PROVE MessagesOf(x)'
    BY DEF MessagesInv
  <2>1. MessagesOf(x) /\ stored' = stored
    BY <1>1 DEF MessagesInv
  <2>2. CASE x # e
    BY <1>5, <1>6, <2>1, <2>2 DEF MessagesOf
  <2>3. CASE x = e /\ NewestLast(s) /\ s[Len(s)].attr = stored[e]
    <3>1. CASE i = Len(s)
      <4>1. AllOld(msgs'[e]) /\ (staleAttr'[e] \/ attr'[e] = stored'[e])
        BY <1>3, <1>5, <1>6, <2>1, <2>3, <3>1 DEF NewestLast
      <4>2. QED
        BY <2>3, <4>1 DEF MessagesOf
    <3>2. CASE i < Len(s)
      <4>1. NewestLast(msgs'[e]) /\ msgs'[e][Len(msgs'[e])].attr = stored'[e]
        BY <1>3, <1>5, <2>1, <2>3, <3>2
      <4>2. QED
        BY <2>3, <4>1 DEF MessagesOf
    <3>3. QED
      BY <1>4, <3>1, <3>2
  <2>4. CASE x = e /\ AllOld(s) /\ (staleAttr[e] \/ attr[e] = stored[e])
    <3>1. m.old
      BY <1>4, <2>4 DEF AllOld
    <3>2. AllOld(msgs'[e]) /\ (staleAttr'[e] \/ attr'[e] = stored'[e])
      BY <1>3, <1>5, <1>6, <2>1, <2>4, <3>1
    <3>3. QED
      BY <2>4, <3>2 DEF MessagesOf
  <2>5. QED
    BY <2>1, <2>2, <2>3, <2>4 DEF MessagesOf
<1>10. QED
  BY <1>7, <1>8, <1>9

-----------------------------------------------------------------------------
LEMMA LoadInvStep == LoadInv /\ [Next]_vars => LoadInv'
<1> SUFFICES ASSUME LoadInv, [Next]_vars PROVE LoadInv'
  OBVIOUS
<1>1. ASSUME NEW c \in Callers, Select(c) \/ Receive(c) \/ Respond(c) \/ checkUpdate(c)
      PROVE  LoadInv'
  <2>1. CASE Select(c)
    BY <2>1, SelectStep
  <2>2. CASE Receive(c)
    <3>1. /\ Count(c, "called", 1, "received")
          /\ "called" \notin {"idle", "panic"} /\ "received" \in {"received", "sent"}
      BY <2>2 DEF Receive
    <3>2. QED
      BY <3>1, CountStep
  <2>3. CASE Respond(c)
    <3>1. /\ Count(c, "handling", -1, "sent")
          /\ "handling" \notin {"idle", "panic"} /\ "sent" \in {"received", "sent"}
      BY <2>3 DEF Respond, AfterHandler
    <3>2. QED
      BY <3>1, CountStep
  <2>4. CASE checkUpdate(c)
    BY <2>4, CheckStep
  <2>5. QED
    BY <1>1, <2>1, <2>2, <2>3, <2>4
<1>2. ASSUME NEW e \in Serving,
             \/ Wake(e) \/ Load(e) \/ reportRPS(e) \/ Apply(e)
             \/ \E w \in Weights : ReportWeight(e, w)
      PROVE  LoadInv'
  <2>1. e \in Eps
    BY SelectorAssumption
  <2>2. QED
    BY <1>2, <2>1, WakeStep, LoadStep, ReportStep, ApplyStep, WeightStep
<1>3. CASE UNCHANGED vars
  BY <1>3 DEF vars, LoadInv, ReportTypes, ReportsInv, ReportsOf, MessagesInv, MessagesOf,
     Due, Checking, RPSOf, NewestLast, AllOld
<1>4. QED
  BY <1>1, <1>2, <1>3 DEF Next

LEMMA LoadAlways == Spec => []LoadInv
<1>1. Init => LoadInv
  BY InitLoad
<1>2. LoadInv /\ [Next]_vars => LoadInv'
  BY LoadInvStep
<1>3. QED
  BY <1>1, <1>2, PTL DEF Spec

-----------------------------------------------------------------------------
(***************************************************************************)
(* The mark loses no change of the counter: QuietReport holds however many *)
(* requests and reporters of however many endpoints interleave             *)
(* (sdk.go:157-175).                                                       *)
(***************************************************************************)
THEOREM QuietMeansReported == Spec => []QuietReport
<1>1. LoadInv => QuietReport
  <2> SUFFICES ASSUME LoadInv, NEW e \in Eps,
                      ~mark[e], awake[e] = 0, reports[e] = <<>>, ~staleStored[e],
                      \A c \in Callers : at[c] = e => pc[c] \notin {"received", "sent"}
               PROVE  RPSOf(stored, e) = counter[e]
    BY DEF QuietReport
  <2>1. ~Due(e)
    BY DEF Due, Checking
  <2>2. ~NewestLast(reports[e])
    BY DEF NewestLast
  <2>3. ReportsOf(e)
    BY DEF LoadInv, ReportsInv
  <2>4. QED
    BY <2>1, <2>2, <2>3 DEF ReportsOf
<1>2. QED
  BY <1>1, LoadAlways, PTL

(***************************************************************************)
(* ClientCurrent holds for any messages in any order of the goroutines     *)
(* that apply them (impl.go:408-417, 464).                                 *)
(***************************************************************************)
THEOREM ClientsCatchUp == Spec => []ClientCurrent
<1>1. LoadInv => ClientCurrent
  <2> SUFFICES ASSUME LoadInv, NEW e \in Eps, msgs[e] = <<>>, ~staleAttr[e]
               PROVE  attr[e] = stored[e]
    BY DEF ClientCurrent
  <2>1. ~NewestLast(msgs[e])
    BY DEF NewestLast
  <2>2. MessagesOf(e)
    BY DEF LoadInv, MessagesInv
  <2>3. QED
    BY <2>1, <2>2 DEF MessagesOf
<1>2. QED
  BY <1>1, LoadAlways, PTL

(***************************************************************************)
(* No report takes a stored field away (impl.go:394-410).                  *)
(***************************************************************************)
THEOREM ReportsKeepFields == Spec => FieldsKept
<1> DEFINE Kept == \A e \in Eps : \A f \in {"weight", "rps"} :
                     stored[e][f] # Nil => stored'[e][f] # Nil
<1>1. LoadInv /\ [Next]_vars => [Kept]_vars
  <2> SUFFICES ASSUME LoadInv, Next PROVE Kept
    OBVIOUS
  <2>1. ASSUME NEW e \in Eps, NEW new \in Attribute, Eval(e, new) PROVE Kept
    <3>1. /\ stored'[e] = Merged(stored[e], new)
          /\ \A x \in Eps \ {e} : stored'[x] = stored[x]
      BY <2>1, EvalEffect
    <3>2. stored[e] \in Attribute
      BY DEF LoadInv, ReportTypes
    <3>3. \A f \in {"weight", "rps"} : stored[e][f] # Nil => stored'[e][f] # Nil
      BY <3>1, <3>2, MergedFacts
    <3>4. QED
      BY <3>1, <3>3
  <2>2. CASE stored' = stored
    BY <2>2
  <2>3. ASSUME NEW e \in Serving, NEW w \in Weights, ReportWeight(e, w) PROVE Kept
    <3>1. e \in Eps /\ [weight |-> w, rps |-> Nil] \in Attribute
      BY SelectorAssumption DEF Attribute
    <3>2. QED
      BY <2>1, <2>3, <3>1 DEF ReportWeight
  <2>4. ASSUME NEW e \in Serving, reportRPS(e) PROVE Kept
    <3>1. PICK i \in DOMAIN reports[e] :
            \/ Eval(e, [weight |-> Nil, rps |-> reports[e][i].rps])
            \/ stored' = stored
      BY <2>4 DEF reportRPS
    <3>2. e \in Eps
      BY SelectorAssumption
    <3>3. reports[e][i].rps \in Int
      <4>1. reports[e] \in Seq(Report)
        BY <3>2 DEF LoadInv, ReportTypes
      <4>2. reports[e][i] \in Report
        BY <4>1
      <4>3. QED
        BY <4>2 DEF Report
    <3>4. [weight |-> Nil, rps |-> reports[e][i].rps] \in Attribute
      BY <3>3 DEF Attribute
    <3>5. QED
      BY <2>1, <2>2, <3>1, <3>2, <3>4
  <2>5. ASSUME NEW c \in Callers, Select(c) \/ Receive(c) \/ Respond(c) \/ checkUpdate(c)
        PROVE  stored' = stored
    BY <2>5 DEF Select, Receive, Respond, Count, checkUpdate, redisVars
  <2>6. ASSUME NEW e \in Serving, Wake(e) \/ Load(e) \/ Apply(e)
        PROVE  stored' = stored
    BY <2>6 DEF Wake, Load, Apply, redisVars
  <2>7. QED
    BY <2>2, <2>3, <2>4, <2>5, <2>6 DEF Next
<1>2. QED
  BY <1>1, LoadAlways, PTL DEF Spec, FieldsKept

-----------------------------------------------------------------------------
(* The ring of hash_ring.go. *)

(* A nonempty set of numbers has a least one; if bounded, a greatest one. *)
LEMMA LeastNumber ==
    ASSUME NEW T, T \subseteq Nat, T # {}
    PROVE  \E x \in T : \A y \in T : x <= y
<1> DEFINE D == {1..x : x \in T}
<1>1. D \subseteq FiniteSubsetsOf(Nat) /\ D # {}
  <2>1. \A x \in Nat : IsFiniteSet(1..x) /\ 1..x \subseteq Nat
    BY FS_Interval
  <2>2. QED
    BY <2>1 DEF FiniteSubsetsOf
<1>2. PICK d \in D : \A e \in D : ~(<<e, d>> \in StrictSubsetOrdering(Nat))
  <2>1. IsWellFoundedOn(StrictSubsetOrdering(Nat), FiniteSubsetsOf(Nat))
    BY FS_StrictSubsetOrderingWellFounded
  <2> HIDE DEF D
  <2>2. QED
    BY <1>1, <2>1, WFMin
<1>3. PICK x \in T : d = 1..x
  OBVIOUS
<1>4. \A y \in T : x <= y
  <2> SUFFICES ASSUME NEW y \in T, y < x PROVE FALSE
    OBVIOUS
  <2>1. 1..y \subseteq 1..x /\ 1..y # 1..x
    <3>1. x \in 1..x /\ x \notin 1..y
      OBVIOUS
    <3>2. QED
      BY <3>1
  <2>2. 1..y \in SUBSET Nat /\ 1..x \in SUBSET Nat
    OBVIOUS
  <2>3. <<1..y, 1..x>> \in StrictSubsetOrdering(Nat)
    BY <2>1, <2>2 DEF StrictSubsetOrdering
  <2>4. QED
    BY <1>2, <1>3, <2>3
<1>5. QED
  BY <1>4

LEMMA LastOfFacts ==
    ASSUME NEW n \in Nat, NEW I \in SUBSET (0..n), I # {}
    PROVE  LastOf(I) \in I /\ \A j \in I : j <= LastOf(I)
<1> DEFINE T == {n - i : i \in I}
<1>1. T \subseteq Nat /\ T # {}
  <2>1. \A i \in I : n - i \in Nat
    OBVIOUS
  <2>2. T \subseteq Nat
    BY <2>1
  <2>3. PICK i \in I : TRUE
    OBVIOUS
  <2>4. n - i \in T
    BY <2>3
  <2>5. QED
    BY <2>2, <2>4
<1>2. PICK x \in T : \A y \in T : x <= y
  <2> HIDE DEF T
  <2>1. QED
    BY <1>1, LeastNumber
<1>3. PICK i \in I : x = n - i
  OBVIOUS
<1>4. \A j \in I : j <= i
  <2> SUFFICES ASSUME NEW j \in I PROVE j <= i
    OBVIOUS
  <2>1. n - i <= n - j
    BY <1>2, <1>3
  <2>2. QED
    BY <2>1
<1>5. QED
  BY <1>4 DEF LastOf

LEMMA MinFacts ==
    ASSUME NEW P, P \subseteq Nat, P # {}
    PROVE  Min(P) \in P /\ \A q \in P : Min(P) <= q
  BY LeastNumber DEF Min

(* The first point at or after a hash, else the first of all. *)
LEMMA CeilingFacts ==
    ASSUME NEW P, P \subseteq Nat, P # {}, NEW h \in Nat
    PROVE  LET c == Ceiling(P, h) IN
           /\ c \in P
           /\ c >= h \/ \A q \in P : q < h
           /\ \A q \in P : q >= h \/ c < h => c <= q
<1> DEFINE after == {p \in P : p >= h}
<1>1. CASE after # {}
  <2>1. Min(after) \in after /\ \A q \in after : Min(after) <= q
    <3>1. after \subseteq Nat
      OBVIOUS
    <3> HIDE DEF after
    <3>2. QED
      BY <1>1, <3>1, MinFacts
  <2>2. Ceiling(P, h) = Min(after)
    BY <1>1 DEF Ceiling
  <2>3. /\ Ceiling(P, h) \in P /\ Ceiling(P, h) >= h
        /\ \A q \in P : q >= h => Ceiling(P, h) <= q
    BY <2>1, <2>2
  <2>4. Ceiling(P, h) \in Nat
    BY <2>3
  <2>5. QED
    BY <2>3, <2>4
<1>2. CASE after = {}
  <2>1. Ceiling(P, h) = Min(P)
    BY <1>2 DEF Ceiling
  <2>2. Min(P) \in P /\ \A q \in P : Min(P) <= q
    BY MinFacts
  <2>3. QED
    BY <1>2, <2>1, <2>2
<1>3. QED
  BY <1>1, <1>2

(* Points that go, but for the one a key had, leave the key where it was. *)
LEMMA CeilingStable ==
    ASSUME NEW P, NEW Q, P \subseteq Nat, Q \subseteq P, NEW h \in Nat, Ceiling(P, h) \in Q
    PROVE  Ceiling(Q, h) = Ceiling(P, h)
<1> DEFINE c == Ceiling(P, h)
           d == Ceiling(Q, h)
<1>1. /\ c \in P
      /\ c >= h \/ \A q \in P : q < h
      /\ \A q \in P : q >= h \/ c < h => c <= q
  BY CeilingFacts
<1>2. /\ d \in Q
      /\ d >= h \/ \A q \in Q : q < h
      /\ \A q \in Q : q >= h \/ d < h => d <= q
  BY CeilingFacts
<1>3. c \in Nat /\ d \in Nat /\ c \in Q /\ d \in P
  BY <1>1, <1>2
<1> HIDE DEF c, d
<1>4. c <= d
  BY <1>1, <1>2, <1>3
<1>5. d <= c
  BY <1>1, <1>2, <1>3
<1>6. c = d
  BY <1>3, <1>4, <1>5
<1>7. QED
  BY <1>6 DEF c, d

(* An order in which the map of a sample is walked: each endpoint once. *)
LEMMA OrderFacts ==
    ASSUME NEW o \in SampleOrders
    PROVE  /\ Len(o) \in Nat /\ o \in [1..Len(o) -> Sample] /\ DOMAIN o = 1..Len(o)
           /\ o = <<>> <=> Len(o) = 0
           /\ \A i, j \in 1..Len(o) : o[i] = o[j] => i = j
<1>1. PICK S \in SUBSET Sample : o \in Orders(S)
  BY DEF SampleOrders
<1> DEFINE n == Cardinality(S)
<1>2. IsFiniteSet(S) /\ n \in Nat
  BY <1>1, SampleAssumption, FS_Subset, FS_CardinalityType
<1>3. o \in [1..n -> S] /\ \A e \in S : \E i \in 1..n : o[i] = e
  BY <1>1 DEF Orders
<1>4. IsFiniteSet(1..n) /\ Cardinality(1..n) = n
  BY <1>2, FS_Interval
<1> HIDE DEF n
<1>5. o \in Seq(S) /\ Len(o) = n
  BY <1>2, <1>3
<1>6. \A i, j \in 1..n : o[i] = o[j] => i = j
  <2>1. o \in Surjection(1..n, S)
    BY <1>3 DEF Surjection
  <2>2. o \in Injection(1..n, S)
    BY <1>2, <1>4, <2>1, FS_SurjSameCardinalityImpliesInj DEF n
  <2>3. QED
    BY <2>2 DEF Injection, IsInjective
<1>7. o = <<>> <=> n = 0
  BY <1>2, <1>5
<1>8. QED
  BY <1>2, <1>3, <1>5, <1>6, <1>7

LEMMA PointsFacts ==
    ASSUME NEW a \in SampleAttrs
    PROVE  /\ \A e \in Sample : PointsOf(a, e) \subseteq Nat
           /\ \A o \in SampleOrders : Points(o, a) \subseteq Nat
<1>1. ASSUME NEW e \in Sample PROVE PointsOf(a, e) \subseteq Nat
  <2>1. a[e].weight \in SampleWeights
    BY DEF SampleAttrs
  <2>2. WeightOf(a, e) \in (SampleWeights \ {Nil}) \cup {1}
    BY <2>1 DEF WeightOf
  <2>3. QED
    BY <2>2, HashAssumption DEF PointsOf
<1>2. ASSUME NEW o \in SampleOrders PROVE Points(o, a) \subseteq Nat
  <2>1. \A i \in DOMAIN o : o[i] \in Sample
    BY OrderFacts
  <2>2. QED
    BY <1>1, <2>1 DEF Points
<1>3. QED
  BY <1>1, <1>2

(* A key goes to an endpoint that put its point. *)
LEMMA OwnerFacts ==
    ASSUME NEW o \in SampleOrders, NEW a \in SampleAttrs, NEW h \in Nat, Points(o, a) # {}
    PROVE  /\ Ceiling(Points(o, a), h) \in PointsOf(a, RingOwner(o, a, h))
           /\ RingOwner(o, a, h) \in Offers(o) /\ RingOwner(o, a, h) \in Sample
<1> DEFINE p == Ceiling(Points(o, a), h)
           I == {i \in DOMAIN o : p \in PointsOf(a, o[i])}
<1>1. p \in Points(o, a)
  BY PointsFacts, CeilingFacts
<1>2. Len(o) \in Nat /\ o \in [1..Len(o) -> Sample]
  BY OrderFacts
<1>3. I \in SUBSET (0..Len(o)) /\ I # {}
  BY <1>1, <1>2 DEF Points
<1> HIDE DEF I
<1>4. LastOf(I) \in I
  BY <1>2, <1>3, LastOfFacts
<1>5. RingOwner(o, a, h) = o[LastOf(I)]
  BY DEF RingOwner, I
<1>6. QED
  BY <1>2, <1>4, <1>5 DEF I, Offers

(***************************************************************************)
(* RingStable for any endpoints, weights, number of replicas and hashes of *)
(* points and keys, colliding ones included: endpoints that leave the ring *)
(* hand their own keys over and no other, but for a key whose point two    *)
(* endpoints have put (hash_ring.go:34-40, 49-61).                         *)
(***************************************************************************)
THEOREM RingHandsOver == Spec => []RingStable
<1>1. RingStable
  <2> SUFFICES ASSUME NEW o \in SampleOrders, NEW rest \in SampleOrders, NEW a \in SampleAttrs,
                      NEW h \in KeyHashes,
                      Offers(rest) \subseteq Offers(o), Points(rest, a) # {},
                      RingOwner(o, a, h) \in Offers(rest)
               PROVE  Ceiling(Points(o, a), h)
                        \in PointsOf(a, RingOwner(o, a, h)) \cap PointsOf(a, RingOwner(rest, a, h))
    BY Zenon DEF RingStable
  <2>1. h \in Nat
    BY HashAssumption
  <2>2. Points(rest, a) \subseteq Points(o, a) /\ Points(o, a) \subseteq Nat
    BY PointsFacts DEF Points, Offers
  <2>3. Ceiling(Points(o, a), h) \in PointsOf(a, RingOwner(o, a, h))
    BY <2>1, <2>2, OwnerFacts
  <2>4. Ceiling(Points(o, a), h) \in Points(rest, a)
    BY <2>3 DEF Points, Offers
  <2>5. Ceiling(Points(rest, a), h) = Ceiling(Points(o, a), h)
    BY <2>1, <2>2, <2>4, CeilingStable
  <2>6. Ceiling(Points(rest, a), h) \in PointsOf(a, RingOwner(rest, a, h))
    BY <2>1, OwnerFacts
  <2>7. QED
    BY <2>3, <2>5, <2>6
<1>2. QED
  BY <1>1, PTL

-----------------------------------------------------------------------------
(***************************************************************************)
(* The sums of the weighted strategies.  A recursive function has a value  *)
(* where some function satisfies its equation: the shortest order without  *)
(* one would have it by one more turn.                                     *)
(***************************************************************************)
Adds(f, w, n) == f = [j \in 0..n |-> IF j = 0 THEN 0 ELSE f[j - 1] + w[j]]

LEMMA SumExists ==
    ASSUME NEW w, NEW n \in Nat
    PROVE  \E f : Adds(f, w, n)
<1> DEFINE T == {k \in Nat : ~\E f : Adds(f, w, k)}
<1>1. SUFFICES ASSUME T # {} PROVE FALSE
  OBVIOUS
<1>2. PICK k \in T : \A y \in T : k <= y
  <2>1. T \subseteq Nat
    OBVIOUS
  <2> HIDE DEF T
  <2>2. QED
    BY <1>1, <2>1, LeastNumber
<1>3. k \in Nat /\ ~\E f : Adds(f, w, k)
  OBVIOUS
<1>4. CASE k = 0
  <2> DEFINE f == [j \in 0..0 |-> 0]
  <2>1. f = [j \in 0..0 |-> IF j = 0 THEN 0 ELSE f[j - 1] + w[j]]
    OBVIOUS
  <2>2. Adds(f, w, 0)
    BY <2>1 DEF Adds
  <2>3. QED
    BY <1>3, <1>4, <2>2
<1>5. CASE k # 0
  <2>1. k - 1 \in Nat /\ ~(k <= k - 1)
    BY <1>3, <1>5
  <2>2. PICK g : Adds(g, w, k - 1)
    BY <1>2, <2>1
  <2> DEFINE f == [j \in 0..k |-> IF j = k THEN g[k - 1] + w[k] ELSE g[j]]
  <2>3. ASSUME NEW j \in 0..k PROVE f[j] = IF j = 0 THEN 0 ELSE f[j - 1] + w[j]
    <3>1. CASE j = k
      <4>1. f[j - 1] = g[k - 1]
        BY <2>1, <3>1
      <4>2. QED
        BY <1>5, <3>1, <4>1
    <3>2. CASE j # k
      <4>1. j \in 0..(k - 1) /\ f[j] = g[j]
        BY <1>3, <3>2
      <4>2. g[j] = IF j = 0 THEN 0 ELSE g[j - 1] + w[j]
        BY <2>2, <4>1 DEF Adds
      <4>3. j # 0 => f[j - 1] = g[j - 1]
        BY <1>3, <4>1
      <4>4. QED
        BY <4>1, <4>2, <4>3
    <3>3. QED
      BY <3>1, <3>2
  <2>4. f = [j \in 0..k |-> IF j = 0 THEN 0 ELSE f[j - 1] + w[j]]
    BY <2>3
  <2>5. Adds(f, w, k)
    BY <2>4 DEF Adds
  <2>6. QED
    BY <1>3, <2>5
<1>6. QED
  BY <1>4, <1>5

(* The sum before each turn: it starts at zero and grows by the weights. *)
LEMMA SumEquations ==
    ASSUME NEW o \in SampleOrders, NEW a
    PROVE  /\ WeightSums(o, a)[0] = 0
           /\ \A j \in 1..Len(o) :
                WeightSums(o, a)[j] = WeightSums(o, a)[j - 1] + WeightOf(a, o[j])
<1> DEFINE n == Len(o)
           w == [j \in 1..n |-> WeightOf(a, o[j])]
           s == WeightSums(o, a)
<1>1. n \in Nat
  BY OrderFacts
<1>2. PICK f : Adds(f, w, n)
  BY <1>1, SumExists
<1>3. f = [j \in 0..n |-> IF j = 0 THEN 0 ELSE f[j - 1] + WeightOf(a, o[j])]
  <2>1. \A j \in 0..n : j # 0 => w[j] = WeightOf(a, o[j])
    BY <1>1
  <2>2. QED
    BY <1>2, <2>1 DEF Adds
<1>4. s = [j \in 0..n |-> IF j = 0 THEN 0 ELSE s[j - 1] + WeightOf(a, o[j])]
  BY <1>3 DEF WeightSums
<1> HIDE DEF s
<1>5. s[0] = 0
  BY <1>1, <1>4
<1>6. \A j \in 1..n : s[j] = s[j - 1] + WeightOf(a, o[j])
  BY <1>1, <1>4
<1>7. QED
  BY <1>5, <1>6 DEF s

LEMMA WeightFacts ==
    ASSUME NEW o \in SampleOrders, NEW a \in SampleAttrs, NEW j \in 1..Len(o)
    PROVE  WeightOf(a, o[j]) \in Nat
<1>1. o[j] \in Sample
  BY OrderFacts
<1>2. a[o[j]].weight \in SampleWeights
  BY <1>1 DEF SampleAttrs
<1>3. QED
  BY <1>2, SampleAssumption DEF WeightOf

(* The sums are numbers and never fall. *)
LEMMA SumFacts ==
    ASSUME NEW o \in SampleOrders, NEW a \in SampleAttrs
    PROVE  /\ \A j \in 0..Len(o) : WeightSums(o, a)[j] \in Nat
           /\ \A i, j \in 0..Len(o) : i <= j => WeightSums(o, a)[i] <= WeightSums(o, a)[j]
<1> DEFINE n == Len(o)
           s == WeightSums(o, a)
<1>1. n \in Nat
  BY OrderFacts
<1>2. s[0] = 0 /\ \A j \in 1..n : s[j] = s[j - 1] + WeightOf(a, o[j])
  BY SumEquations
<1>3. \A j \in 1..n : WeightOf(a, o[j]) \in Nat
  BY WeightFacts
<1> HIDE DEF n, s
<1>4. \A j \in 0..n : s[j] \in Nat
  <2> DEFINE T == {j \in 0..n : s[j] \notin Nat}
  <2> SUFFICES ASSUME T # {} PROVE FALSE
    OBVIOUS
  <2>1. PICK j \in T : \A y \in T : j <= y
    <3>1. T \subseteq Nat
      BY <1>1
    <3> HIDE DEF T
    <3>2. QED
      BY <3>1, LeastNumber
  <2>2. j # 0 /\ j \in 1..n /\ j - 1 \in 0..n /\ ~(j <= j - 1)
    BY <1>1, <1>2
  <2>3. s[j - 1] \in Nat
    BY <2>1, <2>2
  <2>4. s[j] \in Nat
    BY <1>2, <1>3, <2>2, <2>3
  <2>5. QED
    BY <2>4
<1>5. \A i, j \in 0..n : i <= j => s[i] <= s[j]
  <2> SUFFICES ASSUME NEW i \in 0..n, NEW x \in 0..n, i <= x, ~(s[i] <= s[x]) PROVE FALSE
    OBVIOUS
  <2> DEFINE T == {j \in 0..n : i <= j /\ ~(s[i] <= s[j])}
  <2>1. PICK j \in T : \A y \in T : j <= y
    <3>1. T \subseteq Nat /\ T # {}
      BY <1>1
    <3> HIDE DEF T
    <3>2. QED
      BY <3>1, LeastNumber
  <2>2. j # i
    BY <1>1, <1>4
  <2>3. j \in 1..n /\ j - 1 \in 0..n /\ i <= j - 1 /\ ~(j <= j - 1)
    BY <1>1, <2>1, <2>2
  <2>4. s[i] <= s[j - 1]
    BY <2>1, <2>3
  <2>5. s[j] = s[j - 1] + WeightOf(a, o[j]) /\ WeightOf(a, o[j]) \in Nat
    BY <1>2, <1>3, <2>3
  <2>6. s[i] \in Nat /\ s[j - 1] \in Nat
    BY <1>4, <2>3
  <2>7. s[i] <= s[j]
    BY <2>4, <2>5, <2>6
  <2>8. QED
    BY <2>1, <2>7
<1>6. QED
  BY <1>4, <1>5 DEF n, s

-----------------------------------------------------------------------------
(* Floor finds the last endpoint at the greatest key not above k. *)
Keyed(o, keys, n) == n \in Nat /\ o \in [1..n -> Sample] /\ keys \in [1..n -> Nat]
LastBelow(o, keys, n, k, i) ==
    /\ Floor(o, keys, k) = o[i] /\ keys[i] <= k
    /\ \A j \in 1..n : keys[j] <= k => keys[j] <= keys[i] /\ (keys[j] = keys[i] => j <= i)

LEMMA FloorFacts ==
    ASSUME NEW n, NEW o, NEW keys, Keyed(o, keys, n), NEW k \in Nat,
           NEW first \in 1..n, keys[first] <= k
    PROVE  \E i \in 1..n : LastBelow(o, keys, n, k, i)
<1> USE DEF Keyed
<1> DEFINE below == {keys[i] : i \in {j \in DOMAIN o : keys[j] <= k}}
           m == LastOf(below)
           I == {i \in DOMAIN o : keys[i] = m}
<1>1. below \in SUBSET (0..k) /\ below # {}
  <2>1. keys[first] \in below
    OBVIOUS
  <2>2. ASSUME NEW y \in below PROVE y \in 0..k
    <3>1. PICK z \in 1..n : y = keys[z] /\ keys[z] <= k
      OBVIOUS
    <3>2. y \in Nat /\ y <= k
      BY <3>1
    <3>3. QED
      BY <3>2
  <2> HIDE DEF below
  <2>3. QED
    BY <2>1, <2>2
<1>2. m \in below /\ \A x \in below : x <= m
  <2> HIDE DEF below
  <2>1. QED
    BY <1>1, LastOfFacts
<1>3. Floor(o, keys, k) = At(o, keys, m)
  BY <1>1 DEF Floor
<1> HIDE DEF m
<1>4. I \in SUBSET (0..n) /\ I # {}
  BY <1>2
<1>5. LastOf(I) \in I /\ \A j \in I : j <= LastOf(I)
  <2> HIDE DEF I
  <2>1. QED
    BY <1>4, LastOfFacts
<1>6. Floor(o, keys, k) = o[LastOf(I)]
  BY <1>3 DEF At
<1> DEFINE i == LastOf(I)
<1>7. i \in 1..n /\ keys[i] = m /\ m <= k
  BY <1>1, <1>2, <1>5
<1>8. ASSUME NEW j \in 1..n, keys[j] <= k
      PROVE  keys[j] <= keys[i] /\ (keys[j] = keys[i] => j <= i)
  <2>1. keys[j] \in below
    BY <1>8
  <2>2. keys[j] = m => j \in I
    OBVIOUS
  <2>3. QED
    BY <1>2, <1>5, <1>7, <2>1, <2>2
<1>9. QED
  BY <1>6, <1>7, <1>8 DEF LastBelow

LEMMA StagesFacts ==
    ASSUME NEW o \in SampleOrders, NEW a \in SampleAttrs
    PROVE  /\ Stages(o, a) \in [1..Len(o) -> Nat]
           /\ \A i \in 1..Len(o) : Stages(o, a)[i] = WeightSums(o, a)[i - 1]
           /\ TotalWeight(o, a) = WeightSums(o, a)[Len(o)]
           /\ TotalWeight(o, a) \in Nat
<1>1. Len(o) \in Nat /\ DOMAIN o = 1..Len(o)
  BY OrderFacts
<1>2. \A j \in 0..Len(o) : WeightSums(o, a)[j] \in Nat
  BY SumFacts
<1>3. \A i \in 1..Len(o) : i - 1 \in 0..Len(o)
  BY <1>1
<1>4. TotalWeight(o, a) = WeightSums(o, a)[Len(o)]
  BY <1>1 DEF TotalWeight, WeightBefore
<1>5. Stages(o, a) = [i \in 1..Len(o) |-> WeightSums(o, a)[i - 1]]
  BY <1>1 DEF Stages, WeightBefore
<1>6. QED
  BY <1>1, <1>2, <1>3, <1>4, <1>5

(* A turn goes to the endpoint in whose share of the total it falls. *)
LEMMA TurnFacts ==
    ASSUME NEW o \in SampleOrders, NEW a \in SampleAttrs, NEW k \in 0..(TotalWeight(o, a) - 1)
    PROVE  \E i \in 1..Len(o) :
             /\ Floor(o, Stages(o, a), k) = o[i]
             /\ WeightSums(o, a)[i - 1] <= k /\ k < WeightSums(o, a)[i]
<1> DEFINE n == Len(o)
           s == WeightSums(o, a)
           keys == Stages(o, a)
<1>1. n \in Nat /\ o \in [1..n -> Sample]
  BY OrderFacts
<1>2. /\ s[0] = 0 /\ \A j \in 0..n : s[j] \in Nat
      /\ \A i, j \in 0..n : i <= j => s[i] <= s[j]
  BY SumEquations, SumFacts
<1>3. /\ keys \in [1..n -> Nat] /\ \A i \in 1..n : keys[i] = s[i - 1]
      /\ TotalWeight(o, a) = s[n]
  BY StagesFacts
<1>4. k \in Nat /\ k < s[n]
  BY <1>2, <1>3
<1> HIDE DEF n, s, keys
<1>5. n # 0
  BY <1>2, <1>4
<1>6. 1 \in 1..n /\ keys[1] <= k
  BY <1>1, <1>2, <1>3, <1>4, <1>5
<1>7. PICK i \in 1..n : LastBelow(o, keys, n, k, i)
  <2>1. Keyed(o, keys, n)
    BY <1>1, <1>3 DEF Keyed
  <2>2. QED
    BY <1>4, <1>6, <2>1, FloorFacts
<1>8. k < s[i]
  <2> SUFFICES ASSUME s[i] <= k PROVE FALSE
    BY <1>1, <1>2, <1>4
  <2>1. i # n
    BY <1>1, <1>2, <1>4
  <2>2. i + 1 \in 1..n /\ i - 1 \in 0..n /\ i \in 0..n /\ ~(i + 1 <= i) /\ (i + 1) - 1 = i
    BY <1>1, <2>1
  <2>3. keys[i + 1] = s[i] /\ keys[i] = s[i - 1]
    BY <1>3, <2>2
  <2>4. s[i] <= s[i - 1]
    BY <1>7, <2>2, <2>3 DEF LastBelow
  <2>5. s[i - 1] <= s[i]
    BY <1>1, <1>2, <2>2
  <2>6. keys[i + 1] = keys[i]
    BY <1>2, <2>2, <2>3, <2>4, <2>5
  <2>7. QED
    BY <1>7, <2>2, <2>3, <2>6 DEF LastBelow
<1>9. QED
  BY <1>3, <1>7, <1>8 DEF n, s, keys, LastBelow

(* The shares do not overlap. *)
LEMMA ShareFacts ==
    ASSUME NEW o \in SampleOrders, NEW a \in SampleAttrs, NEW k \in Nat,
           NEW i \in 1..Len(o), NEW j \in 1..Len(o),
           WeightSums(o, a)[i - 1] <= k, k < WeightSums(o, a)[i],
           WeightSums(o, a)[j - 1] <= k, k < WeightSums(o, a)[j]
    PROVE  i = j
<1> DEFINE s == WeightSums(o, a)
<1>1. /\ Len(o) \in Nat
      /\ \A x \in 0..Len(o) : s[x] \in Nat
      /\ \A x, y \in 0..Len(o) : x <= y => s[x] <= s[y]
  BY OrderFacts, SumFacts
<1>2. i \in 0..Len(o) /\ j \in 0..Len(o) /\ i - 1 \in 0..Len(o) /\ j - 1 \in 0..Len(o)
  BY <1>1
<1>b. s[i - 1] <= k /\ k < s[i] /\ s[j - 1] <= k /\ k < s[j]
  OBVIOUS
<1> HIDE DEF s
<1>n. s[i] \in Nat /\ s[i - 1] \in Nat /\ s[j] \in Nat /\ s[j - 1] \in Nat
  BY <1>1, <1>2
<1>3. ~(i <= j - 1)
  <2> SUFFICES ASSUME i <= j - 1 PROVE FALSE
    OBVIOUS
  <2>1. s[i] <= s[j - 1]
    BY <1>1, <1>2
  <2>2. QED
    BY ONLY <1>b, <1>n, <2>1, k \in Nat
<1>4. ~(j <= i - 1)
  <2> SUFFICES ASSUME j <= i - 1 PROVE FALSE
    OBVIOUS
  <2>1. s[j] <= s[i - 1]
    BY <1>1, <1>2
  <2>2. QED
    BY ONLY <1>b, <1>n, <2>1, k \in Nat
<1>5. i \in Int /\ j \in Int
  BY <1>2
<1>6. QED
  BY ONLY <1>3, <1>4, <1>5

(* An endpoint's share of the turns is its weight. *)
LEMMA ShareIsWeight ==
    ASSUME NEW o \in SampleOrders, NEW a \in SampleAttrs, NEW i \in 1..Len(o)
    PROVE  Cardinality({k \in 0..(TotalWeight(o, a) - 1) : Floor(o, Stages(o, a), k) = o[i]})
             = WeightOf(a, o[i])
<1> DEFINE n == Len(o)
           s == WeightSums(o, a)
           share == {k \in 0..(TotalWeight(o, a) - 1) : Floor(o, Stages(o, a), k) = o[i]}
<1>1. /\ n \in Nat /\ \A j \in 0..n : s[j] \in Nat
      /\ \A x, y \in 0..n : x <= y => s[x] <= s[y]
      /\ \A x, y \in 1..n : o[x] = o[y] => x = y
  BY OrderFacts, SumFacts
<1>2. TotalWeight(o, a) = s[n]
  BY StagesFacts
<1>3. i \in 1..n /\ i - 1 \in 0..n /\ i \in 0..n
  BY <1>1
<1>4. ASSUME NEW k \in share PROVE s[i - 1] <= k /\ k < s[i]
  <2>1. PICK j \in 1..n : Floor(o, Stages(o, a), k) = o[j] /\ s[j - 1] <= k /\ k < s[j]
    BY TurnFacts
  <2>2. j = i
    BY <1>1, <1>3, <2>1
  <2>3. QED
    BY <2>1, <2>2
<1>5. ASSUME NEW k \in Nat, s[i - 1] <= k, k < s[i] PROVE k \in share
  <2>1. s[i] <= s[n]
    BY <1>1, <1>3
  <2>2. k \in 0..(TotalWeight(o, a) - 1)
    BY <1>1, <1>2, <1>3, <1>5, <2>1
  <2>3. PICK j \in 1..n : Floor(o, Stages(o, a), k) = o[j] /\ s[j - 1] <= k /\ k < s[j]
    BY <2>2, TurnFacts
  <2>4. j = i
    BY <1>3, <1>5, <2>3, ShareFacts
  <2>5. QED
    BY <2>2, <2>3, <2>4
<1>6. share = s[i - 1]..(s[i] - 1)
  <2>1. share \subseteq Nat
    BY <1>1, <1>2
  <2>2. s[i - 1] \in Nat /\ s[i] \in Nat
    BY <1>1, <1>3
  <2>3. \A k \in share : s[i - 1] <= k /\ k < s[i]
    BY <1>4
  <2>4. \A k \in Nat : s[i - 1] <= k /\ k < s[i] => k \in share
    BY <1>5
  <2> HIDE DEF share, s
  <2>5. ASSUME NEW k \in share PROVE k \in s[i - 1]..(s[i] - 1)
    BY <2>1, <2>2, <2>3
  <2>6. ASSUME NEW k \in s[i - 1]..(s[i] - 1) PROVE k \in share
    <3>1. k \in Nat /\ s[i - 1] <= k /\ k < s[i]
      BY <2>2
    <3>2. QED
      BY <2>4, <3>1
  <2>7. QED
    BY <2>5, <2>6
<1>7. s[i] = s[i - 1] + WeightOf(a, o[i]) /\ WeightOf(a, o[i]) \in Nat /\ s[i - 1] \in Nat
  BY <1>1, <1>3, SumEquations, WeightFacts
<1> HIDE DEF share, s
<1>8. Cardinality(share) = WeightOf(a, o[i])
  <2>1. Cardinality(s[i - 1]..(s[i] - 1))
          = IF s[i - 1] > s[i] - 1 THEN 0 ELSE (s[i] - 1) - s[i - 1] + 1
    <3>1. s[i - 1] \in Int /\ s[i] - 1 \in Int
      BY <1>7
    <3>2. QED
      BY <3>1, FS_Interval
  <2>2. QED
    BY <1>6, <1>7, <2>1
<1>9. QED
  BY <1>8 DEF share
LEMMA ModFacts ==
    ASSUME NEW m \in Nat \ {0}, NEW n \in Nat
    PROVE  n % m \in 0..(m - 1) /\ (n < m => n % m = n)
  OBVIOUS

LEMMA WrapFacts ==
    ASSUME NEW n \in Nat
    PROVE  /\ Wrap(n) \in Nat /\ Wrap(n) < 2 ^ Width
           /\ n < 2 ^ Width => Wrap(n) = n
<1> DEFINE m == 2 ^ Width
<1>1. m \in Nat \ {0}
  BY WidthAssumption
<1>2. Wrap(n) = n % m
  BY DEF Wrap
<1> HIDE DEF m
<1>3. n % m \in 0..(m - 1) /\ (n < m => n % m = n)
  BY <1>1, ModFacts
<1>4. Wrap(n) \in Nat /\ Wrap(n) < m /\ (n < m => Wrap(n) = n)
  BY <1>1, <1>2, <1>3
<1>5. QED
  BY <1>4 DEF m

(* No stage wraps unless the total does. *)
LEMMA StagesUnwrapped ==
    ASSUME NEW o \in SampleOrders, NEW a \in SampleAttrs, TotalWeight(o, a) = WrappedTotal(o, a)
    PROVE  WrappedStages(o, a) = Stages(o, a)
<1> DEFINE n == Len(o)
           s == WeightSums(o, a)
           m == 2 ^ Width
<1>1. /\ n \in Nat /\ DOMAIN o = 1..n /\ \A j \in 0..n : s[j] \in Nat
      /\ \A x, y \in 0..n : x <= y => s[x] <= s[y]
  BY OrderFacts, SumFacts
<1>2. /\ Stages(o, a) \in [1..n -> Nat]
      /\ \A i \in 1..n : Stages(o, a)[i] = s[i - 1]
      /\ TotalWeight(o, a) = s[n] /\ s[n] \in Nat
  BY StagesFacts
<1>3. s[n] < m
  BY <1>2, WrapFacts DEF WrappedTotal
<1>4. m \in Nat
  BY WidthAssumption
<1> HIDE DEF n, s
<1>5. ASSUME NEW i \in 1..n PROVE Wrap(Stages(o, a)[i]) = Stages(o, a)[i]
  <2>1. i - 1 \in 0..n /\ n \in 0..n /\ i - 1 <= n
    BY <1>1
  <2>2. s[i - 1] \in Nat /\ s[i - 1] <= s[n]
    BY <1>1, <2>1
  <2>3. s[i - 1] < m
    <3> HIDE DEF m
    <3>1. QED
      BY <1>2, <1>3, <1>4, <2>2
  <2>4. Wrap(s[i - 1]) = s[i - 1]
    BY <2>2, <2>3, WrapFacts
  <2>5. QED
    BY <1>2, <2>4
<1>6. WrappedStages(o, a) = [i \in 1..n |-> Wrap(Stages(o, a)[i])]
  BY <1>1 DEF WrappedStages
<1>7. QED
  BY <1>2, <1>5, <1>6

(***************************************************************************)
(* WeightsExact for any finite sample of endpoints and any weights: the    *)
(* turns of the weighted round robin and the draws of weighted random      *)
(* divide as the weights do                                                *)
(* (weighted_round_robin.go:44-55, weighted_random.go:42-53).              *)
(***************************************************************************)
THEOREM SharesAreWeights == Spec => []WeightsExact
<1>1. ASSUME NEW o \in SampleOrders, NEW a \in SampleAttrs
      PROVE  LET total == TotalWeight(o, a)
                 turns == [k \in 0..(total - 1) |-> Floor(o, Stages(o, a), k)]
             IN  /\ \A i \in DOMAIN o :
                      Cardinality({k \in DOMAIN turns : turns[k] = o[i]}) = WeightOf(a, o[i])
                 /\ total = WrappedTotal(o, a) =>
                      \A k \in DOMAIN turns : WeightedRoundRobin(o, a, k) = {turns[k]}
  <2> DEFINE total == TotalWeight(o, a)
             turns == [k \in 0..(total - 1) |-> Floor(o, Stages(o, a), k)]
  <2>1. DOMAIN o = 1..Len(o) /\ total \in Nat
    BY OrderFacts, StagesFacts
  <2>2. ASSUME NEW i \in DOMAIN o
        PROVE  Cardinality({k \in DOMAIN turns : turns[k] = o[i]}) = WeightOf(a, o[i])
    <3>1. {k \in DOMAIN turns : turns[k] = o[i]}
            = {k \in 0..(total - 1) : Floor(o, Stages(o, a), k) = o[i]}
      OBVIOUS
    <3>2. QED
      BY <2>1, <3>1, ShareIsWeight
  <2>3. ASSUME total = WrappedTotal(o, a), NEW k \in DOMAIN turns
        PROVE  WeightedRoundRobin(o, a, k) = {turns[k]}
    <3>1. k \in Nat /\ total \in Nat \ {0} /\ k < total /\ turns[k] = Floor(o, Stages(o, a), k)
      BY <2>1
    <3>2. k % total = k
      <4> HIDE DEF total
      <4>1. QED
        BY <3>1, ModFacts
    <3>3. WrappedStages(o, a) = Stages(o, a)
      BY <2>3, StagesUnwrapped
    <3>4. WrappedTotal(o, a) # 0
      BY <2>3, <3>1
    <3>5. WeightedRoundRobin(o, a, k)
            = {Floor(o, WrappedStages(o, a), k % WrappedTotal(o, a))}
      BY <3>4 DEF WeightedRoundRobin
    <3>6. QED
      BY <2>3, <3>1, <3>2, <3>3, <3>5
  <2>4. QED
    BY <2>2, <2>3
<1>2. WeightsExact
  BY <1>1 DEF WeightsExact
<1>3. QED
  BY <1>2, PTL
-----------------------------------------------------------------------------
(* What PicksOffered asks of a strategy s that may return the picks. *)
Answers(s, o, a, picks) ==
    /\ picks # {} /\ picks \subseteq Offers(o) \cup Errors
    /\ o # <<>> /\ NoEndpoint \in picks /\ s # "custom_lua" =>
         \/ s = "weighted_round_robin" /\ WrappedTotal(o, a) = 0
         \/ s \in {"weighted_random", "hash_ring"} /\ TotalWeight(o, a) = 0

LEMMA OffersFacts ==
    ASSUME NEW o \in SampleOrders
    PROVE  /\ \A i \in 1..Len(o) : o[i] \in Offers(o)
           /\ NoEndpoint \notin Offers(o) /\ NoEndpoint \in Errors
<1>1. o \in [1..Len(o) -> Sample] /\ DOMAIN o = 1..Len(o)
  BY OrderFacts
<1>2. Offers(o) \subseteq Sample /\ \A i \in 1..Len(o) : o[i] \in Offers(o)
  BY <1>1 DEF Offers
<1>3. NoEndpoint \in Errors
  BY DEF Errors
<1>4. QED
  BY <1>2, <1>3, SampleAssumption

(* Endpoints, at least one, are fine for every strategy. *)
LEMMA EndpointsAnswers ==
    ASSUME NEW s, NEW o \in SampleOrders, NEW a, NEW picks, picks # {}, picks \subseteq Offers(o)
    PROVE  Answers(s, o, a, picks)
  BY OffersFacts DEF Answers

(* So is no endpoint where there is none or the weights are all zero. *)
LEMMA NoneAnswered ==
    ASSUME NEW s, NEW o \in SampleOrders, NEW a,
           \/ o = <<>>
           \/ s = "weighted_round_robin" /\ WrappedTotal(o, a) = 0
           \/ s \in {"weighted_random", "hash_ring"} /\ TotalWeight(o, a) = 0
    PROVE  Answers(s, o, a, {NoEndpoint})
  BY OffersFacts DEF Answers

LEMMA RandomAnswers ==
    ASSUME NEW o \in SampleOrders, NEW a
    PROVE  Answers("random", o, a, Random(o))
<1>1. Len(o) \in Nat /\ DOMAIN o = 1..Len(o) /\ (o = <<>> <=> Len(o) = 0)
  BY OrderFacts
<1>2. CASE o = <<>>
  <2>1. Random(o) = {NoEndpoint}
    BY <1>2 DEF Random
  <2>2. QED
    BY <1>2, <2>1, NoneAnswered
<1>3. CASE o # <<>>
  <2>1. Random(o) = {o[i] : i \in 1..Len(o)} /\ 1 \in 1..Len(o)
    BY <1>1, <1>3 DEF Random
  <2>2. Random(o) # {} /\ Random(o) \subseteq Offers(o)
    BY <2>1, OffersFacts
  <2>3. QED
    BY <2>2, EndpointsAnswers
<1>4. QED
  BY <1>2, <1>3

LEMMA RoundRobinAnswers ==
    ASSUME NEW o \in SampleOrders, NEW a, NEW n \in Nat
    PROVE  Answers("round_robin", o, a, RoundRobin(o, n))
<1>1. Len(o) \in Nat /\ (o = <<>> <=> Len(o) = 0)
  BY OrderFacts
<1>2. CASE o = <<>>
  <2>1. RoundRobin(o, n) = {NoEndpoint}
    BY <1>2 DEF RoundRobin
  <2>2. QED
    BY <1>2, <2>1, NoneAnswered
<1>3. CASE o # <<>>
  <2>1. n % Len(o) \in 0..(Len(o) - 1)
    BY <1>1, <1>3, ModFacts
  <2>2. (n % Len(o)) + 1 \in 1..Len(o)
    BY <1>1, <2>1
  <2>3. RoundRobin(o, n) = {o[(n % Len(o)) + 1]}
    BY <1>3 DEF RoundRobin
  <2>4. RoundRobin(o, n) # {} /\ RoundRobin(o, n) \subseteq Offers(o)
    BY <2>2, <2>3, OffersFacts
  <2>5. QED
    BY <2>4, EndpointsAnswers
<1>4. QED
  BY <1>2, <1>3

(* Of two samples the better is one of them, whatever the costs. *)
LEMMA LeastAnswers ==
    ASSUME NEW s, NEW o \in SampleOrders, NEW a, NEW cost
    PROVE  Answers(s, o, a, Least(o, cost))
<1>1. Len(o) \in Nat /\ DOMAIN o = 1..Len(o) /\ (o = <<>> <=> Len(o) = 0)
  BY OrderFacts
<1>2. CASE o = <<>>
  <2>1. Least(o, cost) = {NoEndpoint}
    BY <1>2 DEF Least
  <2>2. QED
    BY <1>2, <2>1, NoneAnswered
<1>3. CASE o # <<>>
  <2>1. Least(o, cost) = {o[Better(i, j, cost)] : i, j \in 1..Len(o)} /\ 1 \in 1..Len(o)
    BY <1>1, <1>3 DEF Least
  <2>2. \A i, j \in 1..Len(o) : Better(i, j, cost) \in 1..Len(o)
    BY DEF Better
  <2>3. \A i, j \in 1..Len(o) : o[Better(i, j, cost)] \in Offers(o)
    BY <2>2, OffersFacts
  <2>4. o[Better(1, 1, cost)] \in Least(o, cost)
    BY <2>1
  <2>5. Least(o, cost) # {} /\ Least(o, cost) \subseteq Offers(o)
    <3>1. ASSUME NEW e \in Least(o, cost) PROVE e \in Offers(o)
      <4>1. PICK i \in 1..Len(o), j \in 1..Len(o) : e = o[Better(i, j, cost)]
        BY <2>1
      <4>2. QED
        BY <2>3, <4>1
    <3>2. QED
      BY <2>4, <3>1
  <2>6. QED
    BY <2>5, EndpointsAnswers
<1>4. QED
  BY <1>2, <1>3

LEMMA WeightedRandomAnswers ==
    ASSUME NEW o \in SampleOrders, NEW a \in SampleAttrs
    PROVE  Answers("weighted_random", o, a, WeightedRandom(o, a))
<1> DEFINE total == TotalWeight(o, a)
<1>1. total \in Nat
  BY StagesFacts
<1>2. CASE total = 0
  <2>1. WeightedRandom(o, a) = {NoEndpoint}
    BY <1>2 DEF WeightedRandom
  <2>2. QED
    BY <1>2, <2>1, NoneAnswered
<1>3. CASE total # 0
  <2>1. WeightedRandom(o, a) = {Floor(o, Stages(o, a), rnd) : rnd \in 0..(total - 1)}
    BY <1>3 DEF WeightedRandom
  <2>2. 0 \in 0..(total - 1)
    BY <1>1, <1>3
  <2>3. \A rnd \in 0..(total - 1) : Floor(o, Stages(o, a), rnd) \in Offers(o)
    BY TurnFacts, OffersFacts
  <2>4. WeightedRandom(o, a) # {} /\ WeightedRandom(o, a) \subseteq Offers(o)
    BY <2>1, <2>2, <2>3
  <2>5. QED
    BY <2>4, EndpointsAnswers
<1>4. QED
  BY <1>2, <1>3

(* The first stage is zero, wrapped or not, so that some stage is found. *)
LEMMA WeightedRoundRobinAnswers ==
    ASSUME NEW o \in SampleOrders, NEW a \in SampleAttrs, NEW k \in Nat
    PROVE  Answers("weighted_round_robin", o, a, WeightedRoundRobin(o, a, k))
<1> DEFINE n == Len(o)
           keys == WrappedStages(o, a)
           total == WrappedTotal(o, a)
<1>1. n \in Nat /\ o \in [1..n -> Sample] /\ DOMAIN o = 1..n
  BY OrderFacts
<1>2. /\ Stages(o, a) \in [1..n -> Nat] /\ \A i \in 1..n : Stages(o, a)[i] = WeightSums(o, a)[i - 1]
      /\ TotalWeight(o, a) = WeightSums(o, a)[n] /\ TotalWeight(o, a) \in Nat
      /\ WeightSums(o, a)[0] = 0
  BY StagesFacts, SumEquations
<1>3. Wrap(0) = 0
  <2>1. 0 < 2 ^ Width
    BY WidthAssumption
  <2>2. QED
    BY <2>1, WrapFacts
<1>4. keys \in [1..n -> Nat]
  <2>1. \A i \in 1..n : Wrap(Stages(o, a)[i]) \in Nat
    BY <1>2, WrapFacts
  <2>2. QED
    BY <1>1, <2>1 DEF WrappedStages
<1>5. total \in Nat
  BY <1>2, WrapFacts DEF WrappedTotal
<1>6. CASE total = 0
  <2>1. WeightedRoundRobin(o, a, k) = {NoEndpoint}
    BY <1>6 DEF WeightedRoundRobin
  <2>2. QED
    BY <1>6, <2>1, NoneAnswered
<1>7. CASE total # 0
  <2>1. n # 0
    BY <1>2, <1>3, <1>7 DEF WrappedTotal
  <2>2. 1 \in 1..n /\ Stages(o, a)[1] = 0
    BY <1>1, <1>2, <2>1
  <2>3. keys[1] = 0
    BY <1>1, <1>3, <2>2 DEF WrappedStages
  <2>4. WeightedRoundRobin(o, a, k) = {Floor(o, keys, k % total)}
    BY <1>7 DEF WeightedRoundRobin
  <2>5. k % total \in Nat
    <3> HIDE DEF total
    <3>1. k % total \in 0..(total - 1)
      BY <1>5, <1>7, ModFacts
    <3>2. QED
      BY <1>5, <3>1
  <2>6. Keyed(o, keys, n)
    BY <1>1, <1>4 DEF Keyed
  <2> HIDE DEF n, keys, total
  <2>7. keys[1] <= k % total
    BY <2>3, <2>5
  <2>8. PICK i \in 1..n : LastBelow(o, keys, n, k % total, i)
    BY <2>2, <2>5, <2>6, <2>7, FloorFacts
  <2>9. Floor(o, keys, k % total) \in Offers(o)
    BY <2>8, OffersFacts DEF LastBelow, n
  <2>10. WeightedRoundRobin(o, a, k) # {} /\ WeightedRoundRobin(o, a, k) \subseteq Offers(o)
    BY <2>4, <2>9
  <2>11. QED
    BY <2>10, EndpointsAnswers
<1>8. QED
  BY <1>6, <1>7
(* A ring without points is one of endpoints of weight zero. *)
LEMMA EmptyRing ==
    ASSUME NEW o \in SampleOrders, NEW a \in SampleAttrs, Points(o, a) = {}
    PROVE  TotalWeight(o, a) = 0
<1> DEFINE n == Len(o)
           s == WeightSums(o, a)
<1>1. n \in Nat /\ DOMAIN o = 1..n
  BY OrderFacts
<1>2. ASSUME NEW i \in 1..n PROVE WeightOf(a, o[i]) = 0
  <2> DEFINE w == WeightOf(a, o[i])
  <2>1. w \in Nat
    BY WeightFacts
  <2>2. {Hash[<<o[i], j>>] : j \in 0..(w * Replicas - 1)} = {}
    <3>1. PointsOf(a, o[i]) \subseteq Points(o, a)
      BY <1>1 DEF Points
    <3>2. PointsOf(a, o[i]) = {}
      BY <3>1
    <3>3. QED
      BY <3>2 DEF PointsOf
  <2> HIDE DEF w
  <2>3. 0 \notin 0..(w * Replicas - 1)
    BY <2>2
  <2>4. SUFFICES ASSUME w # 0 PROVE FALSE
    BY DEF w
  <2>5. w * Replicas >= Replicas /\ Replicas >= 1
    BY <2>1, <2>4, HashAssumption
  <2>6. w * Replicas \in Nat
    BY <2>1, HashAssumption
  <2>7. QED
    BY <2>3, <2>5, <2>6, HashAssumption
<1>3. s[0] = 0 /\ \A j \in 1..n : s[j] = s[j - 1] + WeightOf(a, o[j])
  BY SumEquations
<1>4. s[n] = 0
  <2> HIDE DEF n, s
  <2> SUFFICES ASSUME s[n] # 0 PROVE FALSE
    OBVIOUS
  <2> DEFINE T == {j \in 0..n : s[j] # 0}
  <2>1. PICK j \in T : \A y \in T : j <= y
    <3>1. T \subseteq Nat /\ n \in T
      BY <1>1
    <3> HIDE DEF T
    <3>2. QED
      BY <3>1, LeastNumber
  <2>2. j \in 1..n /\ j - 1 \in 0..n /\ ~(j <= j - 1)
    BY <1>1, <1>3
  <2>3. s[j - 1] = 0
    BY <2>1, <2>2
  <2>4. s[j] = 0
    BY <1>2, <1>3, <2>2, <2>3
  <2>5. QED
    BY <2>4
<1>5. QED
  BY <1>4, StagesFacts

LEMMA HashRingAnswers ==
    ASSUME NEW o \in SampleOrders, NEW a \in SampleAttrs
    PROVE  Answers("hash_ring", o, a, HashRing(o, a))
<1>1. CASE Points(o, a) = {}
  <2>1. HashRing(o, a) = {NoEndpoint} /\ TotalWeight(o, a) = 0
    BY <1>1, EmptyRing DEF HashRing
  <2>2. QED
    BY <2>1, NoneAnswered
<1>2. CASE Points(o, a) # {}
  <2>1. HashRing(o, a) = {NoValue} \cup {RingOwner(o, a, h) : h \in KeyHashes}
    BY <1>2 DEF HashRing
  <2>2. \A h \in KeyHashes : RingOwner(o, a, h) \in Offers(o)
    BY <1>2, OwnerFacts, HashAssumption
  <2>3. NoValue \in Errors /\ NoValue # NoEndpoint
    BY DEF Errors, NoValue, NoEndpoint
  <2>4. HashRing(o, a) # {} /\ HashRing(o, a) \subseteq Offers(o) \cup Errors
    BY <2>1, <2>2, <2>3
  <2>5. NoEndpoint \notin HashRing(o, a)
    BY <2>1, <2>2, <2>3, OffersFacts
  <2>6. QED
    BY <2>4, <2>5 DEF Answers
<1>3. QED
  BY <1>1, <1>2

LEMMA CustomLuaAnswers ==
    ASSUME NEW o \in SampleOrders, NEW a
    PROVE  Answers("custom_lua", o, a, CustomLua(o))
<1> DEFINE n == Len(o)
           Result(idx) == IF idx = -1 THEN NoEndpoint
                          ELSE IF idx \notin 0..(n - 1) THEN OutOfRange ELSE o[idx + 1]
<1>1. n \in Nat
  BY OrderFacts
<1>2. CustomLua(o) = {Result(idx) : idx \in -2..n}
  BY DEF CustomLua
<1>3. ASSUME NEW idx \in -2..n PROVE Result(idx) \in Offers(o) \cup Errors
  <2>1. idx \in 0..(n - 1) => idx + 1 \in 1..n
    BY <1>1
  <2>2. NoEndpoint \in Errors /\ OutOfRange \in Errors
    BY DEF Errors
  <2>3. QED
    BY <2>1, <2>2, OffersFacts
<1>4. -1 \in -2..n
  BY <1>1
<1> HIDE DEF Result
<1>5. CustomLua(o) # {} /\ CustomLua(o) \subseteq Offers(o) \cup Errors
  BY <1>2, <1>3, <1>4
<1>6. QED
  BY <1>5 DEF Answers

(***************************************************************************)
(* PicksOffered for any finite sample of endpoints, any weights, loads and *)
(* hashes: whatever the strategy, Select returns one of the endpoints its  *)
(* last Update was offered, or an error, and that there is none only when  *)
(* none was offered or all weigh nothing (strategy/impl).                  *)
(***************************************************************************)
THEOREM PicksAreOffered == Spec => []PicksOffered
<1>1. ASSUME NEW s \in StrategyNames, NEW o \in SampleOrders, NEW a \in SampleAttrs,
             NEW n \in Nat
      PROVE  Answers(s, o, a, Picks(s, o, a, n))
  <2>1. CASE s = "random"
    <3>1. Picks("random", o, a, n) = Random(o)
      BY Zenon DEF Picks
    <3>2. QED
      BY <2>1, <3>1, RandomAnswers
  <2>2. CASE s = "weighted_random"
    <3>1. Picks("weighted_random", o, a, n) = WeightedRandom(o, a)
      BY Zenon DEF Picks
    <3>2. QED
      BY <2>2, <3>1, WeightedRandomAnswers
  <2>3. CASE s = "round_robin"
    <3>1. Picks("round_robin", o, a, n) = RoundRobin(o, n)
      BY Zenon DEF Picks
    <3>2. QED
      BY <2>3, <3>1, RoundRobinAnswers
  <2>4. CASE s = "weighted_round_robin"
    <3>1. Picks("weighted_round_robin", o, a, n) = WeightedRoundRobin(o, a, n)
      BY Zenon DEF Picks
    <3>2. QED
      BY <2>4, <3>1, WeightedRoundRobinAnswers
  <2>5. CASE s = "least_request"
    <3>1. Picks("least_request", o, a, n) = LeastRequest(o, a)
      BY Zenon DEF Picks
    <3>2. QED
      BY <2>5, <3>1, LeastAnswers DEF LeastRequest
  <2>6. CASE s = "least_cost"
    <3>1. Picks("least_cost", o, a, n) = LeastCost(o, a)
      BY Zenon DEF Picks
    <3>2. QED
      BY <2>6, <3>1, LeastAnswers DEF LeastCost
  <2>7. CASE s = "hash_ring"
    <3>1. Picks("hash_ring", o, a, n) = HashRing(o, a)
      BY Zenon DEF Picks
    <3>2. QED
      BY <2>7, <3>1, HashRingAnswers
  <2>8. CASE s = "custom_lua"
    <3>1. Picks("custom_lua", o, a, n) = CustomLua(o)
      BY Zenon DEF Picks
    <3>2. QED
      BY <2>8, <3>1, CustomLuaAnswers
  <2>9. QED
    BY <2>1, <2>2, <2>3, <2>4, <2>5, <2>6, <2>7, <2>8
    DEF StrategyNames, Counting, Unfiltered
<1>2. 0..(2 ^ Width - 1) \subseteq Nat
  OBVIOUS
<1>3. PicksOffered
  BY <1>1, <1>2 DEF PicksOffered, Answers
<1>4. QED
  BY <1>3, PTL
=============================================================================
