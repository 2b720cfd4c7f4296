---------------------------- MODULE RouterProofs ----------------------------
(***************************************************************************)
(* Proofs about Router, for any requests, routers, endpoints and bound:    *)
(* that no rule is skipped, that Route dereferences nil in the known cases *)
(* only, and that no wake-up of a blocked request is missed.               *)
(***************************************************************************)
EXTENDS Router, TLAPS, FiniteSetTheorems

-----------------------------------------------------------------------------
(***************************************************************************)
(* The inductive invariants.  Nil reaches the reply by an answer that was  *)
(* an error: AnswerInv says where a request may still have one.  A channel *)
(* is made before anyone waits on it, so a bump of version wakes whoever   *)
(* waits: that is NtfInv.                                                  *)
(***************************************************************************)
AnswerInv ==
    \A t \in Requests :
        /\ pc[t] = "catch" => rule[t] <= Len(rules)
        /\ pc[t] = "retry" => solution[t] = "retry"
        /\ pc[t] \in {"check", "update", "bump", "look"} => answer[t].ep # Nil
        /\ pc[t] = "reply" /\ answer[t].ep = Nil => solution[t] \in {"retry", "other"}

NtfInv == \A t \in Requests : ntf[t] <= version

RouteInv == /\ RouteTypeOK /\ version \in Nat
            /\ PriorityKept
            /\ AnswerInv /\ NilOnlyAfterRetries
            /\ NtfInv /\ NoMissedWakeup

-----------------------------------------------------------------------------
(* The state a Route starts in. *)
LEMMA InitRoute == Init => RouteInv
<1> SUFFICES ASSUME Init PROVE RouteInv
  OBVIOUS
<1>1. version \in Nat
  <2>1. IsFiniteSet({p \in Pods : endpointsByPod[p] # {}})
    BY PodsAssumption, FS_Subset
  <2>2. QED
    BY <2>1, FS_CardinalityType DEF Init, ServiceInit
<1>2. RouteTypeOK
  BY DEF Init, RouteTypeOK, Answers, Solutions, Outcomes
<1>3. PriorityKept
  BY DEF Init, PriorityKept
<1>4. AnswerInv /\ NilOnlyAfterRetries /\ NoMissedWakeup
  BY DEF Init, AnswerInv, NilOnlyAfterRetries, NoMissedWakeup
<1>5. NtfInv
  BY <1>1 DEF Init, NtfInv
<1>6. QED
  BY <1>1, <1>2, <1>3, <1>4, <1>5 DEF RouteInv

(* What Select answers is an endpoint or an error (router.go:100-106). *)
LEMMA AnswerType ==
    ASSUME NEW a \in SelectAnswers
    PROVE  a \in Answers /\ (a.err = "ok" => a.ep # Nil)
BY NilAssumption DEF SelectAnswers, Answers, RuleErrors

(* The handler of a rule is one that the file may have. *)
LEMMA HandlerType ==
    ASSUME RouteTypeOK, NEW t \in Requests, rule[t] <= Len(rules), Caught(t)
    PROVE  Handler(t) \in [solution : Solutions, times : Nat]
BY RuleListsAssumption DEF RouteTypeOK, Caught, Handler

(* A step of the service leaves the requests alone.  It moves the version  *)
(* on and clears dirty, or keeps the version, and changes the endpoints    *)
(* only by setting dirty.                                                  *)
LEMMA ServiceShape ==
    ASSUME ServiceNext, UNCHANGED <<rules, routeVars>>
    PROVE  /\ UNCHANGED <<rules, pc, target, rule, answer, solution, left, ntf, late, outcome>>
           /\ \/ version' = version + 1
              \/ version' = version /\ dirty' = TRUE
              \/ UNCHANGED <<version, dirty, endpointsSet>>
<1>1. UNCHANGED <<pc, target, rule, answer, solution, left, ntf, late, outcome>>
  BY DEF routeVars
<1>2. CASE Watch
  BY <1>1, <1>2 DEF Watch, RegisterPod, RemovePod, HangPod
<1>3. CASE WatchCheck
  BY <1>1, <1>3 DEF WatchCheck, catalogVars
<1>4. CASE WatchUpdate
  BY <1>1, <1>4 DEF WatchUpdate, UpdateLocked
<1>5. CASE AttributeChange
  BY <1>1, <1>5 DEF AttributeChange, SetAttributeInSelector
<1>6. QED
  BY <1>1, <1>2, <1>3, <1>4, <1>5 DEF ServiceNext

(* Steps of the service and stuttering keep the invariant: an endpoint     *)
(* that appears leaves the service dirty, and the update() that cleans it  *)
(* closes the channel (service.go:40-53).                                  *)
LEMMA ServiceStep ==
    ASSUME RouteInv,
           \/ ServiceNext /\ UNCHANGED <<rules, routeVars>>
           \/ UNCHANGED vars
    PROVE  RouteInv'
<1>1. /\ UNCHANGED <<rules, pc, target, rule, answer, solution, left, ntf, late, outcome>>
      /\ \/ version' = version + 1
         \/ version' = version /\ dirty' = TRUE
         \/ UNCHANGED <<version, dirty, endpointsSet>>
  BY ServiceShape DEF vars, serviceVars, catalogVars, routeVars
<1>2. RouteTypeOK' /\ version' \in Nat
  BY <1>1 DEF RouteInv, RouteTypeOK
<1>3. PriorityKept' /\ AnswerInv' /\ NilOnlyAfterRetries'
  BY <1>1 DEF RouteInv, PriorityKept, MatchRule, Match, AnswerInv, NilOnlyAfterRetries
<1>4. NtfInv'
  BY <1>1 DEF RouteInv, NtfInv, RouteTypeOK
<1>5. NoMissedWakeup'
  BY <1>1 DEF RouteInv, NtfInv, NoMissedWakeup, RouteTypeOK
<1>6. QED
  BY <1>2, <1>3, <1>4, <1>5 DEF RouteInv

-----------------------------------------------------------------------------
(* What a step of Route does to the fields of its request. *)
LEMMA TypeStep ==
    ASSUME RouteInv, NEW t \in Requests, Route(t)
    PROVE  RouteTypeOK' /\ version' \in Nat
<1> USE DEF RouteInv
<1>1. ASSUME UNCHANGED <<rules, target, rule, answer, solution, left, ntf, late>>,
             NEW from, NEW v \in Outcomes, Return(t, from, v)
      PROVE  RouteTypeOK'
  BY <1>1 DEF RouteTypeOK, Return, Goto
<1>2. CASE SetUpdate(t)
  BY <1>2 DEF SetUpdate, UpdateLocked, Goto, RouteTypeOK
<1>3. CASE \/ NoRuleMatched(t) \/ Uncaught(t) \/ Throw(t) \/ Cancelled(t) \/ BlockTimeout(t)
           \/ Reply(t)
  <2>1. version' \in Nat
    BY <1>3 DEF NoRuleMatched, Uncaught, Throw, Cancelled, BlockTimeout, Reply, serviceVars
  <2>2. RouteTypeOK'
    BY <1>1, <1>3 DEF NoRuleMatched, Uncaught, Throw, Cancelled, BlockTimeout, Reply,
                      Outcomes, Crashes
  <2>3. QED
    BY <2>1, <2>2
<1>4. CASE UnknownSelector(t) \/ Pass(t)
  <2>1. \E i \in Nat \ {0} : rule' = [rule EXCEPT ![t] = i]
    BY <1>4 DEF UnknownSelector, Pass, Matching, RouteTypeOK
  <2>2. rule' \in [Requests -> Nat \ {0}]
    BY <2>1 DEF RouteTypeOK
  <2>3. outcome' \in [Requests -> Outcomes]
    BY <1>4 DEF UnknownSelector, Pass, Return, RouteTypeOK, Outcomes, Crashes
  <2>4. QED
    BY <1>4, <2>2, <2>3 DEF UnknownSelector, Pass, Return, Goto, RouteTypeOK, serviceVars
<1>5. CASE Select(t)
  <2>1. PICK a \in SelectAnswers :
          /\ answer' = [answer EXCEPT ![t] = a]
          /\ Goto(t, "match", IF a.err = "ok" THEN "reply" ELSE "catch")
    BY <1>5 DEF Select
  <2>2. PICK i \in Matching(t) : rule' = [rule EXCEPT ![t] = i]
    BY <1>5 DEF Select
  <2>3. rule' \in [Requests -> Nat \ {0}]
    BY <2>2 DEF Matching, RouteTypeOK
  <2>4. answer' \in [Requests -> Answers]
    BY <2>1, AnswerType DEF RouteTypeOK
  <2>5. QED
    BY <1>5, <2>1, <2>3, <2>4 DEF Select, Goto, RouteTypeOK, serviceVars
<1>6. CASE Enter(t)
  <2>1. Handler(t).times \in Nat /\ Handler(t).solution \in Solutions
    BY <1>6, HandlerType DEF Enter, AnswerInv
  <2>2. /\ solution' \in [Requests -> Solutions \cup {"none"}]
        /\ left' \in [Requests -> Nat]
    BY <1>6, <2>1 DEF Enter, RouteTypeOK
  <2>3. QED
    BY <1>6, <2>2 DEF Enter, Goto, RouteTypeOK, serviceVars
<1>7. CASE Retry(t)
  <2>1. PICK a \in SelectAnswers :
          /\ answer' = [answer EXCEPT ![t] = a]
          /\ Goto(t, "retry", IF a.err = "ok" THEN "reply" ELSE "retry")
    BY <1>7 DEF Retry, SelectAgain
  <2>2. answer' \in [Requests -> Answers]
    BY <2>1, AnswerType DEF RouteTypeOK
  <2>3. QED
    BY <1>7, <2>1, <2>2 DEF Retry, SelectAgain, Goto, RouteTypeOK, serviceVars
<1>8. CASE RetriesUsedUp(t) \/ Wake(t) \/ SetDirtyTest(t) \/ Look(t)
  BY <1>8 DEF RetriesUsedUp, Wake, SetDirtyTest, Look, Goto, RouteTypeOK, serviceVars
<1>9. CASE Turn(t)
  <2>1. late' \in [Requests -> BOOLEAN]
    BY <1>9 DEF Turn, RouteTypeOK
  <2>2. QED
    BY <1>9, <2>1 DEF Turn, Goto, RouteTypeOK, serviceVars
<1>10. QED
  BY <1>2, <1>3, <1>4, <1>5, <1>6, <1>7, <1>8, <1>9 DEF Route

(* A request moves past a rule only where it does not match, or by the     *)
(* handler of the rule it is at saying "pass" (router.go:88-128).          *)
LEMMA PriorityStep ==
    ASSUME RouteInv, NEW t \in Requests, Route(t)
    PROVE  PriorityKept'
<1> USE DEF RouteInv
<1>1. /\ UNCHANGED <<rules, target>>
      /\ \A r, tg : MatchRule(r, tg)' = MatchRule(r, tg)
  BY DEF Route, NoRuleMatched, UnknownSelector, Select, Uncaught, Pass, Throw, Enter, Retry,
         SelectAgain, RetriesUsedUp, Turn, Wake, Cancelled, BlockTimeout, SetDirtyTest, SetUpdate,
         Look, Reply, MatchRule, Match
<1>2. CASE UNCHANGED rule
  BY <1>1, <1>2 DEF PriorityKept, MatchRule, Match
<1>3. CASE \E i \in Matching(t) : First(t, i) /\ rule' = [rule EXCEPT ![t] = i]
  <2>1. PICK i \in Matching(t) : First(t, i) /\ rule' = [rule EXCEPT ![t] = i]
    BY <1>3
  <2>2. \A j \in 1..(i - 1) : j < rule[t] \/ ~MatchRule(rules[j], target[t])
    BY <2>1 DEF First, Matching, RouteTypeOK
  <2>3. ASSUME NEW u \in Requests, NEW j \in 1..(rule'[u] - 1), MatchRule(rules[j], target[u])
        PROVE  j \in 1..(rule[u] - 1)
    BY <2>1, <2>2, <2>3 DEF RouteTypeOK, Matching
  <2>4. QED
    BY <1>1, <2>3 DEF PriorityKept, MatchRule, Match
<1>4. CASE Pass(t)
  <2>1. \E k \in DOMAIN rules[rule[t]].catch : rules[rule[t]].catch[k].solution = "pass"
    BY <1>4 DEF Pass, Caught, Handler
  <2>2. \A u \in Requests : \A j \in 1..(rule'[u] - 1) :
          j \in 1..(rule[u] - 1) \/ (u = t /\ j = rule[t])
    BY <1>4 DEF Pass, RouteTypeOK
  <2>3. QED
    BY <1>1, <2>1, <2>2 DEF PriorityKept, MatchRule, Match
<1>5. UNCHANGED rule \/ Pass(t)
      \/ \E i \in Matching(t) : First(t, i) /\ rule' = [rule EXCEPT ![t] = i]
  BY DEF Route, NoRuleMatched, UnknownSelector, Select, Uncaught, Throw, Enter, Retry,
         SelectAgain, RetriesUsedUp, Turn, Wake, Cancelled, BlockTimeout, SetDirtyTest, SetUpdate,
         Look, Reply
<1>6. QED
  BY <1>2, <1>3, <1>4, <1>5

(* An answer without an endpoint reaches the reply by the retry loop or an *)
(* unknown solution only; a woken request tests for it (router.go:202).    *)
LEMMA NilStep ==
    ASSUME RouteInv, ~Crashed, NEW t \in Requests, Route(t)
    PROVE  AnswerInv' /\ NilOnlyAfterRetries'
<1> USE DEF RouteInv, RouteTypeOK, AnswerInv
<1> SUFFICES /\ AnswerInv'
             /\ outcome'[t] = "nil" => ~rules'[rule'[t]].known \/ solution'[t] \in {"retry", "other"}
             /\ \A u \in Requests \ {t} : outcome'[u] = outcome[u]
  BY DEF Crashed, Crashes, NilOnlyAfterRetries
<1>0. \A u \in Requests : outcome[u] # "nil"
  BY DEF Crashed, Crashes
<1>1. CASE UnknownSelector(t)
  <2>1. PICK i \in Matching(t) : ~rules[i].known /\ rule' = [rule EXCEPT ![t] = i]
    BY <1>1 DEF UnknownSelector
  <2>2. ~rules[rule'[t]].known
    BY <2>1
  <2>3. QED
    BY <1>1, <2>1, <2>2 DEF UnknownSelector, Return, Goto
<1>2. CASE Select(t)
  <2>1. PICK i \in Matching(t) : rule' = [rule EXCEPT ![t] = i]
    BY <1>2 DEF Select
  <2>2. i <= Len(rules)
    BY DEF Matching
  <2>3. PICK a \in SelectAnswers :
          /\ answer' = [answer EXCEPT ![t] = a]
          /\ Goto(t, "match", IF a.err = "ok" THEN "reply" ELSE "catch")
    BY <1>2 DEF Select
  <2>4. a.err = "ok" => a.ep # Nil
    BY AnswerType
  <2>5. QED
    BY <1>0, <1>2, <2>1, <2>2, <2>3, <2>4 DEF Select, Goto
<1>3. CASE Retry(t)
  <2>1. PICK a \in SelectAnswers :
          /\ answer' = [answer EXCEPT ![t] = a]
          /\ Goto(t, "retry", IF a.err = "ok" THEN "reply" ELSE "retry")
    BY <1>3 DEF Retry, SelectAgain
  <2>2. QED
    BY <1>0, <1>3, <2>1 DEF Retry, SelectAgain, Goto
<1>4. CASE Enter(t)
  <2>1. Handler(t).solution \in {"retry", "block", "other"}
    BY <1>4 DEF Enter
  <2>2. QED
    BY <1>0, <1>4, <2>1 DEF Enter, Goto
<1>5. CASE NoRuleMatched(t) \/ Uncaught(t) \/ Cancelled(t) \/ BlockTimeout(t)
  BY <1>0, <1>5 DEF NoRuleMatched, Uncaught, Cancelled, BlockTimeout, Return, Goto
<1>10. CASE Throw(t)
  BY <1>0, <1>10 DEF Throw, Return, Goto
<1>6. CASE Reply(t)
  BY <1>0, <1>6 DEF Reply, Return, Goto
<1>7. CASE RetriesUsedUp(t) \/ Turn(t) \/ Wake(t)
  BY <1>0, <1>7 DEF RetriesUsedUp, Turn, Wake, Goto
<1>8. CASE SetDirtyTest(t) \/ SetUpdate(t) \/ Look(t)
  BY <1>0, <1>8 DEF SetDirtyTest, SetUpdate, Look, Goto
<1>9. CASE Pass(t)
  BY <1>0, <1>9 DEF Pass, Goto
<1>11. QED
  BY <1>1, <1>2, <1>3, <1>4, <1>5, <1>6, <1>7, <1>8, <1>9, <1>10 DEF Route

(* A request that goes to sleep does so on the current channel, and notes  *)
(* whether its endpoint is there; the update() of another request wakes it *)
(* (router.go:195-209, service.go:40-53).                                  *)
LEMMA WakeStep ==
    ASSUME RouteInv, NEW t \in Requests, Route(t)
    PROVE  NtfInv' /\ NoMissedWakeup'
<1> USE DEF RouteInv, RouteTypeOK, NtfInv, NoMissedWakeup, Goto
<1>1. CASE SetUpdate(t)
  <2>1. version' = version + 1 /\ UNCHANGED ntf
    BY <1>1 DEF SetUpdate, UpdateLocked
  <2>2. \A u \in Requests : ntf'[u] \in Nat /\ ntf'[u] <= version' /\ ntf'[u] # version'
    BY <2>1
  <2>3. NtfInv'
    BY <2>2
  <2>4. NoMissedWakeup'
    BY <2>2
  <2>5. QED
    BY <2>3, <2>4
<1>2. CASE Turn(t)
  <2>1. UNCHANGED <<version, dirty, endpointsSet, answer>>
    BY <1>2 DEF Turn, serviceVars, catalogVars
  <2>2. ntf' = [ntf EXCEPT ![t] = version]
    BY <1>2 DEF Turn
  <2>3. late'[t] <=> answer[t].ep \in endpointsSet
    BY <1>2 DEF Turn
  <2>4. \A u \in Requests \ {t} : pc'[u] = pc[u] /\ late'[u] = late[u]
    BY <1>2 DEF Turn
  <2>5. NtfInv'
    BY <2>1, <2>2
  <2>6. NoMissedWakeup'
    BY <2>1, <2>2, <2>3, <2>4
  <2>7. QED
    BY <2>5, <2>6
<1>3. ASSUME UNCHANGED <<serviceVars, ntf, late>>, pc'[t] # "wait",
             \A u \in Requests \ {t} : pc'[u] = pc[u] /\ answer'[u] = answer[u]
      PROVE  NtfInv' /\ NoMissedWakeup'
  BY <1>3 DEF serviceVars, catalogVars
<1>4. CASE Select(t) \/ Retry(t)
  <2>1. /\ UNCHANGED <<serviceVars, ntf, late>>
        /\ \E a \in SelectAnswers : \E to \in {"reply", "catch", "retry"} :
             /\ answer' = [answer EXCEPT ![t] = a]
             /\ pc' = [pc EXCEPT ![t] = to]
    BY <1>4 DEF Select, Retry, SelectAgain
  <2>2. QED
    BY <1>3, <2>1
<1>5. CASE \/ NoRuleMatched(t) \/ UnknownSelector(t) \/ Uncaught(t) \/ Pass(t) \/ Throw(t)
           \/ Enter(t) \/ RetriesUsedUp(t) \/ Wake(t) \/ Cancelled(t) \/ BlockTimeout(t)
           \/ SetDirtyTest(t) \/ Look(t) \/ Reply(t)
  <2>1. /\ UNCHANGED <<serviceVars, ntf, late, answer>>
        /\ \E to \in {"match", "catch", "retry", "turn", "check", "update", "bump", "look",
                       "reply", "done"} :
             pc' = [pc EXCEPT ![t] = to]
    BY <1>5 DEF NoRuleMatched, UnknownSelector, Uncaught, Pass, Throw, Enter, RetriesUsedUp, Wake,
                Cancelled, BlockTimeout, SetDirtyTest, Look, Reply, Return
  <2>2. QED
    BY <1>3, <2>1
<1>6. QED
  BY <1>1, <1>2, <1>4, <1>5 DEF Route

-----------------------------------------------------------------------------
(* The invariant holds of every state of Router. *)
LEMMA RouteAlways == Spec => []RouteInv
<1>1. RouteInv /\ [Next]_vars => RouteInv'
  <2> SUFFICES ASSUME RouteInv, [Next]_vars PROVE RouteInv'
    OBVIOUS
  <2>1. CASE \E t \in Requests : Route(t) /\ ~Crashed
    BY <2>1, TypeStep, PriorityStep, NilStep, WakeStep DEF RouteInv
  <2>2. CASE (ServiceNext /\ UNCHANGED <<rules, routeVars>>) \/ UNCHANGED vars
    BY <2>2, ServiceStep
  <2>3. QED
    BY <2>1, <2>2 DEF Next
<1>2. QED
  BY InitRoute, <1>1, PTL DEF Spec

(***************************************************************************)
(* Whatever the catalogs, handlers and requests, no rule that matches is   *)
(* skipped without a handler that says "pass" (router.go:88-128).          *)
(***************************************************************************)
THEOREM RulesInOrder == Spec => []PriorityKept
<1>1. RouteInv => PriorityKept
  BY DEF RouteInv
<1>2. QED
  BY RouteAlways, <1>1, PTL

(***************************************************************************)
(* Route dereferences nil for a rule with an unknown selector, after its   *)
(* retries failed, or for a solution it does not know: never for a request *)
(* that was blocked (router.go:202).                                       *)
(***************************************************************************)
THEOREM NilCausesKnown == Spec => []NilOnlyAfterRetries
<1>1. RouteInv => NilOnlyAfterRetries
  BY DEF RouteInv
<1>2. QED
  BY RouteAlways, <1>1, PTL

(***************************************************************************)
(* A blocked request misses the return of its endpoint only if the         *)
(* endpoint was back before it evaluated UpdateNTF, for any number of      *)
(* requests and any events (router.go:195-209, service.go:40-53).          *)
(***************************************************************************)
THEOREM WakeupsArrive == Spec => []NoMissedWakeup
<1>1. RouteInv => NoMissedWakeup
  BY DEF RouteInv
<1>2. QED
  BY RouteAlways, <1>1, PTL
=============================================================================
