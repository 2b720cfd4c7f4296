------------------------------- MODULE Router -------------------------------
(***************************************************************************)
(* Router.Route (router.go) by concurrent requests: the rules in order of  *)
(* priority, the selector of the first that matches, and the catch handler *)
(* for the error of its Select.  A blocked request waits on the service's  *)
(* UpdateNTF while the watch and attribute goroutines of module Service    *)
(* change it.                                                              *)
(*                                                                         *)
(* update() replaces UpdateNTF and closes the old channel when it bumps    *)
(* version, so a channel is named by the version it was made for, and is   *)
(* closed once version is greater.  Selector.Select is one step here: any  *)
(* answer some strategy, with a table however old, can give.  Its          *)
(* interleavings and its own panics are the subject of module Selector.    *)
(***************************************************************************)
EXTENDS Service, Sequences

CONSTANTS Requests,     \* calls of Route
          Cancellable,  \* those whose target.Timeout is a context's Done()
          Targets,      \* what they ask for: [uri, port, headers]
          RuleLists,    \* the routers' Rules that occur
          Nil

ASSUME NilAssumption == Nil \notin Endpoints
ASSUME CancellableAssumption == Cancellable \subseteq Requests

VARIABLES rules,    \* r.Rules
          pc,       \* where each Route is
          target,
          rule,     \* index of the rule under consideration
          answer,   \* endpoint and error of the last Select
          solution, \* what the handler of its error says, if there is one
          left,     \* Selects the retry loop may still repeat
          ntf,      \* the channel the request waits on
          late,     \* history: the endpoint was back before ntf was read
          outcome

routeVars == <<pc, target, rule, answer, solution, left, ntf, late, outcome>>
vars == <<serviceVars, rules, routeVars>>

RuleErrors == {"no_endpoint", "unavailable", "rps_limit", "default"}
Solutions == {"pass", "throw", "panic", "retry", "block", "other"}
Answers == [ep : Endpoints \cup {Nil}, err : RuleErrors \cup {"ok"}]
Crashes == {"panic", "nil"}

(* Whatever a handler's solution is in the file, it is one of Solutions. *)
ASSUME RuleListsAssumption ==
    \A list \in RuleLists : \A i \in 1..Len(list) : \A k \in DOMAIN list[i].catch :
        list[i].catch[k] \in [solution : Solutions, times : Nat]

Outcomes == {"none", "served", "error", "no_rule", "timeout", "cancelled"} \cup Crashes

-----------------------------------------------------------------------------
(* A matcher: the uris its regex accepts, a port (0: any), and for every   *)
(* header it names the values its regex accepts.                           *)
Match(m, tg) ==
    /\ tg.uri \in m.uris
    /\ m.port # 0 => tg.port = m.port
    /\ \A k \in DOMAIN m.headers : k \in DOMAIN tg.headers /\ tg.headers[k] \in m.headers[k]

MatchRule(r, tg) == \E m \in r.matchers : Match(m, tg)

Matching(t) == {i \in rule[t]..Len(rules) : MatchRule(rules[i], target[t])}
First(t, i) == i \in Matching(t) /\ \A j \in Matching(t) : i <= j

(* The handler of the rule for the error: no fallback to "default". *)
Caught(t) == answer[t].err \in DOMAIN rules[rule[t]].catch
Handler(t) == rules[rule[t]].catch[answer[t].err]

(* What Select may answer: no endpoint, another error, an endpoint that a  *)
(* direct strategy's table lacks or that hangs, or one that is available.  *)
SelectAnswers ==
    {[ep |-> Nil, err |-> k] : k \in {"no_endpoint", "default"}}
    \cup {[ep |-> e, err |-> "unavailable"] : e \in Endpoints}
    \cup {[ep |-> e, err |-> IF inSelector[e] \in {"at", "over"} THEN "rps_limit" ELSE "ok"] :
            e \in {e \in Endpoints : available[e] = "up"}}

-----------------------------------------------------------------------------
Crashed == \E t \in Requests : outcome[t] \in Crashes

Goto(t, from, to) == /\ pc[t] = from
                     /\ pc' = [pc EXCEPT ![t] = to]

Return(t, from, value) == /\ Goto(t, from, "done")
                          /\ outcome' = [outcome EXCEPT ![t] = value]

Init ==
    /\ ServiceInit
    /\ rules \in RuleLists
    /\ pc = [t \in Requests |-> "match"]
    /\ target \in [Requests -> Targets]
    /\ rule = [t \in Requests |-> 1]
    /\ answer = [t \in Requests |-> [ep |-> Nil, err |-> "ok"]]
    /\ solution = [t \in Requests |-> "none"]
    /\ left = [t \in Requests |-> 0]
    /\ ntf = [t \in Requests |-> 0]
    /\ late = [t \in Requests |-> FALSE]
    /\ outcome = [t \in Requests |-> "none"]

NoRuleMatched(t) ==
    /\ Matching(t) = {}
    /\ Return(t, "match", "no_rule")
    /\ UNCHANGED <<serviceVars, rules, target, rule, answer, solution, left, ntf, late>>

(* GetSelector's error is only logged: Select is called on nil. *)
UnknownSelector(t) ==
    /\ \E i \in Matching(t) :
         /\ First(t, i) /\ ~rules[i].known
         /\ rule' = [rule EXCEPT ![t] = i]
    /\ Return(t, "match", "nil")
    /\ UNCHANGED <<serviceVars, rules, target, answer, solution, left, ntf, late>>

Select(t) ==
    /\ \E i \in Matching(t) :
         /\ First(t, i) /\ rules[i].known
         /\ rule' = [rule EXCEPT ![t] = i]
    /\ \E a \in SelectAnswers :
         /\ answer' = [answer EXCEPT ![t] = a]
         /\ Goto(t, "match", IF a.err = "ok" THEN "reply" ELSE "catch")
    /\ solution' = [solution EXCEPT ![t] = "none"]
    /\ UNCHANGED <<serviceVars, rules, target, left, ntf, late, outcome>>

Uncaught(t) ==
    /\ pc[t] = "catch"
    /\ ~Caught(t)
    /\ Return(t, "catch", "error")
    /\ UNCHANGED <<serviceVars, rules, target, rule, answer, solution, left, ntf, late>>

Pass_Uncaught(t) ==
    /\ Goto(t, "catch", "match")
    /\ Caught(t) => Handler(t).solution = "pass"
    /\ rule' = [rule EXCEPT ![t] = @ + 1]
    /\ UNCHANGED <<serviceVars, rules, target, answer, solution, left, ntf, late, outcome>>

Pass(t) ==
    /\ Goto(t, "catch", "match")
    /\ Caught(t) /\ Handler(t).solution = "pass"
    /\ rule' = [rule EXCEPT ![t] = @ + 1]
    /\ UNCHANGED <<serviceVars, rules, target, answer, solution, left, ntf, late, outcome>>

Throw(t) ==
    /\ pc[t] = "catch"
    /\ Caught(t) /\ Handler(t).solution \in {"throw", "panic"}
    /\ Return(t, "catch", IF Handler(t).solution = "panic" THEN "panic" ELSE "error")
    /\ UNCHANGED <<serviceVars, rules, target, rule, answer, solution, left, ntf, late>>

(* The other solutions; one the switch does not know goes on to the reply. *)
Enter(t) ==
    /\ pc[t] = "catch"
    /\ Caught(t) /\ Handler(t).solution \in {"retry", "block", "other"}
    /\ Goto(t, "catch", CASE Handler(t).solution = "retry" -> "retry"
                          [] Handler(t).solution = "block" -> "turn"
                          [] OTHER -> "reply")
    /\ solution' = [solution EXCEPT ![t] = Handler(t).solution]
    /\ left' = [left EXCEPT ![t] = Handler(t).times]
    /\ UNCHANGED <<serviceVars, rules, target, rule, answer, ntf, late, outcome>>

SelectAgain(t) ==
    /\ left' = [left EXCEPT ![t] = @ - 1]
    /\ \E a \in SelectAnswers :
         /\ answer' = [answer EXCEPT ![t] = a]
         /\ Goto(t, "retry", IF a.err = "ok" THEN "reply" ELSE "retry")
    /\ UNCHANGED <<serviceVars, rules, target, rule, solution, ntf, late, outcome>>

Retry(t) == left[t] > 0 /\ SelectAgain(t)

(* The loop ends as if its last Select had succeeded. *)
RetriesUsedUp(t) ==
    /\ left[t] = 0
    /\ Goto(t, "retry", "reply")
    /\ UNCHANGED <<serviceVars, rules, target, rule, answer, solution, left, ntf, late, outcome>>

(* A turn of the blocked request's loop evaluates service.UpdateNTF ... *)
Turn(t) ==
    /\ Goto(t, "turn", "wait")
    /\ ntf' = [ntf EXCEPT ![t] = version]
    /\ late' = [late EXCEPT ![t] = answer[t].ep \in endpointsSet]
    /\ UNCHANGED <<serviceVars, rules, target, rule, answer, solution, left, outcome>>

(* ... and waits for it, for the context, and for the handler's timeout. *)
Wake_NoNilTest(t) ==
    /\ version > ntf[t]
    /\ Goto(t, "wait", IF answer[t].ep = Nil THEN "reply" ELSE "check")
    /\ UNCHANGED <<serviceVars, rules, target, rule, answer, solution, left, ntf, late, outcome>>

Wake(t) ==
    /\ version > ntf[t]
    /\ Goto(t, "wait", IF answer[t].ep = Nil THEN "turn" ELSE "check")
    /\ UNCHANGED <<serviceVars, rules, target, rule, answer, solution, left, ntf, late, outcome>>

Cancelled(t) ==
    /\ t \in Cancellable
    /\ Return(t, "wait", "cancelled")
    /\ UNCHANGED <<serviceVars, rules, target, rule, answer, solution, left, ntf, late>>

BlockTimeout_ContextOnly(t) ==
    /\ t \in Cancellable
    /\ Return(t, "wait", "timeout")
    /\ UNCHANGED <<serviceVars, rules, target, rule, answer, solution, left, ntf, late>>

BlockTimeout(t) ==
    /\ Return(t, "wait", "timeout")
    /\ UNCHANGED <<serviceVars, rules, target, rule, answer, solution, left, ntf, late>>

(* Service.EndpointsSet(): two unlocked tests of dirty, update(), the read. *)
SetDirtyTest(t) ==
    /\ \/ Goto(t, "check", IF dirty THEN "update" ELSE "look")
       \/ Goto(t, "update", IF dirty THEN "bump" ELSE "look")
    /\ UNCHANGED <<serviceVars, rules, target, rule, answer, solution, left, ntf, late, outcome>>

SetUpdate(t) ==
    /\ Goto(t, "bump", "look")
    /\ UpdateLocked
    /\ UNCHANGED <<watcher, events, rules, target, rule, answer, solution, left, ntf, late, outcome>>

Look(t) ==
    /\ Goto(t, "look", IF answer[t].ep \in endpointsSet THEN "reply" ELSE "turn")
    /\ UNCHANGED <<serviceVars, rules, target, rule, answer, solution, left, ntf, late, outcome>>

(* The reply reads the endpoint without a test for nil. *)
Reply(t) ==
    /\ Return(t, "reply", IF answer[t].ep = Nil THEN "nil" ELSE "served")
    /\ UNCHANGED <<serviceVars, rules, target, rule, answer, solution, left, ntf, late>>

Route(t) == \/ NoRuleMatched(t) \/ UnknownSelector(t) \/ Select(t)
            \/ Uncaught(t) \/ Pass(t) \/ Throw(t) \/ Enter(t)
            \/ Retry(t) \/ RetriesUsedUp(t)
            \/ Turn(t) \/ Wake(t) \/ Cancelled(t) \/ BlockTimeout(t)
            \/ SetDirtyTest(t) \/ SetUpdate(t) \/ Look(t) \/ Reply(t)

(* A panic ends the process, the goroutines of the service with it. *)
Next == /\ ~Crashed
        /\ \/ ServiceNext /\ UNCHANGED <<rules, routeVars>>
           \/ \E t \in Requests : Route(t)

Spec == Init /\ [][Next]_vars

(* Goroutines are scheduled and timers fire. *)
FairSpec == Spec /\ \A t \in Requests : WF_vars(~Crashed /\ Route(t))

-----------------------------------------------------------------------------
RouteTypeOK ==
    /\ rules \in RuleLists
    /\ pc \in [Requests -> {"match", "catch", "retry", "turn", "wait", "check", "update",
                            "bump", "look", "reply", "done"}]
    /\ target \in [Requests -> Targets]
    /\ rule \in [Requests -> Nat \ {0}]
    /\ answer \in [Requests -> Answers]
    /\ solution \in [Requests -> Solutions \cup {"none"}]
    /\ left \in [Requests -> Nat]
    /\ ntf \in [Requests -> Nat]
    /\ late \in [Requests -> BOOLEAN]
    /\ outcome \in [Requests -> Outcomes]

TypeOK == ServiceTypeOK /\ RouteTypeOK

(***************************************************************************)
(* A request that reached a rule, or the end of the rules, was let past    *)
(* every matching rule of higher priority by a handler that says "pass":   *)
(* no error, retry or wake-up moves it on (router.go:88-128).              *)
(***************************************************************************)
PriorityKept ==
    \A t \in Requests : \A i \in 1..(rule[t] - 1) :
        MatchRule(rules[i], target[t]) =>
            \E k \in DOMAIN rules[i].catch : rules[i].catch[k].solution = "pass"

(***************************************************************************)
(* Route dereferences a nil endpoint only after its retries failed or for  *)
(* a solution it does not know, and a nil selector only for a rule that    *)
(* names an unknown one: a blocked request without an endpoint is never    *)
(* woken into the reply (router.go:202).                                   *)
(***************************************************************************)
NilOnlyAfterRetries ==
    \A t \in Requests : outcome[t] = "nil" =>
        ~rules[rule[t]].known \/ solution[t] \in {"retry", "other"}

(***************************************************************************)
(* A blocked request sleeps through the return of its endpoint only if the *)
(* endpoint was back before the request evaluated UpdateNTF: while it      *)
(* waits on the current channel, an endpoint registered since then has     *)
(* left the service dirty, so that an update() is due (router.go:195-209,  *)
(* service.go:40-53).                                                      *)
(***************************************************************************)
NoMissedWakeup ==
    \A t \in Requests :
        pc[t] = "wait" /\ ntf[t] = version /\ answer[t].ep \in endpointsSet => late[t] \/ dirty

(***************************************************************************)
(* Every Route ends, or the process does: whatever the service does, the   *)
(* handler's timeout frees a blocked request, with or without a context.   *)
(***************************************************************************)
RouteEnds == \A t \in Requests : <>(pc[t] = "done" \/ Crashed)
=============================================================================
