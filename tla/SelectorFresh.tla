---------------------------- MODULE SelectorFresh ----------------------------
(***************************************************************************)
(* Selector with the history that tells whether a pick was stale.          *)
(***************************************************************************)
EXTENDS Selector

VARIABLES offered,  \* what the service offered since the thread's Select began
          checked   \* whether that Select passed the 50 ms test

historyVars == <<offered, checked>>

FreshInit == /\ Init
             /\ offered = [t \in Threads |-> {}]
             /\ checked = [t \in Threads |-> FALSE]

FreshNext ==
    /\ Next
    /\ offered' = [t \in Threads |->
                     IF pc'[t] = "idle" THEN {}
                     ELSE offered[t] \cup Offered(EndpointsWithAttribute')]
    /\ checked' = [t \in Threads |->
                     IF pc'[t] = "idle" THEN FALSE
                     ELSE IF pc[t] = "throttle" /\ pc'[t] # pc[t] THEN due
                     ELSE checked[t]]

FreshSpec == FreshInit /\ [][FreshNext]_<<vars, historyVars>>

(***************************************************************************)
(* A Select that passed the 50 ms test picks an endpoint the service       *)
(* offered at some moment of that very Select, however the update races    *)
(* with the watch goroutine and with other Selects (selector.go:113-133).  *)
(* One that did not pass it may pick an endpoint gone for up to 50 ms.     *)
(* This covers the panic of the lookup (selector.go:135): behind a filter, *)
(* a pick that has no attributes had them since this Select began, so the  *)
(* panic takes a removal between, and never comes from an old table.       *)
(***************************************************************************)
FreshPick ==
    \A t \in Threads :
        pc[t] \in {"lookup", "panic"} /\ checked[t] => pick[t] \in offered[t]
=============================================================================
