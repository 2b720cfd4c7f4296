------------------------------ MODULE MCRouter ------------------------------
(***************************************************************************)
(* Three routers: the one of the README's example (pass, block and throw,  *)
(* then a rule without handlers), one that retries, panics and names a     *)
(* solution the code does not know, and one that blocks without an         *)
(* endpoint and passes on to a rule with an unknown selector.              *)
(***************************************************************************)
EXTENDS Router, TLC

CONSTANTS p1, e1

PodOf1 == e1 :> p1

Handle(s) == [solution |-> s, times |-> IF s = "retry" THEN 2 ELSE 0]
NoHeaders == [k \in {} |-> {}]
Echo == [uris |-> {"Echo"}, port |-> 0, headers |-> NoHeaders]
EchoUser == [uris |-> {"Echo"}, port |-> 9090, headers |-> "x-uid" :> {"u1"}]

Rule(m, known, catch) == [matchers |-> {m}, known |-> known, catch |-> catch]

Readme == <<Rule(EchoUser, TRUE, "no_endpoint" :> Handle("pass")
                              @@ "unavailable" :> Handle("block")
                              @@ "default" :> Handle("throw")),
            Rule(Echo, TRUE, NoHeaders)>>
Retrying == <<Rule(Echo, TRUE, "unavailable" :> Handle("retry")
                            @@ "rps_limit" :> Handle("panic")
                            @@ "default" :> Handle("other")),
              Rule(Echo, TRUE, NoHeaders)>>
Blocking == <<Rule(EchoUser, TRUE, "no_endpoint" :> Handle("block")
                                @@ "rps_limit" :> Handle("pass")),
              Rule(EchoUser, FALSE, NoHeaders)>>

MCRuleLists == {Readme, Retrying, Blocking}
MCTargets == {[uri |-> "Echo", port |-> 9090, headers |-> "x-uid" :> "u1"],
              [uri |-> "Echo", port |-> 8080, headers |-> NoHeaders]}
=============================================================================
