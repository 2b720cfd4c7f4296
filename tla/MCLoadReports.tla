--------------------------- MODULE MCLoadReports ---------------------------
(***************************************************************************)
(* Two endpoints, one with its server, and two client goroutines.  The     *)
(* strategies are checked over three endpoints with counters of two bits,  *)
(* past which their weights can sum up; every other point of the third     *)
(* collides with one of the first.                                         *)
(***************************************************************************)
EXTENDS LoadReports

CONSTANTS e1, e2, e3

MCHash ==
    [x \in Sample \X (0..10) |->
       3 * ((7 * x[2] + 3) % 11) + (CASE x[1] = e1 -> 0 [] x[1] = e2 -> 1
                                      [] OTHER -> 2 * (x[2] % 2))]
=============================================================================
