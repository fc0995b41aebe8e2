------------------------------ MODULE MCAdmission ------------------------------
(* An instance of Admission: a request slot with two priority classes; the upstream
   slot of the global scope, which a guarded route shares with another, whose own
   slot and circuit are left out.                                            *)
EXTENDS Admission, TLC

CONSTANTS high, low

Limits(request, upstream, route) ==
  ("request" :> request) @@ ("upstream" :> upstream) @@ ("route" :> route)

\* the last configuration has no priority classes, no circuits and more room
AnyConfig ==
  { [enabled |-> TRUE, failure |-> TRUE, priority |-> TRUE, limit |-> Limits(2, 2, 2)],
    [enabled |-> FALSE, failure |-> TRUE, priority |-> TRUE, limit |-> Limits(2, 2, 2)],
    [enabled |-> TRUE, failure |-> FALSE, priority |-> FALSE, limit |-> Limits(3, 3, 3)] }

OneReserved == (high :> 1) @@ (low :> 0)

HalfForLow == (high :> 100) @@ (low :> 50)

TwoEach == [k \in Classes |-> 2]

TwoQueued == Limits(2, 2, 2)

TwoRoutes == {{"upstream", "route"}, {"upstream"}}

AlikeCallers == Permutations(Callers)
================================================================================
