------------------------------- MODULE MCRelay -------------------------------
(* Instances of Relay: two clients that use the same ids, two names the    *)
(* upstream server knows and one the hosts file answers.                   *)
EXTENDS Relay, FiniteSets, TLC

CONSTANTS c1, c2, x, y, blocked

MCSender == [q \in Query |-> IF q = 2 THEN c2 ELSE c1]
MCReqId == [q \in Query |-> IF q = 3 THEN 0 ELSE 1]
MCAsked == [q \in Query |-> IF q = 2 THEN y ELSE IF q = 4 THEN blocked ELSE x]
MCNameOf == [k \in Question |-> k]

(* Bound: how many queries are under way at once. *)
TwoAtOnce == Cardinality({q \in Query : qpc[q] \notin {"idle", "done"}}) <= 2

ResponseSymmetry == Permutations(Response)
=============================================================================
