------------------------------ MODULE TtlCache ------------------------------
(***************************************************************************)
(* What the cache promises, with no lists, nodes or hosts file: for each   *)
(* type and name a sequence of entries in the order in which they came.    *)
(* Reading may drop those of which less than the grace is left, and        *)
(* nothing else does.                                                      *)
(***************************************************************************)
EXTENDS Integers, Sequences

CONSTANTS Index, Grace

VARIABLES now, entries

vars == <<now, entries>>

Init ==
    /\ now \in Nat
    /\ entries = [i \in Index |-> <<>>]

(* The ttl, less ten seconds (cache.h:9), is over.  Entries with no ttl    *)
(* are from the hosts file, and stay.                                      *)
Due(e) == e.ttl # 0 /\ now - e.record_time > e.ttl - Grace

(* A batch of entries: what each list gains.                               *)
Extends(s, t) == Len(s) <= Len(t) /\ \A k \in 1 .. Len(s) : t[k] = s[k]

Insert ==
    /\ \A i \in Index : Extends(entries[i], entries'[i])
    /\ DOMAIN entries' = Index
    /\ UNCHANGED now

(* place[k] is where the k-th of the entries that stay was.                *)
Keeps(place, s) ==
    /\ \A j, k \in DOMAIN place : j < k => place[j] < place[k]
    /\ \A p \in 1 .. Len(s) : Due(s[p]) \/ \E k \in DOMAIN place : place[k] = p

Read(i) ==
    LET s == entries[i]
    IN  /\ \E place \in [1 .. Len(entries'[i]) -> 1 .. Len(s)] :
              /\ Keeps(place, s)
              /\ entries' = [entries EXCEPT ![i] = [k \in DOMAIN place |-> s[place[k]]]]
        /\ UNCHANGED now

Tick ==
    /\ now' = now + 1
    /\ UNCHANGED entries

Next == Insert \/ (\E i \in Index : Read(i)) \/ Tick

Spec == Init /\ [][Next]_vars
=============================================================================
