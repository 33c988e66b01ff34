----------------------------- MODULE TaskPromise -----------------------------
(***************************************************************************)
(* What a thread pool promises about its tasks, with no queue and no       *)
(* threads: tasks are numbered in the order in which they are submitted,   *)
(* they are started in that order, and each is started and finished at     *)
(* most once.                                                              *)
(***************************************************************************)
EXTENDS Integers

VARIABLES added, running, done

vars == <<added, running, done>>

Init ==
    /\ added = 0
    /\ running = {}
    /\ done = {}

Submit ==
    /\ added' = added + 1
    /\ UNCHANGED <<running, done>>

Start == \E t \in 1 .. added :
    /\ t \notin running \union done
    /\ 1 .. t - 1 \subseteq running \union done
    /\ running' = running \union {t}
    /\ UNCHANGED <<added, done>>

Finish == \E t \in running :
    /\ running' = running \ {t}
    /\ done' = done \union {t}
    /\ UNCHANGED added

Next == Submit \/ Start \/ Finish

Spec == Init /\ [][Next]_vars
=============================================================================
