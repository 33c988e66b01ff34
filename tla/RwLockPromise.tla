---------------------------- MODULE RwLockPromise ----------------------------
(* What a read-write lock promises: one writer, or any number of readers.  *)
CONSTANT Thread

VARIABLES readers, writers

vars == <<readers, writers>>

Init == readers = {} /\ writers = {}

BeginRead(t) ==
    /\ t \notin readers /\ writers = {}
    /\ readers' = readers \union {t}
    /\ UNCHANGED writers

EndRead(t) ==
    /\ t \in readers
    /\ readers' = readers \ {t}
    /\ UNCHANGED writers

BeginWrite(t) ==
    /\ readers = {} /\ writers = {}
    /\ writers' = {t}
    /\ UNCHANGED readers

EndWrite(t) ==
    /\ t \in writers
    /\ writers' = writers \ {t}
    /\ UNCHANGED readers

Next ==
    \E t \in Thread :
        BeginRead(t) \/ EndRead(t) \/ BeginWrite(t) \/ EndWrite(t)

Spec == Init /\ [][Next]_vars
=============================================================================
