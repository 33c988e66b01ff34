------------------------------- MODULE RwLock -------------------------------
(***************************************************************************)
(* The read-write lock of rwlock.c, built from a mutex, two condition      *)
(* variables and two counters; cache.c takes it around every insertion and *)
(* every lookup.  The counters are only touched with the mutex held, and a *)
(* function holds it from its first line to its last except inside         *)
(* pthread_cond_wait: each stretch between two waits is one step.          *)
(***************************************************************************)
EXTENDS Integers, FiniteSets

CONSTANT Thread

ASSUME ThreadAssumption == IsFiniteSet(Thread)

VARIABLES
    reader_count,
    writer_count,
    read_cond,      \* the threads blocked in pthread_cond_wait on read_cond
    write_cond,     \* the threads blocked in pthread_cond_wait on write_cond
    pc              \* what each thread does with the lock

vars == <<reader_count, writer_count, read_cond, write_cond, pc>>

(* "read_lock" and "write_lock": inside the locking function, about to     *)
(* test the counters unless blocked.                                       *)
ThreadPc == {"idle", "read_lock", "reading", "write_lock", "writing"}

Readers == {t \in Thread : pc[t] = "reading"}
Writers == {t \in Thread : pc[t] = "writing"}
Blocked == read_cond \union write_cond

TypeOK ==
    /\ reader_count \in Nat
    /\ writer_count \in Nat
    /\ read_cond \subseteq Thread
    /\ write_cond \subseteq Thread
    /\ pc \in [Thread -> ThreadPc]

(* rwlock_ctor.                                                            *)
Init ==
    /\ reader_count = 0
    /\ writer_count = 0
    /\ read_cond = {}
    /\ write_cond = {}
    /\ pc = [t \in Thread |-> "idle"]

(* pthread_cond_signal(write_cond): one blocked thread goes on, if any is. *)
SignalWriter ==
    \/ /\ write_cond = {}
       /\ write_cond' = {}
    \/ \E t \in write_cond : write_cond' = write_cond \ {t}

(* The thread calls rwlock_read_lock or rwlock_write_lock.                 *)
Call(t) ==
    /\ pc[t] = "idle"
    /\ \E f \in {"read_lock", "write_lock"} : pc' = [pc EXCEPT ![t] = f]
    /\ UNCHANGED <<reader_count, writer_count, read_cond, write_cond>>

WaitToRead(t) ==
    /\ pc[t] = "read_lock" /\ t \notin read_cond
    /\ writer_count > 0
    /\ read_cond' = read_cond \union {t}
    /\ UNCHANGED <<reader_count, writer_count, write_cond, pc>>

(* A fault: the reader is not counted.                                     *)
ReadLockUncounted(t) ==
    /\ pc[t] = "read_lock" /\ t \notin read_cond
    /\ ~ (writer_count > 0)
    /\ pc' = [pc EXCEPT ![t] = "reading"]
    /\ UNCHANGED <<reader_count, writer_count, read_cond, write_cond>>

(* A fault: a woken reader does not test for writers.                      *)
ReadLockPastWriters(t) ==
    /\ pc[t] = "read_lock" /\ t \notin read_cond
    /\ reader_count' = reader_count + 1
    /\ pc' = [pc EXCEPT ![t] = "reading"]
    /\ UNCHANGED <<writer_count, read_cond, write_cond>>

ReadLock(t) ==
    /\ pc[t] = "read_lock" /\ t \notin read_cond
    /\ ~ (writer_count > 0)
    /\ reader_count' = reader_count + 1
    /\ pc' = [pc EXCEPT ![t] = "reading"]
    /\ UNCHANGED <<writer_count, read_cond, write_cond>>

(* A fault: the last reader signals no writer.                             *)
ReadUnlockSilent(t) ==
    /\ pc[t] = "reading"
    /\ reader_count' = reader_count - 1
    /\ pc' = [pc EXCEPT ![t] = "idle"]
    /\ UNCHANGED <<writer_count, read_cond, write_cond>>

ReadUnlock(t) ==
    /\ pc[t] = "reading"
    /\ reader_count' = reader_count - 1
    /\ IF reader_count' = 0 THEN SignalWriter ELSE UNCHANGED write_cond
    /\ pc' = [pc EXCEPT ![t] = "idle"]
    /\ UNCHANGED <<writer_count, read_cond>>

WaitToWrite(t) ==
    /\ pc[t] = "write_lock" /\ t \notin write_cond
    /\ writer_count > 0 \/ reader_count > 0
    /\ write_cond' = write_cond \union {t}
    /\ UNCHANGED <<reader_count, writer_count, read_cond, pc>>

(* A fault: the writer does not test for readers.                          *)
WriteLockPastReaders(t) ==
    /\ pc[t] = "write_lock" /\ t \notin write_cond
    /\ ~ (writer_count > 0)
    /\ writer_count' = writer_count + 1
    /\ pc' = [pc EXCEPT ![t] = "writing"]
    /\ UNCHANGED <<reader_count, read_cond, write_cond>>

WriteLock(t) ==
    /\ pc[t] = "write_lock" /\ t \notin write_cond
    /\ ~ (writer_count > 0 \/ reader_count > 0)
    /\ writer_count' = writer_count + 1
    /\ pc' = [pc EXCEPT ![t] = "writing"]
    /\ UNCHANGED <<reader_count, read_cond, write_cond>>

(* A fault: the writer stays counted.                                      *)
WriteUnlockCounted(t) ==
    /\ pc[t] = "writing"
    /\ SignalWriter /\ read_cond' = {}
    /\ pc' = [pc EXCEPT ![t] = "idle"]
    /\ UNCHANGED <<reader_count, writer_count>>

(* A fault: no writer is signalled.                                        *)
WriteUnlockSilent(t) ==
    /\ pc[t] = "writing"
    /\ writer_count' = writer_count - 1
    /\ read_cond' = IF writer_count' = 0 THEN {} ELSE read_cond
    /\ pc' = [pc EXCEPT ![t] = "idle"]
    /\ UNCHANGED <<reader_count, write_cond>>

(* A fault: the readers are not told.                                      *)
WriteUnlockNoBroadcast(t) ==
    /\ pc[t] = "writing"
    /\ writer_count' = writer_count - 1
    /\ IF writer_count' = 0 THEN SignalWriter ELSE UNCHANGED write_cond
    /\ pc' = [pc EXCEPT ![t] = "idle"]
    /\ UNCHANGED <<reader_count, read_cond>>

(* The signal and the broadcast are given when no writer is left.          *)
WriteUnlock(t) ==
    /\ pc[t] = "writing"
    /\ writer_count' = writer_count - 1
    /\ IF writer_count' = 0
         THEN SignalWriter /\ read_cond' = {}
         ELSE UNCHANGED <<read_cond, write_cond>>
    /\ pc' = [pc EXCEPT ![t] = "idle"]
    /\ UNCHANGED reader_count

(* pthread_cond_wait may return without a signal.                          *)
SpuriousWakeup(t) ==
    /\ t \in Blocked
    /\ read_cond' = read_cond \ {t}
    /\ write_cond' = write_cond \ {t}
    /\ UNCHANGED <<reader_count, writer_count, pc>>

(* What a thread inside the lock's functions, or holding the lock, does.   *)
Step(t) ==
    \/ WaitToRead(t)
    \/ ReadLock(t)
    \/ ReadUnlock(t)
    \/ WaitToWrite(t)
    \/ WriteLock(t)
    \/ WriteUnlock(t)

Next == \E t \in Thread : Call(t) \/ Step(t) \/ SpuriousWakeup(t)

Spec == Init /\ [][Next]_vars

(* A thread that can run is run: one inside the lock's functions goes on,  *)
(* one that holds the lock releases it (cache.c holds it over code that    *)
(* does not block).  No thread has to call again, none wakes by accident.  *)
Fairness == \A t \in Thread : WF_vars(Step(t))

FairSpec == Spec /\ Fairness

-----------------------------------------------------------------------------
(* A thread writes the cache alone (cache.c:36-47), whichever calls wait   *)
(* and whichever waits return early.                                       *)
Exclusion ==
    \A t \in Writers : Readers = {} /\ Writers = {t}

(* The counters count the holders, so that none is left behind when the    *)
(* last holder leaves (rwlock.c:22, 30, 42, 50).                           *)
CountersExact ==
    /\ reader_count = Cardinality(Readers)
    /\ writer_count = Cardinality(Writers)

(* No wake-up is lost: a blocked reader has a writer to wait for, and when *)
(* the lock is free a blocked writer has another writer awake before it,   *)
(* whose unlocking will signal in turn (rwlock.c:32, 52-53).               *)
NoLostWakeup ==
    /\ read_cond # {} => Writers # {}
    /\ write_cond # {} =>
          \/ Readers \union Writers # {}
          \/ \E t \in Thread : pc[t] = "write_lock" /\ t \notin write_cond

Promise == INSTANCE RwLockPromise WITH readers <- Readers, writers <- Writers

(* rwlock.c implements a read-write lock.                                  *)
KeepsPromise == Promise!Spec

(* As long as threads want the lock, threads get it: the waiting of one    *)
(* never becomes the waiting of all.                                       *)
LockMoves ==
    \A t \in Thread : pc[t] \in {"read_lock", "write_lock"}
                        ~> (Readers \union Writers # {})

(* A reader that asks is not passed over for ever while no more writers    *)
(* come: once the writers are gone it gets the lock.                       *)
ReadersGetIn ==
    <>[](\A t \in Thread : pc[t] \notin {"write_lock", "writing"}) =>
        \A t \in Thread : pc[t] = "read_lock" ~> pc[t] = "reading"

(* Writers first: no reader gets the lock while a writer is blocked.       *)
WritersFirst ==
    [][write_cond # {} => Readers' \subseteq Readers]_vars
=============================================================================
