---------------------------- MODULE RwLockProofs ----------------------------
(* Proofs about RwLock, for any finite set of threads.                     *)
EXTENDS RwLock, FiniteSetTheorems, TLAPS

(* The lock's shape: who holds it excludes others, the counters say so, a  *)
(* blocked thread is inside the function that blocks it.                   *)
BlockedInside ==
    /\ \A t \in read_cond : pc[t] = "read_lock"
    /\ \A t \in write_cond : pc[t] = "write_lock"

IInv ==
    /\ TypeOK
    /\ CountersExact
    /\ Exclusion
    /\ BlockedInside
    /\ NoLostWakeup

-----------------------------------------------------------------------------
(* The holders are finitely many, so their number is a number.             *)
LEMMA HoldersFinite ==
    /\ IsFiniteSet(Readers) /\ Cardinality(Readers) \in Nat
    /\ IsFiniteSet(Writers) /\ Cardinality(Writers) \in Nat
  BY ThreadAssumption, FS_Subset, FS_CardinalityType DEF Readers, Writers

(* The tests of the counters test for holders.                             *)
LEMMA CountersTest ==
    ASSUME CountersExact
    PROVE  /\ writer_count > 0 <=> Writers # {}
           /\ reader_count > 0 <=> Readers # {}
           /\ reader_count = 0 <=> Readers = {}
           /\ writer_count = 0 <=> Writers = {}
  <1>1. /\ Cardinality(Readers) = 0 <=> Readers = {}
        /\ Cardinality(Writers) = 0 <=> Writers = {}
    BY HoldersFinite, FS_EmptySet
  <1> QED
    BY <1>1, HoldersFinite DEF CountersExact

(* What a step does to the holders.                                        *)
LEMMA HoldersKept ==
    ASSUME TypeOK, NEW t \in Thread,
           pc' = pc \/ pc' = [pc EXCEPT ![t] = "read_lock"]
                    \/ pc' = [pc EXCEPT ![t] = "write_lock"],
           pc[t] = "idle" \/ pc' = pc
    PROVE  Readers' = Readers /\ Writers' = Writers
  BY DEF TypeOK, Readers, Writers

LEMMA ReaderEnters ==
    ASSUME TypeOK, NEW t \in Thread, ReadLock(t)
    PROVE  /\ t \notin Readers
           /\ Readers' = Readers \union {t}
           /\ Writers' = Writers
  BY DEF TypeOK, Readers, Writers, ReadLock

LEMMA ReaderLeaves ==
    ASSUME TypeOK, NEW t \in Thread, ReadUnlock(t)
    PROVE  /\ t \in Readers
           /\ Readers' = Readers \ {t}
           /\ Writers' = Writers
  BY DEF TypeOK, Readers, Writers, ReadUnlock

LEMMA WriterEnters ==
    ASSUME TypeOK, NEW t \in Thread, WriteLock(t)
    PROVE  /\ t \notin Writers
           /\ Writers' = Writers \union {t}
           /\ Readers' = Readers
  BY DEF TypeOK, Readers, Writers, WriteLock

LEMMA WriterLeaves ==
    ASSUME TypeOK, NEW t \in Thread, WriteUnlock(t)
    PROVE  /\ t \in Writers
           /\ Writers' = Writers \ {t}
           /\ Readers' = Readers
  BY DEF TypeOK, Readers, Writers, WriteUnlock

(* Every step changes the holders as an action of the abstract lock does,  *)
(* or not at all.                                                          *)
LEMMA HoldersStep ==
    ASSUME TypeOK, CountersExact, [Next]_vars
    PROVE  \/ Readers' = Readers /\ Writers' = Writers
           \/ \E t \in Thread :
                 \/ /\ ReadLock(t) /\ Writers = {} /\ t \notin Readers
                    /\ Readers' = Readers \union {t} /\ Writers' = Writers
                 \/ /\ ReadUnlock(t) /\ t \in Readers
                    /\ Readers' = Readers \ {t} /\ Writers' = Writers
                 \/ /\ WriteLock(t) /\ Readers = {} /\ Writers = {}
                    /\ Writers' = {t} /\ Readers' = Readers
                 \/ /\ WriteUnlock(t) /\ t \in Writers
                    /\ Writers' = Writers \ {t} /\ Readers' = Readers
  <1>1. CASE UNCHANGED vars
    BY <1>1 DEF vars, Readers, Writers
  <1>2. ASSUME NEW t \in Thread, Call(t) \/ SpuriousWakeup(t)
                                  \/ WaitToRead(t) \/ WaitToWrite(t)
        PROVE  Readers' = Readers /\ Writers' = Writers
    BY <1>2, HoldersKept
       DEF Call, SpuriousWakeup, WaitToRead, WaitToWrite
  <1>3. ASSUME NEW t \in Thread, ReadLock(t)
        PROVE  Writers = {}
    BY <1>3, CountersTest DEF ReadLock
  <1>4. ASSUME NEW t \in Thread, WriteLock(t)
        PROVE  Readers = {} /\ Writers = {}
    BY <1>4, CountersTest DEF WriteLock
  <1> QED
    BY <1>1, <1>2, <1>3, <1>4, ReaderEnters, ReaderLeaves, WriterEnters,
       WriterLeaves DEF Next, Step

-----------------------------------------------------------------------------
(* The invariant is kept, part by part.                                    *)

LEMMA ExclusionKept ==
    ASSUME IInv, [Next]_vars
    PROVE  Exclusion'
  BY HoldersStep DEF IInv, Exclusion

LEMMA CountersKept ==
    ASSUME IInv, [Next]_vars
    PROVE  CountersExact'
  <1>1. CASE UNCHANGED vars
    BY <1>1 DEF vars, IInv, CountersExact, Readers, Writers
  <1>2. ASSUME NEW t \in Thread, Call(t) \/ SpuriousWakeup(t)
                                  \/ WaitToRead(t) \/ WaitToWrite(t)
        PROVE  CountersExact'
    <2>1. Readers' = Readers /\ Writers' = Writers
      BY <1>2, HoldersKept
         DEF IInv, Call, SpuriousWakeup, WaitToRead, WaitToWrite
    <2>2. reader_count' = reader_count /\ writer_count' = writer_count
      BY <1>2 DEF Call, SpuriousWakeup, WaitToRead, WaitToWrite
    <2> QED
      BY <2>1, <2>2 DEF IInv, CountersExact
  <1>3. ASSUME NEW t \in Thread, ReadLock(t)
        PROVE  CountersExact'
    <2>1. Cardinality(Readers') = Cardinality(Readers) + 1
      BY <1>3, ReaderEnters, HoldersFinite, FS_AddElement DEF IInv
    <2> QED
      BY <1>3, <2>1, ReaderEnters DEF IInv, CountersExact, ReadLock
  <1>4. ASSUME NEW t \in Thread, ReadUnlock(t)
        PROVE  CountersExact'
    <2>1. Cardinality(Readers') = Cardinality(Readers) - 1
      BY <1>4, ReaderLeaves, HoldersFinite, FS_RemoveElement DEF IInv
    <2> QED
      BY <1>4, <2>1, ReaderLeaves DEF IInv, CountersExact, ReadUnlock
  <1>5. ASSUME NEW t \in Thread, WriteLock(t)
        PROVE  CountersExact'
    <2>1. Cardinality(Writers') = Cardinality(Writers) + 1
      BY <1>5, WriterEnters, HoldersFinite, FS_AddElement DEF IInv
    <2> QED
      BY <1>5, <2>1, WriterEnters DEF IInv, CountersExact, WriteLock
  <1>6. ASSUME NEW t \in Thread, WriteUnlock(t)
        PROVE  CountersExact'
    <2>1. Cardinality(Writers') = Cardinality(Writers) - 1
      BY <1>6, WriterLeaves, HoldersFinite, FS_RemoveElement DEF IInv
    <2> QED
      BY <1>6, <2>1, WriterLeaves DEF IInv, CountersExact, WriteUnlock
  <1> QED
    BY <1>1, <1>2, <1>3, <1>4, <1>5, <1>6 DEF Next, Step

LEMMA BlockedInsideKept ==
    ASSUME IInv, [Next]_vars
    PROVE  BlockedInside'
  <1> USE DEF IInv, TypeOK, BlockedInside
  <1>1. CASE UNCHANGED vars
    BY <1>1 DEF vars
  <1>2. ASSUME NEW t \in Thread, Call(t)
        PROVE  BlockedInside'
    BY <1>2 DEF Call
  <1>3. ASSUME NEW t \in Thread, WaitToRead(t) \/ WaitToWrite(t) \/ SpuriousWakeup(t)
        PROVE  BlockedInside'
    BY <1>3 DEF WaitToRead, WaitToWrite, SpuriousWakeup
  <1>4. ASSUME NEW t \in Thread, ReadLock(t) \/ WriteLock(t)
        PROVE  BlockedInside'
    BY <1>4 DEF ReadLock, WriteLock
  <1>5. ASSUME NEW t \in Thread, ReadUnlock(t)
        PROVE  BlockedInside'
    BY <1>5 DEF ReadUnlock, SignalWriter
  <1>6. ASSUME NEW t \in Thread, WriteUnlock(t)
        PROVE  BlockedInside'
    BY <1>6 DEF WriteUnlock, SignalWriter
  <1> QED
    BY <1>1, <1>2, <1>3, <1>4, <1>5, <1>6 DEF Next, Step

LEMMA TypeKept ==
    ASSUME IInv, [Next]_vars
    PROVE  TypeOK'
  <1>1. reader_count' \in Nat /\ writer_count' \in Nat
    <2>1. /\ Readers' \subseteq Thread /\ Writers' \subseteq Thread
      BY DEF Readers, Writers
    <2>2. Cardinality(Readers') \in Nat /\ Cardinality(Writers') \in Nat
      BY <2>1, ThreadAssumption, FS_Subset, FS_CardinalityType
    <2> QED
      BY <2>2, CountersKept DEF CountersExact
  <1>2. pc' \in [Thread -> ThreadPc]
    BY DEF IInv, TypeOK, ThreadPc, vars, Next, Step, Call, WaitToRead, ReadLock,
           ReadUnlock, WaitToWrite, WriteLock, WriteUnlock, SpuriousWakeup
  <1>3. read_cond' \subseteq Thread
    BY DEF IInv, TypeOK, vars, Next, Step, Call, WaitToRead, ReadLock,
           ReadUnlock, WaitToWrite, WriteLock, WriteUnlock, SpuriousWakeup
  <1>4. write_cond' \subseteq Thread
    BY DEF IInv, TypeOK, vars, Next, Step, Call, WaitToRead, ReadLock, SignalWriter,
           ReadUnlock, WaitToWrite, WriteLock, WriteUnlock, SpuriousWakeup
  <1> QED
    BY <1>1, <1>2, <1>3, <1>4 DEF TypeOK

(* A thread in rwlock_write_lock that is not blocked.                      *)
Awake(t) == pc[t] = "write_lock" /\ t \notin write_cond

LEMMA NoLostWakeupKept ==
    ASSUME IInv, [Next]_vars
    PROVE  NoLostWakeup'
  <1> USE DEF IInv, NoLostWakeup
  <1>1. CASE UNCHANGED vars
    BY <1>1 DEF vars, Readers, Writers
  <1>2. ASSUME NEW t \in Thread, Call(t)
        PROVE  NoLostWakeup'
    <2>1. Readers' = Readers /\ Writers' = Writers
      BY <1>2, HoldersKept DEF Call
    <2>2. \A u \in Thread : Awake(u) => Awake(u)'
      BY <1>2 DEF Awake, Call, TypeOK
    <2> QED
      BY <1>2, <2>1, <2>2 DEF Call, Awake
  <1>3. ASSUME NEW t \in Thread, WaitToRead(t)
        PROVE  NoLostWakeup'
    <2>1. Readers' = Readers /\ Writers' = Writers /\ Writers # {}
      BY <1>3, CountersTest, HoldersKept DEF WaitToRead
    <2> QED
      BY <2>1
  <1>4. ASSUME NEW t \in Thread, WaitToWrite(t)
        PROVE  NoLostWakeup'
    <2>1. /\ Readers' = Readers /\ Writers' = Writers
          /\ Readers \union Writers # {}
      BY <1>4, CountersTest, HoldersKept DEF WaitToWrite
    <2> QED
      BY <1>4, <2>1 DEF WaitToWrite
  <1>5. ASSUME NEW t \in Thread, ReadLock(t)
        PROVE  NoLostWakeup'
    <2>1. Readers' # {} /\ Writers' = Writers
      BY <1>5, ReaderEnters
    <2> QED
      BY <1>5, <2>1 DEF ReadLock
  <1>6. ASSUME NEW t \in Thread, WriteLock(t)
        PROVE  NoLostWakeup'
    <2>1. Writers' # {}
      BY <1>6, WriterEnters
    <2> QED
      BY <2>1
  <1>7. ASSUME NEW t \in Thread, ReadUnlock(t)
        PROVE  NoLostWakeup'
    <2>1. Readers' = Readers \ {t} /\ Writers' = Writers /\ read_cond' = read_cond
      BY <1>7, ReaderLeaves DEF ReadUnlock
    <2>2. CASE Readers' # {}
      BY <2>1, <2>2
    <2>3. CASE Readers' = {}
      <3>1. reader_count' = 0
        BY <2>3, CountersKept, FS_EmptySet DEF CountersExact
      <3>2. CASE write_cond' = {}
        BY <2>1, <3>2
      <3>3. CASE write_cond' # {}
        <4>1. PICK u \in write_cond : write_cond' = write_cond \ {u}
          BY <1>7, <3>1, <3>3 DEF ReadUnlock, SignalWriter
        <4>2. u \in Thread /\ pc[u] = "write_lock" /\ u # t
          BY <1>7 DEF BlockedInside, TypeOK, ReadUnlock
        <4>3. pc'[u] = "write_lock"
          BY <1>7, <4>2 DEF ReadUnlock, TypeOK
        <4> QED
          BY <2>1, <4>1, <4>2, <4>3
      <3> QED
        BY <3>2, <3>3
    <2> QED
      BY <2>2, <2>3
  <1>8. ASSUME NEW t \in Thread, WriteUnlock(t)
        PROVE  NoLostWakeup'
    <2>1. Writers' = {} /\ writer_count' = 0
      <3>1. Writers' = {}
        BY <1>8, WriterLeaves DEF Exclusion
      <3> QED
        BY <3>1, CountersKept, FS_EmptySet DEF CountersExact
    <2>2. read_cond' = {}
      BY <1>8, <2>1 DEF WriteUnlock
    <2>3. CASE write_cond' = {}
      BY <2>2, <2>3
    <2>4. CASE write_cond' # {}
      <3>1. PICK u \in write_cond : write_cond' = write_cond \ {u}
        BY <1>8, <2>1, <2>4 DEF WriteUnlock, SignalWriter
      <3>2. u \in Thread /\ pc[u] = "write_lock" /\ u # t
        BY <1>8 DEF BlockedInside, TypeOK, WriteUnlock
      <3>3. pc'[u] = "write_lock"
        BY <1>8, <3>2 DEF WriteUnlock, TypeOK
      <3> QED
        BY <2>2, <3>1, <3>2, <3>3
    <2> QED
      BY <2>3, <2>4
  <1>9. ASSUME NEW t \in Thread, SpuriousWakeup(t)
        PROVE  NoLostWakeup'
    <2>1. Readers' = Readers /\ Writers' = Writers
      BY <1>9, HoldersKept DEF SpuriousWakeup
    <2>2. \A u \in Thread : Awake(u) => Awake(u)'
      BY <1>9 DEF Awake, SpuriousWakeup
    <2> QED
      BY <1>9, <2>1, <2>2 DEF SpuriousWakeup, Awake
  <1> QED
    BY <1>1, <1>2, <1>3, <1>4, <1>5, <1>6, <1>7, <1>8, <1>9 DEF Next, Step

LEMMA Initially == Init => IInv
  <1> SUFFICES ASSUME Init
               PROVE  IInv
    OBVIOUS
  <1>1. Readers = {} /\ Writers = {}
    BY DEF Init, Readers, Writers
  <1>2. CountersExact
    BY <1>1, FS_EmptySet DEF Init, CountersExact
  <1> QED
    BY <1>1, <1>2
       DEF Init, IInv, TypeOK, ThreadPc, Exclusion, BlockedInside, NoLostWakeup

LEMMA Inductive == IInv /\ [Next]_vars => IInv'
  BY TypeKept, CountersKept, ExclusionKept, BlockedInsideKept, NoLostWakeupKept
     DEF IInv

LEMMA Invariance == Spec => []IInv
  BY Initially, Inductive, PTL DEF Spec

-----------------------------------------------------------------------------
(* The lock's state is well-formed: in particular the counters, which the  *)
(* functions only ever increment and decrement, never go below zero.       *)
THEOREM TypeCorrect == Spec => []TypeOK
  BY Invariance, PTL DEF IInv

(* The counters of rwlock.c count the holders, whatever the waiting.       *)
THEOREM CountersCorrect == Spec => []CountersExact
  BY Invariance, PTL DEF IInv

(* A writer holds the lock alone.                                          *)
THEOREM WriterAlone == Spec => []Exclusion
  BY Invariance, PTL DEF IInv

(* No blocked thread is forgotten: what it waits for is still going to     *)
(* happen, and the thread that makes it happen will signal it.             *)
THEOREM WakeupsKept == Spec => []NoLostWakeup
  BY Invariance, PTL DEF IInv

(* rwlock.c implements a read-write lock.                                  *)
THEOREM LockKeepsPromise == Spec => KeepsPromise
  <1>1. Init => Promise!Init
    BY DEF Init, Promise!Init, Readers, Writers
  <1>2. IInv /\ [Next]_vars => [Promise!Next]_(Promise!vars)
    <2> SUFFICES ASSUME IInv, [Next]_vars
                 PROVE  [Promise!Next]_(Promise!vars)
      OBVIOUS
    <2>1. CASE Readers' = Readers /\ Writers' = Writers
      BY <2>1 DEF Promise!vars
    <2>2. ASSUME NEW t \in Thread, Writers = {}, t \notin Readers,
                 Readers' = Readers \union {t}, Writers' = Writers
          PROVE  Promise!BeginRead(t)
      BY <2>2 DEF Promise!BeginRead
    <2>3. ASSUME NEW t \in Thread, t \in Readers,
                 Readers' = Readers \ {t}, Writers' = Writers
          PROVE  Promise!EndRead(t)
      BY <2>3 DEF Promise!EndRead
    <2>4. ASSUME NEW t \in Thread, Readers = {}, Writers = {},
                 Writers' = {t}, Readers' = Readers
          PROVE  Promise!BeginWrite(t)
      BY <2>4 DEF Promise!BeginWrite
    <2>5. ASSUME NEW t \in Thread, t \in Writers,
                 Writers' = Writers \ {t}, Readers' = Readers
          PROVE  Promise!EndWrite(t)
      BY <2>5 DEF Promise!EndWrite
    <2> QED
      BY <2>1, <2>2, <2>3, <2>4, <2>5, HoldersStep DEF IInv, Promise!Next
  <1> QED
    BY <1>1, <1>2, Invariance, PTL DEF Spec, KeepsPromise, Promise!Spec
=============================================================================
