--------------------------- MODULE ThreadPoolProofs ---------------------------
(***************************************************************************)
(* Proofs about ThreadPool, for any number of callers, workers, tasks and  *)
(* places in the queue.                                                    *)
(***************************************************************************)
EXTENDS ThreadPool, FiniteSetTheorems, TLAPS

(* The workers that have a task, and the tasks they have.                  *)
Holding == {i \in Slot : wpc[i] \in {"taken", "run"}}
Running == {wtask[i] : i \in Holding}

Calling == {p \in Producer : ppc[p] # "idle"}
Looking == {p \in Producer : Adding(p)}
Busy == {i \in Slot : wpc[i] \in {"run", "ran"}}
Alive == {i \in Slot : wpc[i] \in Awake}

(* The place that is k places after f in the circular queue.               *)
PlaceAfter(f, k) == IF f + k < queueCapacity THEN f + k ELSE f + k - queueCapacity

(* Every call of threadPoolAdd may still submit one task.                  *)
CallsBounded == added + Cardinality(Calling) <= NumTasks

BlockedInside == \A p \in notFull : ppc[p] = "wait"

(* The queue stays full between a caller's look at it and its wait.        *)
BlockFull == \A p \in Producer : ppc[p] = "block" => queueSize = queueCapacity

(* The queue holds the last tasks submitted, in order, from queueFront on. *)
QueueOrder ==
    /\ queueSize <= added
    /\ queueRear = PlaceAfter(queueFront, queueSize)
    /\ \A k \in 0 .. queueSize - 1 :
          taskQ[PlaceAfter(queueFront, k)] = added - queueSize + k + 1

(* Every task that has left the queue is with one worker or done.          *)
TasksApart ==
    /\ Running \union done = 1 .. added - queueSize
    /\ Running \intersect done = {}
    /\ \A i, j \in Holding : i # j => wtask[i] # wtask[j]

ShutdownKnown == shutdown <=> dpc # "serving"

PoolInv ==
    /\ TypeOK
    /\ CallsBounded
    /\ BlockedInside
    /\ BlockFull
    /\ QueueOrder
    /\ TasksApart
    /\ ShutdownKnown
    /\ BusyExact
    /\ LiveExact
    /\ AddersWoken

-----------------------------------------------------------------------------
(* All these sets are finite.                                              *)
LEMMA PoolFinite ==
    /\ IsFiniteSet(Slot) /\ Cardinality(Slot) = maxNum
    /\ IsFiniteSet(Calling) /\ Cardinality(Calling) \in Nat
    /\ IsFiniteSet(Looking) /\ Cardinality(Looking) \in Nat
    /\ IsFiniteSet(Busy) /\ Cardinality(Busy) \in Nat
    /\ IsFiniteSet(Alive) /\ Cardinality(Alive) \in Nat
  <1>1. IsFiniteSet(Slot) /\ Cardinality(Slot) = maxNum
    BY PoolAssumption, FS_Interval DEF Slot
  <1>2. /\ IsFiniteSet(Calling) /\ IsFiniteSet(Looking)
    BY PoolAssumption, FS_Subset DEF Calling, Looking
  <1>3. /\ IsFiniteSet(Busy) /\ IsFiniteSet(Alive)
    BY <1>1, FS_Subset DEF Busy, Alive
  <1> QED
    BY <1>1, <1>2, <1>3, FS_CardinalityType

(* Indices wrap at the capacity.                                           *)
LEMMA NextPlace ==
    ASSUME NEW k \in Place
    PROVE  /\ (k + 1) % queueCapacity =
                 IF k + 1 = queueCapacity THEN 0 ELSE k + 1
           /\ (k + 1) % queueCapacity \in Place
  BY PoolAssumption DEF Place

-----------------------------------------------------------------------------
(* Which steps change what.                                                *)

LEMMA QueueSteps ==
    ASSUME [Next]_vars
    PROVE  \/ UNCHANGED queueVars
           \/ \E p \in Producer : PutTask(p)
           \/ \E i \in Slot : TakeTask(i)
  <1>1. CASE UNCHANGED vars
    BY <1>1 DEF vars
  <1>2. ASSUME NEW p \in Producer, CallAdd(p) \/ AddStep(p)
        PROVE  UNCHANGED queueVars \/ PutTask(p)
    BY <1>2 DEF CallAdd, AddStep, FindFull, WaitNotFull, RefuseTask
  <1>3. ASSUME NEW i \in Slot, WorkerStep(i)
        PROVE  UNCHANGED queueVars \/ TakeTask(i)
    BY <1>3 DEF WorkerStep, Outside, ExitSurplus, FindEmpty, WaitNotEmpty,
                ExitForShutdown, CountBusy, RunTask, CountIdle, ThreadExit
  <1>4. CASE ManagerStep
    BY <1>4 DEF ManagerStep, ManagerGoes, TestShutdown, LookAtQueue, LookAtBusy,
                CreateWorkers, CreateNone, AskToExit, AskNone, SignalToExit
  <1>5. CASE Shutdown \/ DestroyStep \/ CondDestroyedAwaited \/ SpuriousWakeup
    BY <1>5 DEF DestroyStep, DestroyGoes, Shutdown, JoinManager, SignalWorker,
                FreePool, CondDestroyed, CondDestroyedAwaited, SpuriousWakeup
  <1> QED
    BY <1>1, <1>2, <1>3, <1>4, <1>5 DEF Next

-----------------------------------------------------------------------------
(* Types.                                                                  *)

LEMMA PoolInit == Init => PoolInv
  <1> SUFFICES ASSUME Init
               PROVE  PoolInv
    OBVIOUS
  <1>1. TypeOK
    <2>1. seen \in [queue: Nat, live: Nat, busy: Nat]
      BY DEF Init, Nothing
    <2>2. taskQ \in [Place -> Task \union {NoTask}] /\ 0 \in Place
      BY PoolAssumption DEF Init, Place
    <2>3. /\ wpc \in [Slot -> WorkerPc]
          /\ wtask \in [Slot -> Task \union {NoTask}]
      BY DEF Init, WorkerPc, Awake
    <2>4. /\ queueSize \in 0 .. queueCapacity
          /\ busyNum \in Nat /\ liveNum \in Nat /\ exitNum \in 0 .. NUMBER
          /\ signalled \in Nat
          /\ added \in 0 .. NumTasks
      BY PoolAssumption DEF Init, NUMBER
    <2> QED
      BY <2>1, <2>2, <2>3, <2>4 DEF Init, TypeOK, ManagerPc, DestroyPc
  <1>2. CallsBounded /\ AddersWoken
    <2>1. Calling = {} /\ notFull = {}
      BY DEF Init, Calling
    <2> QED
      BY <2>1, FS_EmptySet, PoolAssumption
         DEF Init, CallsBounded, AddersWoken
  <1>3. BlockedInside /\ BlockFull /\ ShutdownKnown
    BY DEF Init, BlockedInside, BlockFull, ShutdownKnown
  <1>4. QueueOrder
    BY PoolAssumption DEF Init, QueueOrder, PlaceAfter
  <1>5. TasksApart
    <2>1. Holding = {}
      BY DEF Init, Holding
    <2>2. Running = {}
      BY <2>1 DEF Running
    <2>3. 1 .. added - queueSize = {}
      BY DEF Init
    <2> QED
      BY <2>1, <2>2, <2>3 DEF Init, TasksApart
  <1>6. BusyExact
    <2>1. {i \in Slot : wpc[i] \in {"run", "ran"}} = {}
      BY DEF Init
    <2> QED
      BY <2>1, FS_EmptySet DEF Init, BusyExact
  <1>7. LiveExact
    <2>1. Alive = 1 .. minNum
      BY PoolAssumption DEF Init, Alive, Awake, Slot
    <2>2. Cardinality(1 .. minNum) = minNum
      BY PoolAssumption, FS_Interval
    <2>3. liveNum = minNum
      BY DEF Init
    <2>4. liveNum \in minNum .. maxNum
      BY <2>3, PoolAssumption
    <2>5. liveNum = Cardinality(Alive)
      BY <2>1, <2>2, <2>3
    <2> QED
      BY <2>4, <2>5 DEF LiveExact, Alive
  <1> QED
    BY <1>1, <1>2, <1>3, <1>4, <1>5, <1>6, <1>7 DEF PoolInv

(* A worker with a task has one that was submitted.                        *)
LEMMA TaskHeld ==
    ASSUME TypeOK, TasksApart, NEW i \in Holding
    PROVE  /\ wtask[i] \in Task
           /\ wtask[i] \in 1 .. added - queueSize
           /\ wtask[i] \notin done
  BY PoolAssumption DEF TypeOK, TasksApart, Running, Task

LEMMA BusyCounted ==
    ASSUME TypeOK, BusyExact, NEW i \in Slot, wpc[i] = "ran"
    PROVE  busyNum > 0
  <1>1. i \in Busy
    BY DEF Busy
  <1>2. Cardinality(Busy) # 0
    BY <1>1, PoolFinite, FS_EmptySet
  <1> QED
    BY <1>2, PoolFinite DEF BusyExact, Busy

LEMMA TypeAdd ==
    ASSUME PoolInv, NEW p \in Producer, CallAdd(p) \/ AddStep(p)
    PROVE  TypeOK'
  <1> USE DEF PoolInv
  <1>1. CASE CallAdd(p)
    BY <1>1
       DEF CallAdd, TypeOK, queueVars, countVars, workerVars, managerVars,
           destroyVars
  <1>2. CASE FindFull(p) \/ WaitNotFull(p) \/ RefuseTask(p)
    BY <1>2
       DEF FindFull, WaitNotFull, RefuseTask, AddGoes, TypeOK, queueVars, countVars,
           workerVars, managerVars, destroyVars
  <1>3. CASE PutTask(p)
    <2>1. added + 1 \in Task
      <3>1. p \in Calling
        BY <1>3 DEF PutTask, AddGoes, Adding, Calling
      <3>2. Cardinality(Calling) # 0
        BY <3>1, PoolFinite, FS_EmptySet
      <3> QED
        BY <3>2, PoolFinite, PoolAssumption DEF CallsBounded, TypeOK, Task
    <2>2. queueSize + 1 \in 0 .. queueCapacity
      BY <1>3, PoolAssumption DEF PutTask, TypeOK
    <2>3. queueRear' \in Place
      BY <1>3, NextPlace DEF PutTask, TypeOK
    <2> QED
      BY <1>3, <2>1, <2>2, <2>3, PoolAssumption
         DEF PutTask, AddGoes, SignalNotEmpty, TypeOK, Task, countVars,
             workerVars, managerVars, destroyVars
  <1> QED
    BY <1>1, <1>2, <1>3 DEF AddStep

LEMMA TypeWorker ==
    ASSUME PoolInv, NEW i \in Slot, WorkerStep(i)
    PROVE  TypeOK'
  <1> USE DEF PoolInv
  <1>1. CASE ExitSurplus(i)
    BY <1>1, PoolAssumption
       DEF ExitSurplus, ToldToExit, WorkerGoes, TypeOK, queueVars, managerVars,
           destroyVars, WorkerPc, NUMBER
  <1>2. CASE FindEmpty(i) \/ WaitNotEmpty(i) \/ ExitForShutdown(i)
    <2>1. exitNum' \in 0 .. NUMBER
      BY <1>2 DEF FindEmpty, WaitNotEmpty, ExitForShutdown, EnterLoop, ToldToExit,
                  countVars, TypeOK, NUMBER
    <2> QED
      BY <1>2, <2>1
         DEF FindEmpty, WaitNotEmpty, ExitForShutdown, EnterLoop, WorkerGoes, TypeOK,
             queueVars, countVars, managerVars, destroyVars, WorkerPc, Awake
  <1>3. CASE TakeTask(i)
    <2>1. exitNum' \in 0 .. NUMBER
      BY <1>3 DEF TakeTask, EnterLoop, ToldToExit, TypeOK, NUMBER
    <2>2. queueSize - 1 \in 0 .. queueCapacity
      BY <1>3, PoolAssumption DEF TakeTask, TypeOK
    <2>3. queueFront' \in Place
      BY <1>3, NextPlace DEF TakeTask, TypeOK
    <2> QED
      BY <1>3, <2>1, <2>2, <2>3
         DEF TakeTask, EnterLoop, WorkerGoes, SignalNotFull, TypeOK, managerVars,
             destroyVars, WorkerPc, Awake
  <1>4. CASE CountBusy(i) \/ ThreadExit(i)
    BY <1>4
       DEF CountBusy, ThreadExit, Outside, WorkerGoes, TypeOK, queueVars,
           managerVars, destroyVars, WorkerPc, Awake
  <1>5. CASE RunTask(i)
    <2>1. wtask[i] \in Task
      BY <1>5, TaskHeld DEF RunTask, Outside, At, Holding
    <2> QED
      BY <1>5, <2>1
         DEF RunTask, Outside, WorkerGoes, TypeOK, queueVars,
             managerVars, destroyVars, WorkerPc, Awake
  <1>6. CASE CountIdle(i)
    <2>1. busyNum - 1 \in Nat
      BY <1>6, BusyCounted DEF CountIdle, Outside, At, TypeOK
    <2> QED
      BY <1>6, <2>1
         DEF CountIdle, Outside, WorkerGoes, TypeOK, queueVars,
             managerVars, destroyVars, WorkerPc, Awake
  <1> QED
    BY <1>1, <1>2, <1>3, <1>4, <1>5, <1>6 DEF WorkerStep

LEMMA FillingFinite ==
    /\ IsFiniteSet(SlotsFilled) /\ Cardinality(SlotsFilled) \in Nat
    /\ IsFiniteSet(FreeSlots)
  <1>1. IsFiniteSet(SlotsFilled) /\ IsFiniteSet(FreeSlots)
    BY PoolFinite, FS_Subset DEF SlotsFilled, FreeSlots
  <1> QED
    BY <1>1, FS_CardinalityType

LEMMA TypeManager ==
    ASSUME PoolInv, ManagerStep
    PROVE  TypeOK'
  <1> USE DEF PoolInv
  <1>1. CASE TestShutdown \/ CreateNone \/ AskToExit \/ AskNone
    BY <1>1
       DEF TestShutdown, CreateNone, AskToExit, AskNone, ManagerGoes, TypeOK,
           queueVars, destroyVars, ManagerPc, Nothing, NUMBER
  <1>2. CASE LookAtQueue
    <2>1. seen' \in [queue: Nat, live: Nat, busy: Nat]
      BY <1>2 DEF LookAtQueue, TypeOK
    <2> QED
      BY <1>2, <2>1
         DEF LookAtQueue, ManagerGoes, TypeOK, queueVars, destroyVars, ManagerPc
  <1>3. CASE LookAtBusy
    BY <1>3
       DEF LookAtBusy, ManagerGoes, TypeOK, queueVars, destroyVars, ManagerPc
  <1>4. CASE CreateWorkers
    BY <1>4, FillingFinite
       DEF CreateWorkers, ManagerGoes, TypeOK, queueVars, destroyVars, ManagerPc,
           WorkerPc, Awake
  <1>5. CASE SignalToExit
    BY <1>5
       DEF SignalToExit, SignalNotEmpty, ManagerGoes, TypeOK, queueVars,
           destroyVars, ManagerPc
  <1> QED
    BY <1>1, <1>2, <1>3, <1>4, <1>5 DEF ManagerStep

LEMMA TypeKept == PoolInv /\ [Next]_vars => TypeOK'
  <1> SUFFICES ASSUME PoolInv, [Next]_vars
               PROVE  TypeOK'
    OBVIOUS
  <1> USE DEF PoolInv
  <1>1. CASE UNCHANGED vars
    BY <1>1
       DEF vars, queueVars, countVars, workerVars, managerVars, destroyVars, TypeOK
  <1>2. CASE Shutdown \/ DestroyStep \/ CondDestroyedAwaited
    <2>1. CASE SignalWorker
      BY <2>1
         DEF SignalWorker, DestroyGoes, SignalNotEmpty, queueVars, countVars,
             workerVars, managerVars, TypeOK, DestroyPc
    <2>2. CASE \/ Shutdown \/ JoinManager \/ FreePool
              \/ CondDestroyed \/ CondDestroyedAwaited
      BY <2>2
         DEF Shutdown, JoinManager, FreePool, CondDestroyed, CondDestroyedAwaited,
             DestroyGoes, queueVars, countVars, workerVars, managerVars, TypeOK, DestroyPc
    <2> QED
      BY <1>2, <2>1, <2>2 DEF DestroyStep
  <1>3. CASE SpuriousWakeup
    BY <1>3
       DEF SpuriousWakeup, queueVars, countVars, workerVars, managerVars,
           destroyVars, TypeOK
  <1> QED
    BY <1>1, <1>2, <1>3, TypeAdd, TypeWorker, TypeManager DEF Next

-----------------------------------------------------------------------------
(* The callers of threadPoolAdd.                                           *)

LEMMA CallSteps ==
    ASSUME [Next]_vars
    PROVE  \/ UNCHANGED <<added, queueSize, ppc, notFull>>
           \/ \E p \in Producer : CallAdd(p) \/ AddStep(p)
           \/ \E i \in Slot : TakeTask(i)
           \/ SpuriousWakeup
  <1>1. CASE UNCHANGED vars
    BY <1>1 DEF vars, queueVars
  <1>2. ASSUME NEW i \in Slot, WorkerStep(i)
        PROVE  UNCHANGED <<added, queueSize, ppc, notFull>> \/ TakeTask(i)
    BY <1>2 DEF WorkerStep, Outside, EnterLoop, ExitSurplus, FindEmpty, WaitNotEmpty,
                ExitForShutdown, CountBusy, RunTask, CountIdle, ThreadExit,
                queueVars
  <1>3. CASE ManagerStep
    BY <1>3 DEF ManagerStep, ManagerGoes, TestShutdown, LookAtQueue, LookAtBusy,
                CreateWorkers, CreateNone, AskToExit, AskNone, SignalToExit,
                queueVars
  <1>4. CASE Shutdown \/ DestroyStep \/ CondDestroyedAwaited
    BY <1>4 DEF DestroyStep, DestroyGoes, Shutdown, JoinManager, SignalWorker,
                FreePool, CondDestroyed, CondDestroyedAwaited, queueVars
  <1> QED
    BY <1>1, <1>2, <1>3, <1>4 DEF Next

LEMMA CallsKept == PoolInv /\ [Next]_vars => CallsBounded' /\ BlockedInside'
  <1> SUFFICES ASSUME PoolInv, [Next]_vars
               PROVE  CallsBounded' /\ BlockedInside'
    OBVIOUS
  <1> USE DEF PoolInv
  <1>1. CASE UNCHANGED <<added, queueSize, ppc, notFull>>
    BY <1>1 DEF CallsBounded, BlockedInside, Calling
  <1>2. ASSUME NEW p \in Producer, CallAdd(p)
        PROVE  CallsBounded' /\ BlockedInside'
    <2>1. p \notin Calling /\ Calling' = Calling \union {p}
      BY <1>2 DEF CallAdd, Calling, TypeOK
    <2>2. Cardinality(Calling') = Cardinality(Calling) + 1
      BY <2>1, PoolFinite, FS_AddElement
    <2>3. added' = added /\ added + Cardinality(Calling) < NumTasks
      BY <1>2 DEF CallAdd, Calling, queueVars
    <2>4. CallsBounded'
      BY <2>2, <2>3, PoolFinite, PoolAssumption DEF CallsBounded, TypeOK
    <2>5. BlockedInside'
      BY <1>2 DEF CallAdd, BlockedInside, TypeOK
    <2> QED
      BY <2>4, <2>5
  <1>3. ASSUME NEW p \in Producer, AddStep(p)
        PROVE  CallsBounded' /\ BlockedInside'
    <2>1. p \in Calling /\ p \notin notFull
      BY <1>3 DEF AddStep, FindFull, WaitNotFull, RefuseTask, PutTask, AddGoes, Adding,
                  Calling, BlockedInside
    <2>2. CASE FindFull(p) \/ WaitNotFull(p)
      <3>1. Calling' = Calling /\ added' = added
        BY <2>1, <2>2 DEF FindFull, WaitNotFull, AddGoes, Calling, TypeOK, queueVars
      <3>2. BlockedInside'
        BY <2>1, <2>2 DEF FindFull, WaitNotFull, AddGoes, BlockedInside, TypeOK
      <3> QED
        BY <3>1, <3>2 DEF CallsBounded
    <2>3. CASE RefuseTask(p) \/ PutTask(p)
      <3>1. Calling' = Calling \ {p} /\ notFull' = notFull
        BY <2>3 DEF RefuseTask, PutTask, AddGoes, Calling, TypeOK
      <3>2. Cardinality(Calling') = Cardinality(Calling) - 1
        BY <2>1, <3>1, PoolFinite, FS_RemoveElement
      <3>3. added' \in {added, added + 1}
        BY <2>3 DEF RefuseTask, PutTask, queueVars
      <3>4. CallsBounded'
        BY <3>2, <3>3, PoolFinite, PoolAssumption DEF CallsBounded, TypeOK
      <3>5. BlockedInside'
        BY <2>1, <2>3, <3>1 DEF RefuseTask, PutTask, AddGoes, BlockedInside, TypeOK
      <3> QED
        BY <3>4, <3>5
    <2> QED
      BY <1>3, <2>2, <2>3 DEF AddStep
  <1>4. ASSUME NEW i \in Slot, TakeTask(i)
        PROVE  CallsBounded' /\ BlockedInside'
    BY <1>4 DEF TakeTask, EnterLoop, SignalNotFull, CallsBounded, BlockedInside,
                Calling
  <1>5. CASE SpuriousWakeup
    BY <1>5 DEF SpuriousWakeup, CallsBounded, BlockedInside, Calling, queueVars
  <1> QED
    BY <1>1, <1>2, <1>3, <1>4, <1>5, CallSteps

(* While a caller is about to wait nobody else has mutexPool.              *)
LEMMA BlockFullKept == PoolInv /\ [Next]_vars => BlockFull'
  <1> SUFFICES ASSUME PoolInv, [Next]_vars
               PROVE  BlockFull'
    OBVIOUS
  <1> USE DEF PoolInv
  <1>1. CASE UNCHANGED <<added, queueSize, ppc, notFull>> \/ SpuriousWakeup
    BY <1>1 DEF BlockFull, SpuriousWakeup, queueVars
  <1>2. ASSUME NEW p \in Producer, CallAdd(p) \/ AddStep(p)
        PROVE  BlockFull'
    <2>1. CASE PutTask(p)
      BY <2>1 DEF PutTask, AddGoes, MutexFree, BlockFull, TypeOK
    <2>2. CASE FindFull(p)
      BY <2>2 DEF FindFull, AddGoes, BlockFull, TypeOK, queueVars
    <2>3. CASE CallAdd(p) \/ WaitNotFull(p) \/ RefuseTask(p)
      BY <2>3 DEF CallAdd, WaitNotFull, RefuseTask, AddGoes, BlockFull, TypeOK,
                  queueVars
    <2> QED
      BY <1>2, <2>1, <2>2, <2>3 DEF AddStep
  <1>3. ASSUME NEW i \in Slot, TakeTask(i)
        PROVE  BlockFull'
    BY <1>3 DEF TakeTask, EnterLoop, AtLoop, MutexFree, BlockFull
  <1> QED
    BY <1>1, <1>2, <1>3, CallSteps

LEMMA ShutdownStep ==
    ShutdownKnown /\ [Next]_vars => ShutdownKnown' /\ (shutdown => shutdown')
  <1> SUFFICES ASSUME ShutdownKnown, [Next]_vars
               PROVE  ShutdownKnown' /\ (shutdown => shutdown')
    OBVIOUS
  <1>1. CASE UNCHANGED vars
    BY <1>1 DEF vars, destroyVars, ShutdownKnown
  <1>2. ASSUME NEW p \in Producer, CallAdd(p) \/ AddStep(p)
        PROVE  UNCHANGED destroyVars
    BY <1>2 DEF CallAdd, AddStep, FindFull, WaitNotFull, RefuseTask, PutTask, AddGoes
  <1>3. ASSUME NEW i \in Slot, WorkerStep(i)
        PROVE  UNCHANGED destroyVars
    BY <1>3 DEF WorkerStep, Outside, EnterLoop, ExitSurplus, FindEmpty, WaitNotEmpty,
                ExitForShutdown, TakeTask, CountBusy, RunTask, CountIdle, ThreadExit
  <1>4. CASE ManagerStep
    BY <1>4 DEF ManagerStep, ManagerGoes, TestShutdown, LookAtQueue, LookAtBusy,
                CreateWorkers, CreateNone, AskToExit, AskNone, SignalToExit,
                destroyVars, ShutdownKnown
  <1>5. CASE Shutdown \/ DestroyStep \/ CondDestroyedAwaited \/ SpuriousWakeup
    BY <1>5 DEF DestroyStep, DestroyGoes, Shutdown, JoinManager, SignalWorker,
                FreePool, CondDestroyed, CondDestroyedAwaited, SpuriousWakeup,
                destroyVars, ShutdownKnown
  <1> QED
    BY <1>1, <1>2, <1>3, <1>4, <1>5 DEF Next, destroyVars, ShutdownKnown

(* A free place that a worker signals is looked at by the caller it wakes. *)
LEMMA AddersKept == PoolInv /\ [Next]_vars => AddersWoken'
  <1> SUFFICES ASSUME PoolInv, [Next]_vars, ~ shutdown', notFull' # {}
               PROVE  queueSize' + Cardinality(Looking') >= queueCapacity
    BY DEF AddersWoken, Looking
  <1> USE DEF PoolInv
  <1>1. ~ shutdown /\ ~ Freeing /\ ~ Freeing'
    BY ShutdownStep DEF ShutdownKnown, Freeing
  <1>2. notFull # {} => queueSize + Cardinality(Looking) >= queueCapacity
    BY <1>1 DEF AddersWoken, Looking
  <1>3. /\ queueSize \in Nat /\ queueCapacity \in Nat
        /\ Cardinality(Looking) \in Nat
    BY PoolFinite, PoolAssumption DEF TypeOK
  <1>4. CASE UNCHANGED <<added, queueSize, ppc, notFull>>
    <2>1. Looking' = Looking
      BY <1>1, <1>4 DEF Looking, Adding
    <2> QED
      BY <1>2, <1>4, <2>1
  <1>5. ASSUME NEW p \in Producer, CallAdd(p)
        PROVE  queueSize' + Cardinality(Looking') >= queueCapacity
    <2>1. /\ p \notin Looking /\ Looking' = Looking \union {p}
          /\ queueSize' = queueSize /\ notFull' = notFull
      BY <1>1, <1>5 DEF CallAdd, Looking, Adding, TypeOK, queueVars
    <2>2. Cardinality(Looking') = Cardinality(Looking) + 1
      BY <2>1, PoolFinite, FS_AddElement
    <2> QED
      BY <1>2, <1>3, <2>1, <2>2
  <1>6. ASSUME NEW p \in Producer, AddStep(p)
        PROVE  queueSize' + Cardinality(Looking') >= queueCapacity
    <2>2. CASE FindFull(p) \/ WaitNotFull(p)
      <3>1. queueSize' = queueCapacity
        BY <2>2 DEF FindFull, WaitNotFull, queueVars, BlockFull
      <3>2. Looking' = Looking \ {p}
        BY <1>1, <2>2 DEF FindFull, WaitNotFull, AddGoes, Looking, Adding, TypeOK
      <3>3. Cardinality(Looking') \in Nat
        BY <3>2, PoolFinite, FS_RemoveElement, FS_CardinalityType
      <3> QED
        BY <1>3, <3>1, <3>3
    <2>3. CASE PutTask(p)
      <3>1. /\ Looking' = Looking \ {p}
            /\ queueSize' = queueSize + 1 /\ notFull' = notFull
        BY <1>1, <2>3 DEF PutTask, AddGoes, Looking, Adding, TypeOK
      <3>2. p \in Looking
        BY <2>3 DEF PutTask, AddGoes, Looking
      <3>3. Cardinality(Looking') = Cardinality(Looking) - 1
        BY <3>1, <3>2, PoolFinite, FS_RemoveElement
      <3> QED
        BY <1>2, <1>3, <3>1, <3>3
    <2> QED
      BY <1>1, <1>6, <2>2, <2>3 DEF AddStep, RefuseTask
  <1>7. ASSUME NEW i \in Slot, TakeTask(i)
        PROVE  queueSize' + Cardinality(Looking') >= queueCapacity
    <2>1. PICK p \in notFull : notFull' = notFull \ {p}
      BY <1>7 DEF TakeTask, SignalNotFull
    <2>2. p \in Producer /\ p \notin Looking
      BY DEF TypeOK, BlockedInside, Looking, Adding
    <2>3. /\ Looking' = Looking \union {p}
          /\ queueSize' = queueSize - 1
      BY <1>1, <1>7, <2>1, <2>2
         DEF TakeTask, EnterLoop, Looking, Adding, BlockedInside
    <2>4. Cardinality(Looking') = Cardinality(Looking) + 1
      BY <2>2, <2>3, PoolFinite, FS_AddElement
    <2> QED
      BY <1>2, <1>3, <2>1, <2>3, <2>4
  <1>8. CASE SpuriousWakeup
    <2>1. queueSize' = queueSize /\ notFull' \subseteq notFull
      BY <1>8 DEF SpuriousWakeup, queueVars
    <2>2. Looking \subseteq Looking' /\ Looking' \subseteq Producer
      BY <1>1, <1>8 DEF SpuriousWakeup, Looking, Adding, TypeOK
    <2>3. /\ Cardinality(Looking') \in Nat
          /\ Cardinality(Looking) <= Cardinality(Looking')
      BY <2>2, PoolAssumption, FS_Subset, FS_CardinalityType
    <2> QED
      BY <1>2, <1>3, <2>1, <2>3
  <1> QED
    BY <1>4, <1>5, <1>6, <1>7, <1>8, CallSteps

-----------------------------------------------------------------------------
(* The counters of the workers.                                            *)

LEMMA WorkerSteps ==
    ASSUME [Next]_vars
    PROVE  \/ UNCHANGED <<wpc, wtask, done, busyNum, liveNum>>
           \/ \E i \in Slot : WorkerStep(i)
           \/ CreateWorkers
  <1>1. CASE UNCHANGED vars
    BY <1>1 DEF vars, workerVars, countVars
  <1>2. ASSUME NEW p \in Producer, CallAdd(p) \/ AddStep(p)
        PROVE  UNCHANGED <<wpc, wtask, done, busyNum, liveNum>>
    BY <1>2 DEF CallAdd, AddStep, FindFull, WaitNotFull, RefuseTask, PutTask, AddGoes,
                workerVars, countVars
  <1>3. CASE ManagerStep
    BY <1>3 DEF ManagerStep, ManagerGoes, TestShutdown, LookAtQueue, LookAtBusy,
                CreateNone, AskToExit, AskNone, SignalToExit
  <1>4. CASE Shutdown \/ DestroyStep \/ CondDestroyedAwaited \/ SpuriousWakeup
    BY <1>4 DEF DestroyStep, DestroyGoes, Shutdown, JoinManager, SignalWorker,
                FreePool, CondDestroyed, CondDestroyedAwaited, SpuriousWakeup,
                workerVars, countVars
  <1> QED
    BY <1>1, <1>2, <1>3, <1>4 DEF Next

(* Only the worker that steps changes, and the worker of a filled slot.    *)
LEMMA BusyKept == PoolInv /\ [Next]_vars => BusyExact'
  <1> SUFFICES ASSUME PoolInv, [Next]_vars
               PROVE  busyNum' = Cardinality(Busy')
    BY DEF BusyExact, Busy
  <1> USE DEF PoolInv
  <1>1. busyNum = Cardinality(Busy) /\ busyNum \in Nat
    BY DEF BusyExact, Busy, TypeOK
  <1>2. CASE UNCHANGED <<wpc, wtask, done, busyNum, liveNum>>
    BY <1>1, <1>2 DEF Busy
  <1>3. CASE CreateWorkers
    <2>1. Busy' = Busy /\ busyNum' = busyNum
      BY <1>3 DEF CreateWorkers, ManagerGoes, SlotsFilled, FreeSlots, Busy, TypeOK
    <2> QED
      BY <1>1, <2>1
  <1>4. ASSUME NEW i \in Slot, WorkerStep(i)
        PROVE  busyNum' = Cardinality(Busy')
    <2>1. CASE CountBusy(i)
      <3>1. i \notin Busy /\ Busy' = Busy \union {i} /\ busyNum' = busyNum + 1
        BY <2>1 DEF CountBusy, Outside, At, WorkerGoes, Busy, TypeOK
      <3> QED
        BY <1>1, <3>1, PoolFinite, FS_AddElement
    <2>2. CASE CountIdle(i)
      <3>1. i \in Busy /\ Busy' = Busy \ {i} /\ busyNum' = busyNum - 1
        BY <2>2 DEF CountIdle, Outside, At, WorkerGoes, Busy, TypeOK
      <3> QED
        BY <1>1, <3>1, PoolFinite, FS_RemoveElement
    <2>3. CASE ~ CountBusy(i) /\ ~ CountIdle(i)
      <3>1. wpc[i] \in {"run", "ran"} <=> wpc'[i] \in {"run", "ran"}
        BY <1>4, <2>3
           DEF WorkerStep, ExitSurplus, ToldToExit, Woken, FindEmpty, WaitNotEmpty,
               ExitForShutdown, TakeTask, EnterLoop, AtLoop, RunTask, ThreadExit,
               Outside, At, WorkerGoes, TypeOK
      <3>2. \A j \in Slot \ {i} : wpc'[j] = wpc[j]
        BY <1>4, <2>3
           DEF WorkerStep, ExitSurplus, FindEmpty, WaitNotEmpty, ExitForShutdown, TakeTask,
               RunTask, ThreadExit, Outside, WorkerGoes, TypeOK
      <3>3. busyNum' = busyNum
        BY <1>4, <2>3
           DEF WorkerStep, ExitSurplus, FindEmpty, WaitNotEmpty, ExitForShutdown, TakeTask,
               EnterLoop, RunTask, ThreadExit, countVars
      <3>4. Busy' = Busy
        BY <3>1, <3>2 DEF Busy
      <3> QED
        BY <1>1, <3>3, <3>4
    <2> QED
      BY <2>1, <2>2, <2>3
  <1> QED
    BY <1>2, <1>3, <1>4, WorkerSteps

(* The loop of the manager counts the workers it creates and stops at      *)
(* maxNum: the last slot it fills has fewer filled slots before it than    *)
(* liveNum leaves room for.                                                *)
LEMMA FillingBounded ==
    ASSUME TypeOK, LiveExact
    PROVE  liveNum + Cardinality(SlotsFilled) <= maxNum
  <1> DEFINE Before(i) == {j \in FreeSlots : j < i}
  <1>1. liveNum \in Nat /\ liveNum <= maxNum /\ maxNum \in Nat
    BY PoolAssumption DEF LiveExact
  <1>2. CASE SlotsFilled = {}
    BY <1>1, <1>2, FS_EmptySet
  <1>3. ASSUME NEW m \in SlotsFilled, \A i \in SlotsFilled : i <= m
        PROVE  liveNum + Cardinality(SlotsFilled) <= maxNum
    <2>1. m \in FreeSlots /\ liveNum + Cardinality(Before(m)) < maxNum
      BY <1>3 DEF SlotsFilled
    <2>2. IsFiniteSet(Before(m)) /\ SlotsFilled \ {m} \subseteq Before(m)
      <3>1. Before(m) \subseteq FreeSlots
        OBVIOUS
      <3>2. IsFiniteSet(Before(m))
        BY <3>1, FillingFinite, FS_Subset
      <3>3. SlotsFilled \subseteq FreeSlots /\ FreeSlots \subseteq Nat
        BY DEF SlotsFilled, FreeSlots, Slot
      <3>4. SlotsFilled \ {m} \subseteq Before(m)
        BY <1>3, <3>3
      <3> QED
        BY <3>2, <3>4
    <2>3. /\ Cardinality(SlotsFilled \ {m}) = Cardinality(SlotsFilled) - 1
          /\ Cardinality(SlotsFilled \ {m}) <= Cardinality(Before(m))
          /\ Cardinality(Before(m)) \in Nat
      BY <1>3, <2>2, FillingFinite, FS_RemoveElement, FS_Subset, FS_CardinalityType
    <2> QED
      BY <1>1, <2>1, <2>3, FillingFinite
  <1>4. ASSUME SlotsFilled # {}
        PROVE  \E m \in SlotsFilled : \A i \in SlotsFilled : i <= m
    <2>1. SUFFICES ASSUME \A m \in SlotsFilled : \E i \in SlotsFilled : ~ (i <= m)
                   PROVE  FALSE
      OBVIOUS
    <2>2. SlotsFilled \subseteq FreeSlots /\ FreeSlots \subseteq Nat
      BY DEF SlotsFilled, FreeSlots, Slot
    <2>3. PICK a \in SlotsFilled : TRUE
      BY <1>4
    <2>4. PICK b \in SlotsFilled : a < b
      BY <2>1, <2>2, <2>3
    <2>5. PICK c \in SlotsFilled : b < c
      BY <2>1, <2>2, <2>4
    <2>6. Cardinality(Before(c)) < 2
      BY <2>5 DEF SlotsFilled, NUMBER
    <2>7. {a, b} \subseteq Before(c) /\ a # b
      BY <2>2, <2>3, <2>4, <2>5
    <2>8. Cardinality({a, b}) = 2
      <3>1. IsFiniteSet({a}) /\ Cardinality({a}) = 1 /\ b \notin {a}
        BY <2>7, FS_Singleton
      <3>2. Cardinality({a} \union {b}) = Cardinality({a}) + 1
        BY <3>1, FS_AddElement
      <3>3. {a, b} = {a} \union {b}
        OBVIOUS
      <3> QED
        BY <3>1, <3>2, <3>3
    <2>9. IsFiniteSet(Before(c))
      <3>1. Before(c) \subseteq FreeSlots
        OBVIOUS
      <3> QED
        BY <3>1, FillingFinite, FS_Subset
    <2>10. /\ Cardinality({a, b}) <= Cardinality(Before(c))
           /\ Cardinality(Before(c)) \in Nat
      BY <2>7, <2>9, FS_Subset, FS_CardinalityType
    <2> QED
      BY <2>6, <2>8, <2>10
  <1> QED
    BY <1>2, <1>3, <1>4

LEMMA LiveKept == PoolInv /\ [Next]_vars => LiveExact'
  <1> SUFFICES ASSUME PoolInv, [Next]_vars
               PROVE  /\ ~ shutdown' => liveNum' = Cardinality(Alive')
                      /\ liveNum' \in minNum .. maxNum
    BY DEF LiveExact, Alive
  <1> USE DEF PoolInv
  <1>1. /\ ~ shutdown' => ~ shutdown /\ liveNum = Cardinality(Alive)
        /\ liveNum \in minNum .. maxNum /\ minNum \in Nat /\ maxNum \in Nat
    BY ShutdownStep, PoolAssumption DEF LiveExact, Alive
  <1>2. CASE UNCHANGED <<wpc, wtask, done, busyNum, liveNum>>
    BY <1>1, <1>2 DEF Alive
  <1>3. CASE CreateWorkers
    <2>1. /\ Alive' = Alive \union SlotsFilled
          /\ Alive \intersect SlotsFilled = {}
          /\ liveNum' = liveNum + Cardinality(SlotsFilled)
      BY <1>3 DEF CreateWorkers, SlotsFilled, FreeSlots, Alive, Awake, TypeOK
    <2>2. Cardinality(Alive') = Cardinality(Alive) + Cardinality(SlotsFilled)
      <3>1. Cardinality(Alive \union SlotsFilled)
              = Cardinality(Alive) + Cardinality(SlotsFilled)
                - Cardinality(Alive \intersect SlotsFilled)
        BY PoolFinite, FillingFinite, FS_Union
      <3>2. Cardinality(Alive \intersect SlotsFilled) = 0
        BY <2>1, FS_EmptySet
      <3> QED
        BY <2>1, <3>1, <3>2, PoolFinite, FillingFinite
    <2>3. liveNum' <= maxNum
      BY <2>1, FillingBounded
    <2> QED
      BY <1>1, <2>1, <2>2, <2>3, FillingFinite
  <1>4. ASSUME NEW i \in Slot, WorkerStep(i)
        PROVE  /\ ~ shutdown' => liveNum' = Cardinality(Alive')
               /\ liveNum' \in minNum .. maxNum
    <2>1. CASE ExitSurplus(i)
      <3>1. /\ i \in Alive /\ Alive' = Alive \ {i}
            /\ liveNum' = liveNum - 1 /\ liveNum > minNum
        BY <2>1 DEF ExitSurplus, ToldToExit, Woken, At, WorkerGoes, Alive, Awake,
                    TypeOK
      <3>2. Cardinality(Alive') = Cardinality(Alive) - 1
        BY <3>1, PoolFinite, FS_RemoveElement
      <3> QED
        BY <1>1, <3>1, <3>2
    <2>2. CASE ExitForShutdown(i)
      BY <1>1, <2>2 DEF ExitForShutdown, EnterLoop, destroyVars
    <2>3. CASE ~ ExitSurplus(i) /\ ~ ExitForShutdown(i)
      <3>1. wpc[i] \in Awake <=> wpc'[i] \in Awake
        BY <1>4, <2>3
           DEF WorkerStep, Woken, FindEmpty, WaitNotEmpty, TakeTask, EnterLoop, AtLoop,
               CountBusy, RunTask, CountIdle, ThreadExit, Outside, At, WorkerGoes,
               Awake, TypeOK
      <3>2. \A j \in Slot \ {i} : wpc'[j] = wpc[j]
        BY <1>4, <2>3
           DEF WorkerStep, FindEmpty, WaitNotEmpty, TakeTask, CountBusy, RunTask, CountIdle,
               ThreadExit, Outside, WorkerGoes, TypeOK
      <3>3. liveNum' = liveNum
        BY <1>4, <2>3
           DEF WorkerStep, FindEmpty, WaitNotEmpty, TakeTask, EnterLoop, CountBusy, RunTask,
               CountIdle, ThreadExit, Outside, countVars
      <3>4. Alive' = Alive
        BY <3>1, <3>2 DEF Alive
      <3> QED
        BY <1>1, <3>3, <3>4
    <2> QED
      BY <2>1, <2>2, <2>3
  <1> QED
    BY <1>2, <1>3, <1>4, WorkerSteps

-----------------------------------------------------------------------------
(* The queue and the tasks.                                                *)

(* The places of up to queueCapacity tasks are apart.                      *)
LEMMA PlacesApart ==
    ASSUME TypeOK
    PROVE  /\ \A k \in 0 .. queueCapacity : PlaceAfter(queueFront, k) \in Place
           /\ \A j, k \in 0 .. queueCapacity - 1 :
                 PlaceAfter(queueFront, j) = PlaceAfter(queueFront, k) => j = k
  BY PoolAssumption DEF TypeOK, Place, PlaceAfter

(* The task at the front of a queue that is not empty.                     *)
LEMMA FrontTask ==
    ASSUME TypeOK, QueueOrder, queueSize # 0
    PROVE  taskQ[queueFront] = added - queueSize + 1
  <1>1. PlaceAfter(queueFront, 0) = queueFront /\ 0 \in 0 .. queueSize - 1
    BY PoolAssumption DEF PlaceAfter, TypeOK, Place
  <1> QED
    BY <1>1 DEF QueueOrder, TypeOK

LEMMA QueueOrderKept == PoolInv /\ [Next]_vars => QueueOrder'
  <1> SUFFICES ASSUME PoolInv, [Next]_vars
               PROVE  QueueOrder'
    OBVIOUS
  <1> USE DEF PoolInv
  <1>1. CASE UNCHANGED queueVars
    BY <1>1 DEF queueVars, QueueOrder, PlaceAfter
  <1>2. ASSUME NEW p \in Producer, PutTask(p)
        PROVE  QueueOrder'
    <2>1. /\ queueSize \in 0 .. queueCapacity - 1
          /\ queueSize' = queueSize + 1 /\ added' = added + 1
          /\ queueFront' = queueFront /\ queueFront \in Place
          /\ queueRear \in Place /\ added \in Nat
      BY <1>2, PoolAssumption DEF PutTask, TypeOK
    <2>2. queueRear' = PlaceAfter(queueFront', queueSize')
      BY <1>2, <2>1, NextPlace, PoolAssumption
         DEF PutTask, QueueOrder, PlaceAfter, Place
    <2>3. ASSUME NEW k \in 0 .. queueSize
          PROVE  taskQ'[PlaceAfter(queueFront', k)] = added' - queueSize' + k + 1
      <3>1. /\ PlaceAfter(queueFront', k) = PlaceAfter(queueFront, k)
            /\ PlaceAfter(queueFront, k) \in Place
        BY <2>1, <2>3, PlacesApart, PoolAssumption
      <3>2. taskQ' = [taskQ EXCEPT ![PlaceAfter(queueFront, queueSize)] = added + 1]
        BY <1>2 DEF PutTask, QueueOrder
      <3>3. CASE k = queueSize
        BY <2>1, <3>1, <3>2, <3>3 DEF TypeOK
      <3>4. CASE k \in 0 .. queueSize - 1
        <4>1. PlaceAfter(queueFront, k) # PlaceAfter(queueFront, queueSize)
          BY <2>1, <3>4, PlacesApart, PoolAssumption
        <4>2. taskQ[PlaceAfter(queueFront, k)] = added - queueSize + k + 1
          BY <3>4 DEF QueueOrder
        <4> QED
          BY <2>1, <3>1, <3>2, <4>1, <4>2 DEF TypeOK
      <3> QED
        BY <2>1, <2>3, <3>3, <3>4
    <2>4. queueSize' <= added' /\ 0 .. queueSize' - 1 = 0 .. queueSize
      BY <2>1 DEF QueueOrder
    <2> QED
      BY <2>2, <2>3, <2>4 DEF QueueOrder
  <1>3. ASSUME NEW i \in Slot, TakeTask(i)
        PROVE  QueueOrder'
    <2>1. /\ queueSize \in 1 .. queueCapacity
          /\ queueSize' = queueSize - 1 /\ added' = added
          /\ queueFront \in Place
          /\ queueRear' = queueRear /\ added \in Nat
          /\ taskQ' = taskQ
      BY <1>3, PoolAssumption DEF TakeTask, TypeOK
    <2>2. queueFront' = IF queueFront + 1 = queueCapacity THEN 0 ELSE queueFront + 1
      BY <1>3, <2>1, NextPlace DEF TakeTask
    <2>3. ASSUME NEW k \in 0 .. queueSize'
          PROVE  /\ PlaceAfter(queueFront', k) = PlaceAfter(queueFront, k + 1)
                 /\ k + 1 \in 0 .. queueSize
      BY <2>1, <2>2, <2>3, PoolAssumption DEF PlaceAfter, Place
    <2>4. queueRear' = PlaceAfter(queueFront', queueSize') /\ queueSize' <= added'
      BY <2>1, <2>3 DEF QueueOrder
    <2>5. ASSUME NEW k \in 0 .. queueSize' - 1
          PROVE  taskQ'[PlaceAfter(queueFront', k)] = added' - queueSize' + k + 1
      <3>1. k + 1 \in 0 .. queueSize - 1 /\ k \in 0 .. queueSize'
        BY <2>1, <2>5
      <3>2. taskQ[PlaceAfter(queueFront, k + 1)] = added - queueSize + (k + 1) + 1
        BY <3>1 DEF QueueOrder
      <3> QED
        BY <2>1, <2>3, <3>1, <3>2
    <2> QED
      BY <2>4, <2>5 DEF QueueOrder
  <1> QED
    BY <1>1, <1>2, <1>3, QueueSteps

(* What the steps do to the tasks that workers have.                       *)
LEMMA HoldingSteps ==
    ASSUME TypeOK, [Next]_vars
    PROVE  \/ /\ UNCHANGED <<Holding, Running, done>>
              /\ \A i \in Holding : wtask'[i] = wtask[i]
           \/ \E i \in Slot : TakeTask(i) \/ RunTask(i)
  <1>1. CASE UNCHANGED <<wpc, wtask, done, busyNum, liveNum>>
    BY <1>1 DEF Holding, Running
  <1>2. CASE CreateWorkers
    <2>1. Holding' = Holding /\ wtask' = wtask /\ done' = done
      BY <1>2 DEF CreateWorkers, ManagerGoes, SlotsFilled, FreeSlots, Holding, TypeOK
    <2> QED
      BY <2>1 DEF Running
  <1>3. ASSUME NEW i \in Slot, WorkerStep(i), ~ TakeTask(i), ~ RunTask(i)
        PROVE  UNCHANGED <<Holding, Running, done>> /\ wtask' = wtask
    <2>1. wpc[i] \in {"taken", "run"} <=> wpc'[i] \in {"taken", "run"}
      BY <1>3
         DEF WorkerStep, ExitSurplus, ToldToExit, Woken, FindEmpty, WaitNotEmpty,
             ExitForShutdown, EnterLoop, AtLoop, CountBusy, CountIdle, ThreadExit,
             Outside, At, WorkerGoes, TypeOK
    <2>2. \A j \in Slot \ {i} : wpc'[j] = wpc[j]
      BY <1>3
         DEF WorkerStep, ExitSurplus, FindEmpty, WaitNotEmpty, ExitForShutdown, CountBusy,
             CountIdle, ThreadExit, Outside, WorkerGoes, TypeOK
    <2>3. wtask' = wtask /\ done' = done
      BY <1>3
         DEF WorkerStep, ExitSurplus, FindEmpty, WaitNotEmpty, ExitForShutdown, EnterLoop,
             CountBusy, CountIdle, ThreadExit
    <2>4. Holding' = Holding
      BY <2>1, <2>2 DEF Holding
    <2> QED
      BY <2>3, <2>4 DEF Running
  <1> QED
    BY <1>1, <1>2, <1>3, WorkerSteps

(* A worker takes the oldest task that has not been taken.                 *)
LEMMA TaskTaken ==
    ASSUME PoolInv, NEW i \in Slot, TakeTask(i)
    PROVE  LET t == added - queueSize + 1
           IN  /\ i \notin Holding /\ Holding' = Holding \union {i}
               /\ wtask' = [wtask EXCEPT ![i] = t]
               /\ Running' = Running \union {t}
               /\ t \in 1 .. added
               /\ 1 .. added' - queueSize' = (1 .. added - queueSize) \union {t}
               /\ done' = done /\ added' = added
  <1> DEFINE t == added - queueSize + 1
  <1> USE DEF PoolInv
  <1>1. wtask' = [wtask EXCEPT ![i] = t]
    BY FrontTask DEF TakeTask
  <1>2. i \notin Holding /\ Holding' = Holding \union {i}
    BY DEF TakeTask, EnterLoop, AtLoop, Woken, At, WorkerGoes, Holding, TypeOK
  <1>3. /\ queueSize \in Nat /\ queueSize # 0 /\ added \in Nat /\ queueSize <= added
        /\ queueSize' = queueSize - 1 /\ added' = added
    BY DEF TakeTask, QueueOrder, TypeOK
  <1>4. t \in 1 .. added /\ 1 .. added' - queueSize' = (1 .. added - queueSize) \union {t}
    BY <1>3
  <1>5. Running' = Running \union {t}
    BY <1>1, <1>2 DEF Running, Holding, TypeOK
  <1>6. done' = done
    BY DEF TakeTask, EnterLoop
  <1> QED
    BY <1>1, <1>2, <1>3, <1>4, <1>5, <1>6

(* A worker that has run its task has given it up.                         *)
LEMMA TaskRun ==
    ASSUME PoolInv, NEW i \in Slot, RunTask(i)
    PROVE  /\ i \in Holding /\ Holding' = Holding \ {i}
           /\ \A j \in Holding' : wtask'[j] = wtask[j]
           /\ wtask[i] \in Running /\ Running' = Running \ {wtask[i]}
           /\ done' = done \union {wtask[i]}
           /\ UNCHANGED <<added, queueSize>>
  <1> USE DEF PoolInv
  <1>1. i \in Holding /\ Holding' = Holding \ {i}
    BY DEF RunTask, Outside, At, WorkerGoes, Holding, TypeOK
  <1>2. \A j \in Holding' : wtask'[j] = wtask[j]
    BY <1>1 DEF RunTask, Holding, TypeOK
  <1>3. wtask[i] \in Running /\ Running' = Running \ {wtask[i]}
    BY <1>1, <1>2 DEF Running, TasksApart
  <1> QED
    BY <1>1, <1>2, <1>3 DEF RunTask, Outside, queueVars

LEMMA TasksApartKept == PoolInv /\ [Next]_vars => TasksApart'
  <1> SUFFICES ASSUME PoolInv, [Next]_vars
               PROVE  TasksApart'
    OBVIOUS
  <1> USE DEF PoolInv
  <1>1. ASSUME NEW i \in Slot, TakeTask(i)
        PROVE  TasksApart'
    <2> DEFINE t == added - queueSize + 1
    <2>1. t \notin 1 .. added - queueSize
      BY DEF TypeOK
    <2>2. \A j \in Holding : wtask[j] # t
      BY <2>1, TaskHeld
    <2>3. \A j, k \in Holding' : j # k => wtask'[j] # wtask'[k]
      BY <1>1, <2>2, TaskTaken DEF TasksApart, Holding, TypeOK
    <2>4. Running' \union done' = 1 .. added' - queueSize'
      BY <1>1, TaskTaken DEF TasksApart
    <2>5. Running' \intersect done' = {}
      BY <1>1, <2>1, TaskTaken DEF TasksApart
    <2> QED
      BY <2>3, <2>4, <2>5 DEF TasksApart
  <1>2. ASSUME NEW i \in Slot, RunTask(i)
        PROVE  TasksApart'
    <2>1. \A j, k \in Holding' : j # k => wtask'[j] # wtask'[k]
      BY <1>2, TaskRun DEF TasksApart
    <2>2. Running' \union done' = 1 .. added' - queueSize'
      BY <1>2, TaskRun DEF TasksApart
    <2>3. Running' \intersect done' = {}
      BY <1>2, TaskRun DEF TasksApart
    <2> QED
      BY <2>1, <2>2, <2>3 DEF TasksApart
  <1>3. CASE /\ UNCHANGED <<Holding, Running, done>>
             /\ \A i \in Holding : wtask'[i] = wtask[i]
             /\ \A i \in Slot : ~ TakeTask(i)
    <2>1. added' - queueSize' = added - queueSize
      <3>1. CASE UNCHANGED queueVars
        BY <3>1 DEF queueVars
      <3>2. ASSUME NEW p \in Producer, PutTask(p)
            PROVE  added' - queueSize' = added - queueSize
        BY <3>2 DEF PutTask, TypeOK
      <3> QED
        BY <1>3, <3>1, <3>2, QueueSteps
    <2> QED
      BY <1>3, <2>1 DEF TasksApart
  <1> QED
    BY <1>1, <1>2, <1>3, HoldingSteps

-----------------------------------------------------------------------------
(* The theorems.                                                           *)

LEMMA PoolStep == PoolInv /\ [Next]_vars => PoolInv'
  BY TypeKept, CallsKept, BlockFullKept, QueueOrderKept, TasksApartKept,
     ShutdownStep, BusyKept, LiveKept, AddersKept
     DEF PoolInv

LEMMA PoolInvariance == Spec => []PoolInv
  BY PoolInit, PoolStep, PTL DEF Spec

(* The state of the pool is well-formed whatever its threads do: indices   *)
(* stay in the queue, counters do not go negative, only tasks are run.     *)
THEOREM PoolTyped == Spec => []TypeOK
  <1>1. PoolInv => TypeOK
    BY DEF PoolInv
  <1> QED
    BY <1>1, PoolInvariance, PTL

(* busyNum counts the workers that run a task (threadpool.c:190-200).      *)
THEOREM BusyCount == Spec => []BusyExact
  <1>1. PoolInv => BusyExact
    BY DEF PoolInv
  <1> QED
    BY <1>1, PoolInvariance, PTL

(* liveNum counts the workers, however many the manager creates and asks   *)
(* to exit, and keeps to the bounds (threadpool.c:154-168, 225-257).       *)
THEOREM LiveCount == Spec => []LiveExact
  <1>1. PoolInv => LiveExact
    BY DEF PoolInv
  <1> QED
    BY <1>1, PoolInvariance, PTL

(* No signal of notFull is lost (threadpool.c:105-109, 186).               *)
THEOREM AddersNotStranded == Spec => []AddersWoken
  <1>1. PoolInv => AddersWoken
    BY DEF PoolInv
  <1> QED
    BY <1>1, PoolInvariance, PTL

-----------------------------------------------------------------------------
(* The refinement of TaskPromise.                                          *)

LEMMA PromiseInit == Init => Promise!Init
  <1> SUFFICES ASSUME Init
               PROVE  added = 0 /\ Running = {} /\ done = {}
    BY DEF Promise!Init, Running, Holding
  <1>1. Holding = {}
    BY DEF Init, Holding
  <1> QED
    BY <1>1 DEF Init, Running

LEMMA PromiseStep == PoolInv /\ [Next]_vars => [Promise!Next]_(Promise!vars)
  <1> SUFFICES ASSUME PoolInv, [Next]_vars
               PROVE  \/ added' = added + 1 /\ UNCHANGED <<Running, done>>
                      \/ \E t \in 1 .. added :
                            /\ t \notin Running \union done
                            /\ 1 .. t - 1 \subseteq Running \union done
                            /\ Running' = Running \union {t}
                            /\ UNCHANGED <<added, done>>
                      \/ \E t \in Running :
                            /\ Running' = Running \ {t}
                            /\ done' = done \union {t}
                            /\ UNCHANGED added
                      \/ UNCHANGED <<added, Running, done>>
    BY DEF Promise!Next, Promise!Submit, Promise!Start, Promise!Finish,
           Promise!vars, Running, Holding
  <1> USE DEF PoolInv
  <1>1. ASSUME NEW i \in Slot, TakeTask(i)
        PROVE  \E t \in 1 .. added :
                  /\ t \notin Running \union done
                  /\ 1 .. t - 1 \subseteq Running \union done
                  /\ Running' = Running \union {t}
                  /\ UNCHANGED <<added, done>>
    <2> DEFINE t == added - queueSize + 1
    <2>1. t \in 1 .. added /\ Running' = Running \union {t} /\ UNCHANGED <<added, done>>
      BY <1>1, TaskTaken
    <2>2. t \notin Running \union done /\ 1 .. t - 1 \subseteq Running \union done
      BY DEF TasksApart, TypeOK
    <2> QED
      BY <2>1, <2>2
  <1>2. ASSUME NEW i \in Slot, RunTask(i)
        PROVE  \E t \in Running :
                  /\ Running' = Running \ {t}
                  /\ done' = done \union {t}
                  /\ UNCHANGED added
    BY <1>2, TaskRun
  <1>3. CASE UNCHANGED <<Holding, Running, done>> /\ \A i \in Slot : ~ TakeTask(i)
    <2>1. added' = added \/ added' = added + 1
      BY <1>3, QueueSteps DEF PutTask, queueVars
    <2> QED
      BY <1>3, <2>1
  <1> QED
    BY <1>1, <1>2, <1>3, HoldingSteps

(* The pool starts its tasks in the order of their submission and runs     *)
(* each at most once, whichever worker takes it and however often the      *)
(* queue's indices wrap (threadpool.c:117-121, 178-187).                   *)
THEOREM PoolKeepsPromise == Spec => KeepsPromise
  <1>1. PoolInv /\ [Next]_vars => [Promise!Next]_(Promise!vars)
    BY PromiseStep
  <1> QED
    BY <1>1, PromiseInit, PoolInvariance, PTL DEF Spec, KeepsPromise, Promise!Spec
=============================================================================
