------------------------------ MODULE ThreadPool ------------------------------
(***************************************************************************)
(* The pool of threadpool.c: callers put tasks into a circular queue,      *)
(* workers take and run them, a manager creates workers and asks them to   *)
(* exit, and threadPoolDestroy ends it all.  What a function does with     *)
(* mutexPool held is one step, up to the unlock or to a wait; the test     *)
(* before a wait and the wait are two steps (the thread at "block" in      *)
(* between holds the mutex), because threadPoolDestroy sets shutdown and   *)
(* signals without the mutex.                                              *)
(*                                                                         *)
(* A worker is known by its slot in threadIDs; a slot is free (0) when its *)
(* worker is at "none".  A task is its number in the order of submission.  *)
(* Memory that threadPoolDestroy has freed is not modelled: from its first *)
(* free on only its own calls go on, and the threads blocked on a          *)
(* condition, which may still be woken from it.                            *)
(***************************************************************************)
EXTENDS Integers, FiniteSets

CONSTANTS
    Producer,       \* the threads that call threadPoolAdd
    minNum,
    maxNum,
    queueCapacity,
    NumTasks        \* bound: calls of threadPoolAdd

NUMBER == 2

ASSUME PoolAssumption ==
    /\ IsFiniteSet(Producer)
    /\ minNum \in Nat /\ maxNum \in Nat /\ minNum <= maxNum
    /\ queueCapacity \in Nat \ {0}
    /\ NumTasks \in Nat

VARIABLES
    taskQ, queueSize, queueFront, queueRear,
    busyNum, liveNum, exitNum,
    shutdown,
    notFull,        \* the callers blocked on the condition notFull
    notEmpty,       \* the workers blocked on the condition notEmpty
    wpc,            \* where each worker is
    wtask,          \* the task it has taken
    ppc,            \* where each caller is in threadPoolAdd
    mpc,            \* where the manager is
    seen,           \* the numbers it has read in this round
    dpc,            \* where the caller of threadPoolDestroy is
    signalled,      \* how often it has signalled notEmpty
    added,          \* how many tasks have been submitted
    done            \* the tasks that have been run

queueVars == <<taskQ, queueSize, queueFront, queueRear, added>>
countVars == <<busyNum, liveNum, exitNum>>
workerVars == <<wpc, wtask, done>>
managerVars == <<mpc, seen>>
destroyVars == <<dpc, signalled, shutdown>>
vars == <<queueVars, countVars, notFull, notEmpty, workerVars, ppc, managerVars,
          destroyVars>>

Slot == 1 .. maxNum
Place == 0 .. queueCapacity - 1
Task == 1 .. NumTasks
NoTask == 0
Nothing == [queue |-> 0, live |-> 0, busy |-> 0]

Awake == {"lock", "block", "wait", "taken", "run", "ran"}
WorkerPc == Awake \union {"none", "exit"}
ManagerPc == {"test", "look", "busy", "grow", "shrink", "signal1", "signal2", "done"}
DestroyPc == {"serving", "join", "signal", "notEmpty", "notFull", "freed"}

TypeOK ==
    /\ taskQ \in [Place -> Task \union {NoTask}]
    /\ queueSize \in 0 .. queueCapacity
    /\ queueFront \in Place /\ queueRear \in Place
    /\ busyNum \in Nat /\ liveNum \in Nat /\ exitNum \in 0 .. NUMBER
    /\ shutdown \in BOOLEAN
    /\ notFull \subseteq Producer
    /\ notEmpty \subseteq Slot
    /\ wpc \in [Slot -> WorkerPc]
    /\ wtask \in [Slot -> Task \union {NoTask}]
    /\ ppc \in [Producer -> {"idle", "add", "block", "wait"}]
    /\ mpc \in ManagerPc
    /\ seen \in [queue: Nat, live: Nat, busy: Nat]
    /\ dpc \in DestroyPc
    /\ signalled \in Nat
    /\ added \in 0 .. NumTasks
    /\ done \subseteq Task

(* threadPoolCreate: the manager and minNum workers.                       *)
Init ==
    /\ taskQ = [k \in Place |-> NoTask]
    /\ queueSize = 0 /\ queueFront = 0 /\ queueRear = 0
    /\ busyNum = 0 /\ liveNum = minNum /\ exitNum = 0
    /\ shutdown = FALSE
    /\ notFull = {} /\ notEmpty = {}
    /\ wpc = [i \in Slot |-> IF i <= minNum THEN "lock" ELSE "none"]
    /\ wtask = [i \in Slot |-> NoTask]
    /\ ppc = [p \in Producer |-> "idle"]
    /\ mpc = "test"
    /\ seen = Nothing
    /\ dpc = "serving" /\ signalled = 0
    /\ added = 0 /\ done = {}

-----------------------------------------------------------------------------
(* pthread_cond_signal: one blocked thread goes on, if any is blocked.     *)
SignalNotEmpty ==
    \/ notEmpty = {} /\ notEmpty' = {}
    \/ \E i \in notEmpty : notEmpty' = notEmpty \ {i}

SignalNotFull ==
    \/ notFull = {} /\ notFull' = {}
    \/ \E p \in notFull : notFull' = notFull \ {p}

(* Nobody holds mutexPool between two steps but who is about to wait.      *)
MutexFree ==
    /\ \A p \in Producer : ppc[p] # "block"
    /\ \A i \in Slot : wpc[i] # "block"

Freeing == dpc \in {"notEmpty", "notFull", "freed"}

(* threadPoolAdd.                                                          *)
Adding(p) ==
    /\ ~ Freeing
    /\ ppc[p] = "add" \/ (ppc[p] = "wait" /\ p \notin notFull)

AddGoes(p, to) ==
    /\ Adding(p) /\ MutexFree
    /\ ppc' = [ppc EXCEPT ![p] = to]
    /\ UNCHANGED <<countVars, workerVars, managerVars, destroyVars>>

CallAdd(p) ==
    /\ ~ Freeing
    /\ ppc[p] = "idle"
    /\ added + Cardinality({o \in Producer : ppc[o] # "idle"}) < NumTasks
    /\ ppc' = [ppc EXCEPT ![p] = "add"]
    /\ UNCHANGED <<queueVars, countVars, notFull, notEmpty, workerVars, managerVars,
                   destroyVars>>

FindFull(p) ==
    /\ AddGoes(p, "block")
    /\ queueSize = queueCapacity /\ ~ shutdown
    /\ UNCHANGED <<queueVars, notFull, notEmpty>>

WaitNotFull(p) ==
    /\ ~ Freeing
    /\ ppc[p] = "block"
    /\ ppc' = [ppc EXCEPT ![p] = "wait"]
    /\ notFull' = notFull \union {p}
    /\ UNCHANGED <<queueVars, countVars, notEmpty, workerVars, managerVars, destroyVars>>

RefuseTask(p) ==
    /\ AddGoes(p, "idle")
    /\ shutdown
    /\ UNCHANGED <<queueVars, notFull, notEmpty>>

(* A fault: a caller woken from notFull does not look at queueSize again.  *)
PutTaskAfterWait(p) ==
    /\ AddGoes(p, "idle")
    /\ queueSize # queueCapacity \/ ppc[p] = "wait"
    /\ ~ shutdown
    /\ added' = added + 1
    /\ taskQ' = [taskQ EXCEPT ![queueRear] = added + 1]
    /\ queueRear' = (queueRear + 1) % queueCapacity
    /\ queueSize' = queueSize + 1
    /\ SignalNotEmpty
    /\ UNCHANGED <<queueFront, notFull>>

(* A fault: no worker is signalled.                                        *)
PutTaskSilent(p) ==
    /\ AddGoes(p, "idle")
    /\ queueSize # queueCapacity /\ ~ shutdown
    /\ added' = added + 1
    /\ taskQ' = [taskQ EXCEPT ![queueRear] = added + 1]
    /\ queueRear' = (queueRear + 1) % queueCapacity
    /\ queueSize' = queueSize + 1
    /\ UNCHANGED <<queueFront, notFull, notEmpty>>

PutTask(p) ==
    /\ AddGoes(p, "idle")
    /\ queueSize # queueCapacity /\ ~ shutdown
    /\ added' = added + 1
    /\ taskQ' = [taskQ EXCEPT ![queueRear] = added + 1]
    /\ queueRear' = (queueRear + 1) % queueCapacity
    /\ queueSize' = queueSize + 1
    /\ SignalNotEmpty
    /\ UNCHANGED <<queueFront, notFull>>

-----------------------------------------------------------------------------
(* worker.  It holds the mutex at the top of its loop, whether it comes    *)
(* from pthread_mutex_lock or from pthread_cond_wait; in the second case   *)
(* it has looked at exitNum first.                                         *)
At(i, pc) == ~ Freeing /\ wpc[i] = pc
Woken(i) == At(i, "wait") /\ i \notin notEmpty
ToldToExit(i) == Woken(i) /\ exitNum > 0
AtLoop(i) ==
    /\ MutexFree
    /\ At(i, "lock") \/ Woken(i)
    /\ ~ (ToldToExit(i) /\ liveNum > minNum)

WorkerGoes(i, to) == wpc' = [wpc EXCEPT ![i] = to]

(* A fault: minNum is not looked at.                                       *)
ExitAny(i) ==
    /\ ToldToExit(i) /\ MutexFree
    /\ exitNum' = exitNum - 1
    /\ liveNum' = liveNum - 1
    /\ WorkerGoes(i, "exit")
    /\ UNCHANGED <<queueVars, busyNum, notFull, notEmpty, wtask, done, ppc,
                   managerVars, destroyVars>>

ExitSurplus(i) ==
    /\ ToldToExit(i) /\ MutexFree /\ liveNum > minNum
    /\ exitNum' = exitNum - 1
    /\ liveNum' = liveNum - 1
    /\ WorkerGoes(i, "exit")
    /\ UNCHANGED <<queueVars, busyNum, notFull, notEmpty, wtask, done, ppc,
                   managerVars, destroyVars>>

EnterLoop(i) ==
    /\ AtLoop(i)
    /\ exitNum' = IF ToldToExit(i) THEN exitNum - 1 ELSE exitNum
    /\ UNCHANGED <<busyNum, liveNum, done, ppc, managerVars, destroyVars>>

FindEmpty(i) ==
    /\ EnterLoop(i)
    /\ queueSize = 0 /\ ~ shutdown
    /\ WorkerGoes(i, "block")
    /\ UNCHANGED <<queueVars, notFull, notEmpty, wtask>>

WaitNotEmpty(i) ==
    /\ At(i, "block")
    /\ WorkerGoes(i, "wait")
    /\ notEmpty' = notEmpty \union {i}
    /\ UNCHANGED <<queueVars, countVars, notFull, wtask, done, ppc, managerVars,
                   destroyVars>>

ExitForShutdown(i) ==
    /\ EnterLoop(i)
    /\ shutdown
    /\ WorkerGoes(i, "exit")
    /\ UNCHANGED <<queueVars, notFull, notEmpty, wtask>>

(* A fault: no caller is signalled.                                        *)
TakeTaskSilent(i) ==
    /\ EnterLoop(i)
    /\ queueSize # 0 /\ ~ shutdown
    /\ WorkerGoes(i, "taken")
    /\ wtask' = [wtask EXCEPT ![i] = taskQ[queueFront]]
    /\ queueFront' = (queueFront + 1) % queueCapacity
    /\ queueSize' = queueSize - 1
    /\ UNCHANGED <<taskQ, queueRear, added, notFull, notEmpty>>

(* A fault: a worker woken from notEmpty does not look at queueSize again. *)
TakeTaskAfterWait(i) ==
    /\ EnterLoop(i)
    /\ queueSize # 0 \/ Woken(i)
    /\ ~ shutdown
    /\ WorkerGoes(i, "taken")
    /\ wtask' = [wtask EXCEPT ![i] = taskQ[queueFront]]
    /\ queueFront' = (queueFront + 1) % queueCapacity
    /\ queueSize' = queueSize - 1
    /\ SignalNotFull
    /\ UNCHANGED <<taskQ, queueRear, added, notEmpty>>

TakeTask(i) ==
    /\ EnterLoop(i)
    /\ queueSize # 0 /\ ~ shutdown
    /\ WorkerGoes(i, "taken")
    /\ wtask' = [wtask EXCEPT ![i] = taskQ[queueFront]]
    /\ queueFront' = (queueFront + 1) % queueCapacity
    /\ queueSize' = queueSize - 1
    /\ SignalNotFull
    /\ UNCHANGED <<taskQ, queueRear, added, notEmpty>>

(* What a worker does without mutexPool.                                   *)
Outside(i, from, to) ==
    /\ At(i, from)
    /\ WorkerGoes(i, to)
    /\ UNCHANGED <<queueVars, liveNum, exitNum, notFull, notEmpty, ppc, managerVars,
                   destroyVars>>

CountBusy(i) ==
    /\ Outside(i, "taken", "run")
    /\ busyNum' = busyNum + 1
    /\ UNCHANGED <<wtask, done>>

RunTask(i) ==
    /\ Outside(i, "run", "ran")
    /\ done' = done \union {wtask[i]}
    /\ wtask' = [wtask EXCEPT ![i] = NoTask]
    /\ UNCHANGED busyNum

(* A fault: busyNum is left as it is.                                      *)
CountStaysBusy(i) ==
    /\ Outside(i, "ran", "lock")
    /\ UNCHANGED <<busyNum, wtask, done>>

CountIdle(i) ==
    /\ Outside(i, "ran", "lock")
    /\ busyNum' = busyNum - 1
    /\ UNCHANGED <<wtask, done>>

(* threadExit: the slot is freed.                                          *)
ThreadExit(i) ==
    /\ Outside(i, "exit", "none")
    /\ UNCHANGED <<busyNum, wtask, done>>

-----------------------------------------------------------------------------
(* manager.                                                                *)
ManagerGoes(from, to) ==
    /\ ~ Freeing
    /\ mpc = from
    /\ mpc' = to
    /\ UNCHANGED <<queueVars, busyNum, notFull, wtask, done, ppc, destroyVars>>

(* A fault: the manager loops for ever.                                    *)
TestNothing ==
    /\ ManagerGoes("test", "look")
    /\ UNCHANGED <<liveNum, exitNum, notEmpty, wpc, seen>>

TestShutdown ==
    /\ ManagerGoes("test", IF shutdown THEN "done" ELSE "look")
    /\ UNCHANGED <<liveNum, exitNum, notEmpty, wpc, seen>>

LookAtQueue ==
    /\ ManagerGoes("look", "busy") /\ MutexFree
    /\ seen' = [queue |-> queueSize, live |-> liveNum, busy |-> 0]
    /\ UNCHANGED <<liveNum, exitNum, notEmpty, wpc>>

LookAtBusy ==
    /\ ManagerGoes("busy", "grow")
    /\ seen' = [seen EXCEPT !.busy = busyNum]
    /\ UNCHANGED <<liveNum, exitNum, notEmpty, wpc>>

FreeSlots == {i \in Slot : wpc[i] = "none"}

(* The free slots the loop fills: the first ones, at most NUMBER, and no   *)
(* more than liveNum leaves room for.                                      *)
SlotsFilled ==
    {i \in FreeSlots :
        LET before == Cardinality({j \in FreeSlots : j < i})
        IN  before < NUMBER /\ liveNum + before < maxNum}

CreateWorkers ==
    /\ ManagerGoes("grow", "shrink") /\ MutexFree
    /\ seen.queue > seen.live /\ seen.live < maxNum
    /\ wpc' = [i \in Slot |-> IF i \in SlotsFilled THEN "lock" ELSE wpc[i]]
    /\ liveNum' = liveNum + Cardinality(SlotsFilled)
    /\ UNCHANGED <<exitNum, notEmpty, seen>>

CreateNone ==
    /\ ManagerGoes("grow", "shrink")
    /\ ~ (seen.queue > seen.live /\ seen.live < maxNum)
    /\ UNCHANGED <<liveNum, exitNum, notEmpty, wpc, seen>>

TooManyWorkers == seen.busy * 2 < seen.live /\ seen.live > minNum

AskToExit ==
    /\ ManagerGoes("shrink", "signal1") /\ MutexFree
    /\ TooManyWorkers
    /\ exitNum' = NUMBER
    /\ seen' = Nothing
    /\ UNCHANGED <<liveNum, notEmpty, wpc>>

AskNone ==
    /\ ManagerGoes("shrink", "test")
    /\ ~ TooManyWorkers
    /\ seen' = Nothing
    /\ UNCHANGED <<liveNum, exitNum, notEmpty, wpc>>

SignalToExit ==
    /\ \/ ManagerGoes("signal1", "signal2")
       \/ ManagerGoes("signal2", "test")
    /\ SignalNotEmpty
    /\ UNCHANGED <<liveNum, exitNum, wpc, seen>>

-----------------------------------------------------------------------------
(* threadPoolDestroy.                                                      *)
DestroyGoes(from, to) ==
    /\ dpc = from
    /\ dpc' = to
    /\ UNCHANGED <<queueVars, countVars, notFull, workerVars, ppc, managerVars>>

Shutdown ==
    /\ DestroyGoes("serving", "join")
    /\ shutdown' = TRUE
    /\ UNCHANGED <<notEmpty, signalled>>

JoinManager ==
    /\ DestroyGoes("join", "signal")
    /\ mpc = "done"
    /\ UNCHANGED <<notEmpty, signalled, shutdown>>

SignalWorker ==
    /\ DestroyGoes("signal", "signal")
    /\ signalled < liveNum
    /\ signalled' = signalled + 1
    /\ SignalNotEmpty
    /\ UNCHANGED shutdown

FreePool ==
    /\ DestroyGoes("signal", "notEmpty")
    /\ ~ (signalled < liveNum)
    /\ UNCHANGED <<notEmpty, signalled, shutdown>>

(* pthread_cond_destroy returns when nobody is blocked on the condition;   *)
(* what it does otherwise is undefined.                                    *)
CondDestroyed ==
    /\ \/ DestroyGoes("notEmpty", "notFull") /\ notEmpty = {}
       \/ DestroyGoes("notFull", "freed") /\ notFull = {}
    /\ UNCHANGED <<notEmpty, signalled, shutdown>>

(* Here it returns; that it waits, as it does in current C libraries, is   *)
(* that this step need not be taken.                                       *)
CondDestroyedAwaited ==
    /\ \/ DestroyGoes("notEmpty", "notFull") /\ notEmpty # {}
       \/ DestroyGoes("notFull", "freed") /\ notFull # {}
    /\ UNCHANGED <<notEmpty, signalled, shutdown>>

(* pthread_cond_wait may return without a signal.                          *)
SpuriousWakeup ==
    /\ dpc # "freed"
    /\ \/ \E p \in notFull : notFull' = notFull \ {p} /\ UNCHANGED notEmpty
       \/ \E i \in notEmpty : notEmpty' = notEmpty \ {i} /\ UNCHANGED notFull
    /\ UNCHANGED <<queueVars, countVars, workerVars, ppc, managerVars, destroyVars>>

-----------------------------------------------------------------------------
AddStep(p) == FindFull(p) \/ WaitNotFull(p) \/ RefuseTask(p) \/ PutTask(p)

WorkerStep(i) ==
    \/ ExitSurplus(i)
    \/ FindEmpty(i)
    \/ WaitNotEmpty(i)
    \/ ExitForShutdown(i)
    \/ TakeTask(i)
    \/ CountBusy(i)
    \/ RunTask(i)
    \/ CountIdle(i)
    \/ ThreadExit(i)

ManagerStep ==
    \/ TestShutdown
    \/ LookAtQueue
    \/ LookAtBusy
    \/ CreateWorkers
    \/ CreateNone
    \/ AskToExit
    \/ AskNone
    \/ SignalToExit

DestroyStep == JoinManager \/ SignalWorker \/ FreePool \/ CondDestroyed

Next ==
    \/ \E p \in Producer : CallAdd(p) \/ AddStep(p)
    \/ \E i \in Slot : WorkerStep(i)
    \/ ManagerStep
    \/ Shutdown
    \/ DestroyStep
    \/ CondDestroyedAwaited
    \/ SpuriousWakeup

Spec == Init /\ [][Next]_vars

(* Every thread of the pool that can run is run, a thread that asks for    *)
(* mutexPool gets it when it is free again and again, and a task ends.     *)
(* Nobody need submit a task or destroy the pool.                          *)
FairSpec ==
    /\ Spec
    /\ \A p \in Producer : SF_vars(AddStep(p))
    /\ \A i \in Slot : SF_vars(WorkerStep(i))
    /\ SF_vars(ManagerStep)
    /\ WF_vars(DestroyStep)

-----------------------------------------------------------------------------
(* Properties.                                                             *)

(* busyNum, which the manager decides on, is the number of workers between *)
(* the two places that change it (threadpool.c:190-200).                   *)
BusyExact == busyNum = Cardinality({i \in Slot : wpc[i] \in {"run", "ran"}})

(* Until the pool is shut down liveNum is the number of workers that have  *)
(* not decided to exit, whichever way workers are created and leave; it    *)
(* never leaves the bounds given to threadPoolCreate.                      *)
LiveExact ==
    /\ ~ shutdown => liveNum = Cardinality({i \in Slot : wpc[i] \in Awake})
    /\ liveNum \in minNum .. maxNum

(* A caller is only left blocked on notFull while the queue is full or as  *)
(* many woken callers are about to look as it has free places: no signal   *)
(* of a worker is lost (threadpool.c:105-109, 186).                        *)
AddersWoken ==
    ~ shutdown /\ notFull # {} =>
        queueSize + Cardinality({p \in Producer : Adding(p)}) >= queueCapacity

Promise == INSTANCE TaskPromise WITH
    running <- {wtask[i] : i \in {j \in Slot : wpc[j] \in {"taken", "run"}}}

(* The circular queue, its two indices and the workers implement tasks     *)
(* that are started in the order of their submission, each at most once    *)
(* (threadpool.c:117-121, 178-187).                                        *)
KeepsPromise == Promise!Spec

(* threadPoolDestroy returns or stands in a pthread_cond_destroy with      *)
(* somebody blocked on the condition, whatever the workers do: the manager *)
(* it waits for looks at shutdown in every round (threadpool.c:73-94, 209).*)
DestroyEndsOrAwaits ==
    dpc = "join" ~> \/ dpc = "freed"
                    \/ dpc = "notEmpty" /\ notEmpty # {}
                    \/ dpc = "notFull" /\ notFull # {}

Queued(t) == t <= added /\ t \notin done

(* A task that is submitted is run, unless the pool is shut down           *)
(* (threadpool.h:49).                                                      *)
TasksRun == \A t \in Task : Queued(t) ~> (t \in done \/ shutdown)

(* So it is as long as the manager asks no worker to exit.                 *)
TasksRunIfAllStay == [](exitNum = 0) => TasksRun
=============================================================================
