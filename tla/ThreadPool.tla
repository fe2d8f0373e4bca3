------------------------------ MODULE ThreadPool ------------------------------
(***************************************************************************)
(* MyThreadPool (myThreadPool.h): the list of tasks, the three mutexes and *)
(* the condition variable that protect it, the worker threads, and the     *)
(* growth of the pool (dilatation).  One action is one step between two    *)
(* operations on a mutex, the granularity at which threads interleave.     *)
(*                                                                         *)
(* The main thread builds the pool and then adds one SessionTask for every *)
(* accepted connection (server.cpp); a task that runs may add further      *)
(* tasks (FightManage::userFight does), so several threads call addTask at *)
(* once.  A task object is used once, because every caller of addTask has  *)
(* just created it with new.                                               *)
(*                                                                         *)
(* size is read in addTask through the reference curSize AFTER sizeMutex   *)
(* is released.  The read races with ++size and --size; on the targets of  *)
(* this project an aligned int is read whole, so the outcomes of the race  *)
(* are the values size has at some moment, which is what Check reads.      *)
(***************************************************************************)
EXTENDS Integers, Sequences, FiniteSets

CONSTANTS
  Task,         \* the task objects a run of the model may create (bound)
  Worker,       \* the threads a run of the model may create (bound)
  Main,         \* the thread of main()
  None,         \* no thread, no task
  THREAD_NUM,   \* threads created at a time (10 in the code)
  Headroom,     \* the pool grows when size >= capacity - Headroom (4)
  MaxFailed,    \* how many calls of pthread_create fail (bound)
  Spurious      \* whether pthread_cond_wait may return without a signal

ASSUME ThreadPoolAssumption ==
  /\ Main \notin Worker
  /\ None \notin Worker \cup {Main} \cup Task
  /\ IsFiniteSet(Worker) /\ IsFiniteSet(Task)
  /\ THREAD_NUM \in Nat /\ Headroom \in Nat
  /\ 0 < Headroom /\ Headroom < THREAD_NUM
  /\ MaxFailed \in Nat /\ MaxFailed < THREAD_NUM
  /\ Spurious \in BOOLEAN

Thread == Worker \cup {Main}

VARIABLES
  taskList,         \* MyThreadPool::taskList
  size,             \* MyThreadPool::size, the tasks counted as running
  capacity,         \* the threads the pool believes it has
  toCreate,         \* calls of pthread_create left in the running create()
  pthreadMutex, sizeMutex, dilatationMutex,   \* their owner, or None
  waiting,          \* the threads blocked on pthreadCond
  pc,               \* where each thread is
  task,             \* the local variable task of threadWork
  reg,              \* the value a thread has loaded for ++size or --size
  arg,              \* the argument of the call of addTask a thread is in
  deleted           \* the tasks that have run and are deleted

tasks    == <<taskList, task, arg, deleted>>
counters == <<size, capacity, toCreate>>
mutexes  == <<pthreadMutex, sizeMutex, dilatationMutex>>
vars == <<tasks, counters, mutexes, waiting, pc, reg>>

-----------------------------------------------------------------------------
(* Program counters.  threadWork, addTask, and the two ends of main.       *)

LoopPC == {"lock", "test", "sleep", "wait", "taken", "incLoad", "incStore",
           "run", "decLoad", "decStore", "delete"}
AddPC  == {"dilLock", "bind", "check", "create", "dilUnlock", "push", "signal"}
WorkerPC == {"none"} \cup LoopPC \cup AddPC
MainPC   == {"construct", "accept"} \cup AddPC

Queued   == {taskList[i] : i \in DOMAIN taskList}
Held     == {task[w] : w \in Worker} \ {None}
InTransit == {arg[c] : c \in Thread} \ {None}
Fresh(t) == t \notin Queued \cup Held \cup InTransit \cup deleted
Created  == {w \in Worker : pc[w] # "none"}
\* The calls of pthread_create that returned an error.
Failed   == capacity - toCreate - Cardinality(Created)

Init ==
  /\ taskList = <<>>
  /\ size = 0
  /\ capacity = THREAD_NUM
  /\ toCreate = THREAD_NUM
  /\ pthreadMutex = None /\ sizeMutex = None /\ dilatationMutex = None
  /\ waiting = {}
  /\ pc = [c \in Thread |-> IF c = Main THEN "construct" ELSE "none"]
  /\ task = [w \in Worker |-> None]
  /\ reg = [w \in Worker |-> 0]
  /\ arg = [c \in Thread |-> None]
  /\ deleted = {}

Goto(c, from, to) ==
  /\ pc[c] = from
  /\ pc' = [pc EXCEPT ![c] = to]

Acquire(m, c) == m = None /\ m' = c
Release(m)    == m' = None

-----------------------------------------------------------------------------
(* create(): one call of pthread_create per step, from the constructor or  *)
(* from dilatation.  A call that fails is ignored, and capacity keeps      *)
(* counting the thread that does not exist.                                *)

\* Mutant: the loop of create() runs once more than it should.
CreateOneMore(c) ==
  /\ pc[c] \in {"construct", "create"}
  /\ toCreate >= 0
  /\ toCreate' = toCreate - 1
  /\ \/ \E w \in Worker : Goto(w, "none", "lock")
     \/ Failed < MaxFailed /\ UNCHANGED pc
  /\ UNCHANGED <<tasks, size, capacity, mutexes, waiting, reg>>

Create(c) ==
  /\ pc[c] \in {"construct", "create"}
  /\ toCreate > 0
  /\ toCreate' = toCreate - 1
  /\ \/ \E w \in Worker : Goto(w, "none", "lock")
     \/ Failed < MaxFailed /\ UNCHANGED pc
  /\ UNCHANGED <<tasks, size, capacity, mutexes, waiting, reg>>

CreateDone(c) ==
  /\ toCreate = 0
  /\ \/ Goto(c, "construct", "accept")
     \/ Goto(c, "create", "dilUnlock")
  /\ UNCHANGED <<tasks, counters, mutexes, waiting, reg>>

-----------------------------------------------------------------------------
(* addTask(), called by main after accept and by a task that runs.         *)

CallAddTask(c, t) ==
  /\ Fresh(t)
  /\ arg' = [arg EXCEPT ![c] = t]
  /\ UNCHANGED <<counters, taskList, mutexes, waiting, task, reg, deleted>>

Accept(t) == Goto(Main, "accept", "dilLock") /\ CallAddTask(Main, t)

RunAdds(w, t) == Goto(w, "run", "dilLock") /\ CallAddTask(w, t)

LockDilatation(c) ==
  /\ Goto(c, "dilLock", "bind")
  /\ Acquire(dilatationMutex, c)
  /\ UNCHANGED <<tasks, counters, pthreadMutex, sizeMutex, waiting, reg>>

\* lock, bind the reference curSize to size, unlock: nothing is read yet.
BindCurSize(c) ==
  /\ Goto(c, "bind", "check")
  /\ sizeMutex = None
  /\ UNCHANGED <<tasks, counters, mutexes, waiting, reg>>

\* Mutant: the headroom is one thread too large.
CheckEarly(c) ==
  /\ \/ /\ size >= capacity - Headroom - 1
        /\ Goto(c, "check", "create")
        /\ capacity' = capacity + THREAD_NUM
        /\ toCreate' = THREAD_NUM
     \/ /\ size < capacity - Headroom - 1
        /\ Goto(c, "check", "dilUnlock")
        /\ UNCHANGED <<capacity, toCreate>>
  /\ UNCHANGED <<tasks, size, mutexes, waiting, reg>>

Check(c) ==
  /\ \/ /\ size >= capacity - Headroom
        /\ Goto(c, "check", "create")
        /\ capacity' = capacity + THREAD_NUM
        /\ toCreate' = THREAD_NUM
     \/ /\ size < capacity - Headroom
        /\ Goto(c, "check", "dilUnlock")
        /\ UNCHANGED <<capacity, toCreate>>
  /\ UNCHANGED <<tasks, size, mutexes, waiting, reg>>

UnlockDilatation(c) ==
  /\ Goto(c, "dilUnlock", "push")
  /\ Release(dilatationMutex)
  /\ UNCHANGED <<tasks, counters, pthreadMutex, sizeMutex, waiting, reg>>

\* Mutant: the list is extended without pthreadMutex.
PushUnlocked(c) ==
  /\ Goto(c, "push", "signal")
  /\ taskList' = Append(taskList, arg[c])
  /\ arg' = [arg EXCEPT ![c] = None]
  /\ UNCHANGED <<counters, mutexes, waiting, task, reg, deleted>>

\* lock, push_back, unlock: taskList is touched under pthreadMutex only.
Push(c) ==
  /\ Goto(c, "push", "signal")
  /\ pthreadMutex = None
  /\ taskList' = Append(taskList, arg[c])
  /\ arg' = [arg EXCEPT ![c] = None]
  /\ UNCHANGED <<counters, mutexes, waiting, task, reg, deleted>>

\* Mutant: addTask returns without the signal.
SignalNobody(c) ==
  /\ Goto(c, "signal", IF c = Main THEN "accept" ELSE "run")
  /\ UNCHANGED <<tasks, counters, mutexes, waiting, reg>>

\* pthread_cond_signal wakes one waiter, if there is one; addTask returns.
Signal(c) ==
  /\ Goto(c, "signal", IF c = Main THEN "accept" ELSE "run")
  /\ \/ waiting = {} /\ UNCHANGED waiting
     \/ \E w \in waiting : waiting' = waiting \ {w}
  /\ UNCHANGED <<tasks, counters, mutexes, reg>>

-----------------------------------------------------------------------------
(* threadWork(): the loop of a worker.                                     *)

LockQueue(w) ==
  /\ \/ Goto(w, "lock", "test")
     \/ w \notin waiting /\ Goto(w, "wait", "test")
  /\ Acquire(pthreadMutex, w)
  /\ UNCHANGED <<tasks, counters, sizeMutex, dilatationMutex, waiting, reg>>

FindEmpty(w) ==
  /\ Goto(w, "test", "sleep")
  /\ taskList = <<>>
  /\ UNCHANGED <<tasks, counters, mutexes, waiting, reg>>

\* pthread_cond_wait releases the mutex and joins the waiters in one step.
CondWait(w) ==
  /\ Goto(w, "sleep", "wait")
  /\ Release(pthreadMutex)
  /\ waiting' = waiting \cup {w}
  /\ UNCHANGED <<tasks, counters, sizeMutex, dilatationMutex, reg>>

WakeSpuriously(w) ==
  /\ Spurious
  /\ w \in waiting
  /\ waiting' = waiting \ {w}
  /\ UNCHANGED <<tasks, counters, mutexes, pc, reg>>

\* Mutant: the newest task is taken first.
TakeBack(w) ==
  /\ Goto(w, "test", "taken")
  /\ taskList # <<>>
  /\ task' = [task EXCEPT ![w] = taskList[Len(taskList)]]
  /\ taskList' = SubSeq(taskList, 1, Len(taskList) - 1)
  /\ UNCHANGED <<counters, mutexes, waiting, reg, arg, deleted>>

\* Mutant: the task is read and stays in the list.
TakeCopy(w) ==
  /\ Goto(w, "test", "taken")
  /\ taskList # <<>>
  /\ task' = [task EXCEPT ![w] = Head(taskList)]
  /\ UNCHANGED <<counters, taskList, mutexes, waiting, reg, arg, deleted>>

Take(w) ==
  /\ Goto(w, "test", "taken")
  /\ taskList # <<>>
  /\ task' = [task EXCEPT ![w] = Head(taskList)]
  /\ taskList' = Tail(taskList)
  /\ UNCHANGED <<counters, mutexes, waiting, reg, arg, deleted>>

\* Mutant: the worker runs its task with pthreadMutex still locked.
KeepQueueLocked(w) ==
  /\ Goto(w, "taken", "incLoad")
  /\ UNCHANGED <<tasks, counters, mutexes, waiting, reg>>

UnlockQueue(w) ==
  /\ Goto(w, "taken", "incLoad")
  /\ Release(pthreadMutex)
  /\ UNCHANGED <<tasks, counters, sizeMutex, dilatationMutex, waiting, reg>>

\* Mutant: ++size and --size without sizeMutex.
LoadSizeUnlocked(w) ==
  /\ \/ Goto(w, "incLoad", "incStore")
     \/ Goto(w, "decLoad", "decStore")
  /\ reg' = [reg EXCEPT ![w] = size]
  /\ UNCHANGED <<tasks, counters, mutexes, waiting>>

\* ++size and --size are a load and a store, under sizeMutex.
LoadSize(w) ==
  /\ \/ Goto(w, "incLoad", "incStore")
     \/ Goto(w, "decLoad", "decStore")
  /\ Acquire(sizeMutex, w)
  /\ reg' = [reg EXCEPT ![w] = size]
  /\ UNCHANGED <<tasks, counters, pthreadMutex, dilatationMutex, waiting>>

StoreSize(w) ==
  /\ \/ Goto(w, "incStore", "run") /\ size' = reg[w] + 1
     \/ Goto(w, "decStore", "delete") /\ size' = reg[w] - 1
  /\ Release(sizeMutex)
  /\ reg' = [reg EXCEPT ![w] = 0]
  /\ UNCHANGED <<tasks, capacity, toCreate, pthreadMutex, dilatationMutex,
                 waiting>>

\* task->run() returns: a session is closed, a fight is over.
RunReturns(w) ==
  /\ Goto(w, "run", "decLoad")
  /\ UNCHANGED <<tasks, counters, mutexes, waiting, reg>>

DeleteTask(w) ==
  /\ Goto(w, "delete", "lock")
  /\ deleted' = deleted \cup {task[w]}
  /\ task' = [task EXCEPT ![w] = None]
  /\ UNCHANGED <<counters, taskList, mutexes, waiting, reg, arg>>

-----------------------------------------------------------------------------

AddStep(c) ==
  \/ Create(c) \/ CreateDone(c)
  \/ LockDilatation(c) \/ BindCurSize(c) \/ Check(c) \/ UnlockDilatation(c)
  \/ Push(c) \/ Signal(c)

LoopStep(w) ==
  \/ LockQueue(w) \/ FindEmpty(w) \/ CondWait(w) \/ Take(w) \/ UnlockQueue(w)
  \/ LoadSize(w) \/ StoreSize(w) \/ DeleteTask(w)

Next ==
  \/ \E t \in Task : Accept(t)
  \/ \E w \in Worker, t \in Task : RunAdds(w, t)
  \/ \E c \in Thread : AddStep(c)
  \/ \E w \in Worker : LoopStep(w) \/ WakeSpuriously(w) \/ RunReturns(w)

Spec == Init /\ [][Next]_vars

(***************************************************************************)
(* The operating system runs every thread that can run; it owes nothing to *)
(* connections that never come, and a task need not return.  A mutex is    *)
(* only weakly fair: nothing says a thread gets it at the first chance.    *)
(***************************************************************************)
FairSpec ==
  /\ Spec
  /\ \A c \in Thread : WF_vars(AddStep(c))
  /\ \A w \in Worker : WF_vars(LoopStep(w))

-----------------------------------------------------------------------------
(* Properties.                                                             *)

TypeOK ==
  /\ taskList \in Seq(Task)
  /\ size \in Int
  /\ capacity \in Nat /\ toCreate \in Nat
  /\ pthreadMutex \in Worker \cup {None}
  /\ sizeMutex \in Worker \cup {None}
  /\ dilatationMutex \in Thread \cup {None}
  /\ waiting \in SUBSET Worker
  /\ pc \in [Thread -> WorkerPC \cup MainPC]
  /\ pc[Main] \in MainPC /\ \A w \in Worker : pc[w] \in WorkerPC
  /\ task \in [Worker -> Task \cup {None}]
  /\ reg \in [Worker -> Int]
  /\ arg \in [Thread -> Task \cup {None}]
  /\ deleted \in SUBSET Task

\* The threads between ++size and --size, as addTask should see them.
Counted == {w \in Worker : pc[w] \in {"run", "decLoad", "decStore"} \cup AddPC}

(* The load of the pool that decides its growth is right at every moment,  *)
(* whatever the interleaving of the increments and decrements, and never   *)
(* exceeds the threads that exist (myThreadPool.h:54-62, 113).             *)
SizeIsLoad ==
  /\ size = Cardinality(Counted)
  /\ size <= Cardinality(Created)
  /\ Cardinality(Created) <= capacity

Signalling == {c \in Thread : pc[c] = "signal"}
Awake == {w \in Worker : pc[w] \in {"lock", "test"}}
           \cup {w \in Worker \ waiting : pc[w] = "wait"}

(* No lost wakeup (myThreadPool.h:38-41, 123-126): while a thread sleeps   *)
(* on pthreadCond, every queued task is matched by a thread that is awake  *)
(* and will look at the list, or by a signal that is still to be sent.     *)
WakeupsCoverQueue ==
  waiting # {} =>
    Len(taskList) <= Cardinality(Signalling) + Cardinality(Awake)

(* A task is in one place only: no task is queued twice, run by two        *)
(* threads, or queued again after it ran (myThreadPool.h:43-64).           *)
TaskInOnePlace ==
  /\ \A i, j \in DOMAIN taskList : taskList[i] = taskList[j] => i = j
  /\ \A v, w \in Worker : task[v] = task[w] /\ task[v] # None => v = w
  /\ \A c, d \in Thread : arg[c] = arg[d] /\ arg[c] # None => c = d
  /\ Queued \cap Held = {} /\ Queued \cap InTransit = {} /\ Held \cap InTransit = {}
  /\ (Queued \cup Held \cup InTransit) \cap deleted = {}

(* The pool implements the abstract queue: first in, first out, each task  *)
(* started once and finished once.                                         *)
Queue == INSTANCE TaskQueue
           WITH pending <- taskList, running <- Held, finished <- deleted
ImplementsQueue == Queue!Spec

(* The pool grows one dilatation at a time, and only when the load it read *)
(* left less than Headroom threads (myThreadPool.h:107-121).               *)
GrowthIsSerial ==
  [][capacity' # capacity =>
       /\ toCreate = 0
       /\ size + Headroom >= capacity
       /\ \A c \in Thread : pc[c] # "create"]_vars

AllBusy == \A w \in Created : pc[w] \in {"run"} \cup AddPC

\* A worker whose next step in threadWork waits for no other thread.
CanStep(w) ==
  \/ pc[w] = "lock" /\ pthreadMutex = None
  \/ pc[w] = "wait" /\ w \notin waiting /\ pthreadMutex = None
  \/ pc[w] \in {"test", "sleep", "taken", "incStore", "decStore", "delete"}
  \/ pc[w] \in {"incLoad", "decLoad"} /\ sizeMutex = None

(* Nobody waits in vain: while a task is queued and some thread is not     *)
(* inside a task, a worker can go on, or a signal is about to be sent.     *)
(* Neither the mutexes nor the condition variable hold up all of them      *)
(* (myThreadPool.h:36-65, 123-126).                                        *)
QueueIsServed ==
  taskList # <<>> /\ ~AllBusy => Signalling # {} \/ \E w \in Worker : CanStep(w)

(* A queued task is left waiting only while every thread is inside a task: *)
(* under fair scheduling alone, it is taken, or all threads are busy.      *)
WorkConserving ==
  \A t \in Task : t \in Queued ~> (t \notin Queued \/ AllBusy)

\* Clients leave and fights end, so that every run() returns.
EveryRunReturns == \A w \in Worker : WF_vars(RunReturns(w))

(* When every run() returns, every task handed to addTask runs and is      *)
(* deleted (myThreadPool.h:58-64).                                         *)
EveryTaskFinishes ==
  EveryRunReturns =>
    \A t \in Task : t \in InTransit \cup Queued ~> t \in deleted
=============================================================================
