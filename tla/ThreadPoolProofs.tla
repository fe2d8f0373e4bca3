-------------------------- MODULE ThreadPoolProofs --------------------------
(***************************************************************************)
(* Theorems of ThreadPool: for every number of threads and tasks, the      *)
(* mutexes keep the pool's bookkeeping exact, no wakeup is lost, and the   *)
(* pool implements the abstract queue.                                     *)
(***************************************************************************)
EXTENDS ThreadPool, FiniteSetTheorems, TLAPS

(* The inductive invariant, one conjunct per idea.                         *)

PthreadSection == {"test", "sleep", "taken"}
SizeSection    == {"incStore", "decStore"}
DilatSection   == {"bind", "check", "create", "dilUnlock"}
HoldingPC == {"taken", "incLoad", "incStore", "run", "decLoad", "decStore",
              "delete"} \cup AddPC

LockOwners ==
  /\ \A w \in Worker : pc[w] \in PthreadSection <=> pthreadMutex = w
  /\ \A w \in Worker : pc[w] \in SizeSection <=> sizeMutex = w
  /\ \A c \in Thread : pc[c] \in DilatSection <=> dilatationMutex = c

Locals ==
  /\ \A w \in Worker : task[w] # None <=> pc[w] \in HoldingPC
  /\ \A c \in Thread : arg[c] # None <=> pc[c] \in AddPC \ {"signal"}
  /\ \A w \in Worker : pc[w] \in SizeSection => reg[w] = size
  /\ \A w \in Worker : pc[w] = "sleep" => taskList = <<>>
  /\ \A w \in waiting : pc[w] = "wait"

Construction ==
  /\ pc[Main] = "construct" =>
       taskList = <<>> /\ \A w \in Worker : pc[w] \notin HoldingPC
  /\ toCreate # 0 => \E c \in Thread : pc[c] \in {"construct", "create"}

Accounting ==
  /\ size = Cardinality(Counted)
  /\ Cardinality(Created) + toCreate <= capacity

IInv ==
  /\ TypeOK
  /\ LockOwners
  /\ Locals
  /\ Construction
  /\ Accounting
  /\ TaskInOnePlace
  /\ WakeupsCoverQueue

USE ThreadPoolAssumption DEF ThreadPoolAssumption, Thread, LoopPC, AddPC, WorkerPC,
  MainPC, tasks, counters, mutexes, vars

-----------------------------------------------------------------------------
(* One lemma for each part of the invariant: every step preserves it.      *)

LEMMA TypePreserved ==
  ASSUME TypeOK, Locals, [Next]_vars
  PROVE  TypeOK'
<1> USE DEF TypeOK, Locals, HoldingPC
<1>1. ASSUME NEW t \in Task, Accept(t)
      PROVE  TypeOK'
  BY <1>1 DEF Accept, CallAddTask, Goto, Acquire, Release
<1>2. ASSUME NEW w \in Worker, NEW t \in Task, RunAdds(w, t)
      PROVE  TypeOK'
  BY <1>2 DEF RunAdds, CallAddTask, Goto, Acquire, Release
<1>3. ASSUME NEW c \in Thread, Create(c)
      PROVE  TypeOK'
  <2>1. CASE \E w \in Worker : Goto(w, "none", "lock")
    BY <1>3, <2>1 DEF Create, Goto
  <2>2. CASE UNCHANGED pc
    BY <1>3, <2>2 DEF Create
  <2>. QED
    BY <1>3, <2>1, <2>2 DEF Create
<1>4. ASSUME NEW c \in Thread, CreateDone(c)
      PROVE  TypeOK'
  <2>1. CASE Goto(c, "construct", "accept")
    BY <1>4, <2>1 DEF CreateDone, Goto
  <2>2. CASE Goto(c, "create", "dilUnlock")
    BY <1>4, <2>2 DEF CreateDone, Goto
  <2>. QED
    BY <1>4, <2>1, <2>2 DEF CreateDone
<1>5. ASSUME NEW c \in Thread, LockDilatation(c)
      PROVE  TypeOK'
  BY <1>5 DEF LockDilatation, Goto, Acquire, Release
<1>6. ASSUME NEW c \in Thread, BindCurSize(c)
      PROVE  TypeOK'
  BY <1>6 DEF BindCurSize, Goto, Acquire, Release
<1>7. ASSUME NEW c \in Thread, Check(c)
      PROVE  TypeOK'
  <2>1. CASE Goto(c, "check", "create")
    BY <1>7, <2>1 DEF Check, Goto
  <2>2. CASE Goto(c, "check", "dilUnlock")
    BY <1>7, <2>2 DEF Check, Goto
  <2>. QED
    BY <1>7, <2>1, <2>2 DEF Check
<1>8. ASSUME NEW c \in Thread, UnlockDilatation(c)
      PROVE  TypeOK'
  BY <1>8 DEF UnlockDilatation, Goto, Acquire, Release
<1>9. ASSUME NEW c \in Thread, Push(c)
      PROVE  TypeOK'
  BY <1>9 DEF Push, Goto, Acquire, Release
<1>10. ASSUME NEW c \in Thread, Signal(c)
      PROVE  TypeOK'
  BY <1>10 DEF Signal, Goto, Acquire, Release
<1>11. ASSUME NEW w \in Worker, LockQueue(w)
      PROVE  TypeOK'
  <2>1. CASE Goto(w, "lock", "test")
    BY <1>11, <2>1 DEF LockQueue, Goto, Acquire, Release
  <2>2. CASE Goto(w, "wait", "test")
    BY <1>11, <2>2 DEF LockQueue, Goto, Acquire, Release
  <2>. QED
    BY <1>11, <2>1, <2>2 DEF LockQueue
<1>12. ASSUME NEW w \in Worker, FindEmpty(w)
      PROVE  TypeOK'
  BY <1>12 DEF FindEmpty, Goto, Acquire, Release
<1>13. ASSUME NEW w \in Worker, CondWait(w)
      PROVE  TypeOK'
  BY <1>13 DEF CondWait, Goto, Acquire, Release
<1>14. ASSUME NEW w \in Worker, Take(w)
      PROVE  TypeOK'
  BY <1>14 DEF Take, Goto, Acquire, Release
<1>15. ASSUME NEW w \in Worker, UnlockQueue(w)
      PROVE  TypeOK'
  BY <1>15 DEF UnlockQueue, Goto, Acquire, Release
<1>16. ASSUME NEW w \in Worker, LoadSize(w)
      PROVE  TypeOK'
  <2>1. CASE Goto(w, "incLoad", "incStore")
    BY <1>16, <2>1 DEF LoadSize, Goto, Acquire, Release
  <2>2. CASE Goto(w, "decLoad", "decStore")
    BY <1>16, <2>2 DEF LoadSize, Goto, Acquire, Release
  <2>. QED
    BY <1>16, <2>1, <2>2 DEF LoadSize
<1>17. ASSUME NEW w \in Worker, StoreSize(w)
      PROVE  TypeOK'
  <2>1. CASE Goto(w, "incStore", "run")
    BY <1>17, <2>1 DEF StoreSize, Goto, Release
  <2>2. CASE Goto(w, "decStore", "delete")
    BY <1>17, <2>2 DEF StoreSize, Goto, Release
  <2>. QED
    BY <1>17, <2>1, <2>2 DEF StoreSize
<1>18. ASSUME NEW w \in Worker, DeleteTask(w)
      PROVE  TypeOK'
  BY <1>18 DEF DeleteTask, Goto, Acquire, Release
<1>19. ASSUME NEW w \in Worker, WakeSpuriously(w)
      PROVE  TypeOK'
  BY <1>19 DEF WakeSpuriously, Goto, Acquire, Release
<1>20. ASSUME NEW w \in Worker, RunReturns(w)
      PROVE  TypeOK'
  BY <1>20 DEF RunReturns, Goto, Acquire, Release
<1>21. CASE UNCHANGED vars
  BY <1>21
<1>. QED
  BY <1>1, <1>2, <1>3, <1>4, <1>5, <1>6, <1>7, <1>8, <1>9, <1>10, <1>11, <1>12, <1>13, <1>14, <1>15, <1>16, <1>17, <1>18, <1>19, <1>20, <1>21 DEF Next, AddStep, LoopStep

LEMMA LocksPreserved ==
  ASSUME TypeOK, LockOwners, [Next]_vars
  PROVE  LockOwners'
<1> USE DEF TypeOK, LockOwners, PthreadSection, SizeSection, DilatSection
<1>1. ASSUME NEW t \in Task, Accept(t)
      PROVE  LockOwners'
  BY <1>1 DEF Accept, CallAddTask, Goto, Acquire, Release
<1>2. ASSUME NEW w \in Worker, NEW t \in Task, RunAdds(w, t)
      PROVE  LockOwners'
  BY <1>2 DEF RunAdds, CallAddTask, Goto, Acquire, Release
<1>3. ASSUME NEW c \in Thread, Create(c)
      PROVE  LockOwners'
  <2>1. CASE \E w \in Worker : Goto(w, "none", "lock")
    BY <1>3, <2>1 DEF Create, Goto
  <2>2. CASE UNCHANGED pc
    BY <1>3, <2>2 DEF Create
  <2>. QED
    BY <1>3, <2>1, <2>2 DEF Create
<1>4. ASSUME NEW c \in Thread, CreateDone(c)
      PROVE  LockOwners'
  <2>1. CASE Goto(c, "construct", "accept")
    BY <1>4, <2>1 DEF CreateDone, Goto, Acquire, Release
  <2>2. CASE Goto(c, "create", "dilUnlock")
    BY <1>4, <2>2 DEF CreateDone, Goto, Acquire, Release
  <2>. QED
    BY <1>4, <2>1, <2>2 DEF CreateDone
<1>5. ASSUME NEW c \in Thread, LockDilatation(c)
      PROVE  LockOwners'
  BY <1>5 DEF LockDilatation, Goto, Acquire, Release
<1>6. ASSUME NEW c \in Thread, BindCurSize(c)
      PROVE  LockOwners'
  BY <1>6 DEF BindCurSize, Goto, Acquire, Release
<1>7. ASSUME NEW c \in Thread, Check(c)
      PROVE  LockOwners'
  BY <1>7 DEF Check, Goto, Acquire, Release
<1>8. ASSUME NEW c \in Thread, UnlockDilatation(c)
      PROVE  LockOwners'
  BY <1>8 DEF UnlockDilatation, Goto, Acquire, Release
<1>9. ASSUME NEW c \in Thread, Push(c)
      PROVE  LockOwners'
  BY <1>9 DEF Push, Goto, Acquire, Release
<1>10. ASSUME NEW c \in Thread, Signal(c)
      PROVE  LockOwners'
  BY <1>10 DEF Signal, Goto, Acquire, Release
<1>11. ASSUME NEW w \in Worker, LockQueue(w)
      PROVE  LockOwners'
  <2>1. CASE Goto(w, "lock", "test")
    BY <1>11, <2>1 DEF LockQueue, Goto, Acquire, Release
  <2>2. CASE Goto(w, "wait", "test")
    BY <1>11, <2>2 DEF LockQueue, Goto, Acquire, Release
  <2>. QED
    BY <1>11, <2>1, <2>2 DEF LockQueue
<1>12. ASSUME NEW w \in Worker, FindEmpty(w)
      PROVE  LockOwners'
  BY <1>12 DEF FindEmpty, Goto, Acquire, Release
<1>13. ASSUME NEW w \in Worker, CondWait(w)
      PROVE  LockOwners'
  BY <1>13 DEF CondWait, Goto, Acquire, Release
<1>14. ASSUME NEW w \in Worker, Take(w)
      PROVE  LockOwners'
  BY <1>14 DEF Take, Goto, Acquire, Release
<1>15. ASSUME NEW w \in Worker, UnlockQueue(w)
      PROVE  LockOwners'
  BY <1>15 DEF UnlockQueue, Goto, Acquire, Release
<1>16. ASSUME NEW w \in Worker, LoadSize(w)
      PROVE  LockOwners'
  <2>1. CASE Goto(w, "incLoad", "incStore")
    BY <1>16, <2>1 DEF LoadSize, Goto, Acquire, Release
  <2>2. CASE Goto(w, "decLoad", "decStore")
    BY <1>16, <2>2 DEF LoadSize, Goto, Acquire, Release
  <2>. QED
    BY <1>16, <2>1, <2>2 DEF LoadSize
<1>17. ASSUME NEW w \in Worker, StoreSize(w)
      PROVE  LockOwners'
  <2>1. CASE Goto(w, "incStore", "run")
    BY <1>17, <2>1 DEF StoreSize, Goto, Acquire, Release
  <2>2. CASE Goto(w, "decStore", "delete")
    BY <1>17, <2>2 DEF StoreSize, Goto, Acquire, Release
  <2>. QED
    BY <1>17, <2>1, <2>2 DEF StoreSize
<1>18. ASSUME NEW w \in Worker, DeleteTask(w)
      PROVE  LockOwners'
  BY <1>18 DEF DeleteTask, Goto, Acquire, Release
<1>19. ASSUME NEW w \in Worker, WakeSpuriously(w)
      PROVE  LockOwners'
  BY <1>19 DEF WakeSpuriously, Goto, Acquire, Release
<1>20. ASSUME NEW w \in Worker, RunReturns(w)
      PROVE  LockOwners'
  BY <1>20 DEF RunReturns, Goto, Acquire, Release
<1>21. CASE UNCHANGED vars
  BY <1>21
<1>. QED
  BY <1>1, <1>2, <1>3, <1>4, <1>5, <1>6, <1>7, <1>8, <1>9, <1>10, <1>11, <1>12, <1>13, <1>14, <1>15, <1>16, <1>17, <1>18, <1>19, <1>20, <1>21 DEF Next, AddStep, LoopStep

LEMMA LocalsPreserved ==
  ASSUME TypeOK, LockOwners, Locals, [Next]_vars
  PROVE  Locals'
<1> USE DEF TypeOK, LockOwners, Locals, PthreadSection, SizeSection, DilatSection, HoldingPC
<1>1. ASSUME NEW t \in Task, Accept(t)
      PROVE  Locals'
  BY <1>1 DEF Accept, CallAddTask, Goto, Acquire, Release
<1>2. ASSUME NEW w \in Worker, NEW t \in Task, RunAdds(w, t)
      PROVE  Locals'
  BY <1>2 DEF RunAdds, CallAddTask, Goto, Acquire, Release
<1>3. ASSUME NEW c \in Thread, Create(c)
      PROVE  Locals'
  <2>1. CASE \E w \in Worker : Goto(w, "none", "lock")
    BY <1>3, <2>1 DEF Create, Goto
  <2>2. CASE UNCHANGED pc
    BY <1>3, <2>2 DEF Create
  <2>. QED
    BY <1>3, <2>1, <2>2 DEF Create
<1>4. ASSUME NEW c \in Thread, CreateDone(c)
      PROVE  Locals'
  <2>1. CASE Goto(c, "construct", "accept")
    BY <1>4, <2>1 DEF CreateDone, Goto, Acquire, Release
  <2>2. CASE Goto(c, "create", "dilUnlock")
    BY <1>4, <2>2 DEF CreateDone, Goto, Acquire, Release
  <2>. QED
    BY <1>4, <2>1, <2>2 DEF CreateDone
<1>5. ASSUME NEW c \in Thread, LockDilatation(c)
      PROVE  Locals'
  BY <1>5 DEF LockDilatation, Goto, Acquire, Release
<1>6. ASSUME NEW c \in Thread, BindCurSize(c)
      PROVE  Locals'
  BY <1>6 DEF BindCurSize, Goto, Acquire, Release
<1>7. ASSUME NEW c \in Thread, Check(c)
      PROVE  Locals'
  <2>1. CASE Goto(c, "check", "create")
    BY <1>7, <2>1 DEF Check, Goto
  <2>2. CASE Goto(c, "check", "dilUnlock")
    BY <1>7, <2>2 DEF Check, Goto
  <2>. QED
    BY <1>7, <2>1, <2>2 DEF Check
<1>8. ASSUME NEW c \in Thread, UnlockDilatation(c)
      PROVE  Locals'
  BY <1>8 DEF UnlockDilatation, Goto, Acquire, Release
<1>9. ASSUME NEW c \in Thread, Push(c)
      PROVE  Locals'
  BY <1>9 DEF Push, Goto, Acquire, Release
<1>10. ASSUME NEW c \in Thread, Signal(c)
      PROVE  Locals'
  BY <1>10 DEF Signal, Goto, Acquire, Release
<1>11. ASSUME NEW w \in Worker, LockQueue(w)
      PROVE  Locals'
  <2>1. CASE Goto(w, "lock", "test")
    BY <1>11, <2>1 DEF LockQueue, Goto, Acquire, Release
  <2>2. CASE Goto(w, "wait", "test")
    BY <1>11, <2>2 DEF LockQueue, Goto, Acquire, Release
  <2>. QED
    BY <1>11, <2>1, <2>2 DEF LockQueue
<1>12. ASSUME NEW w \in Worker, FindEmpty(w)
      PROVE  Locals'
  BY <1>12 DEF FindEmpty, Goto, Acquire, Release
<1>13. ASSUME NEW w \in Worker, CondWait(w)
      PROVE  Locals'
  BY <1>13 DEF CondWait, Goto, Acquire, Release
<1>14. ASSUME NEW w \in Worker, Take(w)
      PROVE  Locals'
  BY <1>14 DEF Take, Goto, Acquire, Release
<1>15. ASSUME NEW w \in Worker, UnlockQueue(w)
      PROVE  Locals'
  BY <1>15 DEF UnlockQueue, Goto, Acquire, Release
<1>16. ASSUME NEW w \in Worker, LoadSize(w)
      PROVE  Locals'
  <2>1. CASE Goto(w, "incLoad", "incStore")
    BY <1>16, <2>1 DEF LoadSize, Goto, Acquire
  <2>2. CASE Goto(w, "decLoad", "decStore")
    BY <1>16, <2>2 DEF LoadSize, Goto, Acquire
  <2>. QED
    BY <1>16, <2>1, <2>2 DEF LoadSize
<1>17. ASSUME NEW w \in Worker, StoreSize(w)
      PROVE  Locals'
  <2>1. CASE Goto(w, "incStore", "run")
    BY <1>17, <2>1 DEF StoreSize, Goto, Acquire, Release
  <2>2. CASE Goto(w, "decStore", "delete")
    BY <1>17, <2>2 DEF StoreSize, Goto, Acquire, Release
  <2>. QED
    BY <1>17, <2>1, <2>2 DEF StoreSize
<1>18. ASSUME NEW w \in Worker, DeleteTask(w)
      PROVE  Locals'
  BY <1>18 DEF DeleteTask, Goto, Acquire, Release
<1>19. ASSUME NEW w \in Worker, WakeSpuriously(w)
      PROVE  Locals'
  BY <1>19 DEF WakeSpuriously, Goto, Acquire, Release
<1>20. ASSUME NEW w \in Worker, RunReturns(w)
      PROVE  Locals'
  BY <1>20 DEF RunReturns, Goto, Acquire, Release
<1>21. CASE UNCHANGED vars
  BY <1>21
<1>. QED
  BY <1>1, <1>2, <1>3, <1>4, <1>5, <1>6, <1>7, <1>8, <1>9, <1>10, <1>11, <1>12, <1>13, <1>14, <1>15, <1>16, <1>17, <1>18, <1>19, <1>20, <1>21 DEF Next, AddStep, LoopStep

LEMMA ConstructionPreserved ==
  ASSUME TypeOK, LockOwners, Locals, Construction, [Next]_vars
  PROVE  Construction'
<1> USE DEF TypeOK, LockOwners, Locals, Construction, DilatSection, HoldingPC
<1>1. ASSUME NEW t \in Task, Accept(t)
      PROVE  Construction'
  BY <1>1 DEF Accept, CallAddTask, Goto, Acquire, Release
<1>2. ASSUME NEW w \in Worker, NEW t \in Task, RunAdds(w, t)
      PROVE  Construction'
  BY <1>2 DEF RunAdds, CallAddTask, Goto, Acquire, Release
<1>3. ASSUME NEW c \in Thread, Create(c)
      PROVE  Construction'
  BY <1>3 DEF Create, Goto, Acquire, Release
<1>4. ASSUME NEW c \in Thread, CreateDone(c)
      PROVE  Construction'
  BY <1>4 DEF CreateDone, Goto, Acquire, Release
<1>5. ASSUME NEW c \in Thread, LockDilatation(c)
      PROVE  Construction'
  BY <1>5 DEF LockDilatation, Goto, Acquire, Release
<1>6. ASSUME NEW c \in Thread, BindCurSize(c)
      PROVE  Construction'
  BY <1>6 DEF BindCurSize, Goto, Acquire, Release
<1>7. ASSUME NEW c \in Thread, Check(c)
      PROVE  Construction'
  BY <1>7 DEF Check, Goto, Acquire, Release
<1>8. ASSUME NEW c \in Thread, UnlockDilatation(c)
      PROVE  Construction'
  BY <1>8 DEF UnlockDilatation, Goto, Acquire, Release
<1>9. ASSUME NEW c \in Thread, Push(c)
      PROVE  Construction'
  BY <1>9 DEF Push, Goto, Acquire, Release
<1>10. ASSUME NEW c \in Thread, Signal(c)
      PROVE  Construction'
  BY <1>10 DEF Signal, Goto, Acquire, Release
<1>11. ASSUME NEW w \in Worker, LockQueue(w)
      PROVE  Construction'
  BY <1>11 DEF LockQueue, Goto, Acquire, Release
<1>12. ASSUME NEW w \in Worker, FindEmpty(w)
      PROVE  Construction'
  BY <1>12 DEF FindEmpty, Goto, Acquire, Release
<1>13. ASSUME NEW w \in Worker, CondWait(w)
      PROVE  Construction'
  BY <1>13 DEF CondWait, Goto, Acquire, Release
<1>14. ASSUME NEW w \in Worker, Take(w)
      PROVE  Construction'
  BY <1>14 DEF Take, Goto, Acquire, Release
<1>15. ASSUME NEW w \in Worker, UnlockQueue(w)
      PROVE  Construction'
  BY <1>15 DEF UnlockQueue, Goto, Acquire, Release
<1>16. ASSUME NEW w \in Worker, LoadSize(w)
      PROVE  Construction'
  BY <1>16 DEF LoadSize, Goto, Acquire, Release
<1>17. ASSUME NEW w \in Worker, StoreSize(w)
      PROVE  Construction'
  BY <1>17 DEF StoreSize, Goto, Acquire, Release
<1>18. ASSUME NEW w \in Worker, DeleteTask(w)
      PROVE  Construction'
  BY <1>18 DEF DeleteTask, Goto, Acquire, Release
<1>19. ASSUME NEW w \in Worker, WakeSpuriously(w)
      PROVE  Construction'
  BY <1>19 DEF WakeSpuriously, Goto, Acquire, Release
<1>20. ASSUME NEW w \in Worker, RunReturns(w)
      PROVE  Construction'
  BY <1>20 DEF RunReturns, Goto, Acquire, Release
<1>21. CASE UNCHANGED vars
  BY <1>21
<1>. QED
  BY <1>1, <1>2, <1>3, <1>4, <1>5, <1>6, <1>7, <1>8, <1>9, <1>10, <1>11, <1>12, <1>13, <1>14, <1>15, <1>16, <1>17, <1>18, <1>19, <1>20, <1>21 DEF Next, AddStep, LoopStep

-----------------------------------------------------------------------------
(* The elements of Append(s, t) and of Tail(s), position by position.      *)

\* The elements of a list with a task more.
LEMMA AppendElements ==
  ASSUME NEW s \in Seq(Task), NEW t \in Task
  PROVE  /\ DOMAIN Append(s, t) = DOMAIN s \cup {Len(s) + 1}
         /\ Len(s) + 1 \notin DOMAIN s
         /\ Append(s, t)[Len(s) + 1] = t
         /\ \A i \in DOMAIN s : Append(s, t)[i] = s[i]
OBVIOUS

\* And without its first.
LEMMA TailElements ==
  ASSUME NEW s \in Seq(Task), s # <<>>
  PROVE  /\ Len(s) \in Nat /\ Len(s) > 0
         /\ DOMAIN s = 1..Len(s)
         /\ Head(s) = s[1] /\ s[1] \in Task
         /\ DOMAIN Tail(s) = 1..(Len(s) - 1)
         /\ \A i \in DOMAIN Tail(s) : Tail(s)[i] = s[i + 1]
OBVIOUS

-----------------------------------------------------------------------------
(* What the four steps that move a task do to the sets of tasks.           *)

\* addTask is called with a task that is nowhere else.
LEMMA CallEffect ==
  ASSUME TypeOK, Locals, NEW c \in Thread, NEW t \in Task,
         pc[c] \in {"accept", "run"}, CallAddTask(c, t)
  PROVE  /\ InTransit' = InTransit \cup {t}
         /\ Queued' = Queued /\ Held' = Held /\ deleted' = deleted
         /\ t \notin Queued \cup Held \cup InTransit \cup deleted
<1>1. arg[c] = None
  BY DEF Locals
<1>. QED
  BY <1>1 DEF CallAddTask, Fresh, InTransit, Queued, Held, TypeOK

\* The task moves from the call into the list, ...
LEMMA PushEffect ==
  ASSUME TypeOK, Locals, TaskInOnePlace, NEW c \in Thread, Push(c)
  PROVE  /\ arg[c] \in InTransit
         /\ taskList' = Append(taskList, arg[c])
         /\ Queued' = Queued \cup {arg[c]}
         /\ InTransit' = InTransit \ {arg[c]}
         /\ Held' = Held /\ deleted' = deleted
<1>1. arg[c] # None /\ arg[c] \in Task
  BY DEF Push, Goto, Locals, TypeOK
<1>2. /\ DOMAIN taskList' = DOMAIN taskList \cup {Len(taskList) + 1}
      /\ taskList'[Len(taskList) + 1] = arg[c]
      /\ \A i \in DOMAIN taskList : taskList'[i] = taskList[i]
  BY <1>1, AppendElements DEF Push, TypeOK
<1>3. Queued' = Queued \cup {arg[c]}
  BY <1>2 DEF Queued
<1>4. InTransit' = InTransit \ {arg[c]}
  BY <1>1 DEF Push, InTransit, TypeOK, TaskInOnePlace
<1>5. arg[c] \in InTransit
  BY <1>1 DEF InTransit
<1>6. Held' = Held
  BY DEF Push, Held
<1>. QED
  BY <1>3, <1>4, <1>5, <1>6 DEF Push

\* ... from the list to a worker, ...
LEMMA TakeEffect ==
  ASSUME TypeOK, Locals, TaskInOnePlace, NEW w \in Worker, Take(w)
  PROVE  /\ Head(taskList) \in Queued
         /\ taskList' = Tail(taskList)
         /\ Queued' = Queued \ {Head(taskList)}
         /\ Held' = Held \cup {Head(taskList)}
         /\ InTransit' = InTransit /\ deleted' = deleted
<1>1. task[w] = None
  BY DEF Take, Goto, Locals, HoldingPC, TypeOK
<1>2. /\ Len(taskList) \in Nat /\ Len(taskList) > 0
      /\ DOMAIN taskList = 1..Len(taskList)
      /\ Head(taskList) = taskList[1] /\ taskList[1] \in Task
      /\ DOMAIN taskList' = 1..(Len(taskList) - 1)
      /\ \A i \in DOMAIN taskList' : taskList'[i] = taskList[i + 1]
  BY TailElements DEF Take, TypeOK
<1>3. Head(taskList) \in Queued
  BY <1>2 DEF Queued
<1>4. Queued' = Queued \ {Head(taskList)}
  <2>1. Queued' \subseteq Queued \ {Head(taskList)}
    BY <1>2 DEF Queued, TaskInOnePlace
  <2>2. ASSUME NEW i \in DOMAIN taskList, taskList[i] # Head(taskList)
        PROVE  taskList[i] \in Queued'
    <3>1. i - 1 \in DOMAIN taskList' /\ taskList'[i - 1] = taskList[i]
      BY <1>2, <2>2
    <3>. QED
      BY <3>1 DEF Queued
  <2>. QED
    BY <2>1, <2>2 DEF Queued
<1>5. Held' = Held \cup {Head(taskList)}
  BY <1>1, <1>2 DEF Take, Held, TypeOK
<1>. QED
  BY <1>3, <1>4, <1>5 DEF Take, InTransit

\* ... and from the worker to those that are gone.
LEMMA DeleteEffect ==
  ASSUME TypeOK, Locals, TaskInOnePlace, NEW w \in Worker, DeleteTask(w)
  PROVE  /\ task[w] \in Held
         /\ Held' = Held \ {task[w]}
         /\ deleted' = deleted \cup {task[w]}
         /\ Queued' = Queued /\ InTransit' = InTransit /\ taskList' = taskList
<1>1. task[w] # None
  BY DEF DeleteTask, Goto, Locals, HoldingPC
<1>. QED
  BY <1>1 DEF DeleteTask, Held, Queued, InTransit, TypeOK, TaskInOnePlace

(* Every other step leaves the tasks where they are.                       *)
Moves == \/ \E t \in Task : Accept(t)
         \/ \E w \in Worker, t \in Task : RunAdds(w, t)
         \/ \E c \in Thread : Push(c)
         \/ \E w \in Worker : Take(w) \/ DeleteTask(w)

\* No other step moves a task.
LEMMA OthersMoveNothing ==
  ASSUME [Next]_vars, ~Moves
  PROVE  UNCHANGED <<taskList, task, arg, deleted>>
<1>1. ASSUME NEW c \in Thread, AddStep(c), ~Push(c)
      PROVE  UNCHANGED <<taskList, task, arg, deleted>>
  BY <1>1 DEF AddStep, Create, CreateDone, LockDilatation, BindCurSize, Check,
              UnlockDilatation, Signal
<1>2. ASSUME NEW w \in Worker, LoopStep(w), ~Take(w), ~DeleteTask(w)
      PROVE  UNCHANGED <<taskList, task, arg, deleted>>
  BY <1>2 DEF LoopStep, LockQueue, FindEmpty, CondWait, UnlockQueue, LoadSize,
              StoreSize
<1>3. ASSUME NEW w \in Worker, WakeSpuriously(w) \/ RunReturns(w)
      PROVE  UNCHANGED <<taskList, task, arg, deleted>>
  BY <1>3 DEF WakeSpuriously, RunReturns
<1>. QED
  BY <1>1, <1>2, <1>3 DEF Moves, Next

LEMMA OnePlacePreserved ==
  ASSUME TypeOK, Locals, TaskInOnePlace, [Next]_vars
  PROVE  TaskInOnePlace'
<1>1. ASSUME NEW c \in Thread, NEW t \in Task, pc[c] \in {"accept", "run"},
             CallAddTask(c, t)
      PROVE  TaskInOnePlace'
  <2>1. arg' = [arg EXCEPT ![c] = t] /\ taskList' = taskList /\ task' = task
    BY <1>1 DEF CallAddTask
  <2>2. \A d \in Thread : arg[d] # t
    BY <1>1, CallEffect DEF InTransit
  <2>. QED
    BY <1>1, <2>1, <2>2, CallEffect DEF TaskInOnePlace, TypeOK
<1>2. ASSUME NEW c \in Thread, Push(c)
      PROVE  TaskInOnePlace'
  <2>1. arg[c] \in InTransit /\ arg[c] \in Task
    BY <1>2, PushEffect DEF InTransit, TypeOK
  <2>2. \A i, j \in DOMAIN taskList' : taskList'[i] = taskList'[j] => i = j
    <3>1. \A i \in DOMAIN taskList : taskList[i] # arg[c]
      BY <2>1 DEF TaskInOnePlace, Queued
    <3>2. taskList \in Seq(Task) /\ taskList' = Append(taskList, arg[c])
      BY <1>2 DEF Push, TypeOK
    <3>. QED
      BY <2>1, <3>1, <3>2, AppendElements DEF TaskInOnePlace
  <2>3. task' = task /\ arg' = [arg EXCEPT ![c] = None]
    BY <1>2 DEF Push
  <2>. QED
    BY <1>2, <2>1, <2>2, <2>3, PushEffect DEF TaskInOnePlace, TypeOK
<1>3. ASSUME NEW w \in Worker, Take(w)
      PROVE  TaskInOnePlace'
  <2>1. taskList # <<>> /\ task' = [task EXCEPT ![w] = Head(taskList)] /\ arg' = arg
    BY <1>3 DEF Take
  <2>2. \A i, j \in DOMAIN taskList' : taskList'[i] = taskList'[j] => i = j
    <3>1. taskList \in Seq(Task) /\ taskList' = Tail(taskList)
      BY <1>3 DEF Take, TypeOK
    <3>. QED
      BY <2>1, <3>1, TailElements DEF TaskInOnePlace
  <2>3. \A v \in Worker : task[v] # Head(taskList)
    <3>1. Head(taskList) \in Queued
      BY <1>3, TakeEffect
    <3>2. Head(taskList) # None
      <4>1. Queued \subseteq Task
        BY DEF Queued, TypeOK
      <4>. QED
        BY <3>1, <4>1
    <3>. QED
      BY <3>1, <3>2 DEF TaskInOnePlace, Held
  <2>. QED
    BY <1>3, <2>1, <2>2, <2>3, TakeEffect DEF TaskInOnePlace, TypeOK
<1>4. ASSUME NEW w \in Worker, DeleteTask(w)
      PROVE  TaskInOnePlace'
  <2>1. task' = [task EXCEPT ![w] = None] /\ arg' = arg /\ taskList' = taskList
    BY <1>4 DEF DeleteTask
  <2>. QED
    BY <1>4, <2>1, DeleteEffect DEF TaskInOnePlace, TypeOK
<1>5. CASE ~Moves
  BY <1>5, OthersMoveNothing DEF TaskInOnePlace, Queued, Held, InTransit
<1>. QED
  BY <1>1, <1>2, <1>3, <1>4, <1>5 DEF Moves, Accept, RunAdds, Goto

-----------------------------------------------------------------------------
(* The counters.                                                           *)

\* How one element counts.
LEMMA CardinalityOfChange ==
  ASSUME NEW S, IsFiniteSet(S), NEW x
  PROVE  /\ Cardinality(S) \in Nat
         /\ x \notin S => Cardinality(S \cup {x}) = Cardinality(S) + 1
         /\ x \in S => Cardinality(S \ {x}) = Cardinality(S) - 1
BY FS_AddElement, FS_RemoveElement, FS_CardinalityType

\* The sets that are counted are finite.
LEMMA FiniteThreads ==
  /\ IsFiniteSet(Counted) /\ IsFiniteSet(Created)
  /\ IsFiniteSet(Signalling) /\ IsFiniteSet(Awake)
<1>1. IsFiniteSet(Thread)
  BY FS_AddElement
<1>2. \A S : S \subseteq Thread => IsFiniteSet(S)
  BY <1>1, FS_Subset
<1>. QED
  BY <1>1, <1>2 DEF Counted, Created, Signalling, Awake

(* Only StoreSize changes size or the threads it counts, one by one.       *)
LEMMA CountedFrame ==
  ASSUME TypeOK, [Next]_vars, \A w \in Worker : ~StoreSize(w)
  PROVE  size' = size /\ Counted' = Counted
<1> USE DEF TypeOK, Counted, Goto
<1>1. ASSUME NEW t \in Task, Accept(t)
      PROVE  size' = size /\ Counted' = Counted
  BY <1>1 DEF Accept, CallAddTask
<1>2. ASSUME NEW w \in Worker, NEW t \in Task, RunAdds(w, t)
      PROVE  size' = size /\ Counted' = Counted
  BY <1>2 DEF RunAdds, CallAddTask
<1>3. ASSUME NEW c \in Thread, Create(c)
      PROVE  size' = size /\ Counted' = Counted
  BY <1>3 DEF Create
<1>4. ASSUME NEW c \in Thread, AddStep(c), ~Create(c)
      PROVE  size' = size /\ Counted' = Counted
  BY <1>4 DEF AddStep, CreateDone, LockDilatation, BindCurSize, Check,
              UnlockDilatation, Push, Signal
<1>5. ASSUME NEW w \in Worker, LoopStep(w)
      PROVE  size' = size /\ Counted' = Counted
  BY <1>5 DEF LoopStep, LockQueue, FindEmpty, CondWait, Take, UnlockQueue,
              LoadSize, DeleteTask
<1>6. ASSUME NEW w \in Worker, WakeSpuriously(w) \/ RunReturns(w)
      PROVE  size' = size /\ Counted' = Counted
  BY <1>6 DEF WakeSpuriously, RunReturns
<1>7. CASE UNCHANGED vars
  BY <1>7
<1>. QED
  BY <1>1, <1>2, <1>3, <1>4, <1>5, <1>6, <1>7 DEF Next

\* A store to size counts the thread that stores, or stops counting it.
LEMMA CountedByStore ==
  ASSUME TypeOK, LockOwners, Locals, NEW w \in Worker, StoreSize(w)
  PROVE  \/ /\ size' = size + 1
            /\ w \notin Counted /\ Counted' = Counted \cup {w}
         \/ /\ size' = size - 1
            /\ w \in Counted /\ Counted' = Counted \ {w}
<1>1. CASE Goto(w, "incStore", "run")
  <2>1. size' = size + 1
    BY <1>1 DEF StoreSize, Goto, Locals, SizeSection
  <2>2. w \notin Counted /\ Counted' = Counted \cup {w}
    BY <1>1 DEF Goto, Counted, TypeOK
  <2>. QED
    BY <2>1, <2>2
<1>2. CASE Goto(w, "decStore", "delete")
  <2>1. size' = size - 1
    BY <1>2 DEF StoreSize, Goto, Locals, SizeSection
  <2>2. w \in Counted /\ Counted' = Counted \ {w}
    BY <1>2 DEF Goto, Counted, TypeOK
  <2>. QED
    BY <2>1, <2>2
<1>. QED
  BY <1>1, <1>2 DEF StoreSize

(* Only Create changes the threads that exist, and only Create and Check   *)
(* change what is left to create.                                          *)
LEMMA CreatedFrame ==
  ASSUME TypeOK, [Next]_vars, \A c \in Thread : ~Create(c)
  PROVE  Created' = Created
<1> USE DEF TypeOK, Created, Goto
<1>1. ASSUME NEW t \in Task, Accept(t)
      PROVE  Created' = Created
  BY <1>1 DEF Accept, CallAddTask
<1>2. ASSUME NEW w \in Worker, NEW t \in Task, RunAdds(w, t)
      PROVE  Created' = Created
  BY <1>2 DEF RunAdds, CallAddTask
<1>3. ASSUME NEW c \in Thread, AddStep(c)
      PROVE  Created' = Created
  BY <1>3 DEF AddStep, CreateDone, LockDilatation, BindCurSize, Check,
              UnlockDilatation, Push, Signal
<1>4. ASSUME NEW w \in Worker, LoopStep(w)
      PROVE  Created' = Created
  BY <1>4 DEF LoopStep, LockQueue, FindEmpty, CondWait, Take, UnlockQueue,
              LoadSize, StoreSize, DeleteTask
<1>5. ASSUME NEW w \in Worker, WakeSpuriously(w) \/ RunReturns(w)
      PROVE  Created' = Created
  BY <1>5 DEF WakeSpuriously, RunReturns
<1>6. CASE UNCHANGED vars
  BY <1>6
<1>. QED
  BY <1>1, <1>2, <1>3, <1>4, <1>5, <1>6 DEF Next

\* Only dilatation touches the capacity.
LEMMA CapacityFrame ==
  ASSUME [Next]_vars, \A c \in Thread : ~Create(c) /\ ~Check(c)
  PROVE  capacity' = capacity /\ toCreate' = toCreate
<1>1. ASSUME NEW c \in Thread, AddStep(c)
      PROVE  capacity' = capacity /\ toCreate' = toCreate
  BY <1>1 DEF AddStep, CreateDone, LockDilatation, BindCurSize,
              UnlockDilatation, Push, Signal
<1>2. ASSUME NEW w \in Worker, LoopStep(w)
      PROVE  capacity' = capacity /\ toCreate' = toCreate
  BY <1>2 DEF LoopStep, LockQueue, FindEmpty, CondWait, Take, UnlockQueue,
              LoadSize, StoreSize, DeleteTask
<1>. QED
  BY <1>1, <1>2 DEF Next, Accept, RunAdds, CallAddTask, WakeSpuriously,
                    RunReturns

(* A thread that is about to read size finds no creation in progress.      *)
LEMMA CheckFindsNoCreation ==
  ASSUME TypeOK, LockOwners, Construction, NEW c \in Thread, pc[c] = "check"
  PROVE  toCreate = 0 /\ \A d \in Thread : pc[d] \notin {"construct", "create"}
<1>1. dilatationMutex = c
  BY DEF LockOwners, DilatSection
<1>2. \A d \in Thread : pc[d] # "create"
  BY <1>1 DEF LockOwners, DilatSection
<1>3. \A d \in Thread : pc[d] # "construct"
  BY DEF TypeOK, Construction, HoldingPC
<1>. QED
  BY <1>2, <1>3 DEF Construction, TypeOK

LEMMA AccountingPreserved ==
  ASSUME TypeOK, LockOwners, Locals, Construction, Accounting, [Next]_vars
  PROVE  Accounting'
<1>1. size' = Cardinality(Counted')
  <2>1. CASE \A w \in Worker : ~StoreSize(w)
    BY <2>1, CountedFrame DEF Accounting
  <2>2. ASSUME NEW w \in Worker, StoreSize(w)
        PROVE  size' = Cardinality(Counted')
    BY <2>2, CountedByStore, CardinalityOfChange, FiniteThreads DEF Accounting
  <2>. QED
    BY <2>1, <2>2
<1>2. Cardinality(Created') + toCreate' <= capacity'
  <2>1. Cardinality(Created) \in Nat
    BY FiniteThreads, CardinalityOfChange
  <2>2. ASSUME NEW c \in Thread, Create(c)
        PROVE  Cardinality(Created') + toCreate' <= capacity'
    <3>1. toCreate' = toCreate - 1 /\ capacity' = capacity
      BY <2>2 DEF Create
    <3>2. ASSUME NEW w \in Worker, Goto(w, "none", "lock")
          PROVE  Cardinality(Created') = Cardinality(Created) + 1
      <4>1. w \notin Created /\ Created' = Created \cup {w}
        BY <3>2 DEF Goto, Created, TypeOK
      <4>. QED
        BY <4>1, FiniteThreads, CardinalityOfChange
    <3>3. CASE UNCHANGED pc
      BY <2>1, <3>1, <3>3 DEF Created, Accounting, TypeOK
    <3>. QED
      BY <2>1, <2>2, <3>1, <3>2, <3>3 DEF Create, Accounting, TypeOK
  <2>3. ASSUME NEW c \in Thread, Check(c)
        PROVE  Cardinality(Created') + toCreate' <= capacity'
    <3>1. toCreate = 0
      BY <2>3, CheckFindsNoCreation DEF Check, Goto
    <3>2. Created' = Created
      BY <2>3 DEF Check, Goto, Created, TypeOK
    <3>3. \/ capacity' = capacity + THREAD_NUM /\ toCreate' = THREAD_NUM
          \/ capacity' = capacity /\ toCreate' = toCreate
      BY <2>3 DEF Check
    <3>. QED
      BY <2>1, <3>1, <3>2, <3>3 DEF Accounting, TypeOK
  <2>4. CASE \A c \in Thread : ~Create(c) /\ ~Check(c)
    BY <2>4, CapacityFrame, CreatedFrame DEF Accounting
  <2>. QED
    BY <2>2, <2>3, <2>4
<1>. QED
  BY <1>1, <1>2 DEF Accounting

-----------------------------------------------------------------------------
(* Wakeups.                                                                *)

(* The steps that touch neither the list, the waiters, nor the threads     *)
(* that are awake or about to signal.                                      *)
Wakes == \/ \E c \in Thread : Create(c) \/ Push(c) \/ Signal(c)
         \/ \E w \in Worker : \/ LockQueue(w) \/ FindEmpty(w) \/ CondWait(w)
                              \/ Take(w) \/ WakeSpuriously(w) \/ DeleteTask(w)

\* Other steps change neither the list nor who sleeps, looks or signals.
LEMMA WakeFrame ==
  ASSUME TypeOK, [Next]_vars, ~Wakes
  PROVE  /\ waiting' = waiting /\ taskList' = taskList
         /\ Signalling' = Signalling /\ Awake' = Awake
<1> DEFINE Same == /\ waiting' = waiting /\ taskList' = taskList
                   /\ Signalling' = Signalling /\ Awake' = Awake
<1> USE DEF TypeOK, Signalling, Awake, Goto
<1>1. ASSUME NEW t \in Task, Accept(t)
      PROVE  Same
  BY <1>1 DEF Accept, CallAddTask
<1>2. ASSUME NEW w \in Worker, NEW t \in Task, RunAdds(w, t)
      PROVE  Same
  BY <1>2 DEF RunAdds, CallAddTask
<1>3. ASSUME NEW c \in Thread, AddStep(c), ~Create(c), ~Push(c), ~Signal(c)
      PROVE  Same
  BY <1>3 DEF AddStep, CreateDone, LockDilatation, BindCurSize, Check,
              UnlockDilatation
<1>4. ASSUME NEW w \in Worker, UnlockQueue(w) \/ LoadSize(w) \/ StoreSize(w)
                                \/ RunReturns(w)
      PROVE  Same
  BY <1>4 DEF UnlockQueue, LoadSize, StoreSize, RunReturns
<1>5. CASE UNCHANGED vars
  BY <1>5
<1>. QED
  BY <1>1, <1>2, <1>3, <1>4, <1>5 DEF Next, Wakes, LoopStep

LEMMA WakeupsPreserved ==
  ASSUME TypeOK, Locals, WakeupsCoverQueue, [Next]_vars
  PROVE  WakeupsCoverQueue'
<1>1. /\ Cardinality(Signalling) \in Nat /\ Cardinality(Awake) \in Nat
      /\ Len(taskList) \in Nat
  <2>1. Cardinality(Signalling) \in Nat /\ Cardinality(Awake) \in Nat
    BY FiniteThreads, CardinalityOfChange
  <2>2. Len(taskList) \in Nat
    BY DEF TypeOK
  <2>. QED
    BY <2>1, <2>2
<1> USE DEF WakeupsCoverQueue
<1>2. ASSUME NEW c \in Thread, Create(c)
      PROVE  WakeupsCoverQueue'
  <2>1. waiting' = waiting /\ taskList' = taskList
    BY <1>2 DEF Create
  <2>2. ASSUME NEW w \in Worker, Goto(w, "none", "lock")
        PROVE  WakeupsCoverQueue'
    <3>1. w \notin Awake /\ Awake' = Awake \cup {w} /\ Signalling' = Signalling
      BY <2>1, <2>2 DEF Goto, Awake, Signalling, TypeOK
    <3>. QED
      BY <1>1, <2>1, <3>1, FiniteThreads, CardinalityOfChange
  <2>3. CASE UNCHANGED pc
    BY <2>1, <2>3 DEF Awake, Signalling
  <2>. QED
    BY <1>2, <2>2, <2>3 DEF Create
<1>3. ASSUME NEW c \in Thread, Push(c)
      PROVE  WakeupsCoverQueue'
  <2>1. waiting' = waiting /\ arg[c] \in Task
    BY <1>3 DEF Push, Goto, Locals, TypeOK
  <2>2. Len(taskList') = Len(taskList) + 1
    BY <1>3, <2>1 DEF Push, TypeOK
  <2>3. c \notin Signalling /\ Signalling' = Signalling \cup {c} /\ Awake' = Awake
    BY <1>3 DEF Push, Goto, Awake, Signalling, TypeOK
  <2>4. Cardinality(Signalling') = Cardinality(Signalling) + 1
    BY <2>3, FiniteThreads, CardinalityOfChange
  <2>. QED
    BY <1>1, <2>1, <2>2, <2>3, <2>4
<1>4. ASSUME NEW c \in Thread, Signal(c)
      PROVE  WakeupsCoverQueue'
  <2>1. taskList' = taskList
    BY <1>4 DEF Signal
  <2>2. c \in Signalling /\ Signalling' = Signalling \ {c}
    BY <1>4 DEF Signal, Goto, Signalling, TypeOK
  <2>3. CASE waiting = {} /\ UNCHANGED waiting
    BY <2>3
  <2>4. ASSUME NEW w \in waiting, waiting' = waiting \ {w}
        PROVE  WakeupsCoverQueue'
    <3>1. w \notin Awake /\ Awake' = Awake \cup {w}
      BY <1>4, <2>4 DEF Signal, Goto, Awake, Locals, TypeOK
    <3>2. /\ Cardinality(Awake') = Cardinality(Awake) + 1
          /\ Cardinality(Signalling') = Cardinality(Signalling) - 1
      BY <2>2, <3>1, FiniteThreads, CardinalityOfChange
    <3>. QED
      BY <1>1, <2>1, <3>2
  <2>. QED
    BY <1>4, <2>3, <2>4 DEF Signal
<1>5. ASSUME NEW w \in Worker, LockQueue(w)
      PROVE  WakeupsCoverQueue'
  <2>1. Awake' = Awake /\ Signalling' = Signalling
    BY <1>5 DEF LockQueue, Goto, Awake, Signalling, Locals, TypeOK
  <2>. QED
    BY <1>5, <2>1 DEF LockQueue
<1>6. ASSUME NEW w \in Worker, FindEmpty(w)
      PROVE  WakeupsCoverQueue'
  <2>1. taskList' = <<>>
    BY <1>6 DEF FindEmpty
  <2>2. IsFiniteSet(Awake') /\ IsFiniteSet(Signalling')
    <3>1. Awake' = Awake \ {w} /\ Signalling' = Signalling
      BY <1>6 DEF FindEmpty, Goto, Awake, Signalling, Locals, TypeOK
    <3>. QED
      BY <3>1, FiniteThreads, FS_Subset
  <2>3. Cardinality(Awake') \in Nat /\ Cardinality(Signalling') \in Nat
    BY <2>2, FS_CardinalityType
  <2>. QED
    BY <2>1, <2>3
<1>7. ASSUME NEW w \in Worker, CondWait(w)
      PROVE  WakeupsCoverQueue'
  <2>1. taskList' = <<>>
    BY <1>7 DEF CondWait, Goto, Locals
  <2>2. Awake' = Awake /\ Signalling' = Signalling
    BY <1>7 DEF CondWait, Goto, Awake, Signalling, TypeOK
  <2>. QED
    BY <1>1, <2>1, <2>2
<1>8. ASSUME NEW w \in Worker, Take(w)
      PROVE  WakeupsCoverQueue'
  <2>1. waiting' = waiting /\ Len(taskList') = Len(taskList) - 1
    BY <1>8 DEF Take, TypeOK
  <2>2. w \in Awake /\ Awake' = Awake \ {w} /\ Signalling' = Signalling
    BY <1>8 DEF Take, Goto, Awake, Signalling, TypeOK
  <2>3. Cardinality(Awake') = Cardinality(Awake) - 1
    BY <2>2, FiniteThreads, CardinalityOfChange
  <2>. QED
    BY <1>1, <2>1, <2>2, <2>3
<1>9. ASSUME NEW w \in Worker, WakeSpuriously(w)
      PROVE  WakeupsCoverQueue'
  <2>1. waiting # {} /\ taskList' = taskList
    BY <1>9 DEF WakeSpuriously
  <2>2. w \notin Awake /\ Awake' = Awake \cup {w} /\ Signalling' = Signalling
    BY <1>9 DEF WakeSpuriously, Awake, Signalling, Locals, TypeOK
  <2>3. Cardinality(Awake') = Cardinality(Awake) + 1
    BY <2>2, FiniteThreads, CardinalityOfChange
  <2>. QED
    BY <1>1, <2>1, <2>2, <2>3
<1>10. ASSUME NEW w \in Worker, DeleteTask(w)
       PROVE  WakeupsCoverQueue'
  <2>1. waiting' = waiting /\ taskList' = taskList
    BY <1>10 DEF DeleteTask
  <2>2. w \notin Awake /\ Awake' = Awake \cup {w} /\ Signalling' = Signalling
    BY <1>10 DEF DeleteTask, Goto, Awake, Signalling, TypeOK
  <2>3. Cardinality(Awake') = Cardinality(Awake) + 1
    BY <2>2, FiniteThreads, CardinalityOfChange
  <2>. QED
    BY <1>1, <2>1, <2>2, <2>3
<1>11. CASE ~Wakes
  BY <1>11, WakeFrame
<1>. QED
  BY <1>2, <1>3, <1>4, <1>5, <1>6, <1>7, <1>8, <1>9, <1>10, <1>11 DEF Wakes

-----------------------------------------------------------------------------
(* The invariant.                                                          *)

\* The invariant holds at first, ...
LEMMA InitEstablishes == Init => IInv
<1> SUFFICES ASSUME Init PROVE IInv
  OBVIOUS
<1>1. \A w \in Worker : pc[w] = "none"
  BY DEF Init
<1>2. pc[Main] = "construct" /\ toCreate = THREAD_NUM /\ capacity = THREAD_NUM
  BY DEF Init
<1>3. TypeOK
  BY DEF Init, TypeOK
<1>4. LockOwners
  BY DEF Init, LockOwners, PthreadSection, SizeSection, DilatSection
<1>5. Locals
  BY DEF Init, Locals, HoldingPC, SizeSection
<1>6. Construction
  BY DEF Init, Construction, HoldingPC
<1>7. Accounting
  <2>1. Counted = {} /\ Created = {}
    BY <1>1 DEF Counted, Created
  <2>2. Cardinality(Counted) = 0 /\ Cardinality(Created) = 0
    BY <2>1, FS_EmptySet
  <2>. QED
    BY <1>2, <2>2 DEF Init, Accounting
<1>8. TaskInOnePlace
  BY DEF Init, TaskInOnePlace, Queued, Held, InTransit
<1>9. WakeupsCoverQueue
  BY DEF Init, WakeupsCoverQueue
<1>. QED
  BY <1>3, <1>4, <1>5, <1>6, <1>7, <1>8, <1>9 DEF IInv

\* ... is kept by every step, ...
LEMMA StepPreserves == IInv /\ [Next]_vars => IInv'
BY TypePreserved, LocksPreserved, LocalsPreserved, ConstructionPreserved,
   AccountingPreserved, OnePlacePreserved, WakeupsPreserved DEF IInv

\* ... and so holds always.
LEMMA Invariance == Spec => []IInv
BY InitEstablishes, StepPreserves, PTL DEF Spec

-----------------------------------------------------------------------------
(* The theorems.                                                           *)

(* Every variable of the pool keeps its type (myThreadPool.h:77-87).       *)
THEOREM TypeCorrect == Spec => []TypeOK
<1>1. IInv => TypeOK
  BY DEF IInv
<1>. QED
  BY <1>1, Invariance, PTL

(* size is the number of tasks between ++size and --size, and is at most   *)
(* the number of threads, whatever the interleaving of the workers         *)
(* (myThreadPool.h:54-62) and of the callers of addTask (l.107-126).       *)
THEOREM SizeCorrect == Spec => []SizeIsLoad
<1>1. IInv => SizeIsLoad
  <2> SUFFICES ASSUME IInv PROVE SizeIsLoad
    OBVIOUS
  <2>1. Counted \subseteq Created
    BY DEF Counted, Created
  <2>2. Cardinality(Counted) <= Cardinality(Created)
    BY <2>1, FiniteThreads, FS_Subset
  <2>3. Cardinality(Counted) \in Nat /\ Cardinality(Created) \in Nat
    BY FiniteThreads, CardinalityOfChange
  <2>4. toCreate \in Nat /\ capacity \in Nat
    BY DEF IInv, TypeOK
  <2>. QED
    BY <2>2, <2>3, <2>4 DEF SizeIsLoad, IInv, Accounting
<1>. QED
  BY <1>1, Invariance, PTL

(* A queued task is never left behind by sleeping workers: the signal is   *)
(* sent outside the mutex (myThreadPool.h:123-126), and still every task   *)
(* has its wakeup.                                                         *)
THEOREM NoLostWakeup == Spec => []WakeupsCoverQueue
<1>1. IInv => WakeupsCoverQueue
  BY DEF IInv
<1>. QED
  BY <1>1, Invariance, PTL

(* The safety half of WorkConserving: while a task is queued and a thread  *)
(* is not inside a task, some thread can go on.  The owner of a mutex      *)
(* always can, and if all others sleep, WakeupsCoverQueue owes a wakeup    *)
(* (myThreadPool.h:36-65, 123-126).                                        *)
THEOREM TaskWaitsNotInVain == Spec => []QueueIsServed
<1>1. IInv => QueueIsServed
  <2> SUFFICES ASSUME IInv, taskList # <<>>, ~AllBusy,
                      Signalling = {}, \A w \in Worker : ~CanStep(w)
               PROVE  FALSE
    BY DEF QueueIsServed
  <2>1. /\ pthreadMutex \in Worker \cup {None} /\ sizeMutex \in Worker \cup {None}
        /\ waiting \in SUBSET Worker /\ taskList \in Seq(Task)
        /\ \A w \in Worker : pc[w] \in WorkerPC
    BY DEF IInv, TypeOK
  <2>2. \A w \in Worker : pc[w] \notin PthreadSection /\ pc[w] \notin SizeSection
    BY DEF CanStep, PthreadSection, SizeSection
  <2>3. pthreadMutex = None /\ sizeMutex = None
    BY <2>1, <2>2 DEF IInv, LockOwners
  <2>4. \A w \in Worker : /\ pc[w] \notin {"lock", "delete", "incLoad", "decLoad"}
                          /\ pc[w] = "wait" => w \in waiting
    BY <2>3 DEF CanStep
  <2>5. PICK w \in Worker : pc[w] = "wait"
    <3>1. PICK w \in Worker : pc[w] # "none" /\ pc[w] \notin {"run"} \cup AddPC
      BY DEF AllBusy, Created
    <3> QED BY <2>1, <2>2, <2>4, <3>1 DEF PthreadSection, SizeSection
  <2>6. Awake = {}
    BY <2>2, <2>4 DEF Awake, PthreadSection
  <2>7. Len(taskList) <= Cardinality(Signalling) + Cardinality(Awake)
    <3>1. waiting # {}
      BY <2>4, <2>5
    <3> QED BY <3>1 DEF IInv, WakeupsCoverQueue
  <2>8. Len(taskList) <= 0
    BY <2>6, <2>7, FS_EmptySet
  <2> QED BY <2>1, <2>8
<1>. QED
  BY <1>1, Invariance, PTL

(* A task is handed to one thread and to no other (myThreadPool.h:43-64).  *)
THEOREM OnePlace == Spec => []TaskInOnePlace
<1>1. IInv => TaskInOnePlace
  BY DEF IInv
<1>. QED
  BY <1>1, Invariance, PTL

(* dilatation is not entered twice at once, and the size it compared with  *)
(* capacity was the size at that moment, although it is read after         *)
(* sizeMutex is released (myThreadPool.h:109-121).                         *)
THEOREM GrowthSerial == Spec => GrowthIsSerial
<1> DEFINE Serial == capacity' # capacity =>
                       /\ toCreate = 0
                       /\ size + Headroom >= capacity
                       /\ \A c \in Thread : pc[c] # "create"
<1>1. IInv /\ [Next]_vars => [Serial]_vars
  <2> SUFFICES ASSUME IInv, [Next]_vars PROVE Serial
    OBVIOUS
  <2>1. ASSUME NEW c \in Thread, Check(c)
        PROVE  Serial
    <3>1. pc[c] = "check" /\ (capacity' # capacity => size >= capacity - Headroom)
      BY <2>1 DEF Check, Goto
    <3>2. toCreate = 0 /\ \A d \in Thread : pc[d] # "create"
      BY <3>1, CheckFindsNoCreation DEF IInv
    <3>. QED
      BY <3>1, <3>2 DEF IInv, TypeOK
  <2>2. ASSUME NEW c \in Thread, Create(c)
        PROVE  Serial
    BY <2>2 DEF Create
  <2>3. CASE \A c \in Thread : ~Create(c) /\ ~Check(c)
    BY <2>3, CapacityFrame
  <2>. QED
    BY <2>1, <2>2, <2>3
<1>2. [][Serial]_vars => GrowthIsSerial
  BY DEF GrowthIsSerial
<1>. QED
  BY <1>1, <1>2, Invariance, PTL DEF Spec

(* Seen through its list, the tasks in its threads and the tasks deleted,  *)
(* the pool is the abstract queue: every step is Add, Start, Finish or a   *)
(* stutter (myThreadPool.h:30-65, 105-129).                                *)
THEOREM Refinement == Spec => ImplementsQueue
<1>1. Init => Queue!Init
  <2>. SUFFICES ASSUME Init PROVE Queue!Init
    OBVIOUS
  <2>. QED
    BY DEF Init, Queue!Init, Held
<1>2. IInv /\ [Next]_vars => [Queue!Next]_(Queue!vars)
  <2> SUFFICES ASSUME IInv, [Next]_vars PROVE [Queue!Next]_(Queue!vars)
    OBVIOUS
  <2> USE DEF IInv
  <2>1. CASE \/ \E t \in Task : Accept(t)
             \/ \E w \in Worker, t \in Task : RunAdds(w, t)
    <3>1. Held' = Held /\ taskList' = taskList /\ deleted' = deleted
      BY <2>1, CallEffect DEF Accept, RunAdds, CallAddTask, Goto
    <3>. QED
      BY <3>1 DEF Queue!vars
  <2>2. ASSUME NEW c \in Thread, Push(c)
        PROVE  Queue!Next
    <3>1. /\ arg[c] \in Task /\ arg[c] \notin Queue!Pending \cup Held \cup deleted
          /\ taskList' = Append(taskList, arg[c])
          /\ Held' = Held /\ deleted' = deleted
      BY <2>2, PushEffect DEF Push, Queue!Pending, Queued, InTransit, TypeOK,
                              TaskInOnePlace
    <3>. QED
      BY <3>1 DEF Queue!Next, Queue!Add
  <2>3. ASSUME NEW w \in Worker, Take(w)
        PROVE  Queue!Next
    BY <2>3, TakeEffect DEF Take, Queue!Next, Queue!Start
  <2>4. ASSUME NEW w \in Worker, DeleteTask(w)
        PROVE  Queue!Next
    <3>1. task[w] \in Task
      BY <2>4, DeleteEffect DEF Held, TypeOK
    <3>. QED
      BY <2>4, <3>1, DeleteEffect DEF Queue!Next, Queue!Finish
  <2>5. CASE ~Moves
    BY <2>5, OthersMoveNothing DEF Held, Queue!vars
  <2>. QED
    BY <2>1, <2>2, <2>3, <2>4, <2>5 DEF Moves
<1>. QED
  BY <1>1, <1>2, Invariance, PTL DEF Spec, ImplementsQueue, Queue!Spec

=============================================================================
