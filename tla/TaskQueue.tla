------------------------------ MODULE TaskQueue ------------------------------
(***************************************************************************)
(* What MyThreadPool promises to the code that hands it tasks, with no     *)
(* thread, lock or counter in sight: a task that is added waits in line,   *)
(* is started once, in the order of addition, and is finished once, by     *)
(* whoever started it.  ThreadPool.tla implements this specification.      *)
(***************************************************************************)
EXTENDS Sequences

CONSTANT Task   \* the MyTask objects, each created by one call of new

VARIABLES
  pending,      \* tasks added and not started, oldest first
  running,      \* tasks whose run() has been promised to a thread
  finished      \* tasks that have run and are deleted

vars == <<pending, running, finished>>

Pending == {pending[i] : i \in DOMAIN pending}

TypeOK ==
  /\ pending \in Seq(Task)
  /\ running \in SUBSET Task
  /\ finished \in SUBSET Task

Init ==
  /\ pending = <<>>
  /\ running = {}
  /\ finished = {}

Add(t) ==
  /\ t \notin Pending \cup running \cup finished
  /\ pending' = Append(pending, t)
  /\ UNCHANGED <<running, finished>>

Start ==
  /\ pending # <<>>
  /\ running' = running \cup {Head(pending)}
  /\ pending' = Tail(pending)
  /\ UNCHANGED finished

Finish(t) ==
  /\ t \in running
  /\ running' = running \ {t}
  /\ finished' = finished \cup {t}
  /\ UNCHANGED pending

Next ==
  \/ \E t \in Task : Add(t)
  \/ Start
  \/ \E t \in Task : Finish(t)

Spec == Init /\ [][Next]_vars
=============================================================================
