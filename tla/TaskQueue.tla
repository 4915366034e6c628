------------------------------- MODULE TaskQueue -------------------------------
(***************************************************************************)
(* TaskQueue: worker threads that take tasks from a queue, a client that adds  *)
(* tasks and finally calls Stop, as AsyncDBM does in its destructor.  The      *)
(* queue is guarded by a mutex; workers that find it empty wait on a condition *)
(* variable, whose wait is a test of the predicate followed by the atomic      *)
(* release of the mutex and falling asleep.                                    *)
(***************************************************************************)
EXTENDS Integers, Sequences, FiniteSets

CONSTANTS
  Workers,
  MaxTasks,       \* bound: tasks the client adds
  MayTimeOut      \* may Stop's timeout expire

ASSUME TasksAssumption == MaxTasks \in Nat /\ MayTimeOut \in BOOLEAN

VARIABLES
  queue,       \* queue_, of task numbers
  num_tasks,   \* num_tasks_
  running,     \* running_
  holder,      \* who is inside mutex_, as a set
  pc,          \* where each worker is
  task,        \* the task each worker took, as a set
  client,      \* where the client is
  added,       \* how many tasks were added
  done,        \* how often each task was done
  timedout     \* whether Stop gave up waiting

vars == <<queue, num_tasks, running, holder, pc, task, client, added, done, timedout>>

Tasks == 1 .. MaxTasks
Client == "client"

\* Every variable has its type, and the mutex lets one thread in at a time.
TypeOK ==
  /\ queue \in Seq(Tasks) /\ num_tasks \in 0 .. MaxTasks
  /\ running \in BOOLEAN
  /\ holder \subseteq Workers \cup {Client} /\ Cardinality(holder) <= 1
  /\ pc \in [Workers -> {"while", "enter", "look", "test", "block", "asleep",
                          "wakeup", "leave", "do", "exit"}]
  /\ task \in [Workers -> SUBSET Tasks]
  /\ client \in {"calm", "notify", "poll", "nudge", "store", "wake", "join", "stopped"}
  /\ added \in 0 .. MaxTasks /\ done \in [Tasks -> Nat] /\ timedout \in BOOLEAN

\* After Start.
Init ==
  /\ queue = <<>> /\ num_tasks = 0 /\ running = TRUE /\ holder = {}
  /\ pc = [w \in Workers |-> "while"]
  /\ task = [w \in Workers |-> {}]
  /\ client = "calm" /\ added = 0 /\ timedout = FALSE
  /\ done = [x \in Tasks |-> 0]

Goto(w, loc) == pc' = [pc EXCEPT ![w] = loc]
Asleep == {w \in Workers : pc[w] = "asleep"}

-----------------------------------------------------------------------------
(* The worker.                                                               *)

WhileRunning(w) ==
  /\ pc[w] = "while"
  /\ Goto(w, IF running THEN "enter" ELSE "exit")
  /\ UNCHANGED <<queue, num_tasks, running, holder, task, client, added, done, timedout>>

Enter(w) ==
  /\ pc[w] = "enter" /\ holder = {}
  /\ holder' = {w}
  /\ Goto(w, "look")
  /\ UNCHANGED <<queue, num_tasks, running, task, client, added, done, timedout>>

\* Mutant: a task is read but not taken off the queue.
Look_keeps(w) ==
  /\ pc[w] = "look"
  /\ IF queue = <<>>
     THEN Goto(w, "test") /\ UNCHANGED <<queue, num_tasks, task>>
     ELSE /\ task' = [task EXCEPT ![w] = {Head(queue)}]
          /\ Goto(w, "leave")
          /\ UNCHANGED <<queue, num_tasks>>
  /\ UNCHANGED <<running, holder, client, added, done, timedout>>

Look(w) ==
  /\ pc[w] = "look"
  /\ IF queue = <<>>
     THEN Goto(w, "test") /\ UNCHANGED <<queue, num_tasks, task>>
     ELSE /\ task' = [task EXCEPT ![w] = {Head(queue)}]
          /\ queue' = Tail(queue)
          /\ num_tasks' = Len(queue) - 1
          /\ Goto(w, "leave")
  /\ UNCHANGED <<running, holder, client, added, done, timedout>>

\* The predicate of the wait, evaluated inside the mutex.
Test(w) ==
  /\ pc[w] = "test"
  /\ Goto(w, IF ~running \/ queue # <<>> THEN "leave" ELSE "block")
  /\ UNCHANGED <<queue, num_tasks, running, holder, task, client, added, done, timedout>>

\* The wait releases the mutex and sleeps in one step.
Block(w) ==
  /\ pc[w] = "block"
  /\ holder' = {}
  /\ Goto(w, "asleep")
  /\ UNCHANGED <<queue, num_tasks, running, task, client, added, done, timedout>>

\* A wait may also return by itself.
Spurious(w) ==
  /\ pc[w] = "asleep"
  /\ Goto(w, "wakeup")
  /\ UNCHANGED <<queue, num_tasks, running, holder, task, client, added, done, timedout>>

Wakeup(w) ==
  /\ pc[w] = "wakeup" /\ holder = {}
  /\ holder' = {w}
  /\ Goto(w, "test")
  /\ UNCHANGED <<queue, num_tasks, running, task, client, added, done, timedout>>

Leave(w) ==
  /\ pc[w] = "leave"
  /\ holder' = {}
  /\ Goto(w, IF task[w] = {} THEN "while" ELSE "do")
  /\ UNCHANGED <<queue, num_tasks, running, task, client, added, done, timedout>>

Do(w) ==
  /\ pc[w] = "do"
  /\ done' = [x \in Tasks |-> done[x] + IF x \in task[w] THEN 1 ELSE 0]
  /\ task' = [task EXCEPT ![w] = {}]
  /\ Goto(w, "while")
  /\ UNCHANGED <<queue, num_tasks, running, holder, client, added, timedout>>

-----------------------------------------------------------------------------
(* The client: Add and Stop.                                                 *)

AddPush ==
  /\ client = "calm" /\ added < MaxTasks /\ holder = {}
  /\ added' = added + 1
  /\ queue' = Append(queue, added + 1)
  /\ num_tasks' = Len(queue) + 1
  /\ client' = "notify"
  /\ UNCHANGED <<running, holder, pc, task, done, timedout>>

WakeAll == [w \in Workers |-> IF w \in Asleep THEN "wakeup" ELSE pc[w]]

\* Mutant: nobody is notified.
AddNotify_nobody ==
  /\ client = "notify" /\ client' = "calm"
  /\ UNCHANGED <<queue, num_tasks, running, holder, pc, task, added, done, timedout>>

\* notify_one wakes one of the threads that wait, if there is one.
AddNotify ==
  /\ client = "notify" /\ client' = "calm"
  /\ \/ Asleep = {} /\ UNCHANGED pc
     \/ \E w \in Asleep : Goto(w, "wakeup")
  /\ UNCHANGED <<queue, num_tasks, running, holder, task, added, done, timedout>>

\* The loop of Stop goes on until the queue is empty or the time is over.
CheckTime ==
  \/ client' = "poll" /\ UNCHANGED timedout
  \/ MayTimeOut /\ client' = "store" /\ timedout' = TRUE

CallStop ==
  /\ client = "calm"
  /\ CheckTime
  /\ UNCHANGED <<queue, num_tasks, running, holder, pc, task, added, done>>

\* Mutant: Stop does not wait for the queue to be empty.
StopPoll_once ==
  /\ client = "poll" /\ holder = {}
  /\ client' = "store"
  /\ UNCHANGED <<queue, num_tasks, running, holder, pc, task, added, done, timedout>>

\* One round of the loop of Stop, up to the notification.
StopPoll ==
  /\ client = "poll" /\ holder = {}
  /\ client' = IF queue = <<>> THEN "store" ELSE "nudge"
  /\ UNCHANGED <<queue, num_tasks, running, holder, pc, task, added, done, timedout>>

StopNudge ==
  /\ client = "nudge"
  /\ pc' = WakeAll
  /\ CheckTime
  /\ UNCHANGED <<queue, num_tasks, running, holder, task, added, done>>

StopStore ==
  /\ client = "store" /\ client' = "wake"
  /\ running' = FALSE
  /\ UNCHANGED <<queue, num_tasks, holder, pc, task, added, done, timedout>>

StopNotify ==
  /\ client = "wake" /\ client' = "join"
  /\ pc' = WakeAll
  /\ UNCHANGED <<queue, num_tasks, running, holder, task, added, done, timedout>>

\* All threads are joined; num_tasks_ becomes 0 whatever is left in the queue.
StopJoin ==
  /\ client = "join" /\ \A w \in Workers : pc[w] = "exit"
  /\ client' = "stopped"
  /\ num_tasks' = 0
  /\ UNCHANGED <<queue, running, holder, pc, task, added, done, timedout>>

WorkerStep(w) ==
  \/ WhileRunning(w) \/ Enter(w) \/ Look(w) \/ Test(w) \/ Block(w)
  \/ Wakeup(w) \/ Leave(w) \/ Do(w)
ClientStep ==
  AddNotify \/ StopPoll \/ StopNudge \/ StopStore \/ StopNotify \/ StopJoin

Next ==
  \/ \E w \in Workers : WorkerStep(w) \/ Spurious(w)
  \/ AddPush \/ CallStop \/ ClientStep

Spec == Init /\ [][Next]_vars

\* A thread that can go on is scheduled (it need not get a mutex others pass
\* around); no spurious wakeup is relied upon, and the client need not call Stop.
Fairness == WF_vars(ClientStep) /\ \A w \in Workers : WF_vars(WorkerStep(w))
FairSpec == Spec /\ Fairness

-----------------------------------------------------------------------------
(* Correctness.                                                              *)

\* A task is at one place: in the queue, with one worker, or done once.
OnceEach ==
  \A x \in 1 .. added :
    Cardinality({i \in DOMAIN queue : queue[i] = x})
      + Cardinality({w \in Workers : x \in task[w]}) + done[x] = 1

\* Tasks wait in the order they were added, and none waits behind a later one.
InOrder ==
  \A i \in DOMAIN queue : queue[i] = added - Len(queue) + i

\* However Add, the workers and Stop interleave, a task is never lost, doubled
\* or overtaken while it waits (TaskQueue::Add and the worker's loop).
TasksAreKept == TypeOK /\ OnceEach /\ InOrder

\* When Stop returns without having timed out, every task has been done; this is
\* what ~AsyncDBM relies on.
StoppedMeansDone ==
  client = "stopped" /\ ~timedout => \A x \in 1 .. added : done[x] = 1

\* Every task that is added is done, unless Stop gives up on it.
EveryTaskIsDone == \A x \in Tasks : added >= x ~> (done[x] = 1 \/ timedout)
=============================================================================
