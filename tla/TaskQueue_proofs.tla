---------------------------- MODULE TaskQueue_proofs ----------------------------
(* TaskQueue, for any set of workers and any number of tasks: no task is lost or  *)
(* doubled, and a Stop that does not time out returns after the last of them.     *)
EXTENDS TaskQueue, FiniteSetTheorems, TLAPS

Inside == {"look", "test", "block", "leave"}
Stopping == {"store", "wake", "join", "stopped"}

\* How many tasks have been taken off the queue: they were added first.
Taken == added - Len(queue)

\* Task x is with worker w alone.
OnlyWith(x, w) == \A v \in Workers : x \in task[v] <=> v = w

\* A task that was taken is with one worker, or has been done once.
TakenTask(x) ==
  \/ done[x] = 0 /\ \E w \in Workers : OnlyWith(x, w)
  \/ done[x] = 1 /\ \A v \in Workers : x \notin task[v]

Typed ==
  /\ queue \in Seq(Tasks) /\ added \in 0 .. MaxTasks
  /\ num_tasks \in 0 .. MaxTasks
  /\ running \in BOOLEAN /\ timedout \in BOOLEAN
  /\ pc \in [Workers -> {"while", "enter", "look", "test", "block", "asleep",
                          "wakeup", "leave", "do", "exit"}]
  /\ task \in [Workers -> SUBSET Tasks]
  /\ client \in {"calm", "notify", "poll", "nudge", "store", "wake", "join", "stopped"}
  /\ done \in [Tasks -> Nat]

\* Who is inside the mutex is at one of its places, and nobody else is.
Guarded ==
  /\ holder = {} \/ \E w \in Workers : holder = {w}
  /\ \A w \in Workers : pc[w] \in Inside => holder = {w}

\* A worker has a task only between taking it and having done it.
Carried == \A w \in Workers : task[w] # {} => pc[w] \in {"leave", "do"}

Accounted ==
  /\ Len(queue) <= added
  /\ \A x \in 1 .. Taken : TakenTask(x)
  /\ \A x \in Taken + 1 .. MaxTasks : done[x] = 0 /\ \A v \in Workers : x \notin task[v]

\* Behind the loop of Stop nothing is in the queue, and in the end nobody is at work.
Stopped ==
  /\ client \in Stopping /\ ~timedout => queue = <<>>
  /\ client = "stopped" => \A w \in Workers : pc[w] = "exit"

\* The inductive invariant.  OnceEach counts the places of a task; here they are
\* told from the order of the queue, which holds the last tasks that were added.
IInv == Typed /\ Guarded /\ Carried /\ InOrder /\ Accounted /\ Stopped

-----------------------------------------------------------------------------
LEMMA Initially == Init => IInv
<1> SUFFICES ASSUME Init PROVE IInv
  OBVIOUS
<1>1. Typed
  <2>1. queue \in Seq(Tasks) /\ added \in 0 .. MaxTasks /\ num_tasks \in 0 .. MaxTasks
    BY TasksAssumption DEF Init
  <2>2. done \in [Tasks -> Nat] /\ task \in [Workers -> SUBSET Tasks]
    BY DEF Init
  <2>3. QED
    BY <2>1, <2>2 DEF Init, Typed
<1>2. Guarded /\ Carried /\ Stopped
  BY DEF Init, Guarded, Carried, Stopped, Inside, Stopping
<1>3. InOrder
  BY DEF Init, InOrder
<1>4. Taken = 0 /\ Len(queue) <= added
  <2>1. Len(queue) = 0 /\ added = 0
    BY DEF Init
  <2>2. QED
    BY <2>1 DEF Taken
<1>5. \A x \in 1 .. MaxTasks : done[x] = 0 /\ \A v \in Workers : x \notin task[v]
  BY DEF Init, Tasks
<1>6. Accounted
  BY <1>4, <1>5 DEF Accounted
<1>7. QED
  BY <1>1, <1>2, <1>3, <1>6 DEF IInv

\* A step that leaves the tasks where they are keeps the account of them.
LEMMA SameTasks ==
  ASSUME Accounted, InOrder, UNCHANGED <<queue, task, added, done>>
  PROVE  Accounted' /\ InOrder'
BY DEF Accounted, InOrder, Taken, TakenTask, OnlyWith

\* What a worker does without touching the tasks.
LEMMA QuietWorkerStep ==
  ASSUME IInv, NEW w \in Workers,
         \/ WhileRunning(w) \/ Enter(w) \/ Test(w) \/ Block(w)
         \/ Spurious(w) \/ Wakeup(w) \/ Leave(w)
  PROVE  IInv'
<1>1. /\ UNCHANGED <<queue, task, added, done, num_tasks, running, client, timedout>>
      /\ pc[w] # "exit"
  BY DEF WhileRunning, Enter, Test, Block, Spurious, Wakeup, Leave
<1>2. Accounted' /\ InOrder'
  BY <1>1, SameTasks DEF IInv
<1>3. Typed'
  BY <1>1 DEF IInv, Typed, WhileRunning, Enter, Test, Block, Spurious, Wakeup, Leave, Goto
<1>4. Guarded'
  <2> USE DEF IInv, Typed, Guarded, Inside, Goto
  <2>1. CASE WhileRunning(w) \/ Spurious(w)
    BY <2>1 DEF WhileRunning, Spurious
  <2>2. CASE Enter(w) \/ Wakeup(w)
    BY <2>2 DEF Enter, Wakeup
  <2>3. CASE Test(w)
    BY <2>3 DEF Test
  <2>4. CASE Block(w) \/ Leave(w)
    <3>1. \A v \in Workers \ {w} : pc[v] \notin Inside
      BY <2>4 DEF Block, Leave
    <3>2. holder' = {} /\ pc'[w] \notin Inside /\ \A v \in Workers \ {w} : pc'[v] = pc[v]
      BY <2>4 DEF Block, Leave
    <3>3. QED
      BY <3>1, <3>2
  <2>5. QED
    BY <2>1, <2>2, <2>3, <2>4
<1>5. Carried'
  BY <1>1 DEF IInv, Typed, Carried, WhileRunning, Enter, Test, Block, Spurious, Wakeup, Leave, Goto
<1>6. Stopped'
  BY <1>1 DEF IInv, Typed, Stopped
<1>7. QED
  BY <1>2, <1>3, <1>4, <1>5, <1>6 DEF IInv

\* What the client does without touching the tasks.
LEMMA QuietClientStep ==
  ASSUME IInv,
         \/ AddNotify \/ CallStop \/ StopPoll \/ StopNudge \/ StopStore \/ StopNotify \/ StopJoin
  PROVE  IInv'
<1>1. /\ UNCHANGED <<queue, task, added, done, holder>>
      /\ client # "stopped"
  BY DEF AddNotify, CallStop, StopPoll, StopNudge, StopStore, StopNotify, StopJoin
<1>2. Accounted' /\ InOrder'
  BY <1>1, SameTasks DEF IInv
<1>3. /\ pc' \in [Workers -> {"while", "enter", "look", "test", "block", "asleep",
                          "wakeup", "leave", "do", "exit"}]
      /\ \A w \in Workers : pc'[w] = pc[w] \/ (pc[w] = "asleep" /\ pc'[w] = "wakeup")
  BY DEF IInv, Typed, AddNotify, CallStop, StopPoll, StopNudge, StopStore, StopNotify, StopJoin,
         WakeAll, Asleep, Goto
<1>4. /\ client' \in {"calm", "notify", "poll", "nudge", "store", "wake", "join", "stopped"}
      /\ running' \in BOOLEAN /\ timedout' \in BOOLEAN /\ num_tasks' \in 0 .. MaxTasks
  <2>1. num_tasks' \in 0 .. MaxTasks
    BY TasksAssumption DEF IInv, Typed, AddNotify, CallStop, StopPoll, StopNudge, StopStore, StopNotify,
         StopJoin
  <2>2. running' \in BOOLEAN /\ timedout' \in BOOLEAN
    BY Zenon DEF IInv, Typed, AddNotify, CallStop, StopPoll, StopNudge, StopStore, StopNotify,
         StopJoin, CheckTime
  <2>3. client' \in {"calm", "notify", "poll", "nudge", "store", "wake", "join", "stopped"}
    BY DEF AddNotify, CallStop, StopPoll, StopNudge, StopStore, StopNotify, StopJoin, CheckTime
  <2>4. QED
    BY <2>1, <2>2, <2>3
<1>5. Typed'
  BY <1>1, <1>3, <1>4 DEF IInv, Typed
<1>6. Guarded' /\ Carried'
  BY <1>1, <1>3 DEF IInv, Guarded, Carried, Inside
<1>7. Stopped'
  <2>1. client' \in Stopping /\ ~timedout' => queue = <<>>
    BY DEF IInv, Stopped, Stopping, AddNotify, CallStop, StopPoll, StopNudge, StopStore, StopNotify,
         StopJoin, CheckTime
  <2>2. client' = "stopped" => \A w \in Workers : pc'[w] = "exit"
    BY DEF AddNotify, CallStop, StopPoll, StopNudge, StopStore, StopNotify, StopJoin, CheckTime
  <2>3. QED
    BY <1>1, <2>1, <2>2 DEF Stopped
<1>8. QED
  BY <1>2, <1>5, <1>6, <1>7 DEF IInv

\* The first task of the queue goes to the worker that looks.
LEMMA LookStep == ASSUME IInv, NEW w \in Workers, Look(w) PROVE IInv'
<1> USE TasksAssumption DEF Tasks
<1>1. CASE queue = <<>>
  <2>1. /\ UNCHANGED <<queue, task, added, done, num_tasks, running, holder, client, timedout>>
        /\ pc[w] = "look" /\ pc' = [pc EXCEPT ![w] = "test"]
    BY <1>1 DEF Look, Goto
  <2>2. QED
    BY <2>1, SameTasks DEF IInv, Typed, Guarded, Carried, Stopped, Inside
<1>2. CASE queue # <<>>
  <2>1. /\ pc[w] = "look" /\ pc' = [pc EXCEPT ![w] = "leave"]
        /\ task' = [task EXCEPT ![w] = {Head(queue)}]
        /\ queue' = Tail(queue) /\ num_tasks' = Len(queue) - 1
        /\ UNCHANGED <<running, holder, client, added, done, timedout>>
    BY <1>2 DEF Look, Goto
  <2>2. /\ queue \in Seq(1 .. MaxTasks) /\ Len(queue) \in Nat /\ Len(queue) > 0
        /\ Head(queue) = queue[1] /\ 1 \in DOMAIN queue
        /\ queue' \in Seq(1 .. MaxTasks) /\ Len(queue') = Len(queue) - 1
        /\ \A i \in 1 .. Len(queue) - 1 : queue'[i] = queue[i + 1]
    BY <1>2, <2>1 DEF IInv, Typed
  <2>3. Head(queue) = Taken + 1 /\ added \in 0 .. MaxTasks /\ Len(queue) <= added
    BY <2>2 DEF IInv, Typed, InOrder, Taken, Accounted
  <2>4. Taken' = Taken + 1 /\ Taken \in Nat
    BY <2>1, <2>2, <2>3 DEF Taken
  <2> PICK n \in Nat : n = Taken + 1
    BY <2>4
  <2>5. Typed'
    <3>1. num_tasks' \in 0 .. MaxTasks
      BY <2>1, <2>2, <2>3
    <3>2. task' \in [Workers -> SUBSET (1 .. MaxTasks)]
      BY <2>1, <2>2, <2>3 DEF IInv, Typed
    <3>3. QED
      BY <2>1, <2>2, <3>1, <3>2 DEF IInv, Typed
  <2>6. Guarded' /\ Carried'
    BY <2>1 DEF IInv, Typed, Guarded, Carried, Inside
  <2>7. InOrder'
    <3>1. SUFFICES ASSUME NEW i \in 1 .. Len(queue) - 1
                   PROVE  queue'[i] = added - (Len(queue) - 1) + i
      BY <2>1, <2>2 DEF InOrder
    <3>2. i + 1 \in DOMAIN queue
      BY <2>2
    <3>3. queue[i + 1] = added - Len(queue) + (i + 1)
      BY <3>2 DEF IInv, InOrder
    <3>4. QED
      BY <2>2, <2>3, <3>3
  <2>8. Accounted'
    <3>1. /\ \A v \in Workers \ {w} : task'[v] = task[v]
          /\ task'[w] = {n} /\ task[w] = {}
      BY <2>1, <2>3 DEF IInv, Typed, Carried
    <3>2. ASSUME NEW x \in 1 .. Taken PROVE TakenTask(x)'
      <4>1. TakenTask(x)
        BY <3>2 DEF IInv, Accounted
      <4>2. x # n
        BY <2>4
      <4>3. \A v \in Workers : x \in task'[v] <=> x \in task[v]
        BY <3>1, <4>2
      <4>4. QED
        BY <2>1, <4>1, <4>3 DEF TakenTask, OnlyWith
    <3>3. TakenTask(n)'
      <4>1. n \in Taken + 1 .. MaxTasks
        BY <2>2, <2>3, <2>4 DEF Taken
      <4>2. done[n] = 0 /\ \A v \in Workers : n \notin task[v]
        BY <4>1 DEF IInv, Accounted
      <4>3. \A v \in Workers : n \in task'[v] <=> v = w
        BY <3>1, <4>2
      <4>4. QED
        BY <2>1, <4>2, <4>3 DEF TakenTask, OnlyWith
    <3>4. ASSUME NEW x \in n + 1 .. MaxTasks
          PROVE  done'[x] = 0 /\ \A v \in Workers : x \notin task'[v]
      <4>1. x \in Taken + 1 .. MaxTasks /\ x # n
        BY <2>4
      <4>2. done[x] = 0 /\ \A v \in Workers : x \notin task[v]
        BY <4>1 DEF IInv, Accounted
      <4>3. QED
        BY <2>1, <3>1, <4>1, <4>2
    <3>5. \A x \in 1 .. Taken' : x \in 1 .. Taken \/ x = n
      BY <2>4
    <3>6. Taken' = n /\ Len(queue') <= added'
      BY <2>1, <2>2, <2>3, <2>4
    <3>7. \A x \in 1 .. Taken' : TakenTask(x)'
      BY <3>2, <3>3, <3>5
    <3>8. QED
      BY <3>4, <3>6, <3>7 DEF Accounted
  <2>9. Stopped'
    BY <1>2, <2>1 DEF IInv, Typed, Stopped
  <2>10. QED
    BY <2>5, <2>6, <2>7, <2>8, <2>9 DEF IInv
<1>3. QED
  BY <1>1, <1>2

\* A worker does the task it has taken.
LEMMA DoStep == ASSUME IInv, NEW w \in Workers, Do(w) PROVE IInv'
<1> USE TasksAssumption DEF Tasks
<1>1. /\ pc[w] = "do" /\ pc' = [pc EXCEPT ![w] = "while"]
      /\ done' = [x \in Tasks |-> done[x] + IF x \in task[w] THEN 1 ELSE 0]
      /\ task' = [task EXCEPT ![w] = {}]
      /\ UNCHANGED <<queue, num_tasks, running, holder, client, added, timedout>>
  BY DEF Do, Goto
<1>2. Typed'
  BY <1>1 DEF IInv, Typed
<1>3. Guarded' /\ Carried' /\ Stopped'
  BY <1>1 DEF IInv, Typed, Guarded, Carried, Stopped, Inside
<1>4. InOrder'
  BY <1>1 DEF IInv, InOrder
<1>5. Accounted'
  <2>1. Taken' = Taken /\ Taken \in 0 .. MaxTasks
    BY <1>1 DEF Taken, IInv, Typed, Accounted
  <2>2. /\ \A v \in Workers \ {w} : task'[v] = task[v]
        /\ task'[w] = {}
    BY <1>1 DEF IInv, Typed
  <2>3. ASSUME NEW x \in 1 .. Taken PROVE TakenTask(x)'
    <3>1. TakenTask(x) /\ x \in 1 .. MaxTasks
      BY <2>1, <2>3 DEF IInv, Accounted
    <3>2. CASE x \in task[w]
      <4>1. done[x] = 0 /\ \A v \in Workers : x \in task[v] => v = w
        BY <3>1, <3>2 DEF TakenTask, OnlyWith
      <4>2. done'[x] = 1
        BY <1>1, <3>1, <3>2, <4>1
      <4>3. QED
        BY <2>2, <4>1, <4>2 DEF TakenTask
    <3>3. CASE x \notin task[w]
      <4>1. \A v \in Workers : x \in task'[v] <=> x \in task[v]
        BY <2>2, <3>3
      <4>2. done'[x] = done[x]
        BY <1>1, <3>1, <3>3 DEF IInv, Typed
      <4>3. QED
        BY <3>1, <4>1, <4>2 DEF TakenTask, OnlyWith
    <3>4. QED
      BY <3>2, <3>3
  <2>4. ASSUME NEW x \in Taken + 1 .. MaxTasks
        PROVE  done'[x] = 0 /\ \A v \in Workers : x \notin task'[v]
    <3>1. done[x] = 0 /\ x \in 1 .. MaxTasks /\ \A v \in Workers : x \notin task[v]
      BY <2>1, <2>4 DEF IInv, Accounted
    <3>2. QED
      BY <1>1, <2>2, <3>1
  <2>5. QED
    BY <1>1, <2>1, <2>3, <2>4 DEF IInv, Accounted
<1>6. QED
  BY <1>2, <1>3, <1>4, <1>5 DEF IInv

\* Add puts the next task behind the others.
LEMMA AddStep == ASSUME IInv, AddPush PROVE IInv'
<1> USE TasksAssumption DEF Tasks
<1>1. /\ client = "calm" /\ added < MaxTasks
      /\ added' = added + 1 /\ queue' = Append(queue, added + 1)
      /\ num_tasks' = Len(queue) + 1 /\ client' = "notify"
      /\ UNCHANGED <<running, holder, pc, task, done, timedout>>
  BY DEF AddPush
<1>2. /\ queue \in Seq(1 .. MaxTasks) /\ added \in 0 .. MaxTasks
      /\ Len(queue) \in Nat /\ Len(queue) <= added
  BY DEF IInv, Typed, Accounted
<1>3. /\ queue' \in Seq(1 .. MaxTasks) /\ Len(queue') = Len(queue) + 1
      /\ queue'[Len(queue) + 1] = added + 1
      /\ \A i \in 1 .. Len(queue) : queue'[i] = queue[i]
  BY <1>1, <1>2
<1>4. Typed'
  BY <1>1, <1>2, <1>3 DEF IInv, Typed
<1>5. Guarded' /\ Carried' /\ Stopped'
  BY <1>1 DEF IInv, Guarded, Carried, Stopped, Stopping
<1>6. InOrder'
  <2>1. SUFFICES ASSUME NEW i \in 1 .. Len(queue) + 1
                 PROVE  queue'[i] = (added + 1) - (Len(queue) + 1) + i
    <3>1. DOMAIN queue' = 1 .. Len(queue) + 1
      BY <1>3
    <3>2. QED
      BY <1>1, <1>3, <3>1 DEF InOrder
  <2>2. CASE i = Len(queue) + 1
    BY <1>2, <1>3, <2>2
  <2>3. CASE i \in 1 .. Len(queue)
    <3>1. queue[i] = added - Len(queue) + i
      BY <1>2, <2>3 DEF IInv, InOrder
    <3>2. QED
      BY <1>2, <1>3, <2>3, <3>1
  <2>4. QED
    BY <1>2, <2>2, <2>3
<1>7. Accounted'
  <2>1. Taken' = Taken /\ Len(queue') <= added'
    BY <1>1, <1>2, <1>3 DEF Taken
  <2>2. QED
    BY <1>1, <2>1 DEF IInv, Accounted, TakenTask, OnlyWith
<1>8. QED
  BY <1>4, <1>5, <1>6, <1>7 DEF IInv

\* Every step keeps the invariant.
LEMMA Inductive == IInv /\ [Next]_vars => IInv'
<1> SUFFICES ASSUME IInv, [Next]_vars PROVE IInv'
  OBVIOUS
<1>1. CASE UNCHANGED vars
  BY <1>1, SameTasks DEF vars, IInv, Typed, Guarded, Carried, Stopped
<1>2. ASSUME NEW w \in Workers, WorkerStep(w) \/ Spurious(w) PROVE IInv'
  BY <1>2, QuietWorkerStep, LookStep, DoStep DEF WorkerStep
<1>3. CASE AddPush \/ CallStop \/ ClientStep
  BY <1>3, AddStep, QuietClientStep DEF ClientStep
<1>4. QED
  BY <1>1, <1>2, <1>3 DEF Next

\* The places of a task, counted: the queue has it once or not at all, because the
\* queue is in order; so has at most one worker.
LEMMA CountOnce == IInv => OnceEach
<1> USE TasksAssumption DEF Tasks
<1> SUFFICES ASSUME IInv, NEW x \in 1 .. added
             PROVE  Cardinality({i \in DOMAIN queue : queue[i] = x})
                      + Cardinality({w \in Workers : x \in task[w]}) + done[x] = 1
  BY DEF OnceEach
<1>1. /\ queue \in Seq(1 .. MaxTasks) /\ added \in 0 .. MaxTasks
      /\ Len(queue) \in Nat /\ Len(queue) <= added /\ DOMAIN queue = 1 .. Len(queue)
      /\ \A i \in 1 .. Len(queue) : queue[i] = added - Len(queue) + i
  BY DEF IInv, Typed, InOrder, Accounted
<1>2. Cardinality({}) = 0
  BY FS_EmptySet
<1>3. CASE x \in 1 .. Taken
  <2>1. {i \in DOMAIN queue : queue[i] = x} = {}
    BY <1>1, <1>3 DEF Taken
  <2>2. TakenTask(x)
    BY <1>3 DEF IInv, Accounted
  <2>3. CASE done[x] = 1 /\ \A v \in Workers : x \notin task[v]
    <3>1. {w \in Workers : x \in task[w]} = {}
      BY <2>3
    <3>2. Cardinality({w \in Workers : x \in task[w]}) = 0
      BY <1>2, <3>1
    <3>3. Cardinality({i \in DOMAIN queue : queue[i] = x}) = 0
      BY <1>2, <2>1
    <3>4. QED
      BY <2>3, <3>2, <3>3
  <2>4. CASE done[x] = 0 /\ \E w \in Workers : OnlyWith(x, w)
    <3>1. PICK w \in Workers : OnlyWith(x, w)
      BY <2>4
    <3>2. {v \in Workers : x \in task[v]} = {w}
      BY <3>1 DEF OnlyWith
    <3>3. Cardinality({v \in Workers : x \in task[v]}) = 1
      BY <3>2, FS_Singleton
    <3>4. Cardinality({i \in DOMAIN queue : queue[i] = x}) = 0
      BY <1>2, <2>1
    <3>5. QED
      BY <2>4, <3>3, <3>4
  <2>5. QED
    BY <2>2, <2>3, <2>4 DEF TakenTask
<1>4. CASE x \notin 1 .. Taken
  <2>1. x \in Taken + 1 .. MaxTasks /\ x - Taken \in 1 .. Len(queue)
    BY <1>1, <1>4 DEF Taken
  <2>2. Cardinality({i \in DOMAIN queue : queue[i] = x}) = 1
    <3>1. \A i \in DOMAIN queue : queue[i] = x <=> i = x - Taken
      <4>1. SUFFICES ASSUME NEW i \in 1 .. Len(queue) PROVE queue[i] = x <=> i = x - Taken
        BY <1>1
      <4>2. queue[i] = added - Len(queue) + i
        BY <1>1
      <4>3. QED
        BY <1>1, <4>2 DEF Taken
    <3>2. {i \in DOMAIN queue : queue[i] = x} = {x - Taken}
      BY <1>1, <2>1, <3>1
    <3>3. QED
      BY <3>2, FS_Singleton
  <2>3. done[x] = 0 /\ {w \in Workers : x \in task[w]} = {}
    BY <2>1 DEF IInv, Accounted
  <2>4. Cardinality({w \in Workers : x \in task[w]}) = 0
    BY <1>2, <2>3
  <2>5. QED
    BY <2>2, <2>3, <2>4
<1>5. QED
  BY <1>3, <1>4

LEMMA Kept == IInv => TasksAreKept
<1> SUFFICES ASSUME IInv PROVE TasksAreKept
  OBVIOUS
<1>1. Cardinality(holder) <= 1 /\ holder \subseteq Workers \cup {Client}
  <2>1. CASE holder = {}
    BY <2>1, FS_EmptySet
  <2>2. ASSUME NEW w \in Workers, holder = {w}
        PROVE  Cardinality(holder) <= 1 /\ holder \subseteq Workers \cup {Client}
    <3>1. Cardinality(holder) = 1
      BY <2>2, FS_Singleton
    <3>2. QED
      BY <2>2, <3>1
  <2>3. QED
    BY <2>1, <2>2 DEF IInv, Guarded
<1>2. TypeOK
  BY <1>1 DEF IInv, Typed, TypeOK
<1>3. QED
  BY <1>2, CountOnce DEF IInv, TasksAreKept

LEMMA Done == IInv => StoppedMeansDone
<1> USE TasksAssumption DEF Tasks
<1> SUFFICES ASSUME IInv, client = "stopped", ~timedout, NEW x \in 1 .. added PROVE done[x] = 1
  BY DEF StoppedMeansDone
<1>1. queue = <<>> /\ \A w \in Workers : pc[w] = "exit"
  BY DEF IInv, Stopped, Stopping
<1>2. \A w \in Workers : task[w] = {}
  BY <1>1 DEF IInv, Carried
<1>3. x \in 1 .. Taken
  BY <1>1 DEF Taken, IInv, Typed
<1>4. TakenTask(x)
  BY <1>3 DEF IInv, Accounted
<1>5. QED
  BY <1>2, <1>4 DEF TakenTask, OnlyWith

\* The invariant holds in every behaviour.
LEMMA Invariance == Spec => []IInv
<1>1. Init => IInv
  BY Initially
<1>2. IInv /\ [Next]_vars => IInv'
  BY Inductive
<1>3. QED
  BY <1>1, <1>2, PTL DEF Spec

\* With any number of workers and tasks, a task that was added is in the queue, with
\* one worker, or done, and at one of these places only; the queue keeps the order of
\* the calls of Add (TaskQueue::Add, the worker's loop).
THEOREM NoTaskIsLost == Spec => []TasksAreKept
<1>1. IInv => TasksAreKept
  BY Kept
<1>2. QED
  BY <1>1, Invariance, PTL

\* A Stop that did not give up returns when every task has been done, however many
\* workers there are and whatever they were doing when it was called (TaskQueue::Stop).
THEOREM StopWaitsForAll == Spec => []StoppedMeansDone
<1>1. IInv => StoppedMeansDone
  BY Done
<1>2. QED
  BY <1>1, Invariance, PTL
=============================================================================
