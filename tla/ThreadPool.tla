----------------------------- MODULE ThreadPool -----------------------------
(***************************************************************************)
(* The pool of threads that runs the tasks of the cache protocol           *)
(* (ijkavutil/ijkthreadpool.c).  Tasks are numbered in the order in which  *)
(* they are added; the queue is a ring that ijk_threadpool_add enlarges    *)
(* with realloc when one slot is left.  One step is one section under      *)
(* ctx->lock, one call of pthread_create or one join.                      *)
(***************************************************************************)
EXTENDS Integers

CONSTANTS
  Workers,    \* thread_count
  QueueSize,  \* queue_size at first
  MaxQueue,   \* MAX_QUEUE
  MaxTasks    \* bound: how many tasks are added

VARIABLES
  ring,       \* queue: slot -> task, NoTask when the slot was never written
  size,       \* queue_size
  head, tail, \* queue_head, queue_tail
  pending,    \* pending_count
  shutdown,   \* "no", "immediate", "leisurely"
  worker,     \* worker -> "none", "top", "wait", "run", "exit"
  owner,      \* the thread that creates and destroys the pool
  added,      \* tasks accepted so far
  runs,       \* task -> how often a worker started it
  grewWrapped \* the ring was enlarged while it wrapped around its end

queueVars == <<ring, size, head, tail, pending>>
vars == <<queueVars, shutdown, worker, owner, added, runs, grewWrapped>>

Tasks  == 1..MaxTasks
NoTask == 0
Started == {w \in Workers : worker[w] # "none"}

Init ==
  /\ ring = [i \in 0..(MaxQueue - 1) |-> NoTask]
  /\ size = QueueSize /\ head = 0 /\ tail = 0 /\ pending = 0
  /\ shutdown = "no"
  /\ worker = [w \in Workers |-> "none"]
  /\ owner = "creating"
  /\ added = 0 /\ runs = [t \in Tasks |-> 0]
  /\ grewWrapped = FALSE

-----------------------------------------------------------------------------
\* ijk_threadpool_create starts the workers one by one.  When one cannot be
\* started it destroys the pool with flags = 0, which is no way to shut down.
CreateThread(w) ==
  /\ owner = "creating" /\ worker[w] = "none"
  /\ worker' = [worker EXCEPT ![w] = "top"]
  /\ UNCHANGED <<queueVars, shutdown, owner, added, runs, grewWrapped>>

Created ==
  /\ owner = "creating" /\ Started = Workers
  /\ owner' = "open"
  /\ UNCHANGED <<queueVars, shutdown, worker, added, runs, grewWrapped>>

CreateFails ==
  /\ owner = "creating" /\ Started # Workers
  /\ owner' = "joinFailed"
  /\ UNCHANGED <<queueVars, shutdown, worker, added, runs, grewWrapped>>

\* The size of the queue after ijk_threadpool_add has made room.
Grown == IF pending = size - 1
         THEN IF size * 2 > MaxQueue THEN MaxQueue ELSE size * 2
         ELSE size

\* Mutant: no worker is signalled.
SignalNobody(w) == w = worker

\* pthread_cond_signal wakes one of the waiting workers.
Signal(w) == IF \E x \in Workers : worker[x] = "wait"
             THEN \E x \in Workers : /\ worker[x] = "wait"
                                     /\ w = [worker EXCEPT ![x] = "top"]
             ELSE w = worker

\* Mutant: the tail wraps at the size the queue had before it grew.
AddOldSize ==
  /\ owner = "open" /\ added < MaxTasks
  /\ pending # MaxQueue /\ pending # size
  /\ size' = Grown
  /\ grewWrapped' = (grewWrapped \/ (Grown # size /\ head + pending >= size))
  /\ ring' = [ring EXCEPT ![tail] = added + 1]
  /\ tail' = (tail + 1) % size
  /\ pending' = pending + 1
  /\ added' = added + 1
  /\ Signal(worker')
  /\ UNCHANGED <<head, shutdown, owner, runs>>

\* ijk_threadpool_add; a full queue refuses the task.
Add ==
  /\ owner = "open" /\ added < MaxTasks
  /\ pending # MaxQueue /\ pending # size
  /\ size' = Grown
  /\ grewWrapped' = (grewWrapped \/ (Grown # size /\ head + pending >= size))
  /\ ring' = [ring EXCEPT ![tail] = added + 1]
  /\ tail' = (tail + 1) % Grown
  /\ pending' = pending + 1
  /\ added' = added + 1
  /\ Signal(worker')
  /\ UNCHANGED <<head, shutdown, owner, runs>>

\* ijk_threadpool_destroy: the workers are told and then joined.
Destroy(how) ==
  /\ owner = "open"
  /\ shutdown' = how
  /\ worker' = [w \in Workers |-> IF worker[w] = "wait" THEN "top" ELSE worker[w]]
  /\ owner' = "join"
  /\ UNCHANGED <<queueVars, added, runs, grewWrapped>>

Joined ==
  /\ owner \in {"join", "joinFailed"}
  /\ \A w \in Started : worker[w] = "exit"
  /\ owner' = "done"
  /\ UNCHANGED <<queueVars, shutdown, worker, added, runs, grewWrapped>>

-----------------------------------------------------------------------------
\* ijk_threadpool_thread
WorkerWaits(w) ==
  /\ worker[w] = "top" /\ pending = 0 /\ shutdown = "no"
  /\ worker' = [worker EXCEPT ![w] = "wait"]
  /\ UNCHANGED <<queueVars, shutdown, owner, added, runs, grewWrapped>>

WorkerExits(w) ==
  /\ worker[w] = "top"
  /\ shutdown = "immediate" \/ (shutdown = "leisurely" /\ pending = 0)
  /\ worker' = [worker EXCEPT ![w] = "exit"]
  /\ UNCHANGED <<queueVars, shutdown, owner, added, runs, grewWrapped>>

\* A slot that was never written holds no function: the task is lost, and the
\* worker calls what happens to be there.
WorkerTakes(w) ==
  /\ worker[w] = "top" /\ pending > 0 /\ shutdown # "immediate"
  /\ ring[head] # NoTask
  /\ worker' = [worker EXCEPT ![w] = "run"]
  /\ runs' = [runs EXCEPT ![ring[head]] = @ + 1]
  /\ head' = (head + 1) % size
  /\ pending' = pending - 1
  /\ UNCHANGED <<ring, size, tail, shutdown, owner, added, grewWrapped>>

TaskReturns(w) ==
  /\ worker[w] = "run"
  /\ worker' = [worker EXCEPT ![w] = "top"]
  /\ UNCHANGED <<queueVars, shutdown, owner, added, runs, grewWrapped>>

WorkerStep(w) == WorkerWaits(w) \/ WorkerExits(w) \/ WorkerTakes(w) \/ TaskReturns(w)

Next ==
  \/ \E w \in Workers : CreateThread(w) \/ WorkerStep(w)
  \/ Created \/ CreateFails \/ Add \/ Joined
  \/ Destroy("immediate") \/ Destroy("leisurely")

Spec == Init /\ [][Next]_vars

\* The threads run, the tasks come to an end.
Fairness == (\A w \in Workers : WF_vars(WorkerStep(w))) /\ WF_vars(Joined)

FairSpec == Spec /\ Fairness

-----------------------------------------------------------------------------
TypeOK ==
  /\ size \in QueueSize..MaxQueue /\ pending \in 0..size
  /\ head \in 0..(size - 1) /\ tail \in 0..(size - 1)
  /\ shutdown \in {"no", "immediate", "leisurely"}
  /\ worker \in [Workers -> {"none", "top", "wait", "run", "exit"}]

\* The slots from queue_head on hold the tasks that were added and not yet
\* taken, in the order of ijk_threadpool_add, as long as the ring did not grow
\* while it wrapped around (realloc keeps the slots where they are).
RingIsQueue ==
  grewWrapped \/ \A i \in 0..(pending - 1) :
                   ring[(head + i) % size] = added - pending + 1 + i

\* No task is started twice, and none is skipped before a later one.
OnceInOrder ==
  grewWrapped \/ \A t \in 1..added :
                   runs[t] = IF t <= added - pending THEN 1 ELSE 0

\* The workers do not all sleep while a task is pending.
NoIdleWorker ==
  pending > 0 /\ (\E w \in Workers : worker[w] = "wait")
    => \E w \in Workers : worker[w] \in {"top", "run"}

\* After a leisurely shutdown every task was run when ijk_threadpool_destroy
\* has joined the workers.
LeisurelyRunsAll ==
  owner = "done" /\ shutdown = "leisurely" /\ ~grewWrapped =>
    \A t \in 1..added : runs[t] = 1

\* ijk_threadpool_destroy returns; but not in the failure path of
\* ijk_threadpool_create, whose flags = 0 stop no worker.
Destroying == owner = "join" /\ ~grewWrapped
=============================================================================
