----------------------------- MODULE IoManager ------------------------------
(***************************************************************************)
(* The contexts of ijkio (ijkavformat/ijkiomanager.c): each url that       *)
(* FFmpeg opens has one, and to open one pauses all the others; a paused   *)
(* one is resumed by its next read or seek.  A context of the cache        *)
(* protocol that is not paused keeps a task in the pool of threads         *)
(* (ThreadPool) for as long as it lives: from ijk_threadpool_add to the    *)
(* end of ijkio_cache_task.  Of the task only this is kept here: whether   *)
(* it sleeps.  The cache files are in order (IoCache has the others).      *)
(***************************************************************************)
EXTENDS Naturals, Sequences, FiniteSets

CONSTANTS
  Contexts,  \* the urls that are open at the same time
  Workers,   \* how many threads the pool has (5 in the code)
  MaxOpens   \* bound

ASSUME ManagerAssumption == IsFiniteSet(Contexts) /\ Workers \in Nat

VARIABLES
  state,    \* context -> "closed", "started", "paused"
  aborted,  \* context -> abort_request
  queue,    \* the tasks that wait in the pool, by context
  active,   \* context -> how many threads run its task
  sleep,    \* context -> whether its task is "awake", has "decided" to wait
            \* for a signal, or is "asleep"
  call,     \* the call of FFmpeg: [op, ctx, todo], todo the contexts to pause
  opens

vars == <<state, aborted, queue, active, sleep, call, opens>>

NoCall == [op |-> "none", ctx |-> "none", todo |-> {}]

Init ==
  /\ state = [c \in Contexts |-> "closed"]
  /\ aborted = [c \in Contexts |-> FALSE]
  /\ queue = <<>> /\ active = [c \in Contexts |-> 0]
  /\ sleep = [c \in Contexts |-> "awake"]
  /\ call = NoCall /\ opens = 0

Idle == call.op = "none"
Threads == Cardinality({c \in Contexts : active[c] > 0})

\* c->task_is_running: from ijk_threadpool_add to the end of the task.
TaskIsRunning(c) == active[c] > 0 \/ \E i \in 1..Len(queue) : queue[i] = c

\* pthread_cond_signal on cond_wakeup_file_background: a task that has only
\* decided to wait is not waiting yet.
Wakes(c) == sleep' = [sleep EXCEPT ![c] = IF @ = "asleep" THEN "awake" ELSE @]

-----------------------------------------------------------------------------
\* ijkio_manager_io_open: ijkio_manager_set_all_ctx_pause, then url_open2.
Open(c) ==
  /\ Idle /\ state[c] = "closed" /\ opens < MaxOpens
  /\ opens' = opens + 1
  /\ call' = [op |-> "open", ctx |-> c, todo |-> {d \in Contexts : state[d] # "closed"}]
  /\ UNCHANGED <<state, aborted, queue, active, sleep>>

\* ijkio_cache_pause of one context, up to the wait for its task.
AsksToPause(c) ==
  /\ call.op = "open" /\ c \in call.todo /\ ~aborted[c]
  /\ aborted' = [aborted EXCEPT ![c] = TRUE]
  /\ Wakes(c)
  /\ UNCHANGED <<state, queue, active, call, opens>>

PauseReturns(c) ==
  /\ call.op = "open" /\ c \in call.todo /\ aborted[c] /\ ~TaskIsRunning(c)
  /\ state' = [state EXCEPT ![c] = "paused"]
  /\ call' = [call EXCEPT !.todo = @ \ {c}]
  /\ UNCHANGED <<aborted, queue, active, sleep, opens>>

\* url_open2 adds the task; a context that fails to open is forgotten.
OpenReturns ==
  /\ call.op = "open" /\ call.todo = {}
  /\ \/ /\ state' = [state EXCEPT ![call.ctx] = "started"]
        /\ aborted' = [aborted EXCEPT ![call.ctx] = FALSE]
        /\ queue' = Append(queue, call.ctx)
     \/ UNCHANGED <<state, aborted, queue>>
  /\ call' = NoCall
  /\ UNCHANGED <<active, sleep, opens>>

\* Mutant: the state stays "paused", so that the next read resumes again.
ResumedStaysPaused(c) ==
  IF state[c] = "paused"
  THEN /\ aborted' = [aborted EXCEPT ![c] = FALSE]
       /\ queue' = Append(queue, c)
       /\ UNCHANGED state
  ELSE UNCHANGED <<state, aborted, queue>>

\* ijkio_manager_io_read and ijkio_manager_io_seek: a paused context is resumed.
Resumed(c) ==
  IF state[c] = "paused"
  THEN /\ state' = [state EXCEPT ![c] = "started"]
       /\ aborted' = [aborted EXCEPT ![c] = FALSE]
       /\ queue' = Append(queue, c)
  ELSE UNCHANGED <<state, aborted, queue>>

Read(c) ==
  /\ Idle /\ state[c] # "closed"
  /\ Resumed(c)
  /\ call' = [op |-> "read", ctx |-> c, todo |-> {}]
  /\ UNCHANGED <<active, sleep, opens>>

\* ijkio_cache_resume fails: the inner protocol cannot be resumed, or the pool
\* takes no task when abort_request is already cleared.  The read or seek
\* returns the error, and the context is still paused.
ResumeFails(c) ==
  /\ Idle /\ state[c] = "paused"
  /\ \/ UNCHANGED aborted
     \/ aborted' = [aborted EXCEPT ![c] = FALSE]
  /\ UNCHANGED <<state, queue, active, sleep, call, opens>>

\* The task of the context serves the read; one that sleeps is signalled unless
\* it is far enough ahead, and one that is about to sleep tells the caller, who
\* then tries again.
ReadReturns ==
  /\ call.op = "read" /\ active[call.ctx] > 0
  /\ call' = NoCall
  /\ Wakes(call.ctx) \/ UNCHANGED sleep
  /\ UNCHANGED <<state, aborted, queue, active, opens>>

\* ijkio_manager_io_close
Close(c) ==
  /\ Idle /\ state[c] # "closed"
  /\ call' = [op |-> "close", ctx |-> c, todo |-> {}]
  /\ aborted' = [aborted EXCEPT ![c] = TRUE]
  /\ Wakes(c)
  /\ UNCHANGED <<state, queue, active, opens>>

CloseReturns ==
  /\ call.op = "close" /\ ~TaskIsRunning(call.ctx)
  /\ state' = [state EXCEPT ![call.ctx] = "closed"]
  /\ call' = NoCall
  /\ UNCHANGED <<aborted, queue, active, sleep, opens>>

-----------------------------------------------------------------------------
\* A free thread takes the first task.
TaskBegins ==
  /\ queue # <<>> /\ Threads < Workers
  /\ active' = [active EXCEPT ![Head(queue)] = @ + 1]
  /\ queue' = Tail(queue)
  /\ UNCHANGED <<state, aborted, sleep, call, opens>>

\* The task looks at abort_request at the top of its loop only: it ends when
\* its context is aborted.
TaskEnds(c) ==
  /\ active[c] > 0 /\ aborted[c] /\ sleep[c] = "awake"
  /\ active' = [active EXCEPT ![c] = @ - 1]
  /\ UNCHANGED <<state, aborted, queue, sleep, call, opens>>

\* It may then find that there is nothing to read ahead, and takes the mutex
\* and waits without another look.
TaskDecides(c) ==
  /\ active[c] > 0 /\ ~aborted[c] /\ sleep[c] = "awake"
  /\ sleep' = [sleep EXCEPT ![c] = "decided"]
  /\ UNCHANGED <<state, aborted, queue, active, call, opens>>

TaskSleeps(c) ==
  /\ sleep[c] = "decided"
  /\ sleep' = [sleep EXCEPT ![c] = "asleep"]
  /\ UNCHANGED <<state, aborted, queue, active, call, opens>>

CallStep == \/ \E c \in Contexts : AsksToPause(c) \/ PauseReturns(c)
            \/ OpenReturns \/ ReadReturns \/ CloseReturns
PoolStep == \/ TaskBegins
            \/ \E c \in Contexts : TaskEnds(c) \/ TaskSleeps(c)

Next == \/ \E c \in Contexts : \/ Open(c) \/ Read(c) \/ ResumeFails(c) \/ Close(c)
                              \/ TaskDecides(c)
        \/ CallStep \/ PoolStep

Spec == Init /\ [][Next]_vars

FairSpec == Spec /\ WF_vars(CallStep) /\ WF_vars(PoolStep)

-----------------------------------------------------------------------------
TypeOK ==
  /\ state \in [Contexts -> {"closed", "started", "paused"}]
  /\ queue \in Seq(Contexts) /\ Threads <= Workers
  /\ sleep \in [Contexts -> {"awake", "decided", "asleep"}]
  /\ call.op \in {"none", "open", "read", "close"} /\ call.todo \subseteq Contexts

\* No context has two tasks, which would share its positions and its disk
\* file, and none keeps one when it is paused or closed: its memory is freed.
OneTask ==
  \A c \in Contexts :
    /\ active[c] + Cardinality({i \in 1..Len(queue) : queue[i] = c}) <= 1
    /\ state[c] \in {"paused", "closed"} => ~TaskIsRunning(c)

\* The task has fallen asleep after its context was aborted, and is not
\* signalled again.
SleptThrough(c) == aborted[c] /\ sleep[c] = "asleep"

\* Every call of FFmpeg returns if there is a thread for every context, but for
\* one that pauses or closes a context whose task has slept through it.
InCall == ~Idle /\ \A c \in Contexts : ~SleptThrough(c)
CallsReturn == InCall ~> ~InCall
=============================================================================
