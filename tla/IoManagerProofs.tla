--------------------------- MODULE IoManagerProofs ---------------------------
(***************************************************************************)
(* The contexts of ijkio, proved for any number of them, of threads and of *)
(* openings: a context never has two tasks, and none while it is paused or *)
(* closed.  The property is about the tasks only; what keeps it is where   *)
(* the call of FFmpeg is: the context that is being opened is closed, so   *)
(* that its task is its first, and it is not among those that are paused   *)
(* first.                                                                  *)
(***************************************************************************)
EXTENDS IoManager, FiniteSetTheorems, TLAPS

Types ==
  /\ state \in [Contexts -> {"closed", "started", "paused"}]
  /\ aborted \in [Contexts -> BOOLEAN]
  /\ queue \in Seq(Contexts)
  /\ active \in [Contexts -> {0, 1}]
  /\ sleep \in [Contexts -> {"awake", "decided", "asleep"}]
  /\ call.op \in {"none", "open", "read", "close"} /\ call.todo \subseteq Contexts
  /\ call.op # "none" => call.ctx \in Contexts
  /\ DOMAIN call = {"op", "ctx", "todo"}

\* A task that waits is the only one of its context.
WaitsAlone ==
  /\ \A i, j \in 1..Len(queue) : queue[i] = queue[j] => i = j
  /\ \A i \in 1..Len(queue) : active[queue[i]] = 0

NoneAtRest ==
  \A c \in Contexts :
    state[c] \in {"paused", "closed"} => active[c] = 0 /\ \A i \in 1..Len(queue) : queue[i] # c

OpensClosed ==
  call.op = "open" => state[call.ctx] = "closed" /\ call.ctx \notin call.todo

Inv == Types /\ WaitsAlone /\ NoneAtRest /\ OpensClosed

-----------------------------------------------------------------------------
(***************************************************************************)
(* What an appended task does to the queue.                                *)
(***************************************************************************)
LEMMA Added ==
  ASSUME NEW c \in Contexts, queue \in Seq(Contexts),
         \A i \in 1..Len(queue) : queue[i] # c
  PROVE  /\ Append(queue, c) \in Seq(Contexts)
         /\ Len(Append(queue, c)) = Len(queue) + 1
         /\ \A i \in 1..(Len(queue) + 1) :
              Append(queue, c)[i] = IF i <= Len(queue) THEN queue[i] ELSE c
  OBVIOUS

(***************************************************************************)
(* What is left of the queue when its first task is taken.                 *)
(***************************************************************************)
LEMMA Taken ==
  ASSUME queue \in Seq(Contexts), queue # <<>>
  PROVE  /\ Tail(queue) \in Seq(Contexts) /\ Len(queue) \in Nat /\ Len(queue) >= 1
         /\ Len(Tail(queue)) = Len(queue) - 1
         /\ Head(queue) = queue[1] /\ Head(queue) \in Contexts
         /\ \A i \in 1..(Len(queue) - 1) : Tail(queue)[i] = queue[i + 1]
  OBVIOUS

(***************************************************************************)
(* A context without a task may be given one.                              *)
(***************************************************************************)
LEMMA TaskAdded ==
  ASSUME Types, WaitsAlone, NEW c \in Contexts,
         active[c] = 0, \A i \in 1..Len(queue) : queue[i] # c,
         queue' = Append(queue, c), UNCHANGED active
  PROVE  /\ queue' \in Seq(Contexts) /\ WaitsAlone'
         /\ \A d \in Contexts : d # c /\ (\A i \in 1..Len(queue) : queue[i] # d)
              => \A i \in 1..Len(queue') : queue'[i] # d
<1>1. queue \in Seq(Contexts) /\ Len(queue) \in Nat
  BY DEF Types
<1>2. /\ queue' \in Seq(Contexts) /\ Len(queue') = Len(queue) + 1
      /\ \A i \in 1..Len(queue') : queue'[i] = IF i <= Len(queue) THEN queue[i] ELSE c
  BY <1>1, Added
<1>3. WaitsAlone'
  BY <1>1, <1>2 DEF WaitsAlone
<1>4. QED
  BY <1>1, <1>2, <1>3

(***************************************************************************)
(* At the beginning every context is closed and no task exists.            *)
(***************************************************************************)
LEMMA InitInv == Init => Inv
<1>1. SUFFICES ASSUME Init
               PROVE  Inv
  OBVIOUS
<1>2. queue \in Seq(Contexts) /\ Len(queue) = 0
  BY <1>1 DEF Init
<1>3. Types
  BY <1>1, <1>2 DEF Init, Types, NoCall
<1>4. WaitsAlone /\ NoneAtRest /\ OpensClosed
  BY <1>1, <1>2 DEF Init, WaitsAlone, NoneAtRest, OpensClosed, NoCall
<1>5. QED
  BY <1>3, <1>4 DEF Inv

-----------------------------------------------------------------------------
(***************************************************************************)
(* The calls of FFmpeg.                                                    *)
(***************************************************************************)
LEMMA OpenStep ==
  ASSUME Inv, NEW c \in Contexts, Open(c)
  PROVE  Inv'
<1>1. call' = [op |-> "open", ctx |-> c, todo |-> {d \in Contexts : state[d] # "closed"}]
  BY DEF Open
<1>2. Types' /\ OpensClosed'
  BY <1>1 DEF Open, Inv, Types, OpensClosed
<1>3. WaitsAlone' /\ NoneAtRest'
  BY DEF Open, Inv, WaitsAlone, NoneAtRest
<1>4. QED
  BY <1>2, <1>3 DEF Inv

(***************************************************************************)
(* The contexts that are paused while another one is opened.               *)
(***************************************************************************)
LEMMA PauseStep ==
  ASSUME Inv, NEW c \in Contexts, AsksToPause(c) \/ PauseReturns(c)
  PROVE  Inv'
<1>1. CASE AsksToPause(c)
  BY <1>1 DEF AsksToPause, Wakes, Inv, Types, WaitsAlone, NoneAtRest, OpensClosed
<1>2. CASE PauseReturns(c)
  <2>1. /\ call.op = "open" /\ c \in call.todo
        /\ active[c] = 0 /\ \A i \in 1..Len(queue) : queue[i] # c
    BY <1>2 DEF PauseReturns, TaskIsRunning, Inv, Types
  <2>2. /\ call'.op = call.op /\ call'.ctx = call.ctx /\ call'.todo = call.todo \ {c}
        /\ DOMAIN call' = {"op", "ctx", "todo"}
    BY <1>2 DEF PauseReturns, Inv, Types
  <2>3. Types'
    BY <1>2, <2>2 DEF PauseReturns, Inv, Types
  <2>4. OpensClosed'
    BY <1>2, <2>1, <2>2 DEF PauseReturns, Inv, Types, OpensClosed
  <2>5. WaitsAlone' /\ NoneAtRest'
    BY <1>2, <2>1 DEF PauseReturns, Inv, Types, WaitsAlone, NoneAtRest
  <2>6. QED
    BY <2>3, <2>4, <2>5 DEF Inv
<1>3. QED
  BY <1>1, <1>2

(***************************************************************************)
(* The context that was opened gets its first task, or is forgotten.       *)
(***************************************************************************)
LEMMA OpenReturnsStep ==
  ASSUME Inv, OpenReturns
  PROVE  Inv'
<1>1. /\ call.ctx \in Contexts /\ state[call.ctx] = "closed"
      /\ active[call.ctx] = 0 /\ \A i \in 1..Len(queue) : queue[i] # call.ctx
  BY DEF OpenReturns, Inv, Types, OpensClosed, NoneAtRest
<1>2. call' = NoCall
  BY DEF OpenReturns
<1>3. CASE UNCHANGED <<state, aborted, queue>>
  BY <1>2, <1>3 DEF OpenReturns, NoCall, Inv, Types, WaitsAlone, NoneAtRest, OpensClosed
<1>4. CASE /\ state' = [state EXCEPT ![call.ctx] = "started"]
           /\ aborted' = [aborted EXCEPT ![call.ctx] = FALSE]
           /\ queue' = Append(queue, call.ctx)
  <2>1. UNCHANGED <<active, sleep>>
    BY DEF OpenReturns
  <2>2. /\ queue' \in Seq(Contexts) /\ WaitsAlone'
        /\ \A d \in Contexts : d # call.ctx /\ (\A i \in 1..Len(queue) : queue[i] # d)
             => \A i \in 1..Len(queue') : queue'[i] # d
    BY <1>1, <1>4, <2>1, TaskAdded DEF Inv
  <2>3. Types'
    BY <1>1, <1>2, <1>4, <2>1, <2>2 DEF NoCall, Inv, Types
  <2>4. NoneAtRest'
    BY <1>1, <1>4, <2>1, <2>2 DEF Inv, Types, NoneAtRest
  <2>5. OpensClosed'
    BY <1>2 DEF NoCall, OpensClosed
  <2>6. QED
    BY <2>2, <2>3, <2>4, <2>5 DEF Inv
<1>5. QED
  BY <1>3, <1>4 DEF OpenReturns

(***************************************************************************)
(* A read resumes its context when that was paused.                        *)
(***************************************************************************)
LEMMA ReadStep ==
  ASSUME Inv, NEW c \in Contexts, Read(c)
  PROVE  Inv'
<1>1. call' = [op |-> "read", ctx |-> c, todo |-> {}] /\ UNCHANGED <<active, sleep>>
  BY DEF Read
<1>2. OpensClosed'
  BY <1>1 DEF OpensClosed
<1>3. CASE state[c] = "paused"
  <2>1. /\ state' = [state EXCEPT ![c] = "started"]
        /\ aborted' = [aborted EXCEPT ![c] = FALSE]
        /\ queue' = Append(queue, c)
    BY <1>3 DEF Read, Resumed
  <2>2. active[c] = 0 /\ \A i \in 1..Len(queue) : queue[i] # c
    BY <1>3 DEF Inv, NoneAtRest
  <2>3. /\ queue' \in Seq(Contexts) /\ WaitsAlone'
        /\ \A d \in Contexts : d # c /\ (\A i \in 1..Len(queue) : queue[i] # d)
             => \A i \in 1..Len(queue') : queue'[i] # d
    BY <1>1, <2>1, <2>2, TaskAdded DEF Inv
  <2>4. Types'
    BY <1>1, <2>1, <2>3 DEF Inv, Types
  <2>5. NoneAtRest'
    BY <1>1, <2>1, <2>3 DEF Inv, Types, NoneAtRest
  <2>6. QED
    BY <1>2, <2>3, <2>4, <2>5 DEF Inv
<1>4. CASE state[c] # "paused"
  <2>1. UNCHANGED <<state, aborted, queue>>
    BY <1>4 DEF Read, Resumed
  <2>2. QED
    BY <1>1, <1>2, <2>1 DEF Inv, Types, WaitsAlone, NoneAtRest
<1>5. QED
  BY <1>3, <1>4

(***************************************************************************)
(* What does not touch the tasks: a resume that fails, a task that decides *)
(* to wait and then sleeps.                                                *)
(***************************************************************************)
LEMMA RestStep ==
  ASSUME Inv, NEW c \in Contexts, ResumeFails(c) \/ TaskDecides(c) \/ TaskSleeps(c)
  PROVE  Inv'
<1>1. UNCHANGED <<state, queue, active, call>>
  BY DEF ResumeFails, TaskDecides, TaskSleeps
<1>2. Types'
  BY <1>1 DEF ResumeFails, TaskDecides, TaskSleeps, Inv, Types
<1>3. WaitsAlone' /\ NoneAtRest' /\ OpensClosed'
  BY <1>1 DEF Inv, WaitsAlone, NoneAtRest, OpensClosed
<1>4. QED
  BY <1>2, <1>3 DEF Inv

(***************************************************************************)
(* A context is closed when its task has ended.                            *)
(***************************************************************************)
LEMMA CloseStep ==
  ASSUME Inv, (\E c \in Contexts : Close(c)) \/ CloseReturns
  PROVE  Inv'
<1>1. ASSUME NEW c \in Contexts, Close(c)
      PROVE  Inv'
  <2>1. call' = [op |-> "close", ctx |-> c, todo |-> {}]
    BY <1>1 DEF Close
  <2>2. QED
    BY <1>1, <2>1 DEF Close, Wakes, Inv, Types, WaitsAlone, NoneAtRest, OpensClosed
<1>2. CASE CloseReturns
  <2>1. /\ call.ctx \in Contexts /\ active[call.ctx] = 0
        /\ \A i \in 1..Len(queue) : queue[i] # call.ctx
    BY <1>2 DEF CloseReturns, TaskIsRunning, Inv, Types
  <2>2. call' = NoCall
    BY <1>2 DEF CloseReturns
  <2>3. Types' /\ OpensClosed'
    BY <1>2, <2>2 DEF CloseReturns, NoCall, Inv, Types, OpensClosed
  <2>4. WaitsAlone' /\ NoneAtRest'
    BY <1>2, <2>1 DEF CloseReturns, Inv, Types, WaitsAlone, NoneAtRest
  <2>5. QED
    BY <2>3, <2>4 DEF Inv
<1>3. QED
  BY <1>1, <1>2

(***************************************************************************)
(* The threads of the pool.                                                *)
(***************************************************************************)
LEMMA TaskBeginsStep ==
  ASSUME Inv, TaskBegins
  PROVE  Inv'
<1> DEFINE h == Head(queue)
<1>1. /\ Tail(queue) \in Seq(Contexts) /\ Len(queue) \in Nat /\ Len(queue) >= 1
      /\ Len(Tail(queue)) = Len(queue) - 1
      /\ h = queue[1] /\ h \in Contexts
      /\ \A i \in 1..(Len(queue) - 1) : Tail(queue)[i] = queue[i + 1]
  BY Taken DEF TaskBegins, Inv, Types
<1>2. /\ active' = [active EXCEPT ![h] = @ + 1] /\ queue' = Tail(queue)
      /\ UNCHANGED <<state, aborted, sleep, call>>
  BY DEF TaskBegins
<1>3. active[h] = 0
  BY <1>1 DEF Inv, WaitsAlone
<1>4. active' = [active EXCEPT ![h] = 1]
  BY <1>2, <1>3
<1> HIDE DEF h
<1>5. Types'
  BY <1>1, <1>2, <1>4 DEF Inv, Types
<1>6. \A i \in 1..Len(queue') : queue'[i] = queue[i + 1] /\ i + 1 \in 1..Len(queue)
  BY <1>1, <1>2
<1>7. \A i \in 1..Len(queue') : queue'[i] # h /\ queue'[i] \in Contexts
  <2>1. \A i \in 1..Len(queue) : queue[i] \in Contexts
    BY DEF Inv, Types
  <2>2. 1 \in 1..Len(queue)
    BY <1>1
  <2>3. \A i \in 1..Len(queue') : i + 1 # 1
    BY <1>1, <1>2
  <2>4. QED
    BY <1>1, <1>6, <2>1, <2>2, <2>3 DEF Inv, WaitsAlone
<1>8. WaitsAlone'
  <2>1. \A i \in 1..Len(queue') : active'[queue'[i]] = 0
    BY <1>4, <1>6, <1>7 DEF Inv, Types, WaitsAlone
  <2>2. ASSUME NEW i \in 1..Len(queue'), NEW j \in 1..Len(queue'), queue'[i] = queue'[j]
        PROVE  i = j
    <3>1. i + 1 = j + 1
      BY <1>6, <2>2 DEF Inv, WaitsAlone
    <3>2. i \in Int /\ j \in Int
      BY <1>1, <1>2
    <3>3. QED
      BY <3>1, <3>2
  <2>3. QED
    BY <2>1, <2>2 DEF WaitsAlone
<1>9. NoneAtRest'
  <2>1. state[h] \notin {"paused", "closed"}
    BY <1>1 DEF Inv, NoneAtRest
  <2>2. QED
    BY <1>2, <1>4, <1>6, <2>1 DEF Inv, Types, NoneAtRest
<1>10. OpensClosed'
  BY <1>2 DEF Inv, OpensClosed
<1>11. QED
  BY <1>5, <1>8, <1>9, <1>10 DEF Inv

(***************************************************************************)
(* A thread ends the task of an aborted context.                           *)
(***************************************************************************)
LEMMA TaskEndsStep ==
  ASSUME Inv, NEW c \in Contexts, TaskEnds(c)
  PROVE  Inv'
<1>1. active[c] = 1
  BY DEF TaskEnds, Inv, Types
<1>2. active' = [active EXCEPT ![c] = 0] /\ UNCHANGED <<state, aborted, queue, sleep, call>>
  BY <1>1 DEF TaskEnds
<1>3. Types' /\ OpensClosed'
  BY <1>2 DEF Inv, Types, OpensClosed
<1>4. WaitsAlone' /\ NoneAtRest'
  <2>1. \A i \in 1..Len(queue) : queue[i] \in Contexts
    BY DEF Inv, Types
  <2>2. QED
    BY <1>2, <2>1 DEF Inv, Types, WaitsAlone, NoneAtRest
<1>5. QED
  BY <1>3, <1>4 DEF Inv

(***************************************************************************)
(* Every step keeps the invariant.                                         *)
(***************************************************************************)
LEMMA InvStep == Inv /\ [Next]_vars => Inv'
<1>1. SUFFICES ASSUME Inv, [Next]_vars
               PROVE  Inv'
  OBVIOUS
<1>2. CASE UNCHANGED vars
  BY <1>1, <1>2 DEF vars, Inv, Types, WaitsAlone, NoneAtRest, OpensClosed
<1>3. CASE ReadReturns
  BY <1>1, <1>3 DEF ReadReturns, Wakes, NoCall, Inv, Types, WaitsAlone, NoneAtRest, OpensClosed
<1>4. ASSUME NEW c \in Contexts, Open(c) \/ Read(c) \/ Close(c)
      PROVE  Inv'
  BY <1>1, <1>4, OpenStep, ReadStep, CloseStep
<1>5. ASSUME NEW c \in Contexts, AsksToPause(c) \/ PauseReturns(c) \/ TaskEnds(c)
      PROVE  Inv'
  BY <1>1, <1>5, PauseStep, TaskEndsStep
<1>6. CASE OpenReturns \/ CloseReturns \/ TaskBegins
  BY <1>1, <1>6, OpenReturnsStep, CloseStep, TaskBeginsStep
<1>7. ASSUME NEW c \in Contexts, ResumeFails(c) \/ TaskDecides(c) \/ TaskSleeps(c)
      PROVE  Inv'
  BY <1>1, <1>7, RestStep
<1>8. QED
  BY <1>1, <1>2, <1>3, <1>4, <1>5, <1>6, <1>7 DEF Next, CallStep, PoolStep

(***************************************************************************)
(* The invariant holds in every state.                                     *)
(***************************************************************************)
LEMMA Safe == Spec => []Inv
  BY InitInv, InvStep, PTL DEF Spec

-----------------------------------------------------------------------------
(***************************************************************************)
(* No context has two tasks, and none keeps one when it is paused or       *)
(* closed, whatever calls FFmpeg makes and whenever the threads of the     *)
(* pool take and end the tasks.                                            *)
(***************************************************************************)
THEOREM TasksApart == Spec => []OneTask
<1>1. Inv => OneTask
  <2>1. SUFFICES ASSUME Inv, NEW c \in Contexts
                 PROVE  /\ active[c] + Cardinality({i \in 1..Len(queue) : queue[i] = c}) <= 1
                        /\ state[c] \in {"paused", "closed"} => ~TaskIsRunning(c)
    BY DEF OneTask
  <2> DEFINE Waiting == {i \in 1..Len(queue) : queue[i] = c}
  <2>2. active[c] \in {0, 1} /\ Len(queue) \in Nat
    BY <2>1 DEF Inv, Types
  <2>3. state[c] \in {"paused", "closed"} => ~TaskIsRunning(c)
    BY <2>1, <2>2 DEF Inv, NoneAtRest, TaskIsRunning
  <2>4. CASE Waiting = {}
    BY <2>2, <2>3, <2>4, FS_EmptySet
  <2>5. CASE Waiting # {}
    <3>1. PICK i \in 1..Len(queue) : queue[i] = c
      BY <2>5
    <3>2. Waiting = {i}
      BY <2>1, <3>1 DEF Inv, WaitsAlone
    <3>3. Cardinality(Waiting) = 1
      BY <3>2, FS_Singleton
    <3>4. active[c] = 0
      BY <2>1, <3>1 DEF Inv, WaitsAlone
    <3>5. QED
      BY <2>3, <3>3, <3>4
  <2>6. QED
    BY <2>4, <2>5
<1>2. QED
  BY <1>1, Safe, PTL

(***************************************************************************)
(* Type correctness, with the threads: no more of them run tasks than the  *)
(* pool has.                                                               *)
(***************************************************************************)
THEOREM TypeCorrect == Spec => []TypeOK
<1> DEFINE Running == {c \in Contexts : active[c] > 0}
           Bounded == Threads <= Workers
<1>1. Init => Bounded
  <2>1. SUFFICES ASSUME Init
                 PROVE  Bounded
    OBVIOUS
  <2>2. Running = {}
    BY <2>1 DEF Init
  <2>3. QED
    BY <2>2, FS_EmptySet, ManagerAssumption DEF Threads
<1>2. Inv /\ Bounded /\ [Next]_vars => Bounded'
  <2>1. SUFFICES ASSUME Inv, Bounded, [Next]_vars
                 PROVE  Bounded'
    OBVIOUS
  <2>2. /\ IsFiniteSet(Running) /\ Cardinality(Running) \in Nat
        /\ Threads = Cardinality(Running) /\ Threads' = Cardinality(Running')
    BY FS_Subset, FS_CardinalityType, ManagerAssumption DEF Threads
  <2>3. CASE TaskBegins
    <3>1. Head(queue) \in Contexts /\ active' = [active EXCEPT ![Head(queue)] = @ + 1]
      BY <2>1, <2>3, Taken DEF TaskBegins, Inv, Types
    <3>2. Running' = Running \cup {Head(queue)}
      BY <2>1, <3>1 DEF Inv, Types
    <3>3. Cardinality(Running') <= Cardinality(Running) + 1
      BY <2>2, <3>2, FS_AddElement
    <3>4. Threads < Workers
      BY <2>3 DEF TaskBegins
    <3>5. Cardinality(Running') \in Nat
      BY <2>2, <3>2, FS_AddElement, FS_CardinalityType
    <3>6. QED
      BY <2>2, <3>3, <3>4, <3>5, ManagerAssumption
  <2>4. ASSUME NEW c \in Contexts, TaskEnds(c)
        PROVE  Bounded'
    <3>1. active[c] = 1
      BY <2>1, <2>4 DEF TaskEnds, Inv, Types
    <3>2. Running' = Running \ {c}
      BY <2>1, <2>4, <3>1 DEF TaskEnds, Inv, Types
    <3>3. IsFiniteSet(Running \ {c}) /\ Cardinality(Running \ {c}) <= Cardinality(Running)
      <4> HIDE DEF Running
      <4>1. /\ IsFiniteSet(Running \ {c})
            /\ \/ Cardinality(Running \ {c}) = Cardinality(Running)
               \/ Cardinality(Running \ {c}) = Cardinality(Running) - 1
        BY <2>2, FS_RemoveElement, Zenon
      <4>2. QED
        BY <2>2, <4>1
    <3>4. Cardinality(Running \ {c}) \in Nat
      BY <3>3, FS_CardinalityType
    <3>5. QED
      BY <2>1, <2>2, <3>2, <3>3, <3>4, ManagerAssumption
  <2>5. CASE UNCHANGED active
    BY <2>1, <2>5 DEF Threads
  <2>6. (\E c \in Contexts :
           \/ Open(c) \/ Read(c) \/ ResumeFails(c) \/ Close(c)
           \/ AsksToPause(c) \/ PauseReturns(c) \/ TaskDecides(c) \/ TaskSleeps(c))
          => UNCHANGED active
    BY DEF Open, Read, ResumeFails, Close, AsksToPause, PauseReturns, TaskDecides, TaskSleeps
  <2>7. OpenReturns \/ ReadReturns \/ CloseReturns => UNCHANGED active
    BY DEF OpenReturns, ReadReturns, CloseReturns
  <2>8. CASE Next
    BY <2>3, <2>4, <2>5, <2>6, <2>7, <2>8 DEF Next, CallStep, PoolStep
  <2>9. QED
    BY <2>1, <2>5, <2>8 DEF vars
<1>3. Inv /\ Bounded => TypeOK
  BY DEF Inv, Types, TypeOK
<1>4. QED
  BY <1>1, <1>2, <1>3, Safe, PTL DEF Spec
=============================================================================
