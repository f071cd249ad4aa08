------------------------------ MODULE MsgQueue ------------------------------
(***************************************************************************)
(* The player's message queue (ijkmedia/ijkplayer/ff_ffmsg_queue.h) as its *)
(* users see it: posting threads, the message-loop threads that block in   *)
(* msg_queue_get, and the heap object a message may own.                   *)
(*                                                                         *)
(* Every operation of the queue runs under q->mutex, so it is one action;  *)
(* only msg_queue_get gives the mutex up, in SDL_CondWait, and is split    *)
(* there.  Messages are stamped with the order in which they were posted,  *)
(* so the FIFO is the set of pending messages and its head is the pending  *)
(* message with the least stamp.  MsgQueueList refines this module to the  *)
(* linked list of the C code.                                              *)
(***************************************************************************)
EXTENDS Naturals

CONSTANTS
  Whats,      \* message codes (FFP_MSG_xxx, FFP_REQ_xxx)
  FlushMsg,   \* FFP_MSG_FLUSH, posted by msg_queue_start
  Loops,      \* message-loop threads, at most one of which a correct client runs
  MaxMsgs     \* bound: number of messages posted in a behaviour

ASSUME QueueAssumption ==
  /\ FlushMsg \in Whats
  /\ Loops # {}
  /\ MaxMsgs \in Nat

VARIABLES
  abort_request,  \* q->abort_request
  queue,          \* messages between q->first_msg and q->last_msg
  loop,           \* where each message-loop thread is
  hand,           \* messages got by each loop whose obj it still has to free
  made,           \* history: stamps of the messages an obj was allocated for
  freed,          \* history: stamps of the messages whose obj was freed
  posted          \* number of messages posted so far; stamps are 1 .. posted

vars == <<abort_request, queue, loop, hand, made, freed, posted>>

Stamps   == Nat \ {0}
Messages == [stamp : Stamps, what : Whats, obj : BOOLEAN]

(***************************************************************************)
(* A loop thread is "off" before it is created and after it has returned,  *)
(* "running" outside SDL_CondWait, "asleep" in SDL_CondWait, and "woken"   *)
(* when it was signalled and has yet to take q->mutex again.               *)
(***************************************************************************)
LoopStates == {"off", "running", "asleep", "woken"}
Asleep     == {l \in Loops : loop[l] = "asleep"}

StampsOf(msgs) == {m.stamp : m \in msgs}
OwnsObj(msgs)  == StampsOf({m \in msgs : m.obj})

Oldest(msgs) == CHOOSE m \in msgs : \A n \in msgs : m.stamp <= n.stamp

-----------------------------------------------------------------------------
Init ==
  /\ abort_request = TRUE
  /\ queue = {}
  /\ loop = [l \in Loops |-> "off"]
  /\ hand = [l \in Loops |-> {}]
  /\ made = {}
  /\ freed = {}
  /\ posted = 0

\* SDL_CondSignal(q->cond): one sleeping thread, if there is one, leaves the
\* wait; lp is the state of the threads the operation starts from.
Signal(lp) ==
  IF \E l \in Loops : lp[l] = "asleep"
  THEN \E l \in Loops : lp[l] = "asleep" /\ loop' = [lp EXCEPT ![l] = "woken"]
  ELSE loop' = lp

\* Mutant: a message without an object is not counted.
StampObjOnly(obj) ==
  /\ posted' = IF obj THEN posted + 1 ELSE posted
  /\ made' = IF obj THEN made \cup {posted + 1} ELSE made

\* msg_queue_put_simple4 allocates the object before it tries to post.
Stamp(obj) ==
  /\ posted' = posted + 1
  /\ made' = IF obj THEN made \cup {posted + 1} ELSE made

\* msg_queue_put_private of an accepted message, which has got a node.
Enqueue(what, obj) ==
  /\ Stamp(obj)
  /\ queue' = queue \cup {[stamp |-> posted + 1, what |-> what, obj |-> obj]}

\* Mutant: msg_queue_put without SDL_CondSignal.
PutNoSignal(what, obj) ==
  /\ posted < MaxMsgs
  /\ ~abort_request
  /\ Enqueue(what, obj)
  /\ UNCHANGED <<abort_request, loop, hand, freed>>

\* msg_queue_put and msg_queue_put_simple1 .. 4, by any thread.
Put(what, obj) ==
  /\ posted < MaxMsgs
  /\ ~abort_request
  /\ Enqueue(what, obj)
  /\ Signal(loop)
  /\ UNCHANGED <<abort_request, hand, freed>>

\* The same calls on an aborted queue, or when there is no memory for a node:
\* nothing is queued, nobody is signalled, and nobody frees the object that
\* msg_queue_put_simple4 has just allocated.
PutRefused(obj) ==
  /\ posted < MaxMsgs
  /\ Stamp(obj)
  /\ UNCHANGED <<abort_request, queue, loop, hand, freed>>

\* msg_queue_start, then the creation of the loop thread l by the caller
\* (ijkmp_prepare_async_l), which does not ask whether FFP_MSG_FLUSH was queued.
Start(l) ==
  /\ posted < MaxMsgs
  /\ loop[l] = "off"
  /\ abort_request' = FALSE
  /\ Enqueue(FlushMsg, FALSE)
  /\ Signal([loop EXCEPT ![l] = "running"])
  /\ UNCHANGED <<hand, freed>>

StartNoNode(l) ==
  /\ posted < MaxMsgs
  /\ loop[l] = "off"
  /\ abort_request' = FALSE
  /\ Stamp(FALSE)
  /\ loop' = [loop EXCEPT ![l] = "running"]
  /\ UNCHANGED <<queue, hand, freed>>

\* Mutant: msg_queue_abort without SDL_CondSignal.
AbortNoSignal ==
  /\ abort_request' = TRUE
  /\ UNCHANGED <<queue, loop, hand, made, freed, posted>>

\* msg_queue_abort.
Abort ==
  /\ abort_request' = TRUE
  /\ Signal(loop)
  /\ UNCHANGED <<queue, hand, made, freed, posted>>

\* Mutant: msg_queue_remove without msg_free_res (as its FFP_MERGE branch).
RemoveNoFree(what) ==
  /\ ~abort_request
  /\ queue' = queue \ {m \in queue : m.what = what}
  /\ UNCHANGED <<abort_request, loop, hand, made, freed, posted>>

\* msg_queue_remove: the messages with this code leave the queue and their
\* objects are freed; an aborted queue is left alone.
Remove(what) ==
  /\ ~abort_request
  /\ LET gone == {m \in queue : m.what = what}
     IN  /\ queue' = queue \ gone
         /\ freed' = freed \cup OwnsObj(gone)
  /\ UNCHANGED <<abort_request, loop, hand, made, posted>>

\* msg_queue_get(block = 1), from its entry or from the return of SDL_CondWait:
\* the three outcomes of one turn of its loop.
Turn(l) == hand[l] = {} /\ loop[l] \in {"running", "woken"}

\* Mutant: the recycled node keeps its obj pointer, which is then freed twice.
GetKeepsObj(l) ==
  /\ Turn(l)
  /\ ~abort_request
  /\ queue # {}
  /\ queue' = queue \ {Oldest(queue)}
  /\ hand' = [hand EXCEPT ![l] = {Oldest(queue)}]
  /\ loop' = [loop EXCEPT ![l] = "running"]
  /\ freed' = freed \cup OwnsObj({Oldest(queue)})
  /\ UNCHANGED <<abort_request, made, posted>>

GetMessage(l) ==
  /\ Turn(l)
  /\ ~abort_request
  /\ queue # {}
  /\ queue' = queue \ {Oldest(queue)}
  /\ hand' = [hand EXCEPT ![l] = {Oldest(queue)}]
  /\ loop' = [loop EXCEPT ![l] = "running"]
  /\ UNCHANGED <<abort_request, made, freed, posted>>

GetWaits(l) ==
  /\ Turn(l)
  /\ ~abort_request
  /\ queue = {}
  /\ loop' = [loop EXCEPT ![l] = "asleep"]
  /\ UNCHANGED <<abort_request, queue, hand, made, freed, posted>>

\* A negative result ends the loop of message_loop_n.
GetAborted(l) ==
  /\ Turn(l)
  /\ abort_request
  /\ loop' = [loop EXCEPT ![l] = "off"]
  /\ UNCHANGED <<abort_request, queue, hand, made, freed, posted>>

\* POSIX lets a wait return without a signal.
SpuriousWakeup(l) ==
  /\ loop[l] = "asleep"
  /\ loop' = [loop EXCEPT ![l] = "woken"]
  /\ UNCHANGED <<abort_request, queue, hand, made, freed, posted>>

\* msg_free_res by the loop, once it is done with the message.
FreeRes(l) ==
  /\ hand[l] # {}
  /\ freed' = freed \cup OwnsObj(hand[l])
  /\ hand' = [hand EXCEPT ![l] = {}]
  /\ UNCHANGED <<abort_request, queue, loop, made, posted>>

\* ffp_destroy: ffp_reset_internal flushes the queue, then msg_queue_destroy
\* frees the object of every recycled node.  The last reference destroys the
\* player, so no loop is left.  The queue of the next player, which
\* msg_queue_init makes, takes its place.
Recreate ==
  /\ abort_request
  /\ \A l \in Loops : loop[l] = "off" /\ hand[l] = {}
  /\ freed' = freed \cup OwnsObj(queue)
  /\ queue' = {}
  /\ UNCHANGED <<abort_request, loop, hand, made, posted>>

LoopStep(l) == GetMessage(l) \/ GetWaits(l) \/ GetAborted(l) \/ FreeRes(l)

Next ==
  \/ \E what \in Whats, obj \in BOOLEAN : Put(what, obj)
  \/ \E obj \in BOOLEAN : PutRefused(obj)
  \/ \E what \in Whats : Remove(what)
  \/ \E l \in Loops : Start(l) \/ StartNoNode(l) \/ LoopStep(l) \/ SpuriousWakeup(l)
  \/ Abort
  \/ Recreate

Spec == Init /\ [][Next]_vars

\* A message loop keeps calling msg_queue_get; nothing else has to happen.
FairSpec == Spec /\ \A l \in Loops : WF_vars(LoopStep(l))

-----------------------------------------------------------------------------
(***************************************************************************)
(* Every variable keeps its type, and every stamp was handed out.          *)
(***************************************************************************)
TypeOK ==
  /\ abort_request \in BOOLEAN
  /\ queue \in SUBSET Messages
  /\ loop \in [Loops -> LoopStates]
  /\ hand \in [Loops -> SUBSET Messages]
  /\ posted \in Nat
  /\ StampsOf(queue) \subseteq 1 .. posted
  /\ \A l \in Loops : StampsOf(hand[l]) \subseteq 1 .. posted
  /\ made \subseteq 1 .. posted
  /\ freed \subseteq made

\* The messages in the hand of some loop.
InHands == UNION {hand[l] : l \in Loops}

\* The objects that can still be freed, and those that no longer can.
Live == OwnsObj(queue \cup InHands)
Lost == made \ (Live \cup freed)

(***************************************************************************)
(* The object of a message has one owner: a message is not both queued and *)
(* in a loop's hand, nor in two hands, and the object of a message that is *)
(* queued or in a hand has not been freed, so that nobody frees it twice   *)
(* or uses it after it was freed.                                          *)
(***************************************************************************)
ObjOwnedOnce ==
  /\ StampsOf(queue) \cap StampsOf(InHands) = {}
  /\ \A k, l \in Loops : k # l => StampsOf(hand[k]) \cap StampsOf(hand[l]) = {}
  /\ Live \cap freed = {}

(***************************************************************************)
(* Delivery, removal and destruction all account for the objects of the    *)
(* messages they take: an object is lost only by the post that allocated   *)
(* it, when that did not queue its message, and it is the only one.        *)
(***************************************************************************)
LostOnlyWhenRefused ==
  [][Lost' # Lost => /\ posted' = posted + 1 /\ Lost' = Lost \cup {posted'}
                     /\ queue' = queue]_vars

(***************************************************************************)
(* SDL_CondSignal wakes one thread and is not remembered: no order of      *)
(* posts, waits, aborts and restarts leaves messages in a live queue while *)
(* every loop that could get them is asleep.                               *)
(***************************************************************************)
NoLostWakeup ==
  ~abort_request /\ queue # {} /\ Asleep # {} =>
    \E l \in Loops : loop[l] \in {"running", "woken"}

(***************************************************************************)
(* msg_queue_abort ends the message loop, even one that sleeps in          *)
(* msg_queue_get, unless the queue is started again before it notices.     *)
(***************************************************************************)
AbortedLoopEnds ==
  \A l \in Loops : abort_request ~> (loop[l] = "off" \/ ~abort_request)

(***************************************************************************)
(* A pending message does not stay in a live queue for ever.               *)
(***************************************************************************)
PendingLeaves ==
  \A s \in 1 .. MaxMsgs :
    s \in StampsOf(queue) ~> (s \notin StampsOf(queue) \/ abort_request)
=============================================================================
