---------------------------- MODULE MsgQueueList ----------------------------
(***************************************************************************)
(* The message queue as ff_ffmsg_queue.h builds it: AVMessage nodes linked *)
(* by next, first_msg and last_msg, and the stack of recycled nodes that   *)
(* posting takes from before it allocates.  The threads are those of       *)
(* MsgQueue, and every behaviour of this module is one of MsgQueue.        *)
(***************************************************************************)
EXTENDS Naturals, FiniteSets

CONSTANTS Whats, FlushMsg, Loops, MaxMsgs

VARIABLES
  q,       \* the MessageQueue structure
  node,    \* the AVMessage nodes: content and next
  loop, hand, made, freed, posted   \* as in MsgQueue

vars == <<q, node, loop, hand, made, freed, posted>>

\* A node is numbered by the allocation that made it, so MaxMsgs nodes suffice.
NULL  == 0
Nodes == 1 .. MaxMsgs

Blank == [stamp |-> 0, what |-> FlushMsg, obj |-> FALSE]

\* The nodes from n on, following next.
RECURSIVE From(_, _)
From(nd, n) == IF n = NULL THEN {} ELSE {n} \cup From(nd, nd[n].next)

Queued   == From(node, q.first_msg)
Recycled == From(node, q.recycle_msg)
Content(ns) == {node[n].msg : n \in ns}

OwnsObj(msgs) == {m.stamp : m \in {x \in msgs : x.obj}}

NewQueue ==
  [first_msg |-> NULL, last_msg |-> NULL, nb_messages |-> 0, abort_request |-> TRUE,
   recycle_msg |-> NULL, recycle_count |-> 0, alloc_count |-> 0]

NewNodes == [n \in Nodes |-> [msg |-> Blank, next |-> NULL]]

Init ==
  /\ q = NewQueue
  /\ node = NewNodes
  /\ loop = [l \in Loops |-> "off"]
  /\ hand = [l \in Loops |-> {}]
  /\ made = {}
  /\ freed = {}
  /\ posted = 0

-----------------------------------------------------------------------------
Signal(lp) ==
  IF \E l \in Loops : lp[l] = "asleep"
  THEN \E l \in Loops : lp[l] = "asleep" /\ loop' = [lp EXCEPT ![l] = "woken"]
  ELSE loop' = lp

Stamp(obj) ==
  /\ posted' = posted + 1
  /\ made' = IF obj THEN made \cup {posted + 1} ELSE made

\* Mutant: a recycled node keeps its link, as if next were not cleared.
LinkLastStale(nd, qq, n, msg) ==
  LET filled == [nd EXCEPT ![n].msg = msg]
  IN  IF qq.last_msg = NULL THEN filled
      ELSE [filled EXCEPT ![qq.last_msg].next = n]

\* The nodes after msg was copied into n and n linked behind last_msg.
LinkLast(nd, qq, n, msg) ==
  LET filled == [nd EXCEPT ![n] = [msg |-> msg, next |-> NULL]]
  IN  IF qq.last_msg = NULL THEN filled
      ELSE [filled EXCEPT ![qq.last_msg].next = n]

\* msg_queue_put_private on the queue qq, when it is not aborted and there is a
\* node to recycle or memory for one.
Enqueue(qq, what, obj) ==
  LET msg     == [stamp |-> posted + 1, what |-> what, obj |-> obj]
      reuse   == qq.recycle_msg # NULL
      n       == IF reuse THEN qq.recycle_msg ELSE qq.alloc_count + 1
  IN  /\ Stamp(obj)
      /\ node' = LinkLast(node, qq, n, msg)
      /\ q' = [qq EXCEPT
           !.recycle_msg   = IF reuse THEN node[n].next ELSE NULL,
           !.recycle_count = IF reuse THEN @ + 1 ELSE @,
           !.alloc_count   = IF reuse THEN @ ELSE @ + 1,
           !.first_msg     = IF qq.last_msg = NULL THEN n ELSE @,
           !.last_msg      = n,
           !.nb_messages   = @ + 1]

\* The same when av_malloc fails: only the allocation is counted.
NoNode(qq, obj) ==
  /\ qq.recycle_msg = NULL
  /\ Stamp(obj)
  /\ q' = [qq EXCEPT !.alloc_count = @ + 1]
  /\ UNCHANGED node

Put(what, obj) ==
  /\ posted < MaxMsgs
  /\ ~q.abort_request
  /\ Enqueue(q, what, obj)
  /\ Signal(loop)
  /\ UNCHANGED <<hand, freed>>

PutNoNode(obj) ==
  /\ posted < MaxMsgs
  /\ ~q.abort_request
  /\ NoNode(q, obj)
  /\ UNCHANGED <<loop, hand, freed>>

PutRefused(obj) ==
  /\ posted < MaxMsgs
  /\ q.abort_request
  /\ Stamp(obj)
  /\ UNCHANGED <<q, node, loop, hand, freed>>

Start(l) ==
  /\ posted < MaxMsgs
  /\ loop[l] = "off"
  /\ Enqueue([q EXCEPT !.abort_request = FALSE], FlushMsg, FALSE)
  /\ Signal([loop EXCEPT ![l] = "running"])
  /\ UNCHANGED <<hand, freed>>

StartNoNode(l) ==
  /\ posted < MaxMsgs
  /\ loop[l] = "off"
  /\ NoNode([q EXCEPT !.abort_request = FALSE], FALSE)
  /\ loop' = [loop EXCEPT ![l] = "running"]
  /\ UNCHANGED <<hand, freed>>

Abort ==
  /\ q' = [q EXCEPT !.abort_request = TRUE]
  /\ Signal(loop)
  /\ UNCHANGED <<node, hand, made, freed, posted>>

\* A node goes to the top of the recycle stack, its content set to msg.
Recycle(nd, n, top, msg) == [nd EXCEPT ![n] = [msg |-> msg, next |-> top]]

\* msg_free_res and the obj pointer it clears.
NoObj(msg) == [msg EXCEPT !.obj = FALSE]

\* The loop of msg_queue_remove from the node n on.  *p_msg is the first_msg
\* field when prev is NULL and the next field of prev otherwise.
RECURSIVE RemoveFrom(_, _, _, _, _, _)
RemoveFrom(qq, nd, prev, n, last, what) ==
  LET next == nd[n].next
  IN  IF n = NULL
      THEN <<[qq EXCEPT !.last_msg = IF qq.first_msg # NULL THEN last ELSE NULL], nd>>
      ELSE IF nd[n].msg.what # what
      THEN RemoveFrom(qq, nd, n, next, n, what)
      ELSE LET unlinked == IF prev = NULL THEN nd ELSE [nd EXCEPT ![prev].next = next]
               q1 == [qq EXCEPT
                        !.first_msg   = IF prev = NULL THEN next ELSE @,
                        !.recycle_msg = n,
                        !.nb_messages = @ - 1]
           IN  RemoveFrom(q1, Recycle(unlinked, n, qq.recycle_msg, NoObj(nd[n].msg)),
                          prev, next, last, what)

\* Mutant: last_msg is not recomputed after the loop.
RemoveKeepsLast(what) ==
  /\ ~q.abort_request
  /\ LET r == RemoveFrom(q, node, NULL, q.first_msg, q.first_msg, what)
     IN  /\ q' = [r[1] EXCEPT !.last_msg = IF r[1].first_msg # NULL THEN q.last_msg ELSE NULL]
         /\ node' = r[2]
  /\ freed' = freed \cup OwnsObj({m \in Content(Queued) : m.what = what})
  /\ UNCHANGED <<loop, hand, made, posted>>

Remove(what) ==
  /\ ~q.abort_request
  /\ LET r == RemoveFrom(q, node, NULL, q.first_msg, q.first_msg, what)
     IN  q' = r[1] /\ node' = r[2]
  /\ freed' = freed \cup OwnsObj({m \in Content(Queued) : m.what = what})
  /\ UNCHANGED <<loop, hand, made, posted>>

Turn(l) == hand[l] = {} /\ loop[l] \in {"running", "woken"}

GetMessage(l) ==
  /\ Turn(l)
  /\ ~q.abort_request
  /\ q.first_msg # NULL
  /\ LET n     == q.first_msg
         first == node[n].next
     IN  /\ q' = [q EXCEPT
              !.first_msg   = first,
              !.last_msg    = IF first = NULL THEN NULL ELSE @,
              !.nb_messages = @ - 1,
              !.recycle_msg = n]
         /\ hand' = [hand EXCEPT ![l] = {node[n].msg}]
         /\ node' = Recycle(node, n, q.recycle_msg, NoObj(node[n].msg))
  /\ loop' = [loop EXCEPT ![l] = "running"]
  /\ UNCHANGED <<made, freed, posted>>

GetWaits(l) ==
  /\ Turn(l)
  /\ ~q.abort_request
  /\ q.first_msg = NULL
  /\ loop' = [loop EXCEPT ![l] = "asleep"]
  /\ UNCHANGED <<q, node, hand, made, freed, posted>>

GetAborted(l) ==
  /\ Turn(l)
  /\ q.abort_request
  /\ loop' = [loop EXCEPT ![l] = "off"]
  /\ UNCHANGED <<q, node, hand, made, freed, posted>>

SpuriousWakeup(l) ==
  /\ loop[l] = "asleep"
  /\ loop' = [loop EXCEPT ![l] = "woken"]
  /\ UNCHANGED <<q, node, hand, made, freed, posted>>

FreeRes(l) ==
  /\ hand[l] # {}
  /\ freed' = freed \cup OwnsObj(hand[l])
  /\ hand' = [hand EXCEPT ![l] = {}]
  /\ UNCHANGED <<q, node, loop, made, posted>>

\* msg_queue_flush in front of the recycle stack, from the node n on: the
\* nodes keep their obj.
RECURSIVE FlushFrom(_, _, _)
FlushFrom(nd, top, n) ==
  IF n = NULL THEN <<nd, top>>
  ELSE FlushFrom(Recycle(nd, n, top, nd[n].msg), n, nd[n].next)

\* msg_queue_flush, msg_queue_destroy, and msg_queue_init of the next player.
Recreate ==
  /\ q.abort_request
  /\ \A l \in Loops : loop[l] = "off" /\ hand[l] = {}
  /\ LET flushed == FlushFrom(node, q.recycle_msg, q.first_msg)
     IN  freed' = freed \cup OwnsObj({flushed[1][n].msg : n \in From(flushed[1], flushed[2])})
  /\ q' = NewQueue
  /\ node' = NewNodes
  /\ UNCHANGED <<loop, hand, made, posted>>

LoopStep(l) == GetMessage(l) \/ GetWaits(l) \/ GetAborted(l) \/ FreeRes(l)

Next ==
  \/ \E what \in Whats, obj \in BOOLEAN : Put(what, obj)
  \/ \E obj \in BOOLEAN : PutRefused(obj) \/ PutNoNode(obj)
  \/ \E what \in Whats : Remove(what)
  \/ \E l \in Loops : Start(l) \/ StartNoNode(l) \/ LoopStep(l) \/ SpuriousWakeup(l)
  \/ Abort
  \/ Recreate

Spec == Init /\ [][Next]_vars

-----------------------------------------------------------------------------
(***************************************************************************)
(* The two lists and the counters agree: nb_messages counts the queue,     *)
(* last_msg is the node at its end and has no successor, every node that   *)
(* was made is in exactly one of the two lists, and a recycled node has no *)
(* obj that would be freed again.                                          *)
(***************************************************************************)
ListShape ==
  /\ q.nb_messages = Cardinality(Queued)
  /\ (q.first_msg = NULL) <=> (q.last_msg = NULL)
  /\ q.last_msg # NULL => q.last_msg \in Queued /\ node[q.last_msg].next = NULL
  /\ Queued \cap Recycled = {}
  /\ Queued \cup Recycled = {n \in Nodes : node[n].msg.stamp > 0}
  /\ OwnsObj(Content(Recycled)) = {}

(***************************************************************************)
(* The linked list implements the queue of MsgQueue: its pending messages  *)
(* are the contents of the nodes reachable from first_msg, and what is at  *)
(* the front is what was posted first.                                     *)
(***************************************************************************)
Abstract == INSTANCE MsgQueue WITH
  abort_request <- q.abort_request, queue <- Content(Queued)

ImplementsMsgQueue == Abstract!Spec

(***************************************************************************)
(* An object is lost only by a post to an aborted queue, or by one that    *)
(* found no recycled node and got no memory for a new one; objects in the  *)
(* queue, in a hand and in recycled nodes are all accounted for.           *)
(***************************************************************************)
Lost == made \ (OwnsObj(Content(Queued) \cup UNION {hand[l] : l \in Loops}) \cup freed)

LostOnlyWithoutNode ==
  [][Lost' # Lost =>
       /\ posted' = posted + 1
       /\ \/ q.abort_request
          \/ q.recycle_msg = NULL /\ q'.alloc_count = q.alloc_count + 1]_vars
=============================================================================
