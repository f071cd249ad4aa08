--------------------------- MODULE MsgQueueProofs ---------------------------
(***************************************************************************)
(* Proofs about the message queue (MsgQueue), for every number of loops    *)
(* and messages: its types, the ownership of the messages' objects, that   *)
(* no post but a failing one loses an object, and that no wakeup is lost.  *)
(***************************************************************************)
EXTENDS MsgQueue, FiniteSetTheorems, TLAPS

(***************************************************************************)
(* A set of natural numbers that is not empty has a least element.         *)
(***************************************************************************)
LEMMA LeastNumber ==
  ASSUME NEW S, S \subseteq Nat, S # {}
  PROVE  \E x \in S : \A y \in S : x <= y
<1> DEFINE Segments == {0 .. x : x \in S}
           Order == StrictSubsetOrdering(Nat)
<1>1. \A x \in S : 0 .. x \in FiniteSubsetsOf(Nat)
  <2> SUFFICES ASSUME NEW x \in S
               PROVE  0 .. x \in FiniteSubsetsOf(Nat)
    OBVIOUS
  <2>1. IsFiniteSet(0 .. x)
    BY FS_Interval
  <2>2. QED
    BY <2>1 DEF FiniteSubsetsOf
<1>2. IsWellFoundedOn(Order, FiniteSubsetsOf(Nat))
  BY FS_StrictSubsetOrderingWellFounded
<1>3. PICK t \in Segments : \A u \in Segments : ~(<<u, t>> \in Order)
  <2>1. Segments \subseteq FiniteSubsetsOf(Nat) /\ Segments # {}
    BY <1>1
  <2> HIDE DEF Segments, Order
  <2>2. QED
    BY <1>2, <2>1, WFMin
<1>4. PICK x \in S : t = 0 .. x
  BY <1>3
<1>5. ASSUME NEW y \in S, y < x
      PROVE  FALSE
  <2>1. 0 .. y \in Segments
    OBVIOUS
  <2>2. <<0 .. y, t>> \in Order
    BY <1>4, <1>5 DEF StrictSubsetOrdering
  <2>3. QED
    BY <1>3, <2>1, <2>2
<1>6. QED
  BY <1>5

(***************************************************************************)
(* The head of a queue that is not empty: q->first_msg.                    *)
(***************************************************************************)
LEMMA OldestIsPending ==
  ASSUME NEW msgs \in SUBSET Messages, msgs # {}
  PROVE  /\ Oldest(msgs) \in msgs
         /\ \A n \in msgs : Oldest(msgs).stamp <= n.stamp
<1>1. StampsOf(msgs) \subseteq Nat /\ StampsOf(msgs) # {}
  BY DEF StampsOf, Messages, Stamps
<1>2. PICK s \in StampsOf(msgs) : \A r \in StampsOf(msgs) : s <= r
  BY <1>1, LeastNumber
<1>3. \E m \in msgs : \A n \in msgs : m.stamp <= n.stamp
  BY <1>2 DEF StampsOf
<1>4. QED
  BY <1>3 DEF Oldest

-----------------------------------------------------------------------------
(***************************************************************************)
(* The invariant, message by message.  Beside what ObjOwnedOnce says, the  *)
(* stamps of the pending messages are distinct (a message that leaves the  *)
(* queue leaves nothing of its own behind), and the object of a message    *)
(* that is pending or in a hand was allocated.                             *)
(***************************************************************************)
Owned ==
  /\ \A m, n \in queue : m.stamp = n.stamp => m = n
  /\ \A l \in Loops : \A m \in queue, n \in hand[l] : m.stamp # n.stamp
  /\ \A k, l \in Loops : \A m \in hand[k], n \in hand[l] :
       k # l => m.stamp # n.stamp
  /\ \A m \in queue : m.obj => m.stamp \in made \ freed
  /\ \A l \in Loops : \A m \in hand[l] : m.obj => m.stamp \in made \ freed

IInv == TypeOK /\ Owned

(***************************************************************************)
(* SDL_CondSignal leaves every loop in one of its states.                  *)
(***************************************************************************)
LEMMA SignalType ==
  ASSUME NEW lp \in [Loops -> LoopStates], Signal(lp)
  PROVE  loop' \in [Loops -> LoopStates]
BY DEF Signal, LoopStates

(***************************************************************************)
(* A message that is queued is new: its stamp is in no queue or hand, and  *)
(* its object was neither allocated nor freed before.                      *)
(***************************************************************************)
LEMMA EnqueueKeeps ==
  ASSUME IInv, NEW what \in Whats, NEW obj \in BOOLEAN, Enqueue(what, obj),
         UNCHANGED <<hand, freed>>, loop' \in [Loops -> LoopStates],
         abort_request' \in BOOLEAN
  PROVE  IInv'
<1> DEFINE new == [stamp |-> posted + 1, what |-> what, obj |-> obj]
<1>1. /\ posted' = posted + 1 /\ posted \in Nat /\ posted' \in Nat
      /\ made' = IF obj THEN made \cup {posted + 1} ELSE made
      /\ queue' = queue \cup {new}
  BY DEF Enqueue, Stamp, IInv, TypeOK
<1>2. new \in Messages /\ new.stamp = posted + 1 /\ new.obj = obj
  BY <1>1 DEF Messages, Stamps
<1>3. /\ \A m \in queue : m \in Messages /\ m.stamp \in 1 .. posted
      /\ \A l \in Loops : \A m \in hand[l] : m.stamp \in 1 .. posted
      /\ made \subseteq 1 .. posted /\ freed \subseteq made
  BY DEF IInv, TypeOK, StampsOf
<1> HIDE DEF new
<1>4. TypeOK'
  <2>1. queue' \in SUBSET Messages
    BY <1>1, <1>2, <1>3
  <2>2. StampsOf(queue') \subseteq 1 .. posted'
    BY <1>1, <1>2, <1>3 DEF StampsOf
  <2>3. \A l \in Loops : StampsOf(hand'[l]) \subseteq 1 .. posted'
    BY <1>1, <1>3 DEF StampsOf
  <2>4. made' \subseteq 1 .. posted' /\ freed' \subseteq made'
    BY <1>1, <1>3
  <2>5. hand' \in [Loops -> SUBSET Messages]
    BY DEF IInv, TypeOK
  <2>6. QED
    BY <1>1, <2>1, <2>2, <2>3, <2>4, <2>5 DEF TypeOK
<1>5. Owned'
  <2>1. posted + 1 \notin made /\ posted + 1 \notin freed
    BY <1>1, <1>3
  <2>2. \A m \in queue : m.stamp # new.stamp
    BY <1>1, <1>2, <1>3
  <2>3. \A l \in Loops : \A m \in hand[l] : m.stamp # new.stamp
    BY <1>1, <1>2, <1>3
  <2>4. Owned
    BY DEF IInv
  <2>5. QED
    BY <1>1, <1>2, <2>1, <2>2, <2>3, <2>4 DEF Owned
<1>6. QED
  BY <1>4, <1>5 DEF IInv

(***************************************************************************)
(* A message that is not queued leaves an object that belongs to nobody.   *)
(***************************************************************************)
LEMMA RefusedKeeps ==
  ASSUME IInv, NEW obj \in BOOLEAN, Stamp(obj), UNCHANGED <<queue, hand, freed>>,
         loop' \in [Loops -> LoopStates], abort_request' \in BOOLEAN
  PROVE  IInv'
<1>1. /\ posted' = posted + 1 /\ posted \in Nat
      /\ made' = IF obj THEN made \cup {posted + 1} ELSE made
      /\ UNCHANGED <<queue, hand, freed>>
  BY DEF Stamp, IInv, TypeOK
<1>2. TypeOK'
  <2>1. /\ made \subseteq 1 .. posted /\ freed \subseteq made
        /\ StampsOf(queue) \subseteq 1 .. posted
        /\ \A l \in Loops : StampsOf(hand[l]) \subseteq 1 .. posted
    BY DEF IInv, TypeOK
  <2>2. /\ made' \subseteq 1 .. posted' /\ freed' \subseteq made'
        /\ StampsOf(queue') \subseteq 1 .. posted'
        /\ \A l \in Loops : StampsOf(hand'[l]) \subseteq 1 .. posted'
    BY <1>1, <2>1
  <2>3. QED
    BY <1>1, <2>2 DEF IInv, TypeOK
<1>3. Owned'
  BY <1>1 DEF IInv, Owned
<1>4. QED
  BY <1>2, <1>3 DEF IInv

(***************************************************************************)
(* The objects freed by msg_queue_remove are those of messages that leave. *)
(***************************************************************************)
LEMMA RemoveKeeps ==
  ASSUME IInv, NEW what \in Whats, Remove(what)
  PROVE  IInv'
<1> DEFINE gone == {m \in queue : m.what = what}
<1>1. /\ queue' = queue \ gone
      /\ freed' = freed \cup OwnsObj(gone)
      /\ UNCHANGED <<abort_request, loop, hand, made, posted>>
  BY DEF Remove
<1>2. \A s \in OwnsObj(gone) : \E m \in gone : m.obj /\ m.stamp = s
  BY DEF OwnsObj, StampsOf
<1>3. gone \subseteq queue
  OBVIOUS
<1> HIDE DEF gone
<1>4. TypeOK'
  BY <1>1, <1>2, <1>3 DEF IInv, TypeOK, Owned, StampsOf
<1>5. Owned'
  BY <1>1, <1>2, <1>3 DEF IInv, Owned
<1>6. QED
  BY <1>4, <1>5 DEF IInv

(***************************************************************************)
(* msg_queue_get moves the oldest message from the queue to a hand.        *)
(***************************************************************************)
LEMMA GetMessageKeeps ==
  ASSUME IInv, NEW l \in Loops, GetMessage(l)
  PROVE  IInv'
<1> DEFINE m == Oldest(queue)
<1>1. m \in queue
  BY OldestIsPending DEF IInv, TypeOK, GetMessage
<1>2. /\ queue' = queue \ {m}
      /\ hand' = [hand EXCEPT ![l] = {m}]
      /\ loop' = [loop EXCEPT ![l] = "running"]
      /\ UNCHANGED <<abort_request, made, freed, posted>>
  BY DEF GetMessage
<1> HIDE DEF m
<1>3. TypeOK'
  BY <1>1, <1>2 DEF IInv, TypeOK, StampsOf, LoopStates
<1>4. Owned'
  BY <1>1, <1>2 DEF IInv, TypeOK, Owned
<1>5. QED
  BY <1>3, <1>4 DEF IInv

(***************************************************************************)
(* msg_free_res frees the object of a message in hand, which nobody else   *)
(* holds.                                                                  *)
(***************************************************************************)
LEMMA FreeResKeeps ==
  ASSUME IInv, NEW l \in Loops, FreeRes(l)
  PROVE  IInv'
<1>1. /\ freed' = freed \cup OwnsObj(hand[l])
      /\ hand' = [hand EXCEPT ![l] = {}]
      /\ UNCHANGED <<abort_request, queue, loop, made, posted>>
  BY DEF FreeRes
<1>2. \A s \in OwnsObj(hand[l]) : \E m \in hand[l] : m.obj /\ m.stamp = s
  BY DEF OwnsObj, StampsOf
<1>3. TypeOK'
  <2>1. freed' \subseteq made'
    <3>1. OwnsObj(hand[l]) \subseteq made
      BY <1>2 DEF IInv, Owned
    <3>2. freed \subseteq made
      BY DEF IInv, TypeOK
    <3>3. QED
      BY <1>1, <3>1, <3>2
  <2>2. hand' \in [Loops -> SUBSET Messages]
    BY <1>1 DEF IInv, TypeOK
  <2>3. \A k \in Loops : StampsOf(hand'[k]) \subseteq 1 .. posted
    BY <1>1 DEF IInv, TypeOK, StampsOf
  <2>4. QED
    BY <1>1, <2>1, <2>2, <2>3 DEF IInv, TypeOK
<1>4. Owned'
  BY <1>1, <1>2 DEF IInv, TypeOK, Owned
<1>5. QED
  BY <1>3, <1>4 DEF IInv

(***************************************************************************)
(* The destruction of the queue frees what it still holds.                 *)
(***************************************************************************)
LEMMA RecreateKeeps ==
  ASSUME IInv, Recreate
  PROVE  IInv'
<1>1. /\ queue' = {}
      /\ freed' = freed \cup OwnsObj(queue)
      /\ \A l \in Loops : hand[l] = {}
      /\ UNCHANGED <<abort_request, loop, hand, made, posted>>
  BY DEF Recreate
<1>2. \A s \in OwnsObj(queue) : \E m \in queue : m.obj /\ m.stamp = s
  BY DEF OwnsObj, StampsOf
<1>3. TypeOK'
  <2>1. freed' \subseteq made'
    <3>1. OwnsObj(queue) \subseteq made
      BY <1>2 DEF IInv, Owned
    <3>2. freed \subseteq made
      BY DEF IInv, TypeOK
    <3>3. QED
      BY <1>1, <3>1, <3>2
  <2>2. queue' \in SUBSET Messages /\ StampsOf(queue') \subseteq 1 .. posted
    BY <1>1 DEF StampsOf
  <2>3. QED
    BY <1>1, <2>1, <2>2 DEF IInv, TypeOK
<1>4. Owned'
  BY <1>1 DEF Owned
<1>5. QED
  BY <1>3, <1>4 DEF IInv

(***************************************************************************)
(* The steps that move no message.                                         *)
(***************************************************************************)
LEMMA QuietKeeps ==
  ASSUME IInv, UNCHANGED <<queue, hand, made, freed, posted>>,
         abort_request' \in BOOLEAN, loop' \in [Loops -> LoopStates]
  PROVE  IInv'
BY DEF IInv, TypeOK, Owned

(***************************************************************************)
(* The invariant is inductive.                                             *)
(***************************************************************************)
LEMMA IInvStep == IInv /\ [Next]_vars => IInv'
<1> SUFFICES ASSUME IInv, [Next]_vars
             PROVE  IInv'
  OBVIOUS
<1>1. loop \in [Loops -> LoopStates] /\ abort_request \in BOOLEAN
  BY DEF IInv, TypeOK
<1>2. CASE UNCHANGED vars
  BY <1>1, <1>2, QuietKeeps DEF vars
<1>3. ASSUME NEW what \in Whats, NEW obj \in BOOLEAN, Put(what, obj)
      PROVE  IInv'
  BY <1>1, <1>3, SignalType, EnqueueKeeps DEF Put
<1>4. ASSUME NEW obj \in BOOLEAN, PutRefused(obj)
      PROVE  IInv'
  BY <1>1, <1>4, RefusedKeeps DEF PutRefused
<1>5. ASSUME NEW what \in Whats, Remove(what)
      PROVE  IInv'
  BY <1>5, RemoveKeeps
<1>6. ASSUME NEW l \in Loops, Start(l) \/ StartNoNode(l)
      PROVE  IInv'
  <2>1. [loop EXCEPT ![l] = "running"] \in [Loops -> LoopStates]
    BY <1>1 DEF LoopStates
  <2>2. CASE Start(l)
    <3>1. loop' \in [Loops -> LoopStates]
      BY <2>1, <2>2, SignalType DEF Start
    <3>2. QED
      BY <2>2, <3>1, EnqueueKeeps, QueueAssumption DEF Start
  <2>3. CASE StartNoNode(l)
    BY <2>1, <2>3, RefusedKeeps DEF StartNoNode
  <2>4. QED
    BY <1>6, <2>2, <2>3
<1>7. ASSUME NEW l \in Loops, GetMessage(l)
      PROVE  IInv'
  BY <1>7, GetMessageKeeps
<1>8. ASSUME NEW l \in Loops, GetWaits(l) \/ GetAborted(l) \/ SpuriousWakeup(l)
      PROVE  IInv'
  <2>1. loop' \in [Loops -> LoopStates]
    BY <1>1, <1>8 DEF GetWaits, GetAborted, SpuriousWakeup, LoopStates
  <2>2. QED
    BY <1>1, <1>8, <2>1, QuietKeeps DEF GetWaits, GetAborted, SpuriousWakeup
<1>9. ASSUME NEW l \in Loops, FreeRes(l)
      PROVE  IInv'
  BY <1>9, FreeResKeeps
<1>10. CASE Abort
  BY <1>1, <1>10, SignalType, QuietKeeps DEF Abort
<1>11. CASE Recreate
  BY <1>11, RecreateKeeps
<1>12. QED
  BY <1>2, <1>3, <1>4, <1>5, <1>6, <1>7, <1>8, <1>9, <1>10, <1>11 DEF Next, LoopStep

(***************************************************************************)
(* The inductive invariant holds in every reachable state.                 *)
(***************************************************************************)
LEMMA IInvInvariant == Spec => []IInv
<1>1. Init => IInv
  BY DEF Init, IInv, TypeOK, Owned, StampsOf, LoopStates
<1>2. QED
  BY <1>1, IInvStep, PTL DEF Spec

(***************************************************************************)
(* The variables keep their types.                                         *)
(***************************************************************************)
THEOREM TypeCorrect == Spec => []TypeOK
BY IInvInvariant, PTL DEF IInv

(***************************************************************************)
(* ObjOwnedOnce: no object is freed twice, or used after it was freed, for *)
(* any number of loops.                                                    *)
(***************************************************************************)
THEOREM OwnedOnce == Spec => []ObjOwnedOnce
<1>1. IInv => ObjOwnedOnce
  <2> SUFFICES ASSUME IInv
               PROVE  ObjOwnedOnce
    OBVIOUS
  <2>1. StampsOf(queue) \cap StampsOf(InHands) = {}
    BY DEF IInv, Owned, StampsOf, InHands
  <2>2. \A k, l \in Loops : k # l => StampsOf(hand[k]) \cap StampsOf(hand[l]) = {}
    BY DEF IInv, Owned, StampsOf
  <2>3. Live \cap freed = {}
    BY DEF IInv, Owned, Live, OwnsObj, StampsOf, InHands
  <2>4. QED
    BY <2>1, <2>2, <2>3 DEF ObjOwnedOnce
<1>2. QED
  BY <1>1, IInvInvariant, PTL

-----------------------------------------------------------------------------
(***************************************************************************)
(* NoLostWakeup is inductive with the types alone: a signal wakes a loop   *)
(* that sleeps, and a loop that finds the queue empty is the only one to   *)
(* go to sleep.                                                            *)
(***************************************************************************)
LEMMA SignalWakes ==
  ASSUME NEW lp \in [Loops -> LoopStates], Signal(lp)
  PROVE  Asleep' # {} => \E l \in Loops : loop'[l] \in {"running", "woken"}
BY DEF Signal, Asleep, LoopStates

(***************************************************************************)
(* NoLostWakeup: a live queue with messages has not all its loops asleep.  *)
(***************************************************************************)
THEOREM WakeupNeverLost == Spec => []NoLostWakeup
<1>1. Init => NoLostWakeup
  BY DEF Init, NoLostWakeup
<1>2. IInv /\ NoLostWakeup /\ [Next]_vars => NoLostWakeup'
  <2> SUFFICES ASSUME IInv, NoLostWakeup, [Next]_vars
               PROVE  NoLostWakeup'
    OBVIOUS
  <2>1. loop \in [Loops -> LoopStates]
    BY DEF IInv, TypeOK
  <2>2. CASE UNCHANGED vars
    BY <2>2 DEF vars, NoLostWakeup, Asleep
  <2>3. ASSUME NEW what \in Whats, NEW obj \in BOOLEAN, Put(what, obj)
        PROVE  NoLostWakeup'
    BY <2>1, <2>3, SignalWakes DEF Put, NoLostWakeup
  <2>4. ASSUME NEW obj \in BOOLEAN, PutRefused(obj)
        PROVE  NoLostWakeup'
    BY <2>4 DEF PutRefused, NoLostWakeup, Asleep
  <2>5. ASSUME NEW what \in Whats, Remove(what)
        PROVE  NoLostWakeup'
    BY <2>5 DEF Remove, NoLostWakeup, Asleep
  <2>6. ASSUME NEW l \in Loops, Start(l) \/ StartNoNode(l)
        PROVE  NoLostWakeup'
    <3>1. [loop EXCEPT ![l] = "running"] \in [Loops -> LoopStates]
      BY <2>1 DEF LoopStates
    <3>2. CASE Start(l)
      BY <3>1, <3>2, SignalWakes DEF Start, NoLostWakeup
    <3>3. CASE StartNoNode(l)
      BY <2>1, <3>3 DEF StartNoNode, NoLostWakeup
    <3>4. QED
      BY <2>6, <3>2, <3>3
  <2>7. ASSUME NEW l \in Loops, GetMessage(l)
        PROVE  NoLostWakeup'
    BY <2>1, <2>7 DEF GetMessage, NoLostWakeup
  <2>8. ASSUME NEW l \in Loops, GetWaits(l) \/ GetAborted(l)
        PROVE  NoLostWakeup'
    BY <2>8 DEF GetWaits, GetAborted, NoLostWakeup
  <2>9. ASSUME NEW l \in Loops, SpuriousWakeup(l)
        PROVE  NoLostWakeup'
    BY <2>1, <2>9 DEF SpuriousWakeup, NoLostWakeup
  <2>10. ASSUME NEW l \in Loops, FreeRes(l)
         PROVE  NoLostWakeup'
    BY <2>10 DEF FreeRes, NoLostWakeup, Asleep
  <2>11. CASE Abort
    BY <2>11 DEF Abort, NoLostWakeup
  <2>12. CASE Recreate
    BY <2>12 DEF Recreate, NoLostWakeup
  <2>13. QED
    BY <2>2, <2>3, <2>4, <2>5, <2>6, <2>7, <2>8, <2>9, <2>10, <2>11, <2>12
       DEF Next, LoopStep
<1>3. QED
  BY <1>1, <1>2, IInvInvariant, PTL DEF Spec


-----------------------------------------------------------------------------
(***************************************************************************)
(* The objects of two sets of messages together.                           *)
(***************************************************************************)
LEMMA OwnsUnion ==
  ASSUME NEW ms, NEW ns
  PROVE  OwnsObj(ms \cup ns) = OwnsObj(ms) \cup OwnsObj(ns)
BY DEF OwnsObj, StampsOf

(***************************************************************************)
(* An operation that moves a message, or frees the object of one that is   *)
(* gone, leaves nothing behind: all it needs is that every object that was *)
(* live still is, or is freed.                                             *)
(***************************************************************************)
LEMMA AccountedFor ==
  ASSUME made' = made, Live \cup freed = Live' \cup freed'
  PROVE  Lost' = Lost
BY DEF Lost

(***************************************************************************)
(* A post that queues its message loses nothing.                           *)
(***************************************************************************)
LEMMA QueuedNotLost ==
  ASSUME IInv, NEW what \in Whats, NEW obj \in BOOLEAN, Enqueue(what, obj),
         UNCHANGED <<hand, freed>>
  PROVE  Lost' = Lost
<1> DEFINE new == [stamp |-> posted + 1, what |-> what, obj |-> obj]
<1>1. /\ queue' = queue \cup {new}
      /\ made' = IF obj THEN made \cup {posted + 1} ELSE made
      /\ posted + 1 \notin made
  BY DEF Enqueue, Stamp, IInv, TypeOK
<1>2. OwnsObj({new}) = IF obj THEN {posted + 1} ELSE {}
  <2>1. new.stamp = posted + 1 /\ new.obj = obj
    OBVIOUS
  <2> HIDE DEF new
  <2>2. CASE obj
    BY <2>1, <2>2 DEF OwnsObj, StampsOf
  <2>3. CASE ~obj
    BY <2>1, <2>3 DEF OwnsObj, StampsOf
  <2>4. QED
    BY <2>2, <2>3
<1> HIDE DEF new
<1>3. InHands' = InHands
  BY DEF InHands
<1>4. Live' = Live \cup OwnsObj({new})
  BY <1>1, <1>3, OwnsUnion DEF Live
<1>5. QED
  BY <1>1, <1>2, <1>4 DEF Lost

(***************************************************************************)
(* A post that does not queue its message loses its object at most.        *)
(***************************************************************************)
LEMMA RefusedLosesOne ==
  ASSUME IInv, NEW obj \in BOOLEAN, Stamp(obj), UNCHANGED <<queue, hand, freed>>
  PROVE  posted' = posted + 1 /\ (Lost' = Lost \/ Lost' = Lost \cup {posted'})
<1>1. /\ posted' = posted + 1 /\ posted \in Nat
      /\ made' = IF obj THEN made \cup {posted + 1} ELSE made
  BY DEF Stamp, IInv, TypeOK
<1>2. Live' = Live
  BY DEF Live, InHands
<1>3. posted + 1 \notin freed /\ posted + 1 \notin Live
  <2>1. freed \subseteq 1 .. posted
    BY DEF IInv, TypeOK
  <2>2. Live \subseteq 1 .. posted
    BY DEF IInv, Owned, TypeOK, Live, OwnsObj, StampsOf, InHands
  <2>3. QED
    BY <1>1, <2>1, <2>2
<1>4. QED
  BY <1>1, <1>2, <1>3 DEF Lost

(***************************************************************************)
(* LostOnlyWhenRefused: the object of a message is lost only by the post   *)
(* that allocated it, when the message was not queued.                     *)
(***************************************************************************)
THEOREM ObjectsKept == Spec => LostOnlyWhenRefused
<1>1. IInv /\ [Next]_vars
      => [Lost' # Lost => /\ posted' = posted + 1 /\ Lost' = Lost \cup {posted'}
                          /\ queue' = queue]_vars
  <2> DEFINE Goal == Lost' # Lost => /\ posted' = posted + 1
                                     /\ Lost' = Lost \cup {posted'} /\ queue' = queue
  <2> SUFFICES ASSUME IInv, Next
               PROVE  Goal
    OBVIOUS
  <2>1. hand \in [Loops -> SUBSET Messages]
    BY DEF IInv, TypeOK
  <2>2. ASSUME NEW what \in Whats, NEW obj \in BOOLEAN, Put(what, obj)
        PROVE  Goal
    BY <2>2, QueuedNotLost DEF Put
  <2>3. ASSUME NEW obj \in BOOLEAN, PutRefused(obj)
        PROVE  Goal
    BY <2>3, RefusedLosesOne DEF PutRefused
  <2>4. ASSUME NEW l \in Loops, Start(l)
        PROVE  Goal
    BY <2>4, QueuedNotLost, QueueAssumption DEF Start
  <2>5. ASSUME NEW l \in Loops, StartNoNode(l)
        PROVE  Goal
    BY <2>5, RefusedLosesOne DEF StartNoNode
  <2>6. ASSUME NEW what \in Whats, Remove(what)
        PROVE  Goal
    <3> DEFINE gone == {m \in queue : m.what = what}
    <3>1. /\ queue' \cup gone = queue /\ freed' = freed \cup OwnsObj(gone)
          /\ made' = made /\ InHands' = InHands
      BY <2>6 DEF Remove, InHands
    <3> HIDE DEF gone
    <3>2. Live = OwnsObj(queue' \cup InHands') \cup OwnsObj(gone)
      <4>1. queue \cup InHands = (queue' \cup InHands') \cup gone
        BY <3>1
      <4>2. QED
        BY <4>1, OwnsUnion DEF Live
    <3>3. Live' = OwnsObj(queue' \cup InHands')
      BY DEF Live
    <3>4. QED
      BY <3>1, <3>2, <3>3, AccountedFor
  <2>7. ASSUME NEW l \in Loops, GetMessage(l)
        PROVE  Goal
    <3>1. Oldest(queue) \in queue
      BY <2>7, OldestIsPending DEF IInv, TypeOK, GetMessage
    <3>2. /\ queue' \cup {Oldest(queue)} = queue
          /\ InHands' = InHands \cup {Oldest(queue)}
      BY <2>1, <2>7, <3>1 DEF GetMessage, Turn, InHands
    <3>3. queue' \cup InHands' = queue \cup InHands
      BY <3>2
    <3>4. QED
      BY <2>7, <3>3, AccountedFor DEF GetMessage, Live
  <2>8. ASSUME NEW l \in Loops, GetWaits(l) \/ GetAborted(l) \/ SpuriousWakeup(l)
        PROVE  Goal
    BY <2>8, AccountedFor DEF GetWaits, GetAborted, SpuriousWakeup, Live, InHands
  <2>9. ASSUME NEW l \in Loops, FreeRes(l)
        PROVE  Goal
    <3>1. /\ InHands' \cup hand[l] = InHands /\ queue' = queue
          /\ freed' = freed \cup OwnsObj(hand[l]) /\ made' = made
      BY <2>1, <2>9 DEF FreeRes, InHands, IInv, Owned
    <3>2. Live = OwnsObj(queue' \cup InHands') \cup OwnsObj(hand[l])
      <4>1. queue \cup InHands = (queue' \cup InHands') \cup hand[l]
        BY <3>1
      <4>2. QED
        BY <4>1, OwnsUnion DEF Live
    <3>3. QED
      BY <3>1, <3>2, AccountedFor DEF Live
  <2>10. CASE Abort
    BY <2>10, AccountedFor DEF Abort, Live, InHands
  <2>11. CASE Recreate
    <3>1. /\ InHands = {} /\ InHands' = {} /\ queue' = {} /\ made' = made
          /\ freed' = freed \cup OwnsObj(queue)
      BY <2>11 DEF Recreate, InHands
    <3>2. Live = OwnsObj(queue) /\ Live' = {}
      BY <3>1 DEF Live, OwnsObj, StampsOf
    <3>3. QED
      BY <3>1, <3>2, AccountedFor
  <2>12. QED
    BY <2>2, <2>3, <2>4, <2>5, <2>6, <2>7, <2>8, <2>9, <2>10, <2>11 DEF Next, LoopStep
<1>2. QED
  BY <1>1, IInvInvariant, PTL DEF Spec, LostOnlyWhenRefused
=============================================================================
