----------------------------- MODULE MCMsgQueue -----------------------------
(***************************************************************************)
(* An instance of MsgQueue for TLC: one message loop that keeps running,   *)
(* for liveness, or two, for safety (a stop and a prepare that follow each *)
(* other start a second loop before the first has returned); and one of    *)
(* MsgQueueList with one loop.                                             *)
(***************************************************************************)
EXTENDS MsgQueue

CONSTANT l1

VARIABLES
  which,  \* "two" loops, the "one" loop l1, or the linked "list"
  q, node, listLoop, listHand, listMade, listFreed, listPosted  \* of MsgQueueList

List == INSTANCE MsgQueueList WITH
  loop <- listLoop, hand <- listHand, made <- listMade, freed <- listFreed,
  posted <- listPosted

listVars == <<q, node, listLoop, listHand, listMade, listFreed, listPosted>>
mcVars == <<which, vars, listVars>>

MCInit == Init /\ List!Init /\ which \in {"one", "two", "list"}

MCNext ==
  /\ \/ /\ which # "list" /\ Next /\ UNCHANGED listVars
        /\ which = "one" => \A l \in Loops \ {l1} : loop'[l] = "off"
     \/ /\ which = "list" /\ List!Next /\ UNCHANGED vars
        /\ \A l \in Loops \ {l1} : listLoop'[l] = "off"
  /\ UNCHANGED which

MCSpec ==
  /\ MCInit /\ [][MCNext]_mcVars
  /\ WF_mcVars(which = "one" /\ LoopStep(l1) /\ UNCHANGED <<which, listVars>>)

\* A single loop, which never stops running, ends after an abort (which
\* signals one sleeper), and a pending message is taken or removed.
OneLoopServes == which = "one" => AbortedLoopEnds /\ PendingLeaves

\* No operation but a failing post loses the object of a message: in the
\* abstract queue, and in the linked list, where such a post has found the queue
\* aborted or no node.
NoObjectLost == LostOnlyWhenRefused /\ List!LostOnlyWithoutNode

\* The two other properties of the linked list, explained in MsgQueueList.
ListShape == List!ListShape
ImplementsMsgQueue == List!ImplementsMsgQueue
=============================================================================
