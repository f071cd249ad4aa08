---------------------------- MODULE MCMediaCodec ----------------------------
(***************************************************************************)
(* The MediaCodec decoders for TLC: the one with two threads               *)
(* (MediaCodecNode), the one with a single thread (SyncDecoder), of which  *)
(* the option mediacodec_sync chooses one, and the object that stands for  *)
(* a codec (CodecObject), which the first of them takes as given.  They    *)
(* share no state, so that one of them runs and the others stay as they    *)
(* begin: "which", one of Parts, says which runs.                          *)
(* A budget says how many seeks, calls of set_surface, failures and stream *)
(* switches happen in a behaviour; each budget of Pairs lets two of them   *)
(* meet.                                                                   *)
(***************************************************************************)
EXTENDS MediaCodecNode

CONSTANTS Parts, NoFrame
VARIABLES
  which,
  \* SyncDecoder
  file, queue, dec, syncCodec, node, sorted, hand, syncPictq, syncLeft,
  \* CodecObject
  objects, amc, opaque, codecVout, pipeline, held, mutex, input, output, packets,
  session

Budget(seeks, surfaces, failures, switches) ==
  [seeks |-> seeks, surfaces |-> surfaces, failures |-> failures,
   switches |-> switches]

Pairs == {Budget(1, 1, 0, 0), Budget(0, 2, 0, 0), Budget(1, 0, 0, 1),
          Budget(0, 1, 0, 1), Budget(0, 1, 1, 0)}

\* Only the surface is changed.
TwoSurfaces == {Budget(0, 2, 0, 0)}

Packet(pts, stream) == [pts |-> pts, stream |-> stream]
SyncBudget(seeks, surfaces, failures) ==
  [seeks |-> seeks, surfaces |-> surfaces, failures |-> failures]

\* A file that switches streams, and one whose codec gives a picture late and
\* two of the same time.
Sync == INSTANCE SyncDecoder WITH
  Files <- {[keeps |-> 0, packets |-> <<Packet(1, 1), Packet(2, 2)>>],
            [keeps |-> 1, packets |-> <<Packet(2, 1), Packet(1, 1), Packet(2, 1)>>]},
  FirstSurface <- CHOOSE s \in Surfaces : TRUE, Inputs <- 2, FakeSize <- 1,
  Budgets <- {SyncBudget(1, 1, 0), SyncBudget(0, 1, 1), SyncBudget(1, 0, 0)},
  codec <- syncCodec, pictq <- syncPictq, left <- syncLeft

\* Packets that change the size of the picture, packets with content keys, and
\* packets without either; the last fault is one that the packets can meet.
DrmPacket(size, drm, encrypted, count) ==
  [size |-> size, drm |-> drm, encrypted |-> encrypted, count |-> count]
Plain    == DrmPacket(<<>>, FALSE, FALSE, 0)
Larger   == <<DrmPacket(<<2, 2>>, FALSE, FALSE, 0), Plain>>
WithKeys == <<DrmPacket(<<>>, TRUE, TRUE, 2), DrmPacket(<<>>, FALSE, TRUE, 1),
              DrmPacket(<<>>, FALSE, TRUE, 3)>>
Playing(some, first, early, manager, seeks, moves, faults) ==
  [packets |-> some, surface |-> first, early |-> early, manager |-> manager,
   size |-> <<1, 1>>, serial |-> 1, seeks |-> seeks, moves |-> moves, faults |-> faults]
OneSurface == CHOOSE s \in Surfaces : TRUE
ObjectPlays ==
  {Playing(Larger, s, TRUE, "none", 1, 1 - faults, faults) :
     s \in {OneSurface, NoSurface}, faults \in 0..1}
  \cup {Playing(<<Plain, Plain>>, OneSurface, FALSE, "none", 0, 2 - faults, faults) :
           faults \in 0..1}
  \cup {Playing(WithKeys, OneSurface, FALSE, manager, 0, 1 - faults, faults) :
           manager \in {"ready", "later", "dummy"}, faults \in 0..1}
Object == INSTANCE CodecObject WITH
  Serials <- 3, FifoSize <- 1, Pictures <- 1, Plays <- ObjectPlays,
  play <- objects, node <- opaque, vout <- codecVout, pipe <- pipeline,
  queue <- packets

syncVars == <<file, queue, dec, syncCodec, node, sorted, hand, syncPictq, syncLeft>>
objectVars == <<objects, amc, opaque, codecVout, pipeline, held, mutex, input, output,
                packets, session>>
mcVars == <<which, vars, syncVars, objectVars>>

MCInit ==
  /\ which \in Parts
  /\ Init /\ (which # "async" => left = Budget(0, 2, 0, 0) /\ pipe = CHOOSE s \in Start : TRUE)
  /\ Sync!Init /\ (which # "sync" => file.keeps = 0 /\ syncLeft = SyncBudget(1, 0, 0))
  /\ Object!Init /\ (which # "object" => objects = CHOOSE p \in ObjectPlays : TRUE)

AsyncStep(A) == which = "async" /\ A /\ UNCHANGED <<which, syncVars, objectVars>>
SyncStep(A) == which = "sync" /\ A /\ UNCHANGED <<which, vars, objectVars>>
ObjectStep(A) == which = "object" /\ A /\ UNCHANGED <<which, vars, syncVars>>

MCNext == AsyncStep(Next) \/ SyncStep(Sync!Next) \/ ObjectStep(Object!Next)

\* The fairness of each part; as one of them runs, conditions of several are
\* stated together.
MCSpec ==
  /\ MCInit /\ [][MCNext]_mcVars
  /\ WF_mcVars(\/ AsyncStep(FeedStep) \/ SyncStep(Sync!LoopStep)
               \/ ObjectStep(Object!InputStep))
  /\ WF_mcVars(\/ AsyncStep(DrainStep) \/ SyncStep(Sync!Read \/ Sync!SeekMarks)
               \/ ObjectStep(Object!OutputStep))
  /\ SF_mcVars(AsyncStep(DrainFrame) \/ SyncStep(Sync!DrainFrame))
  /\ WF_mcVars(AsyncStep(RenderStep) \/ SyncStep(Sync!Show))
  /\ WF_mcVars(AsyncStep(SetSurface)) /\ WF_mcVars(AsyncStep(SeekMarks))

-----------------------------------------------------------------------------
\* The properties, each explained where the decoder states it.

\* SyncDecoder: the sorted pictures of the single thread are all accounted for,
\* in order, of the right segment and from the right codec.  CodecObject: what
\* refers to a codec or a surface is counted, no buffer is given to another codec
\* than its own, and what is fed can be taken.
AndroidSound ==
  /\ which = "async" => TypeOK
  /\ which = "sync" => /\ Sync!TypeOK /\ Sync!Accounted /\ Sync!Labelled
                       /\ Sync!InOrder /\ Sync!RightCodec
  /\ which = "object" => Object!ObjectSound

\* The threads of the decoder do what they owe the player: MediaProgress, what
\* SyncDecoder calls Owing ends, and both threads end after an abort.
InDebt == \/ which = "async" /\ Owed
          \/ which = "sync" /\ Sync!Owing
          \/ which = "object" /\ Object!Owing
AndroidProgress == InDebt ~> ~InDebt

\* "request reconfigure before lock, or never get mutex"
\* (ffpipenode_android_mediacodec_vdec.c:1299): the codec that the output thread
\* is in is not freed.
CodecAlive == Object!CodecAlive
=============================================================================
