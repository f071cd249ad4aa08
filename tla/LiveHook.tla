------------------------------ MODULE LiveHook ------------------------------
(***************************************************************************)
(* The livehook demuxer (ijkavformat/ijklivehook.c): it reads the packets  *)
(* of an inner demuxer and, whenever that fails, asks the application and  *)
(* opens the inner demuxer again; a live stream has no end.                *)
(*                                                                         *)
(* Connections are numbered; a packet is the connection it was read from   *)
(* and whether it is flagged as a discontinuity.  One step is one call of  *)
(* the inner demuxer or of the application.                                *)
(***************************************************************************)
EXTENDS Naturals

CONSTANTS
  Streams,        \* streams that every connection has
  MaxConnections, \* bound: connections that are opened
  MaxStreams      \* bound: streams counted

VARIABLES
  inner,          \* the connection that is open, 0 for none
  opened,         \* connections opened so far
  discontinuity,  \* c->discontinuity
  error,          \* c->error is AVERROR_EXIT
  nbStreams,      \* avf->nb_streams
  pc,             \* "header", "open", "idle", "frame", "inject", "closed"
  started,        \* read_header has returned
  pkt,            \* the last packet (seq tells two packets apart)
  interrupted

vars == <<inner, opened, discontinuity, error, nbStreams, pc, started, pkt, interrupted>>

NoPacket == [from |-> 0, flagged |-> FALSE, seq |-> 0]

Init ==
  /\ inner = 0 /\ opened = 0
  /\ discontinuity = FALSE /\ error = FALSE
  /\ nbStreams = 0
  /\ pc = "header" /\ started = FALSE
  /\ pkt = NoPacket
  /\ interrupted = FALSE

\* ijkurlhook_call_inject fails when the player interrupts, or when the
\* application does; pc goes to then otherwise.
Inject(then) ==
  /\ \/ ~interrupted /\ pc' = then /\ UNCHANGED <<inner, started>>
     \/ /\ pc' = IF started THEN "idle" ELSE "closed"
        /\ UNCHANGED <<inner, started>>
  /\ UNCHANGED <<opened, error, nbStreams, pkt, interrupted>>

\* ijklivehook_read_header: the first connection is no discontinuity.
HeaderInjects == pc = "header" /\ Inject("open") /\ UNCHANGED discontinuity

\* Mutant: the discontinuity is forgotten.
InjectsAgainUnmarked ==
  /\ pc = "inject"
  /\ Inject("open")
  /\ UNCHANGED discontinuity

\* The loops of ijklivehook_read_header and of ijklivehook_read_packet.
InjectsAgain ==
  /\ pc = "inject"
  /\ Inject("open")
  /\ discontinuity' = (discontinuity \/ pc' = "open")

\* open_inner adds the streams of the new connection to those of the earlier
\* ones; a connection that breaks while its streams are found leaves some.
OpenInner ==
  /\ pc = "open"
  /\ \/ /\ opened < MaxConnections
        /\ opened' = opened + 1 /\ inner' = opened + 1
        /\ nbStreams' = nbStreams + Streams
        /\ pc' = IF started THEN "frame" ELSE "idle"
        /\ started' = TRUE
        /\ UNCHANGED error
     \/ /\ \/ UNCHANGED nbStreams
           \/ nbStreams < MaxStreams /\ nbStreams' = nbStreams + 1
        /\ IF interrupted THEN pc' = (IF started THEN "idle" ELSE "closed") /\ error' = started
           ELSE pc' = "inject" /\ UNCHANGED error
        /\ UNCHANGED <<opened, inner, started>>
  /\ UNCHANGED <<discontinuity, pkt, interrupted>>

\* ijklivehook_read_packet
ReadPacket ==
  /\ pc = "idle" /\ started /\ ~error
  /\ pc' = "frame"
  /\ UNCHANGED <<inner, opened, discontinuity, error, nbStreams, started, pkt, interrupted>>

FrameRead ==
  /\ pc = "frame" /\ inner # 0
  /\ pkt' = [from |-> inner, flagged |-> discontinuity, seq |-> 1 - pkt.seq]
  /\ discontinuity' = FALSE
  /\ pc' = "idle"
  /\ UNCHANGED <<inner, opened, error, nbStreams, started, interrupted>>

\* EAGAIN reads again at once; the other errors are for the application.
FrameFails ==
  /\ pc = "frame"
  /\ IF interrupted THEN pc' = "idle" /\ error' = TRUE
     ELSE pc' \in {"frame", "inject"} /\ UNCHANGED error
  /\ UNCHANGED <<inner, opened, discontinuity, nbStreams, started, pkt, interrupted>>

Close ==
  /\ pc = "idle" /\ pc' = "closed" /\ inner' = 0
  /\ UNCHANGED <<opened, discontinuity, error, nbStreams, started, pkt, interrupted>>

Interrupt ==
  /\ ~interrupted /\ interrupted' = TRUE
  /\ UNCHANGED <<inner, opened, discontinuity, error, nbStreams, pc, started, pkt>>

Step == HeaderInjects \/ InjectsAgain \/ OpenInner \/ FrameRead \/ FrameFails

Next == Step \/ ReadPacket \/ Close \/ Interrupt

Spec == Init /\ [][Next]_vars

FairSpec == Spec /\ WF_vars(Step)

-----------------------------------------------------------------------------
TypeOK ==
  /\ inner \in 0..opened /\ opened \in 0..MaxConnections
  /\ pc \in {"header", "open", "idle", "frame", "inject", "closed"}
  /\ nbStreams >= Streams * opened

\* The first packet of a new connection is flagged as a discontinuity, no
\* matter how many attempts failed and how many reads were given up before it.
DiscontinuityMarkedStep ==
  pkt'.from # pkt.from /\ pkt.from # 0 => pkt'.flagged

\* An interrupted demuxer returns, however often the application handles it.
InInterrupt == interrupted /\ pc \notin {"idle", "closed"}
=============================================================================
