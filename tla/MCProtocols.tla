------------------------------ MODULE MCProtocols ---------------------------
(***************************************************************************)
(* The protocols between FFmpeg and the network for TLC: the ring that     *)
(* reads ahead (AsyncIo), the two httphook protocols that open a broken    *)
(* connection again (UrlHook and IoUrlHook), the livehook demuxer          *)
(* (LiveHook), the demuxer for live adaptive streams (Las), and the choice *)
(* among the programs of an adaptive stream (Abr).  They share no state,   *)
(* so that an instance lets one of them run and the others stay as they    *)
(* begin: "which" says which.                                              *)
(***************************************************************************)
EXTENDS AsyncIo

VARIABLES
  which,
  \* UrlHook
  streamed, hookInner, logicalPos, logicalSize, ioError, call, hookOut,
  hookResult, believed, refused, hookInterrupted, hookUsed,
  \* IoUrlHook
  ioInner, ioLogicalPos, ioLogicalSize, ioIoError, ioAbort, active, paused,
  ioCall, ioOut, ioResult, ioBelieved, ioRefused, ioInterrupted, ioUsed,
  \* LiveHook
  liveInner, opened, discontinuity, liveError, nbStreams, pc, started, pkt,
  liveInterrupted,
  \* Las
  reader, adapt, tags, aborted, readAborted, algo, audioOnly, lasMain, fed,
  played, lastPut, faults, lasInterrupted,
  \* Abr
  fixed, vs, q, clock, band, demux, ghost, left

Hook == INSTANCE UrlHook WITH
  FileSize <- 3, MaxRead <- 2, MaxSeeks <- 2, MaxFaults <- 3,
  inner <- hookInner, out <- hookOut, result <- hookResult,
  interrupted <- hookInterrupted, used <- hookUsed

IoHook == INSTANCE IoUrlHook WITH
  FileSize <- 3, MaxRead <- 2, MaxSeeks <- 2, MaxEvents <- 2,
  inner <- ioInner, logicalPos <- ioLogicalPos, logicalSize <- ioLogicalSize,
  ioError <- ioIoError, abort <- ioAbort, call <- ioCall, out <- ioOut,
  result <- ioResult, believed <- ioBelieved, refused <- ioRefused,
  interrupted <- ioInterrupted, used <- ioUsed

Live == INSTANCE LiveHook WITH
  Streams <- 2, MaxConnections <- 3, MaxStreams <- 8, inner <- liveInner,
  error <- liveError, interrupted <- liveInterrupted

Adaptive == INSTANCE Las WITH
  Levels <- 3, Disabled <- {1}, Manual <- 0 - 1, Buffers <- {1, 5, 10},
  Gops <- 3, Size <- 1, Header <- 1, MaxToggles <- 1, MaxChecks <- 1,
  MaxFaults <- 1, main <- lasMain, interrupted <- lasInterrupted

Option(interval, duration, percentile) ==
  [interval |-> interval, duration |-> duration, percentile |-> percentile]
Adapt == INSTANCE Abr WITH
  Rates <- {<<4, 2, 2>>, <<0, 0>>}, Bandwidths <- {1, 5},
  Options <- {Option(1, 2, 100)}, Ring <- 2, MinCache <- 1, MaxCache <- 3,
  MaxReads <- 3, MaxSamples <- 3, MaxTime <- 2, MaxSeeks <- 1

hookVars == <<streamed, hookInner, logicalPos, logicalSize, ioError, call,
              hookOut, hookResult, believed, refused, hookInterrupted,
              hookUsed>>
ioHookVars == <<ioInner, ioLogicalPos, ioLogicalSize, ioIoError, ioAbort,
                active, paused, ioCall, ioOut, ioResult, ioBelieved,
                ioRefused, ioInterrupted, ioUsed>>
liveVars == <<liveInner, opened, discontinuity, liveError, nbStreams, pc,
              started, pkt, liveInterrupted>>
lasVars == <<reader, adapt, tags, aborted, readAborted, algo, audioOnly,
             lasMain, fed, played, lastPut, faults, lasInterrupted>>
abrVars == <<fixed, vs, q, clock, band, demux, ghost, left>>
mcVars == <<which, vars, hookVars, ioHookVars, liveVars, lasVars, abrVars>>

MCInit ==
  /\ which \in {"async", "hook", "ioHook", "live", "las", "abr"}
  /\ Init /\ Hook!Init /\ IoHook!Init /\ Live!Init
  /\ Adaptive!Init /\ Adapt!Init
  /\ which # "hook" => ~streamed
  /\ which # "las" => adapt.current = 0
  /\ which # "abr" => fixed.rate = <<0, 0>> /\ vs.stream = 1 /\ band = 1

AsyncStep(A) ==
  which = "async" /\ A
  /\ UNCHANGED <<which, hookVars, ioHookVars, liveVars, lasVars, abrVars>>
HookStep(A) ==
  which = "hook" /\ A
  /\ UNCHANGED <<which, vars, ioHookVars, liveVars, lasVars, abrVars>>
IoHookStep(A) ==
  which = "ioHook" /\ A
  /\ UNCHANGED <<which, vars, hookVars, liveVars, lasVars, abrVars>>
LiveStep(A) ==
  which = "live" /\ A
  /\ UNCHANGED <<which, vars, hookVars, ioHookVars, lasVars, abrVars>>
LasStep(A) ==
  which = "las" /\ A
  /\ UNCHANGED <<which, vars, hookVars, ioHookVars, liveVars, abrVars>>

AbrStep(A) ==
  which = "abr" /\ A
  /\ UNCHANGED <<which, vars, hookVars, ioHookVars, liveVars, lasVars>>

MCNext ==
  \/ AsyncStep(Next)
  \/ HookStep(Hook!Next)
  \/ IoHookStep(IoHook!Next)
  \/ LiveStep(Live!Next)
  \/ LasStep(Adaptive!Next)
  \/ AbrStep(Adapt!Next)

MCSpec == MCInit /\ [][MCNext]_mcVars

\* The fairness of each component; as one component runs, conditions of
\* different components are stated together.
MCFairSpec ==
  /\ MCSpec
  /\ WF_mcVars(\/ AsyncStep(TaskStep) \/ LasStep(Adaptive!ReaderStep)
             \/ AbrStep(Adapt!DemuxStep))
  /\ WF_mcVars(\/ AsyncStep(MainStep)
             \/ HookStep(Hook!Step)
             \/ IoHookStep(IoHook!Step)
             \/ LiveStep(Live!Step)
             \/ LasStep(Adaptive!MainStep))
  /\ WF_mcVars(LasStep(Adaptive!AlgoEnds) \/ AbrStep(Adapt!Plays))

-----------------------------------------------------------------------------
\* The properties, each explained where the component states it.

\* UrlHook and IoUrlHook: a read goes on where the last one ended.  LiveHook:
\* a new connection is flagged as a discontinuity.  Las: a new connection goes
\* on with the group that the old one ended before, and has its header.
ReadsContinue ==
  [][/\ Hook!ReadsContinueStep /\ IoHook!ReadsContinueStep
     /\ Live!DiscontinuityMarkedStep /\ Adaptive!TagsJoinStep]_mcVars

\* IoUrlHook: the inner protocol is where the hook believes it is; Las: the
\* algorithm keeps off the disabled representations; the types of the hooks.
\* Abr: the best program is selected and read, and the queue holds one switch.
PositionsAgree ==
  /\ IoHook!PositionsAgree /\ Adaptive!ChosenAllowed
  /\ IoHook!TypeOK /\ Hook!TypeOK /\ Live!TypeOK /\ Adaptive!TypeOK
  /\ Adapt!TypeOK /\ Adapt!SelectsBest /\ Adapt!HistoryRecent
  /\ Adapt!OneSwitchQueued /\ Adapt!OnlyUnknownCrash /\ Adapt!NothingThrownAway

\* A call of AsyncIo, UrlHook or Las returns, a pause ends the call of
\* IoUrlHook and an interrupt that of LiveHook: InAsyncCall ~> ~InAsyncCall,
\* Hook!CallsReturn, Adaptive!CallsReturn, IoHook!PauseEnds and
\* Live!InterruptEnds in one formula, as one of them runs.  Abr: the player
\* switches to a program that was selected.
InCall ==
  \/ which = "async" /\ InAsyncCall
  \/ which = "hook" /\ ~Hook!Idle
  \/ which = "ioHook" /\ IoHook!InPause
  \/ which = "live" /\ Live!InInterrupt
  \/ which = "las" /\ Adaptive!InCall
  \/ which = "abr" /\ Adapt!Switching
CallsReturn == InCall ~> ~InCall
=============================================================================
