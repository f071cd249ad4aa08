------------------------------ MODULE MCPlayback ----------------------------
(***************************************************************************)
(* The parts of the player around the queues for TLC: the life of players  *)
(* and their Java object (Lifecycle), the opening and closing of a stream  *)
(* (Opening), accurate seeks (AccurateSeek), the audio outputs (AudioOut), *)
(* the thumbnails (Thumbnails) and the statistics (Watch).  They share no  *)
(* state, so that an instance lets one of them run and the others stay as  *)
(* they begin: "which" says which.                                         *)
(***************************************************************************)
EXTENDS Lifecycle

VARIABLES
  which,
  \* Opening
  opt, content, open, read, close, is, threads, stream, ctx, input, msgs, bad,
  faults,
  \* AccurateSeek
  accPos, seekReq, req, start, framePts, dropping, abort, accSerial, target,
  accRead, dec, woken, pending, gaveUp, seeks,
  \* AudioOut
  backend, policy, aout, th, dev, pieces, paused, app, missed, outBound, used,
  \* Thumbnails
  info, thTh, thApp, reports, thGhost, thFaults,
  \* Watch
  live, stat, play, waTh, watch, told, waGhost, toggles

Open == INSTANCE Opening WITH
  Contents <- {{"audio", "video", "sub"}, {"audio"}, {"video"}, {}},
  Options <- [wait : BOOLEAN, find : BOOLEAN, async : BOOLEAN, drm : BOOLEAN,
              subtitle : BOOLEAN],
  MaxFaults <- 2

Accurate == INSTANCE AccurateSeek WITH
  Targets <- {1, 2}, Lead <- 1, Last <- 3, Deviation <- 1, Slack <- 1,
  MaxSeeks <- 1, seekPos <- accPos, serial <- accSerial, read <- accRead

Bound(o, t, s, f) ==
  [opens |-> o, toggles |-> t, seeks |-> s, faults |-> f]
Output == INSTANCE AudioOut WITH
  Backends <- {"track", "sles"}, Policies <- {"block", "cyclic", "timed"},
  Cap <- 2, Bounds <- {Bound(2, 2, 0, 1), Bound(1, 2, 1, 0)},
  bound <- outBound,
  sound <- pieces

Request(from, to, num) == [start |-> from, end |-> to, num |-> num]
Pictures == INSTANCE Thumbnails WITH
  LastPts <- 5,
  Requests <- {Request(1, 4, 3), Request(2, 2, 1), Request(3, 1, 1), Request(2, 2, 2)},
  MaxRequests <- 2, MaxFaults <- 2, MaxTries <- 1,
  th <- thTh, app <- thApp, ghost <- thGhost, faults <- thFaults

Statistics == INSTANCE Watch WITH
  Check <- 2, Live <- {TRUE}, MaxReads <- 2, MaxToggles <- 1,
  th <- waTh, ghost <- waGhost

lifeVars == vars
openVars == <<opt, content, open, read, close, is, threads, stream, ctx, input,
              msgs, bad, faults>>
accVars == <<accPos, seekReq, req, start, framePts, dropping, abort, accSerial,
             target, accRead, dec, woken, pending, gaveUp, seeks>>
outVars == <<backend, policy, aout, th, dev, pieces, paused, app, missed, outBound, used>>
picVars == <<info, thTh, thApp, reports, thGhost, thFaults>>
statVars == <<live, stat, play, waTh, watch, told, waGhost, toggles>>
allVars == <<which, lifeVars, openVars, accVars, outVars, picVars, statVars>>

MCInit ==
  /\ which \in {"life", "open", "accurate", "output", "pictures", "watch"}
  /\ Init /\ Open!Init /\ Accurate!Init /\ Output!Init
  /\ Pictures!Init /\ Statistics!Init
  /\ which # "open" => content = {} /\ ~opt.wait /\ ~opt.find /\ ~opt.async /\ ~opt.drm
                    /\ ~opt.subtitle
  /\ "sub" \notin content => ~opt.subtitle
  /\ which # "output" => backend = "track" /\ policy = "block" /\ outBound.opens = 1

LifeStep(A) ==
  which = "life" /\ A
  /\ UNCHANGED <<which, openVars, accVars, outVars, picVars, statVars>>
OpenStep(A) ==
  which = "open" /\ A
  /\ UNCHANGED <<which, lifeVars, accVars, outVars, picVars, statVars>>
AccurateStep(A) ==
  which = "accurate" /\ A
  /\ UNCHANGED <<which, lifeVars, openVars, outVars, picVars, statVars>>
OutputStep(A) ==
  which = "output" /\ A
  /\ UNCHANGED <<which, lifeVars, openVars, accVars, picVars, statVars>>
PicturesStep(A) ==
  which = "pictures" /\ A
  /\ UNCHANGED <<which, lifeVars, openVars, accVars, outVars, statVars>>
WatchStep(A) ==
  which = "watch" /\ A
  /\ UNCHANGED <<which, lifeVars, openVars, accVars, outVars, picVars>>
MCNext ==
  \/ LifeStep(Next)
  \/ OpenStep(Open!Next)
  \/ AccurateStep(Accurate!Next)
  \/ OutputStep(Output!Next)
  \/ PicturesStep(Pictures!Next)
  \/ WatchStep(Statistics!Next)

MCSpec == MCInit /\ [][MCNext]_allVars

\* The fairness of each component: its threads go on, a device plays, a timer
\* expires, and the threads of a stream end once they are told to.  As one
\* component runs, conditions of different components are stated together.
MCFairSpec ==
  /\ MCSpec
  /\ WF_allVars(\/ LifeStep(ThreadStep(Ui))
             \/ OpenStep(Open!OpenStep)
             \/ AccurateStep(Accurate!ReadStep)
             \/ OutputStep(Output!ThreadStep)
             \/ PicturesStep(Pictures!ThreadStep)
             \/ WatchStep(Statistics!StatStep))
  /\ WF_allVars(\/ LifeStep(ThreadStep(Bg))
             \/ OpenStep(Open!ReadStep)
             \/ AccurateStep(Accurate!DecoderStep("audio"))
             \/ OutputStep(Output!Drain)
             \/ PicturesStep(Pictures!SetNum))
  /\ WF_allVars(\/ LifeStep(LoopStep(1))
             \/ OpenStep(Open!CloseStep)
             \/ AccurateStep(Accurate!DecoderStep("video"))
             \/ OutputStep(Output!AppStep))
  /\ WF_allVars(\/ LifeStep(LoopStep(2))
             \/ OpenStep(Open!Ending)
             \/ AccurateStep(Accurate!Expire))
  /\ WF_allVars(LifeStep(ThreadStep(1)))
  /\ WF_allVars(LifeStep(ThreadStep(2)))
  /\ WF_allVars(LifeStep(ReadStops(1)))
  /\ WF_allVars(LifeStep(ReadStops(2)))

-----------------------------------------------------------------------------
\* The properties, each explained where the component states it; LifeSound of
\* Lifecycle is checked by its own name.

\* Lifecycle: types.  Opening: everything is returned whatever failed,
\* and the application hears of it.  AccurateSeek: decoders do not wait for
\* each other, no early frame is played.  AudioOut: the device and the volume
\* are kept.  Thumbnails: the pictures are those of their places, and the end is
\* told.  Watch: an alarm is true.
PlaybackSound ==
  /\ TypeOK
  /\ Open!TypeOK /\ Open!AllReturned /\ Open!JoinedOnce /\ Open!OneMakesNode
  /\ Open!Reported
  /\ Accurate!TypeOK /\ Accurate!SleepersAwaited /\ Accurate!NothingEarly
  /\ Output!TypeOK /\ Output!DeviceHeld /\ Output!VolumeKept
  /\ Pictures!TypeOK /\ Pictures!PicturesInPlace /\ Pictures!EndIsTold
  /\ Pictures!OnlyReplacedCrashes
  /\ Statistics!TypeOK /\ Statistics!AlarmsTrue

\* A released player is freed and its methods end; a stream closes; an accurate
\* seek ends; the output does what it is told; a request for thumbnails is
\* answered; a decoder that has stopped is noticed.
Owed ==
  \/ which = "life" /\ Unsettled
  \/ which = "open" /\ Open!Closing
  \/ which = "accurate" /\ Accurate!SeekPending
  \/ which = "output" /\ Output!Owed
  \/ which = "pictures" /\ Pictures!Waiting /\ ~Pictures!Answered
  \/ which = "watch" /\ ~Statistics!Noticed
PlaybackProgress == Owed ~> ~Owed
=============================================================================
