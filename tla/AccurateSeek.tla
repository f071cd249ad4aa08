---------------------------- MODULE AccurateSeek ----------------------------
(***************************************************************************)
(* Accurate seeking (ff_ffplay.c, enable_accurate_seek): after a seek the  *)
(* audio and the video decoder drop the frames before the target, keep     *)
(* pace with each other meanwhile, and wait for each other at the target;  *)
(* the one that comes last reports FFP_MSG_ACCURATE_SEEK_COMPLETE.         *)
(*                                                                         *)
(* A position is a number, and a frame is its position: a decoder delivers *)
(* Key, the first frame that a seek finds, Key + 1 and so on.  Time is     *)
(* what becomes of accurate_seek_start_time: it is 0 ("none"), it is less  *)
(* than accurate_seek_timeout ago ("running") or more ("expired").         *)
(***************************************************************************)
EXTENDS Integers

CONSTANTS
  Targets,     \* positions that are sought
  Lead,        \* how far before its target a seek finds the first frame
  Last,        \* this frame and all after it are alike
  Deviation,   \* MAX_DEVIATION
  Slack,       \* 100 ms: how far a decoder may be ahead of the other one
  MaxSeeks     \* bound: seeks of the application

S == {"audio", "video"}
Other(s) == IF s = "audio" THEN "video" ELSE "audio"

VARIABLES
  seekPos, seekReq,   \* VideoState
  req,                \* audio_accurate_seek_req, video_accurate_seek_req
  start,              \* accurate_seek_start_time
  framePts,           \* accurate_seek_aframe_pts, accurate_seek_vframe_pts
  dropping,           \* drop_aframe_count > 0, drop_vframe_count > 0
  abort,
  serial,             \* of the packet queues
  target,             \* of the seek with that serial
  read,               \* where read_thread is
  dec,                \* the decoder threads
  woken,              \* has the decoder that sleeps been signalled?
  pending,            \* is the completion of a seek still to be reported?
  gaveUp,             \* decoder -> has it run out of time, or has its frame of the
                      \* seek before met the target of this one?
  seeks

vars == <<seekPos, seekReq, req, start, framePts, dropping, abort, serial, target,
          read, dec, woken, pending, gaveUp, seeks>>

Both(x) == [s \in S |-> x]

\* A condition variable keeps no signal for a decoder that does not wait.
Waits(s) == dec[s].pc \in {"sleep", "failSleep"}
Signalled(W) == [s \in S |-> woken[s] \/ (s \in W /\ Waits(s))]

Init ==
  /\ seekPos = 0 /\ seekReq = FALSE /\ req = Both(FALSE) /\ start = "none"
  /\ framePts = Both(0) /\ dropping = Both(FALSE) /\ abort = FALSE
  /\ serial = 1 /\ target = 0 /\ read = "top"
  /\ dec = Both([pc |-> "decode", serial |-> 0, pos |-> 0, saw |-> 0, unarmed |-> FALSE])
  /\ woken = Both(FALSE) /\ pending = FALSE
  /\ gaveUp = Both(FALSE) /\ seeks = 0

-----------------------------------------------------------------------------
\* stream_seek: a seek while one is pending is ignored.
StreamSeek ==
  /\ seeks < MaxSeeks /\ ~seekReq
  /\ seeks' = seeks + 1
  /\ seekPos' \in Targets /\ seekReq' = TRUE
  /\ UNCHANGED <<req, start, framePts, dropping, abort, serial, target, read, dec,
                 woken, pending, gaveUp>>

\* read_thread flushes the queues, withdraws the request, resets the counts
\* and asks both decoders for accuracy.
ReadFlushes ==
  /\ read = "top" /\ seekReq /\ ~abort
  /\ serial' = serial + 1 /\ target' = seekPos /\ read' = "flushed"
  /\ UNCHANGED <<seekPos, seekReq, req, start, framePts, dropping, abort, dec,
                 woken, pending, gaveUp, seeks>>

ReadClears ==
  /\ read = "flushed"
  /\ seekReq' = FALSE /\ read' = "cleared"
  /\ UNCHANGED <<seekPos, req, start, framePts, dropping, abort, serial, target,
                 dec, woken, pending, gaveUp, seeks>>

ReadResets ==
  /\ read = "cleared"
  /\ dropping' = Both(FALSE) /\ read' = "reset"
  /\ UNCHANGED <<seekPos, seekReq, req, start, framePts, abort, serial, target,
                 dec, woken, pending, gaveUp, seeks>>

ReadArms ==
  /\ read = "reset"
  /\ req' = Both(TRUE) /\ woken' = Signalled(S) /\ pending' = TRUE /\ read' = "top"
  /\ UNCHANGED <<seekPos, seekReq, start, framePts, dropping, abort, serial,
                 target, dec, gaveUp, seeks>>

\* ffp_stop_l
Stop ==
  /\ ~abort /\ abort' = TRUE
  /\ req' = Both(FALSE) /\ woken' = Signalled(S)
  /\ UNCHANGED <<seekPos, seekReq, start, framePts, dropping, serial, target,
                 read, dec, pending, gaveUp, seeks>>

\* accurate_seek_timeout passes.
Expire ==
  /\ start = "running" /\ start' = "expired"
  /\ UNCHANGED <<seekPos, seekReq, req, framePts, dropping, abort, serial, target,
                 read, dec, woken, pending, gaveUp, seeks>>

-----------------------------------------------------------------------------
\* The decoder of s: audio_thread, and queue_picture on the video side.

Goes(s, pc) == dec' = [dec EXCEPT ![s].pc = pc]
Min2(a, b) == IF a < b THEN a ELSE b
Max2(a, b) == IF a > b THEN a ELSE b

\* decoder_decode_frame: the next frame of the queue's serial
Decode(s) ==
  /\ dec[s].pc = "decode" /\ ~abort
  /\ dec' = [dec EXCEPT ![s].pc = "check", ![s].serial = serial,
               ![s].pos = IF dec[s].serial = serial THEN Min2(@ + 1, Last)
                          ELSE Max2(target - Lead, 0)]
  /\ UNCHANGED <<seekPos, seekReq, req, start, framePts, dropping, abort, serial,
                 target, read, woken, pending, gaveUp, seeks>>

\* Is the frame before the target, or far behind it?
Off(pos) == pos < seekPos \/ pos - seekPos > Deviation

\* Without a request, or with a seek pending, the frame is queued.
CheckNot(s) ==
  /\ dec[s].pc = "check" /\ (~req[s] \/ seekReq)
  /\ dec' = [dec EXCEPT ![s].pc = "queue", ![s].saw = 0,
               ![s].unarmed = seekReq \/ read # "top"]
  /\ UNCHANGED <<seekPos, seekReq, req, start, framePts, dropping, abort, serial,
                 target, read, woken, pending, gaveUp, seeks>>

\* The first frame that is dropped starts the clock, if both streams seek.
CheckOff(s) ==
  /\ dec[s].pc = "check" /\ req[s] /\ ~seekReq /\ Off(dec[s].pos)
  /\ dec' = [dec EXCEPT ![s].pc = "pace", ![s].saw = seekPos]
  /\ framePts' = [framePts EXCEPT ![s] = dec[s].pos]
  /\ start' = IF ~dropping[s] /\ start = "none" /\ req[Other(s)] THEN "running" ELSE start
  /\ dropping' = [dropping EXCEPT ![s] = TRUE]
  /\ UNCHANGED <<seekPos, seekReq, req, abort, serial, target, read, woken,
                 pending, gaveUp, seeks>>

CheckOn(s) ==
  /\ dec[s].pc = "check" /\ req[s] /\ ~seekReq /\ ~Off(dec[s].pos)
  /\ dec' = [dec EXCEPT ![s].pc = "on", ![s].saw = seekPos]
  /\ framePts' = [framePts EXCEPT ![s] = dec[s].pos]
  /\ UNCHANGED <<seekPos, seekReq, req, start, dropping, abort, serial, target,
                 read, woken, pending, gaveUp, seeks>>

\* The other decoder's frame is near this one, or ahead, and before the
\* target.
InPace(s) == LET o == framePts[Other(s)]
             IN  o - dec[s].pos > 0 - Slack /\ o < seekPos
Late == start # "running"

\* A decoder sleeps and looks until one of these is so; then it drops the
\* frame, unless it is too late.  Audio does not drop a frame behind the one
\* that video has stopped at.
Pace(s) ==
  /\ dec[s].pc = "pace"
  /\ ~req[Other(s)] \/ abort \/ InPace(s) \/ Late
  /\ IF Late \/ (s = "audio" /\ ~req["video"] /\ dec[s].pos > framePts["video"])
     THEN Goes(s, "fail") /\ gaveUp' = [gaveUp EXCEPT ![s] = TRUE]
     ELSE Goes(s, "decode") /\ UNCHANGED gaveUp
  /\ UNCHANGED <<seekPos, seekReq, req, start, framePts, dropping, abort, serial,
                 target, read, woken, pending, seeks>>

\* The target is reached; if it has moved meanwhile the frame is queued.
OnTarget(s) ==
  /\ dec[s].pc = "on"
  /\ IF dec[s].saw = seekPos
     THEN Goes(s, "arrive") /\ dropping' = [dropping EXCEPT ![s] = FALSE]
     ELSE Goes(s, "finish") /\ UNCHANGED dropping
  /\ UNCHANGED <<seekPos, seekReq, req, start, framePts, abort, serial, target,
                 read, woken, pending, gaveUp, seeks>>

\* What follows the wait: a frame of an old target is dropped.
AfterWait(s, reqs) ==
  IF dec[s].saw # seekPos /\ ~abort
  THEN req' = [reqs EXCEPT ![s] = TRUE] /\ Goes(s, "decode")
  ELSE req' = reqs /\ Goes(s, "finish")

\* Under accurate_seek_mutex: the request is done, the other decoder is woken,
\* and unless it is the last one this decoder waits.
ReachedUnsignalled(s) == UNCHANGED woken
Reached(s) == woken' = Signalled({Other(s)})
Arrive(s) ==
  LET reqs == [req EXCEPT ![s] = FALSE] IN
  /\ dec[s].pc = "arrive" /\ Reached(s)
  /\ gaveUp' = [gaveUp EXCEPT ![s] = @ \/ (dec[s].saw = seekPos /\ dec[s].serial # serial)]
  /\ IF dec[s].saw = seekPos /\ req[Other(s)] /\ ~abort
     THEN req' = reqs /\ Goes(s, "sleep") /\ UNCHANGED pending
     ELSE AfterWait(s, reqs) /\ pending' = FALSE
  /\ UNCHANGED <<seekPos, seekReq, start, framePts, dropping, abort, serial,
                 target, read, seeks>>

\* SDL_CondWaitTimeout returns: it is signalled, or its time is over, or it
\* returns for no reason.
Wake(s) ==
  /\ dec[s].pc = "sleep"
  /\ AfterWait(s, req) /\ woken' = [woken EXCEPT ![s] = FALSE]
  /\ UNCHANGED <<seekPos, seekReq, start, framePts, dropping, abort, serial,
                 target, read, pending, gaveUp, seeks>>

Fail(s) ==
  /\ dec[s].pc = "fail" /\ Reached(s)
  /\ dropping' = [dropping EXCEPT ![s] = FALSE]
  /\ req' = [req EXCEPT ![s] = FALSE]
  /\ IF req[Other(s)] /\ ~abort
     THEN Goes(s, "failSleep") /\ UNCHANGED pending
     ELSE Goes(s, "finish") /\ pending' = FALSE
  /\ UNCHANGED <<seekPos, seekReq, start, framePts, abort, serial, target, read,
                 gaveUp, seeks>>

FailWakes(s) ==
  /\ dec[s].pc = "failSleep" /\ Goes(s, "finish")
  /\ woken' = [woken EXCEPT ![s] = FALSE]
  /\ UNCHANGED <<seekPos, seekReq, req, start, framePts, dropping, abort, serial,
                 target, read, pending, gaveUp, seeks>>

Finish(s) ==
  /\ dec[s].pc = "finish" /\ dec' = [dec EXCEPT ![s].pc = "queue", ![s].saw = 0]
  /\ start' = "none"
  /\ framePts' = IF s = "video" THEN [framePts EXCEPT !["video"] = 0] ELSE framePts
  /\ UNCHANGED <<seekPos, seekReq, req, dropping, abort, serial, target, read,
                 woken, pending, gaveUp, seeks>>

Queue(s) ==
  /\ dec[s].pc = "queue"
  /\ dec' = [dec EXCEPT ![s].pc = "decode", ![s].unarmed = FALSE]
  /\ UNCHANGED <<seekPos, seekReq, req, start, framePts, dropping, abort, serial,
                 target, read, woken, pending, gaveUp, seeks>>

ReadStep == ReadFlushes \/ ReadClears \/ ReadResets \/ ReadArms
\* Sleeping is left in time: by a signal, or by the timeout.
DecoderStep(s) ==
  \/ Decode(s) \/ CheckNot(s) \/ CheckOff(s) \/ CheckOn(s) \/ Pace(s)
  \/ OnTarget(s) \/ Arrive(s) \/ Wake(s) \/ Fail(s) \/ FailWakes(s)
  \/ Finish(s) \/ Queue(s)

Next == StreamSeek \/ ReadStep \/ Stop \/ Expire \/ \E s \in S : DecoderStep(s)
Spec == Init /\ [][Next]_vars

-----------------------------------------------------------------------------
TypeOK ==
  /\ seekPos \in 0..Last /\ start \in {"none", "running", "expired"}
  /\ \A s \in S : dec[s].pos \in 0..Last /\ framePts[s] \in 0..Last
  /\ read \in {"top", "flushed", "cleared", "reset"}

\* The decoders never wait for each other: the one that sleeps, and that
\* nobody has woken, waits for a request that the other has still to meet.
Asleep(s) == Waits(s) /\ ~woken[s]
SleepersAwaited ==
  /\ \A s \in S : Asleep(s) => req[Other(s)]
  /\ ~(Asleep("audio") /\ Asleep("video"))

\* After an accurate seek no frame before its target is queued, but those
\* looked at before read_thread asked for accuracy; unless this decoder itself
\* ran out of time or a frame of the seek before met the target of this one.
NothingEarly ==
  \A s \in S :
    dec[s].pc = "queue" /\ dec[s].serial = serial /\ ~dec[s].unarmed /\ ~gaveUp[s] /\ ~abort
      => dec[s].pos >= target

\* A seek is reported complete, or another one is asked for, or the player
\* stops.
SeekPending == pending /\ ~seekReq /\ ~abort
=============================================================================
