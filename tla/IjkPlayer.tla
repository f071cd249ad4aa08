----------------------------- MODULE IjkPlayer ------------------------------
(***************************************************************************)
(* The control path of a player: the application's calls on IjkMediaPlayer *)
(* (ijkplayer.c), the message loop that carries its requests out           *)
(* (ijkmp_get_msg), and the threads of the FFPlayer that act on the same   *)
(* VideoState (read_thread and the renderers of ff_ffplay.c).              *)
(*                                                                         *)
(* The application holds mp->mutex during a call; the message loop takes   *)
(* it after it has dequeued a message, so that a call may come in between. *)
(* Sections under is->play_mutex are single steps.                         *)
(* The media has one stream, either audio or video; a file with both has   *)
(* the behaviours of each.  Messages that only inform the application      *)
(* (sizes, buffering percentages, state changes) are left out.             *)
(***************************************************************************)
EXTENDS Naturals, Sequences

CONSTANTS
  PacketBuffering,  \* ffp->packet_buffering
  HasVideo,         \* the stream is video (otherwise audio)
  StartOnPrepared,  \* ffp->start_on_prepared
  Loop,             \* ffp->loop as configured: 1 plays once, 0 for ever
  AutoExit,         \* ffp->autoexit
  IoErrors,         \* reading and seeking may fail
  Reprepare,        \* the application may call prepare_async after stop
  Duration,         \* length of the media, in packets
  QueueCap,         \* packets and frames that make the queues full
  MaxCalls          \* bound: number of start, pause, seek_to and stop calls

ASSUME PlayerAssumption ==
  /\ {HasVideo, StartOnPrepared, AutoExit, IoErrors, Reprepare} \subseteq BOOLEAN
  /\ Loop \in Nat
  /\ Duration \in Nat \ {0}
  /\ QueueCap \in Nat \ {0}
  /\ MaxCalls \in Nat

ASSUME PacketBufferingAssumption == PacketBuffering \in BOOLEAN

VARIABLES
  \* IjkMediaPlayer
  mp_state,                \* mp->mp_state
  restart,                 \* mp->restart
  restart_from_beginning,  \* mp->restart_from_beginning
  mp_seek,                 \* mp->seek_msec when mp->seek_req, else NoSeek
  mutex,                   \* who keeps mp->mutex between two steps
  \* the message queue and the message loop
  q,                       \* messages waiting in ffp->msg_queue
  q_abort,                 \* ffp->msg_queue.abort_request
  loop,                    \* where the message loop is
  msg,                     \* the message the loop has dequeued
  \* FFPlayer and VideoState
  opened,                  \* ffp->is # NULL
  is_abort,                \* is->abort_request
  is_seek,                 \* is->seek_pos when is->seek_req, else NoSeek
  pl,                      \* the pause control
  eof,                     \* is->eof
  recv_eof,                \* is->audioq->recv_eof
  io_error,                \* ffp->error
  loops,                   \* ffp->loop, counted down
  \* read_thread and the renderer
  rt,                      \* where read_thread is
  target,                  \* its seek_target
  prepared,                \* ffp->prepared
  completed,               \* its local completed
  pos,                     \* packets read from the media
  backlog,                 \* packets and frames read and not yet rendered
  nulls,                   \* null packets were queued since the last flush
  \* the application
  stopping,                \* ijkmp_stop is under way: what it does next
  asserted,                \* an assertion of the C code has failed
  calls,                   \* calls made so far
  want                     \* history: the last accepted start or pause call

mpVars   == <<mp_state, restart, restart_from_beginning, mp_seek>>
qVars    == <<q, q_abort>>
loopVars == <<loop, msg>>
ffOthers == <<opened, is_abort, is_seek, recv_eof, loops>>
ffVars   == <<ffOthers, pl>>
readData == <<eof, io_error, target, prepared, completed, pos, nulls>>
readVars == <<rt, readData>>
appVars  == <<stopping, asserted, calls, want>>
vars     == <<mpVars, mutex, qVars, loopVars, ffVars, readVars, backlog, appVars>>

\* What read_thread and the renderers never touch.
outside  == <<mpVars, mutex, loopVars, appVars>>

NoSeek    == Duration + 1
Targets   == 0 .. Duration
Positions == Targets \cup {NoSeek}

MpStates == {"IDLE", "INITIALIZED", "ASYNC_PREPARING", "PREPARED", "STARTED",
             "PAUSED", "COMPLETED", "STOPPED", "ERROR"}

\* ikjmp_chkst_start_l, ikjmp_chkst_pause_l and ikjmp_chkst_seek_l.
Playable == {"PREPARED", "STARTED", "PAUSED", "COMPLETED"}

Whats    == {"FLUSH", "PREPARED", "COMPLETED", "SEEK_COMPLETE", "ERROR",
             "REQ_START", "REQ_PAUSE", "REQ_SEEK"}
Messages == [what : Whats, arg : Positions]
Msg(what) == [what |-> what, arg |-> NoSeek]

LoopStates == {"off", "get", "handle", "start1", "start2"}

ReadStates == {"off", "open", "hold", "announce", "waitstart", "resume", "clear",
               "loop", "seek", "seekresume", "seekdone", "seekbuf", "fill", "read",
               "complete1", "complete2", "complete3", "waitseek", "fail", "ended"}

(***************************************************************************)
(* The pause control: the requests that may hold playback back (the user's *)
(* pause_req, the player's own buffering_on), single stepping, and what    *)
(* they make of is->paused and of the audio output.  Each operator is one  *)
(* section under is->play_mutex, as a function from the control state      *)
(* before to the control state after; clocks and statistics are left out.  *)
(***************************************************************************)

PlayControls ==
  [pause_req    : BOOLEAN,   \* is->pause_req
   buffering_on : BOOLEAN,   \* is->buffering_on
   step         : BOOLEAN,   \* is->step
   auto_resume  : BOOLEAN,   \* ffp->auto_resume
   paused       : BOOLEAN,   \* is->paused
   aout_paused  : BOOLEAN]   \* the last argument of SDL_AoutPauseAudio

\* stream_open and the opening of the audio output, which starts it.
OpenControl(start_on_prepared) ==
  [pause_req |-> ~start_on_prepared, buffering_on |-> FALSE, step |-> FALSE,
   auto_resume |-> FALSE, paused |-> FALSE, aout_paused |-> FALSE]

\* Something asks playback to hold.
Held(p) == p.pause_req \/ p.buffering_on

\* stream_toggle_pause_l
StreamTogglePause(p, on) ==
  IF p.step /\ Held(p) THEN [p EXCEPT !.paused = on]
                       ELSE [p EXCEPT !.paused = on, !.aout_paused = on]

\* stream_update_pause_l
StreamUpdatePause(p) == StreamTogglePause(p, ~p.step /\ Held(p))

\* Mutant: toggle_pause_l without stream_update_pause_l on a resume.
TogglePauseForgets(p, on) ==
  LET asked == [p EXCEPT !.pause_req = on, !.auto_resume = ~on]
  IN  [IF on THEN StreamUpdatePause(asked) ELSE asked EXCEPT !.step = FALSE]

\* Mutant: a pause does not withdraw a resume that waits for a seek.
TogglePauseKeepsResume(p, on) ==
  [StreamUpdatePause([p EXCEPT !.pause_req = on, !.auto_resume = @ \/ ~on])
   EXCEPT !.step = FALSE]

\* toggle_pause_l
TogglePause(p, on) ==
  [StreamUpdatePause([p EXCEPT !.pause_req = on, !.auto_resume = ~on])
   EXCEPT !.step = FALSE]

\* step_to_next_frame_l
StepToNextFrame(p) ==
  LET stepping == [p EXCEPT !.step = TRUE]
  IN  IF p.paused THEN StreamTogglePause(stepping, FALSE) ELSE stepping

\* Mutant: the end of buffering does not update the pause.
ToggleBufferingForgets(p, on) ==
  IF ~PacketBuffering \/ p.buffering_on = on THEN p
  ELSE IF on THEN StreamUpdatePause([p EXCEPT !.buffering_on = on])
  ELSE [p EXCEPT !.buffering_on = on]

\* ffp_toggle_buffering_l
ToggleBuffering(p, on) ==
  IF ~PacketBuffering \/ p.buffering_on = on THEN p
  ELSE StreamUpdatePause([p EXCEPT !.buffering_on = on])

\* The section of read_thread that ends a seek: a resume that was waiting for
\* the seek happens, and a paused player steps to the frame it sought.
ResumeAfterSeek(p) ==
  LET resumed == IF p.auto_resume
                 THEN StreamUpdatePause(
                        [p EXCEPT !.pause_req    = FALSE,
                                  !.buffering_on = @ \/ PacketBuffering,
                                  !.auto_resume  = FALSE])
                 ELSE p
  IN  IF resumed.pause_req THEN StepToNextFrame(resumed) ELSE resumed

\* The section of video_refresh after a frame was taken for display.
FrameShown(p) ==
  IF ~p.step THEN p
  ELSE LET done == [p EXCEPT !.step = FALSE]
       IN  IF done.paused THEN done ELSE StreamUpdatePause(done)

(***************************************************************************)
(* Nothing stays paused for no reason: when neither the user nor the       *)
(* buffering holds playback, the pictures run and the audio output runs.   *)
(***************************************************************************)
RunsWhenNotHeld(p) == ~Held(p) => ~p.paused /\ ~p.aout_paused

-----------------------------------------------------------------------------
Init ==
  /\ mp_state = "IDLE"
  /\ restart = FALSE
  /\ restart_from_beginning = FALSE
  /\ mp_seek = NoSeek
  /\ mutex = "free"
  /\ q = <<>>
  /\ q_abort = TRUE
  /\ loop = "off"
  /\ msg = Msg("FLUSH")
  /\ opened = FALSE
  /\ is_abort = FALSE
  /\ is_seek = NoSeek
  /\ pl = OpenControl(StartOnPrepared)
  /\ eof = FALSE
  /\ recv_eof = FALSE
  /\ io_error = FALSE
  /\ loops = Loop
  /\ rt = "off"
  /\ target = 0
  /\ prepared = FALSE
  /\ completed = FALSE
  /\ pos = 0
  /\ backlog = 0
  /\ nulls = FALSE
  /\ stopping = "no"
  /\ asserted = FALSE
  /\ calls = 0
  /\ want = "none"

\* The messages of s without those of each of these codes, as msg_queue_remove
\* leaves them.
Kept(s, whats) ==
  LET Upto[n \in 0 .. Len(s)] ==
        IF n = 0 THEN <<>>
        ELSE IF s[n].what \in whats THEN Upto[n - 1]
        ELSE Append(Upto[n - 1], s[n])
  IN  Upto[Len(s)]

\* msg_queue_remove of each of these codes; an aborted queue is left alone.
Without(whats) == IF q_abort THEN q ELSE Kept(q, whats)

\* msg_queue_put behind the messages s; an aborted queue takes nothing.
Posted(s, m) == IF q_abort THEN s ELSE Append(s, m)

\* stream_seek: a seek that waits for read_thread is not replaced.
StreamSeek(to) == IF is_seek = NoSeek THEN to ELSE is_seek

-----------------------------------------------------------------------------
(* The application.  One call at a time; ijkmp_stop gives other threads    *)
(* the chance to run between its writes.                                   *)

AppFree == mutex = "free" /\ stopping = "no"

Call ==
  /\ AppFree
  /\ calls < MaxCalls
  /\ calls' = calls + 1

\* ijkmp_set_data_source
SetDataSource ==
  /\ AppFree
  /\ mp_state = "IDLE"
  /\ mp_state' = "INITIALIZED"
  /\ UNCHANGED <<restart, restart_from_beginning, mp_seek, mutex, qVars,
                 loopVars, ffVars, readVars, backlog, appVars>>

\* ijkmp_prepare_async.  The outcomes of ffp_prepare_async_l: the stream opens,
\* it does not, or there is one already and its assertion fails.
PrepareAsync ==
  /\ AppFree
  /\ mp_state = "INITIALIZED"
  /\ q' = Append(q, Msg("FLUSH"))
  /\ q_abort' = FALSE
  /\ loop' = "get"
  /\ \/ /\ mp_state' = "ASYNC_PREPARING"
        /\ opened' = TRUE
        /\ rt' = "open"
     \/ /\ mp_state' = "ERROR"
        /\ UNCHANGED <<opened, rt>>
  /\ UNCHANGED <<restart, restart_from_beginning, mp_seek, mutex, msg,
                 is_abort, is_seek, pl, recv_eof, loops, readData, backlog,
                 appVars>>

PrepareAgain ==
  /\ AppFree
  /\ Reprepare
  /\ mp_state = "STOPPED"
  /\ mp_state' = "ASYNC_PREPARING"
  /\ asserted' = opened
  /\ UNCHANGED <<restart, restart_from_beginning, mp_seek, mutex, qVars,
                 loopVars, ffVars, readVars, backlog, stopping, calls, want>>

\* ijkmp_start
Start ==
  /\ Call
  /\ mp_state \in Playable
  /\ q' = Posted(Without({"REQ_START", "REQ_PAUSE"}), Msg("REQ_START"))
  /\ want' = "start"
  /\ UNCHANGED <<mpVars, mutex, q_abort, loopVars, ffVars, readVars, backlog,
                 stopping, asserted>>

\* ijkmp_pause
Pause ==
  /\ Call
  /\ mp_state \in Playable
  /\ q' = Posted(Without({"REQ_START", "REQ_PAUSE"}), Msg("REQ_PAUSE"))
  /\ want' = "pause"
  /\ UNCHANGED <<mpVars, mutex, q_abort, loopVars, ffVars, readVars, backlog,
                 stopping, asserted>>

\* Mutant: ijkmp_seek_to_l leaves an older FFP_REQ_SEEK in the queue.
SeekToKeeps(to) ==
  /\ Call
  /\ mp_state \in Playable
  /\ mp_seek' = to
  /\ q' = Posted(q, [what |-> "REQ_SEEK", arg |-> to])
  /\ UNCHANGED <<mp_state, restart, restart_from_beginning, mutex, q_abort,
                 loopVars, ffVars, readVars, backlog, stopping, asserted,
                 want>>

\* ijkmp_seek_to
SeekTo(to) ==
  /\ Call
  /\ mp_state \in Playable
  /\ mp_seek' = to
  /\ q' = Posted(Without({"REQ_SEEK"}), [what |-> "REQ_SEEK", arg |-> to])
  /\ UNCHANGED <<mp_state, restart, restart_from_beginning, mutex, q_abort,
                 loopVars, ffVars, readVars, backlog, stopping, asserted,
                 want>>

\* ijkmp_stop: the pending requests go, then ffp_stop_l raises abort_request,
\* pauses and aborts the message queue, and the state changes.
Stop ==
  /\ Call
  /\ mp_state \notin {"IDLE", "INITIALIZED", "ERROR"}
  /\ mutex' = "app"
  /\ stopping' = "pause"
  /\ q' = Without({"REQ_START", "REQ_PAUSE"})
  /\ is_abort' = opened
  /\ UNCHANGED <<mpVars, q_abort, loopVars, opened, is_seek, pl, recv_eof,
                 loops, readVars, backlog, asserted, want>>

StopPauses ==
  /\ stopping = "pause"
  /\ stopping' = "abort"
  /\ pl' = IF opened THEN TogglePause(pl, TRUE) ELSE pl
  /\ UNCHANGED <<mpVars, mutex, qVars, loopVars, ffOthers, readVars, backlog,
                 asserted, calls, want>>

StopAborts ==
  /\ stopping = "abort"
  /\ stopping' = "no"
  /\ q_abort' = TRUE
  /\ mp_state' = "STOPPED"
  /\ mutex' = "free"
  /\ UNCHANGED <<restart, restart_from_beginning, mp_seek, q, loopVars,
                 ffVars, readVars, backlog, asserted, calls, want>>

AppStops == StopPauses \/ StopAborts

App ==
  \/ SetDataSource \/ PrepareAsync \/ PrepareAgain
  \/ Start \/ Pause \/ Stop \/ AppStops
  \/ \E to \in Targets : SeekTo(to)

-----------------------------------------------------------------------------
(* The message loop: ijkmp_get_msg(block = 1) called for ever.             *)

\* msg_queue_get returns a message, or ends the loop of an aborted queue.
LoopGets ==
  /\ loop = "get"
  /\ \/ /\ q_abort
        /\ loop' = "off"
        /\ UNCHANGED <<q, msg>>
     \/ /\ ~q_abort
        /\ q # <<>>
        /\ msg' = Head(q)
        /\ q' = Tail(q)
        /\ loop' = "handle"
  /\ UNCHANGED <<mpVars, mutex, q_abort, ffVars, readVars, backlog, appVars>>

\* The dequeued message is one of these, and mp->mutex can be taken.
Handles(what) == loop = "handle" /\ msg.what = what /\ mutex = "free"

\* Messages ijkmp_get_msg passes to the application untouched.
HandleOther ==
  /\ loop = "handle"
  /\ msg.what \in {"FLUSH", "ERROR"}
  /\ loop' = "get"
  /\ UNCHANGED <<mpVars, mutex, qVars, msg, ffVars, readVars, backlog,
                 appVars>>

HandlePrepared ==
  /\ Handles("PREPARED")
  /\ mp_state' = IF ~StartOnPrepared THEN "PAUSED"
                 ELSE IF mp_state = "ASYNC_PREPARING" THEN "PREPARED" ELSE mp_state
  /\ loop' = "get"
  /\ UNCHANGED <<restart, restart_from_beginning, mp_seek, mutex, qVars, msg,
                 ffVars, readVars, backlog, appVars>>

HandleCompleted ==
  /\ Handles("COMPLETED")
  /\ restart' = TRUE
  /\ restart_from_beginning' = TRUE
  /\ mp_state' = "COMPLETED"
  /\ loop' = "get"
  /\ UNCHANGED <<mp_seek, mutex, qVars, msg, ffVars, readVars, backlog,
                 appVars>>

HandleSeekComplete ==
  /\ Handles("SEEK_COMPLETE")
  /\ mp_seek' = NoSeek
  /\ loop' = "get"
  /\ UNCHANGED <<mp_state, restart, restart_from_beginning, mutex, qVars,
                 msg, ffVars, readVars, backlog, appVars>>

\* FFP_REQ_START in a state that does not allow it any more.
HandleStartRefused ==
  /\ Handles("REQ_START")
  /\ mp_state \notin Playable
  /\ loop' = "get"
  /\ UNCHANGED <<mpVars, mutex, qVars, msg, ffVars, readVars, backlog,
                 appVars>>

\* Mutant: FFP_REQ_START does not look at the state again.
HandleStartUnchecked ==
  /\ Handles("REQ_START")
  /\ ~(restart /\ restart_from_beginning)
  /\ pl' = TogglePause(pl, FALSE)
  /\ mp_state' = "STARTED"
  /\ restart' = FALSE
  /\ restart_from_beginning' = FALSE
  /\ loop' = "get"
  /\ UNCHANGED <<mp_seek, mutex, qVars, msg, ffOthers, readVars, backlog,
                 appVars>>

\* FFP_REQ_START through ffp_start_l.
HandleStart ==
  /\ Handles("REQ_START")
  /\ mp_state \in Playable
  /\ ~(restart /\ restart_from_beginning)
  /\ pl' = TogglePause(pl, FALSE)
  /\ mp_state' = "STARTED"
  /\ restart' = FALSE
  /\ restart_from_beginning' = FALSE
  /\ loop' = "get"
  /\ UNCHANGED <<mp_seek, mutex, qVars, msg, ffOthers, readVars, backlog,
                 appVars>>

\* Mutant: ffp_start_from_l does not ask for the resume after the seek.
StartFromNoResume ==
  /\ Handles("REQ_START")
  /\ mp_state \in Playable
  /\ restart /\ restart_from_beginning
  /\ mutex' = "loop"
  /\ loop' = "start1"
  /\ UNCHANGED <<mpVars, qVars, msg, ffVars, readVars, backlog, appVars>>

\* FFP_REQ_START through ffp_start_from_l(0): auto_resume, which play_mutex
\* does not protect, then the buffering, then the seek.
StartFromResumes ==
  /\ Handles("REQ_START")
  /\ mp_state \in Playable
  /\ restart /\ restart_from_beginning
  /\ pl' = [pl EXCEPT !.auto_resume = TRUE]
  /\ mutex' = "loop"
  /\ loop' = "start1"
  /\ UNCHANGED <<mpVars, qVars, msg, ffOthers, readVars, backlog, appVars>>

StartFromBuffers ==
  /\ loop = "start1"
  /\ pl' = ToggleBuffering(pl, TRUE)
  /\ loop' = "start2"
  /\ UNCHANGED <<mpVars, mutex, qVars, msg, ffOthers, readVars, backlog,
                 appVars>>

StartFromSeeks ==
  /\ loop = "start2"
  /\ is_seek' = StreamSeek(0)
  /\ recv_eof' = FALSE
  /\ mp_state' = "STARTED"
  /\ restart' = FALSE
  /\ restart_from_beginning' = FALSE
  /\ mutex' = "free"
  /\ loop' = "get"
  /\ UNCHANGED <<mp_seek, qVars, msg, opened, is_abort, pl, loops, readVars,
                 backlog, appVars>>

HandlePause ==
  /\ Handles("REQ_PAUSE")
  /\ loop' = "get"
  /\ IF mp_state \in Playable
     THEN pl' = TogglePause(pl, TRUE) /\ mp_state' = "PAUSED"
     ELSE UNCHANGED <<pl, mp_state>>
  /\ UNCHANGED <<restart, restart_from_beginning, mp_seek, mutex, qVars, msg,
                 ffOthers, readVars, backlog, appVars>>

\* FFP_REQ_SEEK: ffp_seek_to_l completes the media when the target is its end,
\* and seeks otherwise.
HandleSeek ==
  /\ Handles("REQ_SEEK")
  /\ loop' = "get"
  /\ \/ /\ mp_state \notin Playable
        /\ UNCHANGED <<restart_from_beginning, pl, q, is_seek>>
     \/ /\ mp_state \in Playable
        /\ restart_from_beginning' = FALSE
        /\ \/ /\ msg.arg >= Duration
              /\ pl' = TogglePause(pl, TRUE)
              /\ q' = Posted(q, Msg("COMPLETED"))
              /\ UNCHANGED is_seek
           \/ /\ msg.arg < Duration
              /\ is_seek' = StreamSeek(msg.arg)
              /\ UNCHANGED <<pl, q>>
  /\ UNCHANGED <<mp_state, restart, mp_seek, mutex, q_abort, msg, opened,
                 is_abort, recv_eof, loops, readVars, backlog, appVars>>

MessageLoop ==
  \/ LoopGets \/ HandleOther \/ HandlePrepared \/ HandleCompleted
  \/ HandleSeekComplete \/ HandleStartRefused \/ HandleStart
  \/ StartFromResumes \/ StartFromBuffers \/ StartFromSeeks
  \/ HandlePause \/ HandleSeek

-----------------------------------------------------------------------------
(* read_thread.                                                            *)

ReadsAt(at, next) == rt = at /\ rt' = next

\* Everything up to the opened components; a failure, or the interrupt
\* callback of an aborted player, leads to fail.
ReadOpens ==
  /\ \/ ReadsAt("open", IF StartOnPrepared THEN "announce" ELSE "hold")
     \/ ReadsAt("open", "fail")
  /\ UNCHANGED <<outside, qVars, ffVars, readData, backlog>>

ReadHolds ==
  /\ ReadsAt("hold", "announce")
  /\ pl' = TogglePause(pl, TRUE)
  /\ UNCHANGED <<outside, qVars, ffOthers, readData, backlog>>

ReadAnnounces ==
  /\ ReadsAt("announce", IF StartOnPrepared THEN "resume" ELSE "waitstart")
  /\ prepared' = TRUE
  /\ q' = Posted(q, Msg("PREPARED"))
  /\ UNCHANGED <<outside, q_abort, ffVars, eof, io_error, target, completed,
                 pos, nulls, backlog>>

ReadWaitsForStart ==
  /\ ReadsAt("waitstart", "resume")
  /\ ~pl.pause_req \/ is_abort
  /\ UNCHANGED <<outside, qVars, ffVars, readData, backlog>>

\* A resume asked for by now is asked for once more, by a request of its own.
ReadResumes ==
  /\ \/ /\ pl.auto_resume
        /\ ReadsAt("resume", "clear")
        /\ q' = Posted(q, Msg("REQ_START"))
     \/ /\ ~pl.auto_resume
        /\ ReadsAt("resume", "loop")
        /\ UNCHANGED q
  /\ UNCHANGED <<outside, q_abort, ffVars, readData, backlog>>

ReadClearsResume ==
  /\ ReadsAt("clear", "loop")
  /\ pl' = [pl EXCEPT !.auto_resume = FALSE]
  /\ UNCHANGED <<outside, qVars, ffOthers, readData, backlog>>

\* The head of the loop: leave, serve a seek, or go on reading.
ReadLeaves ==
  /\ ReadsAt("loop", "ended")
  /\ is_abort
  /\ UNCHANGED <<outside, qVars, ffVars, readData, backlog>>

ReadGoesOn ==
  /\ ReadsAt("loop", "fill")
  /\ ~is_abort
  /\ is_seek = NoSeek
  /\ UNCHANGED <<outside, qVars, ffVars, readData, backlog>>

SeekBegins ==
  /\ ReadsAt("loop", "seek")
  /\ ~is_abort
  /\ is_seek # NoSeek
  /\ target' = is_seek
  /\ pl' = ToggleBuffering(pl, TRUE)
  /\ UNCHANGED <<outside, qVars, ffOthers, eof, io_error, prepared,
                 completed, pos, nulls, backlog>>

\* avformat_seek_file and the flush of the queues; is->seek_req is cleared
\* after that, so a seek that came in the meantime is gone.
SeekMoves ==
  /\ ReadsAt("seek", "seekresume")
  /\ \/ pos' = target /\ backlog' = 0 /\ nulls' = FALSE
     \/ IoErrors /\ UNCHANGED <<pos, backlog, nulls>>
  /\ is_seek' = NoSeek
  /\ eof' = FALSE
  /\ completed' = FALSE
  /\ UNCHANGED <<outside, qVars, opened, is_abort, pl, recv_eof, loops,
                 io_error, target, prepared>>

SeekResumes ==
  /\ ReadsAt("seekresume", "seekdone")
  /\ pl' = ResumeAfterSeek(pl)
  /\ UNCHANGED <<outside, qVars, ffOthers, readData, backlog>>

SeekReports ==
  /\ ReadsAt("seekdone", "seekbuf")
  /\ q' = Posted(q, [what |-> "SEEK_COMPLETE", arg |-> target])
  /\ UNCHANGED <<outside, q_abort, ffVars, readData, backlog>>

SeekBuffers ==
  /\ ReadsAt("seekbuf", "fill")
  /\ pl' = ToggleBuffering(pl, TRUE)
  /\ UNCHANGED <<outside, qVars, ffOthers, readData, backlog>>

\* The queues are full and no seek waits.
Full == backlog >= QueueCap /\ is_seek = NoSeek

ReadWaitsForRoom ==
  /\ ReadsAt("fill", "loop")
  /\ Full
  /\ pl' = IF eof THEN pl ELSE ToggleBuffering(pl, FALSE)
  /\ UNCHANGED <<outside, qVars, ffOthers, readData, backlog>>

\* The decoders have finished and every frame was rendered.
Finished == nulls /\ backlog = 0
AtEnd    == ~Full /\ Finished /\ (~pl.paused \/ completed)

\* ffp->loop != 1 && (!ffp->loop || --ffp->loop)
PlaysAgain == loops # 1

EndLoops ==
  /\ ReadsAt("fill", "read")
  /\ AtEnd
  /\ PlaysAgain
  /\ loops' = IF loops = 0 THEN 0 ELSE loops - 1
  /\ is_seek' = StreamSeek(0)
  /\ UNCHANGED <<outside, qVars, opened, is_abort, pl, recv_eof, readData,
                 backlog>>

EndExits ==
  /\ ReadsAt("fill", "fail")
  /\ AtEnd
  /\ ~PlaysAgain
  /\ AutoExit
  /\ UNCHANGED <<outside, qVars, ffVars, readData, backlog>>

EndIsOld ==
  /\ ReadsAt("fill", "waitseek")
  /\ AtEnd
  /\ ~PlaysAgain
  /\ ~AutoExit
  /\ completed
  /\ UNCHANGED <<outside, qVars, ffVars, readData, backlog>>

\* Mutant: it does not look at is->abort_request.
WaitSeekOnlySeeks ==
  /\ rt = "waitseek"
  /\ is_seek # NoSeek
  /\ rt' = IF is_abort THEN "read" ELSE "loop"
  /\ UNCHANGED <<outside, qVars, ffVars, readData, backlog>>

ReadWaitsForSeek ==
  /\ rt = "waitseek"
  /\ is_abort \/ is_seek # NoSeek
  /\ rt' = IF is_abort THEN "read" ELSE "loop"
  /\ UNCHANGED <<outside, qVars, ffVars, readData, backlog>>

EndIsNew ==
  /\ ReadsAt("fill", "complete1")
  /\ AtEnd
  /\ ~PlaysAgain
  /\ ~AutoExit
  /\ ~completed
  /\ completed' = TRUE
  /\ pl' = [pl EXCEPT !.auto_resume = FALSE]
  /\ recv_eof' = TRUE
  /\ UNCHANGED <<outside, qVars, opened, is_abort, is_seek, loops, eof,
                 io_error, target, prepared, pos, nulls, backlog>>

CompleteBuffers ==
  /\ ReadsAt("complete1", "complete2")
  /\ pl' = ToggleBuffering(pl, FALSE)
  /\ UNCHANGED <<outside, qVars, ffOthers, readData, backlog>>

CompletePauses ==
  /\ ReadsAt("complete2", "complete3")
  /\ pl' = TogglePause(pl, TRUE)
  /\ UNCHANGED <<outside, qVars, ffOthers, readData, backlog>>

CompleteReports ==
  /\ ReadsAt("complete3", "read")
  /\ q' = Posted(q, Msg(IF io_error THEN "ERROR" ELSE "COMPLETED"))
  /\ UNCHANGED <<outside, q_abort, ffVars, readData, backlog>>

\* av_read_frame and the rest of the loop's body.
Reads ==
  /\ rt' = "loop"
  /\ \/ rt = "read"
     \/ rt = "fill" /\ ~Full /\ ~AtEnd

\* A packet, which packet_queue_get_or_buffering drops when it comes behind
\* null packets; ffp_check_buffering_l may find that enough is buffered.
ReadPacket ==
  /\ Reads
  /\ pos < Duration
  /\ pos' = pos + 1
  /\ backlog' = IF nulls /\ PacketBuffering THEN backlog ELSE backlog + 1
  /\ eof' = FALSE
  /\ pl' \in {pl, ToggleBuffering(pl, FALSE)}
  /\ UNCHANGED <<outside, qVars, ffOthers, io_error, target, prepared,
                 completed, nulls>>

\* The end of the file, or an error of the protocol below it.
ReadEnds ==
  /\ Reads
  /\ \/ pos = Duration /\ io_error' = FALSE
     \/ IoErrors /\ io_error' = TRUE
  /\ eof' = TRUE
  /\ nulls' = TRUE
  /\ pl' = ToggleBuffering(pl, FALSE)
  /\ UNCHANGED <<outside, qVars, ffOthers, target, prepared, completed, pos,
                 backlog>>

ReadFails ==
  /\ ReadsAt("fail", "ended")
  /\ q' = IF ~prepared \/ ~is_abort THEN Posted(q, Msg("ERROR")) ELSE q
  /\ UNCHANGED <<outside, q_abort, ffVars, readData, backlog>>

ReadThread ==
  \/ ReadOpens \/ ReadHolds \/ ReadAnnounces \/ ReadWaitsForStart \/ ReadResumes
  \/ ReadClearsResume \/ ReadLeaves \/ ReadGoesOn
  \/ SeekBegins \/ SeekMoves \/ SeekResumes \/ SeekReports \/ SeekBuffers
  \/ ReadWaitsForRoom \/ EndLoops \/ EndExits \/ EndIsOld \/ ReadWaitsForSeek
  \/ EndIsNew \/ CompleteBuffers \/ CompletePauses \/ CompleteReports
  \/ ReadPacket \/ ReadEnds \/ ReadFails

-----------------------------------------------------------------------------
(* The decoders and the renderer.                                          *)

\* Decoders exist once the components are open.
Decoding == rt \notin {"off", "open", "fail"}

\* A frame is rendered: video_refresh, or audio_decode_frame from the audio
\* callback, which gets no frame while it is paused, stepping or after put_eof.
Render ==
  /\ backlog > 0
  /\ ~pl.paused
  /\ HasVideo \/ (~pl.step /\ ~recv_eof /\ ~pl.aout_paused)
  /\ backlog' = backlog - 1
  /\ pl' = IF HasVideo THEN FrameShown(pl) ELSE pl
  /\ UNCHANGED <<outside, qVars, ffOthers, readVars>>

\* A decoder that finds its packet queue empty, and no end of the stream in it,
\* starts the buffering (packet_queue_get_or_buffering); frames may be left.
Starve ==
  /\ Decoding
  /\ backlog < QueueCap
  /\ ~nulls
  /\ ~pl.buffering_on
  /\ PacketBuffering
  /\ pl' = ToggleBuffering(pl, TRUE)
  /\ UNCHANGED <<outside, qVars, ffOthers, readVars, backlog>>

Next == ~asserted /\ (App \/ MessageLoop \/ ReadThread \/ Render \/ Starve)

Spec == Init /\ [][Next]_vars

\* The threads of the player run; the application may stop calling.
Fairness ==
  /\ WF_vars(~asserted /\ AppStops)
  /\ WF_vars(~asserted /\ MessageLoop)
  /\ WF_vars(~asserted /\ ReadThread)
  /\ WF_vars(~asserted /\ Render)

FairSpec == Spec /\ Fairness

-----------------------------------------------------------------------------
(***************************************************************************)
(* Every variable keeps its type.                                          *)
(***************************************************************************)
TypeOK ==
  /\ mp_state \in MpStates
  /\ {restart, restart_from_beginning} \subseteq BOOLEAN
  /\ mp_seek \in Positions
  /\ mutex \in {"free", "app", "loop"}
  /\ q \in Seq(Messages)
  /\ q_abort \in BOOLEAN
  /\ loop \in LoopStates
  /\ msg \in Messages
  /\ {opened, is_abort, recv_eof} \subseteq BOOLEAN
  /\ is_seek \in Positions
  /\ pl \in PlayControls
  /\ loops \in Nat
  /\ {eof, io_error, prepared, completed, nulls} \subseteq BOOLEAN
  /\ rt \in ReadStates
  /\ target \in Targets
  /\ pos \in Targets
  /\ backlog \in Nat
  /\ stopping \in {"no", "pause", "abort"}
  /\ asserted \in BOOLEAN
  /\ calls \in Nat
  /\ want \in {"none", "start", "pause"}

(***************************************************************************)
(* A pause that nobody asks for any more does not last, whatever order the *)
(* requests of the application, the seeks, the buffering, the end of the   *)
(* media and single steps come in (the sections under is->play_mutex).     *)
(***************************************************************************)
NoStuckPause == RunsWhenNotHeld(pl)

\* No message of the loop and no call is half done.
Quiet == loop \in {"off", "get"} /\ mutex = "free"

\* One of these waits in the message queue.
Waiting(whats) == \E i \in DOMAIN q : q[i].what \in whats

\* Or has been dequeued and waits to be handled.
Pending(whats) == Waiting(whats) \/ (loop = "handle" /\ msg.what \in whats)

(***************************************************************************)
(* A player that tells its application it is paused has the pause on       *)
(* record: no pending resume, seek or end of the media takes it back       *)
(* (ijkmp_get_msg against read_thread).                                    *)
(***************************************************************************)
PausedIsHeld == mp_state = "PAUSED" /\ Quiet /\ ~is_abort => pl.pause_req

(***************************************************************************)
(* The position ijkmp_get_current_position reports during a seek is that   *)
(* of the request that waits, not that of a request it replaced, unless    *)
(* the report of an older seek has cleared it, or the player is stopped.   *)
(***************************************************************************)
SeekAgrees ==
  \A i \in DOMAIN q :
    ~q_abort /\ q[i].what = "REQ_SEEK" => mp_seek \in {NoSeek, q[i].arg}

(***************************************************************************)
(* Once ijkmp_stop has paused the player nothing starts it again, neither  *)
(* a request the loop had dequeued before nor a seek of read_thread.       *)
(***************************************************************************)
StopIsFinal ==
  [][is_abort /\ stopping # "pause" /\ pl.pause_req => pl'.pause_req]_vars

\* The player is started, or is being started from the beginning, but it is
\* paused short of the end of the media and nothing under way will resume it.
Stranded ==
  LET starting == loop \in {"start1", "start2"}
  IN  /\ starting \/ mp_state = "STARTED"
      /\ pl.pause_req /\ ~completed /\ ~is_abort
      /\ ~(pl.auto_resume /\ (starting \/ is_seek # NoSeek \/ rt = "seekresume"))
      /\ ~Pending({"REQ_START", "REQ_PAUSE", "COMPLETED"})

(***************************************************************************)
(* A started player plays, or something under way will make it play.  Only *)
(* read_thread ever strands one: when it forgets auto_resume after its     *)
(* first request to start, and when it seeks in a media that an I/O error  *)
(* ended, which paused the player with an FFP_MSG_ERROR that leaves its    *)
(* state alone.                                                            *)
(***************************************************************************)
SeeksAfterError == rt = "seek" /\ completed /\ IoErrors
OnlyClearStrands == [][Stranded' => Stranded \/ rt = "clear" \/ SeeksAfterError]_vars

(***************************************************************************)
(* ijkmp_stop ends the threads: read_thread leaves whatever it waits for   *)
(* and the message loop leaves its queue.                                  *)
(***************************************************************************)
StopEndsThreads == is_abort ~> (rt = "ended" /\ loop = "off")

(***************************************************************************)
(* The position of a seek that ijkmp_get_current_position reports is not   *)
(* reported for ever: an accepted seek within the media is carried out, or *)
(* replaced, in a player that is not stopped (stream_seek, read_thread and *)
(* FFP_MSG_SEEK_COMPLETE).                                                 *)
(***************************************************************************)
SeekReported ==
  \A s \in 0 .. Duration - 1 :
    mp_seek = s ~> (mp_seek # s \/ is_abort \/ rt = "ended")

(***************************************************************************)
(* Buffering comes to an end: the queues fill up, or the media does, while *)
(* buffering itself holds the rendering (ffp_toggle_buffering, read_thread *)
(* and the decoders that starve).                                          *)
(***************************************************************************)
BufferingEnds ==
  pl.buffering_on ~> (~pl.buffering_on \/ is_abort \/ rt = "ended")

-----------------------------------------------------------------------------
(* What ijkplayer.h says of the states, and the code does otherwise.       *)

(***************************************************************************)
(* ijkplayer.h:90: ijkmp_pause takes a started player to MP_STATE_PAUSED:  *)
(* when the last call was a pause and it was carried out, the player is    *)
(* held.                                                                   *)
(***************************************************************************)
PauseSticks ==
  /\ want = "pause" /\ mp_state \in Playable /\ Quiet /\ ~is_abort
  /\ ~Waiting({"REQ_PAUSE"})
  => pl.pause_req
=============================================================================
