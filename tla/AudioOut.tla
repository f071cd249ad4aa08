------------------------------ MODULE AudioOut ------------------------------
(***************************************************************************)
(* The audio outputs of Android, ijksdl_aout_android_audiotrack.c and      *)
(* ijksdl_aout_android_opensles.c: a thread that asks sdl_audio_callback   *)
(* for sound and hands it to the device, and the functions that open,      *)
(* pause, flush and close the output from the player's threads.            *)
(*                                                                         *)
(* A piece of sound is the serial of the audio packet queue that it was    *)
(* decoded from, 0 for silence; the device holds the pieces it has still   *)
(* to play.  The device itself, AudioTrack.java or the buffer queue of     *)
(* OpenSL ES, is external: an AudioTrack flushes nothing while it plays.   *)
(***************************************************************************)
EXTENDS Integers, Sequences

CONSTANTS
  Backends,     \* of {"track", "sles"}
  Policies,     \* audio_write_policy, of {"block", "cyclic", "timed"}
  Cap,          \* pieces that the device holds (OPENSLES_BUFFERS)
  Bounds        \* how often the output is opened (opens), paused, resumed or
                \* its volume changed (toggles), the queue gets a new serial
                \* (seeks) and a write fails (faults)

VARIABLES
  backend, policy,
  aout,       \* SDL_Aout_Opaque
  th,         \* the thread: where it is, its piece, GetState's count
  dev,        \* the device
  sound,      \* audioq.serial, auddec.pkt_serial, audio_buf and sampq's abort
  paused,     \* VideoState.paused
  app,        \* what opens and closes: "closed", "opened", "playing", "joining"
  missed,     \* did the thread of an AudioTrack miss that it should play?
  bound, used \* one of Bounds, and how much of it is used up

vars == <<backend, policy, aout, th, dev, sound, paused, app, missed, bound, used>>

NoDevice == [state |-> "none", queue |-> <<>>, volume |-> 0]

Init ==
  /\ backend \in Backends /\ policy \in Policies
  /\ backend = "sles" => policy = CHOOSE p \in Policies : TRUE
  /\ aout = [pauseOn |-> FALSE, abort |-> FALSE, needFlush |-> FALSE,
             needVolume |-> FALSE, volume |-> 0]
  /\ th = [pc |-> "none", piece |-> 0, count |-> 0]
  /\ dev = NoDevice
  /\ sound = [serial |-> 1, decoded |-> 1, held |-> 0, abort |-> FALSE]
  /\ paused = FALSE /\ app = "closed" /\ missed = FALSE
  /\ bound \in Bounds
  /\ used = [opens |-> 0, toggles |-> 0, seeks |-> 0, faults |-> 0]

Track == backend = "track"
Alive == th.pc \notin {"none", "end"}
Goto(pc) == th' = [th EXCEPT !.pc = pc]

-----------------------------------------------------------------------------
\* The player's threads.

\* audio_open with aout_open_audio: the device begins to hold silence if it is
\* OpenSL ES, and at its own volume; the output begins paused.
Open ==
  /\ app = "closed" /\ used.opens < bound.opens
  /\ aout' = [aout EXCEPT !.pauseOn = TRUE, !.abort = FALSE]
  /\ th' = [pc |-> "start", piece |-> 0, count |-> 0]
  /\ dev' = [state |-> "stopped", volume |-> 0,
             queue |-> IF Track THEN <<>> ELSE [i \in 1..Cap |-> 0]]
  /\ sound' = [sound EXCEPT !.abort = FALSE, !.held = 0]
  /\ app' = "opened" /\ missed' = FALSE
  /\ used' = [used EXCEPT !.opens = @ + 1]
  /\ UNCHANGED <<backend, policy, bound, paused>>

\* stream_component_open ends with SDL_AoutPauseAudio(0), paused or not.
Resume ==
  /\ app = "opened"
  /\ aout' = [aout EXCEPT !.pauseOn = FALSE]
  /\ app' = "playing"
  /\ UNCHANGED <<backend, policy, bound, th, dev, sound, paused, missed, used>>

\* stream_toggle_pause_l with aout_pause_audio.  The output need not be open.
Pause(on) ==
  /\ used.toggles < bound.toggles /\ paused # on
  /\ paused' = on /\ aout' = [aout EXCEPT !.pauseOn = on]
  /\ used' = [used EXCEPT !.toggles = @ + 1]
  /\ UNCHANGED <<backend, policy, bound, th, dev, sound, app, missed>>

\* ffpipeline_set_volume with aout_set_volume
SetVolume(v) ==
  /\ used.toggles < bound.toggles /\ v # aout.volume
  /\ aout' = [aout EXCEPT !.volume = v, !.needVolume = TRUE]
  /\ used' = [used EXCEPT !.toggles = @ + 1]
  /\ UNCHANGED <<backend, policy, bound, th, dev, sound, paused, app, missed>>

\* Mutant: the decoder's queues are left as they are.
CloseBeforeDecoder ==
  /\ app = "playing"
  /\ aout' = [aout EXCEPT !.abort = TRUE]
  /\ app' = "joining"
  /\ UNCHANGED <<backend, policy, bound, th, dev, sound, paused, missed, used>>

\* stream_component_close: decoder_abort first, then aout_close_audio,
Close ==
  /\ app = "playing"
  /\ aout' = [aout EXCEPT !.abort = TRUE]
  /\ sound' = [sound EXCEPT !.abort = TRUE]
  /\ app' = "joining"
  /\ UNCHANGED <<backend, policy, bound, th, dev, paused, missed, used>>

\* which waits for the thread; then the player of OpenSL ES is destroyed.
Join ==
  /\ app = "joining" /\ th.pc = "end"
  /\ dev' = NoDevice /\ app' = "closed" /\ Goto("none")
  /\ UNCHANGED <<backend, policy, bound, aout, sound, paused, missed, used>>

\* A seek gives the audio queue a new serial; later the decoder takes it over.
Seek ==
  /\ used.seeks < bound.seeks
  /\ sound' = [sound EXCEPT !.serial = @ + 1]
  /\ used' = [used EXCEPT !.seeks = @ + 1]
  /\ UNCHANGED <<backend, policy, bound, aout, th, dev, paused, app, missed>>

Decode ==
  /\ sound.decoded < sound.serial
  /\ sound' = [sound EXCEPT !.decoded = sound.serial]
  /\ UNCHANGED <<backend, policy, bound, aout, th, dev, paused, app, missed, used>>

-----------------------------------------------------------------------------
\* The thread.

\* SDL_Android_AudioTrack_flush, or Clear
FlushedDevice(d) ==
  IF d.state = "none" \/ (Track /\ d.state = "playing") THEN d
  ELSE [d EXCEPT !.queue = <<>>]

Start ==
  /\ th.pc = "start"
  /\ dev' = IF aout.abort \/ aout.pauseOn THEN dev
            ELSE [dev EXCEPT !.state = "playing"]
  /\ missed' = (aout.pauseOn /\ Track)
  /\ Goto("top")
  /\ UNCHANGED <<backend, policy, bound, aout, sound, paused, app, used>>

\* The loop's condition; the state of the queue of OpenSL ES is read before the
\* mutex is taken.  The thread frees an AudioTrack itself.
Top ==
  /\ th.pc = "top"
  /\ th' = [th EXCEPT !.pc = IF aout.abort THEN "end" ELSE "body",
                      !.count = Len(dev.queue)]
  /\ dev' = IF aout.abort /\ Track THEN NoDevice ELSE dev
  /\ UNCHANGED <<backend, policy, bound, aout, sound, paused, app, missed, used>>

\* What follows the waiting: requests are served under the mutex.
Serve(d, a) ==
  LET flushed == IF a.needFlush THEN FlushedDevice(d) ELSE d
  IN  /\ dev' = IF a.needVolume THEN [flushed EXCEPT !.volume = a.volume] ELSE flushed
      /\ aout' = [a EXCEPT !.needFlush = FALSE, !.needVolume = FALSE]
      /\ Goto("callback")
Play(d) == [d EXCEPT !.state = "playing"]

BodyOfTrack ==
  /\ th.pc = "body" /\ Track
  /\ missed' = (missed /\ ~aout.pauseOn)
  /\ IF aout.pauseOn /\ ~aout.abort
     THEN /\ dev' = [dev EXCEPT !.state = "paused"]
          /\ Goto("wait") /\ UNCHANGED aout
     ELSE Serve(dev, aout)
  /\ UNCHANGED <<backend, policy, bound, sound, paused, app, used>>

\* SDL_CondWaitTimeout returns: signalled, after a second, or at once when it
\* computes a deadline that pthread_cond_timedwait refuses.
WaitOfTrack ==
  /\ th.pc = "wait" /\ Track
  /\ aout.abort \/ ~aout.pauseOn
  /\ IF aout.abort THEN Serve(dev, aout)
     ELSE Serve(Play(IF aout.needFlush THEN FlushedDevice(dev) ELSE dev),
                [aout EXCEPT !.needFlush = FALSE])
  /\ UNCHANGED <<backend, policy, bound, sound, paused, app, missed, used>>

MustWait(count) == ~aout.abort /\ (aout.pauseOn \/ count >= Cap)

BodyOfSles ==
  /\ th.pc = "body" /\ ~Track
  /\ IF MustWait(th.count)
     THEN /\ dev' = IF aout.pauseOn THEN dev ELSE Play(dev)
          /\ Goto("wait") /\ UNCHANGED aout
     ELSE Serve(dev, aout)
  /\ UNCHANGED <<backend, policy, bound, sound, paused, app, missed, used>>

\* The device is paused when the wait has ended, not before it begins.
WaitOfSles ==
  /\ th.pc = "wait" /\ ~Track
  /\ IF MustWait(Len(dev.queue))
     THEN /\ dev' = [dev EXCEPT !.state = IF aout.pauseOn THEN "paused" ELSE "playing"]
          /\ UNCHANGED <<aout, th>>
     ELSE Serve(IF aout.abort
                THEN [dev EXCEPT !.state = IF aout.pauseOn THEN "paused" ELSE @]
                ELSE Play(dev), aout)
  /\ UNCHANGED <<backend, policy, bound, sound, paused, app, missed, used>>

\* sdl_audio_callback with audio_decode_frame: what is left of the last
\* frame, silence while the player is paused or when the queue is aborted, or
\* the next frame of the queue's serial, which is waited for.
Callback ==
  /\ th.pc = "callback"
  /\ \/ sound.held # 0 /\ UNCHANGED sound
     \/ (paused \/ sound.abort) /\ sound' = [sound EXCEPT !.held = 0]
     \/ /\ ~paused /\ sound.decoded = sound.serial
        /\ sound' = [sound EXCEPT !.held = sound.serial]
  /\ Goto("check")
  /\ UNCHANGED <<backend, policy, bound, aout, dev, paused, app, missed, used>>

\* Then the serials are compared.
Check ==
  LET behind == sound.decoded # sound.serial
  IN  /\ th.pc = "check"
      /\ th' = [th EXCEPT !.pc = "flush", !.piece = IF behind THEN 0 ELSE sound.held]
      /\ sound' = [sound EXCEPT !.held = IF behind THEN 0 ELSE @]
      /\ aout' = [aout EXCEPT !.needFlush = @ \/ behind]
      /\ UNCHANGED <<backend, policy, bound, dev, paused, app, missed, used>>

\* The flush that was asked for, without the mutex
Flush ==
  /\ th.pc = "flush"
  /\ dev' = IF aout.needFlush THEN FlushedDevice(dev) ELSE dev
  /\ aout' = [aout EXCEPT !.needFlush = FALSE]
  /\ Goto("write")
  /\ UNCHANGED <<backend, policy, bound, sound, paused, app, missed, used>>

Written == Append(dev.queue, th.piece)
Room == Len(dev.queue) < Cap

\* SDL_Android_AudioTrack_write: a device that does not play takes what it has
\* room for; one that plays is waited for, unless the policy or a close says
\* otherwise.
WriteTrack ==
  /\ th.pc = "write" /\ Track
  /\ \/ Room /\ dev' = [dev EXCEPT !.queue = Written]
     \/ /\ ~Room /\ UNCHANGED dev
        /\ \/ policy = "timed"
           \/ policy = "cyclic" /\ aout.abort
           \/ policy = "block" /\ dev.state # "playing"
  /\ Goto("top")
  /\ UNCHANGED <<backend, policy, bound, aout, sound, paused, app, missed, used>>

\* Enqueue; what the full queue does not take is lost.
WriteSles ==
  /\ th.pc = "write" /\ ~Track
  /\ dev' = IF Room THEN [dev EXCEPT !.queue = Written] ELSE dev
  /\ Goto("top")
  /\ UNCHANGED <<backend, policy, bound, aout, sound, paused, app, missed, used>>

\* A write fails: the sound is lost, and with OpenSL ES the thread ends.
WriteFails ==
  /\ th.pc = "write" /\ used.faults < bound.faults
  /\ Goto(IF Track THEN "top" ELSE "end")
  /\ used' = [used EXCEPT !.faults = @ + 1]
  /\ UNCHANGED <<backend, policy, bound, aout, dev, sound, paused, app, missed>>

-----------------------------------------------------------------------------
\* The device plays a piece; that of OpenSL ES then signals the thread.
Drain ==
  /\ dev.state = "playing" /\ dev.queue # <<>>
  /\ dev' = [dev EXCEPT !.queue = Tail(@)]
  /\ UNCHANGED <<backend, policy, bound, aout, th, sound, paused, app, missed, used>>

ThreadStep ==
  \/ Start \/ Top \/ BodyOfTrack \/ WaitOfTrack \/ BodyOfSles \/ WaitOfSles
  \/ Callback \/ Check \/ Flush \/ WriteTrack \/ WriteSles
Next ==
  \/ Open \/ Resume \/ (\E on \in BOOLEAN : Pause(on)) \/ (\E v \in 0..1 : SetVolume(v))
  \/ Close \/ Join \/ Seek \/ Decode \/ ThreadStep \/ WriteFails \/ Drain

Spec == Init /\ [][Next]_vars

\* The thread runs and the device plays; an open or a close goes on.
AppStep == Resume \/ Join
FairSpec == Spec /\ WF_vars(ThreadStep) /\ WF_vars(Drain) /\ WF_vars(AppStep)

-----------------------------------------------------------------------------
TypeOK ==
  /\ th.pc \in {"none", "start", "top", "body", "wait", "callback", "check",
                "flush", "write", "end"}
  /\ dev.state \in {"none", "stopped", "paused", "playing"}
  /\ dev.queue \in Seq(0..(1 + bound.seeks)) /\ Len(dev.queue) <= Cap

\* The thread has a device as long as it runs, and none is left behind by a
\* close.
DeviceHeld == (Alive => dev.state # "none") /\ (app = "closed" => dev.state = "none")

\* A volume is on its way or in force; an output that is opened again has
\* forgotten it.
VolumeKept ==
  Alive /\ used.opens = 1 => aout.needVolume \/ dev.volume = aout.volume

\* What the output owes the player: a pause silences the device and a resume
\* starts it, unless the thread of an AudioTrack looked at pause_on before the
\* first resume and not again until after it; a close ends.
Owed ==
  \/ Alive /\ aout.pauseOn /\ dev.state = "playing" /\ dev.queue # <<>>
  \/ Alive /\ ~aout.pauseOn /\ ~missed /\ ~aout.abort /\ dev.state # "playing"
  \/ app = "joining"
=============================================================================
