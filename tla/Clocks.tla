-------------------------------- MODULE Clocks -------------------------------
(***************************************************************************)
(* The clocks of the player (ff_ffplay.c): the audio callback sets the     *)
(* audio clock from the sound it hands out, the video refresh thread sets  *)
(* the video clock from the picture it shows, each waits for or hurries    *)
(* after the master clock, and pauses, buffering, steps and seeks stop,    *)
(* start and move them.                                                    *)
(*                                                                         *)
(* Time is counted in ticks of the refresh thread.  In each tick the       *)
(* refresh thread runs once, and in every Period-th one the device asks    *)
(* for sound, in either order and with the application between them.  The  *)
(* speed is 1 (check_external_clock_speed is for live protocols only), and *)
(* synchronize_audio, which stretches the sound by samples, is left out:   *)
(* the master is the sound, or the pictures of a film without sound, or    *)
(* the external clock of such a film.                                      *)
(***************************************************************************)
EXTENDS Integers, Sequences

CONSTANTS
  Frame,        \* the duration of a picture, in ticks
  MinThreshold, MaxThreshold, DupThreshold, \* AV_SYNC_THRESHOLD_MIN, ...
  Period,       \* the ticks between two audio callbacks
  Latency,      \* SDL_AoutGetLatencySeconds
  FrameDrops,   \* the values of the option framedrop
  Targets,      \* the positions a seek may go to
  Horizon,      \* the ticks of a run
  Budgets       \* how many [toggles, seeks, stalls] a run may have

VARIABLES
  cfg,     \* [sound, master, framedrop]
  now,
  clk,     \* is->vidclk, audclk, extclk
  serial,  \* of the packet queues
  pictq,   \* the pictures decoded and not shown
  last,    \* the picture shown last, if any (frame_queue_peek_last)
  timer,   \* is->frame_timer
  decoder, \* the picture to decode next; the pictures dropped in a row
  sound,   \* is->audio_clock, audio_clock_serial, and the sound to play next
  ctrl,    \* is->paused, pause_req, buffering_on, step, and the audio output
  seekPos, \* is->seek_pos
  due,     \* who has not run yet in this tick
  stall,   \* for how many ticks the decoder has nothing to decode
  ghost,   \* ticks of undisturbed playing, position at the pause, ...
  left

vars == <<cfg, now, clk, serial, pictq, last, timer, decoder, sound, ctrl,
          seekPos, due, stall, ghost, left>>

NaN == 0 - 1000
IsNaN(x) == x = NaN
larger(a, b) == IF a >= b THEN a ELSE b
smaller(a, b) == IF a <= b THEN a ELSE b
distance(a, b) == larger(a - b, b - a)

Clock == [pts : Int, updated : Int, serial : Int, paused : BOOLEAN]

TypeOK ==
  /\ cfg.master \in {"audio", "video", "external"}
  /\ now \in 0..Horizon
  /\ \A c \in {"vid", "aud", "ext"} : clk[c] \in Clock
  /\ serial \in Nat /\ stall \in Nat /\ timer \in Int
  /\ Len(pictq) \in 0..2
  /\ ctrl \in [paused : BOOLEAN, pauseReq : BOOLEAN, buffering : BOOLEAN,
               step : BOOLEAN, aout : BOOLEAN]
  /\ due \subseteq {"audio", "video"}

-----------------------------------------------------------------------------
(* Clocks.                                                                 *)

\* The clocks of sound and pictures are void when a flush has changed the
\* serial of their queue; the external clock is its own queue.
get(k, c, s) ==
  IF (c # "ext" /\ k[c].serial # s) \/ IsNaN(k[c].pts) THEN NaN
  ELSE IF k[c].paused THEN k[c].pts
  ELSE k[c].pts + now - k[c].updated

set(k, c, pts, s) == [k EXCEPT ![c].pts = pts, ![c].updated = now, ![c].serial = s]

\* set_clock(c, get_clock(c), c->serial)
again(k, c, s) == set(k, c, get(k, c, s), k[c].serial)

\* sync_clock_to_slave(extclk, c); AV_NOSYNC_THRESHOLD is out of reach.
follow(k, c, s) ==
  IF ~IsNaN(get(k, c, s)) /\ IsNaN(get(k, "ext", s))
  THEN set(k, "ext", get(k, c, s), k[c].serial) ELSE k

get_master_sync_type ==
  CASE cfg.master = "video" -> "vid"
    [] cfg.master = "audio" /\ cfg.sound -> "aud"
    [] OTHER -> "ext"
get_master_clock == get(clk, get_master_sync_type, serial)

\* ffp_get_current_position_l
Position == IF IsNaN(get_master_clock) THEN seekPos ELSE get_master_clock

-----------------------------------------------------------------------------
(* Pause, buffering and step.                                              *)

\* A stream_toggle_pause_l that resumes without setting the clocks again.
TogglePauseStaleClocks(x, on) ==
  [clk |-> [x.clk EXCEPT !["vid"].paused = on, !["ext"].paused = on, !["aud"].paused = on],
   ctrl |-> [x.ctrl EXCEPT !.paused = on, !.aout = ~on],
   timer |-> IF x.ctrl.paused /\ ~on THEN x.timer + now - x.clk["vid"].updated ELSE x.timer]

\* stream_toggle_pause_l: what it makes of [clk, ctrl, timer].
TogglePause(x, on) ==
  LET c == x.ctrl
      resumes == c.paused /\ ~on
      k1 == IF resumes THEN again(again(x.clk, "vid", serial), "aud", serial) ELSE x.clk
      k2 == again(k1, "ext", serial)
      half == c.step /\ (c.pauseReq \/ c.buffering)
  IN [clk |-> [k2 EXCEPT !["vid"].paused = on, !["ext"].paused = on,
                         !["aud"].paused = IF half THEN @ ELSE on],
      ctrl |-> [c EXCEPT !.paused = on, !.aout = IF half THEN @ ELSE ~on],
      timer |-> IF resumes THEN x.timer + now - x.clk["vid"].updated ELSE x.timer]

\* stream_update_pause_l
UpdatePause(x) ==
  TogglePause(x, ~x.ctrl.step /\ (x.ctrl.pauseReq \/ x.ctrl.buffering))

State == [clk |-> clk, ctrl |-> ctrl, timer |-> timer]
Becomes(x) == clk' = x.clk /\ ctrl' = x.ctrl /\ timer' = x.timer

\* toggle_pause_l
SetPause(x, on) ==
  LET k == IF x.ctrl.pauseReq /\ ~on
           THEN again(again(x.clk, "vid", serial), "aud", serial) ELSE x.clk
      y == UpdatePause([x EXCEPT !.clk = k, !.ctrl.pauseReq = on])
  IN [y EXCEPT !.ctrl.step = FALSE]

\* ffp_toggle_buffering_l
SetBuffering(x, on) ==
  IF x.ctrl.buffering = on THEN x ELSE UpdatePause([x EXCEPT !.ctrl.buffering = on])

\* step_to_next_frame_l
Step(x) ==
  LET y == [x EXCEPT !.ctrl.step = TRUE]
  IN IF x.ctrl.paused THEN TogglePause(y, FALSE) ELSE y

-----------------------------------------------------------------------------
(* The application, the demuxer.                                           *)

Disturbed(g) == [g EXCEPT !.calm = 0]
PausedNow(g) ==
  IF ctrl.paused = ctrl'.paused THEN g
  ELSE [g EXCEPT !.pausedAt = Position', !.calm = 0,
                 !.played = IF ctrl'.paused THEN @ ELSE @ + MaxThreshold]

Others == UNCHANGED <<cfg, now, serial, pictq, last, decoder, sound, seekPos, due, stall>>

TogglePauseCall ==
  /\ left.toggles > 0 /\ left' = [left EXCEPT !.toggles = @ - 1]
  /\ Becomes(SetPause(State, ~ctrl.pauseReq))
  /\ Others
  /\ ghost' = PausedNow(Disturbed(ghost))

\* A queue runs empty, and the decoder with it; it fills again.
BufferingStarts ==
  /\ ~ctrl.buffering /\ pictq = <<>> /\ stall > 0
  /\ Becomes(SetBuffering(State, TRUE))
  /\ UNCHANGED left /\ Others
  /\ ghost' = PausedNow(Disturbed(ghost))

BufferingEnds ==
  /\ ctrl.buffering
  /\ Becomes(SetBuffering(State, FALSE))
  /\ stall' = 0
  /\ UNCHANGED <<cfg, now, serial, pictq, last, decoder, sound, seekPos, due, left>>
  /\ ghost' = PausedNow(Disturbed(ghost))

Stalls ==
  /\ stall = 0 /\ left.stalls > 0 /\ left' = [left EXCEPT !.stalls = @ - 1]
  /\ stall' = 3 * Frame
  /\ ghost' = Disturbed(ghost)
  /\ UNCHANGED <<cfg, now, clk, serial, pictq, last, timer, decoder, sound, ctrl,
                 seekPos, due>>

\* read_thread carries out a seek: the queues are flushed, the external clock
\* is set (with serial 0), and a paused player shows one picture.
Seek ==
  /\ left.seeks > 0 /\ left' = [left EXCEPT !.seeks = @ - 1]
  /\ \E target \in Targets :
       LET s == serial + 1
           x == SetBuffering(State, TRUE)
           y == [x EXCEPT !.clk = set(@, "ext", target, 0)]
       IN /\ serial' = s
          /\ Becomes(IF y.ctrl.pauseReq THEN Step(y) ELSE y)
          /\ decoder' = [next |-> target, drops |-> 0]
          /\ sound' = [sound EXCEPT !.next = target]
          /\ seekPos' = target
          /\ ghost' = [Disturbed(ghost) EXCEPT !.played = Frame, !.from = target,
                                               !.pausedAt = NaN]
  /\ stall' = 0
  /\ UNCHANGED <<cfg, now, pictq, last, due>>

-----------------------------------------------------------------------------
(* Decoding, sound and pictures.                                           *)

\* get_video_frame drops a late picture, framedrop of them in a row.
Late ==
  /\ cfg.framedrop > 0 \/ (cfg.framedrop # 0 /\ get_master_sync_type # "vid")
  /\ ~IsNaN(get_master_clock) /\ decoder.next < get_master_clock
  /\ clk["vid"].serial = serial
Decode ==
  /\ Len(pictq) < 2 /\ stall = 0
  /\ IF Late /\ decoder.drops + 1 <= cfg.framedrop
     THEN /\ decoder' = [next |-> decoder.next + Frame, drops |-> decoder.drops + 1]
          /\ ghost' = [ghost EXCEPT !.dropped = ghost.calm]
          /\ UNCHANGED pictq
     ELSE /\ decoder' = [next |-> decoder.next + Frame,
                         drops |-> IF Late THEN 0 ELSE decoder.drops]
          /\ pictq' = Append(pictq, [pts |-> decoder.next, serial |-> serial])
          /\ UNCHANGED ghost
  /\ UNCHANGED <<cfg, now, clk, serial, last, timer, sound, ctrl, seekPos, due,
                 stall, left>>

\* sdl_audio_callback: a Period of sound, or silence when audio_decode_frame
\* has none (paused, stepping, stalled); the clock is set either way.
AudioCallback ==
  /\ "audio" \in due
  /\ LET silent == ctrl.paused \/ ctrl.step \/ stall > 0
         snd == IF silent THEN sound
                ELSE [clock |-> sound.next + Period, serial |-> serial,
                      next |-> sound.next + Period]
     IN /\ sound' = snd
        /\ clk' = IF IsNaN(snd.clock) THEN clk
                  ELSE follow(set(clk, "aud", snd.clock - Latency, snd.serial),
                              "aud", serial)
  /\ due' = due \ {"audio"}
  /\ UNCHANGED <<cfg, now, serial, pictq, last, timer, decoder, ctrl, seekPos,
                 stall, ghost, left>>

\* vp_duration
duration(vp, next) ==
  IF vp.serial # next.serial THEN 0
  ELSE IF next.pts - vp.pts <= 0 THEN Frame ELSE next.pts - vp.pts

\* A wrong compute_target_delay: it hurries a picture that is early.
target_delayBackwards(delay) ==
  LET diff == get_master_clock - get(clk, "vid", serial)
  IN IF get_master_sync_type = "vid" \/ IsNaN(get_master_clock) \/ IsNaN(get(clk, "vid", serial))
     THEN delay
     ELSE IF diff <= 0 - MinThreshold THEN larger(0, delay + diff)
     ELSE IF diff >= MinThreshold THEN 2 * delay
     ELSE delay

\* compute_target_delay
target_delay(delay) ==
  LET master == get_master_clock
      video == get(clk, "vid", serial)
      diff == video - master
      threshold == larger(MinThreshold, smaller(MaxThreshold, delay))
  IN IF get_master_sync_type = "vid" \/ IsNaN(master) \/ IsNaN(video) THEN delay
     ELSE IF diff <= 0 - threshold THEN larger(0, delay + diff)
     ELSE IF diff >= threshold /\ delay > DupThreshold THEN delay + diff
     ELSE IF diff >= threshold THEN 2 * delay
     ELSE delay

\* frame_queue_next; before the first picture the last one is the next.
lastvp == IF last.serial = 0 - 1 THEN Head(pictq) ELSE last
NextPicture == pictq' = Tail(pictq) /\ last' = Head(pictq)

\* video_refresh, with the loop of video_refresh_thread, which leaves a paused
\* player alone.  "retry" leaves the thread due.
RefreshIdle ==
  /\ "video" \in due
  /\ ctrl.paused \/ pictq = <<>>
  /\ due' = due \ {"video"}
  /\ UNCHANGED <<cfg, now, clk, serial, pictq, last, timer, decoder, sound, ctrl,
                 seekPos, stall, ghost, left>>

RefreshOld ==
  /\ "video" \in due /\ ~ctrl.paused /\ pictq # <<>>
  /\ Head(pictq).serial # serial
  /\ NextPicture
  /\ UNCHANGED <<cfg, now, clk, serial, timer, decoder, sound, ctrl, seekPos,
                 due, stall, ghost, left>>

\* The picture at the head, its time, and whether it is too late for it
\* (frame dropping needs a later picture).
vpTimer == IF lastvp.serial # Head(pictq).serial THEN now ELSE smaller(timer, now)
vpDelay == target_delay(duration(lastvp, Head(pictq)))
newTimer ==
  LET t == vpTimer + vpDelay
  IN IF vpDelay > 0 /\ now - t > MaxThreshold THEN now ELSE t
TooLate ==
  /\ Len(pictq) > 1 /\ ~ctrl.step
  /\ cfg.framedrop > 0 \/ (cfg.framedrop # 0 /\ get_master_sync_type # "vid")
  /\ now > newTimer + duration(Head(pictq), pictq[2])

\* update_video_pts
ShownClock ==
  follow(set(clk, "vid", Head(pictq).pts, Head(pictq).serial), "vid", serial)

RefreshWaits ==
  /\ "video" \in due /\ ~ctrl.paused /\ pictq # <<>>
  /\ Head(pictq).serial = serial
  /\ now < vpTimer + vpDelay
  /\ timer' = vpTimer
  /\ due' = due \ {"video"}
  /\ UNCHANGED <<cfg, now, clk, serial, pictq, last, decoder, sound, ctrl,
                 seekPos, stall, ghost, left>>

RefreshDrops ==
  /\ "video" \in due /\ ~ctrl.paused /\ pictq # <<>>
  /\ Head(pictq).serial = serial
  /\ now >= vpTimer + vpDelay /\ TooLate
  /\ timer' = newTimer /\ clk' = ShownClock
  /\ NextPicture
  /\ ghost' = [ghost EXCEPT !.dropped = ghost.calm]
  /\ UNCHANGED <<cfg, now, serial, decoder, sound, ctrl, seekPos, due, stall, left>>

RefreshShows ==
  /\ "video" \in due /\ ~ctrl.paused /\ pictq # <<>>
  /\ Head(pictq).serial = serial
  /\ now >= vpTimer + vpDelay /\ ~TooLate
  /\ NextPicture
  /\ LET x == [clk |-> ShownClock, timer |-> newTimer,
               ctrl |-> [ctrl EXCEPT !.step = FALSE]]
     IN Becomes(IF ctrl.step THEN UpdatePause(x) ELSE x)
  /\ due' = due \ {"video"}
  /\ UNCHANGED <<cfg, now, serial, decoder, sound, seekPos, stall, left>>
  /\ ghost' = PausedNow(ghost)

Refresh == RefreshIdle \/ RefreshOld \/ RefreshWaits \/ RefreshDrops \/ RefreshShows

\* Time goes on when everybody has run and the decoder has done what it can.
Tick ==
  /\ now < Horizon /\ due = {} /\ (Len(pictq) = 2 \/ stall > 0)
  /\ now' = now + 1
  /\ due' = {"video"} \cup
            (IF cfg.sound /\ ctrl.aout /\ (now + 1) % Period = 0 THEN {"audio"} ELSE {})
  /\ stall' = larger(0, stall - 1)
  /\ ghost' = [ghost EXCEPT !.calm = IF ctrl.paused \/ stall > 0 THEN 0 ELSE @ + 1,
                            !.played = IF ctrl.paused THEN @ ELSE @ + 1]
  /\ UNCHANGED <<cfg, clk, serial, pictq, last, timer, decoder, sound, ctrl,
                 seekPos, left>>

Init ==
  /\ cfg \in [sound : BOOLEAN, master : {"audio", "video", "external"},
              framedrop : FrameDrops]
  /\ cfg.sound <=> cfg.master = "audio"
  /\ now = 0 /\ serial = 1 /\ seekPos = 0 /\ stall = 0
  /\ clk = [c \in {"vid", "aud", "ext"} |->
              [pts |-> NaN, updated |-> 0, serial |-> 0 - 1, paused |-> FALSE]]
  /\ pictq = <<>> /\ last = [pts |-> NaN, serial |-> 0 - 1]
  /\ timer = 0 /\ decoder = [next |-> 0, drops |-> 0]
  /\ sound = [clock |-> NaN, serial |-> 0 - 1, next |-> 0]
  /\ ctrl = [paused |-> FALSE, pauseReq |-> FALSE, buffering |-> FALSE,
             step |-> FALSE, aout |-> TRUE]
  /\ due = {}
  /\ ghost = [calm |-> 0, dropped |-> 0, played |-> 0, from |-> 0, pausedAt |-> NaN]
  /\ left \in Budgets

Next ==
  \/ TogglePauseCall \/ BufferingStarts \/ BufferingEnds \/ Stalls
  \/ Seek \/ Decode \/ AudioCallback \/ Refresh \/ Tick

Spec == Init /\ [][Next]_vars

-----------------------------------------------------------------------------
(* Properties.                                                             *)

\* The time after which a disturbance must be over.
Settle == 3 * Frame + MaxThreshold

\* Some time after the last pause, seek, step or stall, the picture shown is
\* where the master clock is, whatever happened before.
InSync ==
  ghost.calm > Settle /\ due = {} /\ ~IsNaN(get_master_clock) =>
    distance(get(clk, "vid", serial), get_master_clock) <= MinThreshold + Frame

\* By then no picture is dropped any more.
CalmKeepsPictures == ghost.dropped <= Settle

\* A paused player stays where it is, but for one callback that the device had
\* already asked for.
PauseHolds ==
  ctrl.paused /\ ~ctrl.step /\ ~IsNaN(ghost.pausedAt) /\ ~IsNaN(get_master_clock) =>
    distance(Position, ghost.pausedAt) <= Period + Latency

\* The position never runs ahead of the time played since the start or the
\* last seek: no sequence of pauses, steps, stalls and bufferings adds more to
\* it than the MaxThreshold of pictures that a resumed player catches up with
\* (toggle_pause_l has refreshed the video clock before frame_timer is moved).
NeverAhead == Position <= ghost.from + ghost.played + Frame

\* Resuming goes on from the position of the pause.
ResumesInPlaceStep ==
  ctrl.paused /\ ~ctrl'.paused /\ serial' = serial => Position' = Position
ResumesInPlace == [][ResumesInPlaceStep]_vars
=============================================================================
