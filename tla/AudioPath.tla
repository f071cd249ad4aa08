------------------------------ MODULE AudioPath -----------------------------
(***************************************************************************)
(* The way of the sound through ff_ffplay.c: audio_open finds parameters   *)
(* that the output accepts; then the output calls sdl_audio_callback for   *)
(* so many bytes, which takes frames with audio_decode_frame, converts     *)
(* them when their format is not the one of the output, fills up with      *)
(* silence, and sets the audio clock.  The decoder thread fills the frame  *)
(* queue; the application seeks, pauses and sets the playback rate.        *)
(*                                                                         *)
(* Positions are counted in bytes of the output: frame k of a segment is   *)
(* the bytes after (k - 1) * Size up to k * Size.                          *)
(***************************************************************************)
EXTENDS Integers, Sequences, FiniteSets

CONSTANTS Setups,      \* [master, waits]
          Openings,    \* [wanted, accepted]: the parameters [channels, freq] of
                       \* the stream, and those the output accepts
          Formats, Target, \* formats of frames; that of the output
          None,        \* no format
          Size,        \* bytes of a frame
          Silence,     \* SDL_AUDIO_MIN_BUFFER_SIZE
          Requests,    \* how many bytes the output asks for
          AvgNb,       \* AUDIO_DIFF_AVG_NB
          QueueSize,   \* the size of the frame queue
          MaxFrames,   \* frames of a segment
          Budgets      \* how many seeks, pauses, rates and failures may come

VARIABLES opening,  \* audio_open: its state, what it tries and what it was asked
          setup,    \* is the audio clock the master, and does an empty queue block
          dec,      \* auddec: its serial and how many frames of it were decoded
          serial,   \* audioq->serial
          frames,   \* sampq
          conv,     \* audio_src, swr_ctx and audio_diff_avg_count
          buf,      \* audio_buf: what is in it, its size and index
          clock,    \* audio_clock with its serial, and audclk
          cb,       \* the callback and how many bytes it still has to give
          rate,     \* pf_playback_rate, its flag, and the rate of the output
          paused, abort,
          heard,    \* the last byte of sound that was given, with its serial
          raw,      \* sound was given in a format that is not the output's
          left      \* what is left of a budget

vars == <<opening, setup, dec, serial, frames, conv, buf, clock, cb, rate,
          paused, abort, heard, raw, left>>
streamVars == <<setup, dec, serial, frames, conv, buf, clock, cb, rate,
                paused, heard, raw, left>>

Rates == <<0, 44, 48>>  \* next_sample_rates, in kHz

NoBuffer == [kind |-> "silence", serial |-> 0, end |-> 0, fmt |-> None,
             size |-> 0, index |-> 0]

Init ==
  /\ \E o \in Openings :
       opening = [pc |-> "try", wanted |-> o.wanted, accepted |-> o.accepted,
                  try |-> o.wanted,
                  idx |-> Cardinality({i \in DOMAIN Rates : Rates[i] < o.wanted.freq})]
  /\ setup \in Setups
  /\ dec = [serial |-> 0, done |-> 0] /\ serial = 1 /\ frames = <<>>
  /\ conv = [src |-> Target, swr |-> None, count |-> 0, broken |-> FALSE]
  /\ buf = NoBuffer /\ cb = [pc |-> "idle", len |-> 0]
  /\ clock = [end |-> 0, serial |-> 0, pts |-> 0, ptsSerial |-> 0]
  /\ rate = [set |-> 1, flag |-> FALSE, applied |-> 1, setting |-> FALSE]
  /\ paused = FALSE /\ abort = FALSE /\ heard = [serial |-> 0, pos |-> 0] /\ raw = FALSE
  /\ left \in Budgets

-----------------------------------------------------------------------------
\* audio_open

\* Mutant: six channels come after six.
LessChannelsLoops(n) == <<0, 1, 6, 2, 6, 6, 6>>[IF n > 7 THEN 7 ELSE n]

\* next_nb_channels
LessChannels(n) == <<0, 1, 6, 2, 6, 4, 6>>[IF n > 7 THEN 7 ELSE n]

\* Mutant: the channels of the last attempt are kept for the next rate.
NextTryKeeps ==
  LET c == LessChannels(opening.try.channels) IN
  opening' = CASE c > 0 -> [opening EXCEPT !.try.channels = c]
               [] Rates[opening.idx] > 0 ->
                    [opening EXCEPT !.try.freq = Rates[opening.idx], !.idx = @ - 1]
               [] OTHER -> [opening EXCEPT !.pc = "failed"]

\* First fewer channels are tried, then lower rates with the channels wanted.
NextTry ==
  LET c == LessChannels(opening.try.channels) IN
  opening' = CASE c > 0 -> [opening EXCEPT !.try.channels = c]
               [] c = 0 /\ Rates[opening.idx] > 0 ->
                    [opening EXCEPT !.try = [channels |-> opening.wanted.channels,
                                             freq |-> Rates[opening.idx]],
                                    !.idx = @ - 1]
               [] OTHER -> [opening EXCEPT !.pc = "failed"]

Open ==
  /\ opening.pc = "try"
  /\ IF opening.try \in opening.accepted
     THEN opening' = [opening EXCEPT !.pc = "open"]
     ELSE IF abort THEN opening' = [opening EXCEPT !.pc = "failed"] ELSE NextTry
  /\ UNCHANGED <<streamVars, abort>>

-----------------------------------------------------------------------------
\* The decoder thread and the application.

Running == opening.pc = "open" /\ ~abort

\* The flush marker; the frames of the old segment stay in the queue.
DecodeFlush ==
  /\ Running /\ dec.serial # serial
  /\ dec' = [serial |-> serial, done |-> 0]
  /\ UNCHANGED <<opening, setup, serial, frames, conv, buf, clock, cb, rate,
                 paused, abort, heard, raw, left>>

Decode(fmt) ==
  /\ Running /\ dec.serial # 0 /\ dec.done < MaxFrames /\ Len(frames) < QueueSize
  /\ dec' = [dec EXCEPT !.done = @ + 1]
  /\ frames' = Append(frames, [fmt |-> fmt, serial |-> dec.serial,
                               end |-> (dec.done + 1) * Size])
  /\ UNCHANGED <<opening, setup, serial, conv, buf, clock, cb, rate, paused,
                 abort, heard, raw, left>>

Seek ==
  /\ Running /\ left.seeks > 0
  /\ left' = [left EXCEPT !.seeks = @ - 1]
  /\ serial' = serial + 1
  /\ UNCHANGED <<opening, setup, dec, frames, conv, buf, clock, cb, rate,
                 paused, abort, heard, raw>>

Pause ==
  /\ Running /\ left.pauses > 0
  /\ left' = [left EXCEPT !.pauses = @ - 1]
  /\ paused' = ~paused
  /\ UNCHANGED <<opening, setup, dec, serial, frames, conv, buf, clock, cb,
                 rate, abort, heard, raw>>

\* ffp_set_playback_rate: the rate, then the flag, without a lock.
SetRate ==
  /\ Running /\ left.rates > 0 /\ ~rate.setting
  /\ left' = [left EXCEPT !.rates = @ - 1]
  /\ rate' = [rate EXCEPT !.set = @ + 1, !.setting = TRUE]
  /\ UNCHANGED <<opening, setup, dec, serial, frames, conv, buf, clock, cb,
                 paused, abort, heard, raw>>
FlagRate ==
  /\ rate.setting
  /\ rate' = [rate EXCEPT !.flag = TRUE, !.setting = FALSE]
  /\ UNCHANGED <<opening, setup, dec, serial, frames, conv, buf, clock, cb,
                 paused, abort, heard, raw, left>>

Abort ==
  /\ ~abort /\ abort' = TRUE
  /\ UNCHANGED <<opening, streamVars>>

-----------------------------------------------------------------------------
\* sdl_audio_callback

CallbackGoto(pc) == cb' = [cb EXCEPT !.pc = pc]

Callback(len) ==
  /\ Running /\ cb.pc = "idle"
  /\ cb' = [pc |-> IF rate.flag THEN "rate" ELSE "fill", len |-> len]
  /\ rate' = [rate EXCEPT !.flag = FALSE]
  /\ UNCHANGED <<opening, setup, dec, serial, frames, conv, buf, clock, paused,
                 abort, heard, raw, left>>

\* Mutant: the flag is only cleared when the rate was applied.
ApplyRateLate ==
  /\ cb.pc = "rate"
  /\ rate' = [rate EXCEPT !.applied = rate.set - (IF rate.flag THEN 1 ELSE 0),
                          !.flag = FALSE]
  /\ CallbackGoto("fill")
  /\ UNCHANGED <<opening, setup, dec, serial, frames, conv, buf, clock, paused,
                 abort, heard, raw, left>>

\* The flag was cleared before: a rate set meanwhile is flagged again.
ApplyRate ==
  /\ cb.pc = "rate"
  /\ rate' = [rate EXCEPT !.applied = rate.set]
  /\ CallbackGoto("fill")
  /\ UNCHANGED <<opening, setup, dec, serial, frames, conv, buf, clock, paused,
                 abort, heard, raw, left>>

\* audio_decode_frame has no sound: silence of a fixed size.
Silent ==
  /\ buf' = [NoBuffer EXCEPT !.size = Silence]
  /\ CallbackGoto("check")

Empty == cb.pc = "fill" /\ cb.len > 0 /\ buf.index >= buf.size

\* The player is paused, or no frame comes: on Apple's systems and Windows
\* after some time; elsewhere the callback waits until the player is aborted.
FrameMissing ==
  /\ Empty
  /\ paused \/ (frames = <<>> /\ (abort \/ ~setup.waits))
  /\ Silent
  /\ UNCHANGED <<opening, setup, dec, serial, frames, conv, clock, rate, paused,
                 abort, heard, raw, left>>

\* A frame of another segment is skipped.
SkipFrame ==
  /\ Empty /\ ~paused /\ frames # <<>> /\ Head(frames).serial # serial
  /\ frames' = Tail(frames)
  /\ UNCHANGED <<opening, setup, dec, serial, conv, buf, clock, cb, rate,
                 paused, abort, heard, raw, left>>

\* synchronize_audio: to follow another clock, samples are added or removed
\* once enough differences were measured; one too far off resets the count.
Differences == IF setup.master THEN {"none"} ELSE {"near", "off", "far"}
Measured(d) == CASE d = "none" -> conv.count
                 [] d = "far"  -> 0
                 [] OTHER -> IF conv.count < AvgNb THEN conv.count + 1 ELSE conv.count
Compensates(d) == d = "off" /\ conv.count = AvgNb

\* Mutant: the converter that is there is taken for every format.
NeedsConverterOnce(f, d) ==
  conv.swr = None /\ (f.fmt # conv.src \/ Compensates(d))

\* A frame of another format than the last needs another converter; so does
\* the first whose samples are compensated.
NeedsConverter(f, d) == f.fmt # conv.src \/ (Compensates(d) /\ conv.swr = None)

\* Mutant: the clock is that of the beginning of the frame.
PlayedFromStart(f, c) ==
  /\ buf' = [kind |-> "sound", serial |-> f.serial, end |-> f.end, size |-> Size,
             index |-> 0,
             fmt |-> IF c.swr = None THEN f.fmt
                     ELSE IF c.swr = f.fmt THEN Target ELSE None]
  /\ clock' = [clock EXCEPT !.end = f.end - Size, !.serial = f.serial]

\* The sound of the frame, converted if there is a converter; the clock of
\* its end.
Played(f, c) ==
  /\ buf' = [kind |-> "sound", serial |-> f.serial, end |-> f.end, size |-> Size,
             index |-> 0,
             fmt |-> IF c.swr = None THEN f.fmt
                     ELSE IF c.swr = f.fmt THEN Target ELSE None]
  /\ clock' = [clock EXCEPT !.end = f.end, !.serial = f.serial]

TakeFrame ==
  LET f == Head(frames) IN
  /\ Empty /\ ~paused /\ frames # <<>> /\ f.serial = serial
  /\ frames' = Tail(frames)
  /\ CallbackGoto("check")
  /\ \E d \in Differences :
       \/ /\ LET c == IF NeedsConverter(f, d)
                      THEN [conv EXCEPT !.src = f.fmt, !.swr = f.fmt, !.count = Measured(d)]
                      ELSE [conv EXCEPT !.count = Measured(d)]
             IN conv' = c /\ Played(f, c)
          /\ UNCHANGED left
       \/ \* The converter cannot be created: silence, and audio_src stays.
          /\ NeedsConverter(f, d) /\ left.failures > 0
          /\ left' = [left EXCEPT !.failures = @ - 1]
          /\ conv' = [conv EXCEPT !.swr = None, !.count = Measured(d), !.broken = TRUE]
          /\ buf' = [NoBuffer EXCEPT !.size = Silence]
          /\ UNCHANGED clock
  /\ UNCHANGED <<opening, setup, dec, serial, rate, paused, abort, heard, raw>>

\* There is something in the buffer.
KeepBuffer ==
  /\ cb.pc = "fill" /\ cb.len > 0 /\ buf.index < buf.size
  /\ CallbackGoto("check")
  /\ UNCHANGED <<opening, setup, dec, serial, frames, conv, buf, clock, rate,
                 paused, abort, heard, raw, left>>

Smaller(a, b) == IF a < b THEN a ELSE b

\* A seek the decoder has not seen: the buffer is given up, the output
\* flushed.  Otherwise bytes are copied.
Copy ==
  LET n == Smaller(cb.len, buf.size - buf.index) IN
  /\ cb.pc = "check"
  /\ IF dec.serial # serial
     THEN /\ buf' = [buf EXCEPT !.index = buf.size]
          /\ cb' = [pc |-> "clock", len |-> 0]
          /\ UNCHANGED <<heard, raw>>
     ELSE /\ buf' = [buf EXCEPT !.index = @ + n]
          /\ cb' = [pc |-> IF cb.len = n THEN "clock" ELSE "fill", len |-> cb.len - n]
          /\ IF buf.kind = "sound"
             THEN /\ heard' = [serial |-> buf.serial, pos |-> buf.end - buf.size + buf.index + n]
                  /\ raw' = (raw \/ buf.fmt # Target)
             ELSE UNCHANGED <<heard, raw>>
  /\ UNCHANGED <<opening, setup, dec, serial, frames, conv, clock, rate, paused,
                 abort, left>>

\* Mutant: what is left in the buffer counts as played.
SetClockAhead ==
  /\ cb.pc = "clock"
  /\ CallbackGoto("idle")
  /\ clock' = [clock EXCEPT !.pts = clock.end, !.ptsSerial = clock.serial]
  /\ UNCHANGED <<opening, setup, dec, serial, frames, conv, buf, rate, paused,
                 abort, heard, raw, left>>

\* The audio clock: the end of the last frame less what is still in the
\* buffer.
SetClock ==
  /\ cb.pc = "clock"
  /\ CallbackGoto("idle")
  /\ clock' = [clock EXCEPT !.pts = clock.end - (buf.size - buf.index),
                            !.ptsSerial = clock.serial]
  /\ UNCHANGED <<opening, setup, dec, serial, frames, conv, buf, rate, paused,
                 abort, heard, raw, left>>

CallbackStep ==
  \/ ApplyRate \/ FrameMissing \/ SkipFrame \/ TakeFrame \/ KeepBuffer \/ Copy \/ SetClock

SoundStep == Open \/ CallbackStep \/ \E n \in Requests : Callback(n)

Next ==
  \/ SoundStep \/ DecodeFlush \/ Seek \/ Pause \/ SetRate \/ FlagRate \/ Abort
  \/ \E fmt \in Formats : Decode(fmt)

\* A callback that was begun goes on, and the output calls again while the
\* player is not aborted; the application ends its call.
FairSpec ==
  /\ Init /\ [][Next]_vars
  /\ WF_vars(SoundStep)
  /\ WF_vars(FlagRate)

-----------------------------------------------------------------------------
TypeOK ==
  /\ opening.pc \in {"try", "open", "failed"} /\ opening.idx \in 0..Len(Rates)
  /\ Len(frames) <= QueueSize
  /\ conv.src \in Formats \cup {Target} /\ conv.swr \in Formats \cup {Target, None}
  /\ conv.count \in 0..AvgNb
  /\ buf.index \in 0..buf.size
  /\ cb.pc \in {"idle", "rate", "fill", "check", "clock"} /\ cb.len \in Nat

\* audio_open fails only when the output accepts none of the combinations:
\* the wanted channels or fewer, or six in place of an odd number, at the
\* wanted rate or a lower one of the list.  It never tries a higher rate,
\* and not the list's rates for a stream below them.
Below(n) == CASE n \in {7, 3, 5} \/ n > 7 -> {n, 6, 4, 2, 1}
              [] OTHER -> {m \in {6, 4, 2, 1} : m <= n}
Combinations ==
  [channels : Below(opening.wanted.channels),
   freq : {opening.wanted.freq} \cup {r \in {44, 48} : r < opening.wanted.freq}]
OpensWhatItCan ==
  /\ opening.try \in Combinations
  /\ opening.pc = "failed" /\ ~abort => Combinations \cap opening.accepted = {}

\* What is played is in the format of the output, whatever formats follow
\* each other and whether samples are compensated; unless a converter could
\* not be created: audio_src then still names the format before.
Converted == raw => conv.broken

\* Where the audio clock is valid it is not ahead of the last byte given to
\* the output, and it lags behind by at most the silence that is in the
\* buffer.
ClockTrue ==
  clock.ptsSerial = serial /\ cb.pc = "idle" =>
    /\ heard.serial = serial
    /\ clock.pts = heard.pos - (IF buf.kind = "silence" THEN buf.size - buf.index ELSE 0)

\* audio_open ends, and a rate that was set is applied, also when it was set
\* while the callback applied the one before; unless the callback waits for a
\* frame.
Waits == Empty /\ setup.waits /\ frames = <<>>
Owing ==
  \/ opening.pc = "try"
  \/ Running /\ rate.applied # rate.set /\ ~Waits
=============================================================================
