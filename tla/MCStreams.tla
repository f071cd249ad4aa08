------------------------------ MODULE MCStreams ------------------------------
(***************************************************************************)
(* What happens between the demuxer and the screen, for TLC: the streams   *)
(* of a file (Streams: an audio file with one and with two tracks, video   *)
(* with and without audio), Buffering, which decides when the player       *)
(* waits, and the way of the sound to the output (AudioPath).  "which"     *)
(* says which of them an instance runs; the others stay as they begin.     *)
(***************************************************************************)
EXTENDS Streams

CONSTANTS a1, a2, v, other, target

MCTracks == {a1, a2}
MCVideo  == v
Case(streams, length, seeks, switches, errors, drops) ==
  [streams |-> streams, length |-> length, seeks |-> seeks,
   switches |-> switches, errors |-> errors, drops |-> drops]
MCScenarios ==
  {Case({a1, a2}, 1, 1, 1, 0, 0), Case({a1, a2}, 2, 0, 1, 0, 0),
   Case({a1, a2}, 1, 0, 2, 0, 0),
   Case({a1}, 2, 1, 0, 1, 0),     Case({v}, 2, 1, 0, 0, 1),
   Case({v}, 2, 0, 0, 1, 1),      Case({a1, v}, 1, 0, 0, 0, 0)}

VARIABLES
  which,
  \* Buffering
  buFile, buQueue, buDec, buRead, buCached, mark, on, high, buShown, late, buSeeks,
  \* AudioPath
  opening, setup, soDec, soSerial, frames, conv, buf, soClock, soCb, rate,
  soPaused, soAbort, heard, raw, soLeft

Packets(audio, video) == [a |-> audio, v |-> video]
Buffer == INSTANCE Buffering WITH
  Files <- {Packets(1, 5), Packets(2, 2), Packets(0, 2)}, Marks <- <<1, 2, 3>>,
  Bytes <- 4, Full <- 5, MinMin <- 2, PlayMin <- 4, Interval <- 2, Room <- 1,
  MaxSeeks <- 1, file <- buFile, q <- buQueue, dec <- buDec, rd <- buRead,
  cached <- buCached, shown <- buShown, seeks <- buSeeks

Parameters(channels, freq) == [channels |-> channels, freq |-> freq]
Opening(wanted, accepted) == [wanted |-> wanted, accepted |-> accepted]
Budget(s, p, r, f) == [seeks |-> s, pauses |-> p, rates |-> r, failures |-> f]
Sound == INSTANCE AudioPath WITH
  Setups <- {[master |-> TRUE, waits |-> TRUE], [master |-> FALSE, waits |-> FALSE]},
  Openings <- {Opening(Parameters(7, 48), {}),
               Opening(Parameters(3, 50), {Parameters(6, 44)}),
               Opening(Parameters(2, 44), {Parameters(2, 44)})},
  Formats <- {other, target}, Target <- target, Size <- 2, Silence <- 1,
  Requests <- {3}, AvgNb <- 1, QueueSize <- 1, MaxFrames <- 2,
  Budgets <- {Budget(1, 1, 0, 0), Budget(0, 0, 2, 0), Budget(0, 0, 0, 1)},
  dec <- soDec, serial <- soSerial, clock <- soClock, cb <- soCb,
  paused <- soPaused, abort <- soAbort, left <- soLeft

streamVars == <<file, q, ring, dec, rd, cb, app, abortReq, seekVars, trackVars,
                playVars, boundVars>>
buVars == <<buFile, buQueue, buDec, buRead, buCached, mark, on, high, buShown, late,
            buSeeks>>
soVars == <<opening, setup, soDec, soSerial, frames, conv, buf, soClock, soCb, rate,
            soPaused, soAbort, heard, raw, soLeft>>
allVars == <<which, streamVars, buVars, soVars>>

MCInit ==
  /\ which \in {"streams", "buffering", "sound"}
  /\ Init /\ Buffer!Init /\ Sound!Init
  /\ which # "streams" => file = [streams |-> {a1, v}, length |-> 1] /\ audioq = a1
  /\ which # "buffering" => buFile = Packets(0, 2)
  /\ which # "sound" =>
       opening.wanted.freq = 44 /\ setup.master /\ soLeft = Budget(1, 1, 0, 0)

StreamsStep(A) == which = "streams" /\ A /\ UNCHANGED <<which, buVars, soVars>>
BufferStep(A) == which = "buffering" /\ A /\ UNCHANGED <<which, streamVars, soVars>>
SoundStep(A) == which = "sound" /\ A /\ UNCHANGED <<which, streamVars, buVars>>

MCNext == StreamsStep(Next) \/ BufferStep(Buffer!Next) \/ SoundStep(Sound!Next)

MCSpec == MCInit /\ [][MCNext]_allVars

\* The fairness of each component.  As one component runs, conditions of different
\* components are stated together.
MCFairSpec ==
  /\ MCSpec
  /\ WF_allVars(StreamsStep(DecoderStep("A")) \/ BufferStep(Buffer!DecoderStep("a")))
  /\ WF_allVars(StreamsStep(DecoderStep("V")) \/ BufferStep(Buffer!DecoderStep("v")))
  /\ WF_allVars(StreamsStep(ReadStep) \/ BufferStep(Buffer!ReadStep))
  /\ WF_allVars(\/ StreamsStep(CallbackStep) \/ BufferStep(Buffer!PlayStep("a"))
                \/ SoundStep(Sound!SoundStep))
  /\ WF_allVars(StreamsStep(Refresh) \/ BufferStep(Buffer!PlayStep("v")))
  /\ WF_allVars(StreamsStep(AppGoesOn) \/ SoundStep(Sound!FlagRate))

-----------------------------------------------------------------------------
\* The properties, each explained where the component states it; those of Streams
\* are checked by their own names.

\* Streams: a decoder is fed by the stream its codec was opened for, but for the
\* track that was opened while none was.  Buffering: full queues let the player
\* go on.  AudioPath: the output is opened when it can be, plays sound in its own
\* format, and the clock follows what was given to it.
StreamsSound ==
  /\ TypeOK /\ FedByItsStream
  /\ Buffer!TypeOK /\ Buffer!OnlyLateStarves
  /\ Sound!TypeOK /\ Sound!OpensWhatItCan /\ Sound!Converted /\ Sound!ClockTrue

\* Buffering: the mark falls only by a seek, and data ends the buffering only if
\* every stream has some (ff_ffplay.c:5685-5704).
MarkFalls == [][Buffer!MarkStep]_allVars

\* Closing the streams ends, and a seek is shown or overtaken; a file is played to
\* its end however often the player has to buffer; a rate that was set is applied.
Owed ==
  \/ which = "streams" /\ abortReq /\ ~(app.pc = "closed" \/ q[Video].locked)
  \/ which = "buffering" /\ ~Buffer!Played
  \/ which = "sound" /\ Sound!Owing
StreamsProgress == (Owed ~> ~Owed) /\ SeekIsShown
=============================================================================
