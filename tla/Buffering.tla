------------------------------ MODULE Buffering ------------------------------
(***************************************************************************)
(* Buffering: a decoder that finds its queue empty pauses the player, and  *)
(* read_thread lets it go on when enough is cached (ffp_check_buffering_l),*)
(* when the queues are full or when the file ends.  What is cached is      *)
(* measured against a high-water mark that grows with every check.         *)
(*                                                                         *)
(* A packet has size 2 and lasts 1, a null packet has size 1.  The queue   *)
(* of the audio, or without audio that of the video, is the indicator      *)
(* (buffer_indicator_queue).                                               *)
(***************************************************************************)
EXTENDS Integers

CONSTANTS
  Files,      \* the packets that the streams of a file have: [a |-> , v |-> ]
  Marks,      \* first, next and last high_water_mark_in_ms
  Bytes,      \* high_water_mark_in_bytes
  Full,       \* max_buffer_size
  MinMin,     \* MIN_MIN_FRAMES
  PlayMin,    \* PLAY_MIN_VIDEO_FRAMES
  Interval,   \* high_buffering_interval; 0: none
  Room,       \* frames a frame queue holds
  MaxSeeks

VARIABLES
  file,     \* the file
  q,        \* each queue: nb packets, and the null packet at its end
  dec,      \* each decoder: pc, finished; the frames it has queued
  rd,       \* read_thread: pc, the packets left in the file, is->eof
  cached,   \* stat.audio_cache.duration, stat.video_cache.duration
  mark,     \* current_high_water_mark_in_ms
  on,       \* is->buffering_on
  high,     \* is->high_buffering_count % Interval
  shown,    \* streams that have rendered their first frame
  late,     \* history: buffering was turned on when nobody would turn it off
  seeks

vars == <<file, q, dec, rd, cached, mark, on, high, shown, late, seeks>>

Streams == {s \in {"a", "v"} : file[s] > 0}
Indicator == IF "a" \in Streams THEN "a" ELSE "v"
First == Marks[1]
Nextm == Marks[2]
Last == Marks[3]
Least(S) == CHOOSE x \in S : \A y \in S : x <= y

TypeOK ==
  /\ q \in [{"a", "v"} -> [nb : 0..(Full + 2), null : BOOLEAN]]
  /\ dec \in [{"a", "v"} -> [pc : {"get", "dry", "block", "push"}, finished : BOOLEAN,
                             frames : 0..Room]]
  /\ rd.pc \in {"loop", "check", "completed"} /\ cached \in [{"a", "v"} -> 0..(Full + 2)]
  /\ mark \in First..Last /\ {on, late} \subseteq BOOLEAN /\ shown \subseteq Streams

Empty == [s \in {"a", "v"} |-> [nb |-> 0, null |-> FALSE]]
Init ==
  /\ file \in Files
  /\ q = Empty
  /\ dec = [s \in {"a", "v"} |-> [pc |-> "get", finished |-> FALSE, frames |-> 0]]
  /\ rd = [pc |-> "loop", left |-> file, eof |-> FALSE]
  /\ cached = [s \in {"a", "v"} |-> 0]
  /\ mark = First /\ on = FALSE /\ high = 0 /\ shown = {} /\ late = FALSE
  /\ seeks = MaxSeeks

SizeOf(s) == 2 * q[s].nb + (IF q[s].null THEN 1 ELSE 0)
Size == SizeOf("a") + SizeOf("v")
IsFull == Size > Full

-----------------------------------------------------------------------------
(* The decoders: packet_queue_get_or_buffering.                            *)

Take(s) ==
  /\ dec[s].pc \in {"get", "block"}
  /\ q[s].nb > 0 \/ q[s].null
  /\ IF q[s].nb > 0
     THEN /\ q' = [q EXCEPT ![s].nb = @ - 1]
          /\ dec' = [dec EXCEPT ![s].pc = "push"]
     ELSE /\ q' = [q EXCEPT ![s].null = FALSE]
          /\ dec' = [dec EXCEPT ![s].pc = "get", ![s].finished = TRUE]
  /\ UNCHANGED <<file, rd, cached, mark, on, high, shown, late, seeks>>

\* The queue is empty; what follows is not done under its lock.
FindsEmpty(s) ==
  /\ dec[s].pc = "get" /\ q[s].nb = 0 /\ ~q[s].null
  /\ dec' = [dec EXCEPT ![s].pc = IF s = Indicator /\ ~dec[s].finished THEN "dry" ELSE "block"]
  /\ UNCHANGED <<file, q, rd, cached, mark, on, high, shown, late, seeks>>

\* A decoder that is slow although the queues are full buffers only now and then.
Refused == 20 * Size > 19 * Full /\ Interval > 0 /\ high # 0

\* ffp_toggle_buffering(1, NO_DATA)
RunsDry(s) ==
  /\ dec[s].pc = "dry"
  /\ dec' = [dec EXCEPT ![s].pc = "block"]
  /\ on' = (on \/ ~Refused)
  /\ high' = IF 20 * Size > 19 * Full
             THEN IF Interval > 0 THEN (high + 1) % Interval ELSE high
             ELSE 0
  /\ late' = (late \/ (on' /\ ~on /\ rd.eof /\ IsFull))
  /\ UNCHANGED <<file, q, rd, cached, mark, shown, seeks>>

PushFrame(s) ==
  /\ dec[s].pc = "push" /\ dec[s].frames < Room
  /\ dec' = [dec EXCEPT ![s].pc = "get", ![s].frames = @ + 1]
  /\ UNCHANGED <<file, q, rd, cached, mark, on, high, shown, late, seeks>>

\* The audio callback and video_refresh_thread, unless the player is paused.
Play(s) ==
  /\ dec[s].frames > 0 /\ ~on
  /\ dec' = [dec EXCEPT ![s].frames = @ - 1]
  /\ shown' = shown \union {s}
  /\ UNCHANGED <<file, q, rd, cached, mark, on, high, late, seeks>>

-----------------------------------------------------------------------------
(* ffp_check_buffering_l                                                   *)

\* What the streams have cached together: the smaller duration that is not 0.
Durations == {cached[s] : s \in Streams} \ {0}
Enough(hwm) ==
  \/ q["v"].nb > PlayMin
  \/ IF Durations # {} THEN Least(Durations) >= hwm ELSE Size >= Bytes

\* Mutant: the mark is doubled without an end.
RaisedUnbounded(hwm) == IF hwm < Nextm THEN Nextm ELSE hwm * 2
Raised(hwm) == Least({IF hwm < Nextm THEN Nextm ELSE hwm * 2, Last})

\* Mutant: one stream with data is enough.
HasDataSomewhere == Size > 0
HasData ==
  /\ q[Indicator].nb > 0 \/ q[Indicator].null
  /\ \A s \in Streams : q[s].nb + (IF q[s].null THEN 1 ELSE 0) >= MinMin

\* The mark is `hwm' at first.
Check(hwm) ==
  /\ mark' = IF Enough(hwm) THEN Raised(hwm) ELSE hwm
  /\ on' = (on /\ ~(Enough(hwm) /\ HasData))

-----------------------------------------------------------------------------
(* read_thread                                                             *)

SeekStep ==
  /\ rd.pc \in {"loop", "completed"} /\ seeks > 0 /\ seeks' = seeks - 1
  /\ q' = Empty
  /\ dec' = [s \in {"a", "v"} |-> [pc |-> "get", finished |-> FALSE, frames |-> 0]]
  /\ rd' = [pc |-> "loop", left |-> file, eof |-> FALSE]
  /\ mark' = First /\ on' = TRUE /\ high' = 0
  /\ late' = FALSE
  /\ UNCHANGED <<file, cached, shown>>

\* Mutant: full queues let the player go on only at the end of the file.
FullStopsAtEnd == rd.eof
\* Full queues let the player go on, but not at the end of the file.
FullStops == ~rd.eof

QueuesFull ==
  /\ rd.pc = "loop" /\ IsFull /\ on /\ FullStops
  /\ on' = FALSE
  /\ UNCHANGED <<file, q, dec, rd, cached, mark, high, shown, late, seeks>>

\* A packet is put into its queue, and the statistics follow.
ReadPacket(s) ==
  /\ rd.pc = "loop" /\ ~IsFull /\ rd.left[s] > 0
  /\ q' = [q EXCEPT ![s].nb = @ + 1]
  /\ cached' = [c \in {"a", "v"} |-> q'[c].nb]
  /\ rd' = [pc |-> "check", left |-> [rd.left EXCEPT ![s] = @ - 1], eof |-> FALSE]
  /\ UNCHANGED <<file, dec, mark, on, high, shown, late, seeks>>

\* It is time to check; until both streams are shown, the first mark counts.
ReadChecks ==
  /\ rd.pc = "check"
  /\ rd' = [rd EXCEPT !.pc = "loop"]
  /\ Check(IF Streams \subseteq shown THEN mark ELSE First)
  /\ UNCHANGED <<file, q, dec, cached, high, shown, late, seeks>>
ReadChecksNot ==
  /\ rd.pc = "check"
  /\ rd' = [rd EXCEPT !.pc = "loop"]
  /\ UNCHANGED <<file, q, dec, cached, mark, on, high, shown, late, seeks>>

\* The end of the file is told to the decoders once, and stops buffering each time
\* it is met.
AtEnd == \A s \in Streams : rd.left[s] = 0
ReadEnd ==
  /\ rd.pc = "loop" /\ ~IsFull /\ AtEnd /\ (on \/ ~rd.eof)
  /\ q' = IF rd.eof THEN q
          ELSE [s \in {"a", "v"} |-> [q[s] EXCEPT !.null = s \in Streams]]
  /\ mark' = IF ~rd.eof /\ Enough(mark) THEN Raised(mark) ELSE mark
  /\ rd' = [rd EXCEPT !.eof = TRUE]
  /\ cached' = [c \in {"a", "v"} |-> q'[c].nb]
  /\ on' = FALSE
  /\ UNCHANGED <<file, dec, high, shown, late, seeks>>

Complete ==
  /\ rd.pc = "loop" /\ ~IsFull /\ ~on
  /\ \A s \in Streams : dec[s].finished /\ dec[s].frames = 0
  /\ rd' = [rd EXCEPT !.pc = "completed"]
  /\ UNCHANGED <<file, q, dec, cached, mark, on, high, shown, late, seeks>>

DecoderStep(s) ==
  s \in Streams /\ (Take(s) \/ FindsEmpty(s) \/ RunsDry(s) \/ PushFrame(s))
ReadStep ==
  \/ QueuesFull \/ ReadChecks \/ ReadChecksNot \/ ReadEnd \/ Complete
  \/ \E s \in Streams : ReadPacket(s)
PlayStep(s) == s \in Streams /\ Play(s)
Next ==
  \/ \E s \in Streams : DecoderStep(s) \/ PlayStep(s)
  \/ ReadStep \/ SeekStep
Spec == Init /\ [][Next]_vars
FairSpec ==
  /\ Spec /\ WF_vars(ReadStep)
  /\ \A s \in {"a", "v"} : WF_vars(DecoderStep(s)) /\ WF_vars(PlayStep(s))

-----------------------------------------------------------------------------
(* Properties.                                                             *)

\* A player whose queues are full is not left waiting for data at the end of the
\* file, unless the decoder had found its queue empty before the last packets came.
OnlyLateStarves == on /\ rd.eof /\ IsFull => late

\* The mark does not fall but by a seek or before the streams are shown, and
\* buffering ends on data only if every stream has some to decode.
MarkStep ==
  /\ mark' < mark => seeks' < seeks \/ ~(Streams \subseteq shown)
  /\ on /\ ~on' /\ rd.pc = "check" =>
       \A s \in Streams : q[s].nb + (IF q[s].null THEN 1 ELSE 0) >= MinMin

\* The file is played to its end, however often the player has to buffer.
Played == rd.pc = "completed" \/ late
=============================================================================
