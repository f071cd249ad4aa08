--------------------------------- MODULE Abr ---------------------------------
(***************************************************************************)
(* Adaptive streaming: the demuxer asks the player which of the programs   *)
(* to read (select_ideal_program_cb), and tells it when it is about to     *)
(* read another one (switch_ideal_stream_cb); the decoder finds out when   *)
(* the first packet of it arrives (ffp_playing_stream_changed).            *)
(*                                                                         *)
(* Program i has the video stream i, which is known once its playlist has  *)
(* been read.  The demuxer is external: it asks at the boundaries of its   *)
(* segments.  Time passes in ticks, a packet lasts one.                    *)
(***************************************************************************)
EXTENDS Integers, Sequences, FiniteSets

CONSTANTS
  Rates,     \* set of sequences: "variant_bitrate" of each program, 0 if unknown
  Bandwidths,\* what the application may set
  Options,   \* switch_ideal_stream_: [interval, duration, percentile]
  Ring,      \* the length of cache_size_history (10)
  MinCache,  \* packets that must be cached to switch at all (5)
  MaxCache,  \* packets at 0.95 of max_buffer_size
  MaxReads, MaxSamples, MaxTime, MaxSeeks

VARIABLES
  fixed,  \* [rate, opt]
  vs,     \* VideoState: stream, ideal, waiting, playing, switchedAt, startPos,
          \* hist, hidx, cached (stat.video_cache.duration)
  q,      \* the streams of the packets in the video queue
  clock,  \* [now, pos]
  band,   \* current_bandwidth
  demux,  \* pc, the program it reads, the streams it knows
  ghost,  \* samples: all cache sizes sampled; bw: the bandwidth of the selection
  left    \* [reads, seeks]

vars == <<fixed, vs, q, clock, band, demux, ghost, left>>

Programs == DOMAIN fixed.rate
None == -1

TypeOK ==
  /\ vs.stream \in Programs /\ vs.playing \in Programs \union {None}
  /\ vs.ideal \in Programs \union {None} /\ vs.hidx \in -1..(Ring - 1)
  /\ vs.hist \in [0..(Ring - 1) -> 0..MaxCache] /\ q \in Seq(Programs)
  /\ demux.pc \in {"read", "boundary", "load", "crashed"}
  /\ demux.known \subseteq Programs

Init ==
  /\ fixed \in [rate : Rates, opt : Options]
  /\ vs \in [stream : Programs, ideal : {None}, waiting : {FALSE}, playing : {None},
             switchedAt : {0}, startPos : {0}, hist : {[i \in 0..(Ring - 1) |-> 0]},
             hidx : {-1}, cached : {0}]
  /\ q = <<>> /\ clock = [now |-> 0, pos |-> 0]
  /\ band \in Bandwidths
  /\ demux = [pc |-> "read", program |-> vs.stream, known |-> {vs.stream}]
  /\ ghost = [samples |-> <<>>, bw |-> 0]
  /\ left = [reads |-> MaxReads, seeks |-> MaxSeeks]

-----------------------------------------------------------------------------
(* select_ideal_program_cb *)

Known == {i \in Programs : fixed.rate[i] > 0}
\* The loop over the programs: the first of the highest rates below the bandwidth,
\* or else the first of the lowest.
Target ==
  LET upto[n \in 0..Len(fixed.rate)] ==
        IF n = 0 THEN [max |-> 0, target |-> None, min |-> 0, least |-> None]
        ELSE LET b == upto[n - 1]  r == fixed.rate[n]
                 c == IF r > 0 /\ r < band /\ r > b.max
                      THEN [b EXCEPT !.max = r, !.target = n] ELSE b
             IN IF r > 0 /\ (c.min = 0 \/ c.min > r)
                THEN [c EXCEPT !.min = r, !.least = n] ELSE c
      all == upto[Len(fixed.rate)]
  IN IF all.target # None THEN all.target ELSE all.least

\* The loop over the history, from the newest sample back to one that is zero:
\* the sum of the samples, and how many they are.
Recent(v) ==
  LET back[n \in 0..Ring] ==
        IF n = 0 THEN [sum |-> 0, count |-> 0, more |-> TRUE]
        ELSE LET b == back[n - 1]  x == v.hist[(v.hidx - (n - 1) + Ring) % Ring]
             IN IF b.more /\ x > 0
                THEN [sum |-> b.sum + x, count |-> b.count + 1, more |-> TRUE]
                ELSE [b EXCEPT !.more = FALSE]
  IN back[Ring]

\* To a higher rate only if enough is cached.
Enough(v) ==
  LET o == fixed.opt
      r == Recent(v)
      threshold == IF r.count = 0 THEN 0
                   ELSE ((r.sum \div r.count) * o.percentile) \div 100
  IN \/ o.duration > 0 /\ v.cached > o.duration
     \/ o.percentile = 0
     \/ Len(q) >= threshold

Sampled ==
  [vs EXCEPT !.hidx = (@ + 1) % Ring, !.hist[(vs.hidx + 1) % Ring] = Len(q)]

\* Mutant: the packets of the stream before are not played first.
SettledAnyway ==
  /\ Len(q) >= MinCache
  /\ clock.now - vs.switchedAt >= fixed.opt.interval
  /\ clock.pos - vs.startPos >= fixed.opt.interval

\* The last switch has been played for a while, and the queue is not full.
Settled ==
  /\ Len(q) >= MinCache /\ Head(q) = vs.stream /\ Len(q) <= MaxCache
  /\ clock.now - vs.switchedAt >= fixed.opt.interval
  /\ clock.pos - vs.startPos >= fixed.opt.interval

Selects ==
  /\ demux.pc = "boundary"
  /\ LET t == Target
         higher == fixed.rate[vs.stream] < fixed.rate[t]
     IN IF ~Settled
        THEN vs' = Sampled /\ demux' = [demux EXCEPT !.pc = "read"]
        ELSE IF t = None
        THEN vs' = Sampled /\ demux' = [demux EXCEPT !.pc = "crashed"]
        ELSE IF t = vs.stream \/ (higher /\ ~Enough(Sampled))
        THEN vs' = Sampled /\ demux' = [demux EXCEPT !.pc = "read"]
        ELSE /\ vs' = [Sampled EXCEPT !.ideal = t, !.waiting = t \notin demux.known,
                                      !.switchedAt = clock.now]
             /\ demux' = [demux EXCEPT !.pc = "load"]
  /\ ghost' = [samples |-> Append(ghost.samples, Len(q)),
                bw |-> IF demux'.pc = "load" THEN band ELSE ghost.bw]
  /\ UNCHANGED <<fixed, q, clock, band, left>>

-----------------------------------------------------------------------------
(* The demuxer and the read thread.                                        *)

Boundary ==
  /\ demux.pc = "read" /\ Len(ghost.samples) < MaxSamples
  /\ demux' = [demux EXCEPT !.pc = "boundary"]
  /\ UNCHANGED <<fixed, vs, q, clock, band, ghost, left>>

\* The playlist of the program is read; the segments of the old one may go on.
Loads ==
  /\ demux.pc = "load"
  /\ demux' = [demux EXCEPT !.pc = "read", !.known = @ \union {vs.ideal}]
  /\ UNCHANGED <<fixed, vs, q, clock, band, ghost, left>>

\* Mutant: the stream stays what it was.
SwitchForgets ==
  /\ demux.pc = "read" /\ vs.ideal # None
  /\ vs' = [vs EXCEPT !.ideal = None, !.waiting = FALSE]
  /\ demux' = [demux EXCEPT !.program = vs.ideal]
  /\ UNCHANGED <<fixed, q, clock, band, ghost, left>>

\* switch_ideal_stream_cb
Switch ==
  /\ demux.pc = "read" /\ vs.ideal # None
  /\ vs' = [vs EXCEPT !.ideal = None, !.stream = vs.ideal, !.waiting = FALSE]
  /\ demux' = [demux EXCEPT !.program = vs.ideal]
  /\ UNCHANGED <<fixed, q, clock, band, ghost, left>>

\* A packet of a stream that is not the player's is thrown away.
Read ==
  /\ demux.pc = "read" /\ left.reads > 0 /\ Len(q) < MaxCache
  /\ q' = IF demux.program = vs.stream THEN Append(q, vs.stream) ELSE q
  /\ left' = [left EXCEPT !.reads = @ - 1]
  /\ UNCHANGED <<fixed, vs, clock, band, demux, ghost>>

Seek ==
  /\ left.seeks > 0 /\ demux.pc = "read"
  /\ left' = [left EXCEPT !.seeks = @ - 1]
  /\ q' = <<>> /\ clock' = [clock EXCEPT !.pos = 0]
  /\ UNCHANGED <<fixed, vs, band, demux, ghost>>

-----------------------------------------------------------------------------
(* The decoder: a packet of another stream makes it the one that plays.    *)

Plays ==
  /\ q # <<>>
  /\ q' = Tail(q)
  /\ vs' = [vs EXCEPT !.playing = Head(q), !.cached = Len(q) - 1,
              !.startPos = IF Head(q) = vs.playing THEN @ ELSE clock.pos]
  /\ clock' = [clock EXCEPT !.pos = @ + 1]
  /\ UNCHANGED <<fixed, band, demux, ghost, left>>

Tick ==
  /\ clock.now < MaxTime
  /\ clock' = [clock EXCEPT !.now = @ + 1]
  /\ UNCHANGED <<fixed, vs, q, band, demux, ghost, left>>

SetBandwidth ==
  /\ \E b \in Bandwidths \ {band} : band' = b
  /\ UNCHANGED <<fixed, vs, q, clock, demux, ghost, left>>

DemuxStep == Selects \/ Loads \/ Switch
Next == DemuxStep \/ Read \/ Boundary \/ Seek \/ Plays \/ Tick \/ SetBandwidth
Spec == Init /\ [][Next]_vars
FairSpec == Spec /\ WF_vars(DemuxStep) /\ WF_vars(Plays)

-----------------------------------------------------------------------------
(* Properties.                                                             *)

\* The program that is selected has the highest rate below the bandwidth, or the
\* lowest one if there is none.
SelectsBest ==
  vs.ideal # None =>
    LET below == {i \in Known : fixed.rate[i] < ghost.bw}
    IN IF below # {}
       THEN vs.ideal \in below /\ \A i \in below : fixed.rate[i] <= fixed.rate[vs.ideal]
       ELSE \A i \in Known : fixed.rate[vs.ideal] <= fixed.rate[i]

\* The ring of samples gives what the last of all samples would give: the sum of
\* the latest, at most Ring of them, that follow a sample that was zero.
HistoryRecent ==
  LET n == Len(ghost.samples)
      run == {k \in 1..Ring : k <= n /\ \A j \in 0..(k - 1) : ghost.samples[n - j] > 0}
      count == Cardinality(run)
      sum[k \in 0..count] == IF k = 0 THEN 0 ELSE sum[k - 1] + ghost.samples[n - k + 1]
  IN vs.hidx # -1 => Recent(vs).count = count /\ Recent(vs).sum = sum[count]

\* The queue holds packets of one switch at most, the old ones before the new.
OneSwitchQueued ==
  /\ Cardinality({q[i] : i \in DOMAIN q}) <= 2
  /\ \A i, j \in DOMAIN q : i < j /\ q[i] = vs.stream => q[j] = vs.stream

\* Programs of unknown rates alone end in programs[-1].
OnlyUnknownCrash == demux.pc = "crashed" => Known = {}

\* What is selected is read: nothing of the program is thrown away.
NothingThrownAway == demux.program = vs.stream
Switching == vs.ideal # None
=============================================================================
