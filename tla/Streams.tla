------------------------------ MODULE Streams ------------------------------
(***************************************************************************)
(* The elementary streams of a playing file (ff_ffplay.c): read_thread     *)
(* puts packets into the queues, the decoder threads turn them into frames *)
(* and the audio callback and video_refresh_thread play the frames, while  *)
(* the application seeks, selects audio tracks and closes the player.      *)
(*                                                                         *)
(* The medium is the positions 1..length of the file.  epoch counts the    *)
(* seeks carried out; packets and frames carry the epoch they were read    *)
(* in, which the code does not know: it only has serials.                  *)
(***************************************************************************)
EXTENDS Queues

CONSTANTS
  Tracks,           \* the audio tracks
  Video,            \* the video stream
  None,
  Scenarios,        \* the streams and the length a file may have, with the
                    \* number of seeks, track switches, failed reads and
                    \* packets dropped by cleartraffic (bounds)
  LateStart,        \* BOOLEAN: the streams start at a positive timestamp
  PacketBuffering,  \* BOOLEAN: ffp->packet_buffering
  CodecDelay,       \* frames a codec holds back before it returns one
  QueueCap          \* packets that make the queues full (bound)

ASSUME StreamsAssumption ==
  /\ Tracks # {} /\ Video \notin Tracks /\ None \notin Tracks \cup {Video}
  /\ Scenarios \subseteq
       [streams : (SUBSET (Tracks \cup {Video})) \ {{}}, length : Nat,
        seeks : Nat, switches : Nat, errors : Nat, drops : Nat]
  /\ PacketBuffering \in BOOLEAN /\ LateStart \in BOOLEAN
  /\ CodecDelay \in Nat /\ QueueCap \in Nat

VARIABLES
  file,        \* the file that is open: its streams and its length
  q,           \* the packet queue of every stream
  ring,        \* the frame queues: "A" is sampq, "V" is pictq
  dec,         \* the decoder threads: "A" is auddec, "V" is viddec
  audioq,      \* is->audioq, and with it is->sampq.pktq
  audioStream, \* is->audio_stream; None for -1
  rd,          \* read_thread: pc, eof, completed and the position it reads
  cb,          \* the audio callback: pc and the slot it was given
  app,         \* the thread of the application: pc, the selected track and
               \* whether a track was ever opened while none was open
  seekReq, seekPos, epoch,
  clock,       \* the position played last, or sought
  out,         \* what was played last in "A" and "V"
  stale,       \* tracks a seek was carried out without
  abortReq,    \* is->abort_request
  left,        \* how often the bounded actions may still happen
  mishap       \* a read failed or a packet was dropped

seekVars  == <<seekReq, seekPos, epoch, stale>>
trackVars == <<audioq, audioStream>>
playVars  == <<clock, out>>
boundVars == <<left, mishap>>
vars == <<file, q, ring, dec, rd, cb, app, abortReq, seekVars, trackVars,
          playVars, boundVars>>

MaxEpoch == CHOOSE n \in {s.seeks : s \in Scenarios} :
              \A s \in Scenarios : s.seeks <= n
Media == {"A", "V"}
Opened == file.streams
Ids   == Tracks \cup {Video}
Has(m) == IF m = "V" THEN Video \in Opened ELSE audioStream # None

FirstMarker == [kind |-> "flush", epoch |-> 0, pos |-> 0]
Marker   == [kind |-> "flush", epoch |-> epoch, pos |-> 0]
NullPkt  == [kind |-> "null", epoch |-> epoch, pos |-> 0]

\* decoder_init; src is the stream the codec was opened for.
Decoder(queue, src) ==
  [pc |-> "top", on |-> queue, src |-> src, pkt_serial |-> 0, finished |-> 0,
   codec |-> <<>>, drain |-> FALSE, pkt |-> None, frame |-> None]
NoDecoder == [Decoder(None, None) EXCEPT !.pc = "end"]

\* read_thread has opened the streams: the audio queues start at serial 1,
\* the video queue with a flush marker.
Init ==
  /\ \E s \in Scenarios :
       /\ file = [streams |-> s.streams, length |-> s.length]
       /\ left = [seeks |-> s.seeks, switches |-> s.switches,
                  errors |-> s.errors, drops |-> s.drops]
  /\ mishap = FALSE
  /\ audioq \in IF Opened \cap Tracks = {} THEN Tracks ELSE Opened \cap Tracks
  /\ audioStream = IF audioq \in Opened THEN audioq ELSE None
  /\ q = [s \in Ids |->
            IF s = Video
            THEN IF Video \in Opened THEN Start(NewQueue(TRUE), FALSE, FirstMarker)
                 ELSE NewQueue(TRUE)
            ELSE [NewQueue(FALSE) EXCEPT !.serial = IF s \in Opened THEN 1 ELSE 0]]
  /\ ring = [m \in Media |-> NewRing]
  /\ dec = [m \in Media |->
              IF m = "V" THEN IF Video \in Opened THEN Decoder(Video, Video) ELSE NoDecoder
              ELSE IF audioStream = None THEN NoDecoder
                   ELSE Decoder(audioq, audioq)]
  /\ rd = [pc |-> "loop", eof |-> FALSE, completed |-> FALSE, pos |-> 1, next |-> Opened]
  /\ cb = [pc |-> IF audioStream = None THEN "closed" ELSE "idle", slot |-> 0]
  /\ app = [pc |-> "idle", track |-> None, bare |-> FALSE]
  /\ seekReq = FALSE /\ seekPos = 1 /\ epoch = 0 /\ clock = 0
  /\ out = [m \in Media |-> None]
  /\ stale = {}
  /\ abortReq = FALSE

-----------------------------------------------------------------------------
\* The decoder threads: decoder_decode_frame and its callers.

DecGoto(m, pc) == dec' = [dec EXCEPT ![m].pc = pc]

\* Asks the codec for a frame as long as the serial of the queue is the one
\* being decoded; at the end of the drain the serial is finished.
Receive(m) ==
  LET d == dec[m]  queue == q[d.on]  IN
  /\ d.pc = "top"
  /\ \/ /\ queue.serial # d.pkt_serial
        /\ DecGoto(m, "get")
     \/ /\ queue.serial = d.pkt_serial /\ queue.abort
        /\ DecGoto(m, "end")
     \/ /\ queue.serial = d.pkt_serial /\ ~queue.abort
        /\ \/ /\ d.codec # <<>> /\ (d.drain \/ Len(d.codec) > CodecDelay)
              /\ dec' = [dec EXCEPT ![m].frame = Head(d.codec),
                                    ![m].codec = Tail(d.codec),
                                    ![m].pc    = "push"]
           \/ /\ d.codec = <<>> /\ d.drain
              /\ dec' = [dec EXCEPT ![m].finished = d.pkt_serial,
                                    ![m].drain = FALSE]
           \/ /\ Len(d.codec) <= CodecDelay /\ ~d.drain
              /\ DecGoto(m, "get")
  /\ UNCHANGED <<file, q, ring, rd, cb, app, abortReq, seekVars, trackVars,
                 playVars, boundVars>>

\* packet_queue_get_or_buffering: waits for a packet; with packet buffering
\* those of a finished serial are dropped.
GetPacket(m) ==
  LET d == dec[m]  queue == q[d.on]  IN
  /\ d.pc = "get" /\ ~queue.locked
  /\ \/ queue.abort /\ DecGoto(m, "end") /\ UNCHANGED q
     \/ /\ ~queue.abort /\ queue.pkts # <<>>
        /\ q' = [q EXCEPT ![d.on] = Get(queue)]
        /\ LET p == Head(queue.pkts)
               dropped == PacketBuffering /\ d.finished = p.serial
           IN  dec' = [dec EXCEPT ![m].pkt_serial = p.serial,
                                  ![m].pkt = IF dropped THEN None ELSE p,
                                  ![m].pc  = IF dropped THEN "get" ELSE "send"]
  /\ UNCHANGED <<file, ring, rd, cb, app, abortReq, seekVars, trackVars,
                 playVars, boundVars>>

\* A packet of an old serial is passed over; a marker empties the codec.
Send(m) ==
  LET d == dec[m]  IN
  /\ d.pc = "send"
  /\ dec' =
       IF q[d.on].serial # d.pkt_serial
       THEN [dec EXCEPT ![m].pc = "get", ![m].pkt = None]
       ELSE [dec EXCEPT
              ![m].pc = "top", ![m].pkt = None,
              ![m].codec    = CASE d.pkt.kind = "flush" -> <<>>
                                [] d.pkt.kind = "data" ->
                                     Append(@, [epoch |-> d.pkt.epoch, pos |-> d.pkt.pos])
                                [] OTHER -> @,
              ![m].drain    = CASE d.pkt.kind = "flush" -> FALSE
                                [] d.pkt.kind = "null"  -> TRUE
                                [] OTHER -> @,
              ![m].finished = IF d.pkt.kind = "flush" THEN 0 ELSE @]
  /\ UNCHANGED <<file, q, ring, rd, cb, app, abortReq, seekVars, trackVars,
                 playVars, boundVars>>

\* frame_queue_peek_writable and frame_queue_push: waits for a free slot
\* unless the packet queue is aborted.  sampq.pktq follows is->audioq.
PktqOf(m) == IF m = "A" THEN audioq ELSE Video

\* Mutant: a decoder waits for a free slot whether its queue is aborted or not.
PushFrameUninterrupted(m) ==
  LET d == dec[m]  IN
  /\ d.pc = "push" /\ ring[m].size < RingSize
  /\ ring' = [ring EXCEPT ![m] =
               Push(@, [serial |-> d.pkt_serial, epoch |-> d.frame.epoch,
                        pos |-> d.frame.pos, on |-> d.on])]
  /\ dec' = [dec EXCEPT ![m].pc = "top", ![m].frame = None]
  /\ UNCHANGED <<file, q, rd, cb, app, abortReq, seekVars, trackVars,
                 playVars, boundVars>>

PushFrame(m) ==
  LET d == dec[m]  IN
  /\ d.pc = "push"
  /\ \/ q[PktqOf(m)].abort /\ DecGoto(m, "end") /\ UNCHANGED ring
     \/ /\ ~q[PktqOf(m)].abort /\ ring[m].size < RingSize
        /\ ring' = [ring EXCEPT ![m] =
                     Push(@, [serial |-> d.pkt_serial, epoch |-> d.frame.epoch,
                              pos |-> d.frame.pos, on |-> d.on])]
        /\ dec' = [dec EXCEPT ![m].pc = "top", ![m].frame = None]
  /\ UNCHANGED <<file, q, rd, cb, app, abortReq, seekVars, trackVars,
                 playVars, boundVars>>

-----------------------------------------------------------------------------
\* The audio callback: audio_decode_frame, from the peek to the check of the
\* serial.  The frame stays in its slot, which is read again at the check.

Silent(queue) == queue.abort \/ queue.background \/ queue.recv_eof

Peek ==
  /\ cb.pc = "idle" /\ ~Silent(q[audioq]) /\ Remaining(ring["A"]) > 0
  /\ cb' = [pc |-> "next", slot |-> PeekIndex(ring["A"])]
  /\ UNCHANGED <<file, q, ring, dec, rd, app, abortReq, seekVars, trackVars,
                 playVars, boundVars>>

Advance ==
  /\ cb.pc = "next"
  /\ ring' = [ring EXCEPT !["A"] = NextFrame(@)]
  /\ cb' = [cb EXCEPT !.pc = "check"]
  /\ UNCHANGED <<file, q, dec, rd, app, abortReq, seekVars, trackVars,
                 playVars, boundVars>>

\* Mutant: the serial of the frame is not looked at.
PlayAudioUnchecked ==
  /\ cb.pc = "check"
  /\ cb' = [pc |-> "idle", slot |-> 0]
  /\ LET af == ring["A"].slots[cb.slot] IN
     IF af # NoFrame
     THEN out' = [out EXCEPT !["A"] = af] /\ clock' = af.pos
     ELSE UNCHANGED playVars
  /\ UNCHANGED <<file, q, ring, dec, rd, app, abortReq, seekVars, trackVars,
                 boundVars>>

\* Played, unless its serial or that of the decoder is not the queue's.
PlayAudio ==
  LET af == ring["A"].slots[cb.slot]
      fresh == /\ af # NoFrame /\ af.serial = q[audioq].serial
               /\ dec["A"].pkt_serial = q[audioq].serial
  IN
  /\ cb.pc = "check"
  /\ cb' = [pc |-> "idle", slot |-> 0]
  /\ IF fresh
     THEN out' = [out EXCEPT !["A"] = af] /\ clock' = af.pos
     ELSE UNCHANGED playVars
  /\ UNCHANGED <<file, q, ring, dec, rd, app, abortReq, seekVars, trackVars,
                 boundVars>>

\* video_refresh: a frame of an old serial is passed over, another one is
\* shown, or passed over when it is late (framedrop).
Refresh ==
  /\ Video \in Opened /\ ~abortReq /\ Remaining(ring["V"]) > 0
  /\ LET vp == ring["V"].slots[PeekIndex(ring["V"])] IN
       /\ ring' = [ring EXCEPT !["V"] = NextFrame(@)]
       /\ \/ vp.serial # q[Video].serial /\ UNCHANGED playVars
          \/ /\ vp.serial = q[Video].serial
             /\ out' = [out EXCEPT !["V"] = vp]
             /\ clock' = IF audioStream = None THEN vp.pos ELSE clock
          \/ /\ vp.serial = q[Video].serial /\ Remaining(ring["V"]) > 1
             /\ UNCHANGED playVars
  /\ UNCHANGED <<file, q, dec, rd, cb, app, abortReq, seekVars, trackVars,
                 boundVars>>

-----------------------------------------------------------------------------
\* read_thread, one iteration of its loop in steps.

RdGoto(pc) == rd' = [rd EXCEPT !.pc = pc]

\* The top of the loop: the thread ends, begins a seek or goes on.
Top ==
  /\ rd.pc = "loop"
  /\ \/ abortReq /\ RdGoto("end") /\ UNCHANGED <<epoch, stale>>
     \/ /\ ~abortReq /\ ~seekReq
        /\ RdGoto("body") /\ UNCHANGED <<epoch, stale>>
     \/ /\ ~abortReq /\ seekReq
        /\ \/ /\ epoch' = epoch + 1
              /\ stale' = Opened \cap Tracks
              /\ rd' = [rd EXCEPT !.pc = "flush", !.pos = seekPos, !.next = Opened]
           \/ RdGoto("sought") /\ UNCHANGED <<epoch, stale>>  \* it failed
  /\ UNCHANGED <<file, q, ring, dec, cb, app, seekReq, seekPos, abortReq,
                 trackVars, playVars, boundVars>>

\* A seek empties the active audio queue and queues a marker: two critical
\* sections, each on the queue that is->audioq names at that time.
SeekFlushAudio ==
  /\ rd.pc = "flush"
  /\ IF audioStream = None
     THEN RdGoto("video") /\ UNCHANGED <<q, stale>>
     ELSE /\ RdGoto("mark")
          /\ q' = [q EXCEPT ![audioq] = Flush(@)]
          /\ stale' = stale \ {audioq}
  /\ UNCHANGED <<file, ring, dec, cb, app, seekReq, seekPos, epoch, abortReq,
                 trackVars, playVars, boundVars>>

SeekMarkAudio ==
  /\ rd.pc = "mark"
  /\ RdGoto("video")
  /\ q' = [q EXCEPT ![audioq] = Put(@, Marker)]
  /\ stale' = IF q[audioq].abort THEN stale ELSE stale \ {audioq}
  /\ UNCHANGED <<file, ring, dec, cb, app, seekReq, seekPos, epoch, abortReq,
                 trackVars, playVars, boundVars>>

\* Mutant: the video queue gets no marker.
SeekFlushVideoUnmarked ==
  /\ rd.pc = "video"
  /\ RdGoto("sought")
  /\ clock' = seekPos
  /\ IF Video \in Opened
     THEN ~q[Video].locked /\ q' = [q EXCEPT ![Video] = Flush(@)]
     ELSE UNCHANGED q
  /\ UNCHANGED <<file, ring, dec, cb, app, out, abortReq, seekVars, trackVars,
                 boundVars>>

\* From here on the position is that of the seek until a frame is played.
SeekFlushVideo ==
  /\ rd.pc = "video"
  /\ RdGoto("sought")
  /\ clock' = seekPos
  /\ IF Video \in Opened
     THEN ~q[Video].locked /\ q' = [q EXCEPT ![Video] = Put(Flush(@), Marker)]
     ELSE UNCHANGED q
  /\ UNCHANGED <<file, ring, dec, cb, app, out, abortReq, seekVars, trackVars,
                 boundVars>>

SeekEnd ==
  /\ rd.pc = "sought"
  /\ seekReq' = FALSE
  /\ rd' = [rd EXCEPT !.pc = "body", !.eof = FALSE, !.completed = FALSE]
  /\ UNCHANGED <<file, q, ring, dec, cb, app, seekPos, epoch, stale, abortReq,
                 trackVars, playVars, boundVars>>

\* stream_has_enough_packets
Enough(id, queue) == id = None \/ queue.abort \/ Len(queue.pkts) > QueueCap
VideoId == IF Video \in Opened THEN Video ELSE None
Full == /\ ~seekReq
        /\ \/ Len(q[audioq].pkts) + Len(q[Video].pkts) > 2 * QueueCap + 1
           \/ Enough(audioStream, q[audioq]) /\ Enough(VideoId, q[Video])

\* Mutant: the decoders need not have finished.
PlayedUnfinished == /\ audioStream # None => Remaining(ring["A"]) = 0
                    /\ Video \in Opened => Remaining(ring["V"]) = 0

\* Every stream that is open was decoded to the end and played.
Played == /\ audioStream # None => /\ dec["A"].finished = q[audioq].serial
                                   /\ Remaining(ring["A"]) = 0
          /\ Video \in Opened => /\ dec["V"].finished = q[Video].serial
                               /\ Remaining(ring["V"]) = 0

\* The queues are full: cleartraffic, which may drop a video packet if the
\* position did not move for long and the queue of the master clock's stream
\* counts no packet.  The master is audio unless the file has none.
MasterTotal == IF Opened \cap Tracks # {} THEN q[audioq].total ELSE q[Video].total
BuffersFull ==
  /\ rd.pc = "body" /\ Full
  /\ RdGoto("loop")
  /\ \/ UNCHANGED <<q, boundVars>>
     \/ /\ MasterTotal = 0 /\ ~q[Video].locked /\ left.drops > 0
        /\ left' = [left EXCEPT !.drops = @ - 1] /\ mishap' = TRUE
        /\ q' = [q EXCEPT ![Video] = Drop(@)]
  /\ UNCHANGED <<file, ring, dec, cb, app, abortReq, seekVars, trackVars,
                 playVars>>

\* The queues that hear of the end of the file.
Open == (IF audioStream # None THEN {audioq} ELSE {}) \cup {VideoId}

\* Everything was played: the queues are told once, and the thread goes on to
\* read; completed, it waits for a seek or the end.
Complete ==
  /\ rd.pc = "body" /\ ~Full /\ Played /\ ~rd.completed /\ ~q[Video].locked
  /\ rd' = [rd EXCEPT !.pc = "read", !.completed = TRUE]
  /\ q' = [s \in Ids |-> IF s \in Open THEN PutEof(q[s]) ELSE q[s]]
  /\ UNCHANGED <<file, ring, dec, cb, app, abortReq, seekVars, trackVars,
                 playVars, boundVars>>

Idle ==
  /\ rd.pc = "body" /\ ~Full /\ Played /\ rd.completed /\ (seekReq \/ abortReq)
  /\ IF abortReq THEN RdGoto("read") ELSE RdGoto("loop")
  /\ UNCHANGED <<file, q, ring, dec, cb, app, abortReq, seekVars, trackVars,
                 playVars, boundVars>>

Reading == rd.pc = "read" \/ (rd.pc = "body" /\ ~Full /\ ~Played)

\* av_read_frame returned a packet.  First the tracks that are not active
\* are trimmed to the position, then the packet is queued; without an open
\* audio stream all audio is discarded.
ReadPacket ==
  /\ Reading /\ rd.pos <= file.length /\ ~q[Video].locked
  /\ LET s == CHOOSE x \in rd.next : TRUE
         p == [kind |-> "data", epoch |-> epoch, pos |-> rd.pos]
         more == rd.next \ {s}
         wanted == s = Video \/ audioStream # None
         Trim(t) == IF t \in Opened \cap Tracks /\ t # audioStream
                       /\ Cardinality(Opened \cap Tracks) > 1
                    THEN SyncTo(q[t], clock, LateStart) ELSE q[t]
     IN  /\ q' = [t \in Ids |-> IF t = s /\ wanted THEN Put(Trim(t), p) ELSE Trim(t)]
         /\ rd' = [rd EXCEPT !.pc = "loop", !.eof = FALSE,
                             !.pos  = IF more = {} THEN @ + 1 ELSE @,
                             !.next = IF more = {} THEN Opened ELSE more]
  /\ UNCHANGED <<file, ring, dec, cb, app, abortReq, seekVars, trackVars,
                 playVars, boundVars>>

\* The end of the file: null packets drain the decoders, once.
ReadEof ==
  /\ Reading /\ rd.pos > file.length /\ ~q[Video].locked
  /\ rd' = [rd EXCEPT !.pc = "loop", !.eof = TRUE]
  /\ q' = [s \in Ids |-> IF s \in Open /\ ~rd.eof THEN Put(q[s], NullPkt) ELSE q[s]]
  /\ UNCHANGED <<file, ring, dec, cb, app, abortReq, seekVars, trackVars,
                 playVars, boundVars>>

\* An I/O error: null packets twice, and reading goes on where it was.
ReadError ==
  /\ Reading /\ rd.pos <= file.length /\ ~q[Video].locked
  /\ left.errors > 0
  /\ left' = [left EXCEPT !.errors = @ - 1] /\ mishap' = TRUE
  /\ rd' = [rd EXCEPT !.pc = "loop", !.eof = TRUE]
  /\ q' = [s \in Ids |-> IF s \in Open THEN Put(Put(q[s], NullPkt), NullPkt)
                         ELSE q[s]]
  /\ UNCHANGED <<file, ring, dec, cb, app, abortReq, seekVars, trackVars,
                 playVars>>

-----------------------------------------------------------------------------
\* The application.

AppGoto(pc) == app' = [app EXCEPT !.pc = pc]

\* stream_seek: refused while a seek is pending.
Seek(pos) ==
  /\ app.pc = "idle" /\ ~seekReq /\ left.seeks > 0
  /\ seekReq' = TRUE /\ seekPos' = pos
  /\ left' = [left EXCEPT !.seeks = @ - 1]
  /\ UNCHANGED <<file, q, ring, dec, rd, cb, app, epoch, stale, abortReq,
                 mishap, trackVars, playVars>>

\* ffp_set_stream_selected: the open track is closed first, from
\* decoder_abort on.  With no track open the queue stays the one it was.
SelectTrack(t, selected) ==
  /\ app.pc = "idle" /\ left.switches > 0 /\ t \in Opened
  /\ IF selected THEN t # audioStream ELSE t = audioStream
  /\ left' = [left EXCEPT !.switches = @ - 1]
  /\ IF audioStream # None
     THEN /\ app' = [app EXCEPT !.pc = "join", !.track = IF selected THEN t ELSE None]
          /\ q' = [q EXCEPT ![audioq] = Abort(@)]
     ELSE app' = [pc |-> "open", track |-> t, bare |-> TRUE] /\ UNCHANGED q
  /\ UNCHANGED <<file, ring, dec, rd, cb, abortReq, mishap, seekVars,
                 trackVars, playVars>>

\* The decoder thread was joined: the queue goes on collecting packets.
JoinDecoder ==
  /\ app.pc = "join" /\ dec["A"].pc = "end"
  /\ q' = [q EXCEPT ![dec["A"].on] = Background(@)]
  /\ AppGoto("reset")
  /\ UNCHANGED <<file, ring, dec, rd, cb, abortReq, seekVars, trackVars,
                 playVars, boundVars>>

ResetSampq ==
  /\ app.pc = "reset"
  /\ ring' = [ring EXCEPT !["A"] = ResetRing(@)]
  /\ AppGoto("aout")
  /\ UNCHANGED <<file, q, dec, rd, cb, abortReq, seekVars, trackVars,
                 playVars, boundVars>>

\* SDL_AoutCloseAudio waits for the callback to return.
CloseAout ==
  /\ app.pc = "aout" /\ cb.pc = "idle"
  /\ cb' = [cb EXCEPT !.pc = "closed"]
  /\ audioStream' = None
  /\ AppGoto(IF app.track = None THEN "idle" ELSE "active")
  /\ UNCHANGED <<file, q, ring, dec, audioq, rd, abortReq, seekVars, playVars,
                 boundVars>>

\* Mutant: is->audioq stays the queue of the old track.
SetActiveKeeps ==
  /\ app.pc = "active"
  /\ AppGoto("open")
  /\ UNCHANGED <<file, q, ring, dec, trackVars, rd, cb, abortReq, seekVars,
                 playVars, boundVars>>

\* set_active_audio_track
SetActive ==
  /\ app.pc = "active"
  /\ audioq' = app.track
  /\ AppGoto("open")
  /\ UNCHANGED <<file, q, ring, dec, audioStream, rd, cb, abortReq, seekVars,
                 playVars, boundVars>>

\* stream_component_open: the audio output is opened, then the stream is
\* named the audio stream and its decoder is started.
OpenAout ==
  /\ app.pc = "open"
  /\ rd' = [rd EXCEPT !.eof = FALSE]
  /\ cb' = [pc |-> "idle", slot |-> 0]
  /\ audioStream' = app.track
  /\ AppGoto("start")
  /\ UNCHANGED <<file, q, ring, dec, audioq, abortReq, seekVars, playVars,
                 boundVars>>

StartDecoder ==
  /\ app.pc = "start"
  /\ dec' = [dec EXCEPT !["A"] = Decoder(audioq, app.track)]
  /\ q' = [q EXCEPT ![audioq] = Start(@, TRUE, Marker)]
  /\ AppGoto("idle")
  /\ UNCHANGED <<file, ring, rd, cb, abortReq, seekVars, trackVars, playVars,
                 boundVars>>

\* stream_close: every queue is aborted, then read_thread is joined, then the
\* decoders and the audio output.
CloseStream ==
  /\ app.pc = "idle" /\ ~q[Video].locked
  /\ abortReq' = TRUE
  /\ q' = [s \in Ids |-> Abort(q[s])]
  /\ AppGoto("joinRead")
  /\ UNCHANGED <<file, ring, dec, rd, cb, seekVars, trackVars, playVars,
                 boundVars>>

JoinRead ==
  /\ app.pc = "joinRead" /\ rd.pc = "end"
  /\ AppGoto("joinAudio")
  /\ UNCHANGED <<file, q, ring, dec, rd, cb, abortReq, seekVars, trackVars,
                 playVars, boundVars>>

JoinAudio ==
  /\ app.pc = "joinAudio"
  /\ audioStream # None => dec["A"].pc = "end" /\ cb.pc = "idle"
  /\ cb' = [cb EXCEPT !.pc = "closed"]
  /\ audioStream' = None
  /\ ring' = IF audioStream # None THEN [ring EXCEPT !["A"] = ResetRing(@)] ELSE ring
  /\ AppGoto("joinVideo")
  /\ UNCHANGED <<file, q, dec, audioq, rd, abortReq, seekVars, playVars,
                 boundVars>>

JoinVideo ==
  /\ app.pc = "joinVideo"
  /\ Video \in Opened => dec["V"].pc = "end"
  /\ ~q[Video].locked
  /\ q' = [q EXCEPT ![Video] = Flush(@)]
  /\ AppGoto("closed")
  /\ UNCHANGED <<file, ring, dec, rd, cb, abortReq, seekVars, trackVars,
                 playVars, boundVars>>

-----------------------------------------------------------------------------
DecoderStep(m) == Receive(m) \/ GetPacket(m) \/ Send(m) \/ PushFrame(m)
ReadStep == \/ Top \/ SeekFlushAudio \/ SeekMarkAudio \/ SeekFlushVideo \/ SeekEnd
            \/ BuffersFull \/ Complete \/ Idle \/ ReadPacket \/ ReadEof \/ ReadError
CallbackStep == Peek \/ Advance \/ PlayAudio
AppGoesOn == \/ JoinDecoder \/ ResetSampq \/ CloseAout \/ SetActive \/ OpenAout
             \/ StartDecoder \/ JoinRead \/ JoinAudio \/ JoinVideo

Next ==
  \/ \E m \in Media : DecoderStep(m)
  \/ ReadStep
  \/ CallbackStep
  \/ Refresh
  \/ \E pos \in 1..file.length : Seek(pos)
  \/ \E t \in Tracks, selected \in BOOLEAN : SelectTrack(t, selected)
  \/ CloseStream
  \/ AppGoesOn

Spec == Init /\ [][Next]_vars

\* Every thread of the player is scheduled; the application need not call,
\* but a call it made goes on.
Fairness ==
  /\ \A m \in Media : WF_vars(DecoderStep(m))
  /\ WF_vars(ReadStep)
  /\ WF_vars(CallbackStep)
  /\ WF_vars(Refresh)
  /\ WF_vars(AppGoesOn)

FairSpec == Spec /\ Fairness

-----------------------------------------------------------------------------
Frame == [serial : Int, epoch : Nat, pos : Nat, on : Ids]

TypeOK ==
  /\ Opened \subseteq Ids
  /\ q \in [Ids -> Queue]
  /\ \A m \in Media :
       /\ ring[m].slots \in [0..(RingSize - 1) -> Frame \cup {NoFrame}]
       /\ ring[m].rindex \in 0..(RingSize - 1) /\ ring[m].windex \in 0..(RingSize - 1)
       /\ ring[m].size \in -1..RingSize /\ ring[m].shown \in {0, 1}
       /\ dec[m].pc \in {"top", "get", "send", "push", "end"}
  /\ audioq \in Tracks /\ audioStream \in Tracks \cup {None}

\* The serials along a queue only grow and a marker is the first packet of
\* its serial, whoever flushes, trims, drops or switches: what a decoder
\* compares its packets with (ff_ffplay.c:747, 801) is well defined.
SerialsTell ==
  \A s \in Ids : SerialsOrdered(q[s]) /\ MarkerStartsSerial(q[s])

\* Once read_thread has carried a seek out, nothing read before it is played,
\* unless the track was not the active one when the seek emptied the queues
\* (ff_ffplay.c:4180-4196 flushes is->audioq only), or was opened while no track
\* was: sync_multi_audiotrack, which compares the queues with is->audio_stream,
\* then takes the markers out of the queue that is played (ff_ffplay.c:375, 5803).
NothingStalePlayed ==
  [][\A m \in Media :
       out'[m] # out[m] /\ rd.pc \notin {"flush", "mark", "video"}
         => \/ out'[m].epoch = epoch \/ out'[m].on \in stale
            \/ q[out'[m].on].abort \/ q[out'[m].on].background
            \/ m = "A" /\ app.bare]_vars

\* The audio played comes from the queue of the active track, whatever the
\* callback held when the tracks were switched.
ActiveTrackPlayed ==
  [][out'["A"] # out["A"] => out'["A"].on = audioq]_vars

\* A decoder is fed by the stream its codec was opened for, unless a track was
\* opened while none was: then is->audioq is still the queue of the track that
\* was deselected (ff_ffplay.c:5803-5811).
FedByItsStream ==
  dec["A"].pc # "end" /\ dec["A"].on # dec["A"].src => app.bare

\* When read_thread reports the end, nothing that was queued for a stream
\* that is open is left unplayed, unless a read failed on the way, or tracks
\* are being switched or closed: meanwhile the serial that the old decoder
\* finished is compared with the serial of the new queue, and the ring of the
\* samples has been reset (ff_ffplay.c:4277-4303).
CompletedPlayedAll ==
  [][rd'.completed /\ ~rd.completed /\ ~mishap /\ app.pc = "idle" =>
       \A m \in Media : Has(m) =>
         LET s == IF m = "A" THEN audioq ELSE Video IN
         /\ \A i \in 1..Len(q[s].pkts) : q[s].pkts[i].kind # "data"
         /\ dec[m].codec = <<>>]_vars

\* The indices of a frame queue go wrong in one way only: the callback
\* advances the ring of the samples after a switch has reset it
\* (ff_ffplay.c:1174 and 979-991).
OnlyResetBreaksRing ==
  [][\A m \in Media : RingSound(ring[m]) /\ ~RingSound(ring'[m])
       => m = "A" /\ cb.pc = "next" /\ app.pc = "aout"]_vars

\* A player that is closed joins all its threads, unless packet_queue_drop
\* has left the video queue locked (ff_ffplay.c:387).
CloseEnds == abortReq ~> (app.pc = "closed" \/ q[Video].locked)

\* After a seek the video of the new position is shown, or another seek or
\* the end comes first, or a read failed or cleartraffic dropped a packet.
SeekIsShown ==
  \A e \in 1..MaxEpoch :
    (epoch = e /\ Video \in Opened)
      ~> \/ epoch > e \/ abortReq \/ seekReq \/ q[Video].locked
         \/ mishap
         \/ out["V"] # None /\ out["V"].epoch = e

=============================================================================
