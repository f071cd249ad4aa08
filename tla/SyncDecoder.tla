----------------------------- MODULE SyncDecoder ----------------------------
(***************************************************************************)
(* The MediaCodec decoder of Android with one thread (option               *)
(* mediacodec_sync): func_run_sync_loop of                                 *)
(* ffpipenode_android_mediacodec_vdec.c takes one output of the codec and  *)
(* then feeds one packet, over and over.  For one family of codecs that    *)
(* gives pictures in decoding order it keeps a picture back and sends      *)
(* whichever is older, that one or the next (n_buf_out).                   *)
(*                                                                         *)
(* A frame is [pts, seg, gen, fake]: seg is the serial of its packet, gen  *)
(* the codec, or the flush of it, that gave it a buffer; a codec that      *)
(* failed to start gives fake frames.  The reader appends the packets of a *)
(* file from the start after each seek; packet Len(file) + 1 is the empty  *)
(* one that says the end.                                                  *)
(***************************************************************************)
EXTENDS Integers, Sequences, FiniteSets

CONSTANTS Files,      \* [keeps |-> n_buf_out, packets |-> <<[pts, stream], ...>>]
          Surfaces, FirstSurface, NoFrame,
          Inputs,     \* how many packets a codec holds
          FakeSize,   \* FAKE_BUFFER_QUEUE_SIZE
          RingSize,   \* the size of the picture queue
          Budgets     \* how many seeks, surfaces and failures happen

VARIABLES file,       \* what is played, and n_buf_out
          queue,      \* the packet queue: serial, flush marker, packets read, abort
          dec,        \* the loop, its packet and is->viddec
          codec,      \* opaque->acodec
          node,       \* opaque
          sorted,     \* amc_buf_out
          hand,       \* the frame that drain_output_buffer2 has
          pictq,      \* the picture queue
          left        \* what is left of a budget

vars == <<file, queue, dec, codec, node, sorted, hand, pictq, left>>

NullPacket  == Len(file.packets) + 1
Stream(k)   == IF k = NullPacket THEN 1 ELSE file.packets[k].stream

NewCodec(stream, gen, ok) ==
  [stream |-> stream, started |-> ok, gen |-> gen, in |-> <<>>, out |-> 0]

\* ffpipenode_init_decoder_from_android_mediacodec and
\* ffpipenode_config_from_android_mediacodec
Init ==
  /\ file \in Files /\ left \in Budgets
  /\ queue = [serial |-> 1, marker |-> TRUE, read |-> 0, taken |-> 0, abort |-> FALSE,
              seeking |-> FALSE]
  /\ dec = [pc |-> "drain", packet |-> 0, serial |-> 0, finished |-> 0, playing |-> 0]
  /\ codec = NewCodec(1, 1, TRUE)
  /\ node = [flush |-> FALSE, fed |-> FALSE, abr |-> "none", stream |-> 1,
             need |-> TRUE, recreate |-> FALSE, surface |-> FirstSurface,
             pipe |-> FirstSurface, attached |-> TRUE]
  /\ sorted = {} /\ hand = NoFrame /\ pictq = <<>>

Goto(pc) == dec' = [dec EXCEPT !.pc = pc]

-----------------------------------------------------------------------------
\* The output of the codec.

\* A buffer goes back to the codec it is from, as long as the video output
\* knows that codec.
Release(f) ==
  codec' = IF node.attached /\ ~f.fake /\ f.gen = codec.gen
           THEN [codec EXCEPT !.out = @ - 1] ELSE codec

\* SDL_AMediaCodecFake_dequeueOutputBuffer
Dequeued == [Head(codec.in) EXCEPT !.gen = codec.gen]
Given == [codec EXCEPT !.in = Tail(@), !.out = IF Dequeued.fake THEN @ ELSE @ + 1]

\* Mutant: the frame kept back is sent first.
SortSendsKept(f) ==
  /\ codec' = Given
  /\ IF file.keeps = 0
     THEN hand' = f /\ UNCHANGED sorted
     ELSE /\ sorted' = {f}
          /\ hand' = IF sorted = {} THEN NoFrame ELSE CHOOSE g \in sorted : TRUE

\* Mutant: a frame of the time of the one kept back is forgotten with its buffer.
SortForgets(f) ==
  LET newer == {g \in sorted : g.pts <= f.pts} IN
  /\ codec' = Given
  /\ CASE Cardinality(sorted) < file.keeps ->
            sorted' = sorted \cup {f} /\ hand' = NoFrame
       [] OTHER ->
            IF newer = {} THEN hand' = f /\ UNCHANGED sorted
            ELSE \E g \in newer :
              IF g.pts < f.pts THEN hand' = g /\ sorted' = (sorted \ {g}) \cup {f}
              ELSE hand' = NoFrame /\ UNCHANGED sorted

\* drain_output_buffer2_l with n_buf_out: the frames kept back are filled up;
\* then an older frame is sent at once, a newer one takes the place of the
\* oldest, and one of the very same time is discarded.
Sort(f) ==
  \/ /\ Cardinality(sorted) < file.keeps
     /\ sorted' = sorted \cup {f} /\ hand' = NoFrame /\ codec' = Given
  \/ /\ Cardinality(sorted) = file.keeps /\ \A g \in sorted : f.pts < g.pts
     /\ hand' = f /\ codec' = Given /\ UNCHANGED sorted
  \/ /\ Cardinality(sorted) = file.keeps
     /\ \E g \in sorted :
          /\ \A h \in sorted : g.pts <= h.pts
          /\ \/ g.pts < f.pts /\ hand' = g /\ sorted' = (sorted \ {g}) \cup {f}
                /\ codec' = Given
             \/ g.pts = f.pts /\ hand' = NoFrame /\ UNCHANGED sorted
                /\ codec' = IF f.fake THEN Given ELSE [codec EXCEPT !.in = Tail(@)]

DrainFrame ==
  /\ dec.pc = "drain" /\ ~queue.abort /\ codec.in # <<>>
  /\ Sort(Dequeued)
  /\ Goto(IF hand' = NoFrame THEN "feed" ELSE "picture")
  /\ UNCHANGED <<file, queue, node, pictq, left>>

\* Nothing within the timeout, which a stream switch reads as the end of
\* what the codec holds.
DrainNothing ==
  /\ dec.pc = "drain" /\ ~queue.abort
  /\ codec.in # <<>> => ~Head(codec.in).fake
  /\ node' = [node EXCEPT !.abr = IF @ = "wait" THEN "got" ELSE @]
  /\ Goto("feed")
  /\ UNCHANGED <<file, queue, codec, sorted, hand, pictq, left>>

\* ffp_queue_picture: the picture gets the serial the decoder has.
Picture ==
  /\ dec.pc = "picture" /\ ~queue.abort /\ Len(pictq) < RingSize
  /\ pictq' = Append(pictq, [frame |-> hand, serial |-> dec.serial])
  /\ hand' = NoFrame
  /\ Goto("feed")
  /\ UNCHANGED <<file, queue, codec, node, sorted, left>>

\* A late picture is dropped; so is one that an aborted queue refuses.
Drop ==
  /\ dec.pc = "picture"
  /\ Release(hand)
  /\ hand' = NoFrame
  /\ Goto("feed")
  /\ UNCHANGED <<file, queue, node, sorted, pictq, left>>

\* The loop ends; the codec is stopped and let go.
Exit ==
  /\ dec.pc \in {"drain", "feed"} /\ queue.abort
  /\ Goto("end")
  /\ sorted' = {}
  /\ codec' = NewCodec(codec.stream, codec.gen + 1, FALSE)
  /\ node' = [node EXCEPT !.attached = FALSE]
  /\ UNCHANGED <<file, queue, hand, pictq, left>>

-----------------------------------------------------------------------------
\* The input of the codec.

Pending == dec.packet # 0 /\ queue.serial = dec.serial

\* Mutant: nothing is flushed, and the request stays.
FlushesLess == UNCHANGED <<codec, node>>

\* The flush of feed_input_buffer2: a codec that is started and was fed
\* gives up what it holds and takes its buffers back.
Flushes ==
  IF codec.started /\ node.fed
  THEN /\ codec' = [codec EXCEPT !.gen = @ + 1, !.in = <<>>, !.out = 0]
       /\ node' = [node EXCEPT !.flush = FALSE, !.fed = FALSE]
  ELSE node' = [node EXCEPT !.flush = FALSE] /\ UNCHANGED codec

\* packet_queue_get gives the flush marker.
TakeMarker ==
  /\ dec.pc = "feed" /\ ~queue.abort /\ ~Pending /\ queue.marker
  /\ queue' = [queue EXCEPT !.marker = FALSE]
  /\ dec' = [dec EXCEPT !.packet = 0, !.serial = queue.serial, !.finished = 0]
  /\ Flushes
  /\ UNCHANGED <<file, sorted, hand, pictq, left>>

\* It gives a packet: a flush that is requested is done now too; a packet of
\* another stream asks the codec to finish what it has.  The empty packet
\* carries the index of the first stream.
TakePacket ==
  LET k == queue.taken + 1
      switched == dec.playing # 0 /\ dec.playing # Stream(k)
      done(n) == [n EXCEPT !.stream = IF switched THEN Stream(k) ELSE @,
                           !.abr = IF switched /\ @ = "none" THEN "signal" ELSE @]
  IN
  /\ dec.pc = "feed" /\ ~queue.abort /\ ~Pending /\ ~queue.marker
  /\ k <= queue.read
  /\ queue' = [queue EXCEPT !.taken = k]
  /\ dec' = [dec EXCEPT !.pc = "data", !.packet = k, !.serial = queue.serial,
                        !.finished = IF node.flush THEN 0 ELSE @,
                        !.playing = Stream(k)]
  /\ IF node.flush /\ codec.started /\ node.fed
     THEN /\ codec' = [codec EXCEPT !.gen = @ + 1, !.in = <<>>, !.out = 0]
          /\ node' = done([node EXCEPT !.flush = FALSE, !.fed = FALSE])
     ELSE node' = done([node EXCEPT !.flush = FALSE]) /\ UNCHANGED codec
  /\ UNCHANGED <<file, sorted, hand, pictq, left>>

KeepPacket ==
  /\ dec.pc = "feed" /\ ~queue.abort /\ Pending
  /\ Goto("data")
  /\ UNCHANGED <<file, queue, codec, node, sorted, hand, pictq, left>>

Room == Len(codec.in) < (IF codec.started THEN Inputs ELSE FakeSize)

\* A switch: the end of the stream is put in once, then waited for.
FeedEos ==
  /\ dec.pc = "data" /\ node.abr \in {"signal", "wait"}
  /\ node' = [node EXCEPT !.abr = IF @ = "signal" /\ codec.started /\ Room
                                  THEN "wait" ELSE @]
  /\ Goto("drain")
  /\ UNCHANGED <<file, queue, codec, sorted, hand, pictq, left>>

\* Mutant: the codec is used on for the new stream.
GotEosKeepsCodec ==
  /\ dec.pc = "data" /\ node.abr = "got"
  /\ node' = [node EXCEPT !.abr = "none", !.need = TRUE]
  /\ UNCHANGED <<file, queue, dec, codec, sorted, hand, pictq, left>>

\* The codec has finished the old stream: it is to be created again.
GotEos ==
  /\ dec.pc = "data" /\ node.abr = "got"
  /\ node' = [node EXCEPT !.abr = "none", !.recreate = TRUE, !.need = TRUE]
  /\ UNCHANGED <<file, queue, dec, codec, sorted, hand, pictq, left>>

\* Mutant: the empty packet is kept.
FinishKeeps ==
  /\ dec.pc = "data" /\ node.abr = "none" /\ dec.packet = NullPacket
  /\ dec' = [dec EXCEPT !.pc = "drain"]
  /\ UNCHANGED <<file, queue, codec, node, sorted, hand, pictq, left>>

\* The empty packet: the decoder counts as finished at once.
Finish ==
  /\ dec.pc = "data" /\ node.abr = "none" /\ dec.packet = NullPacket
  /\ dec' = [dec EXCEPT !.pc = "drain", !.packet = 0, !.finished = dec.serial]
  /\ UNCHANGED <<file, queue, codec, node, sorted, hand, pictq, left>>

HasData == dec.pc = "data" /\ node.abr = "none" /\ dec.packet # NullPacket

\* The surface is the one in use.
SameSurface ==
  /\ HasData /\ node.need /\ ~node.recreate /\ node.pipe = node.surface
  /\ node' = [node EXCEPT !.need = FALSE]
  /\ UNCHANGED <<file, queue, dec, codec, sorted, hand, pictq, left>>

\* recreate_format_l and reconfigure_codec_l: a new codec, which may fail to
\* start on its surface.  The packet is fed next, or when the loop comes back.
Reconfigured(ok) ==
  /\ codec' = NewCodec(node.stream, codec.gen + 1, ok)
  /\ node' = [node EXCEPT !.need = FALSE, !.recreate = FALSE, !.surface = node.pipe,
                          !.attached = ok]
  /\ Goto(IF ok /\ ~queue.abort /\ ~node.flush THEN "data" ELSE "drain")
Reconfigure ==
  /\ HasData /\ node.need /\ ~queue.abort
  /\ node.recreate \/ node.pipe # node.surface
  /\ \/ Reconfigured(TRUE) /\ UNCHANGED left
     \/ /\ left.failures > 0 /\ left' = [left EXCEPT !.failures = @ - 1]
        /\ Reconfigured(FALSE)
  /\ UNCHANGED <<file, queue, sorted, hand, pictq>>
ReconfigureAborted ==
  /\ HasData /\ node.need /\ queue.abort
  /\ node.recreate \/ node.pipe # node.surface
  /\ node' = [node EXCEPT !.need = FALSE]
  /\ Goto("drain")
  /\ UNCHANGED <<file, queue, codec, sorted, hand, pictq, left>>

\* The packet is queued into the codec, or as a fake frame when the codec has
\* no valid input buffers; without room it is kept.
FeedInput ==
  /\ HasData /\ ~node.need
  /\ IF Room
     THEN /\ codec' = [codec EXCEPT !.in =
                 Append(@, [pts |-> file.packets[dec.packet].pts, seg |-> dec.serial,
                            gen |-> 0, fake |-> ~codec.started])]
          /\ node' = [node EXCEPT !.fed = TRUE]
          /\ dec' = [dec EXCEPT !.pc = "drain", !.packet = 0]
     ELSE Goto("drain") /\ UNCHANGED <<codec, node>>
  /\ UNCHANGED <<file, queue, sorted, hand, pictq, left>>

-----------------------------------------------------------------------------
\* The other threads.

\* video_refresh shows a picture, which gives its buffer back.
Show ==
  /\ pictq # <<>>
  /\ pictq' = Tail(pictq)
  /\ Release(Head(pictq).frame)
  /\ UNCHANGED <<file, queue, dec, node, sorted, hand, left>>

\* read_thread appends a packet, or the empty one.
Read ==
  /\ ~queue.abort /\ ~queue.seeking /\ queue.read < NullPacket
  /\ queue' = [queue EXCEPT !.read = @ + 1]
  /\ UNCHANGED <<file, dec, codec, node, sorted, hand, pictq, left>>

\* It seeks: first the flush is requested (func_flush), then the queue is
\* emptied and gets the flush marker.
SeekRequests ==
  /\ ~queue.abort /\ ~queue.seeking /\ left.seeks > 0
  /\ left' = [left EXCEPT !.seeks = @ - 1]
  /\ queue' = [queue EXCEPT !.seeking = TRUE]
  /\ node' = [node EXCEPT !.flush = TRUE]
  /\ UNCHANGED <<file, dec, codec, sorted, hand, pictq>>
SeekMarks ==
  /\ queue.seeking
  /\ queue' = [queue EXCEPT !.seeking = FALSE, !.serial = @ + 1, !.marker = TRUE,
                            !.read = 0, !.taken = 0]
  /\ UNCHANGED <<file, dec, codec, node, sorted, hand, pictq, left>>

\* The application sets another surface: the video output forgets the codec.
SetSurface(s) ==
  /\ left.surfaces > 0 /\ s # node.pipe
  /\ left' = [left EXCEPT !.surfaces = @ - 1]
  /\ node' = [node EXCEPT !.pipe = s, !.need = TRUE, !.attached = FALSE]
  /\ UNCHANGED <<file, queue, dec, codec, sorted, hand, pictq>>

Abort ==
  /\ ~queue.abort
  /\ queue' = [queue EXCEPT !.abort = TRUE]
  /\ UNCHANGED <<file, dec, codec, node, sorted, hand, pictq, left>>

LoopStep ==
  \/ DrainFrame \/ DrainNothing \/ Picture \/ Drop \/ Exit
  \/ TakeMarker \/ TakePacket \/ KeepPacket \/ FeedEos \/ GotEos \/ Finish
  \/ SameSurface \/ Reconfigure \/ ReconfigureAborted \/ FeedInput

Next ==
  \/ LoopStep \/ Show \/ Read \/ SeekRequests \/ SeekMarks \/ Abort
  \/ \E s \in Surfaces : SetSurface(s)

\* The threads run on and the codec decodes what it holds.
FairSpec ==
  /\ Init /\ [][Next]_vars
  /\ WF_vars(LoopStep) /\ SF_vars(DrainFrame)
  /\ WF_vars(Show) /\ WF_vars(Read \/ SeekMarks)

-----------------------------------------------------------------------------
Frames == [pts : Nat, seg : Nat, gen : Nat, fake : BOOLEAN]

TypeOK ==
  /\ queue \in [serial : Nat, marker : BOOLEAN, read : 0..NullPacket,
                taken : 0..NullPacket, abort : BOOLEAN, seeking : BOOLEAN]
  /\ queue.taken <= queue.read
  /\ dec.pc \in {"drain", "picture", "feed", "data", "end"}
  /\ dec.packet \in 0..NullPacket /\ dec.serial \in 0..queue.serial
  /\ codec.in \in Seq(Frames) /\ codec.out \in Nat
  /\ node.abr \in {"none", "signal", "wait", "got"}
  /\ sorted \subseteq Frames /\ Cardinality(sorted) <= file.keeps
  /\ hand \in Frames \cup {NoFrame} /\ (hand # NoFrame) = (dec.pc = "picture")
  /\ Len(pictq) <= RingSize

\* Every output buffer of the codec is in one place from which it comes back:
\* kept back, in the hand of the loop, or in the picture queue; also after
\* flushes, a discarded frame and a new codec.
Accounted ==
  LET ofCodec(f) == f # NoFrame /\ ~f.fake /\ f.gen = codec.gen IN
  node.attached =>
    codec.out = Cardinality({g \in sorted : ofCodec(g)})
                + (IF ofCodec(hand) THEN 1 ELSE 0)
                + Cardinality({i \in DOMAIN pictq : ofCodec(pictq[i].frame)})

\* A picture carries the serial of the packet it was decoded from, so that
\* no picture from before a seek passes for one after it.  Excepted are the
\* picture kept back, which no flush clears (nothing but the end resets
\* off_buf_out), and the fake frames of a codec that is not started, which
\* no flush reaches.
Labelled ==
  \A i \in DOMAIN pictq :
    file.keeps = 0 /\ ~pictq[i].frame.fake =>
      pictq[i].frame.seg = pictq[i].serial

\* The pictures of a segment come in order of time, although the codec may
\* give each one place too early or late.
InOrder ==
  \A i, j \in DOMAIN pictq :
    i < j /\ pictq[i].frame.seg = pictq[j].frame.seg =>
      pictq[i].frame.pts <= pictq[j].frame.pts

\* After a switch the packets of a stream go to a codec made for it.
RightCodec ==
  HasData /\ ~node.need /\ Room => codec.stream = dec.playing

\* A switch of streams waits for an input buffer of a codec that failed to
\* start, and before a new surface is looked at.
Stuck == node.abr = "signal" /\ ~codec.started

\* After abort the loop ends; and the decoder takes what was read until the
\* end, whatever seeks, switches and failures of the codec come between,
\* unless it is stuck.
Owing ==
  \/ queue.abort /\ dec.pc # "end"
  \/ ~queue.abort /\ dec.finished # queue.serial /\ ~Stuck
=============================================================================
