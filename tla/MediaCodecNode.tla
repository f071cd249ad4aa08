--------------------------- MODULE MediaCodecNode ---------------------------
(***************************************************************************)
(* The asynchronous MediaCodec decoder of Android                          *)
(* (ffpipenode_android_mediacodec_vdec.c) with the video output that       *)
(* returns its buffers (ijksdl_vout_android_nativewindow.c).               *)
(*                                                                         *)
(* feed  is enqueue_thread_func: packets from the video queue into the     *)
(*       codec, flushes after a seek, reconfiguration for another surface  *)
(*       or another stream of an adaptive source;                          *)
(* drain is func_run_sync: output buffers from the codec into the picture  *)
(*       queue; feed and drain exclude each other with acodec_mutex;       *)
(* render is the thread of video_refresh, which gives the buffers back to  *)
(*       the codec under the mutex of the video output only;               *)
(* app   sets surfaces and stops; reader is read_thread, which seeks.      *)
(*                                                                         *)
(* A buffer travels in a proxy [idx, serial, gen]: idx is its index in the *)
(* codec, Fake for a frame no buffer stands for, Invalid once the output   *)
(* forgot it; serial is the object serial of the codec when it was         *)
(* dequeued.  gen is not in the code: it counts the times the codec really *)
(* took all its buffers back, which the object serial follows one step     *)
(* later; a proxy without a buffer has none.                               *)
(***************************************************************************)
EXTENDS Integers, Sequences, FiniteSets

CONSTANTS Surfaces,   \* the surfaces the application may set
          Start,      \* those it may have set before the decoder is opened
          NoSurface, NoProxy,
          Outputs,    \* the output buffers of a codec
          Inputs,     \* how many packets a codec holds
          FakeSize,   \* FAKE_BUFFER_QUEUE_SIZE
          RingSize,   \* the size of the picture queue
          Budgets     \* how many seeks, surfaces, failures and switches happen

ASSUME NodeAssumption ==
  /\ Outputs \subseteq Nat \ {0} /\ FakeSize \in Nat /\ Inputs \in Nat
  /\ RingSize \in Nat \ {0} /\ Start \subseteq Surfaces \cup {NoSurface}
  /\ NoProxy \notin [idx : Int, serial : Int, gen : Int]

VARIABLES codec,      \* opaque->acodec
          request,    \* the flags flush, first and need, recreate: see TypeOK
          surface,    \* opaque->jsurface
          abr,        \* reconfigure_state
          q,          \* the video packet queue: serial, marker, abort
          feed, drain,
          pictq,      \* the pictures to show, and the one shown last
          render,
          vout,       \* window, and whether the output knows the codec
          pipe,       \* the surface of the pipeline
          app, reader,
          left,       \* what is left of a budget
          misrelease  \* a buffer was released that its proxy did not own

vars == <<codec, request, surface, abr, q, feed, drain, pictq, render, vout,
          pipe, app, reader, left, misrelease>>

Fake    == 0
Invalid == 0 - 1

\* create_codec_l with configure and start: without a surface the codec is a
\* dummy, whose object serial stays 0.
NewCodec(s, gen, ok) ==
  [java |-> s # NoSurface, started |-> ok, gen |-> gen,
   serial |-> IF s = NoSurface THEN 0 ELSE gen,
   held |-> {}, load |-> 0, fake |-> 0]

\* ffpipenode_create_video_decoder_from_android_mediacodec and
\* ffpipenode_config_from_android_mediacodec: the codec is opened on the
\* surface set so far, which the pipeline still calls new.
Init ==
  \E s \in Start :
    /\ codec = NewCodec(s, 1, TRUE)
    /\ surface = s /\ pipe = s /\ vout = [window |-> s, attached |-> TRUE]
    /\ request = [flush |-> FALSE, first |-> TRUE, need |-> s # NoSurface,
                  recreate |-> FALSE]
    /\ abr = "none"
    /\ q = [serial |-> 1, marker |-> TRUE, abort |-> FALSE]
    /\ feed = [pc |-> "top", pending |-> FALSE, serial |-> 0, got |-> "data",
               fed |-> FALSE, surface |-> s]
    /\ drain = [pc |-> "top", proxy |-> NoProxy, ever |-> FALSE]
    /\ pictq = [next |-> <<>>, shown |-> <<>>]
    /\ render = "idle" /\ app = [pc |-> "idle", surface |-> s]
    /\ reader = "idle" /\ left \in Budgets /\ misrelease = FALSE

\* acodec_mutex is held by the input thread over several steps.
Locked == feed.pc \in {"flushing", "flushed", "stopping", "stopped"}

-----------------------------------------------------------------------------
\* The video output: each operator is a critical section of vout->mutex.

Forgotten(p) ==
  IF p = NoProxy THEN p ELSE [idx |-> Invalid, serial |-> 0, gen |-> 0]
ForgetFrames(frames) ==
  [i \in DOMAIN frames |-> [frames[i] EXCEPT !.proxy = Forgotten(@)]]

\* Mutant: the buffers are not invalidated.
InvalidateNone == UNCHANGED <<drain, pictq>>

\* SDL_VoutAndroid_invalidateAllBuffers: every proxy in use loses its buffer.
InvalidateAll ==
  /\ drain' = [drain EXCEPT !.proxy = Forgotten(@)]
  /\ pictq' = [next |-> ForgetFrames(pictq.next), shown |-> ForgetFrames(pictq.shown)]

\* SDL_VoutAndroid_setAMediaCodec(NULL)
Detach ==
  /\ vout' = [vout EXCEPT !.attached = FALSE]
  /\ IF vout.attached THEN InvalidateAll ELSE UNCHANGED <<drain, pictq>>

\* SDL_VoutAndroid_releaseBufferProxy_l: the buffer goes back to the codec
\* when the output knows the codec and its serial is the proxy's.
Returned(p) ==
  /\ p # NoProxy /\ vout.attached /\ p.serial = codec.serial /\ p.idx \in Outputs
Release(p) ==
  IF Returned(p)
  THEN /\ codec' = [codec EXCEPT !.held = @ \ {p.idx}]
       /\ misrelease' = (misrelease \/ p.idx \notin codec.held \/ p.gen # codec.gen)
  ELSE UNCHANGED <<codec, misrelease>>

-----------------------------------------------------------------------------
\* The input thread.

FeedGoto(pc) == feed' = [feed EXCEPT !.pc = pc]

\* enqueue_thread_func leaves its loop.
FeedEnds ==
  /\ feed.pc = "top" /\ (q.abort \/ drain.pc \in {"join", "end"})
  /\ FeedGoto("end")
  /\ UNCHANGED <<codec, request, surface, abr, q, drain, pictq, render, vout,
                 pipe, app, reader, left, misrelease>>

\* feed_input_buffer takes a packet when it has none or an outdated one.
\* packet_queue_get updates the serial of the decoder at once.
FeedGet ==
  /\ feed.pc = "top" /\ ~q.abort
  /\ ~feed.pending \/ q.serial # feed.serial
  /\ feed' = [feed EXCEPT !.pc = "got", !.pending = FALSE, !.serial = q.serial,
                          !.got = IF q.marker THEN "flush" ELSE "data"]
  /\ q' = [q EXCEPT !.marker = FALSE]
  /\ UNCHANGED <<codec, request, surface, abr, drain, pictq, render, vout,
                 pipe, app, reader, left, misrelease>>

FeedAgain ==
  /\ feed.pc = "top" /\ ~q.abort /\ feed.pending /\ q.serial = feed.serial
  /\ FeedGoto("data")
  /\ UNCHANGED <<codec, request, surface, abr, q, drain, pictq, render, vout,
                 pipe, app, reader, left, misrelease>>

\* A packet to decode; that of another stream of an adaptive source asks the
\* codec to finish what it has.
FeedTakes ==
  /\ feed.pc = "got" /\ feed.got = "data" /\ ~request.flush
  /\ feed' = IF q.serial = feed.serial THEN [feed EXCEPT !.pc = "data", !.pending = TRUE]
             ELSE [feed EXCEPT !.pc = "top"]
  /\ \/ UNCHANGED <<abr, left>>
     \/ /\ left.switches > 0 /\ q.serial = feed.serial
        /\ left' = [left EXCEPT !.switches = @ - 1]
        /\ abr' = IF abr = "none" THEN "signal" ELSE abr
  /\ UNCHANGED <<codec, request, surface, q, drain, pictq, render, vout, pipe,
                 app, reader, misrelease>>

\* The flush marker, or any packet while a flush is requested: under
\* acodec_mutex the buffers are invalidated and the codec is flushed, unless
\* nothing was fed to it.
FeedFlushes ==
  /\ feed.pc = "got" /\ (feed.got = "flush" \/ request.flush)
  /\ request' = [request EXCEPT !.flush = TRUE]
  /\ FeedGoto(IF codec.started /\ feed.fed THEN "flushing" ELSE "flushed")
  /\ IF codec.started /\ feed.fed THEN InvalidateAll ELSE UNCHANGED <<drain, pictq>>
  /\ UNCHANGED <<codec, surface, abr, q, render, vout, pipe, app, reader, left,
                 misrelease>>

\* MediaCodec.flush takes every buffer back.
FlushCodec ==
  /\ feed.pc = "flushing"
  /\ codec' = [codec EXCEPT !.gen = IF codec.java THEN @ + 1 ELSE @,
                            !.held = {}, !.load = 0, !.fake = 0]
  /\ feed' = [feed EXCEPT !.pc = "flushed", !.fed = FALSE]
  /\ UNCHANGED <<request, surface, abr, q, drain, pictq, render, vout, pipe,
                 app, reader, left, misrelease>>

\* SDL_AMediaCodecJava_flush gives the codec a new object serial, and the
\* output thread may go on.
FlushDone ==
  /\ feed.pc = "flushed"
  /\ codec' = [codec EXCEPT !.serial = IF codec.java THEN codec.gen ELSE @]
  /\ request' = [request EXCEPT !.flush = FALSE]
  /\ feed' = IF feed.got = "flush" \/ q.serial # feed.serial
             THEN [feed EXCEPT !.pc = "top"]
             ELSE [feed EXCEPT !.pc = "data", !.pending = TRUE]
  /\ UNCHANGED <<surface, abr, q, drain, pictq, render, vout, pipe, app,
                 reader, left, misrelease>>

\* Does the codec take another packet?
Room == codec.load < (IF codec.java THEN Inputs ELSE FakeSize)

\* The switch of an adaptive source, seen by the input thread: the end of
\* stream is queued once and then waited for.
FeedEos ==
  /\ feed.pc = "data" /\ abr \in {"signal", "wait"}
  /\ FeedGoto("top")
  /\ IF abr = "signal" /\ codec.started /\ Room
     THEN abr' = "wait" /\ codec' = [codec EXCEPT !.load = @ + 1]
     ELSE UNCHANGED <<abr, codec>>
  /\ UNCHANGED <<request, surface, q, drain, pictq, render, vout, pipe, app,
                 reader, left, misrelease>>

FeedGotEos ==
  /\ feed.pc = "data" /\ abr \in {"none", "got"}
  /\ FeedGoto("surface")
  /\ abr' = "none"
  /\ request' = IF abr = "got" THEN [request EXCEPT !.recreate = TRUE, !.need = TRUE]
                ELSE request
  /\ UNCHANGED <<codec, surface, q, drain, pictq, render, vout, pipe, app,
                 reader, left, misrelease>>

\* A new surface, or a format to recreate: the surface is taken from the
\* pipeline under surface_mutex; the same surface is used further.
TakeSurface ==
  /\ feed.pc = "surface" /\ request.need
  /\ request' = [request EXCEPT !.need = FALSE, !.recreate = FALSE]
  /\ IF pipe = surface /\ ~request.recreate
     THEN FeedGoto("input") /\ UNCHANGED <<drain, pictq>>
     ELSE /\ feed' = [feed EXCEPT !.pc = IF codec.started THEN "stopping" ELSE "stopped",
                                  !.surface = pipe]
          /\ IF codec.started THEN InvalidateAll ELSE UNCHANGED <<drain, pictq>>
  /\ UNCHANGED <<codec, surface, abr, q, render, vout, pipe, app, reader, left,
                 misrelease>>

\* reconfigure_codec_l, under acodec_mutex: the codec is stopped, which takes
\* its buffers back, and gets another object serial.
StopCodec ==
  /\ feed.pc = "stopping"
  /\ codec' = [codec EXCEPT !.started = FALSE, !.gen = @ + 1, !.held = {},
                            !.load = 0, !.fake = 0]
  /\ FeedGoto("stopped")
  /\ UNCHANGED <<request, surface, abr, q, drain, pictq, render, vout, pipe,
                 app, reader, left, misrelease>>

\* Then it is let go, a new one is created on the new surface, and the video
\* output learns of it.  A surface that went away makes configure fail: the
\* output is left without codec.
Reconfigured(ok) ==
  /\ codec' = NewCodec(feed.surface, codec.gen + 1, ok)
  /\ surface' = feed.surface
  /\ request' = IF ok THEN [request EXCEPT !.first = TRUE] ELSE request
  /\ FeedGoto(IF ok THEN "first" ELSE "top")
  /\ vout' = [vout EXCEPT !.attached = ok]
  /\ InvalidateAll
Reconfigure ==
  /\ feed.pc = "stopped"
  /\ \/ Reconfigured(TRUE) /\ UNCHANGED left
     \/ /\ feed.surface # NoSurface /\ left.failures > 0
        /\ left' = [left EXCEPT !.failures = @ - 1]
        /\ Reconfigured(FALSE)
  /\ UNCHANGED <<abr, q, render, pipe, app, reader, misrelease>>

\* The input thread lets the output thread ask the new codec first.
FirstWait ==
  /\ feed.pc = "first" /\ (q.abort \/ request.flush \/ ~request.first)
  /\ FeedGoto(IF q.abort \/ request.flush THEN "top" ELSE "input")
  /\ UNCHANGED <<codec, request, surface, abr, q, drain, pictq, render, vout,
                 pipe, app, reader, left, misrelease>>

\* The packet is written to an input buffer, which drops fake frames; or it
\* waits for one.  A codec that was not started has no valid input buffers:
\* a fake frame stands for the packet, and a full queue of them ends the
\* input thread.
FeedInput ==
  /\ feed.pc = "input" \/ (feed.pc = "surface" /\ ~request.need)
  /\ IF codec.started
     THEN IF Room
          THEN /\ codec' = [codec EXCEPT !.load = @ + 1, !.fake = 0]
               /\ feed' = [feed EXCEPT !.pc = "top", !.pending = FALSE, !.fed = TRUE]
          ELSE FeedGoto("top") /\ UNCHANGED codec
     ELSE IF codec.fake < FakeSize
          THEN /\ codec' = [codec EXCEPT !.fake = @ + 1]
               /\ feed' = [feed EXCEPT !.pc = "top", !.pending = FALSE, !.fed = TRUE]
          ELSE FeedGoto("end") /\ UNCHANGED codec
  /\ UNCHANGED <<request, surface, abr, q, drain, pictq, render, vout, pipe,
                 app, reader, left, misrelease>>

-----------------------------------------------------------------------------
\* The output thread.  Waiting for acodec_cond before it asks the codec ends
\* by a timeout too, so nothing depends on it.

DrainGoto(pc, p) == drain' = [drain EXCEPT !.pc = pc, !.proxy = p]

\* drain_output_buffer and amc_fill_frame, under acodec_mutex: a fake frame
\* first, then an output buffer.
DrainFrame ==
  /\ drain.pc = "top" /\ ~q.abort /\ ~Locked
  /\ \/ /\ codec.fake > 0
        /\ codec' = [codec EXCEPT !.fake = @ - 1]
        /\ drain' = [pc |-> "first", ever |-> TRUE,
                     proxy |-> [idx |-> Fake, serial |-> codec.serial, gen |-> 0]]
     \/ /\ codec.fake = 0 /\ codec.started /\ codec.load > 0
        /\ \E i \in IF codec.java THEN Outputs \ codec.held ELSE {Fake} :
             /\ codec' = [codec EXCEPT !.load = @ - 1,
                                       !.held = IF codec.java THEN @ \cup {i} ELSE @]
             /\ drain' = [pc |-> "first", ever |-> TRUE,
                          proxy |-> [idx |-> i, serial |-> codec.serial,
                                     gen |-> codec.gen]]
  /\ UNCHANGED <<request, surface, abr, q, feed, pictq, render, vout, pipe,
                 app, reader, left, misrelease>>

\* Nothing to take within the timeout, which a switch reads as the end of
\* the old stream.
DrainNothing ==
  /\ drain.pc = "top" /\ ~q.abort /\ ~Locked /\ codec.fake = 0
  /\ abr' = IF abr = "wait" THEN "got" ELSE abr
  /\ DrainGoto("first", NoProxy)
  /\ UNCHANGED <<codec, request, surface, q, feed, pictq, render, vout, pipe,
                 app, reader, left, misrelease>>

\* A codec that never gave a frame is given up, before the input thread is
\* told that it was asked.
DrainGivesUp ==
  /\ drain.pc = "first" /\ drain.proxy = NoProxy /\ ~drain.ever
  /\ left.failures > 0 /\ left' = [left EXCEPT !.failures = @ - 1]
  /\ DrainGoto("join", NoProxy)
  /\ UNCHANGED <<codec, request, surface, abr, q, feed, pictq, render, vout,
                 pipe, app, reader, misrelease>>

\* Mutant: the input thread is not told.
DrainFirstSilent ==
  /\ drain.pc = "first"
  /\ IF q.abort
     THEN Release(drain.proxy) /\ DrainGoto("join", NoProxy)
     ELSE /\ UNCHANGED <<codec, misrelease>>
          /\ DrainGoto(IF drain.proxy = NoProxy THEN "top" ELSE "queue", drain.proxy)
  /\ UNCHANGED <<request, surface, abr, q, feed, pictq, render, vout, pipe, app,
                 reader, left>>

\* The input thread is told; an aborted queue ends the loop.
DrainFirst ==
  /\ drain.pc = "first"
  /\ request' = [request EXCEPT !.first = FALSE]
  /\ IF q.abort
     THEN Release(drain.proxy) /\ DrainGoto("join", NoProxy)
     ELSE /\ UNCHANGED <<codec, misrelease>>
          /\ DrainGoto(IF drain.proxy = NoProxy THEN "top" ELSE "queue", drain.proxy)
  /\ UNCHANGED <<surface, abr, q, feed, pictq, render, vout, pipe, app, reader,
                 left>>

\* ffp_queue_picture: the picture gets the serial the decoder has now.
DrainQueues ==
  /\ drain.pc = "queue" /\ ~q.abort
  /\ Len(pictq.next) + Len(pictq.shown) < RingSize
  /\ pictq' = [pictq EXCEPT !.next =
                 Append(@, [proxy |-> drain.proxy, serial |-> feed.serial])]
  /\ DrainGoto("top", NoProxy)
  /\ UNCHANGED <<codec, request, surface, abr, q, feed, render, vout, pipe,
                 app, reader, left, misrelease>>

\* Mutant: the buffer of a dropped picture is kept.
DrainDropsLeaks ==
  /\ drain.pc = "queue"
  /\ DrainGoto("top", NoProxy)
  /\ UNCHANGED <<codec, request, surface, abr, q, feed, pictq, render, vout,
                 pipe, app, reader, left, misrelease>>

\* A late picture is dropped; so is the one that an aborted queue refuses.
DrainDrops ==
  /\ drain.pc = "queue"
  /\ Release(drain.proxy)
  /\ DrainGoto("top", NoProxy)
  /\ UNCHANGED <<request, surface, abr, q, feed, pictq, render, vout, pipe, app,
                 reader, left>>

DrainAborted ==
  /\ drain.pc = "top" /\ q.abort
  /\ DrainGoto("join", NoProxy)
  /\ UNCHANGED <<codec, request, surface, abr, q, feed, pictq, render, vout,
                 pipe, app, reader, left, misrelease>>

\* The end of func_run_sync: the input thread is joined, every buffer
\* invalidated and the codec stopped.
DrainEnds ==
  /\ drain.pc = "join" /\ feed.pc = "end"
  /\ drain' = [drain EXCEPT !.pc = "end"]
  /\ pictq' = [next |-> ForgetFrames(pictq.next), shown |-> ForgetFrames(pictq.shown)]
  /\ codec' = [codec EXCEPT !.started = FALSE, !.gen = @ + 1, !.held = {},
                            !.load = 0, !.fake = 0,
                            !.serial = IF codec.java THEN codec.gen + 1 ELSE @]
  /\ UNCHANGED <<request, surface, abr, q, feed, render, vout, pipe, app,
                 reader, left, misrelease>>

-----------------------------------------------------------------------------
\* video_refresh: frame_queue_next releases the picture shown so far and the
\* next one takes its place; one that is not outdated is then displayed.
RenderNext ==
  /\ render = "idle" /\ pictq.next # <<>>
  /\ pictq' = [next |-> Tail(pictq.next), shown |-> <<Head(pictq.next)>>]
  /\ render' = IF Head(pictq.next).serial = q.serial THEN "display" ELSE "idle"
  /\ IF pictq.shown = <<>> THEN UNCHANGED <<codec, misrelease>>
     ELSE Release(pictq.shown[1].proxy)
  /\ UNCHANGED <<request, surface, abr, q, feed, drain, vout, pipe, app, reader,
                 left>>

\* func_display_overlay_l: without a window nothing is displayed.
Display ==
  /\ render = "display"
  /\ render' = "idle"
  /\ IF vout.window = NoSurface THEN UNCHANGED <<codec, pictq, misrelease>>
     ELSE /\ Release(pictq.shown[1].proxy)
          /\ pictq' = [pictq EXCEPT !.shown[1].proxy = NoProxy]
  /\ UNCHANGED <<request, surface, abr, q, feed, drain, vout, pipe, app, reader,
                 left>>

-----------------------------------------------------------------------------
\* ijkmp_android_set_surface_l: first the window of the video output, then
\* the surface of the pipeline.
SetWindow(s) ==
  /\ app.pc = "idle" /\ left.surfaces > 0
  /\ left' = [left EXCEPT !.surfaces = @ - 1]
  /\ app' = [pc |-> "surface", surface |-> s]
  /\ vout' = [vout EXCEPT !.window = s]
  /\ IF vout.window # s \/ s = NoSurface THEN InvalidateAll
     ELSE UNCHANGED <<drain, pictq>>
  /\ UNCHANGED <<codec, request, surface, abr, q, feed, render, pipe, reader,
                 misrelease>>

\* ffpipeline_set_surface: another surface takes the codec from the output
\* until the input thread has reconfigured it.
SetSurface ==
  /\ app.pc = "surface"
  /\ app' = [app EXCEPT !.pc = "idle"]
  /\ IF app.surface = pipe THEN UNCHANGED <<request, vout, pipe, drain, pictq>>
     ELSE /\ pipe' = app.surface
          /\ request' = [request EXCEPT !.need = TRUE]
          /\ Detach
  /\ UNCHANGED <<codec, surface, abr, q, feed, render, reader, left, misrelease>>

\* read_thread seeks: ffpipenode_flush, then the queue is emptied and the
\* flush marker put.
SeekRequests ==
  /\ reader = "idle" /\ ~q.abort /\ left.seeks > 0
  /\ left' = [left EXCEPT !.seeks = @ - 1]
  /\ reader' = "seek"
  /\ request' = [request EXCEPT !.flush = TRUE]
  /\ UNCHANGED <<codec, surface, abr, q, feed, drain, pictq, render, vout,
                 pipe, app, misrelease>>

SeekMarks ==
  /\ reader = "seek"
  /\ reader' = "idle"
  /\ q' = [q EXCEPT !.serial = @ + 1, !.marker = TRUE]
  /\ UNCHANGED <<codec, request, surface, abr, feed, drain, pictq, render, vout,
                 pipe, app, left, misrelease>>

\* decoder_abort: packet_queue_abort; the decoder thread is joined by the end
\* of drain.
Abort ==
  /\ ~q.abort /\ reader = "idle"
  /\ q' = [q EXCEPT !.abort = TRUE]
  /\ UNCHANGED <<codec, request, surface, abr, feed, drain, pictq, render, vout,
                 pipe, app, reader, left, misrelease>>

FeedStep ==
  \/ FeedEnds \/ FeedGet \/ FeedAgain \/ FeedTakes \/ FeedFlushes
  \/ FlushCodec \/ FlushDone \/ FeedEos \/ FeedGotEos \/ TakeSurface
  \/ StopCodec \/ Reconfigure \/ FirstWait \/ FeedInput
DrainStep ==
  \/ DrainFrame \/ DrainNothing \/ DrainFirst \/ DrainQueues \/ DrainDrops
  \/ DrainAborted \/ DrainEnds
RenderStep == RenderNext \/ Display

Next ==
  \/ FeedStep \/ DrainStep \/ DrainGivesUp \/ RenderStep
  \/ \E s \in Surfaces \cup {NoSurface} : SetWindow(s)
  \/ SetSurface \/ SeekRequests \/ SeekMarks \/ Abort

\* The threads run on, the codec decodes what it holds, and calls that were
\* begun are finished.  When the application calls is up to it.
Fairness ==
  /\ WF_vars(FeedStep) /\ WF_vars(DrainStep) /\ SF_vars(DrainFrame)
  /\ WF_vars(RenderStep) /\ WF_vars(SetSurface) /\ WF_vars(SeekMarks)

Spec == Init /\ [][Next]_vars /\ Fairness

-----------------------------------------------------------------------------
Proxies == [idx : Outputs \cup {Fake, Invalid}, serial : Nat, gen : Nat]
Pictures == [proxy : Proxies \cup {NoProxy}, serial : Nat]

TypeOK ==
  /\ codec \in [java : BOOLEAN, started : BOOLEAN, gen : Nat, serial : Nat,
                held : SUBSET Outputs, load : Nat, fake : 0..FakeSize]
  /\ request \in [flush : BOOLEAN, first : BOOLEAN, need : BOOLEAN, recreate : BOOLEAN]
  /\ {surface, pipe, vout.window} \subseteq Surfaces \cup {NoSurface}
  /\ vout.attached \in BOOLEAN
  /\ abr \in {"none", "signal", "wait", "got"}
  /\ q \in [serial : Nat, marker : BOOLEAN, abort : BOOLEAN]
  /\ drain.pc \in {"top", "first", "queue", "join", "end"}
  /\ drain.proxy \in Proxies \cup {NoProxy}
  /\ \A f \in {pictq.next, pictq.shown} : f \in Seq(Pictures)
  /\ Len(pictq.next) + Len(pictq.shown) <= RingSize /\ Len(pictq.shown) <= 1

\* The proxies in use, as a bag would: who holds them, and what.
Holders == {<<"drain", 1>>} \cup ({"next"} \X DOMAIN pictq.next)
           \cup ({"shown"} \X DOMAIN pictq.shown)
ProxyOf(h) == CASE h[1] = "drain" -> drain.proxy
                [] h[1] = "next"  -> pictq.next[h[2]].proxy
                [] h[1] = "shown" -> pictq.shown[h[2]].proxy
HoldsBuffer(h, i) ==
  /\ ProxyOf(h) # NoProxy
  /\ ProxyOf(h).idx = i /\ ProxyOf(h).gen = codec.gen /\ ProxyOf(h).serial = codec.serial

\* As long as the output knows the codec, which works on the surface of the
\* pipeline, each output buffer that the codec gave away is in exactly one
\* proxy that will bring it back, whatever seeks and surfaces came between.
NoBufferLost ==
  vout.attached /\ surface = pipe /\ app.pc = "idle" /\ ~Locked =>
    \A i \in codec.held : Cardinality({h \in Holders : HoldsBuffer(h, i)}) = 1

\* releaseOutputBuffer is only called for a buffer the codec gave away since
\* it took all of them back: a picture from before a flush or a
\* reconfiguration can neither be shown through a buffer that another picture
\* has by now, nor free it.
ReleasedByOwner == ~misrelease

\* The threads do what they owe the player: after abort they end; a flush marker is
\* taken from the queue; a surface that was set is taken, and an adaptive
\* switch finishes.  Excepted are a decoder that gave up, an input thread that
\* ended on a failed reconfiguration, and one that is Starved: the codec has
\* no input buffer for the end of the stream because a surface was taken away
\* and its output buffers are forgotten.
Ended   == q.abort \/ feed.pc = "end" \/ drain.pc \in {"join", "end"}
Starved == abr = "signal" /\ ~vout.attached
Owed ==
  \/ q.abort /\ drain.pc # "end"
  \/ q.marker /\ ~Ended
  \/ request.need /\ ~Ended /\ ~Starved
  \/ abr = "wait" /\ ~Ended

\* The log of feed_input_buffer says of a surface that was taken away and set
\* again before the input thread looked that the previous surface is reused:
\* the output would have to get the codec back.
SurfaceReused ==
  app.pc = "idle" /\ pipe # NoSurface /\ ~vout.attached
    ~> vout.attached \/ app.pc # "idle" \/ Ended \/ Starved
=============================================================================
