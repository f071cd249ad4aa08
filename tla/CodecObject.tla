---------------------------- MODULE CodecObject ----------------------------
(***************************************************************************)
(* The object SDL_AMediaCodec (ijksdl_codec_android_mediacodec.c) with its *)
(* two classes: the codec of Java (..._java.c) and the dummy of a node     *)
(* without surface (..._dummy.c), their queues of fake frames              *)
(* (..._internal.c), and what the node of the decoder                      *)
(* (ffpipenode_android_mediacodec_vdec.c) and the video output do with it: *)
(* references, serials, surfaces, formats and content keys.                *)
(*                                                                         *)
(* input  is enqueue_thread_func, output is func_run_sync, the application *)
(* sets surfaces (ffpipeline_set_surface) and stops.  MediaCodecNode has   *)
(* the buffers of one codec; here a codec is made, referred to, stopped    *)
(* and freed in steps of its own.  Java's MediaCodec and the manager of    *)
(* the content keys are external.  Memory is never short.                  *)
(***************************************************************************)
EXTENDS Integers, Sequences, FiniteSets

CONSTANTS
  Surfaces, NoSurface,
  Serials,     \* the width of g_amediacodec_object_serial
  FifoSize,    \* FAKE_BUFFER_QUEUE_SIZE
  Pictures,    \* how many pictures wait to be shown
  Plays        \* what is played: packets, the first surface, the manager of
               \* the keys, and budgets of seeks, moves (surfaces) and faults

VARIABLES
  play,     \* one of Plays, with what is left of its budgets
  amc,      \* every SDL_AMediaCodec made so far, and the last serial
  node,     \* of IJKFF_Pipenode_Opaque: acodec, jsurface, the formats ...
  vout,     \* SDL_Vout_Opaque: acodec, and the proxies in pictures
  pipe,     \* IJKFF_Pipeline_Opaque: jsurface, is_surface_need_reconfigure
  held,     \* global references to each surface
  mutex,    \* who holds acodec_mutex over several steps
  input, output,   \* the threads
  queue,    \* the packet queue: next, marker, abort
  session   \* of the content keys

vars == <<play, amc, node, vout, pipe, held, mutex, input, output, queue, session>>

-----------------------------------------------------------------------------
\* SDL_AMediaCodec_FakeFifo: an abort is for ever.

EmptyFifo   == [aborted |-> FALSE, size |-> 0]
Aborted(f)  == [f EXCEPT !.aborted = TRUE]
Flushed(f)  == IF f.aborted THEN f ELSE EmptyFifo
Room(f)     == ~f.aborted /\ f.size < FifoSize
Filled(f)   == ~f.aborted /\ f.size > 0
Put(f)      == [f EXCEPT !.size = @ + 1]
Taken(f)    == [f EXCEPT !.size = @ - 1]

-----------------------------------------------------------------------------
\* SDL_AMediaCodec.  gen is not in the code: it counts how often the codec
\* took its buffers back.

NoCodec == 0
Codec(a, c) == a.all[c]
Gone == [live |-> FALSE, java |-> FALSE, serial |-> 0, refs |-> 0, gen |-> 0,
         started |-> FALSE, valid |-> FALSE, size |-> <<0, 0>>, in |-> 0,
         fake |-> EmptyFifo, dummy |-> EmptyFifo]

\* Mutant: the serial of a codec may be that of a dummy.
NextSerialZero(n) == (n + 1) % Serials

\* SDL_AMediaCodec_create_object_serial: 0 is passed over.
NextSerial(n) == IF (n + 1) % Serials = 0 THEN 1 ELSE (n + 1) % Serials

\* A codec gets another serial.
Renamed(a, c) ==
  [all |-> [a.all EXCEPT ![c].serial = NextSerial(a.last)], last |-> NextSerial(a.last)]

\* SDL_AMediaCodecDummy_create, SDL_AMediaCodecJava_createByCodecName: the
\* one reference is for who called.
Created(a, java) ==
  LET new == [Gone EXCEPT !.live = TRUE, !.refs = 1, !.java = java, !.valid = ~java]
      b   == [a EXCEPT !.all = Append(@, new)]
  IN  IF java THEN Renamed(b, Len(b.all)) ELSE b

\* SDL_AMediaCodec_stop; a codec of Java that throws keeps its serial.
Stopped(a, c, ok) ==
  LET b == [a EXCEPT !.all[c].started = FALSE, !.all[c].fake = Aborted(@), !.all[c].in = 0]
  IN  IF ~Codec(a, c).java
      THEN [b EXCEPT !.all[c].valid = FALSE, !.all[c].dummy = Aborted(@)]
      ELSE IF ok THEN Renamed([b EXCEPT !.all[c].gen = @ + 1], c) ELSE b

\* SDL_AMediaCodec_flush
FlushedCodec(a, c, ok) ==
  LET b == [a EXCEPT !.all[c].fake = Flushed(@), !.all[c].in = 0]
  IN  IF ~Codec(a, c).java THEN [b EXCEPT !.all[c].dummy = Flushed(@)]
      ELSE IF ok THEN Renamed([b EXCEPT !.all[c].gen = @ + 1], c) ELSE b

\* Mutant: a codec is freed when one reference is left.
LastReference(a, c) == Codec(a, c).refs <= 2

\* SDL_AMediaCodec_increaseReference, SDL_AMediaCodec_decreaseReferenceP: the
\* last one stops the codec and frees it.
IsLast(a, c)   == Codec(a, c).refs = 1
Referred(a, c) == IF c = NoCodec THEN a ELSE [a EXCEPT !.all[c].refs = @ + 1]
Dropped(a, c) ==
  IF c = NoCodec THEN a
  ELSE IF ~IsLast(a, c) THEN [a EXCEPT !.all[c].refs = @ - 1]
  ELSE LET b == IF Codec(a, c).started THEN Stopped(a, c, TRUE) ELSE a
       IN  [b EXCEPT !.all[c] = Gone]

\* SDL_AMediaCodecFake_abort
FakesAborted(a, c) == IF c = NoCodec THEN a ELSE [a EXCEPT !.all[c].fake = Aborted(@)]

\* SDL_AMediaCodec_configure_surface and SDL_AMediaCodec_start: a codec that
\* fails (bad is "configure" or "start") is not started.
Configured(a, c, size, bad) ==
  [a EXCEPT !.all[c].size = size, !.all[c].started = (bad = "none"),
            !.all[c].valid = @ \/ bad # "configure"]

-----------------------------------------------------------------------------
\* The video output; each operator is a critical section of vout->mutex.

\* SDL_AMediaCodecBufferProxy_invalidate
Invalid == [valid |-> FALSE, serial |-> 0, of |-> NoCodec, gen |-> 0, fake |-> FALSE]
Invalidated(v) == [v EXCEPT !.proxies = [i \in DOMAIN @ |-> Invalid]]

\* SDL_VoutAndroid_setAMediaCodec_l
Swapped(v, c) == IF v.acodec = c THEN v ELSE [Invalidated(v) EXCEPT !.acodec = c]
Exchanged(a, v, c) == IF v.acodec = c THEN a ELSE Referred(Dropped(a, v.acodec), c)
SetAMediaCodec(c) == vout' = Swapped(vout, c) /\ amc' = Exchanged(amc, vout, c)

-----------------------------------------------------------------------------

Packet == play.packets[input.packet]
Mine   == Codec(amc, node.acodec)

\* A reference to a surface moves from one owner to another.
Moved(from, to) ==
  [s \in Surfaces |-> held[s] + (IF s = to THEN 1 ELSE 0) - (IF s = from THEN 1 ELSE 0)]

Tries(ok) ==
  /\ ok \/ play.faults > 0
  /\ play' = IF ok THEN play ELSE [play EXCEPT !.faults = @ - 1]

\* ffpipenode_create_video_decoder_from_android_mediacodec makes a codec for
\* the surface; ffpipenode_init_decoder_from_android_mediacodec (early) one
\* of Java before a surface is known.
First == Created([all |-> <<>>, last |-> play.serial],
                 play.early \/ play.surface # NoSurface)
Crypto(surface) == play.manager = "ready" /\ surface # NoSurface

Init ==
  /\ play \in Plays
  /\ amc = Referred(Configured(First, 1, play.size, "none"), 1)
  /\ node = [acodec |-> 1, surface |-> play.surface, size |-> play.size,
             format |-> play.size, recreate |-> FALSE, first |-> TRUE,
             crypto |-> Crypto(play.surface), fed |-> FALSE]
  /\ vout = [acodec |-> 1, proxies |-> <<>>]
  /\ pipe = [surface |-> play.surface, need |-> play.surface # NoSurface]
  /\ held = [s \in Surfaces |-> IF s = play.surface THEN 2 ELSE 0]
  /\ mutex = "free"
  /\ input = [pc |-> "get", packet |-> 0, new |-> NoSurface, guarded |-> TRUE,
              raced |-> FALSE, count |-> 0, length |-> 0]
  /\ output = [pc |-> "top", codec |-> NoCodec, frame |-> FALSE]
  /\ queue = [next |-> 1, marker |-> FALSE, abort |-> FALSE]
  /\ session = IF play.manager = "ready" THEN "loaded" ELSE "none"

InputTo(pc)  == input' = [input EXCEPT !.pc = pc]
OutputTo(pc) == output' = [output EXCEPT !.pc = pc]

-----------------------------------------------------------------------------
\* The input thread, feed_input_buffer.

\* The end of enqueue_thread_func.
Ends == InputTo("end") /\ amc' = FakesAborted(amc, node.acodec)

InputEnds ==
  /\ input.pc \in {"get", "key"} /\ queue.abort
  /\ Ends
  /\ UNCHANGED <<play, node, vout, pipe, held, mutex, output, queue, session>>

\* A flush packet: the codec is flushed if it runs and had a packet.
Flush ==
  /\ input.pc = "get" /\ ~queue.abort /\ queue.marker /\ mutex = "free"
  /\ queue' = [queue EXCEPT !.marker = FALSE]
  /\ input' = [input EXCEPT !.packet = 0]
  /\ IF Mine.started /\ node.fed
     THEN /\ \E ok \in BOOLEAN : Tries(ok) /\ amc' = FlushedCodec(amc, node.acodec, ok)
          /\ vout' = Invalidated(vout) /\ node' = [node EXCEPT !.fed = FALSE]
     ELSE UNCHANGED <<play, amc, vout, node>>
  /\ UNCHANGED <<pipe, held, mutex, output, session>>

\* Packets with new parameters (mediacodec_handle_resolution_change): only if
\* both sides differ.
Resizes(p) == p.size # <<>> /\ p.size[1] # node.size[1] /\ p.size[2] # node.size[2]

\* A packet is taken, or the pending one is tried again.
Get ==
  /\ input.pc = "get" /\ ~queue.abort /\ ~queue.marker
  /\ IF input.packet # 0
     THEN /\ InputTo(IF Packet.drm THEN "drm" ELSE "surface")
          /\ UNCHANGED <<queue, node, pipe>>
     ELSE /\ queue.next <= Len(play.packets)
          /\ LET p == play.packets[queue.next]
             IN  /\ input' = [input EXCEPT !.packet = queue.next,
                                           !.pc = IF p.drm THEN "drm" ELSE "surface"]
                 /\ IF Resizes(p)
                    THEN /\ node' = [node EXCEPT !.size = p.size, !.recreate = TRUE]
                         /\ pipe' = [pipe EXCEPT !.need = TRUE]
                    ELSE UNCHANGED <<node, pipe>>
          /\ queue' = [queue EXCEPT !.next = @ + 1]
  /\ UNCHANGED <<play, amc, vout, held, mutex, output, session>>

\* ffp_update_drm_init_info2: the manager is asked for the keys; if it has no
\* session for them, the thread ends.
Acquire ==
  /\ input.pc = "drm"
  /\ \E ok \in BOOLEAN :
       /\ Tries(ok)
       /\ IF ok THEN InputTo("key") /\ UNCHANGED amc ELSE Ends
       /\ session' = IF ok /\ session = "none" THEN "loading" ELSE session
  /\ UNCHANGED <<node, vout, pipe, held, mutex, output, queue>>

\* Mutant: nobody waits for the keys.
KeyThereSoon == TRUE

KeyThere == session = "loaded"
WaitKey ==
  /\ input.pc = "key" /\ KeyThere
  /\ InputTo("surface")
  /\ UNCHANGED <<play, amc, node, vout, pipe, held, mutex, output, queue, session>>

\* Mutant: the same surface is enough to keep the codec.
ReusesBySurface == node.surface = pipe.surface

\* ffpipeline_get_surface_as_global_ref_l, and the choice to reuse the codec.
Reuses == ~node.recreate /\ node.surface = pipe.surface
LookAtSurface ==
  /\ input.pc = "surface"
  /\ pipe' = [pipe EXCEPT !.need = FALSE]
  /\ IF ~pipe.need \/ Reuses
     THEN InputTo("crypto") /\ UNCHANGED held
     ELSE /\ input' = [input EXCEPT !.pc = IF node.recreate THEN "format" ELSE "lock",
                                    !.new = pipe.surface, !.guarded = TRUE]
          /\ held' = Moved(NoSurface, pipe.surface)
  /\ UNCHANGED <<play, amc, node, vout, mutex, output, queue, session>>

\* recreate_format_l; if it fails the thread ends, and keeps its reference.
RecreateFormat ==
  /\ input.pc = "format"
  /\ \E ok \in BOOLEAN :
       /\ Tries(ok)
       /\ IF ok THEN /\ InputTo("lock") /\ UNCHANGED amc
                     /\ node' = [node EXCEPT !.format = node.size, !.recreate = FALSE]
          ELSE Ends /\ UNCHANGED node
  /\ UNCHANGED <<vout, pipe, held, mutex, output, queue, session>>

Lock ==
  /\ input.pc = "lock" /\ mutex = "free"
  /\ mutex' = "input" /\ InputTo("stop")
  /\ UNCHANGED <<play, amc, node, vout, pipe, held, output, queue, session>>

\* Nothing was configured with keys: the codec is made anew, without the mutex.
WithoutKeys ==
  /\ input.pc = "crypto"
  /\ IF Packet.drm /\ ~node.crypto
     THEN /\ input' = [input EXCEPT !.pc = "stop", !.guarded = FALSE, !.new = pipe.surface]
          /\ held' = Moved(NoSurface, pipe.surface)
     ELSE InputTo("feed") /\ UNCHANGED held
  /\ UNCHANGED <<play, amc, node, vout, pipe, mutex, output, queue, session>>

\* reconfigure_codec_l, in steps; raced tells that one was not guarded by the
\* mutex, so that the output thread may have been in the codec.
ReconfigureTo(pc) == input' = [input EXCEPT !.pc = pc, !.raced = @ \/ ~input.guarded]

\* Mutant: the old surface stays referred to.
SwapSurfaceKeeps == held' = Moved(NoSurface, input.new)

\* The surface of the node changes; the codec stops.
SwapSurface == held' = Moved(node.surface, input.new)
StopOld ==
  /\ input.pc = "stop" /\ ReconfigureTo("drop")
  /\ SwapSurface
  /\ node' = [node EXCEPT !.surface = input.new]
  /\ IF Mine.started
     THEN /\ vout' = Invalidated(vout)
          /\ \E ok \in BOOLEAN : Tries(ok) /\ amc' = Stopped(amc, node.acodec, ok)
     ELSE UNCHANGED <<play, amc, vout>>
  /\ UNCHANGED <<pipe, mutex, output, queue, session>>

\* quirk_reconfigure_with_new_codec, which is always set
DropOld ==
  /\ input.pc = "drop" /\ ReconfigureTo("detach")
  /\ amc' = Dropped(amc, node.acodec) /\ node' = [node EXCEPT !.acodec = NoCodec]
  /\ UNCHANGED <<play, vout, pipe, held, mutex, output, queue, session>>

Detach ==
  /\ input.pc = "detach" /\ ReconfigureTo("create")
  /\ SetAMediaCodec(NoCodec)
  /\ UNCHANGED <<play, node, pipe, held, mutex, output, queue, session>>

\* create_codec_l; it is taken to make one.
CreateNew ==
  /\ input.pc = "create" /\ ReconfigureTo("configure")
  /\ amc' = Created(amc, node.surface # NoSurface)
  /\ node' = [node EXCEPT !.acodec = Len(amc'.all)]
  /\ UNCHANGED <<play, vout, pipe, held, mutex, output, queue, session>>

\* ffpipeline_get_media_crypto_l
HasCrypto ==
  node.crypto \/ (play.manager # "dummy" /\ session # "none" /\ node.surface # NoSurface)

\* After a failure the loop goes on with the packet pending.
Unlocks == mutex' = IF input.guarded THEN "free" ELSE mutex
Configure ==
  /\ input.pc = "configure"
  /\ \E bad \in IF Mine.java THEN {"none", "configure", "start"} ELSE {"none"} :
       /\ Tries(bad = "none")
       /\ amc' = Configured(amc, node.acodec, node.format, bad)
       /\ node' = [node EXCEPT !.crypto = HasCrypto, !.first = @ \/ bad = "none"]
       /\ IF bad = "none"
          THEN ReconfigureTo("attach") /\ UNCHANGED <<held, mutex>>
          ELSE /\ input' = [input EXCEPT !.pc = "get", !.new = NoSurface]
               /\ held' = Moved(input.new, NoSurface) /\ Unlocks
  /\ UNCHANGED <<vout, pipe, output, queue, session>>

Attach ==
  /\ input.pc = "attach"
  /\ input' = [input EXCEPT !.pc = IF input.guarded THEN "first" ELSE "feed", !.new = NoSurface]
  /\ SetAMediaCodec(node.acodec)
  /\ held' = Moved(input.new, NoSurface) /\ Unlocks
  /\ UNCHANGED <<play, node, pipe, output, queue, session>>

\* acodec_first_dequeue_output_cond
WaitFirst ==
  /\ input.pc = "first" /\ (queue.abort \/ ~node.first)
  /\ InputTo(IF queue.abort THEN "get" ELSE "crypto")
  /\ UNCHANGED <<play, amc, node, vout, pipe, held, mutex, output, queue, session>>

\* Mutant: the arrays are made once.
LengthKept(count) == IF input.count = 0 THEN count ELSE input.length

\* SDL_AMediaCodec_CryptoInfo_fill makes longer arrays for more entries than
\* the packet before had.
Length(count) == IF count > input.count THEN count ELSE input.length
Fed ==
  /\ node' = [node EXCEPT !.fed = TRUE]
  /\ input' = LET i == [input EXCEPT !.pc = "get", !.packet = 0]
              IN  IF ~Packet.encrypted THEN i
                  ELSE [i EXCEPT !.count = Packet.count, !.length = Length(Packet.count)]

\* SDL_AMediaCodec_dequeueInputBuffer gives a buffer: fake frames are out of
\* date, the packet is queued.
FeedCodec ==
  /\ input.pc = "feed" /\ Mine.java /\ Mine.started /\ Mine.in = 0
  /\ amc' = [amc EXCEPT !.all[node.acodec].fake = Flushed(@), !.all[node.acodec].in = 1]
  /\ Fed
  /\ UNCHANGED <<play, vout, pipe, held, mutex, output, queue, session>>
FeedDummy ==
  /\ input.pc = "feed" /\ ~Mine.java /\ Room(Mine.dummy)
  /\ amc' = [amc EXCEPT !.all[node.acodec].fake = Flushed(@), !.all[node.acodec].dummy = Put(@)]
  /\ Fed
  /\ UNCHANGED <<play, vout, pipe, held, mutex, output, queue, session>>

\* A codec that does not run, or fails, throws, and its buffers are not valid
\* until it is configured again: from then on fake frames take the place of
\* its pictures whenever it has no buffer, as long as there is room.
FeedFake ==
  /\ input.pc = "feed" /\ Mine.java
  /\ \/ Tries(~Mine.started)
     \/ Mine.started /\ Mine.in > 0 /\ ~Mine.valid /\ UNCHANGED play
  /\ LET a == [amc EXCEPT !.all[node.acodec].valid = FALSE]
     IN  IF Room(Mine.fake) /\ ~Packet.encrypted
         THEN amc' = [a EXCEPT !.all[node.acodec].fake = Put(@)] /\ Fed
         ELSE amc' = FakesAborted(a, node.acodec) /\ InputTo("end") /\ UNCHANGED node
  /\ UNCHANGED <<vout, pipe, held, mutex, output, queue, session>>

\* No buffer in time: the packet stays pending as long as buffers are valid.
NoBuffer == IF Mine.java THEN Mine.started /\ Mine.in > 0 /\ Mine.valid ELSE ~Room(Mine.dummy)
FeedLater ==
  /\ input.pc = "feed" /\ NoBuffer
  /\ InputTo("get")
  /\ UNCHANGED <<play, amc, node, vout, pipe, held, mutex, output, queue, session>>

-----------------------------------------------------------------------------
\* The output thread, func_run_sync.

\* Mutant: drain_output_buffer does not take the mutex.
MayEnterAnyTime == TRUE

\* drain_output_buffer enters the codec with the mutex.
MayEnter == mutex = "free"
Enter ==
  /\ output.pc = "top" /\ ~queue.abort /\ MayEnter
  /\ output' = [output EXCEPT !.pc = "in", !.codec = node.acodec]
  /\ mutex' = "output"
  /\ UNCHANGED <<play, amc, node, vout, pipe, held, input, queue, session>>

\* SDL_AMediaCodecFake_dequeueOutputBuffer: a fake frame first.  What a codec
\* that is gone would give is not said: here nothing.
Gives(c) ==
  IF c = NoCodec \/ ~Codec(amc, c).live THEN "nothing"
  ELSE CASE Filled(Codec(amc, c).fake)  -> "fake"
         [] Filled(Codec(amc, c).dummy) -> "dummy"
         [] Codec(amc, c).started /\ Codec(amc, c).in > 0 -> "picture"
         [] OTHER -> "nothing"
AfterGiving(c, what) ==
  CASE what = "fake"    -> [amc EXCEPT !.all[c].fake = Taken(@)]
    [] what = "dummy"   -> [amc EXCEPT !.all[c].dummy = Taken(@)]
    [] what = "picture" -> [amc EXCEPT !.all[c].in = 0]
    [] OTHER            -> amc
Proxy(c, what) ==
  [valid |-> TRUE, serial |-> Codec(amc, c).serial, of |-> c, gen |-> Codec(amc, c).gen,
   fake |-> what # "picture"]

\* amc_fill_frame: the proxy gets the serial of the codec that the node has.
Dequeue ==
  /\ output.pc = "in"
  /\ \E what \in {Gives(output.codec), "nothing"} :
       /\ what # "nothing" => node.acodec # NoCodec
       /\ output' = [output EXCEPT !.pc = "show", !.frame = what # "nothing"]
       /\ amc' = AfterGiving(output.codec, what)
       /\ vout' = IF what = "nothing" THEN vout
                  ELSE [vout EXCEPT !.proxies = Append(@, Proxy(node.acodec, what))]
  /\ mutex' = "free"
  /\ UNCHANGED <<play, node, pipe, held, input, queue, session>>

\* The first answer is told, and the picture waits to be shown; after an abort
\* its buffer goes back at once.
Show ==
  /\ output.pc = "show"
  /\ output.frame => queue.abort \/ Len(vout.proxies) <= Pictures
  /\ output' = [output EXCEPT !.pc = "top", !.codec = NoCodec, !.frame = FALSE]
  /\ node' = [node EXCEPT !.first = FALSE]
  /\ vout' = IF output.frame /\ queue.abort
             THEN [vout EXCEPT !.proxies = SubSeq(@, 1, Len(@) - 1)] ELSE vout
  /\ UNCHANGED <<play, amc, pipe, held, mutex, input, queue, session>>

\* The end of func_run_sync.
Join ==
  /\ output.pc = "top" /\ queue.abort /\ input.pc = "end"
  /\ OutputTo("stop")
  /\ vout' = Invalidated(vout) /\ amc' = FakesAborted(amc, node.acodec)
  /\ UNCHANGED <<play, node, pipe, held, mutex, input, queue, session>>
StopLast ==
  /\ output.pc = "stop"
  /\ OutputTo("end")
  /\ \E ok \in BOOLEAN : Tries(ok) /\ amc' = Dropped(Stopped(amc, node.acodec, ok), node.acodec)
  /\ node' = [node EXCEPT !.acodec = NoCodec]
  /\ UNCHANGED <<vout, pipe, held, mutex, input, queue, session>>

-----------------------------------------------------------------------------
\* The others.

\* The picture shown longest goes: SDL_VoutAndroid_releaseBufferProxy.  It is
\* not the one that the output thread still has.
Render ==
  /\ Len(vout.proxies) > (IF output.frame THEN 1 ELSE 0)
  /\ vout' = [vout EXCEPT !.proxies = Tail(@)]
  /\ UNCHANGED <<play, amc, node, pipe, held, mutex, input, output, queue, session>>

\* ffpipeline_set_surface
SetSurface(s) ==
  /\ play.moves > 0 /\ output.pc # "freed"
  /\ play' = [play EXCEPT !.moves = @ - 1]
  /\ IF s = pipe.surface THEN UNCHANGED <<amc, vout, pipe, held>>
     ELSE /\ SetAMediaCodec(NoCodec)
          /\ pipe' = [surface |-> s, need |-> TRUE] /\ held' = Moved(pipe.surface, s)
  /\ UNCHANGED <<node, mutex, input, output, queue, session>>

KeyLoads ==
  /\ session = "loading" /\ session' = "loaded"
  /\ UNCHANGED <<play, amc, node, vout, pipe, held, mutex, input, output, queue>>

\* read_thread flushes the queue and reads from the beginning.
Seek ==
  /\ play.seeks > 0 /\ ~queue.abort
  /\ play' = [play EXCEPT !.seeks = @ - 1]
  /\ queue' = [queue EXCEPT !.next = 1, !.marker = TRUE]
  /\ UNCHANGED <<amc, node, vout, pipe, held, mutex, input, output, session>>

Abort ==
  /\ ~queue.abort /\ queue' = [queue EXCEPT !.abort = TRUE]
  /\ UNCHANGED <<play, amc, node, vout, pipe, held, mutex, input, output, session>>

\* func_destroy of the node, func_free_l of the video output and func_destroy
\* of the pipeline.
Free ==
  /\ output.pc = "end"
  /\ OutputTo("freed")
  /\ amc' = Dropped(Dropped(amc, node.acodec), vout.acodec)
  /\ node' = [node EXCEPT !.acodec = NoCodec, !.surface = NoSurface]
  /\ vout' = [acodec |-> NoCodec, proxies |-> <<>>]
  /\ pipe' = [pipe EXCEPT !.surface = NoSurface]
  /\ held' = [s \in Surfaces |-> held[s] - (IF s = node.surface THEN 1 ELSE 0)
                                         - (IF s = pipe.surface THEN 1 ELSE 0)]
  /\ UNCHANGED <<play, mutex, input, queue, session>>

InputStep ==
  \/ InputEnds \/ Flush \/ Get \/ Acquire \/ WaitKey \/ LookAtSurface \/ RecreateFormat
  \/ Lock \/ WithoutKeys \/ StopOld \/ DropOld \/ Detach \/ CreateNew \/ Configure
  \/ Attach \/ WaitFirst \/ FeedCodec \/ FeedDummy \/ FeedFake \/ FeedLater
OutputStep == Enter \/ Dequeue \/ Show \/ Join \/ StopLast

Next ==
  \/ InputStep \/ OutputStep \/ Render
  \/ \E s \in Surfaces \cup {NoSurface} : SetSurface(s)
  \/ KeyLoads \/ Seek \/ Abort \/ Free

Spec == Init /\ [][Next]_vars /\ WF_vars(InputStep) /\ WF_vars(OutputStep)

-----------------------------------------------------------------------------
Ids == DOMAIN amc.all

\* The type of the state.
TypeOK ==
  /\ node.acodec \in Ids \cup {NoCodec} /\ vout.acodec \in Ids \cup {NoCodec}
  /\ held \in [Surfaces -> 0..3] /\ mutex \in {"free", "input", "output"}
  /\ pipe.surface \in Surfaces \cup {NoSurface}
  /\ \A c \in Ids : amc.all[c].fake.size \in 0..FifoSize /\ amc.all[c].dummy.size \in 0..FifoSize

\* A codec lives as long as the node or the video output refers to it, and
\* each of them has one reference (ref_count).
RefsCounted ==
  \A c \in Ids :
    /\ amc.all[c].refs = (IF node.acodec = c THEN 1 ELSE 0) + (IF vout.acodec = c THEN 1 ELSE 0)
    /\ amc.all[c].live <=> amc.all[c].refs > 0

\* The output thread is in a codec that lives and is the one of the node, if
\* every reconfiguration took acodec_mutex.
UsedAlive ==
  output.pc = "in" /\ ~input.raced =>
    output.codec # NoCodec /\ Codec(amc, output.codec).live /\ output.codec = node.acodec

\* A proxy whose buffer the video output gives to its codec, as the serials
\* are the same, has its buffer from that codec, which has not taken it back
\* (SDL_VoutAndroid_releaseBufferProxy_l): even after the serials wrapped.
RightOwner ==
  ~input.raced /\ vout.acodec # NoCodec =>
    \A i \in DOMAIN vout.proxies :
      LET p == vout.proxies[i]
      IN  p.valid /\ ~p.fake /\ p.serial = Codec(amc, vout.acodec).serial =>
            p.of = vout.acodec /\ p.gen = Codec(amc, vout.acodec).gen

\* Only a dummy has the serial of no codec.
SerialsApart == \A c \in Ids : amc.all[c].live => (amc.all[c].java <=> amc.all[c].serial # 0)

\* The codec that is fed has a queue of fake frames that serves, and is
\* configured for the size of the pictures.
Feeding == input.pc = "feed" /\ ~queue.abort
FifoServes     == Feeding => ~Mine.fake.aborted /\ ~Mine.dummy.aborted
SizeConfigured == Feeding => Mine.size = node.size

\* A packet with keys is fed when its keys are there, and the description of
\* its encrypted parts fits into the arrays.
DrmReady     == input.pc = "feed" /\ Packet.drm => session = "loaded"
CryptoInside == input.count <= input.length

\* The surfaces are referred to by those who use them; a format that could not
\* be made leaves one reference behind.
SurfacesCounted ==
  \A s \in Surfaces :
    held[s] = (IF pipe.surface = s THEN 1 ELSE 0) + (IF node.surface = s THEN 1 ELSE 0)
              + (IF input.new = s THEN 1 ELSE 0)

\* Nothing is left when the player is freed.
NothingLeft == output.pc = "freed" => \A c \in Ids : ~amc.all[c].live

ObjectSound ==
  /\ TypeOK /\ RefsCounted /\ UsedAlive /\ RightOwner /\ SerialsApart /\ FifoServes
  /\ SizeConfigured /\ DrmReady /\ CryptoInside /\ SurfacesCounted /\ NothingLeft

\* The threads end after an abort.
Owing == queue.abort /\ output.pc \notin {"end", "freed"}
Ending == Owing ~> ~Owing

\* "request reconfigure before lock, or never get mutex"
\* (ffpipenode_android_mediacodec_vdec.c:1299): the codec that the output
\* thread is in is not freed.
CodecAlive == output.pc = "in" => output.codec # NoCodec /\ Codec(amc, output.codec).live
=============================================================================
