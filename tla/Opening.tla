------------------------------- MODULE Opening ------------------------------
(***************************************************************************)
(* The opening and the closing of a stream (ff_ffplay.c): stream_open      *)
(* builds a VideoState and starts its threads, read_thread opens the input *)
(* and a decoder for each stream before it reads, and stream_close takes   *)
(* everything down again.  Each step may fail.                             *)
(*                                                                         *)
(* A thread is named after what it runs; "aout" is that of the audio       *)
(* output.  A decoder's context is freed by whoever closes the decoder.    *)
(***************************************************************************)
EXTENDS Integers, Sequences, FiniteSets

CONSTANTS
  Contents,      \* sets of media that an input may hold
  Options,       \* records [wait, find, async, drm, subtitle]: start_on_prepared
                 \* and render_wait_start off, find_stream_info,
                 \* async_init_decoder, is_drm_source, subtitle
  MaxFaults      \* bound: steps that fail

Media == {"audio", "video", "sub"}
Threads == Media \cup {"vout", "read", "stat", "aout"}

VARIABLES
  opt, content,
  open,       \* where stream_open is, or what became of it
  read,       \* where read_thread is
  close,      \* where stream_close is, or "crashed", which ends the process
  is,         \* VideoState: abort_request, pause_req, initialized_decoder, and
              \* indexed: the stream indices are no longer 0 (av_mallocz)
  threads,    \* "none", "run", "end" or "joined"
  stream,     \* the media with a stream index
  ctx,        \* the decoder contexts: "none", "held", "freed", "leaked"
  input,      \* the AVFormatContext: "none", "open", "closed"
  msgs,       \* the messages posted
  bad,        \* what went wrong in memory: "joined twice", "freed twice"
  faults

vars == <<opt, content, open, read, close, is, threads, stream, ctx, input, msgs,
          bad, faults>>

Init ==
  /\ opt \in Options /\ content \in Contents
  /\ open = "build" /\ read = "none" /\ close = "none"
  /\ is = [abort |-> FALSE, pauseReq |-> FALSE, initialized |-> FALSE, indexed |-> FALSE]
  /\ threads = [t \in Threads |-> "none"]
  /\ stream = {} /\ ctx = [m \in Media |-> "none"] /\ input = "none"
  /\ msgs = <<>> /\ bad = {} /\ faults = 0

Post(m) == msgs' = Append(msgs, m)
Has(m) == \E i \in 1..Len(msgs) : msgs[i] = m
Fault == faults < MaxFaults /\ faults' = faults + 1
NoFault == UNCHANGED faults
Starts(t) == threads' = [threads EXCEPT ![t] = "run"]

-----------------------------------------------------------------------------
\* stream_open.

\* What fails before ffp->is is set goes to stream_close, which takes the
\* VideoState from there.
Build ==
  /\ open = "build"
  /\ \/ NoFault /\ open' = "vout" /\ is' = [is EXCEPT !.pauseReq = opt.wait]
     \/ Fault /\ open' = "crashed" /\ UNCHANGED is
  /\ UNCHANGED <<opt, content, read, close, threads, stream, ctx, input, msgs, bad>>

\* Without a thread to show pictures the VideoState is freed, and not what it
\* holds.
StartVout ==
  /\ open = "vout"
  /\ \/ NoFault /\ open' = "read" /\ Starts("vout")
     \/ Fault /\ open' = "leaked" /\ UNCHANGED threads
  /\ UNCHANGED <<opt, content, read, close, is, stream, ctx, input, msgs, bad>>

OpenFails ==
  /\ Fault /\ open' = "fail"
  /\ is' = [is EXCEPT !.initialized = TRUE, !.abort = TRUE]

StartRead ==
  /\ open = "read"
  /\ \/ NoFault /\ open' = "stat" /\ read' = "begin" /\ Starts("read") /\ UNCHANGED is
     \/ OpenFails /\ UNCHANGED <<read, threads>>
  /\ UNCHANGED <<opt, content, close, stream, ctx, input, msgs, bad>>

StartStat ==
  /\ open = "stat"
  /\ \/ NoFault /\ open' = "init" /\ Starts("stat") /\ UNCHANGED is
     \/ OpenFails /\ UNCHANGED threads
  /\ UNCHANGED <<opt, content, read, close, stream, ctx, input, msgs, bad>>

\* With async_init_decoder the video decoder's node is made here.
InitDecoder ==
  /\ open = "init"
  /\ open' = "done" /\ is' = [is EXCEPT !.initialized = TRUE]
  /\ UNCHANGED <<opt, content, read, close, threads, stream, ctx, input, msgs, bad, faults>>

\* The failure joins the thread that shows pictures, and stream_close does too.
FailJoins ==
  /\ open = "fail" /\ threads["vout"] = "end"
  /\ threads' = [threads EXCEPT !["vout"] = "joined"]
  /\ open' = "failed" /\ close' = "abort"
  /\ UNCHANGED <<opt, content, read, is, stream, ctx, input, msgs, bad, faults>>

-----------------------------------------------------------------------------
\* read_thread.

ReadTo(pc) == read' = pc

\* Without wait_mutex the thread ends before it has set the indices to -1.
SetIndices ==
  /\ read = "begin"
  /\ \/ NoFault /\ ReadTo("input") /\ is' = [is EXCEPT !.indexed = TRUE]
     \/ Fault /\ ReadTo("fail") /\ UNCHANGED is
  /\ UNCHANGED <<opt, content, open, close, threads, stream, ctx, input, msgs, bad>>

\* avformat_open_input, which an abort interrupts; the licence of a protected
\* source; avformat_find_stream_info
OpenInput ==
  /\ read = "input"
  /\ \/ /\ ~is.abort /\ NoFault
        /\ ReadTo("drm") /\ input' = "open" /\ Post("OPEN_INPUT")
     \/ ((is.abort /\ NoFault) \/ Fault) /\ ReadTo("fail") /\ UNCHANGED <<input, msgs>>
  /\ UNCHANGED <<opt, content, open, close, is, threads, stream, ctx, bad>>

\* Until is->ic is set the input is closed by the failure.
CheckDrm ==
  /\ read = "drm"
  /\ \/ NoFault /\ ReadTo(IF opt.find THEN "info" ELSE "audio") /\ UNCHANGED input
     \/ opt.drm /\ Fault /\ ReadTo("fail") /\ input' = "closed"
  /\ UNCHANGED <<opt, content, open, close, is, threads, stream, ctx, msgs, bad>>

FindInfo ==
  /\ read = "info"
  /\ Post("FIND_STREAM_INFO")
  /\ \/ ~is.abort /\ NoFault /\ ReadTo("audio")
     \/ ((is.abort /\ NoFault) \/ Fault) /\ ReadTo("fail")
  /\ UNCHANGED <<opt, content, open, close, is, threads, stream, ctx, input, bad>>

\* stream_component_open of the audio stream.  Its failure is passed over.  A
\* codec or an output that cannot be opened leaves nothing; if the decoder's
\* thread cannot be started, the stream counts as open.
OpenAudio ==
  /\ read = "audio"
  /\ ReadTo("video")
  /\ \/ "audio" \notin content /\ NoFault /\ UNCHANGED <<threads, stream, ctx>>
     \/ "audio" \in content /\ Fault /\ UNCHANGED <<threads, stream, ctx>>
     \/ /\ "audio" \in content
        /\ stream' = stream \cup {"audio"} /\ ctx' = [ctx EXCEPT !["audio"] = "held"]
        /\ \/ NoFault /\ threads' = [threads EXCEPT !["audio"] = "run", !["aout"] = "run"]
           \/ Fault /\ Starts("aout")
  /\ UNCHANGED <<opt, content, open, close, is, input, msgs, bad>>

\* Mutant: the decoder's node is not waited for.
OpenVideoUnwaited ==
  /\ read = "video"
  /\ IF "video" \in content
     THEN stream' = stream \cup {"video"} /\ ReadTo("node")
     ELSE UNCHANGED stream /\ ReadTo("sub")
  /\ UNCHANGED <<opt, content, open, close, is, threads, ctx, input, msgs, bad, faults>>

\* That of the video stream takes the stream first, and with
\* async_init_decoder waits for stream_open.
OpenVideo ==
  /\ read = "video"
  /\ IF "video" \in content
     THEN /\ opt.async => is.initialized
          /\ stream' = stream \cup {"video"} /\ ReadTo("node")
     ELSE UNCHANGED stream /\ ReadTo("sub")
  /\ UNCHANGED <<opt, content, open, close, is, threads, ctx, input, msgs, bad, faults>>

OpenVideoFails ==
  /\ read = "video" /\ "video" \in content
  /\ Fault /\ Post("ERROR") /\ ReadTo("fail")
  /\ UNCHANGED <<opt, content, open, close, is, threads, stream, ctx, input, bad>>

\* The node; without one the context is freed though the decoder keeps it, and
\* the result is that of the codec: success.
OpenNode ==
  /\ read = "node"
  /\ \/ /\ NoFault /\ Starts("video") /\ ReadTo("sub")
        /\ ctx' = [ctx EXCEPT !["video"] = "held"] /\ UNCHANGED msgs
     \/ /\ Fault /\ ReadTo("fail") /\ Post("ERROR")
        /\ ctx' = [ctx EXCEPT !["video"] = "held"] /\ UNCHANGED threads
     \/ /\ Fault /\ ReadTo("sub")
        /\ ctx' = [ctx EXCEPT !["video"] = "freed"] /\ UNCHANGED <<threads, msgs>>
  /\ UNCHANGED <<opt, content, open, close, is, stream, input, bad>>

\* Its failure is passed over.  Unless ffp->subtitle is set nobody keeps the
\* context of an opened codec; if the decoder's thread cannot be started, the
\* stream counts as open.
OpenSub ==
  /\ read = "sub"
  /\ Post("COMPONENT_OPEN") /\ ReadTo("opened")
  /\ LET found == "sub" \in content /\ "video" \in content IN
     \/ ~found /\ NoFault /\ UNCHANGED <<threads, stream, ctx>>
     \/ found /\ Fault /\ UNCHANGED <<threads, stream, ctx>>
     \/ /\ found /\ ~opt.subtitle
        /\ ctx' = [ctx EXCEPT !["sub"] = "leaked"]
        /\ NoFault /\ UNCHANGED <<threads, stream>>
     \/ /\ found /\ opt.subtitle
        /\ stream' = stream \cup {"sub"} /\ ctx' = [ctx EXCEPT !["sub"] = "held"]
        /\ (NoFault /\ Starts("sub")) \/ (Fault /\ UNCHANGED threads)
  /\ UNCHANGED <<opt, content, open, close, is, input, bad>>

\* Mutant: an input without a stream that could be opened is prepared.
PrepareAnyway ==
  /\ read = "opened"
  /\ Post("PREPARED") /\ ReadTo("wait")
  /\ UNCHANGED <<opt, content, open, close, is, threads, stream, ctx, input, bad, faults>>

\* Neither an audio nor a video stream: an error
Prepare ==
  /\ read = "opened"
  /\ IF stream \cap {"audio", "video"} = {} THEN ReadTo("fail") /\ UNCHANGED msgs
     ELSE Post("PREPARED") /\ ReadTo("wait")
  /\ UNCHANGED <<opt, content, open, close, is, threads, stream, ctx, input, bad, faults>>

\* The loop begins once the application has started, and ends with an abort.
WaitStart ==
  /\ read = "wait" /\ (~is.pauseReq \/ is.abort)
  /\ ReadTo("loop")
  /\ UNCHANGED <<opt, content, open, close, is, threads, stream, ctx, input, msgs, bad, faults>>

LoopEnds ==
  /\ read = "loop" /\ is.abort
  /\ ReadTo("fail")
  /\ UNCHANGED <<opt, content, open, close, is, threads, stream, ctx, input, msgs, bad, faults>>

\* The end of read_thread, after a failure and after the loop
ReadEnds ==
  /\ read = "fail"
  /\ ReadTo("end")
  /\ threads' = [threads EXCEPT !["read"] = "end"]
  /\ IF ~Has("PREPARED") \/ ~is.abort THEN Post("ERROR") ELSE UNCHANGED msgs
  /\ UNCHANGED <<opt, content, open, close, is, stream, ctx, input, bad, faults>>

-----------------------------------------------------------------------------
\* The other threads end when they are told to; a decoder may give up before,
\* and waits for pictures or sound to be taken until then.
Ends(t) ==
  /\ t # "read" /\ threads[t] = "run"
  /\ CASE t \in {"vout", "stat"}      -> is.abort
       [] t = "sub"                   -> close = "sub"
       [] t \in {"audio", "video"}    -> TRUE
       [] OTHER                       -> close = "aout"
  /\ threads' = [threads EXCEPT ![t] = "end"]
  /\ UNCHANGED <<opt, content, open, read, close, is, stream, ctx, input, msgs, bad, faults>>

\* The application starts, and closes once stream_open has returned.
Start ==
  /\ open = "done" /\ close = "none" /\ is.pauseReq
  /\ is' = [is EXCEPT !.pauseReq = FALSE]
  /\ UNCHANGED <<opt, content, open, read, close, threads, stream, ctx, input, msgs, bad, faults>>

Stop ==
  /\ open = "done" /\ close = "none"
  /\ close' = "abort"
  /\ UNCHANGED <<opt, content, open, read, is, threads, stream, ctx, input, msgs, bad, faults>>

-----------------------------------------------------------------------------
\* stream_close.

\* SDL_WaitThread; without a thread it returns.
Waits(t) ==
  /\ threads[t] # "run"
  /\ threads' = [threads EXCEPT ![t] = IF @ = "end" THEN "joined" ELSE @]
Twice(t) == IF threads[t] = "joined" THEN {"joined twice"} ELSE {}
Joins(t) == Waits(t) /\ bad' = bad \cup Twice(t)

\* decoder_destroy
Frees(m) ==
  /\ ctx' = [ctx EXCEPT ![m] = "freed"]
  /\ bad' = bad \cup (IF ctx[m] = "freed" THEN {"freed twice"} ELSE {})

CloseAborts ==
  /\ close = "abort"
  /\ close' = "stat" /\ is' = [is EXCEPT !.abort = TRUE]
  /\ UNCHANGED <<opt, content, open, read, threads, stream, ctx, input, msgs, bad, faults>>

After(c) == CASE c = "stat" -> "read" [] c = "read" -> "audio" [] c = "audio" -> "aout"
              [] c = "aout" -> "video" [] c = "video" -> "sub" [] c = "sub" -> "input"
              [] c = "vout" -> "free"

CloseJoins ==
  /\ close \in {"stat", "read", "vout"}
  /\ Joins(close) /\ close' = After(close)
  /\ UNCHANGED <<opt, content, open, read, is, stream, ctx, input, msgs, faults>>

\* stream_component_close(0) looks at the streams of an input that is not there.
CloseCrashes ==
  /\ close = "audio" /\ ~is.indexed
  /\ close' = "crashed"
  /\ UNCHANGED <<opt, content, open, read, is, threads, stream, ctx, input, msgs, bad, faults>>

\* stream_component_close, for a medium with a stream
CloseComponent ==
  /\ close \in Media /\ is.indexed
  /\ IF close \in stream
     THEN /\ Waits(close) /\ close' = After(close)
          /\ IF close = "audio" THEN UNCHANGED <<ctx, bad>> ELSE Frees(close)
          /\ UNCHANGED stream
     ELSE /\ close' = IF close = "audio" THEN "video" ELSE After(close)
          /\ UNCHANGED <<threads, stream, ctx, bad>>
  /\ UNCHANGED <<opt, content, open, read, is, input, msgs, faults>>

CloseAout ==
  /\ close = "aout"
  /\ Waits("aout") /\ close' = After(close) /\ Frees("audio")
  /\ UNCHANGED <<opt, content, open, read, is, stream, input, msgs, faults>>

CloseInput ==
  /\ close = "input"
  /\ close' = "vout" /\ input' = IF input = "open" THEN "closed" ELSE input
  /\ UNCHANGED <<opt, content, open, read, is, threads, stream, ctx, msgs, bad, faults>>

CloseFrees ==
  /\ close = "free"
  /\ close' = "closed" /\ stream' = {}
  /\ UNCHANGED <<opt, content, open, read, is, threads, ctx, input, msgs, bad, faults>>

-----------------------------------------------------------------------------
OpenStep == Build \/ StartVout \/ StartRead \/ StartStat \/ InitDecoder \/ FailJoins
ReadStep ==
  \/ SetIndices \/ OpenInput \/ CheckDrm \/ FindInfo \/ OpenAudio \/ OpenVideo \/ OpenVideoFails
  \/ OpenNode \/ OpenSub \/ Prepare \/ WaitStart \/ LoopEnds \/ ReadEnds
CloseStep ==
  CloseAborts \/ CloseJoins \/ CloseCrashes \/ CloseComponent \/ CloseAout \/ CloseInput \/ CloseFrees
Next ==
  \/ OpenStep \/ ReadStep \/ CloseStep \/ Start \/ Stop
  \/ \E t \in Threads : Ends(t)

Spec == Init /\ [][Next]_vars

\* The threads run and end as soon as they can.
Ending == \E t \in Threads : is.abort /\ Ends(t)
FairSpec ==
  /\ Spec /\ WF_vars(OpenStep) /\ WF_vars(ReadStep) /\ WF_vars(CloseStep)
  /\ WF_vars(Ending)

-----------------------------------------------------------------------------
TypeOK ==
  /\ stream \subseteq Media /\ ctx \in [Media -> {"none", "held", "freed", "leaked"}]
  /\ threads \in [Threads -> {"none", "run", "end", "joined"}]
  /\ input \in {"none", "open", "closed"}

\* When the stream is closed, all its threads have ended and been waited for,
\* and every context and the input are freed: whatever step of the opening
\* failed, and wherever read_thread was when the close began.  Only the context
\* of subtitles that are not shown is not (ff_ffplay.c:3293).  The close crashes
\* only if read_thread could not be made, or ended before it tried the input.
AllReturned ==
  /\ close = "closed" =>
       /\ \A t \in Threads : threads[t] \in {"none", "joined"}
       /\ ctx["audio"] \in {"none", "freed"} /\ ctx["video"] \in {"none", "freed"}
       /\ ctx["sub"] \in {"none", IF opt.subtitle THEN "freed" ELSE "leaked"}
       /\ input # "open"
  /\ close = "crashed" =>
       /\ input = "none" /\ stream = {} /\ threads["read"] \in {"none", "joined"}
       /\ \A i \in 1..Len(msgs) : msgs[i] = "ERROR"

\* No thread is waited for twice, but for the one that a failed stream_open has
\* waited for itself; no context is freed twice, but for that of a video decoder
\* without a node.
JoinedOnce ==
  /\ "joined twice" \in bad => open = "failed"
  /\ "freed twice" \in bad => threads["video"] = "none"

\* The two threads that open decoders never make the node at once.
OneMakesNode == ~(opt.async /\ open = "init" /\ read = "node")

\* The application learns what became of the opening: PREPARED comes once, with
\* a stream to play and after all components; an ERROR comes if read_thread
\* ends by itself, and nothing is prepared after an error.
Reported ==
  /\ \A i, j \in 1..Len(msgs) :
       msgs[i] = "PREPARED" /\ msgs[j] \in {"PREPARED", "COMPONENT_OPEN", "OPEN_INPUT"}
         => j <= i
  /\ Has("PREPARED") => stream \cap {"audio", "video"} # {} \/ close = "closed"
  /\ read = "end" /\ ~is.abort => Has("ERROR")
  /\ \A i, j \in 1..Len(msgs) :
       msgs[i] = "ERROR" /\ msgs[j] = "PREPARED" => j < i

\* A close is under way; it ends, at whatever step of the opening it began, if
\* only with a crash.
Closing == close \notin {"none", "closed", "crashed"}
=============================================================================
