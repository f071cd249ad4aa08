------------------------------ MODULE UrlHook -------------------------------
(***************************************************************************)
(* The httphook protocol of FFmpeg (ijkavformat/ijkurlhook.c): it passes   *)
(* the calls of the demuxer on to an inner http protocol and, when one     *)
(* fails, asks the application (call_inject) whether to open the inner     *)
(* protocol again where the last byte was read.                            *)
(*                                                                         *)
(* A byte is the position it has in the resource.  One step is one call    *)
(* that leaves the module, with what is computed up to the next one; the   *)
(* player may interrupt it at any time.                                    *)
(***************************************************************************)
EXTENDS Integers, Sequences

CONSTANTS
  FileSize,  \* bytes of the resource
  MaxRead,   \* bytes asked for at once (bound)
  MaxSeeks,  \* bound
  MaxFaults  \* bound: calls of the inner protocol that fail

VARIABLES
  streamed,    \* the server cannot seek: is_streamed
  inner,       \* the position of the inner protocol, Closed before the first open
  logicalPos, logicalSize,
  ioError,     \* io_error: "none" or the error
  call,        \* the call in progress: [op, pc, arg]
  out, result, \* what the last call returned
  believed,    \* the position the demuxer was told it is at
  refused,     \* the application did not handle a failed seek: it returned 0
  interrupted, \* ff_check_interrupt
  used         \* the bounded actions so far

vars == <<streamed, inner, logicalPos, logicalSize, ioError, call, out, result,
          believed, refused, interrupted, used>>

Closed == -1
NoCall == [op |-> "none", pc |-> "idle", arg |-> 0]
Idle   == call.pc = "idle"

Init ==
  /\ streamed \in BOOLEAN
  /\ inner = Closed /\ logicalPos = 0 /\ logicalSize = 0 /\ ioError = "none"
  /\ call = [op |-> "open", pc |-> "inject", arg |-> 0]
  /\ out = <<>> /\ result = "none"
  /\ believed = 0 /\ refused = FALSE
  /\ interrupted = FALSE
  /\ used = [seeks |-> 0, faults |-> 0]

-----------------------------------------------------------------------------
\* A call of the inner protocol fails: interrupted, or with an I/O error.
Failures == IF interrupted THEN {"exit"}
            ELSE IF used.faults < MaxFaults THEN {"eio"} ELSE {}
CountFault(e) == used' = IF e = "eio" THEN [used EXCEPT !.faults = @ + 1] ELSE used

Return(r) == call' = NoCall /\ result' = r

\* The loops go on with everything but an interruption.
GivesUp(e) == e = "exit"

\* ijkurlhook_call_inject: interrupted, or the application answers whether it
\* handled the event and whether it changed the url.
InjectFails == interrupted
Answers == [handled : BOOLEAN, changed : BOOLEAN]

-----------------------------------------------------------------------------
\* Mutant: the offset is not asked for.
ReconnectedAtStart(at) ==
  /\ inner' = 0 /\ logicalPos' = 0
  /\ logicalSize' = IF streamed THEN -1 ELSE FileSize
  /\ ioError' = "none"
\* ijkurlhook_reconnect at offset at.  The inner protocol that is in use is
\* closed when the new one is open, and kept when that fails.
Reconnected(at) ==
  /\ inner' = at
  /\ logicalPos' = at
  /\ logicalSize' = IF streamed THEN -1 ELSE FileSize
  /\ ioError' = "none"

\* ijkhttphook_open: the first time, and again while the application handles
\* the failure.
OpenInjects ==
  /\ call.op = "open" /\ call.pc \in {"inject", "injectAgain"}
  /\ IF InjectFails THEN Return("exit")
     ELSE \E a \in Answers :
            IF call.pc = "injectAgain" /\ ~a.handled THEN Return("eio")
            ELSE call' = [call EXCEPT !.pc = "connect"] /\ UNCHANGED result
  /\ UNCHANGED <<streamed, inner, logicalPos, logicalSize, ioError, out, believed,
                 refused, interrupted, used>>

OpenConnects ==
  /\ call.op = "open" /\ call.pc = "connect"
  /\ \/ /\ Reconnected(0) /\ Return("ok") /\ UNCHANGED used
     \/ \E e \in Failures :
          /\ CountFault(e)
          /\ IF GivesUp(e) THEN Return(e)
             ELSE call' = [call EXCEPT !.pc = "injectAgain"] /\ UNCHANGED result
          /\ UNCHANGED <<inner, logicalPos, logicalSize, ioError>>
  /\ UNCHANGED <<streamed, out, believed, refused, interrupted>>

-----------------------------------------------------------------------------
\* ijkhttphook_read
Read(n) ==
  /\ Idle /\ inner # Closed
  /\ call' = [op |-> "read", pc |-> "read", arg |-> n]
  /\ UNCHANGED <<streamed, inner, logicalPos, logicalSize, ioError, out, result,
                 believed, refused, interrupted, used>>

\* After a failed attempt: what the loop of ijkhttphook_read does with it.
ReadFailed(e) ==
  IF GivesUp(e) \/ streamed \/ logicalPos >= logicalSize
  THEN Return(e) /\ ioError' = e
  ELSE call' = [call EXCEPT !.pc = "inject"] /\ ioError' = e /\ UNCHANGED result

\* ijkurlhook_read: an earlier error is returned without a call.
ReadInner ==
  /\ call.op = "read" /\ call.pc = "read"
  /\ \/ /\ ioError # "none" /\ ReadFailed(ioError)
        /\ UNCHANGED <<inner, logicalPos, out, believed, used>>
     \/ /\ ioError = "none"
        /\ \E n \in 1..call.arg :
             /\ inner + n <= FileSize
             /\ inner' = inner + n /\ logicalPos' = logicalPos + n
             /\ believed' = believed + n
             /\ out' = [i \in 1..n |-> inner + i - 1]
             /\ Return("ok")
        /\ UNCHANGED <<ioError, used>>
     \/ /\ ioError = "none" /\ inner >= FileSize
        /\ Return("end")
        /\ UNCHANGED <<inner, logicalPos, ioError, out, believed, used>>
     \/ /\ ioError = "none"
        /\ \E e \in Failures : CountFault(e) /\ ReadFailed(e)
        /\ UNCHANGED <<inner, logicalPos, out, believed>>
  /\ UNCHANGED <<streamed, logicalSize, refused, interrupted>>

\* What call_inject returned is what the read returns when the application
\* does not handle the event: 0, the end.
ReadInjects ==
  /\ call.op = "read" /\ call.pc = "inject"
  /\ IF InjectFails THEN Return("exit") /\ ioError' = "exit"
     ELSE \E a \in Answers :
            IF a.handled
            THEN call' = [call EXCEPT !.pc = "connect"] /\ UNCHANGED <<result, ioError>>
            ELSE Return("refused") /\ ioError' = "none"
  /\ UNCHANGED <<streamed, inner, logicalPos, logicalSize, out, believed,
                 refused, interrupted, used>>

ReadConnects ==
  /\ call.op = "read" /\ call.pc = "connect"
  /\ \/ /\ Reconnected(logicalPos)
        /\ call' = [call EXCEPT !.pc = "read"]
        /\ UNCHANGED <<result, used>>
     \/ /\ \E e \in Failures :
             /\ CountFault(e)
             /\ IF GivesUp(e) THEN Return(e) /\ ioError' = e
                ELSE call' = [call EXCEPT !.pc = "inject"] /\ UNCHANGED <<result, ioError>>
        /\ UNCHANGED <<inner, logicalPos, logicalSize>>
  /\ UNCHANGED <<streamed, out, believed, refused, interrupted>>

-----------------------------------------------------------------------------
\* ijkhttphook_seek to position p
Seek(p) ==
  /\ Idle /\ inner # Closed /\ used.seeks < MaxSeeks
  /\ used' = [used EXCEPT !.seeks = @ + 1]
  /\ IF p = logicalPos THEN Return("ok") /\ believed' = p
     ELSE IF streamed THEN Return("nosys") /\ UNCHANGED believed
     ELSE call' = [op |-> "seek", pc |-> "inject", arg |-> p]
          /\ UNCHANGED <<result, believed>>
  /\ UNCHANGED <<streamed, inner, logicalPos, logicalSize, ioError, out, refused,
                 interrupted>>

\* As in a read, 0 is returned for what the application does not handle; the
\* demuxer takes it for the position.
SeekReturnsZero ==
  Return("refused") /\ believed' = 0 /\ refused' = TRUE

SeekInjects ==
  /\ call.op = "seek" /\ call.pc \in {"inject", "injectAgain"}
  /\ IF InjectFails THEN Return("exit") /\ UNCHANGED <<believed, refused>>
     ELSE \E a \in Answers :
            IF call.pc = "injectAgain" /\ ~a.handled THEN SeekReturnsZero
            ELSE /\ call' = [call EXCEPT !.pc = IF a.changed THEN "connect" ELSE "seek"]
                 /\ UNCHANGED <<result, believed, refused>>
  /\ UNCHANGED <<streamed, inner, logicalPos, logicalSize, ioError, out,
                 interrupted, used>>

\* ijkhttphook_reseek_at: a new connection when the url changed, a seek of the
\* inner protocol otherwise.
SeekMoves ==
  /\ call.op = "seek" /\ call.pc \in {"connect", "seek"}
  /\ \/ /\ IF call.pc = "connect" THEN Reconnected(call.arg)
           ELSE /\ inner' = call.arg /\ logicalPos' = call.arg /\ ioError' = "none"
                /\ UNCHANGED logicalSize
        /\ Return("ok") /\ believed' = call.arg
        /\ UNCHANGED <<used, refused>>
     \/ /\ \E e \in Failures :
             /\ CountFault(e)
             /\ ioError' = e
             /\ IF GivesUp(e) THEN SeekReturnsZero
                ELSE /\ call' = [call EXCEPT !.pc = "injectAgain"]
                     /\ UNCHANGED <<result, believed, refused>>
        /\ UNCHANGED <<inner, logicalPos, logicalSize>>
  /\ UNCHANGED <<streamed, out, interrupted>>

-----------------------------------------------------------------------------
\* The player is stopped: decode_interrupt_cb answers 1 from now on.
Interrupt ==
  /\ ~interrupted /\ interrupted' = TRUE
  /\ UNCHANGED <<streamed, inner, logicalPos, logicalSize, ioError, call, out,
                 result, believed, refused, used>>

Step == \/ OpenInjects \/ OpenConnects \/ ReadInner \/ ReadInjects \/ ReadConnects
        \/ SeekInjects \/ SeekMoves

Next == \/ \E n \in 1..MaxRead : Read(n)
        \/ \E p \in 0..FileSize : Seek(p)
        \/ Step \/ Interrupt

Spec == Init /\ [][Next]_vars

\* The calls that leave the module return.
Fairness == WF_vars(Step)

FairSpec == Spec /\ Fairness

-----------------------------------------------------------------------------
TypeOK ==
  /\ inner \in Closed..FileSize /\ logicalPos \in 0..FileSize
  /\ logicalSize \in {-1, 0, FileSize}
  /\ ioError \in {"none", "eio", "exit"}
  /\ call.pc \in {"idle", "inject", "injectAgain", "connect", "read", "seek"}

\* A read delivers the bytes from the position the demuxer was told, whatever
\* failed and was opened again in between, unless a seek returned 0 for an
\* error that the application did not handle.
ReadsContinueStep ==
  out' # out /\ ~refused => \A i \in 1..Len(out') : out'[i] = believed + i - 1
ReadsContinue == [][ReadsContinueStep]_vars

\* A call returns, with an error or not, when no more calls of the inner
\* protocol fail.
CallsReturn == ~Idle ~> Idle
=============================================================================
