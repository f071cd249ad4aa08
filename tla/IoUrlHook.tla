----------------------------- MODULE IoUrlHook ------------------------------
(***************************************************************************)
(* The httphook protocol of the ijkio layer (ijkavformat/ijkiourlhook.c),  *)
(* the inner protocol of the cache.  It retries as UrlHook does, and two   *)
(* other threads act on it: ijkio_cache_pause sets its abort_request while *)
(* the task of the cache may be inside a read (ijkio_cache_resume clears   *)
(* it), and the application asks for a new connection (active_reconnect).  *)
(*                                                                         *)
(* A byte is the position it has in the resource.  One step is one call    *)
(* that leaves the module, with what is computed up to the next one.       *)
(***************************************************************************)
EXTENDS Integers, Sequences

CONSTANTS
  FileSize,   \* bytes of the resource
  MaxRead,    \* bytes asked for at once (bound)
  MaxSeeks, MaxEvents   \* bounds

VARIABLES
  inner, logicalPos, logicalSize, ioError,
  abort,       \* abort_request
  active,      \* ijkio_app_ctx->active_reconnect
  paused,      \* the cache has paused the protocol
  call,        \* the call in progress: [op, pc, arg]
  out, result, believed, refused,
  interrupted, \* the interrupt callback of the player answers 1
  used

vars == <<inner, logicalPos, logicalSize, ioError, abort, active, paused, call,
          out, result, believed, refused, interrupted, used>>

innerVars  == <<inner, logicalPos, logicalSize>>
callerVars == <<out, believed, refused>>
otherVars  == <<paused, interrupted>>

Closed == -1
NoCall == [op |-> "none", pc |-> "idle", arg |-> 0]
Idle   == call.pc = "idle"

Init ==
  /\ inner = Closed /\ logicalPos = 0 /\ logicalSize = 0 /\ ioError = "none"
  /\ abort = FALSE /\ active = FALSE /\ paused = FALSE
  /\ call = [op |-> "open", pc |-> "inject", arg |-> 0]
  /\ out = <<>> /\ result = "none" /\ believed = 0 /\ refused = FALSE
  /\ interrupted = FALSE
  /\ used = [seeks |-> 0, events |-> 0]

-----------------------------------------------------------------------------
\* A call of the inner protocol fails, as often as it likes.
Failures == IF interrupted THEN {"exit"} ELSE {"eio"}

Return(r) == call' = NoCall /\ result' = r
Goto(pc)  == call' = [call EXCEPT !.pc = pc] /\ UNCHANGED result

\* ijkio_cache_check_interrupt remembers that it was interrupted.
CheckInterrupt == abort' = (abort \/ interrupted)
Stopped == abort \/ interrupted

\* Mutant: the position is not kept with the offset.
ReconnectedElsewhere(at) ==
  /\ inner' = at /\ UNCHANGED logicalPos /\ logicalSize' = FileSize
  /\ ioError' = "none"

\* ijkio_urlhook_reconnect at an offset
Reconnected(at) ==
  /\ inner' = at /\ logicalPos' = at /\ logicalSize' = FileSize
  /\ ioError' = "none"

-----------------------------------------------------------------------------
\* ijkio_httphook_open
OpenInjects ==
  /\ call.op = "open" /\ call.pc \in {"inject", "injectAgain"}
  /\ CheckInterrupt
  /\ IF Stopped THEN Return("exit")
     ELSE \/ Goto("connect")
          \/ call.pc = "injectAgain" /\ Return("eio")
  /\ UNCHANGED <<innerVars, ioError, active, callerVars, otherVars, used>>

OpenConnects ==
  /\ call.op = "open" /\ call.pc = "connect"
  /\ \/ /\ Reconnected(0) /\ Return("ok")
     \/ \E e \in Failures :
          /\ IF e = "exit" \/ abort THEN Return(e) ELSE Goto("injectAgain")
          /\ UNCHANGED <<innerVars, ioError>>
  /\ UNCHANGED <<abort, active, callerVars, otherVars, used>>

-----------------------------------------------------------------------------
\* ijkio_httphook_read.  A reconnection that was asked for replaces the first
\* attempt, but not at the end of the resource.
Read(n) ==
  /\ Idle /\ inner # Closed /\ ~paused
  /\ call' = [op |-> "read", arg |-> n,
              pc |-> IF ~active THEN "read"
                     ELSE IF logicalPos < logicalSize /\ ~abort THEN "inject"
                     ELSE "nothing"]
  /\ UNCHANGED <<innerVars, ioError, abort, active, callerVars, otherVars, result, used>>

ReadNothing ==
  /\ call.op = "read" /\ call.pc = "nothing"
  /\ Return("end") /\ ioError' = "none"
  /\ UNCHANGED <<innerVars, abort, active, callerVars, otherVars, used>>

ReadFailed(e) ==
  /\ ioError' = e
  /\ IF e = "exit" \/ abort \/ logicalPos >= logicalSize THEN Return(e)
     ELSE Goto("inject")

ReadInner ==
  /\ call.op = "read" /\ call.pc = "read"
  /\ \/ /\ ioError # "none" /\ ReadFailed(ioError)
        /\ UNCHANGED <<innerVars, callerVars>>
     \/ /\ ioError = "none"
        /\ \E n \in 1..call.arg :
             /\ inner + n <= FileSize
             /\ inner' = inner + n /\ logicalPos' = logicalPos + n
             /\ believed' = believed + n
             /\ out' = [i \in 1..n |-> inner + i - 1]
             /\ Return("ok")
        /\ UNCHANGED <<logicalSize, ioError, refused>>
     \/ /\ ioError = "none" /\ inner >= FileSize
        /\ Return("end")
        /\ UNCHANGED <<innerVars, ioError, callerVars>>
     \/ /\ ioError = "none"
        /\ \E e \in Failures : ReadFailed(e)
        /\ UNCHANGED <<innerVars, callerVars>>
  /\ UNCHANGED <<abort, active, otherVars, used>>

\* The request of the application is taken here, whatever it answers now.
ReadInjects ==
  /\ call.op = "read" /\ call.pc = "inject"
  /\ CheckInterrupt
  /\ active' = FALSE
  /\ IF Stopped THEN Return("exit") /\ ioError' = "exit"
     ELSE \/ Goto("connect") /\ UNCHANGED ioError
          \/ Return("refused") /\ ioError' = "none"
  /\ UNCHANGED <<innerVars, callerVars, otherVars, used>>

ReadConnects ==
  /\ call.op = "read" /\ call.pc = "connect"
  /\ \/ Reconnected(logicalPos) /\ Goto("read")
     \/ /\ \E e \in Failures :
             /\ IF e = "exit" \/ abort THEN Return(e) /\ ioError' = e
                ELSE Goto("inject") /\ UNCHANGED ioError
        /\ UNCHANGED innerVars
  /\ UNCHANGED <<abort, active, callerVars, otherVars, used>>

-----------------------------------------------------------------------------
\* ijkio_httphook_seek to position p
Seek(p) ==
  /\ Idle /\ inner # Closed /\ ~paused /\ used.seeks < MaxSeeks
  /\ used' = [used EXCEPT !.seeks = @ + 1]
  /\ IF p = logicalPos THEN Return("ok") /\ believed' = p
     ELSE call' = [op |-> "seek", pc |-> "inject", arg |-> p]
          /\ UNCHANGED <<result, believed>>
  /\ UNCHANGED <<innerVars, ioError, abort, active, out, refused, otherVars>>

\* 0 is returned for a seek that failed because the application or the pause
\* ended the retries; the cache takes it for the position.
SeekReturnsZero == Return("refused") /\ believed' = 0 /\ refused' = TRUE

SeekInjects ==
  /\ call.op = "seek" /\ call.pc \in {"inject", "injectAgain"}
  /\ CheckInterrupt
  /\ IF Stopped THEN Return("exit") /\ UNCHANGED <<believed, refused>>
     ELSE \/ \E pc \in {"connect", "seek"} : Goto(pc) /\ UNCHANGED <<believed, refused>>
          \/ call.pc = "injectAgain" /\ SeekReturnsZero
  /\ UNCHANGED <<innerVars, ioError, active, out, otherVars, used>>

\* ijkio_httphook_reseek_at.  A failure after abort_request leaves the loop,
\* and the error is returned but io_error is cleared.
SeekMoves ==
  /\ call.op = "seek" /\ call.pc \in {"connect", "seek"}
  /\ \/ /\ IF call.pc = "connect" THEN Reconnected(call.arg)
           ELSE /\ inner' = call.arg /\ logicalPos' = call.arg /\ ioError' = "none"
                /\ UNCHANGED logicalSize
        /\ Return("ok") /\ believed' = call.arg
        /\ UNCHANGED refused
     \/ /\ \E e \in Failures :
             /\ IF abort THEN Return(e) /\ ioError' = "none" /\ UNCHANGED <<believed, refused>>
                ELSE IF e = "exit" THEN SeekReturnsZero /\ ioError' = e
                ELSE Goto("injectAgain") /\ ioError' = e /\ UNCHANGED <<believed, refused>>
        /\ UNCHANGED innerVars
  /\ UNCHANGED <<abort, active, out, otherVars, used>>

-----------------------------------------------------------------------------
\* The other threads: ijkio_httphook_pause, ijkio_httphook_resume (the cache
\* resumes when its task has ended), ijkio_manager_immediate_reconnect, and
\* the player that stops.
Event == used.events < MaxEvents /\ used' = [used EXCEPT !.events = @ + 1]

Pause ==
  /\ inner # Closed /\ ~paused /\ Event
  /\ paused' = TRUE /\ abort' = TRUE
  /\ UNCHANGED <<innerVars, ioError, active, call, callerVars, result, interrupted>>

Resume ==
  /\ paused /\ Idle
  /\ paused' = FALSE /\ abort' = FALSE
  /\ UNCHANGED <<innerVars, ioError, active, call, callerVars, result, interrupted, used>>

ImmediateReconnect ==
  /\ ~active /\ Event
  /\ active' = TRUE
  /\ UNCHANGED <<innerVars, ioError, abort, call, callerVars, result, otherVars>>

Interrupt ==
  /\ ~interrupted /\ interrupted' = TRUE
  /\ UNCHANGED <<innerVars, ioError, abort, active, paused, call, callerVars, result, used>>

-----------------------------------------------------------------------------
Step == \/ OpenInjects \/ OpenConnects \/ ReadNothing \/ ReadInner \/ ReadInjects
        \/ ReadConnects \/ SeekInjects \/ SeekMoves

Next == \/ \E n \in 1..MaxRead : Read(n)
        \/ \E p \in 0..FileSize : Seek(p)
        \/ Step \/ Pause \/ Resume \/ ImmediateReconnect \/ Interrupt

Spec == Init /\ [][Next]_vars

Fairness == WF_vars(Step)

FairSpec == Spec /\ Fairness

-----------------------------------------------------------------------------
TypeOK ==
  /\ inner \in Closed..FileSize /\ logicalPos \in 0..FileSize
  /\ logicalSize \in {0, FileSize}
  /\ ioError \in {"none", "eio", "exit"}
  /\ call.pc \in {"idle", "inject", "injectAgain", "connect", "read", "seek", "nothing"}

\* A read delivers the bytes from the position that the cache was told, over
\* all reconnections, pauses and seeks, unless a failed seek returned 0.
ReadsContinueStep ==
  out' # out /\ ~refused => \A i \in 1..Len(out') : out'[i] = believed + i - 1
ReadsContinue == [][ReadsContinueStep]_vars

\* The position of the inner protocol is the logical one between calls, also
\* after a call that failed half way.
PositionsAgree == Idle /\ inner # Closed => inner = logicalPos

\* A pause ends the call in progress, however often the inner protocol fails
\* and the application asks for another attempt.
InPause == paused /\ ~Idle
=============================================================================
