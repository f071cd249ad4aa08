------------------------------ MODULE AsyncIo -------------------------------
(***************************************************************************)
(* The async protocol (ijkavformat/ijkasync.c): async_buffer_task reads    *)
(* ahead into a ring, the caller reads and seeks in the ring, and asks the *)
(* task to seek when the position is not in it.                            *)
(*                                                                         *)
(* A byte is the position it has in the file.  The sections under c->mutex *)
(* are one step each; the task fills the ring without the mutex.           *)
(***************************************************************************)
EXTENDS Integers, Sequences

CONSTANTS
  FileSize,    \* bytes of the inner resource
  Forwards,    \* forwards_capacity
  Backwards,   \* backwards_capacity
  Chunk,       \* bytes the task asks for at once (4096 in the code)
  ShortSeek,   \* SHORT_SEEK_THRESHOLD
  MaxRead,     \* bytes the caller asks for at once (bound)
  MaxSeeks, MaxErrors  \* bounds

ASSUME AsyncAssumption ==
  /\ FileSize \in Nat /\ Forwards \in Nat /\ Backwards \in Nat
  /\ Chunk \in Nat \ {0} /\ ShortSeek \in Nat /\ MaxRead \in Nat

VARIABLES
  fifo, readPos,  \* RingBuffer: the bytes held, and how many lie behind
  pos,            \* logical_pos
  seek,           \* seek_request, seek_pos, seek_completed, seek_ret
  eof, error,     \* io_eof_reached, io_error
  abort,          \* abort_request
  interrupted,    \* what the interrupt callback of the caller returns
  inner,          \* the position of the inner resource
  task,           \* async_buffer_task: pc, to_copy and the result of a read
  main,           \* the caller: pc, the bytes wanted and got, and how
  out,            \* the bytes delivered by the last read
  result,         \* what the last call returned
  used            \* seeks and errors so far

ringVars == <<fifo, readPos>>
ioVars   == <<eof, error>>
vars == <<ringVars, pos, seek, ioVars, abort, interrupted, inner, task, main,
          out, result, used>>

NoSeek == [request |-> FALSE, to |-> 0, completed |-> FALSE, ret |-> 0]
AtRest == [pc |-> "idle", want |-> 0, got |-> 0, all |-> FALSE, keep |-> TRUE]
Failed == -1   \* any error of the inner resource but the end of file

Init ==
  /\ fifo = <<>> /\ readPos = 0 /\ pos = 0
  /\ seek = NoSeek
  /\ eof = FALSE /\ error = "none"
  /\ abort = FALSE /\ interrupted = FALSE
  /\ inner = 0
  /\ task = [pc |-> "top", copy |-> 0, ret |-> 0, error |-> "none"]
  /\ main = AtRest
  /\ out = <<>> /\ result = "none"
  /\ used = [seeks |-> 0, errors |-> 0]

RingAhead == Len(fifo) - readPos
RingSpace == Forwards + Backwards - Len(fifo)

\* Mutant: the position is moved back but nothing is drained.
AfterReadKeeps(n) ==
  LET behind == readPos + n
  IN  /\ UNCHANGED fifo
      /\ readPos' = IF behind > Backwards THEN Backwards ELSE behind

\* ring_generic_read: what lies further behind than the capacity is drained.
AfterRead(n) ==
  LET behind == readPos + n
      drain  == IF behind > Backwards THEN behind - Backwards ELSE 0
  IN  /\ fifo' = SubSeq(fifo, drain + 1, Len(fifo))
      /\ readPos' = behind - drain

\* async_check_interrupt: remembers that the caller interrupted.
Interrupted == abort \/ interrupted

\* Mutant: the caller is not signalled.
WakeNobody == main

\* pthread_cond_signal on cond_wakeup_main and cond_wakeup_background.
WakeMain == IF main.pc \in {"readWait", "seekWait"}
            THEN [main EXCEPT !.pc = IF @ = "readWait" THEN "read" ELSE "seek"]
            ELSE main
WakeTask == IF task.pc = "wait" THEN [task EXCEPT !.pc = "top"] ELSE task

-----------------------------------------------------------------------------
\* async_buffer_task

TaskEnds ==
  /\ task.pc = "top" /\ Interrupted
  /\ abort' = TRUE /\ eof' = TRUE /\ error' = "exit"
  /\ task' = [task EXCEPT !.pc = "done"]
  /\ main' = WakeMain
  /\ UNCHANGED <<ringVars, pos, seek, interrupted, inner, out, result, used>>

\* Mutant: the ring is not reset.
TaskSeeksKeepsRing ==
  /\ task.pc = "top" /\ ~Interrupted /\ seek.request
  /\ inner' = seek.to
  /\ seek' = [seek EXCEPT !.request = FALSE, !.completed = TRUE, !.ret = seek.to]
  /\ eof' = FALSE /\ error' = "none"
  /\ main' = WakeMain
  /\ UNCHANGED <<ringVars, pos, abort, interrupted, task, out, result, used>>

\* ffurl_seek succeeds or fails; either way the ring is reset.
TaskSeeks ==
  /\ task.pc = "top" /\ ~Interrupted /\ seek.request
  /\ \/ /\ inner' = seek.to
        /\ seek' = [seek EXCEPT !.request = FALSE, !.completed = TRUE, !.ret = seek.to]
        /\ eof' = FALSE /\ error' = "none"
        /\ UNCHANGED used
     \/ /\ used.errors < MaxErrors /\ used' = [used EXCEPT !.errors = @ + 1]
        /\ seek' = [seek EXCEPT !.request = FALSE, !.completed = TRUE, !.ret = Failed]
        /\ eof' = TRUE /\ error' = "failed"
        /\ UNCHANGED inner
  /\ fifo' = <<>> /\ readPos' = 0
  /\ main' = WakeMain
  /\ UNCHANGED <<pos, abort, interrupted, task, out, result>>

\* Nothing to do: the task sleeps until it is signalled.
TaskWaits ==
  /\ task.pc = "top" /\ ~Interrupted /\ ~seek.request
  /\ eof \/ RingSpace <= 0
  /\ task' = [task EXCEPT !.pc = "wait"]
  /\ main' = WakeMain
  /\ UNCHANGED <<ringVars, pos, seek, ioVars, abort, interrupted, inner, out,
                 result, used>>

TaskReads ==
  /\ task.pc = "top" /\ ~Interrupted /\ ~seek.request
  /\ ~eof /\ RingSpace > 0
  /\ task' = [task EXCEPT !.pc = "fill",
                          !.copy = IF RingSpace < Chunk THEN RingSpace ELSE Chunk]
  /\ UNCHANGED <<ringVars, pos, seek, ioVars, abort, interrupted, inner, main,
                 out, result, used>>

\* ring_generic_write, without the mutex: the bytes appear in the ring when
\* the last of them was read.
TaskFills ==
  /\ task.pc = "fill"
  /\ \/ \E n \in 1..task.copy :
          /\ inner + n <= FileSize
          /\ fifo' = fifo \o [i \in 1..n |-> inner + i - 1]
          /\ inner' = inner + n
          /\ task' = [task EXCEPT !.pc = "report", !.ret = n, !.error = "none"]
          /\ UNCHANGED used
     \/ /\ inner >= FileSize
        /\ task' = [task EXCEPT !.pc = "report", !.ret = 0, !.error = "eof"]
        /\ UNCHANGED <<fifo, inner, used>>
     \/ /\ used.errors < MaxErrors /\ used' = [used EXCEPT !.errors = @ + 1]
        /\ task' = [task EXCEPT !.pc = "report", !.ret = 0, !.error = "failed"]
        /\ UNCHANGED <<fifo, inner>>
  /\ UNCHANGED <<readPos, pos, seek, ioVars, abort, interrupted, main, out,
                 result>>

TaskReports ==
  /\ task.pc = "report"
  /\ eof' = (eof \/ task.ret <= 0)
  /\ error' = IF task.ret <= 0 THEN task.error ELSE error
  /\ task' = [task EXCEPT !.pc = "top", !.copy = 0, !.ret = 0, !.error = "none"]
  /\ main' = WakeMain
  /\ UNCHANGED <<ringVars, pos, seek, abort, interrupted, inner, out, result,
                 used>>

-----------------------------------------------------------------------------
\* The caller.

\* async_read
Read(n) ==
  /\ main.pc = "idle"
  /\ main' = [pc |-> "read", want |-> n, got |-> 0, all |-> FALSE, keep |-> TRUE]
  /\ out' = <<>>
  /\ UNCHANGED <<ringVars, pos, seek, ioVars, abort, interrupted, inner, task,
                 result, used>>

Return(r) == main' = AtRest /\ result' = r

\* async_read_internal, one turn of its loop: what is there is taken; when it
\* is not enough and nothing more will come, the call ends, else it waits.
ReadInterrupted ==
  /\ main.pc = "read" /\ Interrupted
  /\ abort' = TRUE
  /\ Return("exit")
  /\ task' = WakeTask
  /\ UNCHANGED <<ringVars, pos, seek, ioVars, interrupted, inner, out, used>>

ReadTakes ==
  /\ main.pc = "read" /\ ~Interrupted /\ RingAhead > 0
  /\ LET n == IF main.want < RingAhead THEN main.want ELSE RingAhead
     IN  /\ AfterRead(n)
         /\ out' = IF main.keep THEN SubSeq(fifo, readPos + 1, readPos + n) ELSE <<>>
         /\ pos' = pos + n
         /\ IF n = main.want \/ ~main.all
            THEN Return("ok")
            ELSE /\ main' = [main EXCEPT !.want = @ - n, !.got = @ + n,
                                         !.pc = "readWait"]
                 /\ UNCHANGED result
  /\ task' = WakeTask
  /\ UNCHANGED <<seek, ioVars, abort, interrupted, inner, used>>

ReadEnds ==
  /\ main.pc = "read" /\ ~Interrupted /\ RingAhead = 0 /\ eof
  /\ Return(IF main.got > 0 THEN "ok" ELSE IF error = "none" THEN "eof" ELSE error)
  /\ task' = WakeTask
  /\ UNCHANGED <<ringVars, pos, seek, ioVars, abort, interrupted, inner, out,
                 used>>

ReadWaits ==
  /\ main.pc = "read" /\ ~Interrupted /\ RingAhead = 0 /\ ~eof
  /\ main' = [main EXCEPT !.pc = "readWait"]
  /\ task' = WakeTask
  /\ UNCHANGED <<ringVars, pos, seek, ioVars, abort, interrupted, inner, out,
                 result, used>>

\* async_seek decides without the mutex where the position lies: at the
\* caller, behind it in the ring, not far ahead, or elsewhere.
InRing(p) == p >= pos - readPos /\ p < pos + RingAhead + ShortSeek

Seek(p) ==
  /\ main.pc = "idle" /\ used.seeks < MaxSeeks
  /\ used' = [used EXCEPT !.seeks = @ + 1]
  /\ out' = <<>>
  /\ UNCHANGED <<fifo, ioVars, abort, interrupted, inner, task>>
  /\ \/ /\ p = pos
        /\ result' = "ok"
        /\ UNCHANGED <<readPos, pos, seek, main>>
     \/ /\ p < pos /\ InRing(p)
        /\ readPos' = readPos + (p - pos)
        /\ pos' = p /\ result' = "ok"
        /\ UNCHANGED <<seek, main>>
     \/ /\ p > pos /\ InRing(p)
        /\ main' = [pc |-> "read", want |-> p - pos, got |-> 0, all |-> TRUE,
                    keep |-> FALSE]
        /\ UNCHANGED <<readPos, pos, seek, result>>
     \/ /\ p # pos /\ ~InRing(p) /\ p > FileSize
        /\ result' = "failed"
        /\ UNCHANGED <<readPos, pos, seek, main>>
     \/ /\ p # pos /\ ~InRing(p) /\ p <= FileSize
        /\ seek' = [request |-> TRUE, to |-> p, completed |-> FALSE, ret |-> 0]
        /\ main' = [AtRest EXCEPT !.pc = "seek"]
        /\ UNCHANGED <<readPos, pos, result>>

\* The loop of async_seek that waits for the task.
SeekWaits ==
  /\ main.pc = "seek" /\ ~Interrupted /\ ~seek.completed
  /\ main' = [main EXCEPT !.pc = "seekWait"]
  /\ task' = WakeTask
  /\ UNCHANGED <<ringVars, pos, seek, ioVars, abort, interrupted, inner, out,
                 result, used>>

SeekReturns ==
  /\ main.pc = "seek"
  /\ \/ /\ Interrupted /\ abort' = TRUE
        /\ Return("exit") /\ UNCHANGED pos
     \/ /\ ~Interrupted /\ seek.completed /\ UNCHANGED abort
        /\ Return(IF seek.ret >= 0 THEN "ok" ELSE "failed")
        /\ pos' = IF seek.ret >= 0 THEN seek.ret ELSE pos
  /\ UNCHANGED <<ringVars, seek, ioVars, interrupted, inner, task, out, used>>

\* async_close: the caller joins the task.
Close ==
  /\ main.pc = "idle"
  /\ abort' = TRUE
  /\ main' = [main EXCEPT !.pc = "join"]
  /\ task' = WakeTask
  /\ UNCHANGED <<ringVars, pos, seek, ioVars, interrupted, inner, out, result,
                 used>>

Joined ==
  /\ main.pc = "join" /\ task.pc = "done"
  /\ main' = [main EXCEPT !.pc = "closed"]
  /\ UNCHANGED <<ringVars, pos, seek, ioVars, abort, interrupted, inner, task,
                 out, result, used>>

\* The callback of the caller asks for an interrupt from now on.
Interrupt ==
  /\ ~interrupted
  /\ interrupted' = TRUE
  /\ UNCHANGED <<ringVars, pos, seek, ioVars, abort, inner, task, main, out,
                 result, used>>

\* pthread_cond_wait may return without a signal.
SpuriousWakeup ==
  /\ \/ task.pc = "wait" /\ task' = WakeTask /\ UNCHANGED main
     \/ main.pc \in {"readWait", "seekWait"} /\ main' = WakeMain /\ UNCHANGED task
  /\ UNCHANGED <<ringVars, pos, seek, ioVars, abort, interrupted, inner, out,
                 result, used>>

-----------------------------------------------------------------------------
TaskStep == \/ TaskEnds \/ TaskSeeks \/ TaskWaits \/ TaskReads \/ TaskFills
            \/ TaskReports
MainStep == \/ ReadInterrupted \/ ReadTakes \/ ReadEnds \/ ReadWaits
            \/ SeekWaits \/ SeekReturns \/ Joined

Next ==
  \/ TaskStep \/ MainStep
  \/ \E n \in 1..MaxRead : Read(n)
  \/ \E p \in 0..(FileSize + 1) : Seek(p)
  \/ Close \/ Interrupt \/ SpuriousWakeup

Spec == Init /\ [][Next]_vars

Fairness == WF_vars(TaskStep) /\ WF_vars(MainStep)

FairSpec == Spec /\ Fairness

-----------------------------------------------------------------------------
TypeOK ==
  /\ readPos \in 0..Len(fifo) /\ Len(fifo) <= Forwards + Backwards
  /\ pos \in 0..FileSize /\ inner \in 0..FileSize
  /\ task.pc \in {"top", "fill", "report", "wait", "done"}
  /\ main.pc \in {"idle", "read", "readWait", "seek", "seekWait", "join", "closed"}
  /\ error \in {"none", "eof", "failed", "exit"}

\* Where the ring begins in the file: behind the position of the caller, or at
\* the position of a seek that the task has done and the caller has not noticed
\* yet.
Sought == seek.completed /\ main.pc \in {"seek", "seekWait"}
First  == IF Sought THEN seek.ret ELSE pos - readPos

\* The ring holds the bytes of the file from there on (ijkasync.c:227-301).
RingHeld == abort \/ \A i \in 1..Len(fifo) : fifo[i] = First + i - 1

\* The task reads on where the ring ends.
ReadsOn == abort \/ eof \/ fifo = <<>> \/ inner = fifo[Len(fifo)] + 1

\* The end of file is reported only at the end of the file, whatever was read
\* ahead, sought or failed before.
EofIsEnd == result = "eof" => pos = FileSize

\* Ring, task and caller agree on the bytes that are held.
RingIsFile == TypeOK /\ RingHeld /\ ReadsOn /\ EofIsEnd

\* A caller that waits is answered, and a close ends the task: no wake-up of
\* the two condition variables is lost.
InAsyncCall == main.pc \notin {"idle", "closed"}

\* The protocol delivers what the file holds at the position of the caller.
Stream == INSTANCE ByteStream
ImplementsStream == Stream!Spec
=============================================================================
