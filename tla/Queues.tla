------------------------------- MODULE Queues -------------------------------
(***************************************************************************)
(* The queues of packets and the rings of frames of ff_ffplay.c, as        *)
(* operators on their values.  Each operator is one function of the code   *)
(* run under the mutex of the queue; a module that uses them holds the     *)
(* queues in its state and applies one operator per critical section.      *)
(*                                                                         *)
(* A packet is a record [kind, epoch, pos]: a "data" packet read at        *)
(* position pos of the medium after the epoch-th seek, the "flush" marker  *)
(* (flush_pkt) or the "null" packet that drains a decoder at the end of    *)
(* file.  A queued packet also carries the serial it was queued under.     *)
(* "locked" is TRUE when a function returned without unlocking the mutex:  *)
(* no later critical section of the queue can begin.                       *)
(*                                                                         *)
(* keep_last is set for the rings modelled here: the frame shown last      *)
(* stays in the ring, and shown (rindex_shown) says that slots[rindex] is  *)
(* such a frame.                                                           *)
(***************************************************************************)
EXTENDS Integers, Sequences, FiniteSets

CONSTANTS RingSize,   \* max_size
          NoFrame

ASSUME RingAssumption == RingSize \in Nat \ {0, 1}

Kinds == {"data", "flush", "null"}

\* packet_queue_init: aborted until it is started, but for the queues of the
\* audio tracks, which stream_open opens for packets at once.
NewQueue(abort) ==
  [pkts |-> <<>>, serial |-> 0, abort |-> abort, background |-> FALSE,
   recv_eof |-> FALSE, total |-> 0, locked |-> FALSE]

\* Mutant: the flush marker does not start a new serial.
PutNoSerial(q, p) ==
  IF q.abort THEN q
  ELSE [q EXCEPT !.pkts  = Append(@, [kind |-> p.kind, epoch |-> p.epoch,
                                      pos |-> p.pos, serial |-> q.serial]),
                 !.total = IF p.kind = "data" THEN @ + 1 ELSE @]

\* packet_queue_put_private and packet_queue_put: refused by an aborted
\* queue; only the flush marker starts a new serial, and only packets with
\* data are counted.
Put(q, p) ==
  LET serial == IF p.kind = "flush" THEN q.serial + 1 ELSE q.serial
  IN  IF q.abort THEN q
      ELSE [q EXCEPT !.pkts   = Append(@, [kind |-> p.kind, epoch |-> p.epoch,
                                           pos |-> p.pos, serial |-> serial]),
                     !.serial = serial,
                     !.total  = IF p.kind = "data" THEN @ + 1 ELSE @]

\* packet_queue_get when the queue holds a packet and is not aborted.  The
\* packet is compared with flush_pkt through the address it was copied to,
\* so that the marker, which has data too, is counted out like a packet.
Get(q) ==
  [q EXCEPT !.pkts  = Tail(@),
            !.total = IF Head(q.pkts).kind # "null" THEN @ - 1 ELSE @]

\* packet_queue_flush: recv_eof and the count stay as they are.
Flush(q) == [q EXCEPT !.pkts = <<>>]

\* packet_queue_abort, packet_queue_set_backgroud.
Abort(q)      == [q EXCEPT !.abort = TRUE]
Background(q) == [q EXCEPT !.abort = FALSE, !.background = TRUE]

\* packet_queue_start; the queue of an audio track keeps what it holds and
\* starts no new serial.
Start(q, isAudio, marker) ==
  LET on == [q EXCEPT !.abort = FALSE, !.background = FALSE]
  IN  IF isAudio THEN on ELSE Put(on, marker)

\* packet_queue_put_eof
PutEof(q) == [q EXCEPT !.recv_eof = TRUE]

\* packet_queue_drop: three returns leave the mutex locked.
Drop(q) ==
  IF q.abort \/ q.pkts = <<>> \/ Head(q.pkts).kind # "data"
  THEN [q EXCEPT !.locked = TRUE]
  ELSE [q EXCEPT !.pkts = Tail(@), !.total = @ - 1]

\* packet_queue_sync_multi_audiotrack: the packets at the head that lie at
\* or before the position pos leave.  The test that should exempt markers is
\* always true, so a position is computed for them too, from a pts of
\* INT64_MIN: they leave, unless subtracting a positive start time wraps it
\* around to the far future.
Overdue(p, pos, lateStart) ==
  IF p.kind = "data" THEN p.pos <= pos ELSE ~lateStart
OverdueCount(q, pos, lateStart) ==
  CHOOSE n \in 0..Len(q.pkts) :
    /\ \A i \in 1..n : Overdue(q.pkts[i], pos, lateStart)
    /\ n < Len(q.pkts) => ~Overdue(q.pkts[n + 1], pos, lateStart)
SyncTo(q, pos, lateStart) ==
  LET n == OverdueCount(q, pos, lateStart)
  IN  [q EXCEPT !.pkts  = SubSeq(@, n + 1, Len(@)),
                !.total = @ - Cardinality({i \in 1..n : q.pkts[i].kind = "data"})]

-----------------------------------------------------------------------------
\* What the queues of the player look like, whatever was done to them.
Packet == [kind : Kinds, epoch : Nat, pos : Nat]
Queue  ==
  [pkts : Seq([kind : Kinds, epoch : Nat, pos : Nat, serial : Int]),
   serial : Int, abort : BOOLEAN, background : BOOLEAN, recv_eof : BOOLEAN,
   total : Int, locked : BOOLEAN]

\* Serials never decrease along the queue and never pass that of the queue.
SerialsOrdered(q) ==
  /\ \A i \in 1..Len(q.pkts) : q.pkts[i].serial <= q.serial
  /\ \A i, j \in 1..Len(q.pkts) : i <= j => q.pkts[i].serial <= q.pkts[j].serial

\* Behind a flush marker nothing of the serial before it is left.
MarkerStartsSerial(q) ==
  \A i, j \in 1..Len(q.pkts) :
    i < j /\ q.pkts[j].kind = "flush" => q.pkts[i].serial < q.pkts[j].serial

-----------------------------------------------------------------------------
\* frame_queue_init
NewRing == [slots |-> [i \in 0..(RingSize - 1) |-> NoFrame],
            rindex |-> 0, windex |-> 0, size |-> 0, shown |-> 0]

\* frame_queue_nb_remaining
Remaining(f) == f.size - f.shown

\* frame_queue_peek, frame_queue_peek_readable: the slot they return.
PeekIndex(f) == (f.rindex + f.shown) % RingSize

\* Mutant: windex wraps around one slot too late.
PushWrapsLate(f, frame) ==
  [f EXCEPT !.slots[f.windex] = frame,
            !.windex = (@ + 1) % (RingSize + 1),
            !.size   = @ + 1]

\* frame_queue_push, after the slot that frame_queue_peek_writable returned
\* was filled.
Push(f, frame) ==
  [f EXCEPT !.slots[f.windex] = frame,
            !.windex = (@ + 1) % RingSize,
            !.size   = @ + 1]

\* frame_queue_next: the first call after the ring was empty only marks the
\* frame as shown; every other call releases the frame shown before.
NextFrame(f) ==
  IF f.shown = 0
  THEN [f EXCEPT !.shown = 1]
  ELSE [f EXCEPT !.slots[f.rindex] = NoFrame,
                 !.rindex = (@ + 1) % RingSize,
                 !.size   = @ - 1]

\* Mutant: the ring keeps the frames of the track that is closed.
ResetRingKeeps(f) == f

\* stream_component_close resets the ring of the audio track it closes, but
\* neither rindex_shown nor the frames.
ResetRing(f) == [f EXCEPT !.rindex = 0, !.windex = 0, !.size = 0]

\* The indices describe size frames from rindex on.
RingSound(f) ==
  /\ f.size \in 0..RingSize
  /\ f.windex = (f.rindex + f.size) % RingSize
=============================================================================
