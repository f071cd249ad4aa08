--------------------------- MODULE StreamsProofs ----------------------------
(***************************************************************************)
(* Proofs about the streams of a playing file (Streams): every variable    *)
(* keeps its type, the serials along a queue tell old packets from new     *)
(* ones, what is played belongs to the active track and was read after the *)
(* last seek, and only a switch of tracks upsets a ring of frames.         *)
(***************************************************************************)
EXTENDS Streams, CommonLemmas, FiniteSetTheorems, TLAPS

-----------------------------------------------------------------------------
\* The packet queues.

QPacket == [kind : Kinds, epoch : Nat, pos : Nat, serial : Int]

\* The last packet has the serial of the queue, and only a marker begins
\* another serial.
Chained(x) ==
  /\ x.pkts # <<>> => x.pkts[Len(x.pkts)].serial = x.serial
  /\ \A i \in 1..Len(x.pkts) :
       (i > 1 /\ x.pkts[i].kind # "flush") => x.pkts[i].serial = x.pkts[i - 1].serial

\* A queue as the operations of Queues keep it.
GoodQueue(x) ==
  /\ x \in Queue
  /\ x.serial >= 0 /\ \A i \in 1..Len(x.pkts) : x.pkts[i].serial >= 0
  /\ SerialsOrdered(x) /\ MarkerStartsSerial(x) /\ Chained(x)

(***************************************************************************)
(* The types of the fields of a queue.                                     *)
(***************************************************************************)
LEMMA Fields ==
  ASSUME NEW x \in Queue
  PROVE  /\ x.pkts \in Seq(QPacket) /\ Len(x.pkts) \in Nat /\ x.serial \in Int
         /\ x.abort \in BOOLEAN /\ x.background \in BOOLEAN /\ x.recv_eof \in BOOLEAN
         /\ x.total \in Int /\ x.locked \in BOOLEAN
         /\ \A i \in 1..Len(x.pkts) :
              x.pkts[i] \in QPacket /\ x.pkts[i].serial \in Int
<1>1. /\ x.pkts \in Seq(QPacket) /\ x.serial \in Int
      /\ x.abort \in BOOLEAN /\ x.background \in BOOLEAN /\ x.recv_eof \in BOOLEAN
      /\ x.total \in Int /\ x.locked \in BOOLEAN
  BY DEF Queue, QPacket
<1>2. Len(x.pkts) \in Nat /\ \A i \in 1..Len(x.pkts) : x.pkts[i] \in QPacket
  BY <1>1
<1>3. \A p \in QPacket : p.serial \in Int
  BY DEF QPacket
<1>4. QED
  BY <1>1, <1>2, <1>3

(***************************************************************************)
(* A record with the fields of a queue is a queue.                         *)
(***************************************************************************)
LEMMA IsQueue ==
  ASSUME NEW pkts \in Seq(QPacket), NEW serial \in Int, NEW abort \in BOOLEAN,
         NEW background \in BOOLEAN, NEW recv \in BOOLEAN, NEW total \in Int,
         NEW locked \in BOOLEAN
  PROVE  [pkts |-> pkts, serial |-> serial, abort |-> abort,
          background |-> background, recv_eof |-> recv, total |-> total,
          locked |-> locked] \in Queue
BY DEF Queue, QPacket

(***************************************************************************)
(* A queue with the packets of a good one keeps it good.                   *)
(***************************************************************************)
LEMMA SamePackets ==
  ASSUME NEW x, GoodQueue(x), NEW y \in Queue, y.pkts = x.pkts, y.serial = x.serial
  PROVE  GoodQueue(y)
BY DEF GoodQueue, SerialsOrdered, MarkerStartsSerial, Chained

(***************************************************************************)
(* packet_queue_put: the packet comes last, with the serial of the queue,  *)
(* which a marker increments; an aborted queue stays as it is.             *)
(***************************************************************************)
LEMMA PutPackets ==
  ASSUME NEW x \in Queue, NEW p \in Packet
  PROVE  /\ Put(x, p) \in Queue
         /\ Put(x, p).abort = x.abort /\ Put(x, p).background = x.background
         /\ x.abort => Put(x, p) = x
         /\ ~x.abort =>
              /\ Put(x, p).serial = (IF p.kind = "flush" THEN x.serial + 1 ELSE x.serial)
              /\ Put(x, p).pkts =
                   Append(x.pkts, [kind |-> p.kind, epoch |-> p.epoch, pos |-> p.pos,
                                   serial |-> Put(x, p).serial])
<1>1. CASE x.abort
  BY <1>1 DEF Put
<1>2. CASE ~x.abort
  <2> DEFINE serial == IF p.kind = "flush" THEN x.serial + 1 ELSE x.serial
             last == [kind |-> p.kind, epoch |-> p.epoch, pos |-> p.pos, serial |-> serial]
             total == IF p.kind = "data" THEN x.total + 1 ELSE x.total
             pkts == Append(x.pkts, last)
  <2>1. Put(x, p) = [pkts |-> pkts, serial |-> serial, abort |-> x.abort,
                     background |-> x.background, recv_eof |-> x.recv_eof,
                     total |-> total, locked |-> x.locked]
    BY <1>2 DEF Put, Queue
  <2>2. serial \in Int /\ total \in Int
    BY Fields
  <2>3. last \in QPacket
    BY <2>2 DEF Packet, QPacket
  <2>4. pkts \in Seq(QPacket)
    BY <2>3, Fields
  <2> HIDE DEF pkts, total
  <2>5. Put(x, p) \in Queue
    BY <2>1, <2>2, <2>4, Fields, IsQueue
  <2>6. Put(x, p).pkts = pkts /\ Put(x, p).serial = serial
        /\ Put(x, p).abort = x.abort /\ Put(x, p).background = x.background
    BY <2>1
  <2>7. QED
    BY <1>2, <2>5, <2>6 DEF pkts
<1>3. QED
  BY <1>1, <1>2

LEMMA PutGood ==
  ASSUME NEW x, GoodQueue(x), NEW p \in Packet
  PROVE  GoodQueue(Put(x, p))
<1>1. CASE x.abort
  BY <1>1, PutPackets DEF GoodQueue
<1>2. CASE ~x.abort
  <2> DEFINE y == Put(x, p)
             n == Len(x.pkts)
  <2>1. y \in Queue /\ x \in Queue
    BY PutPackets DEF GoodQueue
  <2>2. /\ y.serial = (IF p.kind = "flush" THEN x.serial + 1 ELSE x.serial)
        /\ y.pkts = Append(x.pkts, [kind |-> p.kind, epoch |-> p.epoch, pos |-> p.pos,
                                    serial |-> y.serial])
    BY <1>2, <2>1, PutPackets
  <2> HIDE DEF y
  <2>3. /\ x.pkts \in Seq(QPacket) /\ x.serial \in Int /\ y.serial \in Int
        /\ y.pkts \in Seq(QPacket)
    BY <2>1 DEF Queue, QPacket
  <2>4. /\ n \in Nat /\ Len(y.pkts) = n + 1
        /\ \A i \in 1..n : y.pkts[i] = x.pkts[i]
        /\ y.pkts[n + 1].kind = p.kind /\ y.pkts[n + 1].serial = y.serial
    BY <2>2, <2>3
  <2>5. \A i \in 1..n : /\ x.pkts[i].serial \in Int /\ x.pkts[i].serial >= 0
                        /\ x.pkts[i].serial <= x.serial
    BY <2>1, Fields DEF GoodQueue, SerialsOrdered
  <2>6. x.serial <= y.serial /\ y.serial >= 0
    BY <2>2, <2>3 DEF GoodQueue
  <2>7. /\ y.serial >= 0 /\ \A i \in 1..Len(y.pkts) : y.pkts[i].serial >= 0
    BY <2>3, <2>4, <2>5, <2>6
  <2>8. SerialsOrdered(y)
    <3>1. \A i \in 1..Len(y.pkts) : y.pkts[i].serial <= y.serial
      <4>1. SUFFICES ASSUME NEW i \in 1..(n + 1)
                     PROVE  y.pkts[i].serial <= y.serial
        BY <2>4
      <4>2. CASE i = n + 1
        BY <4>2, <2>3, <2>4
      <4>3. CASE i # n + 1
        <5>1. i \in 1..n
          BY <4>3, <2>4
        <5>2. y.pkts[i] = x.pkts[i] /\ x.pkts[i].serial \in Int /\ x.pkts[i].serial <= x.serial
          BY <5>1, <2>4, <2>5
        <5>3. QED
          BY <5>2, <2>3, <2>6
      <4>4. QED
        BY <4>2, <4>3
    <3>2. \A i, j \in 1..Len(y.pkts) : i <= j => y.pkts[i].serial <= y.pkts[j].serial
      <4>1. SUFFICES ASSUME NEW i \in 1..(n + 1), NEW j \in 1..(n + 1), i <= j
                     PROVE  y.pkts[i].serial <= y.pkts[j].serial
        BY <2>4
      <4>2. CASE j = n + 1
        BY <4>2, <3>1, <2>4
      <4>3. CASE j # n + 1
        BY <4>3, <4>1, <2>4 DEF GoodQueue, SerialsOrdered
      <4>4. QED
        BY <4>2, <4>3
    <3>3. QED
      BY <3>1, <3>2 DEF SerialsOrdered
  <2>9. MarkerStartsSerial(y)
    <3>1. SUFFICES ASSUME NEW i \in 1..(n + 1), NEW j \in 1..(n + 1), i < j,
                          y.pkts[j].kind = "flush"
                   PROVE  y.pkts[i].serial < y.pkts[j].serial
      BY <2>4 DEF MarkerStartsSerial
    <3>2. i \in 1..n
      BY <2>4, <3>1
    <3>3. CASE j = n + 1
      BY <3>1, <3>2, <3>3, <2>2, <2>3, <2>4, <2>5
    <3>4. CASE j # n + 1
      BY <3>1, <3>2, <3>4, <2>4 DEF GoodQueue, MarkerStartsSerial
    <3>5. QED
      BY <3>3, <3>4
  <2>10. Chained(y)
    <3>1. y.pkts[Len(y.pkts)].serial = y.serial
      BY <2>4
    <3>2. ASSUME NEW i \in 1..(n + 1), i > 1, y.pkts[i].kind # "flush"
          PROVE  y.pkts[i].serial = y.pkts[i - 1].serial
      <4>1. CASE i = n + 1
        <5>1. n \in 1..n /\ y.serial = x.serial /\ x.pkts # <<>>
          BY <3>2, <4>1, <2>2, <2>3, <2>4
        <5>2. x.pkts[n].serial = x.serial
          BY <5>1 DEF GoodQueue, Chained
        <5>3. QED
          BY <4>1, <5>1, <5>2, <2>4
      <4>2. CASE i # n + 1
        BY <3>2, <4>2, <2>4 DEF GoodQueue, Chained
      <4>3. QED
        BY <4>1, <4>2
    <3>3. QED
      BY <3>1, <3>2, <2>4 DEF Chained
  <2>11. GoodQueue(y)
    BY <2>1, <2>7, <2>8, <2>9, <2>10 DEF GoodQueue
  <2>12. QED
    BY <2>11 DEF y
<1>3. QED
  BY <1>1, <1>2

(***************************************************************************)
(* Packets that leave at the head of a queue leave a good one.             *)
(***************************************************************************)
LEMMA SuffixGood ==
  ASSUME NEW x, GoodQueue(x), NEW n \in 0..Len(x.pkts), NEW y \in Queue,
         y.serial = x.serial, Len(y.pkts) = Len(x.pkts) - n,
         \A i \in 1..Len(y.pkts) : y.pkts[i] = x.pkts[i + n]
  PROVE  GoodQueue(y)
<1>1. x \in Queue /\ x.pkts \in Seq(QPacket) /\ Len(x.pkts) \in Nat
      /\ y.pkts \in Seq(QPacket) /\ Len(y.pkts) \in Nat
  BY Fields DEF GoodQueue
<1>2. \A i \in 1..Len(y.pkts) : i + n \in 1..Len(x.pkts)
  BY <1>1
<1>3. \A i \in 1..Len(y.pkts) : y.pkts[i].serial >= 0
  BY <1>2 DEF GoodQueue
<1>4. SerialsOrdered(y)
  <2>1. \A i \in 1..Len(y.pkts) : y.pkts[i].serial <= y.serial
    BY <1>2 DEF GoodQueue, SerialsOrdered
  <2>2. ASSUME NEW i \in 1..Len(y.pkts), NEW j \in 1..Len(y.pkts), i <= j
        PROVE  y.pkts[i].serial <= y.pkts[j].serial
    <3>1. i + n \in 1..Len(x.pkts) /\ j + n \in 1..Len(x.pkts) /\ i + n <= j + n
      BY <2>2, <1>1
    <3>2. x.pkts[i + n].serial <= x.pkts[j + n].serial
      BY <3>1 DEF GoodQueue, SerialsOrdered
    <3>3. QED
      BY <3>2
  <2>3. QED
    BY <2>1, <2>2 DEF SerialsOrdered
<1>5. MarkerStartsSerial(y)
  <2>1. ASSUME NEW i \in 1..Len(y.pkts), NEW j \in 1..Len(y.pkts), i < j,
               y.pkts[j].kind = "flush"
        PROVE  y.pkts[i].serial < y.pkts[j].serial
    <3>1. i + n \in 1..Len(x.pkts) /\ j + n \in 1..Len(x.pkts) /\ i + n < j + n
      BY <2>1, <1>1
    <3>2. x.pkts[j + n].kind = "flush"
      BY <2>1
    <3>3. x.pkts[i + n].serial < x.pkts[j + n].serial
      BY <3>1, <3>2 DEF GoodQueue, MarkerStartsSerial
    <3>4. QED
      BY <3>3
  <2>2. QED
    BY <2>1 DEF MarkerStartsSerial
<1>6. Chained(y)
  <2>1. ASSUME y.pkts # <<>>
        PROVE  y.pkts[Len(y.pkts)].serial = y.serial
    <3>1. Len(y.pkts) \in 1..Len(y.pkts) /\ Len(y.pkts) + n = Len(x.pkts) /\ x.pkts # <<>>
      BY <2>1, <1>1
    <3>2. y.pkts[Len(y.pkts)] = x.pkts[Len(x.pkts)]
      BY <3>1
    <3>3. QED
      BY <3>1, <3>2 DEF GoodQueue, Chained
  <2>2. ASSUME NEW i \in 1..Len(y.pkts), i > 1, y.pkts[i].kind # "flush"
        PROVE  y.pkts[i].serial = y.pkts[i - 1].serial
    <3>1. i - 1 \in 1..Len(y.pkts) /\ i + n \in 1..Len(x.pkts) /\ i + n > 1
          /\ (i - 1) + n = (i + n) - 1
      BY <2>2, <1>1
    <3>2. y.pkts[i] = x.pkts[i + n] /\ y.pkts[i - 1] = x.pkts[(i + n) - 1]
      BY <3>1
    <3>3. QED
      BY <2>2, <3>1, <3>2 DEF GoodQueue, Chained
  <2>3. QED
    BY <2>1, <2>2 DEF Chained
<1>7. QED
  BY <1>3, <1>4, <1>5, <1>6 DEF GoodQueue

(***************************************************************************)
(* packet_queue_get takes the head.                                        *)
(***************************************************************************)
LEMMA GetGood ==
  ASSUME NEW x, GoodQueue(x), x.pkts # <<>>
  PROVE  /\ GoodQueue(Get(x))
         /\ Get(x).pkts = Tail(x.pkts) /\ Get(x).serial = x.serial
         /\ Get(x).abort = x.abort /\ Get(x).background = x.background
<1> DEFINE total == IF Head(x.pkts).kind # "null" THEN x.total - 1 ELSE x.total
<1>1. x \in Queue /\ x.pkts \in Seq(QPacket) /\ Tail(x.pkts) \in Seq(QPacket)
      /\ total \in Int
  BY Fields DEF GoodQueue
<1>2. /\ Get(x) \in Queue /\ Get(x).pkts = Tail(x.pkts) /\ Get(x).serial = x.serial
      /\ Get(x).abort = x.abort /\ Get(x).background = x.background
  <2> DEFINE rest == Tail(x.pkts)
  <2>1. Get(x) = [x EXCEPT !.pkts = rest, !.total = total]
    BY DEF Get
  <2>2. rest \in Seq(QPacket) /\ total \in Int
    BY <1>1
  <2> HIDE DEF total, rest
  <2>3. Get(x) = [pkts |-> rest, serial |-> x.serial, abort |-> x.abort,
                  background |-> x.background, recv_eof |-> x.recv_eof,
                  total |-> total, locked |-> x.locked]
    BY <1>1, <2>1 DEF Queue
  <2>4. Get(x) \in Queue
    BY <1>1, <2>2, <2>3, Fields, IsQueue
  <2>5. QED
    BY <2>3, <2>4 DEF rest
<1>3. /\ 1 \in 0..Len(x.pkts) /\ Len(Tail(x.pkts)) = Len(x.pkts) - 1
      /\ \A i \in 1..Len(Tail(x.pkts)) : Tail(x.pkts)[i] = x.pkts[i + 1]
  BY <1>1
<1>4. QED
  BY <1>2, <1>3, SuffixGood

(***************************************************************************)
(* packet_queue_flush empties the queue and keeps its serial.              *)
(***************************************************************************)
LEMMA FlushGood ==
  ASSUME NEW x, GoodQueue(x)
  PROVE  /\ GoodQueue(Flush(x))
         /\ Flush(x).pkts = <<>> /\ Flush(x).serial = x.serial
         /\ Flush(x).abort = x.abort /\ Flush(x).background = x.background
<1>1. /\ Flush(x) \in Queue /\ Flush(x).pkts = <<>> /\ Flush(x).serial = x.serial
      /\ Flush(x).abort = x.abort /\ Flush(x).background = x.background
  <2> DEFINE none == <<>>
  <2>1. x \in Queue /\ none \in Seq(QPacket)
    BY DEF GoodQueue
  <2>2. Flush(x) = [x EXCEPT !.pkts = none]
    BY DEF Flush
  <2> HIDE DEF none
  <2>3. Flush(x) = [pkts |-> none, serial |-> x.serial, abort |-> x.abort,
                    background |-> x.background, recv_eof |-> x.recv_eof,
                    total |-> x.total, locked |-> x.locked]
    BY <2>1, <2>2 DEF Queue
  <2>4. Flush(x) \in Queue
    BY <2>1, <2>3, Fields, IsQueue
  <2>5. QED
    BY <2>3, <2>4 DEF none
<1>2. QED
  BY <1>1 DEF GoodQueue, SerialsOrdered, MarkerStartsSerial, Chained

(***************************************************************************)
(* The operations on the flags of a queue keep its packets.                *)
(***************************************************************************)
LEMMA FlagsGood ==
  ASSUME NEW x, GoodQueue(x)
  PROVE  /\ GoodQueue(Abort(x)) /\ Abort(x).pkts = x.pkts /\ Abort(x).serial = x.serial
         /\ Abort(x).abort = TRUE /\ Abort(x).background = x.background
         /\ GoodQueue(Background(x)) /\ Background(x).pkts = x.pkts
         /\ Background(x).serial = x.serial /\ Background(x).background = TRUE
         /\ GoodQueue(PutEof(x)) /\ PutEof(x).pkts = x.pkts
         /\ PutEof(x).serial = x.serial /\ PutEof(x).abort = x.abort
         /\ PutEof(x).background = x.background
         /\ \A p : LET y == Start(x, TRUE, p) IN
              GoodQueue(y) /\ y.pkts = x.pkts /\ y.serial = x.serial
<1>1. x \in Queue
  BY DEF GoodQueue
<1>2. /\ Abort(x) \in Queue /\ Abort(x).pkts = x.pkts /\ Abort(x).serial = x.serial
      /\ Abort(x).abort = TRUE /\ Abort(x).background = x.background
  BY <1>1 DEF Abort, Queue
<1>3. /\ Background(x) \in Queue /\ Background(x).pkts = x.pkts
      /\ Background(x).serial = x.serial /\ Background(x).background = TRUE
  BY <1>1 DEF Background, Queue
<1>4. /\ PutEof(x) \in Queue /\ PutEof(x).pkts = x.pkts
      /\ PutEof(x).serial = x.serial /\ PutEof(x).abort = x.abort
      /\ PutEof(x).background = x.background
  BY <1>1 DEF PutEof, Queue
<1>5. ASSUME NEW p
      PROVE  /\ Start(x, TRUE, p) \in Queue /\ Start(x, TRUE, p).pkts = x.pkts
             /\ Start(x, TRUE, p).serial = x.serial
  BY <1>1 DEF Start, Queue
<1>6. QED
  BY <1>2, <1>3, <1>4, <1>5, SamePackets

(***************************************************************************)
(* packet_queue_drop takes a data packet from the head or leaves the mutex *)
(* locked.                                                                 *)
(***************************************************************************)
LEMMA DropGood ==
  ASSUME NEW x, GoodQueue(x)
  PROVE  /\ GoodQueue(Drop(x)) /\ Drop(x).serial = x.serial
         /\ Drop(x).abort = x.abort /\ Drop(x).background = x.background
         /\ \/ Drop(x).pkts = x.pkts
            \/ /\ x.pkts # <<>> /\ Head(x.pkts).kind = "data"
               /\ Drop(x).pkts = Tail(x.pkts)
<1>1. x \in Queue /\ x.pkts \in Seq(QPacket)
  BY DEF GoodQueue, Queue, QPacket
<1>2. CASE x.abort \/ x.pkts = <<>> \/ Head(x.pkts).kind # "data"
  <2>1. /\ Drop(x) \in Queue /\ Drop(x).pkts = x.pkts /\ Drop(x).serial = x.serial
        /\ Drop(x).abort = x.abort /\ Drop(x).background = x.background
    BY <1>1, <1>2 DEF Drop, Queue
  <2>2. QED
    BY <2>1, SamePackets
<1>3. CASE ~(x.abort \/ x.pkts = <<>> \/ Head(x.pkts).kind # "data")
  <2>1. Tail(x.pkts) \in Seq(QPacket) /\ x.total - 1 \in Int
    BY <1>1, <1>3, Fields
  <2>2. /\ Drop(x) \in Queue /\ Drop(x).pkts = Tail(x.pkts) /\ Drop(x).serial = x.serial
        /\ Drop(x).abort = x.abort /\ Drop(x).background = x.background
    <3> DEFINE rest == Tail(x.pkts)
    <3>1. Drop(x) = [pkts |-> rest, serial |-> x.serial, abort |-> x.abort,
                     background |-> x.background, recv_eof |-> x.recv_eof,
                     total |-> x.total - 1, locked |-> x.locked]
      BY <1>1, <1>3 DEF Drop, Queue
    <3>2. rest \in Seq(QPacket)
      BY <2>1
    <3> HIDE DEF rest
    <3>3. Drop(x) \in Queue
      BY <1>1, <2>1, <3>1, <3>2, Fields, IsQueue
    <3>4. QED
      BY <3>1, <3>3 DEF rest
  <2>3. /\ 1 \in 0..Len(x.pkts) /\ Len(Tail(x.pkts)) = Len(x.pkts) - 1
        /\ \A i \in 1..Len(Tail(x.pkts)) : Tail(x.pkts)[i] = x.pkts[i + 1]
    BY <1>1, <1>3
  <2>4. GoodQueue(Drop(x))
    BY <2>2, <2>3, SuffixGood
  <2>5. QED
    BY <1>3, <2>2, <2>4
<1>4. QED
  BY <1>2, <1>3

(***************************************************************************)
(* How many packets packet_queue_sync_multi_audiotrack takes is defined.   *)
(***************************************************************************)
LEMMA OverdueCounted ==
  ASSUME NEW x \in Queue, NEW pos, NEW late
  PROVE  OverdueCount(x, pos, late) \in 0..Len(x.pkts)
<1> DEFINE Stays == {i \in 1..Len(x.pkts) : ~Overdue(x.pkts[i], pos, late)}
           Right(n) == /\ \A i \in 1..n : Overdue(x.pkts[i], pos, late)
                       /\ n < Len(x.pkts) => ~Overdue(x.pkts[n + 1], pos, late)
<1>1. Len(x.pkts) \in Nat
  BY DEF Queue
<1>2. \E n \in 0..Len(x.pkts) : Right(n)
  <2>1. CASE Stays = {}
    BY <1>1, <2>1
  <2>2. CASE Stays # {}
    <3>1. Stays \subseteq Nat
      OBVIOUS
    <3>2. PICK m \in Stays : \A i \in Stays : m <= i
      BY <2>2, <3>1, Least
    <3>3. m \in 1..Len(x.pkts) /\ ~Overdue(x.pkts[m], pos, late)
      OBVIOUS
    <3>4. \A i \in 1..(m - 1) : Overdue(x.pkts[i], pos, late)
      <4>1. SUFFICES ASSUME NEW i \in 1..(m - 1), ~Overdue(x.pkts[i], pos, late)
                     PROVE  FALSE
        OBVIOUS
      <4>2. i \in Stays /\ ~(m <= i)
        BY <1>1, <3>3, <4>1
      <4>3. QED
        BY <3>2, <4>2
    <3>5. m - 1 \in 0..Len(x.pkts) /\ (m - 1) + 1 = m
      BY <1>1, <3>3
    <3>6. Right(m - 1)
      BY <3>3, <3>4, <3>5
    <3>7. QED
      BY <3>5, <3>6
  <2>3. QED
    BY <2>1, <2>2
<1>3. QED
  BY <1>2 DEF OverdueCount

(***************************************************************************)
(* packet_queue_sync_multi_audiotrack takes packets from the head.         *)
(***************************************************************************)
LEMMA SyncGood ==
  ASSUME NEW x, GoodQueue(x), NEW pos, NEW late
  PROVE  LET y == SyncTo(x, pos, late) IN
         /\ GoodQueue(y) /\ y.serial = x.serial
         /\ y.abort = x.abort /\ y.background = x.background
         /\ \E n \in 0..Len(x.pkts) :
              /\ Len(y.pkts) = Len(x.pkts) - n
              /\ \A i \in 1..Len(y.pkts) : y.pkts[i] = x.pkts[i + n]
<1> DEFINE n == OverdueCount(x, pos, late)
           y == SyncTo(x, pos, late)
           Gone == {i \in 1..n : x.pkts[i].kind = "data"}
<1>1. x \in Queue /\ x.pkts \in Seq(QPacket) /\ Len(x.pkts) \in Nat
  BY DEF GoodQueue, Queue, QPacket
<1>2. n \in 0..Len(x.pkts)
  BY <1>1, OverdueCounted
<1> HIDE DEF n
<1>3. Cardinality(Gone) \in Int
  <2>1. IsFiniteSet(1..n) /\ Gone \subseteq 1..n
    BY <1>2, FS_Interval
  <2>2. IsFiniteSet(Gone)
    BY <2>1, FS_Subset
  <2>3. QED
    BY <2>2, FS_CardinalityType
<1>4. /\ SubSeq(x.pkts, n + 1, Len(x.pkts)) \in Seq(QPacket)
      /\ Len(SubSeq(x.pkts, n + 1, Len(x.pkts))) = Len(x.pkts) - n
      /\ \A i \in 1..(Len(x.pkts) - n) :
           SubSeq(x.pkts, n + 1, Len(x.pkts))[i] = x.pkts[i + n]
  BY <1>1, <1>2
<1>5. y = [x EXCEPT !.pkts  = SubSeq(@, n + 1, Len(@)),
                    !.total = @ - Cardinality(Gone)]
  BY DEF SyncTo, n
<1> HIDE DEF y, Gone
<1>6. /\ y \in Queue /\ y.pkts = SubSeq(x.pkts, n + 1, Len(x.pkts))
      /\ y.serial = x.serial /\ y.abort = x.abort /\ y.background = x.background
  <2>1. y = [pkts |-> SubSeq(x.pkts, n + 1, Len(x.pkts)), serial |-> x.serial,
             abort |-> x.abort, background |-> x.background, recv_eof |-> x.recv_eof,
             total |-> x.total - Cardinality(Gone), locked |-> x.locked]
    BY <1>1, <1>5 DEF Queue
  <2>2. x.total - Cardinality(Gone) \in Int
    BY <1>1, <1>3, Fields
  <2>3. y \in Queue
    BY <1>1, <1>4, <2>1, <2>2, Fields, IsQueue
  <2>4. QED
    BY <2>1, <2>3
<1>7. GoodQueue(y)
  BY <1>2, <1>4, <1>6, SuffixGood
<1>8. QED
  BY <1>2, <1>4, <1>6, <1>7 DEF y

-----------------------------------------------------------------------------
\* The frame queues.

Slots == 0..(RingSize - 1)
Ring  == [slots : [Slots -> Frame \cup {NoFrame}], rindex : Slots, windex : Slots,
          size : -1..RingSize, shown : {0, 1}]

\* The indices of a ring agree; that of the samples may be one frame behind.
Indexed(f) ==
  /\ f.windex = (f.rindex + f.size) % RingSize
  /\ f.size = -1 => f.rindex = 1

\* The frame k places from the start of a ring, and the places that hold one.
At(f, k) == f.slots[(f.rindex + k) % RingSize]
Places(f) == {k \in Slots : k < f.size}

(***************************************************************************)
(* The fields of a ring, and where its places are.                         *)
(***************************************************************************)
LEMMA RingFields ==
  ASSUME NEW f \in Ring
  PROVE  /\ f.slots \in [Slots -> Frame \cup {NoFrame}]
         /\ f.rindex \in 0..(RingSize - 1) /\ f.windex \in 0..(RingSize - 1)
         /\ f.size \in -1..RingSize /\ f.shown \in {0, 1}
         /\ RingSize \in Nat \ {0, 1}
BY RingAssumption DEF Ring, Slots

LEMMA PlaceOf ==
  ASSUME NEW f \in Ring, NEW k \in 0..RingSize
  PROVE  /\ (f.rindex + k) % RingSize =
              IF f.rindex + k < RingSize THEN f.rindex + k ELSE f.rindex + k - RingSize
         /\ (f.rindex + k) % RingSize \in Slots
<1>1. /\ f.rindex \in Nat /\ k \in Nat /\ f.rindex + k < 2 * RingSize
      /\ RingSize \in Nat /\ RingSize > 0
  BY RingFields
<1>2. (f.rindex + k) % RingSize =
        IF f.rindex + k < RingSize THEN f.rindex + k ELSE f.rindex + k - RingSize
  BY <1>1, Wrap
<1>3. QED
  BY <1>1, <1>2, RingFields DEF Slots

LEMMA NextIndex ==
  ASSUME NEW i \in Slots
  PROVE  /\ (i + 1) % RingSize = IF i + 1 = RingSize THEN 0 ELSE i + 1
         /\ (i + 1) % RingSize \in Slots
<1>1. i \in Int /\ i + 1 \in Nat /\ i + 1 < 2 * RingSize /\ RingSize \in Nat /\ RingSize > 0
  BY RingAssumption DEF Slots
<1>2. (i + 1) % RingSize = IF i + 1 < RingSize THEN i + 1 ELSE i + 1 - RingSize
  BY <1>1
<1>3. QED
  BY <1>1, <1>2 DEF Slots

(***************************************************************************)
(* frame_queue_push fills the place behind those that are held.            *)
(***************************************************************************)
LEMMA PushRing ==
  ASSUME NEW f \in Ring, Indexed(f), f.size < RingSize, NEW frame \in Frame
  PROVE  LET g == Push(f, frame) IN
         /\ g \in Ring /\ Indexed(g) /\ g.size = f.size + 1
         /\ g.shown = f.shown /\ g.rindex = f.rindex
         /\ \A i \in Slots : g.slots[i] = f.slots[i] \/ g.slots[i] = frame
         /\ \A k \in Places(f) : At(g, k) = At(f, k)
         /\ \A k \in Places(g) : k \notin Places(f) => At(g, k) = frame
<1> DEFINE g == Push(f, frame)
           slots == [f.slots EXCEPT ![f.windex] = frame]
           windex == (f.windex + 1) % RingSize
<1>1. /\ f.rindex \in 0..(RingSize - 1) /\ f.windex \in 0..(RingSize - 1)
      /\ f.size \in -1..(RingSize - 1) /\ RingSize \in Nat \ {0, 1}
      /\ f.size \in Int /\ f.shown \in {0, 1}
  BY RingFields
<1>2. g = [slots |-> slots, rindex |-> f.rindex, windex |-> windex,
           size |-> f.size + 1, shown |-> f.shown]
  <2>1. g = [f EXCEPT !.slots = slots, !.windex = windex, !.size = f.size + 1]
    BY DEF Push
  <2> HIDE DEF g, slots, windex
  <2>2. QED
    BY <2>1 DEF Ring
<1>3. slots \in [Slots -> Frame \cup {NoFrame}] /\ windex \in Slots
  BY RingFields, NextIndex, <1>1 DEF Slots
<1>4. g \in Ring
  BY <1>1, <1>2, <1>3 DEF Ring, Slots
<1>5. \A i \in Slots : slots[i] = IF i = f.windex THEN frame ELSE f.slots[i]
  BY RingFields
<1>6. Indexed(g)
  <2>1. f.size + 1 # -1
    BY <1>1
  <2>2. CASE f.size = -1
    <3>1. f.rindex = 1 /\ f.rindex + f.size = 0 /\ f.rindex + (f.size + 1) = 1
      BY <2>2 DEF Indexed
    <3>2. f.windex = 0 % RingSize
      BY <3>1 DEF Indexed
    <3>3. 0 % RingSize = 0 /\ 1 % RingSize = 1
      BY <1>1
    <3>4. windex = 1
      BY <3>2, <3>3
    <3>5. QED
      BY <1>2, <2>1, <3>1, <3>3, <3>4 DEF Indexed
  <2>3. CASE f.size \in 0..(RingSize - 1)
    <3>1. f.windex = IF f.rindex + f.size < RingSize THEN f.rindex + f.size
                     ELSE f.rindex + f.size - RingSize
      BY <2>3, <1>1, PlaceOf DEF Indexed
    <3>2. (f.rindex + (f.size + 1)) % RingSize =
            IF f.rindex + (f.size + 1) < RingSize THEN f.rindex + (f.size + 1)
            ELSE f.rindex + (f.size + 1) - RingSize
      <4>1. f.size + 1 \in 0..RingSize
        BY <2>3, <1>1
      <4>2. QED
        BY <4>1, PlaceOf
    <3>3. windex = IF f.windex + 1 = RingSize THEN 0 ELSE f.windex + 1
      BY <1>1, NextIndex DEF Slots
    <3>4. windex = (f.rindex + (f.size + 1)) % RingSize
      BY <1>1, <2>3, <3>1, <3>2, <3>3
    <3>5. QED
      BY <1>2, <2>1, <3>4 DEF Indexed
  <2>4. QED
    BY <1>1, <2>2, <2>3
<1>7. \A k \in Places(f) : At(g, k) = At(f, k)
  <2>1. SUFFICES ASSUME NEW k \in Places(f)
                 PROVE  At(g, k) = At(f, k)
    OBVIOUS
  <2>2. k \in 0..(RingSize - 1) /\ k < f.size /\ f.size \in 0..(RingSize - 1)
    BY <1>1, <2>1 DEF Places, Slots
  <2>3. /\ (f.rindex + k) % RingSize =
             IF f.rindex + k < RingSize THEN f.rindex + k ELSE f.rindex + k - RingSize
        /\ (f.rindex + k) % RingSize \in Slots
    <3>1. k \in 0..RingSize
      BY <1>1, <2>2
    <3>2. QED
      BY <3>1, PlaceOf, Zenon
  <2>4. f.windex = IF f.rindex + f.size < RingSize THEN f.rindex + f.size
                   ELSE f.rindex + f.size - RingSize
    BY <2>2, <1>1, PlaceOf DEF Indexed
  <2>5. (f.rindex + k) % RingSize # f.windex
    BY <1>1, <2>2, <2>3, <2>4
  <2>6. QED
    BY <1>2, <1>5, <2>3, <2>5 DEF At
<1>8. \A k \in Places(g) : k \notin Places(f) => At(g, k) = frame
  <2>1. SUFFICES ASSUME NEW k \in Places(g), k \notin Places(f)
                 PROVE  At(g, k) = frame
    OBVIOUS
  <2>2. k = f.size /\ k \in 0..(RingSize - 1)
    BY <1>1, <1>2, <2>1 DEF Places, Slots
  <2>3. (f.rindex + k) % RingSize = f.windex
    BY <2>2 DEF Indexed
  <2>4. QED
    BY <1>1, <1>2, <1>5, <2>3 DEF At, Slots
<1>9. QED
  BY <1>2, <1>4, <1>5, <1>6, <1>7, <1>8

(***************************************************************************)
(* frame_queue_next: the places that are held move to the front.           *)
(***************************************************************************)
LEMMA NextRing ==
  ASSUME NEW f \in Ring, Indexed(f),
         f.shown = 1 => (f.size >= 1 \/ (f.size = 0 /\ f.rindex = 0))
  PROVE  LET g == NextFrame(f) IN
         /\ g \in Ring /\ Indexed(g) /\ g.size = f.size - f.shown
         /\ \A i \in Slots : g.slots[i] = f.slots[i] \/ g.slots[i] = NoFrame
         /\ \A k \in Places(g) : k + f.shown \in Places(f) /\ At(g, k) = At(f, k + f.shown)
<1> DEFINE g == NextFrame(f)
           slots == [f.slots EXCEPT ![f.rindex] = NoFrame]
           rindex == (f.rindex + 1) % RingSize
<1>1. /\ f.rindex \in 0..(RingSize - 1) /\ f.windex \in 0..(RingSize - 1)
      /\ f.size \in -1..RingSize /\ RingSize \in Nat \ {0, 1}
      /\ f.size \in Int /\ f.shown \in {0, 1}
  BY RingFields
<1>2. CASE f.shown = 0
  <2>1. g = [slots |-> f.slots, rindex |-> f.rindex, windex |-> f.windex,
             size |-> f.size, shown |-> 1]
    BY <1>2 DEF NextFrame, Ring
  <2>2. g \in Ring /\ Indexed(g)
    BY <2>1 DEF Ring, Indexed
  <2>3. \A k \in Places(g) : k + f.shown \in Places(f) /\ At(g, k) = At(f, k + f.shown)
    <3>1. \A k \in Places(g) : k \in Places(f) /\ k + f.shown = k /\ At(g, k) = At(f, k)
      BY <1>1, <1>2, <2>1 DEF Places, Slots, At
    <3>2. QED
      BY <3>1
  <2>4. QED
    BY <1>1, <1>2, <2>1, <2>2, <2>3
<1>3. CASE f.shown = 1
  <2>1. g = [slots |-> slots, rindex |-> rindex, windex |-> f.windex,
             size |-> f.size - 1, shown |-> f.shown]
    <3>1. g = [f EXCEPT !.slots = slots, !.rindex = rindex, !.size = f.size - 1]
      BY <1>3 DEF NextFrame
    <3> HIDE DEF g, slots, rindex
    <3>2. QED
      BY <3>1 DEF Ring
  <2>2. slots \in [Slots -> Frame \cup {NoFrame}] /\ rindex \in Slots
    BY RingFields, NextIndex, <1>1 DEF Slots
  <2>3. f.size \in 0..RingSize
    BY <1>1, <1>3
  <2>4. g \in Ring
    BY <1>1, <2>1, <2>2, <2>3 DEF Ring
  <2>5. \A i \in Slots : slots[i] = IF i = f.rindex THEN NoFrame ELSE f.slots[i]
    BY RingFields
  <2>6. rindex = IF f.rindex + 1 = RingSize THEN 0 ELSE f.rindex + 1
    BY <1>1, NextIndex DEF Slots
  <2>7. Indexed(g)
    <3>1. CASE f.size = 0
      <4>1. f.rindex = 0 /\ f.windex = 0 % RingSize /\ rindex = 1
        BY <1>1, <1>3, <2>6, <3>1 DEF Indexed
      <4>2. QED
        BY <2>1, <3>1, <4>1 DEF Indexed
    <3>2. CASE f.size >= 1
      <4>1. f.windex = IF f.rindex + f.size < RingSize THEN f.rindex + f.size
                       ELSE f.rindex + f.size - RingSize
        BY <2>3, PlaceOf DEF Indexed
      <4>2. /\ rindex + (f.size - 1) \in Nat /\ rindex + (f.size - 1) < 2 * RingSize
            /\ RingSize \in Nat /\ RingSize > 0
        BY <1>1, <2>3, <2>6, <3>2
      <4>3. (rindex + (f.size - 1)) % RingSize =
              IF rindex + (f.size - 1) < RingSize THEN rindex + (f.size - 1)
              ELSE rindex + (f.size - 1) - RingSize
        <5> HIDE DEF rindex
        <5>1. rindex \in Int /\ f.size \in Int
          BY <1>1, <2>2 DEF Slots
        <5>2. QED
          BY <4>2, <5>1
      <4>4. f.windex = (rindex + (f.size - 1)) % RingSize
        BY <1>1, <2>3, <2>6, <3>2, <4>1, <4>3
      <4>5. f.size - 1 # -1
        BY <2>3, <3>2
      <4>6. QED
        BY <2>1, <4>4, <4>5 DEF Indexed
    <3>3. QED
      BY <2>3, <3>1, <3>2
  <2>8. \A k \in Places(g) : k + f.shown \in Places(f) /\ At(g, k) = At(f, k + f.shown)
    <3>1. SUFFICES ASSUME NEW k \in Places(g)
                   PROVE  k + 1 \in Places(f) /\ At(g, k) = At(f, k + 1)
      BY <1>3
    <3>2. k \in 0..(RingSize - 1) /\ k < f.size - 1
      BY <2>1 DEF Places, Slots
    <3>3. k + 1 \in Places(f) /\ k + 1 \in 0..RingSize
      BY <1>1, <3>2 DEF Places, Slots
    <3>4. /\ (f.rindex + (k + 1)) % RingSize =
               IF f.rindex + (k + 1) < RingSize THEN f.rindex + (k + 1)
               ELSE f.rindex + (k + 1) - RingSize
          /\ (f.rindex + (k + 1)) % RingSize \in Slots
      BY <3>3, PlaceOf
    <3>5. (rindex + k) % RingSize =
            IF rindex + k < RingSize THEN rindex + k ELSE rindex + k - RingSize
      <4>1. g.rindex = rindex /\ k \in 0..RingSize
        BY <2>1, <3>2, <1>1
      <4>2. QED
        BY <2>4, <4>1, PlaceOf
    <3>6. (rindex + k) % RingSize = (f.rindex + (k + 1)) % RingSize
      BY <1>1, <2>6, <3>2, <3>4, <3>5
    <3>7. (f.rindex + (k + 1)) % RingSize # f.rindex
      BY <1>1, <2>3, <3>2, <3>4
    <3>8. QED
      BY <2>1, <2>5, <3>3, <3>4, <3>6, <3>7 DEF At
  <2>9. QED
    BY <1>3, <2>1, <2>4, <2>5, <2>7, <2>8
<1>4. QED
  BY <1>1, <1>2, <1>3

(***************************************************************************)
(* The reset of a ring holds nothing.                                      *)
(***************************************************************************)
LEMMA ResetRingGood ==
  ASSUME NEW f \in Ring
  PROVE  LET g == ResetRing(f) IN
         /\ g \in Ring /\ Indexed(g) /\ g.size = 0 /\ g.rindex = 0
         /\ g.slots = f.slots /\ g.shown = f.shown
<1>1. ResetRing(f) = [slots |-> f.slots, rindex |-> 0, windex |-> 0, size |-> 0,
                      shown |-> f.shown]
  <2>1. ResetRing(f) = [f EXCEPT !.rindex = 0, !.windex = 0, !.size = 0]
    BY DEF ResetRing
  <2>2. QED
    BY <2>1 DEF Ring
<1>2. ResetRing(f) \in Ring
  BY <1>1, RingFields DEF Ring, Slots
<1>3. 0 % RingSize = 0
  BY RingAssumption
<1>4. QED
  BY <1>1, <1>2, <1>3 DEF Indexed

LEMMA NewRingGood == NewRing \in Ring /\ Indexed(NewRing) /\ NewRing.size = 0
<1>1. NewRing \in Ring
  BY RingAssumption DEF NewRing, Ring, Slots
<1>2. 0 % RingSize = 0
  BY RingAssumption
<1>3. QED
  BY <1>1, <1>2 DEF NewRing, Indexed

-----------------------------------------------------------------------------
\* The inductive invariant, in parts.

Sample  == [epoch : Nat, pos : Nat]
DecoderState ==
  [pc : {"top", "get", "send", "push", "end"}, on : Ids \cup {None},
   src : Ids \cup {None}, pkt_serial : Int, finished : Int, codec : Seq(Sample),
   drain : BOOLEAN, pkt : QPacket \cup {None}, frame : Sample \cup {None}]
ReadState ==
  [pc : {"loop", "body", "flush", "mark", "video", "sought", "read", "end"},
   eof : BOOLEAN, completed : BOOLEAN, pos : Nat, next : SUBSET Ids]
CallbackState == [pc : {"closed", "idle", "next", "check"}, slot : Slots]
AppState ==
  [pc : {"idle", "join", "reset", "aout", "active", "open", "start",
         "joinRead", "joinAudio", "joinVideo", "closed"},
   track : Tracks \cup {None}, bare : BOOLEAN]

Types ==
  /\ file \in [streams : SUBSET Ids, length : Nat]
  /\ q \in [Ids -> Queue]
  /\ ring \in [Media -> Ring]
  /\ dec \in [Media -> DecoderState]
  /\ audioq \in Tracks /\ audioStream \in Tracks \cup {None}
  /\ rd \in ReadState /\ cb \in CallbackState /\ app \in AppState
  /\ seekReq \in BOOLEAN /\ seekPos \in Nat /\ epoch \in Nat /\ clock \in Nat
  /\ out \in [Media -> Frame \cup {None}]
  /\ stale \subseteq Tracks /\ abortReq \in BOOLEAN

QueuesGood == \A s \in Ids : GoodQueue(q[s])

\* A decoder that runs is fed by the queue of its medium, and what it is about
\* to send or to push is there; a track is opened and closed in steps.
Runs(m) == dec[m].pc # "end"
Carries(d) == /\ d.pc = "send" => d.pkt \in QPacket
              /\ d.pc = "push" => d.frame \in Sample
Wired ==
  /\ \A m \in Media : Carries(dec[m])
  /\ Runs("V") => (dec["V"].on = Video /\ Video \in Opened)
  /\ Runs("A") => audioStream # None /\ app.pc \notin {"reset", "aout", "start"}
  /\ (audioStream # None /\ app.pc # "start") => dec["A"].on = audioq
  /\ audioStream # None => (audioStream \in Opened /\ audioq \in Opened)
  /\ audioStream = None => cb.pc = "closed"
  /\ app.pc \in {"join", "reset", "aout", "start"} => audioStream # None
  /\ app.pc \in {"active", "open"} => (audioStream = None /\ app.track \in Opened)
  /\ app.pc = "open" => audioq \in Opened
  /\ app.pc = "start" => app.track \in Opened
  /\ (app.pc \in {"join", "reset", "aout"} /\ app.track # None) => app.track \in Opened
  /\ Opened \cap Tracks # {} => audioq \in Opened
  /\ (~app.bare /\ audioStream # None) => audioStream = audioq
  /\ (~app.bare /\ app.pc = "open") => app.track = audioq

\* The indices of the rings; the callback may be about to advance a ring that
\* a switch has reset meanwhile.
RingsWell ==
  /\ \A m \in Media : Indexed(ring[m])
  /\ ring["V"].size >= 0
  /\ cb.pc = "next" =>
       \/ ring["A"].size > ring["A"].shown
       \/ app.pc = "aout" /\ ring["A"].size = 0 /\ ring["A"].rindex = 0
  /\ (app.pc \in {"aout", "start"} \/ audioStream = None) => ring["A"].size <= 0

\* What the places of a ring hold, and the frame that the callback was given,
\* which may have been released meanwhile, came through the queue they belong to.
Given == ring["A"].slots[cb.slot]
HasFrame == cb.pc \in {"next", "check"} /\ Given # NoFrame
FramesPlaced ==
  /\ \A k \in Places(ring["V"]) : At(ring["V"], k) \in Frame /\ At(ring["V"], k).on = Video
  /\ \A k \in Places(ring["A"]) : At(ring["A"], k) # NoFrame => At(ring["A"], k).on = audioq
  /\ HasFrame => Given.on = audioq

(***************************************************************************)
(* What each step of a decoder thread does to the decoder.                 *)
(***************************************************************************)
Others(m) == \A n \in Media : n # m => dec'[n] = dec[n]

LEMMA Ranges ==
  ASSUME Types
  PROVE  /\ \A m \in Media : dec[m] \in DecoderState /\ ring[m] \in Ring
         /\ \A s \in Ids : q[s] \in Queue
         /\ Media = {"A", "V"} /\ Ids = Tracks \cup {Video}
         /\ Video \notin Tracks /\ None \notin Tracks /\ None # Video
BY StreamsAssumption DEF Types, Media, Ids

LEMMA DecoderFields ==
  ASSUME NEW d \in DecoderState
  PROVE  /\ d.pc \in {"top", "get", "send", "push", "end"}
         /\ d.on \in Ids \cup {None} /\ d.src \in Ids \cup {None}
         /\ d.pkt_serial \in Int /\ d.finished \in Int /\ d.codec \in Seq(Sample)
         /\ d.drain \in BOOLEAN /\ d.pkt \in QPacket \cup {None}
         /\ d.frame \in Sample \cup {None}
BY DEF DecoderState

LEMMA ReceiveDoes ==
  ASSUME Types, NEW m \in Media, Receive(m)
  PROVE  LET d == dec[m]  e == dec'[m]  x == q[d.on] IN
         /\ dec' \in [Media -> DecoderState] /\ Others(m)
         /\ d.pc = "top" /\ e.on = d.on /\ e.pkt_serial = d.pkt_serial /\ e.pkt = d.pkt
         /\ \/ /\ e.pc = "push" /\ d.codec # <<>> /\ x.serial = d.pkt_serial
               /\ e.frame = Head(d.codec) /\ e.codec = Tail(d.codec)
               /\ e.finished = d.finished
            \/ /\ e.pc \in {"get", "end", "top"} /\ e.codec = d.codec
               /\ e.finished \in {d.finished, d.pkt_serial}
         /\ UNCHANGED <<file, q, ring, rd, cb, app, abortReq, seekVars, trackVars,
                        playVars, boundVars>>
<1> DEFINE d == dec[m]
           x == q[d.on]
<1>1. d \in DecoderState /\ dec \in [Media -> DecoderState]
  BY DEF Types
<1>2. /\ d.pc = "top"
      /\ UNCHANGED <<file, q, ring, rd, cb, app, abortReq, seekVars, trackVars,
                     playVars, boundVars>>
  BY DEF Receive
<1>3. ASSUME NEW pc \in {"get", "end"}, dec' = [dec EXCEPT ![m].pc = pc]
      PROVE  /\ dec' \in [Media -> DecoderState] /\ Others(m)
             /\ dec'[m].on = d.on /\ dec'[m].pkt_serial = d.pkt_serial
             /\ dec'[m].pkt = d.pkt /\ dec'[m].pc = pc /\ dec'[m].codec = d.codec
             /\ dec'[m].finished = d.finished
  <2>1. dec' = [dec EXCEPT ![m] = [d EXCEPT !.pc = pc]]
    BY <1>3
  <2>2. [d EXCEPT !.pc = pc] \in DecoderState
    BY <1>1 DEF DecoderState
  <2>3. QED
    BY <1>1, <2>1, <2>2, <1>3 DEF Others, DecoderState
<1>4. ASSUME d.codec # <<>>, x.serial = d.pkt_serial,
             dec' = [dec EXCEPT ![m].frame = Head(d.codec), ![m].codec = Tail(d.codec),
                                ![m].pc    = "push"]
      PROVE  /\ dec' \in [Media -> DecoderState] /\ Others(m)
             /\ dec'[m].on = d.on /\ dec'[m].pkt_serial = d.pkt_serial
             /\ dec'[m].pkt = d.pkt /\ dec'[m].pc = "push"
             /\ dec'[m].frame = Head(d.codec) /\ dec'[m].codec = Tail(d.codec)
             /\ dec'[m].finished = d.finished
  <2> DEFINE first == Head(d.codec)
             rest  == Tail(d.codec)
             e == [d EXCEPT !.frame = first, !.codec = rest, !.pc = "push"]
  <2>1. first \in Sample /\ rest \in Seq(Sample)
    BY <1>1, <1>4 DEF DecoderState
  <2>2. dec' = [dec EXCEPT ![m] = e]
    BY <1>1, <1>4
  <2> HIDE DEF first, rest
  <2>3. e \in DecoderState
    BY <1>1, <2>1 DEF DecoderState
  <2>4. /\ e.on = d.on /\ e.pkt_serial = d.pkt_serial /\ e.pkt = d.pkt
        /\ e.pc = "push" /\ e.frame = first /\ e.codec = rest
        /\ e.finished = d.finished
    BY <1>1, <2>1 DEF DecoderState
  <2> HIDE DEF e
  <2>5. dec' \in [Media -> DecoderState] /\ Others(m) /\ dec'[m] = e
    BY <1>1, <2>2, <2>3 DEF Others
  <2>6. QED
    BY <2>4, <2>5 DEF first, rest
<1>5. ASSUME dec' = [dec EXCEPT ![m].finished = d.pkt_serial, ![m].drain = FALSE]
      PROVE  /\ dec' \in [Media -> DecoderState] /\ Others(m)
             /\ dec'[m].on = d.on /\ dec'[m].pkt_serial = d.pkt_serial
             /\ dec'[m].pkt = d.pkt /\ dec'[m].pc = d.pc /\ dec'[m].codec = d.codec
             /\ dec'[m].finished = d.pkt_serial
  <2>1. dec' = [dec EXCEPT ![m] = [d EXCEPT !.finished = d.pkt_serial, !.drain = FALSE]]
    BY <1>1, <1>5
  <2>2. [d EXCEPT !.finished = d.pkt_serial, !.drain = FALSE] \in DecoderState
    BY <1>1 DEF DecoderState
  <2>3. QED
    BY <1>1, <2>1, <2>2 DEF Others, DecoderState
<1>6. QED
  BY <1>2, <1>3, <1>4, <1>5 DEF Receive, DecGoto

LEMMA GetDoes ==
  ASSUME Types, Wired, QueuesGood, NEW m \in Media, GetPacket(m)
  PROVE  LET d == dec[m]  e == dec'[m]  x == q[d.on] IN
         /\ dec' \in [Media -> DecoderState] /\ Others(m) /\ d.on \in Ids
         /\ d.pc = "get" /\ e.on = d.on /\ e.finished = d.finished /\ e.codec = d.codec
         /\ \/ x.abort /\ e.pc = "end" /\ q' = q /\ e.pkt_serial = d.pkt_serial
            \/ /\ ~x.abort /\ x.pkts # <<>> /\ q' = [q EXCEPT ![d.on] = Get(x)]
               /\ e.pkt_serial = Head(x.pkts).serial
               /\ \/ e.pc = "get" /\ d.finished = Head(x.pkts).serial
                  \/ e.pc = "send" /\ e.pkt = Head(x.pkts) /\ e.pkt \in QPacket
         /\ UNCHANGED <<file, ring, rd, cb, app, abortReq, seekVars, trackVars,
                        playVars, boundVars>>
<1> DEFINE d == dec[m]
           x == q[d.on]
           p == Head(x.pkts)
           dropped == PacketBuffering /\ d.finished = p.serial
<1>1. d \in DecoderState /\ dec \in [Media -> DecoderState]
  BY DEF Types
<1>2. /\ d.pc = "get"
      /\ UNCHANGED <<file, ring, rd, cb, app, abortReq, seekVars, trackVars,
                     playVars, boundVars>>
  BY DEF GetPacket
<1>3. d.on \in Ids /\ x \in Queue
  <2>1. Runs(m) /\ (m = "A" \/ m = "V")
    BY <1>2 DEF Runs, Media
  <2>2. d.on \in Ids
    BY <2>1 DEF Wired, Runs, Types, Ids
  <2>3. QED
    BY <2>2 DEF Types
<1>4. CASE x.abort /\ DecGoto(m, "end") /\ UNCHANGED q
  <2>1. dec' = [dec EXCEPT ![m] = [d EXCEPT !.pc = "end"]]
    BY <1>4 DEF DecGoto
  <2>2. [d EXCEPT !.pc = "end"] \in DecoderState
    BY <1>1 DEF DecoderState
  <2>3. QED
    BY <1>1, <1>2, <1>3, <1>4, <2>1, <2>2 DEF Others, DecoderState
<1>5. CASE /\ ~x.abort /\ x.pkts # <<>>
           /\ q' = [q EXCEPT ![d.on] = Get(x)]
           /\ dec' = [dec EXCEPT ![m].pkt_serial = p.serial,
                                 ![m].pkt = IF dropped THEN None ELSE p,
                                 ![m].pc  = IF dropped THEN "get" ELSE "send"]
  <2> DEFINE pkt == IF dropped THEN None ELSE p
             pc  == IF dropped THEN "get" ELSE "send"
             serial == p.serial
             e == [d EXCEPT !.pkt_serial = serial, !.pkt = pkt, !.pc = pc]
  <2>1. p \in QPacket /\ serial \in Int
    <3>1. x.pkts \in Seq(QPacket) /\ x.pkts # <<>>
      BY <1>3, <1>5, Fields
    <3>2. p \in QPacket
      BY <3>1
    <3>3. QED
      BY <3>2 DEF QPacket
  <2>2. dec' = [dec EXCEPT ![m] = e]
    BY <1>1, <1>5
  <2>3. pkt \in QPacket \cup {None} /\ pc \in {"get", "send"}
    BY <2>1
  <2>4. (pc = "get" /\ d.finished = p.serial) \/ (pc = "send" /\ pkt = p)
    OBVIOUS
  <2> HIDE DEF pkt, pc, serial
  <2>5. e \in DecoderState
    BY <1>1, <2>1, <2>3 DEF DecoderState
  <2>6. /\ e.on = d.on /\ e.pkt_serial = serial /\ e.pkt = pkt
        /\ e.pc = pc /\ e.codec = d.codec /\ e.finished = d.finished
    BY <1>1, <2>1, <2>3 DEF DecoderState
  <2> HIDE DEF e
  <2>7. dec' \in [Media -> DecoderState] /\ Others(m) /\ dec'[m] = e
    BY <1>1, <2>2, <2>5 DEF Others
  <2>8. e.pkt_serial = p.serial
    BY <2>6 DEF serial
  <2>9. (e.pc = "get" /\ d.finished = p.serial)
         \/ (e.pc = "send" /\ e.pkt = p /\ e.pkt \in QPacket)
    BY <2>1, <2>4, <2>6
  <2> HIDE DEF p
  <2>10. QED
    BY <1>2, <1>3, <1>5, <2>6, <2>7, <2>8, <2>9 DEF p
<1>6. QED
  BY <1>4, <1>5 DEF GetPacket

LEMMA SendDoes ==
  ASSUME Types, Wired, NEW m \in Media, Send(m)
  PROVE  LET d == dec[m]  e == dec'[m]  x == q[d.on] IN
         /\ dec' \in [Media -> DecoderState] /\ Others(m)
         /\ d.pc = "send" /\ e.on = d.on /\ e.pkt_serial = d.pkt_serial
         /\ \/ /\ e.pc = "get" /\ x.serial # d.pkt_serial
               /\ e.codec = d.codec /\ e.finished = d.finished
            \/ /\ e.pc = "top" /\ x.serial = d.pkt_serial
               /\ \/ d.pkt.kind = "flush" /\ e.codec = <<>> /\ e.finished = 0
                  \/ /\ d.pkt.kind = "data" /\ e.finished = d.finished
                     /\ e.codec = Append(d.codec, [epoch |-> d.pkt.epoch, pos |-> d.pkt.pos])
                  \/ d.pkt.kind = "null" /\ e.codec = d.codec /\ e.finished = d.finished
         /\ UNCHANGED <<file, q, ring, rd, cb, app, abortReq, seekVars, trackVars,
                        playVars, boundVars>>
<1> DEFINE d == dec[m]
           x == q[d.on]
<1>1. d \in DecoderState /\ dec \in [Media -> DecoderState]
  BY DEF Types
<1>2. /\ d.pc = "send" /\ d.pkt \in QPacket
      /\ UNCHANGED <<file, q, ring, rd, cb, app, abortReq, seekVars, trackVars,
                     playVars, boundVars>>
  BY DEF Send, Wired, Carries
<1>3. d.pkt.kind \in {"data", "flush", "null"} /\ d.pkt.epoch \in Nat /\ d.pkt.pos \in Nat
  BY <1>2 DEF QPacket, Kinds
<1>4. CASE x.serial # d.pkt_serial
  <2>1. dec' = [dec EXCEPT ![m] = [d EXCEPT !.pc = "get", !.pkt = None]]
    BY <1>1, <1>4 DEF Send
  <2>2. [d EXCEPT !.pc = "get", !.pkt = None] \in DecoderState
    BY <1>1 DEF DecoderState
  <2>3. QED
    BY <1>1, <1>2, <1>4, <2>1, <2>2 DEF Others, DecoderState
<1>5. CASE x.serial = d.pkt_serial
  <2> DEFINE sample == [epoch |-> d.pkt.epoch, pos |-> d.pkt.pos]
             codec == CASE d.pkt.kind = "flush" -> <<>>
                        [] d.pkt.kind = "data"  -> Append(d.codec, sample)
                        [] OTHER -> d.codec
             drain == CASE d.pkt.kind = "flush" -> FALSE
                        [] d.pkt.kind = "null"  -> TRUE
                        [] OTHER -> d.drain
             finished == IF d.pkt.kind = "flush" THEN 0 ELSE d.finished
             e == [d EXCEPT !.pc = "top", !.pkt = None, !.codec = codec,
                            !.drain = drain, !.finished = finished]
  <2>1. dec' = [dec EXCEPT ![m] = e]
    BY <1>1, <1>5 DEF Send
  <2>2. sample \in Sample /\ d.codec \in Seq(Sample)
    BY <1>1, <1>3 DEF Sample, DecoderState
  <2>3. Append(d.codec, sample) \in Seq(Sample) /\ <<>> \in Seq(Sample)
    BY <2>2
  <2>4. codec \in Seq(Sample)
    BY <2>2, <2>3
  <2>5. drain \in BOOLEAN
    <3>1. d.drain \in BOOLEAN
      BY <1>1, DecoderFields
    <3>2. QED
      BY <1>3, <3>1, Zenon
  <2>6. finished \in Int
    BY <1>1, DecoderFields
  <2>7. \/ d.pkt.kind = "flush" /\ codec = <<>> /\ finished = 0
        \/ d.pkt.kind = "data" /\ codec = Append(d.codec, sample) /\ finished = d.finished
        \/ d.pkt.kind = "null" /\ codec = d.codec /\ finished = d.finished
    BY <1>3
  <2> HIDE DEF codec, drain, finished
  <2>8. e \in DecoderState
    BY <1>1, <2>4, <2>5, <2>6 DEF DecoderState
  <2>9. /\ e.on = d.on /\ e.pkt_serial = d.pkt_serial
        /\ e.pc = "top" /\ e.codec = codec /\ e.finished = finished
    BY <1>1, <2>4, <2>5, <2>6 DEF DecoderState
  <2> HIDE DEF e
  <2>10. dec' \in [Media -> DecoderState] /\ Others(m) /\ dec'[m] = e
    BY <1>1, <2>1, <2>8 DEF Others
  <2>11. QED
    BY <1>2, <1>5, <2>7, <2>9, <2>10
<1>6. QED
  BY <1>4, <1>5

\* The frame that a decoder pushes.
Decoded(d) ==
  [serial |-> d.pkt_serial, epoch |-> d.frame.epoch, pos |-> d.frame.pos, on |-> d.on]

LEMMA PushDoes ==
  ASSUME Types, Wired, NEW m \in Media, PushFrame(m)
  PROVE  LET d == dec[m]  e == dec'[m] IN
         /\ dec' \in [Media -> DecoderState] /\ Others(m)
         /\ d.pc = "push" /\ d.frame \in Sample /\ Decoded(d) \in Frame
         /\ e.on = d.on /\ e.pkt_serial = d.pkt_serial
         /\ e.codec = d.codec /\ e.finished = d.finished
         /\ \/ e.pc = "end" /\ q[PktqOf(m)].abort /\ ring' = ring
            \/ /\ e.pc = "top" /\ ring[m].size < RingSize
               /\ ring' = [ring EXCEPT ![m] = Push(@, Decoded(d))]
         /\ UNCHANGED <<file, q, rd, cb, app, abortReq, seekVars, trackVars,
                        playVars, boundVars>>
<1> DEFINE d == dec[m]
<1>1. d \in DecoderState /\ dec \in [Media -> DecoderState]
  BY DEF Types
<1>2. /\ d.pc = "push" /\ d.frame \in Sample
      /\ UNCHANGED <<file, q, rd, cb, app, abortReq, seekVars, trackVars,
                     playVars, boundVars>>
  BY DEF PushFrame, Wired, Carries
<1>3. d.on \in Ids
  <2>1. Runs(m) /\ (m = "A" \/ m = "V")
    BY <1>2 DEF Runs, Media
  <2>2. QED
    BY <2>1 DEF Wired, Runs, Types, Ids
<1>4. Decoded(d) \in Frame
  BY <1>1, <1>2, <1>3, DecoderFields DEF Decoded, Frame, Sample
<1>5. CASE q[PktqOf(m)].abort /\ DecGoto(m, "end") /\ UNCHANGED ring
  <2>1. dec' = [dec EXCEPT ![m] = [d EXCEPT !.pc = "end"]]
    BY <1>5 DEF DecGoto
  <2>2. [d EXCEPT !.pc = "end"] \in DecoderState
    BY <1>1 DEF DecoderState
  <2>3. QED
    BY <1>1, <1>2, <1>4, <1>5, <2>1, <2>2 DEF Others, DecoderState
<1>6. CASE /\ ~q[PktqOf(m)].abort /\ ring[m].size < RingSize
           /\ ring' = [ring EXCEPT ![m] = Push(@, Decoded(d))]
           /\ dec' = [dec EXCEPT ![m].pc = "top", ![m].frame = None]
  <2>1. dec' = [dec EXCEPT ![m] = [d EXCEPT !.pc = "top", !.frame = None]]
    BY <1>1, <1>6
  <2>2. [d EXCEPT !.pc = "top", !.frame = None] \in DecoderState
    BY <1>1 DEF DecoderState
  <2>3. QED
    BY <1>1, <1>2, <1>4, <1>6, <2>1, <2>2 DEF Others, DecoderState
<1>7. QED
  BY <1>5, <1>6 DEF PushFrame, Decoded

-----------------------------------------------------------------------------
\* Which steps change which variables.

ChangesQueues ==
  \/ \E m \in Media : GetPacket(m)
  \/ SeekFlushAudio \/ SeekMarkAudio \/ SeekFlushVideo
  \/ BuffersFull \/ Complete \/ ReadPacket \/ ReadEof \/ ReadError
  \/ \E t \in Tracks, selected \in BOOLEAN : SelectTrack(t, selected)
  \/ JoinDecoder \/ StartDecoder \/ CloseStream \/ JoinVideo
ChangesRings ==
  \/ \E m \in Media : PushFrame(m)
  \/ Advance \/ Refresh \/ ResetSampq \/ JoinAudio
ChangesDecoders == (\E m \in Media : DecoderStep(m)) \/ StartDecoder
ChangesCallback == CallbackStep \/ CloseAout \/ OpenAout \/ JoinAudio
ChangesReader == ReadStep \/ OpenAout
ChangesApp ==
  \/ \E t \in Tracks, selected \in BOOLEAN : SelectTrack(t, selected)
  \/ CloseStream \/ AppGoesOn
ChangesPlayed == PlayAudio \/ Refresh \/ SeekFlushVideo

LEMMA Frames ==
  ASSUME [Next]_vars
  PROVE  /\ file' = file
         /\ q' = q \/ ChangesQueues
         /\ ring' = ring \/ ChangesRings
         /\ dec' = dec \/ ChangesDecoders
         /\ cb' = cb \/ ChangesCallback
         /\ rd' = rd \/ ChangesReader
         /\ app' = app \/ ChangesApp
         /\ UNCHANGED <<clock, out>> \/ ChangesPlayed
         /\ audioq' = audioq \/ SetActive
         /\ audioStream' = audioStream \/ CloseAout \/ OpenAout \/ JoinAudio
         /\ UNCHANGED <<epoch, stale>> \/ Top \/ SeekFlushAudio \/ SeekMarkAudio
         /\ abortReq' = abortReq \/ CloseStream
         /\ UNCHANGED <<seekReq, seekPos>> \/ SeekEnd \/ (\E pos \in 1..file.length : Seek(pos))
<1> USE DEF seekVars, trackVars, playVars, boundVars
<1>1. ASSUME NEW m \in Media, DecoderStep(m)
      PROVE  /\ UNCHANGED <<file, cb, rd, app, clock, out, audioq, audioStream, epoch,
                            stale, abortReq, seekReq, seekPos>>
             /\ q' = q \/ ChangesQueues
             /\ ring' = ring \/ ChangesRings
             /\ dec' = dec \/ ChangesDecoders
  BY <1>1 DEF DecoderStep, Receive, GetPacket, Send, PushFrame, ChangesQueues,
              ChangesRings, ChangesDecoders
<1>2. ASSUME ReadStep
      PROVE  /\ UNCHANGED <<file, ring, dec, cb, app, out, audioq, audioStream, abortReq>>
             /\ q' = q \/ ChangesQueues
             /\ UNCHANGED <<epoch, stale>> \/ Top \/ SeekFlushAudio \/ SeekMarkAudio
             /\ UNCHANGED <<seekReq, seekPos>> \/ SeekEnd
             /\ clock' = clock \/ SeekFlushVideo
  BY <1>2 DEF ReadStep, Top, SeekFlushAudio, SeekMarkAudio, SeekFlushVideo, SeekEnd,
              BuffersFull, Complete, Idle, ReadPacket, ReadEof, ReadError, ChangesQueues
<1>3. ASSUME CallbackStep \/ Refresh
      PROVE  /\ UNCHANGED <<file, q, dec, rd, app, audioq, audioStream, epoch, stale,
                            abortReq, seekReq, seekPos>>
             /\ ring' = ring \/ Advance \/ Refresh
             /\ cb' = cb \/ CallbackStep
             /\ UNCHANGED <<clock, out>> \/ PlayAudio \/ Refresh
  BY <1>3 DEF CallbackStep, Peek, Advance, PlayAudio, Refresh
<1>4. ASSUME AppGoesOn
      PROVE  /\ UNCHANGED <<file, clock, out, epoch, stale, abortReq, seekReq, seekPos>>
             /\ q' = q \/ ChangesQueues
             /\ ring' = ring \/ ChangesRings
             /\ dec' = dec \/ StartDecoder
             /\ cb' = cb \/ ChangesCallback
             /\ rd' = rd \/ OpenAout
             /\ audioq' = audioq \/ SetActive
             /\ audioStream' = audioStream \/ CloseAout \/ OpenAout \/ JoinAudio
  BY <1>4 DEF AppGoesOn, JoinDecoder, ResetSampq, CloseAout, SetActive, OpenAout,
              StartDecoder, JoinRead, JoinAudio, JoinVideo, ChangesQueues, ChangesRings,
              ChangesCallback
<1>5. ASSUME \/ \E pos \in 1..file.length : Seek(pos)
             \/ \E t \in Tracks, selected \in BOOLEAN : SelectTrack(t, selected)
             \/ CloseStream
      PROVE  /\ UNCHANGED <<file, ring, dec, cb, rd, clock, out, audioq, audioStream, epoch,
                            stale>>
             /\ q' = q \/ ChangesQueues
             /\ app' = app \/ ChangesApp
             /\ abortReq' = abortReq \/ CloseStream
             /\ UNCHANGED <<seekReq, seekPos>> \/ (\E pos \in 1..file.length : Seek(pos))
  BY <1>5 DEF Seek, SelectTrack, CloseStream, ChangesQueues, ChangesApp
<1>6. CASE UNCHANGED vars
  BY <1>6 DEF vars
<1>7. QED
  BY <1>1, <1>2, <1>3, <1>4, <1>5, <1>6
     DEF Next, ChangesRings, ChangesDecoders, ChangesCallback, ChangesReader, ChangesApp,
         ChangesPlayed

(***************************************************************************)
(* The packets that read_thread queues.                                    *)
(***************************************************************************)
LEMMA Packets ==
  ASSUME Types
  PROVE  /\ Marker \in Packet /\ NullPkt \in Packet
         /\ [kind |-> "data", epoch |-> epoch, pos |-> rd.pos] \in Packet
         /\ Marker.kind = "flush" /\ NullPkt.kind = "null"
         /\ Marker.epoch = epoch /\ NullPkt.epoch = epoch
BY DEF Types, ReadState, Packet, Kinds, Marker, NullPkt

(***************************************************************************)
(* One queue is replaced by a good one.                                    *)
(***************************************************************************)
LEMMA QueueSet ==
  ASSUME Types, QueuesGood, NEW s \in Ids, NEW y, GoodQueue(y), q' = [q EXCEPT ![s] = y]
  PROVE  /\ q' \in [Ids -> Queue] /\ QueuesGood' /\ q'[s] = y
         /\ \A t \in Ids : t # s => q'[t] = q[t]
<1>1. q \in [Ids -> Queue] /\ y \in Queue
  BY DEF Types, GoodQueue
<1>2. q' \in [Ids -> Queue] /\ q'[s] = y /\ \A t \in Ids : t # s => q'[t] = q[t]
  BY <1>1
<1>3. \A t \in Ids : GoodQueue(q'[t])
  <2>1. SUFFICES ASSUME NEW t \in Ids
                 PROVE  GoodQueue(q'[t])
    OBVIOUS
  <2>2. CASE t = s
    BY <1>2, <2>2
  <2>3. CASE t # s
    BY <1>2, <2>3 DEF QueuesGood
  <2>4. QED
    BY <2>2, <2>3
<1>4. QED
  BY <1>2, <1>3 DEF QueuesGood

LEMMA QueuesSet ==
  ASSUME Types, NEW g, q' = [s \in Ids |-> g[s]], \A s \in Ids : GoodQueue(g[s])
  PROVE  q' \in [Ids -> Queue] /\ QueuesGood'
<1>1. \A s \in Ids : q'[s] = g[s] /\ g[s] \in Queue
  BY DEF GoodQueue
<1>2. QED
  BY <1>1 DEF QueuesGood

(***************************************************************************)
(* Every step keeps the queues good.                                       *)
(***************************************************************************)
LEMMA QueuesKept ==
  ASSUME Types, Wired, QueuesGood, [Next]_vars
  PROVE  q' \in [Ids -> Queue] /\ QueuesGood'
<1>1. /\ \A s \in Ids : GoodQueue(q[s])
      /\ audioq \in Ids /\ Video \in Ids /\ Media = {"A", "V"}
  BY DEF QueuesGood, Types, Ids, Media
<1>2. CASE q' = q
  BY <1>1, <1>2 DEF QueuesGood, Types
<1>3. ASSUME NEW m \in Media, GetPacket(m)
      PROVE  q' \in [Ids -> Queue] /\ QueuesGood'
  <2>1. dec[m].on \in Ids
    BY <1>3, GetDoes
  <2>2. CASE q' = q
    BY <1>2, <2>2
  <2>3. CASE q[dec[m].on].pkts # <<>> /\ q' = [q EXCEPT ![dec[m].on] = Get(q[dec[m].on])]
    <3>1. GoodQueue(Get(q[dec[m].on]))
      BY <1>1, <2>1, <2>3, GetGood
    <3>2. QED
      BY <2>1, <2>3, <3>1, QueueSet
  <2>4. QED
    BY <1>3, <2>2, <2>3, GetDoes
<1>4. CASE SeekFlushAudio
  <2>1. CASE q' = q
    BY <1>2, <2>1
  <2>2. CASE q' = [q EXCEPT ![audioq] = Flush(q[audioq])]
    BY <1>1, <2>2, FlushGood, QueueSet
  <2>3. QED
    BY <1>4, <2>1, <2>2 DEF SeekFlushAudio
<1>5. CASE SeekMarkAudio
  <2>1. q' = [q EXCEPT ![audioq] = Put(q[audioq], Marker)]
    BY <1>5 DEF SeekMarkAudio
  <2>2. GoodQueue(Put(q[audioq], Marker))
    BY <1>1, Packets, PutGood
  <2>3. QED
    BY <1>1, <2>1, <2>2, QueueSet
<1>6. CASE SeekFlushVideo
  <2>1. CASE q' = q
    BY <1>2, <2>1
  <2>2. CASE q' = [q EXCEPT ![Video] = Put(Flush(q[Video]), Marker)]
    <3>1. GoodQueue(Flush(q[Video]))
      BY <1>1, FlushGood
    <3>2. GoodQueue(Put(Flush(q[Video]), Marker))
      BY <3>1, Packets, PutGood
    <3>3. QED
      BY <1>1, <2>2, <3>2, QueueSet
  <2>3. QED
    BY <1>6, <2>1, <2>2 DEF SeekFlushVideo
<1>7. CASE BuffersFull
  <2>1. CASE q' = q
    BY <1>2, <2>1
  <2>2. CASE q' = [q EXCEPT ![Video] = Drop(q[Video])]
    BY <1>1, <2>2, DropGood, QueueSet
  <2>3. QED
    BY <1>7, <2>1, <2>2 DEF BuffersFull
<1>8. CASE Complete
  <2> DEFINE g == [s \in Ids |-> IF s \in Open THEN PutEof(q[s]) ELSE q[s]]
  <2>1. q' = g
    BY <1>8 DEF Complete
  <2>2. \A s \in Ids : GoodQueue(g[s])
    BY <1>1, FlagsGood
  <2> HIDE DEF g
  <2>3. QED
    BY <2>1, <2>2, QueuesSet DEF g
<1>9. CASE ReadPacket
  <2> DEFINE s == CHOOSE x \in rd.next : TRUE
             p == [kind |-> "data", epoch |-> epoch, pos |-> rd.pos]
             wanted == s = Video \/ audioStream # None
             Trim(t) == IF t \in Opened \cap Tracks /\ t # audioStream
                           /\ Cardinality(Opened \cap Tracks) > 1
                        THEN SyncTo(q[t], clock, LateStart) ELSE q[t]
             g == [t \in Ids |-> IF t = s /\ wanted THEN Put(Trim(t), p) ELSE Trim(t)]
  <2>1. q' = g
    BY <1>9 DEF ReadPacket
  <2>2. \A t \in Ids : GoodQueue(Trim(t))
    BY <1>1, SyncGood
  <2>3. p \in Packet
    BY Packets
  <2> HIDE DEF Trim, p
  <2>4. \A t \in Ids : GoodQueue(g[t])
    BY <2>2, <2>3, PutGood
  <2> HIDE DEF g
  <2>5. QED
    BY <2>1, <2>4, QueuesSet DEF g
<1>10. CASE ReadEof
  <2> DEFINE g == [s \in Ids |-> IF s \in Open /\ ~rd.eof THEN Put(q[s], NullPkt) ELSE q[s]]
  <2>1. q' = g
    BY <1>10 DEF ReadEof
  <2>2. \A s \in Ids : GoodQueue(g[s])
    BY <1>1, Packets, PutGood
  <2> HIDE DEF g
  <2>3. QED
    BY <2>1, <2>2, QueuesSet DEF g
<1>11. CASE ReadError
  <2> DEFINE g == [s \in Ids |-> IF s \in Open THEN Put(Put(q[s], NullPkt), NullPkt) ELSE q[s]]
  <2>1. q' = g
    BY <1>11 DEF ReadError
  <2>2. \A s \in Ids : GoodQueue(Put(q[s], NullPkt))
    BY <1>1, Packets, PutGood
  <2>3. \A s \in Ids : GoodQueue(g[s])
    BY <1>1, <2>2, Packets, PutGood
  <2> HIDE DEF g
  <2>4. QED
    BY <2>1, <2>3, QueuesSet DEF g
<1>12. ASSUME NEW t \in Tracks, NEW selected \in BOOLEAN, SelectTrack(t, selected)
       PROVE  q' \in [Ids -> Queue] /\ QueuesGood'
  <2>1. CASE q' = q
    BY <1>2, <2>1
  <2>2. CASE q' = [q EXCEPT ![audioq] = Abort(q[audioq])]
    BY <1>1, <2>2, FlagsGood, QueueSet
  <2>3. QED
    BY <1>12, <2>1, <2>2 DEF SelectTrack
<1>13. CASE JoinDecoder
  <2>1. dec["A"].on = audioq
    BY <1>13 DEF JoinDecoder, Wired
  <2>2. q' = [q EXCEPT ![audioq] = Background(q[audioq])]
    BY <1>13, <2>1 DEF JoinDecoder
  <2>3. QED
    BY <1>1, <2>2, FlagsGood, QueueSet
<1>14. CASE StartDecoder
  <2>1. q' = [q EXCEPT ![audioq] = Start(q[audioq], TRUE, Marker)]
    BY <1>14 DEF StartDecoder
  <2>2. QED
    BY <1>1, <2>1, FlagsGood, QueueSet
<1>15. CASE CloseStream
  <2> DEFINE g == [s \in Ids |-> Abort(q[s])]
  <2>1. q' = g
    BY <1>15 DEF CloseStream
  <2>2. \A s \in Ids : GoodQueue(g[s])
    BY <1>1, FlagsGood
  <2> HIDE DEF g
  <2>3. QED
    BY <2>1, <2>2, QueuesSet DEF g
<1>16. CASE JoinVideo
  <2>1. q' = [q EXCEPT ![Video] = Flush(q[Video])]
    BY <1>16 DEF JoinVideo
  <2>2. QED
    BY <1>1, <2>1, FlushGood, QueueSet
<1>17. QED
  BY <1>2, <1>3, <1>4, <1>5, <1>6, <1>7, <1>8, <1>9, <1>10, <1>11, <1>12, <1>13,
     <1>14, <1>15, <1>16, Frames DEF ChangesQueues

-----------------------------------------------------------------------------
\* The decoders, the rings and what connects them.

(***************************************************************************)
(* What every step of a decoder thread keeps.                              *)
(***************************************************************************)
LEMMA DecoderDoes ==
  ASSUME Types, Wired, QueuesGood, NEW m \in Media, DecoderStep(m)
  PROVE  /\ dec' \in [Media -> DecoderState] /\ Others(m) /\ Runs(m)
         /\ dec'[m].on = dec[m].on /\ Carries(dec'[m])
         /\ UNCHANGED <<file, rd, cb, app, abortReq, seekVars, trackVars, playVars, boundVars>>
<1>1. dec[m] \in DecoderState
  BY Ranges
<1>2. CASE Receive(m)
  <2>1. dec[m].codec # <<>> => Head(dec[m].codec) \in Sample
    BY <1>1, DecoderFields
  <2>2. QED
    BY <1>2, <2>1, ReceiveDoes DEF Carries, Runs
<1>3. CASE GetPacket(m)
  BY <1>3, GetDoes DEF Carries, Runs
<1>4. CASE Send(m)
  BY <1>4, SendDoes DEF Carries, Runs
<1>5. CASE PushFrame(m)
  BY <1>5, PushDoes DEF Carries, Runs
<1>6. QED
  BY <1>2, <1>3, <1>4, <1>5 DEF DecoderStep

LEMMA StartDoes ==
  ASSUME Types, StartDecoder
  PROVE  /\ dec' \in [Media -> DecoderState] /\ Others("A")
         /\ dec'["A"].pc = "top" /\ dec'["A"].on = audioq
         /\ dec'["A"].pkt_serial = 0 /\ dec'["A"].codec = <<>> /\ dec'["A"].finished = 0
<1> DEFINE d == Decoder(audioq, app.track)
<1>1. audioq \in Ids /\ app.track \in Ids \cup {None}
  BY DEF Types, AppState, Ids
<1>2. <<>> \in Seq(Sample)
  OBVIOUS
<1>3. /\ d \in DecoderState /\ d.pc = "top" /\ d.on = audioq /\ d.pkt_serial = 0
      /\ d.codec = <<>> /\ d.finished = 0
  BY <1>1, <1>2 DEF Decoder, DecoderState
<1> HIDE DEF d
<1>4. dec' = [dec EXCEPT !["A"] = d] /\ dec \in [Media -> DecoderState]
  BY DEF StartDecoder, Types, d
<1>5. QED
  BY <1>3, <1>4 DEF Others, Media

LEMMA DecodersKept ==
  ASSUME Types, Wired, QueuesGood, [Next]_vars
  PROVE  dec' \in [Media -> DecoderState]
BY Frames, DecoderDoes, StartDoes DEF ChangesDecoders, Types

(***************************************************************************)
(* One ring is replaced.                                                   *)
(***************************************************************************)
LEMMA RingSet ==
  ASSUME Types, NEW m \in Media, NEW g \in Ring, ring' = [ring EXCEPT ![m] = g]
  PROVE  /\ ring' \in [Media -> Ring] /\ ring'[m] = g
         /\ \A n \in Media : n # m => ring'[n] = ring[n]
BY DEF Types

(***************************************************************************)
(* The slot that the callback and video_refresh look at.                   *)
(***************************************************************************)
LEMMA PeekPlace ==
  ASSUME NEW f \in Ring
  PROVE  /\ PeekIndex(f) \in Slots
         /\ Remaining(f) > 0 => /\ f.size > f.shown /\ f.shown \in Places(f)
                                /\ f.slots[PeekIndex(f)] = At(f, f.shown)
<1>1. /\ f.shown \in 0..RingSize /\ f.shown \in Slots /\ f.size \in Int
      /\ f.shown \in Int
  BY RingFields DEF Slots
<1>2. PeekIndex(f) \in Slots
  BY <1>1, PlaceOf DEF PeekIndex
<1>3. QED
  BY <1>1, <1>2 DEF PeekIndex, Remaining, Places, At

(***************************************************************************)
(* What the steps that change a ring do to it.                             *)
(***************************************************************************)
LEMMA AdvanceDoes ==
  ASSUME Types, RingsWell, Advance
  PROVE  LET f == ring["A"]  g == ring'["A"] IN
         /\ ring' \in [Media -> Ring] /\ ring'["V"] = ring["V"]
         /\ Indexed(g) /\ g.size = f.size - f.shown
         /\ \A i \in Slots : g.slots[i] = f.slots[i] \/ g.slots[i] = NoFrame
         /\ \A k \in Places(g) : k + f.shown \in Places(f) /\ At(g, k) = At(f, k + f.shown)
         /\ cb'.pc = "check" /\ cb'.slot = cb.slot
         /\ UNCHANGED <<file, q, dec, rd, app, abortReq, seekVars, trackVars, playVars, boundVars>>
<1>1. ring["A"] \in Ring /\ "A" \in Media /\ "V" \in Media
  BY DEF Types, Media
<1>2. /\ Indexed(ring["A"])
      /\ ring["A"].shown = 1 =>
           (ring["A"].size >= 1 \/ (ring["A"].size = 0 /\ ring["A"].rindex = 0))
  BY <1>1, RingFields DEF RingsWell, Advance
<1>3. ring' = [ring EXCEPT !["A"] = NextFrame(ring["A"])]
  BY DEF Advance
<1>4. NextFrame(ring["A"]) \in Ring
  BY <1>1, <1>2, NextRing
<1>5. ring' \in [Media -> Ring] /\ ring'["A"] = NextFrame(ring["A"]) /\ ring'["V"] = ring["V"]
  BY <1>1, <1>3, <1>4, RingSet
<1>6. /\ cb'.pc = "check" /\ cb'.slot = cb.slot
      /\ UNCHANGED <<file, q, dec, rd, app, abortReq, seekVars, trackVars, playVars, boundVars>>
  BY DEF Advance, Types, CallbackState
<1>7. QED
  BY <1>1, <1>2, <1>5, <1>6, NextRing

LEMMA RefreshDoes ==
  ASSUME Types, RingsWell, Refresh
  PROVE  LET f == ring["V"]  g == ring'["V"] IN
         /\ ring' \in [Media -> Ring] /\ ring'["A"] = ring["A"]
         /\ Indexed(g) /\ g.size = f.size - f.shown /\ f.size > f.shown
         /\ \A k \in Places(g) : k + f.shown \in Places(f) /\ At(g, k) = At(f, k + f.shown)
         /\ f.shown \in Places(f)
         /\ \/ UNCHANGED <<clock, out>>
            \/ /\ out' = [out EXCEPT !["V"] = At(f, f.shown)]
               /\ clock' \in {clock, At(f, f.shown).pos}
               /\ At(f, f.shown).serial = q[Video].serial
         /\ UNCHANGED <<file, q, dec, rd, cb, app, abortReq, seekVars, trackVars, boundVars>>
<1>1. ring["V"] \in Ring /\ "A" \in Media /\ "V" \in Media
  BY DEF Types, Media
<1>2. /\ Indexed(ring["V"]) /\ ring["V"].size > ring["V"].shown
      /\ ring["V"].shown \in Places(ring["V"])
      /\ ring["V"].slots[PeekIndex(ring["V"])] = At(ring["V"], ring["V"].shown)
  BY <1>1, PeekPlace DEF RingsWell, Refresh
<1>3. ring["V"].shown = 1 => ring["V"].size >= 1
  BY <1>1, <1>2, RingFields
<1>4. ring' = [ring EXCEPT !["V"] = NextFrame(ring["V"])]
  BY DEF Refresh
<1>5. NextFrame(ring["V"]) \in Ring
  BY <1>1, <1>2, <1>3, NextRing
<1>6. ring' \in [Media -> Ring] /\ ring'["V"] = NextFrame(ring["V"]) /\ ring'["A"] = ring["A"]
  BY <1>1, <1>4, <1>5, RingSet
<1>7. /\ \/ UNCHANGED <<clock, out>>
         \/ /\ out' = [out EXCEPT !["V"] = At(ring["V"], ring["V"].shown)]
            /\ clock' \in {clock, At(ring["V"], ring["V"].shown).pos}
            /\ At(ring["V"], ring["V"].shown).serial = q[Video].serial
      /\ UNCHANGED <<file, q, dec, rd, cb, app, abortReq, seekVars, trackVars, boundVars>>
  BY <1>2 DEF Refresh, playVars
<1>8. QED
  BY <1>1, <1>2, <1>3, <1>6, <1>7, NextRing

LEMMA PushesWell ==
  ASSUME Types, Wired, RingsWell, NEW m \in Media, PushFrame(m), ring' # ring
  PROVE  LET f == ring[m]  g == ring'[m]  frame == Decoded(dec[m]) IN
         /\ ring' \in [Media -> Ring] /\ \A n \in Media : n # m => ring'[n] = ring[n]
         /\ Indexed(g) /\ g.size = f.size + 1 /\ g.shown = f.shown
         /\ \A i \in Slots : g.slots[i] = f.slots[i] \/ g.slots[i] = frame
         /\ \A k \in Places(f) : At(g, k) = At(f, k)
         /\ \A k \in Places(g) : k \notin Places(f) => At(g, k) = frame
<1> DEFINE frame == Decoded(dec[m])
<1>1. ring[m] \in Ring /\ Indexed(ring[m]) /\ ring[m].size < RingSize
      /\ frame \in Frame /\ ring' = [ring EXCEPT ![m] = Push(ring[m], frame)]
  BY PushDoes DEF Types, RingsWell
<1> HIDE DEF frame
<1>2. Push(ring[m], frame) \in Ring
  BY <1>1, PushRing
<1>3. /\ ring' \in [Media -> Ring] /\ ring'[m] = Push(ring[m], frame)
      /\ \A n \in Media : n # m => ring'[n] = ring[n]
  BY <1>1, <1>2, RingSet
<1>4. QED
  BY <1>1, <1>3, PushRing DEF frame

LEMMA ResetDoes ==
  ASSUME Types, ring' = [ring EXCEPT !["A"] = ResetRing(ring["A"])]
  PROVE  /\ ring' \in [Media -> Ring] /\ ring'["V"] = ring["V"]
         /\ Indexed(ring'["A"]) /\ ring'["A"].size = 0 /\ ring'["A"].rindex = 0
         /\ ring'["A"].slots = ring["A"].slots /\ Places(ring'["A"]) = {}
<1>1. ring["A"] \in Ring /\ "A" \in Media /\ "V" \in Media
  BY DEF Types, Media
<1>2. ResetRing(ring["A"]) \in Ring
  BY <1>1, ResetRingGood
<1>3. ring' \in [Media -> Ring] /\ ring'["A"] = ResetRing(ring["A"]) /\ ring'["V"] = ring["V"]
  BY <1>1, <1>2, RingSet
<1>4. QED
  BY <1>1, <1>3, ResetRingGood DEF Places, Slots

(***************************************************************************)
(* Every step keeps the rings in order.                                    *)
(***************************************************************************)
LEMMA AppMoves ==
  ASSUME Types, [Next]_vars
  PROVE  /\ \/ app' = app
            \/ app.pc = "idle" /\ app'.pc \in {"join", "open", "joinRead"}
            \/ app.pc = "join" /\ app'.pc = "reset"
            \/ ResetSampq \/ CloseAout
            \/ app.pc = "active" /\ app'.pc = "open"
            \/ OpenAout
            \/ app.pc = "start" /\ app'.pc = "idle"
            \/ app.pc = "joinRead" /\ app'.pc = "joinAudio"
            \/ JoinAudio
            \/ app.pc = "joinVideo" /\ app'.pc = "closed"
         /\ ResetSampq => app.pc = "reset" /\ app'.pc = "aout"
         /\ CloseAout => app.pc = "aout" /\ app'.pc \in {"idle", "active"}
         /\ OpenAout => app.pc = "open" /\ app'.pc = "start"
         /\ JoinAudio => app.pc = "joinAudio" /\ app'.pc = "joinVideo"
<1>1. app \in AppState
  BY DEF Types
<1>2. ASSUME NEW t \in Tracks, NEW selected \in BOOLEAN, SelectTrack(t, selected)
      PROVE  app.pc = "idle" /\ app'.pc \in {"join", "open"}
  <2>1. app.pc = "idle"
    BY <1>2 DEF SelectTrack
  <2>2. CASE app' = [pc |-> "open", track |-> t, bare |-> TRUE]
    BY <2>1, <2>2
  <2>3. CASE app' = [app EXCEPT !.pc = "join", !.track = IF selected THEN t ELSE None]
    <3> DEFINE track == IF selected THEN t ELSE None
    <3>1. app' = [app EXCEPT !.pc = "join", !.track = track] /\ track \in Tracks \cup {None}
      BY <2>3
    <3> HIDE DEF track
    <3>2. QED
      BY <1>1, <2>1, <3>1 DEF AppState
  <2>4. QED
    BY <1>2, <2>2, <2>3 DEF SelectTrack
<1>3. CloseStream => app.pc = "idle" /\ app'.pc = "joinRead"
  BY <1>1 DEF CloseStream, AppGoto, AppState
<1>4. JoinDecoder => app.pc = "join" /\ app'.pc = "reset"
  BY <1>1 DEF JoinDecoder, AppGoto, AppState
<1>5. SetActive => app.pc = "active" /\ app'.pc = "open"
  BY <1>1 DEF SetActive, AppGoto, AppState
<1>6. StartDecoder => app.pc = "start" /\ app'.pc = "idle"
  BY <1>1 DEF StartDecoder, AppGoto, AppState
<1>7. JoinRead => app.pc = "joinRead" /\ app'.pc = "joinAudio"
  BY <1>1 DEF JoinRead, AppGoto, AppState
<1>8. JoinVideo => app.pc = "joinVideo" /\ app'.pc = "closed"
  BY <1>1 DEF JoinVideo, AppGoto, AppState
<1>9. /\ ResetSampq => app.pc = "reset" /\ app'.pc = "aout"
      /\ CloseAout => app.pc = "aout" /\ app'.pc \in {"idle", "active"}
      /\ OpenAout => app.pc = "open" /\ app'.pc = "start"
      /\ JoinAudio => app.pc = "joinAudio" /\ app'.pc = "joinVideo"
  BY <1>1 DEF ResetSampq, CloseAout, OpenAout, JoinAudio, AppGoto, AppState
<1>10. QED
  BY <1>2, <1>3, <1>4, <1>5, <1>6, <1>7, <1>8, <1>9, Frames DEF ChangesApp, AppGoesOn

LEMMA CallbackMoves ==
  ASSUME Types, [Next]_vars
  PROVE  /\ cb' \in CallbackState
         /\ \/ cb' = cb
            \/ Peek \/ Advance \/ PlayAudio \/ CloseAout \/ OpenAout \/ JoinAudio
         /\ Peek => /\ cb'.pc = "next" /\ cb'.slot = PeekIndex(ring["A"])
                    /\ Remaining(ring["A"]) > 0 /\ cb.pc = "idle"
         /\ Advance => cb.pc = "next" /\ cb'.pc = "check" /\ cb'.slot = cb.slot
         /\ PlayAudio => cb.pc = "check" /\ cb'.pc = "idle"
         /\ CloseAout => cb.pc = "idle" /\ cb'.pc = "closed"
         /\ OpenAout => cb'.pc = "idle"
         /\ JoinAudio => cb'.pc = "closed"
<1>1. cb \in CallbackState /\ ring["A"] \in Ring /\ 0 \in Slots
  BY RingAssumption DEF Types, Media, Slots
<1>2. Peek => /\ cb'.pc = "next" /\ cb'.slot = PeekIndex(ring["A"])
              /\ Remaining(ring["A"]) > 0 /\ cb.pc = "idle" /\ cb' \in CallbackState
  BY <1>1, PeekPlace DEF Peek, CallbackState
<1>3. Advance => cb.pc = "next" /\ cb'.pc = "check" /\ cb'.slot = cb.slot
                 /\ cb' \in CallbackState
  BY <1>1 DEF Advance, CallbackState
<1>4. /\ PlayAudio => cb.pc = "check" /\ cb'.pc = "idle" /\ cb' \in CallbackState
      /\ OpenAout => cb'.pc = "idle" /\ cb' \in CallbackState
  BY <1>1 DEF PlayAudio, OpenAout, CallbackState
<1>5. /\ CloseAout => cb.pc = "idle" /\ cb'.pc = "closed" /\ cb' \in CallbackState
      /\ JoinAudio => cb'.pc = "closed" /\ cb' \in CallbackState
  BY <1>1 DEF CloseAout, JoinAudio, CallbackState
<1>6. QED
  BY <1>1, <1>2, <1>3, <1>4, <1>5, Frames DEF ChangesCallback, CallbackStep

LEMMA RingsKept ==
  ASSUME Types, Wired, RingsWell, [Next]_vars
  PROVE  ring' \in [Media -> Ring] /\ RingsWell'
<1>1. /\ ring["A"] \in Ring /\ ring["V"] \in Ring /\ Media = {"A", "V"}
      /\ ring \in [Media -> Ring]
      /\ ring["A"].size \in Int /\ ring["V"].size \in Int
      /\ ring["A"].shown \in {0, 1} /\ ring["V"].shown \in {0, 1}
  BY RingFields DEF Types, Media
<1>2. /\ Indexed(ring["A"]) /\ Indexed(ring["V"]) /\ ring["V"].size >= 0
      /\ cb.pc = "next" =>
           \/ ring["A"].size > ring["A"].shown
           \/ app.pc = "aout" /\ ring["A"].size = 0 /\ ring["A"].rindex = 0
      /\ (app.pc \in {"aout", "start"} \/ audioStream = None) => ring["A"].size <= 0
  BY <1>1 DEF RingsWell
<1>3. ASSUME ring' = ring
      PROVE  RingsWell'
  <2>1. cb'.pc = "next" =>
          \/ ring'["A"].size > ring'["A"].shown
          \/ app'.pc = "aout" /\ ring'["A"].size = 0 /\ ring'["A"].rindex = 0
    <3>1. CASE Peek
      BY <1>1, <1>3, <3>1, PeekPlace DEF Peek
    <3>2. CASE cb' = cb /\ cb.pc = "next"
      BY <1>2, <1>3, <3>2, AppMoves DEF CloseAout, ResetSampq
    <3>3. QED
      BY <3>1, <3>2, CallbackMoves
  <2>2. (app'.pc \in {"aout", "start"} \/ audioStream' = None) => ring'["A"].size <= 0
    <3>1. CASE audioStream' = None
      <4>1. audioStream = None \/ CloseAout \/ OpenAout \/ JoinAudio
        BY <3>1, Frames
      <4>2. OpenAout => audioStream = None
        BY DEF OpenAout, Wired
      <4>3. CloseAout => app.pc = "aout"
        BY DEF CloseAout
      <4>4. JoinAudio /\ audioStream # None => ring'["A"].size = 0
        BY ResetDoes DEF JoinAudio
      <4>5. QED
        BY <1>2, <1>3, <4>1, <4>2, <4>3, <4>4
    <3>2. CASE app'.pc \in {"aout", "start"}
      <4>1. app.pc \in {"aout", "start"} \/ ResetSampq \/ OpenAout
        BY <3>2, AppMoves
      <4>2. OpenAout => audioStream = None
        BY DEF OpenAout, Wired
      <4>3. ResetSampq => ring'["A"].size = 0
        BY ResetDoes DEF ResetSampq
      <4>4. QED
        BY <1>2, <1>3, <4>1, <4>2, <4>3
    <3>3. QED
      BY <3>1, <3>2
  <2>3. QED
    BY <1>1, <1>2, <1>3, <2>1, <2>2 DEF RingsWell
<1>4. ASSUME NEW m \in Media, PushFrame(m), ring' # ring
      PROVE  ring' \in [Media -> Ring] /\ RingsWell'
  <2>1. /\ ring' \in [Media -> Ring] /\ \A n \in Media : n # m => ring'[n] = ring[n]
        /\ Indexed(ring'[m]) /\ ring'[m].size = ring[m].size + 1
        /\ ring'[m].shown = ring[m].shown
    BY <1>4, PushesWell
  <2>2. Runs(m) /\ UNCHANGED <<cb, app, audioStream>>
    BY <1>4 DEF PushFrame, Runs, trackVars
  <2>3. m = "A" => audioStream # None /\ app.pc \notin {"aout", "start"}
    BY <2>2 DEF Wired
  <2>4. QED
    BY <1>1, <1>2, <2>1, <2>2, <2>3 DEF RingsWell
<1>5. CASE Advance
  <2>1. /\ ring' \in [Media -> Ring] /\ ring'["V"] = ring["V"] /\ Indexed(ring'["A"])
        /\ ring'["A"].size = ring["A"].size - ring["A"].shown
        /\ cb'.pc = "check" /\ UNCHANGED <<app, audioStream>>
    BY <1>5, AdvanceDoes DEF trackVars
  <2>2. QED
    BY <1>1, <1>2, <2>1 DEF RingsWell
<1>6. CASE Refresh
  <2>1. /\ ring' \in [Media -> Ring] /\ ring'["A"] = ring["A"] /\ Indexed(ring'["V"])
        /\ ring'["V"].size = ring["V"].size - ring["V"].shown
        /\ ring["V"].size > ring["V"].shown
        /\ UNCHANGED <<cb, app, audioStream>>
    BY <1>6, RefreshDoes DEF trackVars
  <2>2. QED
    BY <1>1, <1>2, <2>1 DEF RingsWell
<1>7. CASE ResetSampq
  <2>1. ring' = [ring EXCEPT !["A"] = ResetRing(ring["A"])] /\ cb' = cb
    BY <1>7 DEF ResetSampq
  <2>2. /\ ring' \in [Media -> Ring] /\ ring'["V"] = ring["V"] /\ Indexed(ring'["A"])
        /\ ring'["A"].size = 0 /\ ring'["A"].rindex = 0
    BY <2>1, ResetDoes
  <2>3. app'.pc = "aout"
    BY <1>7, AppMoves
  <2>4. QED
    BY <1>1, <1>2, <2>2, <2>3 DEF RingsWell
<1>8. CASE JoinAudio
  <2>1. CASE ring' = ring
    BY <1>1, <1>3, <2>1
  <2>2. CASE ring' = [ring EXCEPT !["A"] = ResetRing(ring["A"])]
    <3>1. /\ ring' \in [Media -> Ring] /\ ring'["V"] = ring["V"] /\ Indexed(ring'["A"])
          /\ ring'["A"].size = 0 /\ ring'["A"].rindex = 0
      BY <2>2, ResetDoes
    <3>2. cb'.pc = "closed"
      BY <1>8, CallbackMoves
    <3>3. QED
      BY <1>1, <1>2, <3>1, <3>2 DEF RingsWell
  <2>3. QED
    BY <1>8, <2>1, <2>2 DEF JoinAudio
<1>9. QED
  BY <1>1, <1>3, <1>4, <1>5, <1>6, <1>7, <1>8, Frames DEF ChangesRings

(***************************************************************************)
(* Every step keeps the threads connected: a decoder that runs takes its   *)
(* packets from the queue of its medium, whatever the application opens,   *)
(* selects or closes.                                                      *)
(***************************************************************************)
LEMMA SelectDoes ==
  ASSUME Types, NEW t \in Tracks, NEW selected \in BOOLEAN, SelectTrack(t, selected)
  PROVE  /\ app.pc = "idle" /\ t \in Opened /\ app' \in AppState
         /\ \/ /\ audioStream # None /\ app'.pc = "join" /\ app'.track \in {t, None}
               /\ app'.bare = app.bare
            \/ audioStream = None /\ app'.pc = "open" /\ app'.track = t /\ app'.bare
         /\ UNCHANGED <<file, ring, dec, rd, cb, abortReq, trackVars, playVars, seekVars>>
<1>1. app \in AppState
  BY DEF Types
<1>2. /\ app.pc = "idle" /\ t \in Opened
      /\ UNCHANGED <<file, ring, dec, rd, cb, abortReq, trackVars, playVars, seekVars>>
  BY DEF SelectTrack
<1>3. CASE audioStream = None /\ app' = [pc |-> "open", track |-> t, bare |-> TRUE]
  <2>1. app' \in AppState
    BY <1>3 DEF AppState
  <2>2. QED
    BY <1>2, <1>3, <2>1
<1>4. CASE audioStream # None
           /\ app' = [app EXCEPT !.pc = "join", !.track = IF selected THEN t ELSE None]
  <2> DEFINE track == IF selected THEN t ELSE None
  <2>1. app' = [app EXCEPT !.pc = "join", !.track = track] /\ track \in {t, None}
    BY <1>4
  <2> HIDE DEF track
  <2>2. /\ app' \in AppState /\ app'.pc = "join" /\ app'.track = track /\ app'.bare = app.bare
    BY <1>1, <2>1 DEF AppState
  <2>3. QED
    BY <1>2, <1>4, <2>1, <2>2
<1>5. QED
  BY <1>3, <1>4 DEF SelectTrack

LEMMA AppKeeps ==
  ASSUME Types, AppGoesOn \/ CloseStream
  PROVE  app' \in AppState /\ app'.track = app.track /\ app'.bare = app.bare
<1>1. app \in AppState
  BY DEF Types
<1>2. ASSUME NEW pc \in {"idle", "join", "reset", "aout", "active", "open", "start",
                         "joinRead", "joinAudio", "joinVideo", "closed"},
             app' = [app EXCEPT !.pc = pc]
      PROVE  app' \in AppState /\ app'.track = app.track /\ app'.bare = app.bare
  BY <1>1, <1>2 DEF AppState
<1>3. JoinDecoder \/ ResetSampq \/ SetActive \/ OpenAout \/ StartDecoder
      => app' \in AppState /\ app'.track = app.track /\ app'.bare = app.bare
  BY <1>2 DEF JoinDecoder, ResetSampq, SetActive, OpenAout, StartDecoder, AppGoto
<1>4. JoinRead \/ JoinAudio \/ JoinVideo \/ CloseStream
      => app' \in AppState /\ app'.track = app.track /\ app'.bare = app.bare
  BY <1>2 DEF JoinRead, JoinAudio, JoinVideo, CloseStream, AppGoto
<1>5. CloseAout => app' \in AppState /\ app'.track = app.track /\ app'.bare = app.bare
  BY <1>2 DEF CloseAout, AppGoto
<1>6. QED
  BY <1>3, <1>4, <1>5 DEF AppGoesOn

LEMMA WiredKept ==
  ASSUME Types, Wired, QueuesGood, [Next]_vars
  PROVE  Wired'
<1> USE DEF trackVars
<1>1. /\ Media = {"A", "V"} /\ audioq \in Tracks /\ None \notin Ids /\ Video \notin Tracks
      /\ app \in AppState /\ app.track \in Tracks \cup {None} /\ Opened \subseteq Ids
      /\ Opened' = Opened
  BY StreamsAssumption, Frames DEF Media, Types, Ids, AppState, Opened
<1>2. ASSUME NEW m \in Media, DecoderStep(m)
      PROVE  Wired'
  <2>1. /\ Others(m) /\ Runs(m) /\ dec'[m].on = dec[m].on /\ Carries(dec'[m])
        /\ UNCHANGED <<file, cb, app, audioq, audioStream>>
    BY <1>2, DecoderDoes
  <2>2. /\ \A n \in Media : Carries(dec'[n]) /\ dec'[n].on = dec[n].on
        /\ \A n \in Media : (dec'[n].pc # "end") => Runs(n)
    BY <2>1 DEF Others, Wired, Runs
  <2>3. QED
    BY <1>1, <2>1, <2>2 DEF Wired, Runs
<1>3. ASSUME ReadStep \/ Refresh \/ (\E pos \in 1..file.length : Seek(pos)) \/ UNCHANGED vars
      PROVE  Wired'
  <2>1. UNCHANGED <<file, dec, cb, app, audioq, audioStream>>
    <3>1. ReadStep => UNCHANGED <<file, dec, cb, app, audioq, audioStream>>
      BY DEF ReadStep, Top, SeekFlushAudio, SeekMarkAudio, SeekFlushVideo, SeekEnd,
             BuffersFull, Complete, Idle, ReadPacket, ReadEof, ReadError
    <3>2. Refresh \/ (\E pos \in 1..file.length : Seek(pos)) \/ UNCHANGED vars
          => UNCHANGED <<file, dec, cb, app, audioq, audioStream>>
      BY DEF Refresh, Seek, vars
    <3>3. QED
      BY <1>3, <3>1, <3>2
  <2>2. QED
    BY <1>1, <2>1 DEF Wired, Runs
<1>4. CASE CallbackStep
  <2>1. UNCHANGED <<file, dec, app, audioq, audioStream>> /\ cb.pc # "closed"
    BY <1>4 DEF CallbackStep, Peek, Advance, PlayAudio
  <2>2. QED
    BY <1>1, <2>1 DEF Wired, Runs
<1>5. ASSUME NEW t \in Tracks, NEW selected \in BOOLEAN, SelectTrack(t, selected)
      PROVE  Wired'
  <2>1. UNCHANGED <<file, dec, cb, audioq, audioStream>> /\ t \in Opened /\ app.pc = "idle"
    BY <1>5, SelectDoes
  <2>2. CASE /\ audioStream # None /\ app'.pc = "join" /\ app'.track \in {t, None}
             /\ app'.bare = app.bare
    BY <1>1, <2>1, <2>2 DEF Wired, Runs
  <2>3. CASE audioStream = None /\ app'.pc = "open" /\ app'.track = t /\ app'.bare
    BY <1>1, <2>1, <2>3 DEF Wired, Runs
  <2>4. QED
    BY <1>5, <2>2, <2>3, SelectDoes
<1>6. ASSUME CloseStream \/ JoinRead \/ JoinVideo \/ JoinDecoder \/ ResetSampq
      PROVE  Wired'
  <2>1. UNCHANGED <<file, dec, cb, audioq, audioStream>>
    BY <1>6 DEF CloseStream, JoinRead, JoinVideo, JoinDecoder, ResetSampq
  <2>2. app'.track = app.track /\ app'.bare = app.bare
    BY <1>6, AppKeeps DEF AppGoesOn
  <2>3. \/ app.pc = "idle" /\ app'.pc = "joinRead"
        \/ app.pc = "joinRead" /\ app'.pc = "joinAudio"
        \/ app.pc = "joinVideo" /\ app'.pc = "closed"
        \/ app.pc = "join" /\ app'.pc = "reset" /\ dec["A"].pc = "end"
        \/ app.pc = "reset" /\ app'.pc = "aout"
    BY <1>1, <1>6 DEF CloseStream, JoinRead, JoinVideo, JoinDecoder, ResetSampq, AppGoto,
                      AppState
  <2>4. QED
    BY <1>1, <2>1, <2>2, <2>3 DEF Wired, Runs
<1>7. CASE CloseAout
  <2>1. /\ UNCHANGED <<file, dec, audioq>> /\ audioStream' = None /\ app.pc = "aout"
        /\ app'.pc = IF app.track = None THEN "idle" ELSE "active"
    BY <1>1, <1>7 DEF CloseAout, AppGoto, AppState
  <2>2. app'.track = app.track /\ app'.bare = app.bare /\ cb'.pc = "closed"
    BY <1>7, AppKeeps, CallbackMoves DEF AppGoesOn
  <2>3. QED
    BY <1>1, <2>1, <2>2 DEF Wired, Runs
<1>8. CASE SetActive
  <2>1. /\ UNCHANGED <<file, dec, cb, audioStream>> /\ audioq' = app.track
        /\ app.pc = "active" /\ app'.pc = "open"
    BY <1>1, <1>8 DEF SetActive, AppGoto, AppState
  <2>2. app'.track = app.track /\ app'.bare = app.bare
    BY <1>8, AppKeeps DEF AppGoesOn
  <2>3. QED
    BY <1>1, <2>1, <2>2 DEF Wired, Runs
<1>9. CASE OpenAout
  <2>1. /\ UNCHANGED <<file, dec, audioq>> /\ audioStream' = app.track
        /\ app.pc = "open" /\ app'.pc = "start"
    BY <1>1, <1>9 DEF OpenAout, AppGoto, AppState
  <2>2. app'.track = app.track /\ app'.bare = app.bare
    BY <1>9, AppKeeps DEF AppGoesOn
  <2>3. QED
    BY <1>1, <2>1, <2>2 DEF Wired, Runs
<1>10. CASE StartDecoder
  <2>1. /\ UNCHANGED <<file, cb, audioq, audioStream>>
        /\ app.pc = "start" /\ app'.pc = "idle"
    BY <1>1, <1>10 DEF StartDecoder, AppGoto, AppState
  <2>2. app'.track = app.track /\ app'.bare = app.bare
    BY <1>10, AppKeeps DEF AppGoesOn
  <2>3. /\ dec'["V"] = dec["V"] /\ dec'["A"].pc = "top" /\ dec'["A"].on = audioq
        /\ Carries(dec'["A"])
    BY <1>1, <1>10, StartDoes DEF Others, Carries
  <2>4. QED
    BY <1>1, <2>1, <2>2, <2>3 DEF Wired, Runs
<1>11. CASE JoinAudio
  <2>1. /\ UNCHANGED <<file, dec, audioq>> /\ audioStream' = None
        /\ app.pc = "joinAudio" /\ app'.pc = "joinVideo"
        /\ audioStream # None => dec["A"].pc = "end"
    BY <1>1, <1>11 DEF JoinAudio, AppGoto, AppState
  <2>2. app'.track = app.track /\ app'.bare = app.bare /\ cb'.pc = "closed"
    BY <1>11, AppKeeps, CallbackMoves DEF AppGoesOn
  <2>3. QED
    BY <1>1, <2>1, <2>2 DEF Wired, Runs
<1>12. QED
  BY <1>2, <1>3, <1>4, <1>5, <1>6, <1>7, <1>8, <1>9, <1>10, <1>11 DEF Next, AppGoesOn

(***************************************************************************)
(* A frame that a ring holds, or that the callback was given, was there    *)
(* before the step or is the one a decoder pushes.                         *)
(***************************************************************************)
LEMMA HeldMoves ==
  ASSUME Types, Wired, RingsWell, [Next]_vars
  PROVE  /\ \A k \in Places(ring'["V"]) :
              \/ \E j \in Places(ring["V"]) : At(ring'["V"], k) = At(ring["V"], j)
              \/ PushFrame("V") /\ At(ring'["V"], k) = Decoded(dec["V"])
         /\ \A k \in Places(ring'["A"]) :
              \/ \E j \in Places(ring["A"]) : At(ring'["A"], k) = At(ring["A"], j)
              \/ PushFrame("A") /\ At(ring'["A"], k) = Decoded(dec["A"])
         /\ HasFrame' =>
              \/ HasFrame /\ Given' = Given
              \/ \E j \in Places(ring["A"]) : Given' = At(ring["A"], j)
              \/ PushFrame("A") /\ Given' = Decoded(dec["A"])
<1>1. /\ Media = {"A", "V"} /\ ring["A"] \in Ring /\ ring["V"] \in Ring
      /\ cb.slot \in Slots /\ cb'.slot \in Slots
  BY CallbackMoves DEF Types, Media, CallbackState
<1> DEFINE Kept(m) ==
             \A k \in Places(ring'[m]) :
               \/ \E j \in Places(ring[m]) : At(ring'[m], k) = At(ring[m], j)
               \/ PushFrame(m) /\ At(ring'[m], k) = Decoded(dec[m])
           Handed ==
             HasFrame' =>
               \/ HasFrame /\ Given' = Given
               \/ \E j \in Places(ring["A"]) : Given' = At(ring["A"], j)
               \/ PushFrame("A") /\ Given' = Decoded(dec["A"])
<1>2. ASSUME NEW m \in Media, ring'[m] = ring[m]
      PROVE  Kept(m)
  BY <1>2
<1>3. ASSUME NEW m \in Media, ring'[m].size <= 0
      PROVE  Kept(m)
  <2>1. ring'[m] \in Ring
    BY <1>3, RingsKept
  <2>2. Places(ring'[m]) = {}
    BY <1>3, <2>1, RingFields DEF Places, Slots
  <2>3. QED
    BY <2>2
<1>4. ASSUME \/ HasFrame' => HasFrame /\ cb'.slot = cb.slot
             \/ cb'.pc \notin {"next", "check"},
             ring'["A"].slots = ring["A"].slots
      PROVE  Handed
  BY <1>4 DEF HasFrame, Given
<1>5. ASSUME NEW m \in Media, PushFrame(m), ring' # ring
      PROVE  Kept("V") /\ Kept("A") /\ Handed
  <2>1. /\ \A n \in Media : n # m => ring'[n] = ring[n]
        /\ \A i \in Slots : \/ ring'[m].slots[i] = ring[m].slots[i]
                            \/ ring'[m].slots[i] = Decoded(dec[m])
        /\ \A k \in Places(ring[m]) : At(ring'[m], k) = At(ring[m], k)
        /\ \A k \in Places(ring'[m]) :
             k \notin Places(ring[m]) => At(ring'[m], k) = Decoded(dec[m])
    BY <1>5, PushesWell
  <2>2. Kept(m)
    BY <1>5, <2>1
  <2>3. Kept("V") /\ Kept("A")
    BY <1>1, <1>2, <2>1, <2>2
  <2>4. Handed
    <3>1. UNCHANGED cb
      BY <1>5 DEF PushFrame
    <3>2. ring'["A"].slots[cb.slot] \in {ring["A"].slots[cb.slot], Decoded(dec["A"])}
          /\ (ring'["A"].slots[cb.slot] # ring["A"].slots[cb.slot] => m = "A")
      BY <1>1, <2>1
    <3>3. QED
      BY <1>5, <3>1, <3>2 DEF HasFrame, Given
  <2>5. QED
    BY <2>3, <2>4
<1>6. CASE Advance
  <2>1. /\ ring'["V"] = ring["V"] /\ cb'.slot = cb.slot /\ cb.pc = "next"
        /\ \A i \in Slots : ring'["A"].slots[i] = ring["A"].slots[i]
                            \/ ring'["A"].slots[i] = NoFrame
        /\ \A k \in Places(ring'["A"]) :
             /\ k + ring["A"].shown \in Places(ring["A"])
             /\ At(ring'["A"], k) = At(ring["A"], k + ring["A"].shown)
    BY <1>6, AdvanceDoes DEF Advance
  <2>2. Kept("V") /\ Kept("A")
    BY <1>1, <1>2, <2>1
  <2>3. Handed
    BY <1>1, <2>1 DEF HasFrame, Given
  <2>4. QED
    BY <2>2, <2>3
<1>7. CASE Refresh
  <2>1. /\ ring'["A"] = ring["A"] /\ UNCHANGED cb
        /\ \A k \in Places(ring'["V"]) :
             /\ k + ring["V"].shown \in Places(ring["V"])
             /\ At(ring'["V"], k) = At(ring["V"], k + ring["V"].shown)
    BY <1>7, RefreshDoes
  <2>2. Kept("V") /\ Kept("A")
    BY <1>1, <1>2, <2>1
  <2>3. Handed
    <3>1. (HasFrame' => HasFrame /\ cb'.slot = cb.slot) \/ cb'.pc \notin {"next", "check"}
      BY <2>1 DEF HasFrame, Given
    <3>2. QED
      BY <1>4, <2>1, <3>1
  <2>4. QED
    BY <2>2, <2>3
<1>8. ASSUME ring' = [ring EXCEPT !["A"] = ResetRing(ring["A"])],
             cb' = cb \/ cb'.pc = "closed"
      PROVE  Kept("V") /\ Kept("A") /\ Handed
  <2>1. /\ ring'["V"] = ring["V"] /\ ring'["A"].slots = ring["A"].slots
        /\ ring'["A"].size = 0
    BY <1>8, ResetDoes
  <2>2. Kept("V") /\ Kept("A")
    BY <1>1, <1>2, <1>3, <2>1
  <2>3. Handed
    <3>1. (HasFrame' => HasFrame /\ cb'.slot = cb.slot) \/ cb'.pc \notin {"next", "check"}
      BY <1>8, <2>1 DEF HasFrame, Given
    <3>2. QED
      BY <1>4, <2>1, <3>1
  <2>4. QED
    BY <2>2, <2>3
<1>9. ASSUME ring' = ring
      PROVE  Kept("V") /\ Kept("A") /\ Handed
  <2>1. Kept("V") /\ Kept("A")
    BY <1>1, <1>2, <1>9
  <2>2. CASE Peek
    <3>1. /\ cb'.slot = PeekIndex(ring["A"]) /\ ring["A"].shown \in Places(ring["A"])
          /\ ring["A"].slots[PeekIndex(ring["A"])] = At(ring["A"], ring["A"].shown)
      BY <1>1, <2>2, CallbackMoves, PeekPlace
    <3>2. QED
      BY <1>9, <2>1, <3>1 DEF HasFrame, Given
  <2>3. CASE ~Peek
    <3>1. (HasFrame' => HasFrame /\ cb'.slot = cb.slot) \/ cb'.pc \notin {"next", "check"}
      BY <1>9, <2>3, CallbackMoves DEF HasFrame, Given
    <3>2. QED
      BY <1>4, <1>9, <2>1, <3>1
  <2>4. QED
    BY <2>2, <2>3
<1>10. Kept("V") /\ Kept("A") /\ Handed
  <2>1. ResetSampq => Kept("V") /\ Kept("A") /\ Handed
    BY <1>8 DEF ResetSampq
  <2>2. JoinAudio => Kept("V") /\ Kept("A") /\ Handed
    BY <1>8, <1>9, CallbackMoves DEF JoinAudio
  <2>3. QED
    BY <1>5, <1>6, <1>7, <1>9, <2>1, <2>2, Frames DEF ChangesRings
<1>11. QED
  BY <1>10

(***************************************************************************)
(* The queue of the active track changes only while no frame of the sound  *)
(* is held.                                                                *)
(***************************************************************************)
LEMMA SwitchedEmpty ==
  ASSUME Types, Wired, RingsWell, [Next]_vars, audioq' # audioq
  PROVE  /\ SetActive /\ ring' = ring /\ audioStream = None /\ ~Runs("A")
         /\ Places(ring'["A"]) = {} /\ ~HasFrame'
<1>1. SetActive
  BY Frames
<1>2. ring' = ring /\ cb' = cb /\ audioStream = None /\ ring["A"] \in Ring
  BY <1>1 DEF SetActive, Wired, Types, Media
<1>3. cb.pc = "closed" /\ ring["A"].size <= 0 /\ ~Runs("A")
  BY <1>2 DEF Wired, RingsWell
<1>4. Places(ring["A"]) = {}
  BY <1>2, <1>3, RingFields DEF Places, Slots
<1>5. QED
  BY <1>1, <1>2, <1>3, <1>4 DEF HasFrame

LEMMA FramesKept ==
  ASSUME Types, Wired, QueuesGood, RingsWell, FramesPlaced, [Next]_vars
  PROVE  FramesPlaced'
<1>1. \A m \in Media : PushFrame(m) => /\ Decoded(dec[m]) \in Frame
                                      /\ Decoded(dec[m]).on = dec[m].on /\ Runs(m)
  BY PushDoes DEF Decoded, Runs
<1>2. /\ PushFrame("V") => Decoded(dec["V"]) \in Frame /\ Decoded(dec["V"]).on = Video
      /\ PushFrame("A") => Decoded(dec["A"]).on = audioq
  BY <1>1 DEF Wired, Media
<1> HIDE DEF Decoded
<1>3. \A k \in Places(ring'["V"]) :
        At(ring'["V"], k) \in Frame /\ At(ring'["V"], k).on = Video
  BY <1>2, HeldMoves DEF FramesPlaced
<1>4. CASE audioq' = audioq
  <2>1. \A k \in Places(ring'["A"]) :
          At(ring'["A"], k) # NoFrame => At(ring'["A"], k).on = audioq
    BY <1>2, HeldMoves DEF FramesPlaced
  <2>2. HasFrame' => Given'.on = audioq
    <3>1. HasFrame' => Given' # NoFrame
      BY DEF HasFrame
    <3>2. QED
      BY <1>2, <3>1, HeldMoves DEF FramesPlaced
  <2>3. QED
    BY <1>3, <1>4, <2>1, <2>2 DEF FramesPlaced
<1>5. CASE audioq' # audioq
  BY <1>3, <1>5, SwitchedEmpty DEF FramesPlaced
<1>6. QED
  BY <1>4, <1>5

(***************************************************************************)
(* Every step keeps the types.                                             *)
(***************************************************************************)
LEMMA PlayedKept ==
  ASSUME Types, RingsWell, FramesPlaced, [Next]_vars
  PROVE  clock' \in Nat /\ out' \in [Media -> Frame \cup {None}]
<1>1. /\ clock \in Nat /\ out \in [Media -> Frame \cup {None}] /\ seekPos \in Nat
      /\ "A" \in Media /\ "V" \in Media /\ ring["A"] \in Ring /\ cb.slot \in Slots
  BY DEF Types, Media, CallbackState
<1>2. \A f \in Frame : f.pos \in Nat
  BY DEF Frame
<1>3. CASE PlayAudio
  <2> DEFINE af == ring["A"].slots[cb.slot]
  <2>1. af \in Frame \cup {NoFrame}
    BY <1>1, RingFields
  <2>2. UNCHANGED <<clock, out>>
        \/ (af # NoFrame /\ out' = [out EXCEPT !["A"] = af] /\ clock' = af.pos)
    BY <1>3 DEF PlayAudio, playVars
  <2> HIDE DEF af
  <2>3. QED
    BY <1>1, <1>2, <2>1, <2>2
<1>4. CASE Refresh
  <2> DEFINE vp == At(ring["V"], ring["V"].shown)
  <2>1. \/ UNCHANGED <<clock, out>>
        \/ out' = [out EXCEPT !["V"] = vp] /\ clock' \in {clock, vp.pos}
    BY <1>4, RefreshDoes
  <2>2. vp \in Frame
    BY <1>4, RefreshDoes DEF FramesPlaced
  <2> HIDE DEF vp
  <2>3. QED
    BY <1>1, <1>2, <2>1, <2>2
<1>5. SeekFlushVideo => clock' = seekPos /\ out' = out
  BY DEF SeekFlushVideo
<1>6. QED
  BY <1>1, <1>3, <1>4, <1>5, Frames DEF ChangesPlayed

LEMMA ReaderKept ==
  ASSUME Types, [Next]_vars
  PROVE  /\ rd' \in ReadState /\ epoch' \in Nat /\ stale' \subseteq Tracks
         /\ seekReq' \in BOOLEAN /\ seekPos' \in Nat /\ abortReq' \in BOOLEAN
<1>1. /\ rd \in ReadState /\ rd.pos \in Nat /\ rd.next \in SUBSET Ids
      /\ epoch \in Nat /\ stale \subseteq Tracks /\ seekPos \in Nat
      /\ file.length \in Nat /\ Opened \in SUBSET Ids /\ audioq \in Tracks
      /\ seekReq \in BOOLEAN /\ abortReq \in BOOLEAN
  BY DEF Types, ReadState, Opened
<1>2. ASSUME NEW pc \in {"loop", "body", "flush", "mark", "video", "sought", "read", "end"},
             rd' = [rd EXCEPT !.pc = pc]
      PROVE  rd' \in ReadState
  BY <1>1, <1>2 DEF ReadState
<1>3. Top => rd' \in ReadState /\ epoch' \in Nat /\ stale' \subseteq Tracks
  <2>1. ASSUME rd' = [rd EXCEPT !.pc = "flush", !.pos = seekPos, !.next = Opened]
        PROVE  rd' \in ReadState
    <3> DEFINE pos == seekPos
               next == Opened
    <3>1. rd' = [rd EXCEPT !.pc = "flush", !.pos = pos, !.next = next]
          /\ pos \in Nat /\ next \in SUBSET Ids
      BY <1>1, <2>1
    <3> HIDE DEF next, pos
    <3>2. QED
      BY <1>1, <3>1 DEF ReadState
  <2>2. Top => \/ rd' = [rd EXCEPT !.pc = "flush", !.pos = seekPos, !.next = Opened]
               \/ \E pc \in {"end", "body", "sought"} : rd' = [rd EXCEPT !.pc = pc]
    BY DEF Top, RdGoto
  <2>3. Top => rd' \in ReadState
    BY <1>2, <2>1, <2>2
  <2>4. Top => epoch' \in Nat /\ stale' \subseteq Tracks
    BY <1>1 DEF Top
  <2>5. QED
    BY <2>3, <2>4
<1>4. /\ SeekFlushAudio => rd' \in ReadState /\ stale' \subseteq Tracks /\ epoch' = epoch
      /\ SeekMarkAudio => rd' \in ReadState /\ stale' \subseteq Tracks /\ epoch' = epoch
  BY <1>1, <1>2 DEF SeekFlushAudio, SeekMarkAudio, RdGoto
<1>5. /\ SeekFlushVideo => rd' \in ReadState
      /\ BuffersFull => rd' \in ReadState
      /\ Idle => rd' \in ReadState
  BY <1>2 DEF SeekFlushVideo, BuffersFull, Idle, RdGoto
<1>6. /\ SeekEnd => rd' \in ReadState
      /\ Complete => rd' \in ReadState
      /\ OpenAout => rd' \in ReadState
      /\ ReadEof => rd' \in ReadState
      /\ ReadError => rd' \in ReadState
  BY <1>1 DEF SeekEnd, Complete, OpenAout, ReadEof, ReadError, ReadState
<1>7. ReadPacket => rd' \in ReadState
  <2> DEFINE more == rd.next \ {CHOOSE x \in rd.next : TRUE}
             pos == IF more = {} THEN rd.pos + 1 ELSE rd.pos
             next == IF more = {} THEN Opened ELSE more
  <2>1. pos \in Nat /\ next \in SUBSET Ids
    BY <1>1
  <2>2. ReadPacket => rd' = [rd EXCEPT !.pc = "loop", !.eof = FALSE, !.pos = pos, !.next = next]
    BY DEF ReadPacket
  <2> HIDE DEF more, pos, next
  <2>3. QED
    BY <1>1, <2>1, <2>2 DEF ReadState
<1>8. /\ SeekEnd => seekReq' \in BOOLEAN /\ seekPos' = seekPos
      /\ CloseStream => abortReq' \in BOOLEAN
      /\ \A pos \in 1..file.length : Seek(pos) => seekReq' \in BOOLEAN /\ seekPos' \in Nat
  <2>1. SeekEnd => seekReq' \in BOOLEAN /\ seekPos' = seekPos
    BY Zenon DEF SeekEnd
  <2>2. CloseStream => abortReq' \in BOOLEAN
    BY Zenon DEF CloseStream
  <2>3. ASSUME NEW pos \in 1..file.length, Seek(pos)
        PROVE  seekReq' \in BOOLEAN /\ seekPos' \in Nat
    <3>1. seekReq' = TRUE /\ seekPos' = pos
      BY <2>3 DEF Seek
    <3>2. pos \in Nat
      BY <1>1
    <3>3. QED
      BY <3>1, <3>2, Zenon
  <2>4. QED
    BY <2>1, <2>2, <2>3
<1>9. rd' \in ReadState
  BY <1>1, <1>3, <1>4, <1>5, <1>6, <1>7, Frames DEF ChangesReader, ReadStep
<1>10. epoch' \in Nat /\ stale' \subseteq Tracks
  BY <1>1, <1>3, <1>4, Frames
<1>11. seekReq' \in BOOLEAN /\ seekPos' \in Nat /\ abortReq' \in BOOLEAN
  BY <1>1, <1>8, Frames
<1>12. QED
  BY <1>9, <1>10, <1>11

LEMMA TypesKept ==
  ASSUME Types, Wired, QueuesGood, RingsWell, FramesPlaced, [Next]_vars
  PROVE  Types'
<1>1. file' \in [streams : SUBSET Ids, length : Nat]
  BY Frames DEF Types
<1>2. audioq' \in Tracks /\ audioStream' \in Tracks \cup {None}
  <2>1. app.track \in Tracks \cup {None} /\ Opened \subseteq Ids /\ None \notin Ids
    BY StreamsAssumption DEF Types, AppState, Opened, Ids
  <2>2. SetActive => audioq' \in Tracks
    BY <2>1 DEF SetActive, Wired
  <2>3. /\ OpenAout => audioStream' = app.track
        /\ CloseAout => audioStream' = None
        /\ JoinAudio => audioStream' = None
    BY DEF OpenAout, CloseAout, JoinAudio
  <2>4. QED
    BY <2>1, <2>2, <2>3, Frames DEF Types
<1>3. app' \in AppState
  BY Frames, SelectDoes, AppKeeps DEF ChangesApp, Types
<1>4. QED
  BY <1>1, <1>2, <1>3, QueuesKept, RingsKept, DecodersKept, CallbackMoves, ReaderKept,
     PlayedKept DEF Types

-----------------------------------------------------------------------------
\* The first states.

LEMMA InitQueue ==
  ASSUME NEW abort \in BOOLEAN, NEW serial \in Nat
  PROVE  GoodQueue([NewQueue(abort) EXCEPT !.serial = serial])
<1> DEFINE none == <<>>
           y == NewQueue(abort)
           x == [y EXCEPT !.serial = serial]
<1>1. none \in Seq(QPacket) /\ 0 \in Int /\ FALSE \in BOOLEAN /\ serial \in Int
  OBVIOUS
<1>2. y = [pkts |-> none, serial |-> 0, abort |-> abort, background |-> FALSE,
           recv_eof |-> FALSE, total |-> 0, locked |-> FALSE]
  BY DEF NewQueue
<1> HIDE DEF none, y
<1>3. y \in Queue
  BY <1>1, <1>2, IsQueue
<1>4. y.pkts = <<>>
  BY <1>2 DEF none
<1>5. x \in Queue /\ x.pkts = <<>> /\ x.serial = serial
  BY <1>1, <1>3, <1>4 DEF Queue
<1> HIDE DEF x
<1>6. Len(x.pkts) = 0 /\ 1..Len(x.pkts) = {}
  BY <1>5
<1>7. GoodQueue(x)
  <2>1. x.serial >= 0 /\ \A i \in 1..Len(x.pkts) : x.pkts[i].serial >= 0
    BY <1>5, <1>6
  <2>2. SerialsOrdered(x) /\ MarkerStartsSerial(x)
    BY <1>6 DEF SerialsOrdered, MarkerStartsSerial
  <2>3. Chained(x)
    BY <1>5, <1>6 DEF Chained
  <2>4. QED
    BY <1>5, <2>1, <2>2, <2>3 DEF GoodQueue
<1>8. QED
  BY <1>7 DEF x, y

LEMMA InitQueues ==
  ASSUME Init
  PROVE  q \in [Ids -> Queue] /\ QueuesGood
<1>1. FirstMarker \in Packet
  BY DEF FirstMarker, Packet, Kinds
<1>2. /\ GoodQueue(NewQueue(TRUE)) /\ GoodQueue(NewQueue(FALSE))
  <2>1. [NewQueue(TRUE) EXCEPT !.serial = 0] = NewQueue(TRUE)
        /\ [NewQueue(FALSE) EXCEPT !.serial = 0] = NewQueue(FALSE)
    BY DEF NewQueue
  <2>2. QED
    BY <2>1, InitQueue
<1>3. GoodQueue(Start(NewQueue(TRUE), FALSE, FirstMarker))
  <2> DEFINE y == NewQueue(TRUE)
             on == [y EXCEPT !.abort = FALSE, !.background = FALSE]
  <2>1. GoodQueue(y) /\ y \in Queue
    BY <1>2 DEF GoodQueue
  <2>2. Start(y, FALSE, FirstMarker) = Put(on, FirstMarker)
    BY DEF Start
  <2> HIDE DEF y
  <2>3. on \in Queue /\ on.pkts = y.pkts /\ on.serial = y.serial
    BY <2>1 DEF Queue
  <2>4. GoodQueue(on)
    BY <2>1, <2>3, SamePackets
  <2> HIDE DEF on
  <2>5. QED
    BY <1>1, <2>2, <2>4, PutGood DEF y
<1>4. \A s \in Ids : GoodQueue(q[s])
  <2>1. SUFFICES ASSUME NEW s \in Ids
                 PROVE  GoodQueue(q[s])
    OBVIOUS
  <2>2. CASE s = Video
    <3>1. q[s] = NewQueue(TRUE) \/ q[s] = Start(NewQueue(TRUE), FALSE, FirstMarker)
      BY <2>2 DEF Init
    <3>2. QED
      BY <1>2, <1>3, <3>1
  <2>3. CASE s # Video
    <3>1. q[s] = [NewQueue(FALSE) EXCEPT !.serial = 1] \/ q[s] = [NewQueue(FALSE) EXCEPT !.serial = 0]
      BY <2>3 DEF Init
    <3>2. QED
      BY <3>1, InitQueue
  <2>4. QED
    BY <2>2, <2>3
<1>5. QED
  <2>1. q = [s \in Ids |-> q[s]]
    BY DEF Init
  <2>2. \A s \in Ids : q[s] \in Queue
    BY <1>4 DEF GoodQueue
  <2>3. QED
    BY <1>4, <2>1, <2>2 DEF QueuesGood

LEMMA InitTypes ==
  ASSUME Init
  PROVE  Types /\ QueuesGood /\ Wired /\ RingsWell /\ FramesPlaced
<1>1. /\ Media = {"A", "V"} /\ Ids = Tracks \cup {Video} /\ Tracks # {}
      /\ Video \notin Tracks /\ None \notin Ids
  BY StreamsAssumption DEF Media, Ids
<1>2. /\ file \in [streams : SUBSET Ids, length : Nat]
      /\ Opened # {} /\ Opened \subseteq Ids
  <2>1. PICK s \in Scenarios : file = [streams |-> s.streams, length |-> s.length]
    BY DEF Init
  <2>2. s.streams \in (SUBSET Ids) \ {{}} /\ s.length \in Nat
    BY <2>1, StreamsAssumption DEF Ids
  <2>3. QED
    BY <2>1, <2>2 DEF Opened
<1>3. /\ audioq \in Tracks /\ audioStream \in Tracks \cup {None}
      /\ audioStream # None => audioStream = audioq /\ audioq \in Opened
      /\ Opened \cap Tracks # {} => audioq \in Opened
  BY <1>1, <1>2 DEF Init
<1>4. ASSUME NEW s \in Ids
      PROVE  /\ Decoder(s, s) \in DecoderState /\ Decoder(s, s).pc = "top"
             /\ Decoder(s, s).on = s
  BY DEF Decoder, DecoderState
<1>5. NoDecoder \in DecoderState /\ NoDecoder.pc = "end"
  <2> DEFINE d == Decoder(None, None)
  <2>1. d \in DecoderState
    BY DEF Decoder, DecoderState
  <2> HIDE DEF d
  <2>2. [d EXCEPT !.pc = "end"] \in DecoderState /\ [d EXCEPT !.pc = "end"].pc = "end"
    BY <2>1 DEF DecoderState
  <2>3. QED
    BY <2>2 DEF NoDecoder, d
<1>6. /\ dec = [m \in Media |-> dec[m]]
      /\ dec["V"] = IF Video \in Opened THEN Decoder(Video, Video) ELSE NoDecoder
      /\ dec["A"] = IF audioStream = None THEN NoDecoder ELSE Decoder(audioq, audioq)
  <2> DEFINE g == [m \in Media |->
                     IF m = "V" THEN IF Video \in Opened THEN Decoder(Video, Video) ELSE NoDecoder
                     ELSE IF audioStream = None THEN NoDecoder
                          ELSE Decoder(audioq, audioq)]
  <2>1. dec = g
    BY DEF Init
  <2>2. QED
    BY <1>1, <2>1
<1>7. dec \in [Media -> DecoderState]
  <2>1. dec["V"] \in DecoderState /\ dec["A"] \in DecoderState
    BY <1>1, <1>3, <1>4, <1>5, <1>6
  <2>2. QED
    BY <1>1, <1>6, <2>1
<1>8. ring \in [Media -> Ring] /\ \A m \in Media : ring[m] = NewRing
  BY NewRingGood DEF Init
<1>9. rd \in ReadState /\ cb \in CallbackState /\ app \in AppState
  <2>1. 0 \in Slots
    BY RingAssumption DEF Slots
  <2>2. QED
    BY <1>2, <2>1 DEF Init, ReadState, CallbackState, AppState
<1>10. Types
  <2>1. /\ seekReq \in BOOLEAN /\ seekPos \in Nat /\ epoch \in Nat /\ clock \in Nat
        /\ stale \subseteq Tracks /\ abortReq \in BOOLEAN
    BY DEF Init
  <2>2. out \in [Media -> Frame \cup {None}]
    BY DEF Init
  <2>3. QED
    BY <1>2, <1>3, <1>7, <1>8, <1>9, <2>1, <2>2, InitQueues DEF Types
<1>11. app.pc = "idle" /\ ~app.bare
       /\ cb.pc = (IF audioStream = None THEN "closed" ELSE "idle")
  BY DEF Init
<1>12. Wired
  <2>1. \A m \in Media : dec[m].pc \in {"top", "end"}
    BY <1>1, <1>3, <1>4, <1>5, <1>6
  <2>2. Runs("V") => (dec["V"].on = Video /\ Video \in Opened)
    BY <1>1, <1>4, <1>5, <1>6 DEF Runs
  <2>3. Runs("A") => audioStream # None
    BY <1>5, <1>6 DEF Runs
  <2>4. audioStream # None => dec["A"].on = audioq
    BY <1>1, <1>3, <1>4, <1>6
  <2>5. QED
    BY <1>3, <1>11, <2>1, <2>2, <2>3, <2>4 DEF Wired, Carries
<1>13. RingsWell
  BY <1>1, <1>8, <1>11, NewRingGood DEF RingsWell
<1>14. FramesPlaced
  <2>1. \A m \in Media : Places(ring[m]) = {}
    BY <1>8, NewRingGood DEF Places, Slots
  <2>2. QED
    BY <1>1, <1>11, <2>1 DEF FramesPlaced, HasFrame
<1>15. QED
  BY <1>10, <1>12, <1>13, <1>14, InitQueues

-----------------------------------------------------------------------------
\* The theorems.

Sound == Types /\ Wired /\ QueuesGood /\ RingsWell /\ FramesPlaced

(***************************************************************************)
(* The parts of the invariant hold in every state, for every set of tracks,*)
(* file and bound.                                                         *)
(***************************************************************************)
THEOREM StreamsSafe == Spec => []Sound
<1>1. Init => Sound
  BY InitTypes DEF Sound
<1>2. Sound /\ [Next]_vars => Sound'
  BY QueuesKept, RingsKept, FramesKept, TypesKept, WiredKept DEF Sound
<1>3. QED
  BY <1>1, <1>2, PTL DEF Spec

(***************************************************************************)
(* Type correctness of the streams of a playing file.                      *)
(***************************************************************************)
THEOREM TypeCorrect == Spec => []TypeOK
<1>1. Sound => TypeOK
  <2>1. SUFFICES ASSUME Sound
                 PROVE  TypeOK
    OBVIOUS
  <2>2. Types
    BY <2>1 DEF Sound
  <2>3. /\ Opened \subseteq Ids /\ q \in [Ids -> Queue]
        /\ audioq \in Tracks /\ audioStream \in Tracks \cup {None}
    BY <2>2 DEF Types, Opened
  <2>4. ASSUME NEW m \in Media
        PROVE  /\ ring[m].slots \in [0..(RingSize - 1) -> Frame \cup {NoFrame}]
               /\ ring[m].rindex \in 0..(RingSize - 1) /\ ring[m].windex \in 0..(RingSize - 1)
               /\ ring[m].size \in -1..RingSize /\ ring[m].shown \in {0, 1}
               /\ dec[m].pc \in {"top", "get", "send", "push", "end"}
    BY <2>2, Ranges, RingFields, DecoderFields DEF Slots
  <2>5. QED
    BY <2>3, <2>4 DEF TypeOK
<1>2. QED
  BY <1>1, StreamsSafe, PTL

(***************************************************************************)
(* The serials along every packet queue only grow, and a marker begins its *)
(* serial: the comparisons by which a decoder drops the packets of before  *)
(* a seek are right however seeks, trims, switches and drops interleave.   *)
(***************************************************************************)
THEOREM SerialsTold == Spec => []SerialsTell
<1>1. Sound => SerialsTell
  BY DEF Sound, QueuesGood, GoodQueue, SerialsTell
<1>2. QED
  BY <1>1, StreamsSafe, PTL

(***************************************************************************)
(* A frame that the callback plays came through the queue of the track     *)
(* that is active at that moment, whatever the callback held when tracks   *)
(* were switched.                                                          *)
(***************************************************************************)
THEOREM ActiveTrack == Spec => ActiveTrackPlayed
<1>1. Sound /\ [Next]_vars => (out'["A"] # out["A"] => out'["A"].on = audioq)
  <2>1. SUFFICES ASSUME Sound, [Next]_vars, out'["A"] # out["A"]
                 PROVE  out'["A"].on = audioq
    OBVIOUS
  <2>2. Types /\ RingsWell /\ FramesPlaced /\ out \in [Media -> Frame \cup {None}]
        /\ "A" \in Media /\ "V" \in Media
    BY <2>1 DEF Sound, Types, Media
  <2>3. ~Refresh /\ ~SeekFlushVideo
    <3>1. Refresh => out'["A"] = out["A"]
      BY <2>2, RefreshDoes
    <3>2. SeekFlushVideo => out' = out
      BY DEF SeekFlushVideo
    <3>3. QED
      BY <2>1, <3>1, <3>2
  <2>4. PlayAudio
    BY <2>1, <2>3, Frames DEF ChangesPlayed
  <2>5. HasFrame /\ out' = [out EXCEPT !["A"] = Given]
    BY <2>1, <2>4 DEF PlayAudio, HasFrame, Given, playVars
  <2>6. Given.on = audioq
    BY <2>2, <2>5 DEF FramesPlaced
  <2>7. QED
    BY <2>2, <2>5, <2>6
<1>2. QED
  BY <1>1, StreamsSafe, PTL DEF Spec, ActiveTrackPlayed

(***************************************************************************)
(* Only the callback that advances the ring of the samples after a switch  *)
(* has reset it takes the indices of a ring of frames apart.               *)
(***************************************************************************)
THEOREM OnlySwitchBreaksRing == Spec => OnlyResetBreaksRing
<1>1. Sound /\ [Next]_vars =>
        \A m \in Media : (RingSound(ring[m]) /\ ~RingSound(ring'[m]))
          => (m = "A" /\ cb.pc = "next" /\ app.pc = "aout")
  <2>1. SUFFICES ASSUME Sound, [Next]_vars, NEW m \in Media,
                        RingSound(ring[m]), ~RingSound(ring'[m])
                 PROVE  m = "A" /\ cb.pc = "next" /\ app.pc = "aout"
    OBVIOUS
  <2>2. Types /\ RingsWell /\ Wired /\ RingsWell' /\ ring' \in [Media -> Ring]
    BY <2>1, RingsKept DEF Sound
  <2>3. /\ Indexed(ring[m]) /\ Indexed(ring'[m]) /\ ring[m] \in Ring /\ ring'[m] \in Ring
        /\ Media = {"A", "V"}
    BY <2>2 DEF RingsWell, Types, Media
  <2>4. ring[m].size \in 0..RingSize /\ ring'[m].size = -1
    <3>1. ring'[m].size \in -1..RingSize
      BY <2>3, RingFields
    <3>2. QED
      BY <2>1, <2>3, <3>1, RingFields DEF RingSound, Indexed
  <2>5. m = "A"
    BY <2>2, <2>3, <2>4 DEF RingsWell
  <2>6. Advance
    <3>1. ring' # ring
      BY <2>4
    <3>2. \A n \in Media : ~PushFrame(n)
      <4>1. SUFFICES ASSUME NEW n \in Media, PushFrame(n)
                     PROVE  FALSE
        OBVIOUS
      <4>2. ring'[m].size = ring[m].size + 1 \/ ring'[m] = ring[m]
        BY <2>2, <3>1, <4>1, PushesWell
      <4>3. QED
        BY <2>4, <4>2
    <3>3. ~Refresh
      BY <2>2, <2>4, <2>5, RefreshDoes
    <3>4. ~ResetSampq /\ ~JoinAudio
      BY <2>2, <2>4, <2>5, <3>1, ResetDoes DEF ResetSampq, JoinAudio
    <3>5. QED
      BY <2>1, <3>1, <3>2, <3>3, <3>4, Frames DEF ChangesRings
  <2>7. cb.pc = "next" /\ ring'["A"].size = ring["A"].size - ring["A"].shown
    BY <2>2, <2>6, AdvanceDoes DEF Advance
  <2>8. ~(ring["A"].size > ring["A"].shown)
    BY <2>3, <2>4, <2>5, <2>7, RingFields
  <2>9. QED
    BY <2>2, <2>5, <2>7, <2>8 DEF RingsWell
<1>2. QED
  BY <1>1, StreamsSafe, PTL DEF Spec, OnlyResetBreaksRing

-----------------------------------------------------------------------------
\* What keeps frames of before a seek from being played: the serials of what
\* the decoders and the rings hold against those of the queues.

\* The serial a decoder is at comes before those of the packets it will get.
DecoderBehind(d, x) ==
  /\ d.pkt_serial >= 0 /\ d.finished <= d.pkt_serial
  /\ d.pkt_serial <= x.serial
  /\ \A i \in 1..Len(x.pkts) :
       /\ d.pkt_serial <= x.pkts[i].serial
       /\ x.pkts[i].kind = "flush" => d.pkt_serial < x.pkts[i].serial
  /\ d.pc = "send" => d.pkt.serial = d.pkt_serial

\* The next packet belongs to the serial the decoder is at, or is a marker;
\* with no packet left the decoder is at the serial of the queue.  Only a
\* decoder that has just begun may be elsewhere.
Blank(d) == d.pkt_serial = 0 /\ d.codec = <<>> /\ d.pc # "send"
NextInLine(d, x) ==
  \/ Blank(d)
  \/ x.pkts # <<>> /\ (x.pkts[1].kind # "flush" => x.pkts[1].serial = d.pkt_serial)
  \/ x.pkts = <<>> /\ x.serial = d.pkt_serial

\* What has the serial of its queue was read in epoch e.
FreshAt(x, e) ==
  \A i \in 1..Len(x.pkts) : x.pkts[i].serial = x.serial => x.pkts[i].epoch = e
DecoderFresh(d, x, e) ==
  d.pkt_serial = x.serial =>
    /\ d.pc = "send" => d.pkt.epoch = e
    /\ d.pc = "push" => d.frame.epoch = e
    /\ ~(d.pc = "send" /\ d.pkt.kind = "flush") =>
         \A i \in 1..Len(d.codec) : d.codec[i].epoch = e
FrameFresh(f, x, e) == f.serial = x.serial => f.epoch = e

\* y is x after operations that took packets away and queued others.
Later(x, y) ==
  /\ y.serial >= x.serial
  /\ \A j \in 1..Len(y.pkts) :
       \/ \E i \in 1..Len(x.pkts) : y.pkts[j] = x.pkts[i]
       \/ /\ y.pkts[j].serial >= x.serial
          /\ y.pkts[j].kind = "flush" => y.pkts[j].serial > x.serial

LEMMA LaterTwice ==
  ASSUME NEW x \in Queue, NEW y \in Queue, NEW z \in Queue, Later(x, y), Later(y, z)
  PROVE  Later(x, z)
<1>1. /\ x.serial \in Int /\ y.serial \in Int /\ z.serial \in Int
      /\ \A i \in 1..Len(z.pkts) : z.pkts[i].serial \in Int
  BY Fields
<1>2. z.serial >= x.serial
  BY <1>1 DEF Later
<1>3. ASSUME NEW j \in 1..Len(z.pkts)
      PROVE  \/ \E i \in 1..Len(x.pkts) : z.pkts[j] = x.pkts[i]
             \/ /\ z.pkts[j].serial >= x.serial
                /\ z.pkts[j].kind = "flush" => z.pkts[j].serial > x.serial
  <2>1. CASE \E i \in 1..Len(y.pkts) : z.pkts[j] = y.pkts[i]
    <3>1. PICK i \in 1..Len(y.pkts) : z.pkts[j] = y.pkts[i]
      BY <2>1
    <3>2. QED
      BY <3>1 DEF Later
  <2>2. CASE /\ z.pkts[j].serial >= y.serial
             /\ z.pkts[j].kind = "flush" => z.pkts[j].serial > y.serial
    BY <1>1, <2>2 DEF Later
  <2>3. QED
    BY <2>1, <2>2 DEF Later
<1>4. QED
  BY <1>2, <1>3 DEF Later

(***************************************************************************)
(* The same packets, or those that are left behind the first n.            *)
(***************************************************************************)
LEMMA SuffixMoves ==
  ASSUME NEW x \in Queue, NEW y \in Queue, NEW n \in 0..Len(x.pkts), y.serial = x.serial,
         Len(y.pkts) = Len(x.pkts) - n, \A i \in 1..Len(y.pkts) : y.pkts[i] = x.pkts[i + n]
  PROVE  Later(x, y) /\ \A e : FreshAt(x, e) => FreshAt(y, e)
<1>1. Len(x.pkts) \in Nat /\ x.serial \in Int
  BY Fields
<1>2. \A i \in 1..Len(y.pkts) : i + n \in 1..Len(x.pkts)
  BY <1>1
<1>3. Later(x, y)
  BY <1>1, <1>2 DEF Later
<1>4. ASSUME NEW e, FreshAt(x, e), NEW i \in 1..Len(y.pkts), y.pkts[i].serial = y.serial
      PROVE  y.pkts[i].epoch = e
  <2>1. y.pkts[i] = x.pkts[i + n] /\ i + n \in 1..Len(x.pkts)
    BY <1>2
  <2>2. QED
    BY <1>4, <2>1 DEF FreshAt
<1>5. QED
  BY <1>3, <1>4 DEF FreshAt

LEMMA SameMoves ==
  ASSUME NEW x \in Queue, NEW y, y.pkts = x.pkts, y.serial = x.serial
  PROVE  /\ Later(x, y) /\ \A e : FreshAt(x, e) => FreshAt(y, e)
         /\ \A d : NextInLine(d, x) => NextInLine(d, y)
<1>1. x.serial \in Int
  BY Fields
<1>2. QED
  BY <1>1 DEF Later, FreshAt, NextInLine

LEMMA EmptyMoves ==
  ASSUME NEW x \in Queue, NEW y, y.pkts = <<>>, y.serial = x.serial
  PROVE  Later(x, y) /\ \A e : FreshAt(y, e)
<1>1. x.serial \in Int /\ Len(y.pkts) = 0
  BY Fields
<1>2. QED
  BY <1>1 DEF Later, FreshAt

(***************************************************************************)
(* A packet is queued.                                                     *)
(***************************************************************************)
LEMMA PutMoves ==
  ASSUME NEW x \in Queue, NEW p \in Packet,
         \A i \in 1..Len(x.pkts) : x.pkts[i].serial <= x.serial
  PROVE  LET y == Put(x, p) IN
         /\ Later(x, y) /\ (FreshAt(x, p.epoch) => FreshAt(y, p.epoch))
         /\ \A d : NextInLine(d, x) => NextInLine(d, y)
         /\ (~x.abort /\ p.kind = "flush")
              => /\ FreshAt(y, p.epoch) /\ y.serial = x.serial + 1
                 /\ x.pkts = <<>> => \A d : NextInLine(d, y)
<1> DEFINE y == Put(x, p)
<1>1. CASE x.abort
  <2>1. y = x
    BY <1>1, PutPackets
  <2>2. Later(x, x)
    BY SameMoves
  <2>3. QED
    BY <1>1, <2>1, <2>2
<1>2. CASE ~x.abort
  <2> DEFINE n == Len(x.pkts)
             serial == IF p.kind = "flush" THEN x.serial + 1 ELSE x.serial
             last == [kind |-> p.kind, epoch |-> p.epoch, pos |-> p.pos, serial |-> serial]
  <2>1. y.serial = serial /\ y.pkts = Append(x.pkts, last) /\ y \in Queue
    BY <1>2, PutPackets
  <2>2. n \in Nat /\ x.serial \in Int /\ x.pkts \in Seq(QPacket)
        /\ \A i \in 1..n : x.pkts[i].serial \in Int
    BY Fields
  <2>3. last.kind = p.kind /\ last.epoch = p.epoch /\ last.serial = serial
    OBVIOUS
  <2>4. serial \in Int /\ serial >= x.serial
        /\ (p.kind = "flush" => serial = x.serial + 1)
        /\ (p.kind # "flush" => serial = x.serial)
    BY <2>2
  <2> HIDE DEF y, last, serial
  <2>5. /\ Len(y.pkts) = n + 1 /\ y.pkts[n + 1] = last /\ y.pkts # <<>>
        /\ \A i \in 1..n : y.pkts[i] = x.pkts[i]
    BY <2>1, <2>2
  <2>6. \A j \in 1..Len(y.pkts) : j \in 1..n \/ j = n + 1
    BY <2>2, <2>5
  <2>7. Later(x, y)
    <3>1. ASSUME NEW j \in 1..Len(y.pkts)
          PROVE  \/ \E i \in 1..n : y.pkts[j] = x.pkts[i]
                 \/ /\ y.pkts[j].serial >= x.serial
                    /\ y.pkts[j].kind = "flush" => y.pkts[j].serial > x.serial
      <4>1. CASE j \in 1..n
        BY <2>5, <4>1
      <4>2. CASE j = n + 1
        BY <2>2, <2>3, <2>4, <2>5, <4>2
      <4>3. QED
        BY <2>6, <4>1, <4>2
    <3>2. QED
      BY <2>1, <2>4, <3>1 DEF Later
  <2>8. FreshAt(x, p.epoch) => FreshAt(y, p.epoch)
    <3>1. SUFFICES ASSUME FreshAt(x, p.epoch), NEW j \in 1..Len(y.pkts),
                          y.pkts[j].serial = y.serial
                   PROVE  y.pkts[j].epoch = p.epoch
      BY DEF FreshAt
    <3>2. CASE j = n + 1
      BY <2>3, <2>5, <3>2
    <3>3. CASE j \in 1..n
      <4>1. CASE p.kind # "flush"
        BY <2>1, <2>4, <2>5, <3>1, <3>3, <4>1 DEF FreshAt
      <4>2. CASE p.kind = "flush"
        BY <2>1, <2>2, <2>4, <2>5, <3>1, <3>3, <4>2
      <4>3. QED
        BY <4>1, <4>2
    <3>4. QED
      BY <2>6, <3>2, <3>3
  <2>9. \A d : NextInLine(d, x) => NextInLine(d, y)
    <3>1. SUFFICES ASSUME NEW d, NextInLine(d, x), ~Blank(d)
                   PROVE  y.pkts[1].kind # "flush" => y.pkts[1].serial = d.pkt_serial
      BY <2>5 DEF NextInLine
    <3>2. CASE x.pkts = <<>>
      <4>1. n = 0 /\ y.pkts[1] = last /\ x.serial = d.pkt_serial
        BY <2>5, <3>1, <3>2 DEF NextInLine
      <4>2. QED
        BY <2>3, <2>4, <4>1
    <3>3. CASE x.pkts # <<>>
      <4>1. n >= 1
        BY <2>2, <3>3
      <4>2. y.pkts[1] = x.pkts[1]
        BY <2>2, <2>5, <4>1
      <4>3. QED
        BY <3>1, <3>3, <4>2 DEF NextInLine
    <3>4. QED
      BY <3>2, <3>3
  <2>10. ASSUME p.kind = "flush"
         PROVE  /\ FreshAt(y, p.epoch) /\ y.serial = x.serial + 1
                /\ x.pkts = <<>> => \A d : NextInLine(d, y)
    <3>1. FreshAt(y, p.epoch)
      <4>1. \A j \in 1..n : y.pkts[j].serial # y.serial
        BY <2>1, <2>2, <2>4, <2>5, <2>10
      <4>2. QED
        BY <2>3, <2>5, <2>6, <4>1 DEF FreshAt
    <3>2. x.pkts = <<>> => y.pkts[1].kind = "flush"
      BY <2>3, <2>5, <2>10
    <3>3. QED
      BY <2>1, <2>4, <2>5, <2>10, <3>1, <3>2 DEF NextInLine
  <2>11. QED
    BY <1>2, <2>7, <2>8, <2>9, <2>10 DEF y
<1>3. QED
  BY <1>1, <1>2

(***************************************************************************)
(* A packet leaves at the head.                                            *)
(***************************************************************************)
LEMMA TailMoves ==
  ASSUME NEW x, GoodQueue(x), x.pkts # <<>>, NEW y \in Queue,
         y.serial = x.serial, y.pkts = Tail(x.pkts)
  PROVE  /\ Later(x, y) /\ \A e : FreshAt(x, e) => FreshAt(y, e)
         /\ \A d : d.pkt_serial = x.pkts[1].serial => NextInLine(d, y)
         /\ \A i \in 1..Len(y.pkts) :
              /\ x.pkts[1].serial <= y.pkts[i].serial
              /\ y.pkts[i].kind = "flush" => x.pkts[1].serial < y.pkts[i].serial
<1> DEFINE n == Len(x.pkts)
<1>1. x \in Queue /\ x.pkts \in Seq(QPacket) /\ n \in Nat /\ n >= 1
      /\ \A i \in 1..n : x.pkts[i].serial \in Int
  BY Fields DEF GoodQueue
<1>2. /\ Len(y.pkts) = n - 1 /\ \A i \in 1..Len(y.pkts) : y.pkts[i] = x.pkts[i + 1]
      /\ 1 \in 0..n /\ 1 \in 1..n /\ \A i \in 1..Len(y.pkts) : i + 1 \in 1..n /\ i + 1 > 1
  BY <1>1
<1>3. Later(x, y) /\ \A e : FreshAt(x, e) => FreshAt(y, e)
  BY <1>1, <1>2, SuffixMoves
<1>4. ASSUME NEW d, d.pkt_serial = x.pkts[1].serial
      PROVE  NextInLine(d, y)
  <2>1. CASE y.pkts = <<>>
    <3>1. n = 1
      <4>1. Len(<<>>) = 0
        OBVIOUS
      <4>2. Len(y.pkts) = 0
        BY <2>1, <4>1, Zenon
      <4>3. QED
        BY <1>1, <1>2, <4>2
    <3>2. x.serial = x.pkts[1].serial
      BY <3>1 DEF GoodQueue, Chained
    <3>3. QED
      BY <1>4, <2>1, <3>2 DEF NextInLine
  <2>2. CASE y.pkts # <<>>
    <3>1. n >= 2 /\ y.pkts[1] = x.pkts[2] /\ 2 \in 1..n
      BY <1>1, <1>2, <2>2
    <3>2. y.pkts[1].kind # "flush" => y.pkts[1].serial = x.pkts[1].serial
      <4>1. (2 > 1 /\ x.pkts[2].kind # "flush") => x.pkts[2].serial = x.pkts[2 - 1].serial
        BY <3>1 DEF GoodQueue, Chained
      <4>2. QED
        BY <3>1, <4>1
    <3>3. QED
      BY <1>4, <2>2, <3>2 DEF NextInLine
  <2>3. QED
    BY <2>1, <2>2
<1>5. \A i \in 1..Len(y.pkts) :
        /\ x.pkts[1].serial <= y.pkts[i].serial
        /\ y.pkts[i].kind = "flush" => x.pkts[1].serial < y.pkts[i].serial
  <2>1. \A j \in 1..n : 1 <= j => x.pkts[1].serial <= x.pkts[j].serial
    BY <1>2 DEF GoodQueue, SerialsOrdered
  <2>2. \A j \in 1..n : (1 < j /\ x.pkts[j].kind = "flush") => x.pkts[1].serial < x.pkts[j].serial
    BY <1>2 DEF GoodQueue, MarkerStartsSerial
  <2>3. QED
    BY <1>2, <2>1, <2>2
<1>6. QED
  BY <1>3, <1>4, <1>5

(***************************************************************************)
(* What the operations do to a queue, and what every step does to all.     *)
(***************************************************************************)
Moved(x, y)  == Later(x, y) /\ (FreshAt(x, epoch) => FreshAt(y, epoch))
Steady(x, y) == \A d : NextInLine(d, x) => NextInLine(d, y)
Flagged(x, y) == (~y.abort => ~x.abort) /\ (~y.background => ~x.background)

LEMMA OperationsMove ==
  ASSUME NEW x, GoodQueue(x)
  PROVE  /\ Moved(x, x) /\ Steady(x, x) /\ Flagged(x, x)
         /\ Moved(x, Abort(x)) /\ Steady(x, Abort(x)) /\ Flagged(x, Abort(x))
         /\ Moved(x, PutEof(x)) /\ Steady(x, PutEof(x)) /\ Flagged(x, PutEof(x))
         /\ Moved(x, Background(x)) /\ Steady(x, Background(x))
         /\ \A p : Moved(x, Start(x, TRUE, p)) /\ Steady(x, Start(x, TRUE, p))
         /\ Moved(x, Flush(x)) /\ Flagged(x, Flush(x))
         /\ \A pos, late : Moved(x, SyncTo(x, pos, late)) /\ Flagged(x, SyncTo(x, pos, late))
<1>1. x \in Queue
  BY DEF GoodQueue
<1>2. Moved(x, x) /\ Steady(x, x) /\ Flagged(x, x)
  BY <1>1, SameMoves DEF Moved, Steady, Flagged
<1>3. Moved(x, Abort(x)) /\ Steady(x, Abort(x)) /\ Flagged(x, Abort(x))
  BY <1>1, SameMoves, FlagsGood DEF Moved, Steady, Flagged
<1>4. Moved(x, PutEof(x)) /\ Steady(x, PutEof(x)) /\ Flagged(x, PutEof(x))
  BY <1>1, SameMoves, FlagsGood DEF Moved, Steady, Flagged
<1>5. Moved(x, Background(x)) /\ Steady(x, Background(x))
  BY <1>1, SameMoves, FlagsGood DEF Moved, Steady
<1>6. \A p : Moved(x, Start(x, TRUE, p)) /\ Steady(x, Start(x, TRUE, p))
  BY <1>1, SameMoves, FlagsGood DEF Moved, Steady
<1>7. Moved(x, Flush(x)) /\ Flagged(x, Flush(x))
  BY <1>1, EmptyMoves, FlushGood DEF Moved, Flagged
<1>8. ASSUME NEW pos, NEW late
      PROVE  Moved(x, SyncTo(x, pos, late)) /\ Flagged(x, SyncTo(x, pos, late))
  <2> DEFINE y == SyncTo(x, pos, late)
  <2>1. /\ y \in Queue /\ y.serial = x.serial /\ y.abort = x.abort /\ y.background = x.background
        /\ \E n \in 0..Len(x.pkts) :
              /\ Len(y.pkts) = Len(x.pkts) - n
              /\ \A i \in 1..Len(y.pkts) : y.pkts[i] = x.pkts[i + n]
    BY SyncGood DEF GoodQueue
  <2> HIDE DEF y
  <2>2. Later(x, y) /\ \A e : FreshAt(x, e) => FreshAt(y, e)
    BY <1>1, <2>1, SuffixMoves
  <2>3. QED
    BY <2>1, <2>2 DEF Moved, Flagged, y
<1>9. QED
  BY <1>2, <1>3, <1>4, <1>5, <1>6, <1>7, <1>8

LEMMA GetMoves ==
  ASSUME NEW x, GoodQueue(x), x.pkts # <<>>
  PROVE  Moved(x, Get(x)) /\ Flagged(x, Get(x))
<1>1. Get(x) \in Queue
  BY GetGood DEF GoodQueue
<1>2. QED
  BY <1>1, GetGood, TailMoves DEF Moved, Flagged

LEMMA DropMoves ==
  ASSUME NEW x, GoodQueue(x)
  PROVE  Moved(x, Drop(x)) /\ Steady(x, Drop(x)) /\ Flagged(x, Drop(x))
<1> DEFINE y == Drop(x)
<1>1. x \in Queue /\ y \in Queue /\ y.serial = x.serial
      /\ y.abort = x.abort /\ y.background = x.background
  BY DropGood DEF GoodQueue
<1>2. CASE y.pkts = x.pkts
  <2> HIDE DEF y
  <2>1. QED
    BY <1>1, <1>2, SameMoves DEF Moved, Steady, Flagged, y
<1>3. CASE x.pkts # <<>> /\ Head(x.pkts).kind = "data" /\ y.pkts = Tail(x.pkts)
  <2> HIDE DEF y
  <2>1. /\ Later(x, y) /\ \A e : FreshAt(x, e) => FreshAt(y, e)
        /\ \A d : d.pkt_serial = x.pkts[1].serial => NextInLine(d, y)
    BY <1>1, <1>3, TailMoves
  <2>2. Head(x.pkts) = x.pkts[1]
    BY <1>1, <1>3, Fields
  <2>3. Steady(x, y)
    BY <1>3, <2>1, <2>2 DEF Steady, NextInLine
  <2>4. QED
    BY <1>1, <2>1, <2>3 DEF Moved, Flagged, y
<1>4. QED
  BY <1>2, <1>3, DropGood

LEMMA PutsMove ==
  ASSUME NEW x, GoodQueue(x), NEW p \in Packet, p.epoch = epoch
  PROVE  Moved(x, Put(x, p)) /\ Steady(x, Put(x, p)) /\ Flagged(x, Put(x, p))
<1>1. x \in Queue /\ \A i \in 1..Len(x.pkts) : x.pkts[i].serial <= x.serial
  BY DEF GoodQueue, SerialsOrdered
<1>2. QED
  BY <1>1, PutMoves, PutPackets DEF Moved, Steady, Flagged

LEMMA MovedTwice ==
  ASSUME NEW x, GoodQueue(x), NEW y, GoodQueue(y), NEW z, GoodQueue(z),
         Moved(x, y), Moved(y, z)
  PROVE  Moved(x, z)
<1>1. x \in Queue /\ y \in Queue /\ z \in Queue
  BY DEF GoodQueue
<1>2. QED
  BY <1>1, LaterTwice DEF Moved

(***************************************************************************)
(* A queue is played when no trim touches it.                              *)
(***************************************************************************)
Takes(s) == \E m \in Media : GetPacket(m) /\ dec[m].on = s

LEMMA QueueMoves ==
  ASSUME Types, Wired, QueuesGood, [Next]_vars, NEW s \in Ids
  PROVE  /\ Moved(q[s], q'[s])
         /\ \/ Steady(q[s], q'[s]) \/ Takes(s)
            \/ s = audioq /\ SeekFlushAudio
            \/ s = Video /\ (SeekFlushVideo \/ JoinVideo)
            \/ s \in Tracks /\ s # audioStream /\ ReadPacket
         /\ \/ Flagged(q[s], q'[s])
            \/ s = audioq /\ (JoinDecoder \/ StartDecoder)
<1> DEFINE Goal ==
             /\ Moved(q[s], q'[s])
             /\ \/ Steady(q[s], q'[s]) \/ Takes(s)
                \/ s = audioq /\ SeekFlushAudio
                \/ s = Video /\ (SeekFlushVideo \/ JoinVideo)
                \/ s \in Tracks /\ s # audioStream /\ ReadPacket
             /\ \/ Flagged(q[s], q'[s])
                \/ s = audioq /\ (JoinDecoder \/ StartDecoder)
<1>1. /\ \A t \in Ids : GoodQueue(q[t])
      /\ audioq \in Ids /\ Video \in Ids /\ Media = {"A", "V"} /\ q \in [Ids -> Queue]
      /\ Ids = Tracks \cup {Video}
  BY DEF QueuesGood, Types, Ids, Media
<1>2. ASSUME q'[s] = q[s]
      PROVE  Goal
  BY <1>1, <1>2, OperationsMove
<1>3. ASSUME NEW t \in Ids, NEW y, q' = [q EXCEPT ![t] = y]
      PROVE  q'[t] = y /\ (s # t => q'[s] = q[s])
  BY <1>1, <1>3
<1>4. ASSUME NEW m \in Media, GetPacket(m)
      PROVE  Goal
  <2>1. /\ dec[m].on \in Ids
        /\ \/ q' = q
           \/ /\ q[dec[m].on].pkts # <<>>
              /\ q' = [q EXCEPT ![dec[m].on] = Get(q[dec[m].on])]
    BY <1>4, GetDoes
  <2>2. CASE q'[s] = q[s]
    BY <1>2, <2>2
  <2>3. CASE s = dec[m].on /\ q[s].pkts # <<>> /\ q'[s] = Get(q[s])
    <3>1. Moved(q[s], q'[s]) /\ Flagged(q[s], q'[s])
      BY <1>1, <2>3, GetMoves
    <3>2. Takes(s)
      BY <1>4, <2>3 DEF Takes
    <3>3. QED
      BY <3>1, <3>2
  <2>4. QED
    BY <1>3, <2>1, <2>2, <2>3
<1>5. CASE SeekFlushAudio
  <2>1. q' = q \/ q' = [q EXCEPT ![audioq] = Flush(q[audioq])]
    BY <1>5 DEF SeekFlushAudio
  <2>2. q'[s] = q[s] \/ (s = audioq /\ q'[s] = Flush(q[s]))
    BY <1>1, <1>3, <2>1
  <2>3. Moved(q[s], Flush(q[s])) /\ Flagged(q[s], Flush(q[s]))
    BY <1>1, OperationsMove
  <2>4. CASE s = audioq /\ q'[s] = Flush(q[s])
    <3>1. Moved(q[s], q'[s]) /\ Flagged(q[s], q'[s])
      BY <2>3, <2>4
    <3>2. QED
      BY <1>5, <2>4, <3>1
  <2>5. QED
    BY <1>2, <2>2, <2>4
<1>6. CASE SeekMarkAudio
  <2>1. q' = [q EXCEPT ![audioq] = Put(q[audioq], Marker)]
    BY <1>6 DEF SeekMarkAudio
  <2>2. q'[s] = q[s] \/ q'[s] = Put(q[s], Marker)
    BY <1>1, <1>3, <2>1
  <2>3. QED
    BY <1>1, <1>2, <2>2, PutsMove, Packets
<1>7. CASE SeekFlushVideo
  <2>1. q' = q \/ q' = [q EXCEPT ![Video] = Put(Flush(q[Video]), Marker)]
    BY <1>7 DEF SeekFlushVideo
  <2>2. q'[s] = q[s] \/ (s = Video /\ q'[s] = Put(Flush(q[s]), Marker))
    BY <1>1, <1>3, <2>1
  <2>3. CASE s = Video /\ q'[s] = Put(Flush(q[s]), Marker)
    <3>1. GoodQueue(Flush(q[s])) /\ Moved(q[s], Flush(q[s])) /\ Flagged(q[s], Flush(q[s]))
      BY <1>1, FlushGood, OperationsMove
    <3>2. /\ GoodQueue(q'[s]) /\ Moved(Flush(q[s]), q'[s]) /\ Flagged(Flush(q[s]), q'[s])
      BY <2>3, <3>1, Packets, PutGood, PutsMove
    <3>3. Moved(q[s], q'[s]) /\ Flagged(q[s], q'[s])
      BY <1>1, <3>1, <3>2, MovedTwice DEF Flagged
    <3>4. QED
      BY <1>7, <2>3, <3>3
  <2>4. QED
    BY <1>2, <2>2, <2>3
<1>8. CASE BuffersFull
  <2>1. q' = q \/ q' = [q EXCEPT ![Video] = Drop(q[Video])]
    BY <1>8 DEF BuffersFull
  <2>2. q'[s] = q[s] \/ q'[s] = Drop(q[s])
    BY <1>1, <1>3, <2>1
  <2>3. QED
    BY <1>1, <1>2, <2>2, DropMoves
<1>9. CASE Complete
  <2>1. q'[s] = q[s] \/ q'[s] = PutEof(q[s])
    BY <1>9 DEF Complete
  <2>2. QED
    BY <1>1, <1>2, <2>1, OperationsMove
<1>10. CASE ReadPacket
  <2> DEFINE p == [kind |-> "data", epoch |-> epoch, pos |-> rd.pos]
             trim == IF s \in Opened \cap Tracks /\ s # audioStream
                        /\ Cardinality(Opened \cap Tracks) > 1
                     THEN SyncTo(q[s], clock, LateStart) ELSE q[s]
  <2>1. q'[s] = trim \/ q'[s] = Put(trim, p)
    BY <1>10 DEF ReadPacket
  <2>2. /\ GoodQueue(trim) /\ Moved(q[s], trim) /\ Flagged(q[s], trim)
        /\ trim = q[s] \/ (s \in Tracks /\ s # audioStream)
    BY <1>1, SyncGood, OperationsMove
  <2>3. p \in Packet /\ p.epoch = epoch
    BY Packets
  <2> HIDE DEF trim, p
  <2>4. /\ GoodQueue(Put(trim, p)) /\ Moved(trim, Put(trim, p)) /\ Steady(trim, Put(trim, p))
        /\ Flagged(trim, Put(trim, p))
    BY <2>2, <2>3, PutGood, PutsMove
  <2>5. Moved(q[s], q'[s]) /\ Flagged(q[s], q'[s])
    BY <1>1, <2>1, <2>2, <2>4, MovedTwice DEF Flagged
  <2>6. Steady(q[s], q'[s]) \/ (s \in Tracks /\ s # audioStream)
    BY <1>1, <2>1, <2>2, <2>4, OperationsMove
  <2>7. QED
    BY <1>10, <2>5, <2>6
<1>11. CASE ReadEof
  <2>1. q'[s] = q[s] \/ q'[s] = Put(q[s], NullPkt)
    BY <1>11 DEF ReadEof
  <2>2. QED
    BY <1>1, <1>2, <2>1, PutsMove, Packets
<1>12. CASE ReadError
  <2> DEFINE y == Put(q[s], NullPkt)
             z == Put(y, NullPkt)
  <2>1. q'[s] = q[s] \/ q'[s] = z
    BY <1>12 DEF ReadError
  <2>2. /\ GoodQueue(y) /\ Moved(q[s], y) /\ Steady(q[s], y) /\ Flagged(q[s], y)
    BY <1>1, Packets, PutGood, PutsMove
  <2> HIDE DEF y
  <2>3. /\ GoodQueue(z) /\ Moved(y, z) /\ Steady(y, z) /\ Flagged(y, z)
    BY <2>2, Packets, PutGood, PutsMove
  <2> HIDE DEF z
  <2>4. Moved(q[s], z) /\ Steady(q[s], z) /\ Flagged(q[s], z)
    BY <1>1, <2>2, <2>3, MovedTwice DEF Steady, Flagged
  <2>5. QED
    BY <1>2, <2>1, <2>4
<1>13. ASSUME NEW t \in Tracks, NEW selected \in BOOLEAN, SelectTrack(t, selected)
       PROVE  Goal
  <2>1. q' = q \/ q' = [q EXCEPT ![audioq] = Abort(q[audioq])]
    BY <1>13 DEF SelectTrack
  <2>2. q'[s] = q[s] \/ q'[s] = Abort(q[s])
    BY <1>1, <1>3, <2>1
  <2>3. QED
    BY <1>1, <1>2, <2>2, OperationsMove
<1>14. CASE JoinDecoder
  <2>1. q' = [q EXCEPT ![audioq] = Background(q[audioq])]
    BY <1>14 DEF JoinDecoder, Wired
  <2>2. q'[s] = q[s] \/ (s = audioq /\ q'[s] = Background(q[s]))
    BY <1>1, <1>3, <2>1
  <2>3. QED
    BY <1>1, <1>2, <1>14, <2>2, OperationsMove
<1>15. CASE StartDecoder
  <2>1. q' = [q EXCEPT ![audioq] = Start(q[audioq], TRUE, Marker)]
    BY <1>15 DEF StartDecoder
  <2>2. q'[s] = q[s] \/ (s = audioq /\ q'[s] = Start(q[s], TRUE, Marker))
    BY <1>1, <1>3, <2>1
  <2>3. QED
    BY <1>1, <1>2, <1>15, <2>2, OperationsMove
<1>16. CASE CloseStream
  <2>1. q'[s] = Abort(q[s])
    BY <1>16 DEF CloseStream
  <2>2. QED
    BY <1>1, <2>1, OperationsMove
<1>17. CASE JoinVideo
  <2>1. q' = [q EXCEPT ![Video] = Flush(q[Video])]
    BY <1>17 DEF JoinVideo
  <2>2. q'[s] = q[s] \/ (s = Video /\ q'[s] = Flush(q[s]))
    BY <1>1, <1>3, <2>1
  <2>3. QED
    BY <1>1, <1>2, <1>17, <2>2, OperationsMove
<1>18. QED
  BY <1>2, <1>4, <1>5, <1>6, <1>7, <1>8, <1>9, <1>10, <1>11, <1>12, <1>13, <1>14,
     <1>15, <1>16, <1>17, Frames DEF ChangesQueues

(***************************************************************************)
(* The invariant behind NothingStalePlayed, in parts.                      *)
(***************************************************************************)
Feeding ==
  /\ Opened # {} /\ rd.next # {} /\ rd.next \subseteq Opened
  /\ rd.pc = "mark" => audioq \in Opened
  /\ stale \subseteq Opened
  /\ \A s \in Tracks \ Opened : q[s].pkts = <<>>
  /\ Video \notin Opened => q[Video].abort
  /\ \A s \in Ids : \A i \in 1..Len(q[s].pkts) :
       q[s].pkts[i].kind = "flush" => q[s].pkts[i].serial > 0
  /\ app.pc = "start" => cb.pc = "idle"

InLine ==
  /\ \A m \in Media : Runs(m) => DecoderBehind(dec[m], q[dec[m].on])
  /\ (Runs("V") /\ ~q[Video].abort) => NextInLine(dec["V"], q[Video])
  /\ (Runs("A") /\ ~q[audioq].abort /\ ~app.bare)
       => \/ NextInLine(dec["A"], q[audioq])
          \/ rd.pc = "mark" /\ q[audioq].pkts = <<>>

SerialsHeld ==
  /\ \A k \in Places(ring["V"]) : At(ring["V"], k).serial <= q[Video].serial
  /\ \A k \in Places(ring["A"]) :
       At(ring["A"], k) # NoFrame => At(ring["A"], k).serial <= q[audioq].serial
  /\ HasFrame => Given.serial <= q[audioq].serial

(***************************************************************************)
(* Every step keeps Feeding: only streams that are open are read, and only *)
(* their queues hold packets.                                              *)
(***************************************************************************)
LEMMA LaterKinds ==
  ASSUME NEW x, GoodQueue(x), NEW y \in Queue, Later(x, y),
         \A i \in 1..Len(x.pkts) : x.pkts[i].kind = "flush" => x.pkts[i].serial > 0
  PROVE  \A i \in 1..Len(y.pkts) : y.pkts[i].kind = "flush" => y.pkts[i].serial > 0
<1>1. SUFFICES ASSUME NEW i \in 1..Len(y.pkts), y.pkts[i].kind = "flush"
               PROVE  y.pkts[i].serial > 0
  OBVIOUS
<1>2. x.serial \in Int /\ x.serial >= 0 /\ y.pkts[i].serial \in Int
  BY Fields DEF GoodQueue
<1>3. CASE \E j \in 1..Len(x.pkts) : y.pkts[i] = x.pkts[j]
  BY <1>1, <1>3
<1>4. CASE y.pkts[i].serial > x.serial
  BY <1>2, <1>4
<1>5. QED
  BY <1>1, <1>3, <1>4 DEF Later

LEMMA ReaderMoves ==
  ASSUME Types, [Next]_vars
  PROVE  /\ \/ rd'.pc = rd.pc
            \/ Top /\ rd.pc = "loop" /\ rd'.pc \in {"end", "body", "flush", "sought"}
            \/ SeekFlushAudio /\ rd.pc = "flush" /\ rd'.pc \in {"mark", "video"}
            \/ SeekMarkAudio /\ rd.pc = "mark" /\ rd'.pc = "video"
            \/ SeekFlushVideo /\ rd.pc = "video" /\ rd'.pc = "sought"
            \/ rd.pc = "sought" /\ rd'.pc = "body"
            \/ rd.pc \in {"body", "read"} /\ rd'.pc \in {"loop", "read"}
         /\ \/ rd'.next = rd.next
            \/ Top /\ rd'.next = Opened
            \/ ReadPacket /\ rd'.next = LET more == rd.next \ {CHOOSE x \in rd.next : TRUE}
                                        IN IF more = {} THEN Opened ELSE more
         /\ (Top /\ rd'.pc # "flush") => UNCHANGED <<epoch, stale>>
         /\ (Top /\ rd'.pc = "flush") => epoch' = epoch + 1 /\ stale' = Opened \cap Tracks
<1>1. rd \in ReadState
  BY DEF Types
<1>2. ASSUME NEW pc \in {"loop", "body", "flush", "mark", "video", "sought", "read", "end"},
             rd' = [rd EXCEPT !.pc = pc]
      PROVE  rd'.pc = pc /\ rd'.next = rd.next
  BY <1>1, <1>2 DEF ReadState
<1>3. Top => /\ rd.pc = "loop" /\ rd'.pc \in {"end", "body", "flush", "sought"}
             /\ rd'.next \in {rd.next, Opened}
             /\ rd'.pc # "flush" => UNCHANGED <<epoch, stale>>
             /\ rd'.pc = "flush" => epoch' = epoch + 1 /\ stale' = Opened \cap Tracks
  <2>1. ASSUME rd' = [rd EXCEPT !.pc = "flush", !.pos = seekPos, !.next = Opened]
        PROVE  rd'.pc = "flush" /\ rd'.next = Opened
    <3> DEFINE pos == seekPos
               next == Opened
    <3>1. rd' = [rd EXCEPT !.pc = "flush", !.pos = pos, !.next = next]
          /\ pos \in Nat /\ next \in SUBSET Ids
      BY <2>1 DEF Types, Opened
    <3> HIDE DEF pos, next
    <3>2. rd'.pc = "flush" /\ rd'.next = next
      BY <1>1, <3>1 DEF ReadState
    <3>3. QED
      BY <3>2 DEF next
  <2>2. SUFFICES ASSUME Top
                 PROVE  /\ rd.pc = "loop" /\ rd'.pc \in {"end", "body", "flush", "sought"}
                        /\ rd'.next \in {rd.next, Opened}
                        /\ rd'.pc # "flush" => UNCHANGED <<epoch, stale>>
                        /\ rd'.pc = "flush" => epoch' = epoch + 1 /\ stale' = Opened \cap Tracks
    OBVIOUS
  <2>3. rd.pc = "loop"
    BY <2>2 DEF Top
  <2>4. CASE RdGoto("end") /\ UNCHANGED <<epoch, stale>>
    BY <1>2, <2>3, <2>4 DEF RdGoto
  <2>5. CASE RdGoto("body") /\ UNCHANGED <<epoch, stale>>
    BY <1>2, <2>3, <2>5 DEF RdGoto
  <2>6. CASE RdGoto("sought") /\ UNCHANGED <<epoch, stale>>
    BY <1>2, <2>3, <2>6 DEF RdGoto
  <2>7. CASE /\ epoch' = epoch + 1 /\ stale' = Opened \cap Tracks
             /\ rd' = [rd EXCEPT !.pc = "flush", !.pos = seekPos, !.next = Opened]
    BY <2>1, <2>3, <2>7
  <2>8. QED
    BY <2>2, <2>4, <2>5, <2>6, <2>7 DEF Top
<1>4. /\ SeekFlushAudio => rd.pc = "flush" /\ rd'.pc \in {"mark", "video"} /\ rd'.next = rd.next
      /\ SeekMarkAudio => rd.pc = "mark" /\ rd'.pc = "video" /\ rd'.next = rd.next
      /\ SeekFlushVideo => rd.pc = "video" /\ rd'.pc = "sought" /\ rd'.next = rd.next
  BY <1>2 DEF SeekFlushAudio, SeekMarkAudio, SeekFlushVideo, RdGoto
<1>5. /\ SeekEnd => rd.pc = "sought" /\ rd'.pc = "body" /\ rd'.next = rd.next
      /\ OpenAout => rd'.pc = rd.pc /\ rd'.next = rd.next
      /\ Complete => rd.pc = "body" /\ rd'.pc = "read" /\ rd'.next = rd.next
      /\ ReadEof => rd.pc \in {"body", "read"} /\ rd'.pc = "loop" /\ rd'.next = rd.next
      /\ ReadError => rd.pc \in {"body", "read"} /\ rd'.pc = "loop" /\ rd'.next = rd.next
  BY <1>1 DEF SeekEnd, OpenAout, Complete, ReadEof, ReadError, Reading, ReadState
<1>6. /\ BuffersFull => rd.pc = "body" /\ rd'.pc = "loop" /\ rd'.next = rd.next
      /\ Idle => rd.pc = "body" /\ rd'.pc \in {"loop", "read"} /\ rd'.next = rd.next
  BY <1>2 DEF BuffersFull, Idle, RdGoto
<1>7. ReadPacket => /\ rd.pc \in {"body", "read"} /\ rd'.pc = "loop"
                    /\ rd'.next = LET more == rd.next \ {CHOOSE x \in rd.next : TRUE}
                                  IN IF more = {} THEN Opened ELSE more
  <2> DEFINE more == rd.next \ {CHOOSE x \in rd.next : TRUE}
             pos == IF more = {} THEN rd.pos + 1 ELSE rd.pos
             next == IF more = {} THEN Opened ELSE more
  <2>1. pos \in Nat /\ next \in SUBSET Ids
    BY <1>1 DEF Types, Opened, ReadState
  <2>2. ReadPacket => /\ rd' = [rd EXCEPT !.pc = "loop", !.eof = FALSE, !.pos = pos, !.next = next]
                      /\ rd.pc \in {"body", "read"}
    BY DEF ReadPacket, Reading
  <2> HIDE DEF pos, next
  <2>3. ReadPacket => rd.pc \in {"body", "read"} /\ rd'.pc = "loop" /\ rd'.next = next
    BY <1>1, <2>1, <2>2 DEF ReadState
  <2>4. QED
    BY <2>3 DEF next
<1>8. QED
  BY <1>3, <1>4, <1>5, <1>6, <1>7, Frames DEF ChangesReader, ReadStep

LEMMA FeedingKept ==
  ASSUME Types, Wired, QueuesGood, RingsWell, Feeding, [Next]_vars
  PROVE  Feeding'
<1>1. /\ Opened' = Opened /\ Opened \subseteq Ids /\ Ids = Tracks \cup {Video}
      /\ Opened # {} /\ rd.next # {} /\ rd.next \subseteq Opened /\ stale \subseteq Opened
      /\ \A s \in Ids : GoodQueue(q[s]) /\ s \in Ids
      /\ audioq \in Tracks /\ q \in [Ids -> Queue] /\ Video \in Ids /\ Video \notin Tracks
  BY Frames, StreamsAssumption DEF Feeding, Opened, Types, QueuesGood, Ids
<1>2. rd'.next # {} /\ rd'.next \subseteq Opened
  BY <1>1, ReaderMoves
<1>3. rd'.pc = "mark" => audioq' \in Opened
  <2>1. SetActive => audioq' \in Opened
    BY DEF SetActive, Wired
  <2>2. SeekFlushAudio /\ rd'.pc = "mark" => audioq \in Opened
    <3>1. SeekFlushAudio /\ audioStream = None => rd'.pc = "video"
      BY DEF SeekFlushAudio, RdGoto, Types, ReadState
    <3>2. QED
      BY <3>1 DEF Wired
  <2>3. rd'.pc = "mark" => rd.pc = "mark" \/ SeekFlushAudio
    BY ReaderMoves
  <2>4. QED
    BY <2>1, <2>2, <2>3, Frames DEF Feeding
<1>4. stale' \subseteq Opened
  BY <1>1, Frames DEF Top, SeekFlushAudio, SeekMarkAudio
<1>5. ASSUME NEW s \in Tracks \ Opened
      PROVE  q'[s].pkts = <<>>
  <2>1. s \in Ids /\ s # Video /\ q[s].pkts = <<>> /\ GoodQueue(q[s])
    BY <1>1 DEF Feeding
  <2>2. audioStream # s /\ (audioStream # None => s # audioq)
    BY StreamsAssumption DEF Wired
  <2>3. ASSUME NEW t \in Ids, NEW y, q' = [q EXCEPT ![t] = y], t # s \/ y.pkts = q[t].pkts
        PROVE  q'[s].pkts = <<>>
    BY <1>1, <2>1, <2>3
  <2>4. ASSUME q'[s] = q[s]
        PROVE  q'[s].pkts = <<>>
    BY <2>1, <2>4
  <2>5. ASSUME NEW m \in Media, GetPacket(m)
        PROVE  q'[s].pkts = <<>>
    <3>1. /\ dec[m].on \in Ids
          /\ \/ q' = q
             \/ /\ q[dec[m].on].pkts # <<>>
                /\ q' = [q EXCEPT ![dec[m].on] = Get(q[dec[m].on])]
      BY <2>5, GetDoes
    <3>2. QED
      BY <2>1, <2>3, <3>1
  <2>6. SeekFlushAudio => q'[s].pkts = <<>>
    <3>1. SeekFlushAudio => q' = q \/ (s # audioq /\ q' = [q EXCEPT ![audioq] = Flush(q[audioq])])
      BY <2>2 DEF SeekFlushAudio
    <3>2. QED
      BY <1>1, <2>1, <2>3, <3>1
  <2>7. SeekMarkAudio => q'[s].pkts = <<>>
    <3>1. SeekMarkAudio => s # audioq /\ q' = [q EXCEPT ![audioq] = Put(q[audioq], Marker)]
      BY DEF SeekMarkAudio, Feeding
    <3>2. QED
      BY <1>1, <2>3, <3>1
  <2>8. SeekFlushVideo \/ BuffersFull \/ JoinVideo => q'[s].pkts = <<>>
    <3>1. SeekFlushVideo \/ BuffersFull \/ JoinVideo =>
            q' = q \/ \E y : q' = [q EXCEPT ![Video] = y]
      BY DEF SeekFlushVideo, BuffersFull, JoinVideo
    <3>2. QED
      BY <1>1, <2>1, <2>3, <3>1
  <2>9. Complete \/ ReadEof \/ ReadError => q'[s].pkts = <<>>
    <3>1. s \notin Open
      BY <1>1, <2>1, <2>2, StreamsAssumption DEF Open, VideoId
    <3>2. Complete \/ ReadEof \/ ReadError => q'[s] = q[s]
      BY <2>1, <3>1 DEF Complete, ReadEof, ReadError
    <3>3. QED
      BY <2>4, <3>2
  <2>10. ReadPacket => q'[s] = q[s]
    <3>1. (CHOOSE x \in rd.next : TRUE) \in Opened
      BY <1>1
    <3>2. QED
      BY <2>1, <3>1 DEF ReadPacket
  <2>11. (\E t \in Tracks, selected \in BOOLEAN : SelectTrack(t, selected)) => q'[s].pkts = <<>>
    <3>1. SUFFICES ASSUME NEW t \in Tracks, NEW selected \in BOOLEAN, SelectTrack(t, selected)
                   PROVE  q'[s].pkts = <<>>
      OBVIOUS
    <3>2. q' = q \/ q' = [q EXCEPT ![audioq] = Abort(q[audioq])]
      BY <3>1 DEF SelectTrack
    <3>3. Abort(q[audioq]).pkts = q[audioq].pkts
      BY <1>1, FlagsGood
    <3>4. QED
      BY <1>1, <2>1, <2>3, <3>2, <3>3
  <2>12. JoinDecoder \/ StartDecoder => q'[s].pkts = <<>>
    <3>1. JoinDecoder => q' = [q EXCEPT ![audioq] = Background(q[audioq])]
      BY DEF JoinDecoder, Wired
    <3>2. StartDecoder => q' = [q EXCEPT ![audioq] = Start(q[audioq], TRUE, Marker)]
      BY DEF StartDecoder
    <3>3. /\ Background(q[audioq]).pkts = q[audioq].pkts
          /\ Start(q[audioq], TRUE, Marker).pkts = q[audioq].pkts
      BY <1>1, FlagsGood
    <3>4. QED
      BY <1>1, <2>3, <3>1, <3>2, <3>3
  <2>13. CloseStream => q'[s].pkts = <<>>
    <3>1. CloseStream => q'[s] = Abort(q[s])
      BY <2>1 DEF CloseStream
    <3>2. QED
      BY <2>1, <3>1, FlagsGood
  <2>14. QED
    BY <2>4, <2>5, <2>6, <2>7, <2>8, <2>9, <2>10, <2>11, <2>12, <2>13, Frames
       DEF ChangesQueues
<1>6. Video \notin Opened => q'[Video].abort
  <2>1. Flagged(q[Video], q'[Video])
    BY <1>1, QueueMoves
  <2>2. q'[Video].abort \in BOOLEAN /\ q[Video].abort \in BOOLEAN
    BY <1>1, QueuesKept, Fields
  <2>3. QED
    BY <2>1, <2>2 DEF Flagged, Feeding
<1>7. \A s \in Ids : \A i \in 1..Len(q'[s].pkts) :
        q'[s].pkts[i].kind = "flush" => q'[s].pkts[i].serial > 0
  <2>1. SUFFICES ASSUME NEW s \in Ids
                 PROVE  \A i \in 1..Len(q'[s].pkts) :
                          q'[s].pkts[i].kind = "flush" => q'[s].pkts[i].serial > 0
    OBVIOUS
  <2>2. GoodQueue(q[s]) /\ Later(q[s], q'[s]) /\ q'[s] \in Queue
    BY <1>1, QueueMoves, QueuesKept DEF Moved
  <2>3. \A i \in 1..Len(q[s].pkts) : q[s].pkts[i].kind = "flush" => q[s].pkts[i].serial > 0
    BY DEF Feeding
  <2>4. QED
    BY <2>2, <2>3, LaterKinds
<1>8. app'.pc = "start" => cb'.pc = "idle"
  <2>1. ring["A"] \in Ring
    BY DEF Types, Media
  <2>2. Peek => app.pc # "start"
    <3>1. app.pc = "start" => ring["A"].size <= 0
      BY DEF RingsWell
    <3>2. Peek => Remaining(ring["A"]) > 0
      BY DEF Peek
    <3>3. QED
      BY <2>1, <3>1, <3>2, RingFields DEF Remaining
  <2>3. app'.pc = "start" => app.pc = "start" \/ OpenAout
    BY AppMoves
  <2>4. QED
    BY <2>2, <2>3, AppMoves, CallbackMoves DEF Feeding
<1>9. QED
  BY <1>1, <1>2, <1>3, <1>4, <1>5, <1>6, <1>7, <1>8 DEF Feeding

(***************************************************************************)
(* No frame is ahead of its queue.                                         *)
(***************************************************************************)
LEMMA HeldTypes ==
  ASSUME Types
  PROVE  /\ \A m \in Media : \A k \in Places(ring[m]) : At(ring[m], k) \in Frame \cup {NoFrame}
         /\ HasFrame => Given \in Frame
         /\ \A f \in Frame : f.serial \in Int /\ f.epoch \in Nat
<1>1. SUFFICES ASSUME NEW m \in Media, NEW k \in Places(ring[m])
               PROVE  /\ At(ring[m], k) \in Frame \cup {NoFrame}
                      /\ HasFrame => Given \in Frame
  <2>1. HasFrame => Given \in Frame
    BY RingFields DEF HasFrame, Given, Types, Media, CallbackState, Slots
  <2>2. \A f \in Frame : f.serial \in Int /\ f.epoch \in Nat
    BY DEF Frame
  <2>3. QED
    BY <2>1, <2>2
<1>2. ring[m] \in Ring /\ ring["A"] \in Ring /\ cb.slot \in Slots
  BY DEF Types, Media, CallbackState
<1>3. k \in 0..RingSize
  BY <1>2, RingFields DEF Places, Slots
<1>4. (ring[m].rindex + k) % RingSize \in Slots
  BY <1>2, <1>3, PlaceOf
<1>5. At(ring[m], k) \in Frame \cup {NoFrame}
  BY <1>2, <1>4, RingFields DEF At
<1>6. QED
  BY <1>2, <1>5, RingFields DEF HasFrame, Given

LEMMA SerialsHeldKept ==
  ASSUME Types, Wired, QueuesGood, RingsWell, FramesPlaced, InLine, SerialsHeld, [Next]_vars
  PROVE  SerialsHeld'
<1>1. audioq \in Ids /\ Video \in Ids /\ Media = {"A", "V"} /\ audioq' \in Ids
  <2>1. audioq' = audioq \/ (SetActive /\ app.track \in Tracks)
    <3>1. app.track \in Tracks \cup {None} /\ Opened \subseteq Ids /\ None \notin Ids
      BY StreamsAssumption DEF Types, AppState, Opened, Ids
    <3>2. SetActive => app.track \in Opened
      BY DEF SetActive, Wired
    <3>3. QED
      BY <3>1, <3>2, Frames
  <2>2. QED
    BY <2>1 DEF Types, Ids, Media, SetActive
<1>2. \A s \in Ids : /\ q[s].serial \in Int /\ q'[s].serial \in Int
                     /\ q'[s].serial >= q[s].serial
  BY QueueMoves, QueuesKept, Ranges, Fields DEF Moved, Later
<1>3. /\ PushFrame("V") => Decoded(dec["V"]).serial <= q[Video].serial
      /\ PushFrame("A") => Decoded(dec["A"]).serial <= q[audioq].serial
  <2>1. \A m \in Media : PushFrame(m) => Runs(m)
    BY PushDoes DEF Runs
  <2>2. \A m \in Media : PushFrame(m) => dec[m].pkt_serial <= q[dec[m].on].serial
    BY <2>1 DEF InLine, DecoderBehind
  <2>3. \A m \in Media : Decoded(dec[m]).serial = dec[m].pkt_serial
    BY DEF Decoded
  <2>4. QED
    BY <1>1, <2>1, <2>2, <2>3 DEF Wired
<1>4. \A m \in Media : PushFrame(m) => Decoded(dec[m]).serial \in Int
  BY Ranges, DecoderFields DEF Decoded
<1> HIDE DEF Decoded
<1>5. \A k \in Places(ring'["V"]) : At(ring'["V"], k).serial <= q'[Video].serial
  <2>1. SUFFICES ASSUME NEW k \in Places(ring'["V"])
                 PROVE  At(ring'["V"], k).serial <= q'[Video].serial
    OBVIOUS
  <2>2. /\ At(ring'["V"], k).serial \in Int
        /\ At(ring'["V"], k).serial <= q[Video].serial
    <3>1. CASE PushFrame("V") /\ At(ring'["V"], k) = Decoded(dec["V"])
      BY <1>1, <1>3, <1>4, <3>1
    <3>2. CASE \E j \in Places(ring["V"]) : At(ring'["V"], k) = At(ring["V"], j)
      BY <3>2, HeldTypes DEF SerialsHeld, FramesPlaced
    <3>3. QED
      BY <2>1, <3>1, <3>2, HeldMoves
  <2>3. QED
    BY <1>1, <1>2, <2>2
<1>6. CASE audioq' # audioq
  BY <1>5, <1>6, SwitchedEmpty DEF SerialsHeld
<1>7. CASE audioq' = audioq
  <2>1. ASSUME NEW f, f # NoFrame,
               \/ \E j \in Places(ring["A"]) : f = At(ring["A"], j)
               \/ PushFrame("A") /\ f = Decoded(dec["A"])
               \/ HasFrame /\ f = Given
        PROVE  f.serial <= q'[audioq'].serial
    <3>1. f.serial \in Int /\ f.serial <= q[audioq].serial
      <4>1. CASE PushFrame("A") /\ f = Decoded(dec["A"])
        BY <1>1, <1>3, <1>4, <4>1
      <4>2. CASE \E j \in Places(ring["A"]) : f = At(ring["A"], j)
        <5>1. f \in Frame
          BY <1>1, <2>1, <4>2, HeldTypes
        <5>2. QED
          BY <2>1, <4>2, <5>1, HeldTypes DEF SerialsHeld
      <4>3. CASE HasFrame /\ f = Given
        BY <4>3, HeldTypes DEF SerialsHeld
      <4>4. QED
        BY <2>1, <4>1, <4>2, <4>3
    <3>2. QED
      BY <1>1, <1>2, <1>7, <3>1
  <2>2. \A k \in Places(ring'["A"]) :
          At(ring'["A"], k) # NoFrame => At(ring'["A"], k).serial <= q'[audioq'].serial
    BY <2>1, HeldMoves
  <2>3. HasFrame' => Given'.serial <= q'[audioq'].serial
    <3>1. HasFrame' => Given' # NoFrame
      BY DEF HasFrame
    <3>2. QED
      BY <2>1, <3>1, HeldMoves
  <2>4. QED
    BY <1>5, <2>2, <2>3 DEF SerialsHeld
<1>8. QED
  BY <1>6, <1>7

(***************************************************************************)
(* A decoder stays behind its queue, and takes the serials one by one.     *)
(***************************************************************************)
LEMMA LaterBehind ==
  ASSUME NEW d \in DecoderState, NEW x \in Queue, NEW y \in Queue, Later(x, y),
         DecoderBehind(d, x)
  PROVE  DecoderBehind(d, y)
<1>1. /\ x.serial \in Int /\ y.serial \in Int /\ d.pkt_serial \in Int
      /\ \A i \in 1..Len(y.pkts) : y.pkts[i].serial \in Int
  BY Fields, DecoderFields
<1>2. ASSUME NEW i \in 1..Len(y.pkts)
      PROVE  /\ d.pkt_serial <= y.pkts[i].serial
             /\ y.pkts[i].kind = "flush" => d.pkt_serial < y.pkts[i].serial
  <2>1. CASE \E j \in 1..Len(x.pkts) : y.pkts[i] = x.pkts[j]
    BY <2>1 DEF DecoderBehind
  <2>2. CASE /\ y.pkts[i].serial >= x.serial
             /\ y.pkts[i].kind = "flush" => y.pkts[i].serial > x.serial
    <3>1. d.pkt_serial <= x.serial
      BY DEF DecoderBehind
    <3>2. QED
      BY <1>1, <2>2, <3>1
  <2>3. QED
    BY <2>1, <2>2 DEF Later
<1>3. d.pkt_serial <= y.serial
  BY <1>1 DEF DecoderBehind, Later
<1>4. QED
  BY <1>2, <1>3 DEF DecoderBehind

\* The decoder of m makes a step of its own.
LEMMA OwnBehind ==
  ASSUME Types, Wired, QueuesGood, InLine, NEW m \in Media, DecoderStep(m)
  PROVE  /\ DecoderBehind(dec'[m], q'[dec'[m].on])
         /\ (Runs(m)' /\ (NextInLine(dec[m], q[dec[m].on]) \/ q'[dec[m].on] # q[dec[m].on]))
              => NextInLine(dec'[m], q'[dec'[m].on])
         /\ q' # q => q[dec[m].on].pkts # <<>>
<1> DEFINE d == dec[m]
           e == dec'[m]
           x == q[d.on]
<1>1. /\ d \in DecoderState /\ e \in DecoderState /\ e.on = d.on /\ d.on \in Ids
      /\ Runs(m) /\ GoodQueue(x) /\ x \in Queue
  <2>1. Runs(m) /\ e.on = d.on /\ dec' \in [Media -> DecoderState]
    BY DecoderDoes
  <2>2. d.on \in Ids
    BY <2>1 DEF Wired, Media, Types, Ids
  <2>3. QED
    BY <2>1, <2>2, Ranges DEF QueuesGood, GoodQueue
<1>2. DecoderBehind(d, x)
  BY <1>1 DEF InLine
<1>3. /\ d.pkt_serial \in Int /\ d.finished \in Int /\ e.pkt_serial \in Int
      /\ e.finished \in Int /\ x.serial \in Int
      /\ \A i \in 1..Len(x.pkts) : x.pkts[i].serial \in Int
  BY <1>1, DecoderFields, Fields
<1>4. ASSUME q' = q, e.pkt_serial = d.pkt_serial, e.pc # "send",
             e.finished \in {0, d.finished, d.pkt_serial}
      PROVE  DecoderBehind(e, q'[e.on])
  <2>1. e.finished <= e.pkt_serial
    BY <1>2, <1>3, <1>4 DEF DecoderBehind
  <2>2. q'[e.on] = x
    BY <1>1, <1>4
  <2> HIDE DEF d, e, x
  <2>3. QED
    BY <1>2, <1>4, <2>1, <2>2 DEF DecoderBehind
<1>5. ASSUME q' = q, e.pkt_serial = d.pkt_serial, e.pc # "send",
             NextInLine(d, x), Blank(d) => e.codec = <<>>
      PROVE  NextInLine(e, q'[e.on])
  <2>1. q'[e.on] = x
    BY <1>1, <1>5
  <2> HIDE DEF d, e, x
  <2>2. QED
    BY <1>5, <2>1 DEF NextInLine, Blank
<1>6. CASE Receive(m)
  <2>1. /\ q' = q /\ e.pkt_serial = d.pkt_serial /\ e.pc # "send"
        /\ e.finished \in {0, d.finished, d.pkt_serial}
    BY <1>6, ReceiveDoes
  <2>2. Blank(d) => e.codec = <<>>
    BY <1>6, ReceiveDoes DEF Blank
  <2>3. QED
    BY <1>4, <1>5, <2>1, <2>2
<1>7. CASE Send(m)
  <2>1. /\ q' = q /\ e.pkt_serial = d.pkt_serial /\ e.pc # "send"
        /\ e.finished \in {0, d.finished, d.pkt_serial} /\ d.pc = "send"
    BY <1>7, SendDoes
  <2>2. QED
    BY <1>4, <1>5, <2>1 DEF Blank
<1>8. CASE PushFrame(m)
  <2>1. /\ q' = q /\ e.pkt_serial = d.pkt_serial /\ e.pc # "send"
        /\ e.finished \in {0, d.finished, d.pkt_serial} /\ e.codec = d.codec
    BY <1>8, PushDoes
  <2>2. QED
    BY <1>4, <1>5, <2>1 DEF Blank
<1>9. CASE GetPacket(m)
  <2>1. CASE q' = q /\ e.pc = "end" /\ e.pkt_serial = d.pkt_serial
    <3>1. e.finished = d.finished
      BY <1>9, GetDoes
    <3>2. QED
      BY <1>4, <2>1, <3>1 DEF Runs
  <2>2. CASE /\ x.pkts # <<>> /\ q' = [q EXCEPT ![d.on] = Get(x)]
             /\ e.pkt_serial = Head(x.pkts).serial /\ e.finished = d.finished
             /\ e.pc = "get" \/ (e.pc = "send" /\ e.pkt = Head(x.pkts))
    <3> DEFINE y == Get(x)
    <3>1. /\ GoodQueue(y) /\ y.pkts = Tail(x.pkts) /\ y.serial = x.serial /\ y \in Queue
          /\ q'[e.on] = y
      BY <1>1, <2>2, GetGood DEF GoodQueue, Types
    <3>2. /\ 1 \in 1..Len(x.pkts) /\ Head(x.pkts) = x.pkts[1]
      BY <1>1, <2>2, Fields
    <3> HIDE DEF d, e, x, y
    <3>3. /\ \A i \in 1..Len(y.pkts) :
               /\ x.pkts[1].serial <= y.pkts[i].serial
               /\ y.pkts[i].kind = "flush" => x.pkts[1].serial < y.pkts[i].serial
          /\ NextInLine(e, y)
      BY <1>1, <2>2, <3>1, <3>2, TailMoves
    <3>4. /\ x.pkts[1].serial <= x.serial /\ d.pkt_serial <= x.pkts[1].serial
          /\ d.pkt_serial >= 0 /\ d.finished <= d.pkt_serial
      BY <1>1, <1>2, <3>2 DEF DecoderBehind, GoodQueue, SerialsOrdered
    <3>5. /\ e.pkt_serial = x.pkts[1].serial /\ e.pkt_serial >= 0
          /\ e.finished <= e.pkt_serial /\ e.pkt_serial <= y.serial
      BY <1>3, <2>2, <3>1, <3>2, <3>4
    <3>6. e.pc = "send" => e.pkt.serial = e.pkt_serial
      BY <2>2
    <3>7. DecoderBehind(e, y)
      BY <3>3, <3>5, <3>6 DEF DecoderBehind
    <3>8. QED
      BY <2>2, <3>1, <3>3, <3>7 DEF d, e, x
  <2>3. QED
    BY <1>9, <2>1, <2>2, GetDoes
<1>10. QED
  BY <1>6, <1>7, <1>8, <1>9 DEF DecoderStep

\* Steps of other threads.
LEMMA StaysEmpty ==
  ASSUME Types, Wired, QueuesGood, [Next]_vars, rd.pc = "mark", ~SeekMarkAudio,
         NEW s \in Ids, q[s].pkts = <<>>
  PROVE  q'[s].pkts = <<>>
<1>1. /\ \A t \in Ids : GoodQueue(q[t])
      /\ audioq \in Ids /\ Video \in Ids /\ q \in [Ids -> Queue]
  BY DEF QueuesGood, Types, Ids
<1>2. ASSUME NEW t \in Ids, NEW y, q' = [q EXCEPT ![t] = y], t # s \/ y.pkts = q[t].pkts
      PROVE  q'[s].pkts = <<>>
  BY <1>1, <1>2
<1>3. ~ReadStep
  BY DEF ReadStep, Top, SeekFlushAudio, SeekFlushVideo, SeekEnd, BuffersFull, Complete, Idle,
         ReadPacket, ReadEof, ReadError, Reading
<1>4. ASSUME NEW m \in Media, GetPacket(m)
      PROVE  q'[s].pkts = <<>>
  <2>1. /\ dec[m].on \in Ids
        /\ \/ q' = q
           \/ /\ q[dec[m].on].pkts # <<>>
              /\ q' = [q EXCEPT ![dec[m].on] = Get(q[dec[m].on])]
    BY <1>4, GetDoes
  <2>2. QED
    BY <1>1, <1>2, <2>1
<1>5. ASSUME NEW t \in Tracks, NEW selected \in BOOLEAN, SelectTrack(t, selected)
      PROVE  q'[s].pkts = <<>>
  <2>1. q' = q \/ q' = [q EXCEPT ![audioq] = Abort(q[audioq])]
    BY <1>5 DEF SelectTrack
  <2>2. Abort(q[audioq]).pkts = q[audioq].pkts
    BY <1>1, FlagsGood
  <2>3. QED
    BY <1>1, <1>2, <2>1, <2>2
<1>6. JoinDecoder \/ StartDecoder => q'[s].pkts = <<>>
  <2>1. JoinDecoder => q' = [q EXCEPT ![audioq] = Background(q[audioq])]
    BY DEF JoinDecoder, Wired
  <2>2. StartDecoder => q' = [q EXCEPT ![audioq] = Start(q[audioq], TRUE, Marker)]
    BY DEF StartDecoder
  <2>3. /\ Background(q[audioq]).pkts = q[audioq].pkts
        /\ Start(q[audioq], TRUE, Marker).pkts = q[audioq].pkts
    BY <1>1, FlagsGood
  <2>4. QED
    BY <1>1, <1>2, <2>1, <2>2, <2>3
<1>7. CloseStream => q'[s].pkts = <<>>
  <2>1. CloseStream => q'[s] = Abort(q[s])
    BY DEF CloseStream
  <2>2. QED
    BY <1>1, <2>1, FlagsGood
<1>8. JoinVideo => q'[s].pkts = <<>>
  <2>1. JoinVideo => q' = [q EXCEPT ![Video] = Flush(q[Video])]
    BY DEF JoinVideo
  <2>2. Flush(q[Video]).pkts = <<>>
    BY <1>1, FlushGood
  <2>3. QED
    BY <1>1, <2>1, <2>2
<1>9. QED
  BY <1>3, <1>4, <1>5, <1>6, <1>7, <1>8, Frames DEF ChangesQueues, ReadStep

LEMMA DecoderStays ==
  ASSUME Types, Wired, QueuesGood, [Next]_vars, NEW m \in Media
  PROVE  \/ dec'[m] = dec[m]
         \/ DecoderStep(m)
         \/ m = "A" /\ StartDecoder
<1>1. \A n \in Media : DecoderStep(n) => Others(n)
  BY DecoderDoes
<1>2. StartDecoder => Others("A")
  BY StartDoes
<1>3. QED
  BY <1>1, <1>2, Frames DEF ChangesDecoders, Others

LEMMA BareStays ==
  ASSUME Types, [Next]_vars, app.bare
  PROVE  app'.bare
BY Frames, SelectDoes, AppKeeps DEF ChangesApp

\* Who takes packets from the queue of a medium.
LEMMA TakesOwn ==
  ASSUME Types, Wired, QueuesGood
  PROVE  /\ Takes(Video) => GetPacket("V")
         /\ (Takes(audioq) /\ Runs("A")) => GetPacket("A")
<1>1. /\ Media = {"A", "V"} /\ audioq # Video
      /\ \A m \in Media : GetPacket(m) => Runs(m)
  BY GetDoes, StreamsAssumption DEF Types, Media, Runs
<1>2. QED
  BY <1>1 DEF Takes, Wired

LEMMA InLineKept ==
  ASSUME Types, Wired, QueuesGood, RingsWell, Feeding, InLine, [Next]_vars
  PROVE  InLine'
<1>1. /\ Media = {"A", "V"} /\ audioq \in Ids /\ Video \in Ids /\ audioq # Video
      /\ audioq \in Tracks
      /\ \A s \in Ids : GoodQueue(q[s]) /\ q[s] \in Queue /\ q'[s] \in Queue
      /\ \A m \in Media : dec[m] \in DecoderState
      /\ \A m \in Media : Runs(m) => dec[m].on \in Ids
  <2>1. \A m \in Media : Runs(m) => dec[m].on \in Ids
    BY DEF Wired, Media, Types, Ids
  <2>2. QED
    BY <2>1, Ranges, QueuesKept, StreamsAssumption DEF Types, QueuesGood, Ids, Media
<1>2. StartDecoder => /\ DecoderBehind(dec'["A"], q'[dec'["A"].on])
                      /\ Blank(dec'["A"])
  <2> DEFINE e == dec'["A"]
             x == q[audioq]
             y == q'[audioq]
  <2>1. SUFFICES ASSUME StartDecoder
                 PROVE  DecoderBehind(e, y) /\ Blank(e) /\ e.on = audioq
    OBVIOUS
  <2>2. e.on = audioq /\ e.pc = "top" /\ e.pkt_serial = 0 /\ e.codec = <<>> /\ e.finished = 0
    BY <2>1, StartDoes
  <2>3. y = Start(x, TRUE, Marker)
    BY <1>1, <2>1 DEF StartDecoder, Types
  <2>4. y.pkts = x.pkts /\ y.serial = x.serial /\ GoodQueue(x)
    <3>1. GoodQueue(x)
      BY <1>1
    <3> HIDE DEF x
    <3>2. /\ Start(x, TRUE, Marker).pkts = x.pkts
          /\ Start(x, TRUE, Marker).serial = x.serial
      BY <3>1, FlagsGood
    <3>3. QED
      BY <2>3, <3>1, <3>2
  <2> HIDE DEF x, y, e
  <2>5. y.serial >= 0 /\ \A i \in 1..Len(y.pkts) : y.pkts[i].serial >= 0
    BY <2>4 DEF GoodQueue
  <2>6. \A i \in 1..Len(y.pkts) : y.pkts[i].kind = "flush" => y.pkts[i].serial > 0
    BY <1>1, <2>4 DEF Feeding, x
  <2>7. DecoderBehind(e, y)
    BY <2>2, <2>5, <2>6, Fields DEF DecoderBehind
  <2>8. QED
    BY <2>2, <2>7 DEF Blank
<1>3. ASSUME NEW m \in Media, Runs(m)'
      PROVE  DecoderBehind(dec'[m], q'[dec'[m].on])
  <2>1. CASE DecoderStep(m)
    BY <2>1, OwnBehind
  <2>2. CASE dec'[m] = dec[m]
    <3>1. Runs(m) /\ dec[m].on \in Ids
      BY <1>1, <1>3, <2>2 DEF Runs
    <3>2. DecoderBehind(dec[m], q[dec[m].on]) /\ Later(q[dec[m].on], q'[dec[m].on])
      BY <3>1, QueueMoves DEF InLine, Moved
    <3>3. DecoderBehind(dec[m], q'[dec[m].on])
      BY <1>1, <3>1, <3>2, LaterBehind
    <3>4. QED
      BY <2>2, <3>3
  <2>3. QED
    BY <1>2, <2>1, <2>2, DecoderStays
<1>4. ASSUME Runs("V")', ~q'[Video].abort
      PROVE  NextInLine(dec'["V"], q'[Video])
  <2>1. ~q[Video].abort
    BY <1>1, <1>4, QueueMoves DEF Flagged
  <2>2. CASE DecoderStep("V")
    <3>1. Runs("V") /\ dec["V"].on = Video /\ dec'["V"].on = Video
      BY <1>1, <2>2, DecoderDoes DEF Wired
    <3>2. NextInLine(dec["V"], q[Video])
      BY <2>1, <3>1 DEF InLine
    <3>3. QED
      BY <1>1, <1>4, <2>2, <3>1, <3>2, OwnBehind
  <2>3. CASE dec'["V"] = dec["V"] /\ ~DecoderStep("V")
    <3>1. Runs("V") /\ dec["V"].on = Video /\ Video \in Opened
      BY <1>4, <2>3 DEF Runs, Wired
    <3>2. NextInLine(dec["V"], q[Video])
      BY <2>1, <3>1 DEF InLine
    <3>3. ~Takes(Video) /\ ~JoinVideo
      BY <2>3, <3>1, TakesOwn DEF DecoderStep, JoinVideo, Runs
    <3>4. CASE SeekFlushVideo
      <4> DEFINE x == Flush(q[Video])
      <4>1. q'[Video] = Put(x, Marker)
        BY <1>1, <3>1, <3>4 DEF SeekFlushVideo, Types
      <4>2. x \in Queue /\ x.pkts = <<>> /\ ~x.abort
            /\ \A i \in 1..Len(x.pkts) : x.pkts[i].serial <= x.serial
        BY <1>1, <2>1, FlushGood DEF GoodQueue, SerialsOrdered
      <4> HIDE DEF x
      <4>3. NextInLine(dec["V"], Put(x, Marker))
        BY <4>2, Packets, PutMoves
      <4>4. QED
        BY <2>3, <4>1, <4>3
    <3>5. CASE ~SeekFlushVideo
      <4>1. Steady(q[Video], q'[Video])
        BY <1>1, <3>3, <3>5, QueueMoves, StreamsAssumption
      <4>2. QED
        BY <2>3, <3>2, <4>1 DEF Steady
    <3>6. QED
      BY <3>4, <3>5
  <2>4. QED
    BY <1>1, <2>2, <2>3, DecoderStays
<1>5. ASSUME Runs("A")', ~q'[audioq'].abort, ~app'.bare
      PROVE  \/ NextInLine(dec'["A"], q'[audioq'])
             \/ rd'.pc = "mark" /\ q'[audioq'].pkts = <<>>
  <2>1. CASE StartDecoder
    BY <1>2, <2>1 DEF NextInLine
  <2>2. CASE ~StartDecoder
    <3>1. Runs("A") /\ audioStream # None /\ dec["A"].on = audioq /\ ~app.bare
          /\ audioStream = audioq
      <4>1. Runs("A")
        BY <1>1, <1>5, <2>2, DecoderStays, DecoderDoes DEF Runs
      <4>2. ~app.bare
        BY <1>5, BareStays
      <4>3. QED
        BY <4>1, <4>2 DEF Wired
    <3>2. audioq' = audioq
      BY <3>1, SwitchedEmpty
    <3>3. ~q[audioq].abort
      <4>1. ~JoinDecoder
        BY <3>1 DEF JoinDecoder, Runs
      <4>2. QED
        BY <1>1, <1>5, <2>2, <3>2, <4>1, QueueMoves DEF Flagged
    <3>4. \/ NextInLine(dec["A"], q[audioq])
          \/ rd.pc = "mark" /\ q[audioq].pkts = <<>>
      BY <3>1, <3>3 DEF InLine
    <3>5. CASE DecoderStep("A")
      <4>1. dec'["A"].on = audioq /\ UNCHANGED rd
        BY <1>1, <3>1, <3>5, DecoderDoes
      <4>2. CASE NextInLine(dec["A"], q[audioq])
        BY <1>1, <1>5, <3>1, <3>2, <3>5, <4>1, <4>2, OwnBehind
      <4>3. CASE rd.pc = "mark" /\ q[audioq].pkts = <<>>
        BY <1>1, <3>1, <3>2, <3>5, <4>1, <4>3, OwnBehind
      <4>4. QED
        BY <3>4, <4>2, <4>3
    <3>6. CASE dec'["A"] = dec["A"] /\ ~DecoderStep("A")
      <4>1. ~Takes(audioq)
        BY <3>1, <3>6, TakesOwn DEF DecoderStep
      <4>2. CASE SeekFlushAudio
        <5>1. q' = [q EXCEPT ![audioq] = Flush(q[audioq])] /\ rd' = [rd EXCEPT !.pc = "mark"]
          BY <3>1, <4>2 DEF SeekFlushAudio, RdGoto
        <5>2. q'[audioq].pkts = <<>> /\ rd'.pc = "mark"
          BY <1>1, <5>1, FlushGood DEF Types, ReadState
        <5>3. QED
          BY <3>2, <5>2
      <4>3. CASE ~SeekFlushAudio
        <5>1. Steady(q[audioq], q'[audioq])
          BY <1>1, <3>1, <4>1, <4>3, QueueMoves
        <5>2. CASE NextInLine(dec["A"], q[audioq])
          BY <3>2, <3>6, <5>1, <5>2 DEF Steady
        <5>3. CASE rd.pc = "mark" /\ q[audioq].pkts = <<>> /\ SeekMarkAudio
          <6> DEFINE x == q[audioq]
          <6>1. q'[audioq] = Put(x, Marker)
            BY <1>1, <5>3 DEF SeekMarkAudio, Types
          <6>2. x \in Queue /\ x.pkts = <<>> /\ ~x.abort
                /\ \A i \in 1..Len(x.pkts) : x.pkts[i].serial <= x.serial
            BY <1>1, <3>3, <5>3 DEF GoodQueue, SerialsOrdered
          <6> HIDE DEF x
          <6>3. NextInLine(dec["A"], Put(x, Marker))
            BY <6>2, Packets, PutMoves
          <6>4. QED
            BY <3>2, <3>6, <6>1, <6>3
        <5>4. CASE rd.pc = "mark" /\ q[audioq].pkts = <<>> /\ ~SeekMarkAudio
          BY <1>1, <3>2, <5>4, StaysEmpty, ReaderMoves
        <5>5. QED
          BY <3>4, <5>2, <5>3, <5>4
      <4>4. QED
        BY <4>2, <4>3
    <3>7. QED
      BY <1>1, <2>2, <3>5, <3>6, DecoderStays
  <2>3. QED
    BY <2>1, <2>2
<1>6. QED
  BY <1>3, <1>4, <1>5 DEF InLine

(***************************************************************************)
(* Once the marker of a seek is in a queue, what carries the serial of     *)
(* that queue was read after the seek.                                     *)
(***************************************************************************)
VideoMarked == rd.pc \notin {"flush", "mark", "video"} /\ ~q[Video].abort
AudioMarked ==
  audioq \notin stale /\ rd.pc # "mark" /\ ~q[audioq].abort /\ ~app.bare

QueuesFresh ==
  /\ rd.pc = "flush" => Opened \cap Tracks \subseteq stale
  /\ \A s \in Tracks \ stale : FreshAt(q[s], epoch)
  /\ VideoMarked => FreshAt(q[Video], epoch)
DecodersFresh ==
  /\ (VideoMarked /\ Runs("V")) => DecoderFresh(dec["V"], q[Video], epoch)
  /\ (AudioMarked /\ Runs("A")) => DecoderFresh(dec["A"], q[audioq], epoch)
FramesFresh ==
  /\ VideoMarked => \A k \in Places(ring["V"]) : FrameFresh(At(ring["V"], k), q[Video], epoch)
  /\ (AudioMarked /\ ~q[audioq].background) =>
       /\ \A k \in Places(ring["A"]) :
            At(ring["A"], k) # NoFrame => FrameFresh(At(ring["A"], k), q[audioq], epoch)
       /\ HasFrame => FrameFresh(Given, q[audioq], epoch)
Fresh == QueuesFresh /\ DecodersFresh /\ FramesFresh

\* Which steps carry a seek out and mark the queues.
LEMMA SeekMoves ==
  ASSUME Types, Wired, QueuesGood, Feeding, [Next]_vars
  PROVE  /\ \/ epoch' = epoch
            \/ Top /\ rd'.pc = "flush" /\ stale' = Opened \cap Tracks
         /\ \/ stale' = stale
            \/ Top /\ rd'.pc = "flush" /\ stale' = Opened \cap Tracks
            \/ SeekFlushAudio /\ audioStream # None /\ rd'.pc = "mark"
                 /\ stale' = stale \ {audioq}
            \/ SeekMarkAudio /\ ~q[audioq].abort /\ stale' = stale \ {audioq}
<1>1. rd \in ReadState
  BY DEF Types
<1>2. Top => \/ UNCHANGED <<epoch, stale>>
             \/ Top /\ rd'.pc = "flush" /\ stale' = Opened \cap Tracks
  BY ReaderMoves
<1>3. SeekFlushAudio =>
        /\ epoch' = epoch
        /\ stale' = stale \/ (audioStream # None /\ rd'.pc = "mark" /\ stale' = stale \ {audioq})
  BY <1>1 DEF SeekFlushAudio, RdGoto, ReadState
<1>4. SeekMarkAudio =>
        /\ epoch' = epoch
        /\ stale' = stale \/ (~q[audioq].abort /\ stale' = stale \ {audioq})
  BY DEF SeekMarkAudio
<1>5. QED
  BY <1>2, <1>3, <1>4, Frames

LEMMA VideoMarks ==
  ASSUME Types, Wired, QueuesGood, Feeding, [Next]_vars, VideoMarked'
  PROVE  /\ epoch' = epoch /\ ~q[Video].abort
         /\ \/ VideoMarked
            \/ SeekFlushVideo /\ q'[Video] = Put(Flush(q[Video]), Marker)
<1>1. Video \in Ids /\ Video # audioq /\ q \in [Ids -> Queue]
  BY StreamsAssumption DEF Ids, Types
<1>2. ~q[Video].abort
  BY <1>1, QueueMoves DEF VideoMarked, Flagged
<1>3. rd'.pc \notin {"flush", "mark", "video"}
  BY DEF VideoMarked
<1>4. epoch' = epoch
  BY <1>3, SeekMoves
<1>5. VideoMarked \/ SeekFlushVideo
  BY <1>2, <1>3, ReaderMoves DEF VideoMarked
<1>6. SeekFlushVideo => q'[Video] = Put(Flush(q[Video]), Marker)
  <2>1. Video \in Opened
    BY <1>2 DEF Feeding
  <2>2. QED
    BY <1>1, <2>1 DEF SeekFlushVideo
<1>7. QED
  BY <1>2, <1>4, <1>5, <1>6

\* Sound that is being opened or closed aside, a queue that is marked was so
\* before, or gets its marker.
AudioRests == \/ audioStream = None \/ app.pc = "start"
LEMMA AudioMarks ==
  ASSUME Types, Wired, QueuesGood, RingsWell, Feeding, [Next]_vars, AudioMarked',
         ~AudioRests', ~StartDecoder, ~JoinDecoder
  PROVE  /\ epoch' = epoch /\ audioq' = audioq /\ audioStream # None
         /\ app.pc # "start" /\ ~q[audioq].abort /\ ~app.bare /\ dec["A"].on = audioq
         /\ q'[audioq].background = FALSE => ~q[audioq].background
         /\ \/ AudioMarked
            \/ SeekMarkAudio /\ q'[audioq] = Put(q[audioq], Marker)
<1>1. audioq \in Ids /\ Video # audioq /\ q \in [Ids -> Queue]
  BY StreamsAssumption DEF Ids, Types
<1>2. audioStream # None /\ app.pc # "start"
  <2>1. ~OpenAout
    BY AppMoves DEF AudioRests
  <2>2. audioStream' = audioStream \/ audioStream' = None
    BY <2>1, Frames DEF CloseAout, JoinAudio
  <2>3. audioStream # None
    BY <2>2 DEF AudioRests
  <2>4. app.pc = "start" => app'.pc = "start" \/ app' = app \/ StartDecoder
    BY Frames DEF ChangesApp, SelectTrack, CloseStream, AppGoesOn, JoinDecoder, ResetSampq,
                  CloseAout, SetActive, OpenAout, JoinRead, JoinAudio, JoinVideo
  <2>5. QED
    BY <2>3, <2>4 DEF AudioRests
<1>3. audioq' = audioq /\ audioq \in Opened /\ ~app.bare /\ dec["A"].on = audioq
  BY <1>2, SwitchedEmpty, BareStays DEF Wired, AudioMarked
<1>4. Flagged(q[audioq], q'[audioq])
  BY <1>1, QueueMoves
<1>5. ~q[audioq].abort /\ (q'[audioq].background = FALSE => ~q[audioq].background)
  BY <1>3, <1>4 DEF AudioMarked, Flagged
<1>6. ~(stale' = Opened \cap Tracks) /\ rd'.pc # "mark"
  BY <1>3 DEF AudioMarked, Types
<1>7. epoch' = epoch
  BY <1>6, SeekMoves
<1>8. AudioMarked \/ SeekMarkAudio
  <2>1. stale' = stale \/ SeekMarkAudio
    BY <1>6, SeekMoves
  <2>2. rd.pc # "mark" \/ SeekMarkAudio
    BY <1>6, ReaderMoves
  <2>3. QED
    BY <1>3, <1>5, <2>1, <2>2 DEF AudioMarked
<1>9. SeekMarkAudio => q'[audioq] = Put(q[audioq], Marker)
  BY <1>1 DEF SeekMarkAudio
<1>10. QED
  BY <1>2, <1>3, <1>5, <1>7, <1>8, <1>9

LEMMA QueuesFreshKept ==
  ASSUME Types, Wired, QueuesGood, RingsWell, Feeding, Feeding', QueuesFresh, [Next]_vars
  PROVE  QueuesFresh'
<1>1. /\ Opened' = Opened /\ Video \in Ids /\ Tracks \subseteq Ids /\ audioq \in Tracks
      /\ q \in [Ids -> Queue]
      /\ \A s \in Ids : GoodQueue(q[s]) /\ Moved(q[s], q'[s]) /\ q'[s] \in Queue
  BY Frames, QueueMoves, QueuesKept DEF Opened, Ids, Types, QueuesGood
<1>2. rd'.pc = "flush" => Opened' \cap Tracks \subseteq stale'
  BY <1>1, ReaderMoves, SeekMoves DEF QueuesFresh, SeekMarkAudio
<1>3. ASSUME NEW s \in Tracks \ stale'
      PROVE  FreshAt(q'[s], epoch')
  <2>1. CASE s \notin Opened
    BY <1>1, <1>3, <2>1, EmptyMoves DEF Feeding
  <2>2. CASE s \in Opened
    <3>1. epoch' = epoch
      BY <1>3, <2>2, SeekMoves
    <3>2. CASE s \notin stale
      BY <1>1, <1>3, <3>1, <3>2 DEF QueuesFresh, Moved
    <3>3. CASE s \in stale
      <4>1. /\ s = audioq
            /\ \/ SeekFlushAudio /\ audioStream # None
               \/ SeekMarkAudio /\ ~q[audioq].abort
        BY <1>1, <1>3, <2>2, <3>3, SeekMoves
      <4>2. CASE SeekFlushAudio /\ audioStream # None
        <5>1. q'[audioq] = Flush(q[audioq])
          BY <1>1, <4>2 DEF SeekFlushAudio
        <5>2. q'[audioq].pkts = <<>>
          BY <1>1, <5>1, FlushGood
        <5>3. QED
          BY <1>1, <4>1, <5>2, EmptyMoves
      <4>3. CASE SeekMarkAudio /\ ~q[audioq].abort
        <5> DEFINE x == q[audioq]
        <5>1. q'[audioq] = Put(x, Marker)
          BY <1>1, <4>3 DEF SeekMarkAudio
        <5>2. x \in Queue /\ ~x.abort /\ \A i \in 1..Len(x.pkts) : x.pkts[i].serial <= x.serial
          BY <1>1, <4>3 DEF GoodQueue, SerialsOrdered
        <5> HIDE DEF x
        <5>3. FreshAt(Put(x, Marker), epoch)
          BY <5>2, Packets, PutMoves
        <5>4. QED
          BY <3>1, <4>1, <5>1, <5>3
      <4>4. QED
        BY <4>1, <4>2, <4>3
    <3>4. QED
      BY <3>2, <3>3
  <2>3. QED
    BY <2>1, <2>2
<1>4. ASSUME VideoMarked'
      PROVE  FreshAt(q'[Video], epoch')
  <2>1. epoch' = epoch /\ ~q[Video].abort
    BY <1>4, VideoMarks
  <2>2. CASE VideoMarked
    BY <1>1, <2>1, <2>2 DEF QueuesFresh, Moved
  <2>3. CASE q'[Video] = Put(Flush(q[Video]), Marker)
    <3> DEFINE x == Flush(q[Video])
    <3>1. x \in Queue /\ ~x.abort /\ \A i \in 1..Len(x.pkts) : x.pkts[i].serial <= x.serial
      BY <1>1, <2>1, FlushGood DEF GoodQueue, SerialsOrdered
    <3>2. q'[Video] = Put(x, Marker)
      BY <2>3
    <3> HIDE DEF x
    <3>3. FreshAt(Put(x, Marker), epoch)
      BY <3>1, Packets, PutMoves
    <3>4. QED
      BY <2>1, <3>2, <3>3
  <2>4. QED
    BY <1>4, <2>2, <2>3, VideoMarks
<1>5. QED
  BY <1>2, <1>3, <1>4 DEF QueuesFresh

\* The decoder of m makes a step of its own on a queue that is marked.
LEMMA OwnFresh ==
  ASSUME Types, Wired, QueuesGood, InLine, NEW m \in Media, DecoderStep(m), Runs(m)',
         DecoderFresh(dec[m], q[dec[m].on], epoch), FreshAt(q[dec[m].on], epoch),
         NextInLine(dec[m], q[dec[m].on])
  PROVE  DecoderFresh(dec'[m], q'[dec[m].on], epoch)
<1> DEFINE d == dec[m]
           e == dec'[m]
           x == q[d.on]
           y == q'[d.on]
<1>1. /\ d \in DecoderState /\ e \in DecoderState /\ d.on \in Ids
      /\ Runs(m) /\ GoodQueue(x) /\ x \in Queue /\ DecoderBehind(d, x)
  <2>1. Runs(m) /\ dec' \in [Media -> DecoderState]
    BY DecoderDoes
  <2>2. d.on \in Ids
    BY <2>1 DEF Wired, Media, Types, Ids
  <2>3. QED
    BY <2>1, <2>2, Ranges DEF QueuesGood, GoodQueue, InLine
<1>2. d.codec \in Seq(Sample) /\ e.codec \in Seq(Sample) /\ DecoderFresh(d, x, epoch)
  BY <1>1, DecoderFields
<1>3. ASSUME y = x, e.pkt_serial = d.pkt_serial, e.pc \notin {"send", "push"},
             ~(d.pc = "send" /\ d.pkt.kind = "flush"),
             \A i \in 1..Len(e.codec) : \E j \in 1..Len(d.codec) : e.codec[i] = d.codec[j]
      PROVE  DecoderFresh(e, y, epoch)
  BY <1>3 DEF DecoderFresh
<1>4. CASE Receive(m)
  <2>1. /\ y = x /\ e.pkt_serial = d.pkt_serial /\ d.pc = "top" /\ e.pc # "send"
    BY <1>4, ReceiveDoes
  <2>2. CASE /\ e.pc = "push" /\ d.codec # <<>>
             /\ e.frame = Head(d.codec) /\ e.codec = Tail(d.codec)
    <3>1. /\ 1 \in 1..Len(d.codec) /\ e.frame = d.codec[1]
          /\ \A i \in 1..Len(e.codec) : i + 1 \in 1..Len(d.codec) /\ e.codec[i] = d.codec[i + 1]
      BY <1>2, <2>2
    <3> HIDE DEF d, e, x, y
    <3>2. DecoderFresh(e, y, epoch)
      BY <1>2, <2>1, <2>2, <3>1 DEF DecoderFresh
    <3>3. QED
      BY <3>2 DEF d, e, y
  <2>3. CASE e.pc \in {"get", "end", "top"} /\ e.codec = d.codec
    BY <1>3, <2>1, <2>3
  <2>4. QED
    BY <1>4, <2>2, <2>3, ReceiveDoes
<1>5. CASE Send(m)
  <2>1. /\ y = x /\ e.pkt_serial = d.pkt_serial /\ d.pc = "send"
        /\ e.pc \in {"get", "top"} /\ (e.pc = "get" => x.serial # d.pkt_serial)
    BY <1>5, SendDoes
  <2>2. CASE e.pc = "get"
    BY <2>1, <2>2 DEF DecoderFresh
  <2>3. CASE e.pc = "top" /\ d.pkt.kind = "flush" /\ e.codec = <<>>
    <3>1. Len(e.codec) = 0
      <4>1. Len(<<>>) = 0
        OBVIOUS
      <4>2. QED
        BY <2>3, <4>1, Zenon
    <3>2. QED
      BY <2>1, <2>3, <3>1 DEF DecoderFresh
  <2>4. CASE /\ e.pc = "top" /\ d.pkt.kind = "data"
             /\ e.codec = Append(d.codec, [epoch |-> d.pkt.epoch, pos |-> d.pkt.pos])
    <3> DEFINE last == [epoch |-> d.pkt.epoch, pos |-> d.pkt.pos]
    <3>1. last.epoch = d.pkt.epoch /\ e.codec = Append(d.codec, last)
      BY <2>4
    <3> HIDE DEF last
    <3>2. \A i \in 1..Len(e.codec) :
            \/ i \in 1..Len(d.codec) /\ e.codec[i] = d.codec[i]
            \/ e.codec[i] = last
      BY <1>2, <3>1
    <3> HIDE DEF d, e, x, y
    <3>3. DecoderFresh(e, y, epoch)
      BY <1>2, <2>1, <2>4, <3>1, <3>2 DEF DecoderFresh
    <3>4. QED
      BY <3>3 DEF d, e, y
  <2>5. CASE e.pc = "top" /\ d.pkt.kind = "null" /\ e.codec = d.codec
    BY <1>3, <2>1, <2>5
  <2>6. QED
    BY <1>5, <2>2, <2>3, <2>4, <2>5, SendDoes
<1>6. CASE PushFrame(m)
  <2>1. /\ y = x /\ e.pkt_serial = d.pkt_serial /\ d.pc = "push" /\ e.codec = d.codec
        /\ e.pc \in {"end", "top"}
    BY <1>6, PushDoes
  <2>2. QED
    BY <1>3, <2>1
<1>7. CASE GetPacket(m)
  <2>1. d.pc = "get" /\ e.codec = d.codec /\ e.pc # "end"
    BY <1>7, GetDoes DEF Runs
  <2>2. /\ x.pkts # <<>> /\ q' = [q EXCEPT ![d.on] = Get(x)]
        /\ e.pkt_serial = Head(x.pkts).serial
        /\ \/ e.pc = "get" /\ d.finished = Head(x.pkts).serial
           \/ e.pc = "send" /\ e.pkt = Head(x.pkts)
    BY <1>7, <2>1, GetDoes
  <2>3. /\ y.serial = x.serial /\ 1 \in 1..Len(x.pkts) /\ Head(x.pkts) = x.pkts[1]
    BY <1>1, <2>2, GetGood, Fields DEF Types
  <2>4. /\ d.pkt_serial <= x.pkts[1].serial /\ d.finished <= d.pkt_serial
        /\ d.pkt_serial \in Int /\ d.finished \in Int /\ x.pkts[1].serial \in Int
    BY <1>1, <2>3, Fields, DecoderFields DEF DecoderBehind
  <2>5. SUFFICES ASSUME e.pkt_serial = y.serial
                 PROVE  /\ e.pc = "send" => e.pkt.epoch = epoch
                        /\ ~(e.pc = "send" /\ e.pkt.kind = "flush") =>
                             \A i \in 1..Len(e.codec) : e.codec[i].epoch = epoch
    BY <2>2 DEF DecoderFresh
  <2>6. x.pkts[1].serial = x.serial /\ x.pkts[1].epoch = epoch
    BY <2>2, <2>3, <2>5 DEF FreshAt
  <2>7. d.pkt_serial = x.serial => \A i \in 1..Len(e.codec) : e.codec[i].epoch = epoch
    BY <2>1 DEF DecoderFresh
  <2>8. CASE e.pc = "get"
    <3>1. d.pkt_serial = x.serial
      BY <2>2, <2>3, <2>4, <2>6, <2>8
    <3>2. QED
      BY <2>7, <2>8, <3>1
  <2>9. CASE e.pc = "send" /\ e.pkt = x.pkts[1]
    <3>1. CASE d.codec = <<>>
      <4>1. Len(<<>>) = 0
        OBVIOUS
      <4>2. Len(e.codec) = 0
        BY <2>1, <3>1, <4>1, Zenon
      <4>3. QED
        BY <2>6, <2>9, <4>2
    <3>2. CASE d.codec # <<>>
      <4>1. x.pkts[1].kind # "flush" => x.pkts[1].serial = d.pkt_serial
        BY <2>2, <3>2 DEF NextInLine, Blank
      <4>2. QED
        BY <2>6, <2>7, <2>9, <4>1
    <3>3. QED
      BY <3>1, <3>2
  <2>10. QED
    BY <2>2, <2>3, <2>8, <2>9
<1>8. QED
  BY <1>4, <1>5, <1>6, <1>7 DEF DecoderStep

LEMMA DecodersFreshKept ==
  ASSUME Types, Wired, Wired', QueuesGood, RingsWell, Feeding, InLine, QueuesFresh,
         DecodersFresh, [Next]_vars
  PROVE  DecodersFresh'
<1>1. /\ Media = {"A", "V"} /\ Video \in Ids /\ audioq \in Ids /\ audioq \in Tracks
      /\ Video # audioq
      /\ \A s \in Ids : /\ GoodQueue(q[s]) /\ q[s] \in Queue /\ q[s].serial \in Int
                        /\ q'[s].serial \in Int /\ q[s].serial <= q'[s].serial
      /\ \A m \in Media : dec[m].pkt_serial \in Int
  BY Ranges, QueuesKept, QueueMoves, Fields, DecoderFields, StreamsAssumption
     DEF Types, QueuesGood, Ids, Moved, Later
<1>2. ASSUME NEW m \in Media, NEW s \in Ids, ~q[s].abort, q'[s] = Put(q[s], Marker),
             dec'[m] = dec[m], Runs(m), dec[m].on = s
      PROVE  dec'[m].pkt_serial < q'[s].serial
  <2> DEFINE x == q[s]
  <2>1. x \in Queue /\ \A i \in 1..Len(x.pkts) : x.pkts[i].serial <= x.serial
    BY <1>1 DEF GoodQueue, SerialsOrdered
  <2>2. x.serial \in Int /\ dec[m].pkt_serial <= x.serial
    BY <1>1, <1>2 DEF InLine, DecoderBehind
  <2>3. q'[s] = Put(x, Marker) /\ ~x.abort
    BY <1>2
  <2> HIDE DEF x
  <2>4. Put(x, Marker).serial = x.serial + 1
    BY <2>1, <2>3, Packets, PutMoves
  <2>5. QED
    BY <1>1, <1>2, <2>2, <2>3, <2>4
<1>3. ASSUME NEW m \in Media, NEW s \in Ids, dec'[m] = dec[m], Runs(m), dec[m].on = s,
             DecoderFresh(dec[m], q[s], epoch)
      PROVE  DecoderFresh(dec'[m], q'[s], epoch)
  <2>1. dec[m].pkt_serial <= q[s].serial
    BY <1>3 DEF InLine, DecoderBehind
  <2>2. dec[m].pkt_serial = q'[s].serial => dec[m].pkt_serial = q[s].serial
    BY <1>1, <2>1
  <2>3. QED
    BY <1>3, <2>2 DEF DecoderFresh
<1>4. ASSUME VideoMarked', Runs("V")'
      PROVE  DecoderFresh(dec'["V"], q'[Video], epoch')
  <2>1. epoch' = epoch /\ ~q[Video].abort
    BY <1>4, VideoMarks
  <2>2. Runs("V") /\ dec["V"].on = Video
    <3>1. Runs("V")
      BY <1>1, <1>4, DecoderStays, DecoderDoes DEF Runs
    <3>2. QED
      BY <3>1 DEF Wired
  <2>3. CASE SeekFlushVideo /\ q'[Video] = Put(Flush(q[Video]), Marker)
    <3> DEFINE x == Flush(q[Video])
    <3>1. /\ x \in Queue /\ ~x.abort /\ x.serial = q[Video].serial
          /\ \A i \in 1..Len(x.pkts) : x.pkts[i].serial <= x.serial
      BY <1>1, <2>1, FlushGood DEF GoodQueue, SerialsOrdered
    <3>2. q'[Video] = Put(x, Marker)
      BY <2>3
    <3> HIDE DEF x
    <3>3. q'[Video].serial = q[Video].serial + 1
      <4>1. Put(x, Marker).serial = x.serial + 1
        BY <3>1, Packets, PutMoves
      <4>2. QED
        BY <3>1, <3>2, <4>1
    <3>4. dec'["V"] = dec["V"] /\ dec["V"].pkt_serial <= q[Video].serial
      BY <1>1, <2>2, <2>3 DEF SeekFlushVideo, InLine, DecoderBehind
    <3>5. dec'["V"].pkt_serial # q'[Video].serial
      BY <1>1, <3>3, <3>4
    <3>6. QED
      BY <3>5 DEF DecoderFresh
  <2>4. CASE VideoMarked
    <3>1. /\ DecoderFresh(dec["V"], q[Video], epoch) /\ FreshAt(q[Video], epoch)
          /\ NextInLine(dec["V"], q[Video])
      BY <2>2, <2>4 DEF DecodersFresh, QueuesFresh, InLine, VideoMarked
    <3>2. CASE DecoderStep("V")
      BY <1>1, <1>4, <2>1, <2>2, <3>1, <3>2, OwnFresh
    <3>3. CASE dec'["V"] = dec["V"]
      BY <1>1, <1>3, <2>1, <2>2, <3>1, <3>3
    <3>4. QED
      BY <1>1, <3>2, <3>3, DecoderStays
  <2>5. QED
    BY <1>4, <2>3, <2>4, VideoMarks
<1>5. ASSUME AudioMarked', Runs("A")'
      PROVE  DecoderFresh(dec'["A"], q'[audioq'], epoch')
  <2>1. CASE StartDecoder
    <3>1. dec'["A"].pc = "top" /\ dec'["A"].codec = <<>> /\ Len(<<>>) = 0
      BY <2>1, StartDoes
    <3>2. Len(dec'["A"].codec) = 0
      BY <3>1, Zenon
    <3>3. QED
      BY <3>1, <3>2 DEF DecoderFresh
  <2>2. CASE ~StartDecoder
    <3>1. ~JoinDecoder /\ Runs("A") /\ ~AudioRests'
      <4>1. Runs("A")
        BY <1>1, <1>5, <2>2, DecoderStays, DecoderDoes DEF Runs
      <4>2. ~AudioRests'
        BY <1>5 DEF Wired, AudioRests
      <4>3. QED
        BY <4>1, <4>2 DEF JoinDecoder, Runs
    <3>2. /\ epoch' = epoch /\ audioq' = audioq /\ ~q[audioq].abort /\ ~app.bare
          /\ dec["A"].on = audioq
      BY <1>5, <2>2, <3>1, AudioMarks
    <3>3. CASE SeekMarkAudio /\ q'[audioq] = Put(q[audioq], Marker)
      <4>1. dec'["A"] = dec["A"]
        BY <3>3 DEF SeekMarkAudio
      <4>2. dec'["A"].pkt_serial # q'[audioq].serial
        BY <1>1, <1>2, <3>1, <3>2, <3>3, <4>1
      <4>3. QED
        BY <3>2, <4>2 DEF DecoderFresh
    <3>4. CASE AudioMarked
      <4>1. /\ DecoderFresh(dec["A"], q[audioq], epoch) /\ FreshAt(q[audioq], epoch)
            /\ NextInLine(dec["A"], q[audioq])
        BY <1>1, <3>1, <3>2, <3>4 DEF DecodersFresh, QueuesFresh, InLine, AudioMarked
      <4>2. CASE DecoderStep("A")
        BY <1>1, <1>5, <3>1, <3>2, <4>1, <4>2, OwnFresh
      <4>3. CASE dec'["A"] = dec["A"]
        BY <1>1, <1>3, <3>1, <3>2, <4>1, <4>3
      <4>4. QED
        BY <1>1, <2>2, <4>2, <4>3, DecoderStays
    <3>5. QED
      BY <1>5, <2>2, <3>1, <3>3, <3>4, AudioMarks
  <2>3. QED
    BY <2>1, <2>2
<1>6. QED
  BY <1>4, <1>5 DEF DecodersFresh

(***************************************************************************)
(* The frames: those that are held come before the marker, and one that is *)
(* pushed is as fresh as its decoder.                                      *)
(***************************************************************************)
LEMMA FramesFreshKept ==
  ASSUME Types, Wired, Wired', QueuesGood, RingsWell, RingsWell', FramesPlaced, Feeding,
         Feeding', InLine, SerialsHeld, DecodersFresh, FramesFresh, [Next]_vars
  PROVE  FramesFresh'
<1>1. /\ Media = {"A", "V"} /\ Video \in Ids /\ audioq \in Ids /\ Video # audioq
      /\ \A s \in Ids : /\ GoodQueue(q[s]) /\ q[s] \in Queue /\ q[s].serial \in Int
                        /\ q'[s].serial \in Int /\ q[s].serial <= q'[s].serial
      /\ q \in [Ids -> Queue]
  BY Ranges, QueuesKept, QueueMoves, Fields, StreamsAssumption
     DEF Types, QueuesGood, Ids, Moved, Later, Media
\* A marker leaves the frames behind.
<1>2. ASSUME NEW s \in Ids, ~q[s].abort,
             q'[s] = Put(q[s], Marker) \/ q'[s] = Put(Flush(q[s]), Marker)
      PROVE  q[s].serial < q'[s].serial
  <2>1. ASSUME NEW x, GoodQueue(x), ~x.abort, x.serial = q[s].serial, q'[s] = Put(x, Marker)
        PROVE  q[s].serial < q'[s].serial
    <3>1. x \in Queue /\ \A i \in 1..Len(x.pkts) : x.pkts[i].serial <= x.serial
      BY <2>1 DEF GoodQueue, SerialsOrdered
    <3>2. Put(x, Marker).serial = x.serial + 1
      BY <2>1, <3>1, Packets, PutMoves
    <3>3. QED
      BY <1>1, <2>1, <3>2
  <2>2. GoodQueue(Flush(q[s])) /\ ~Flush(q[s]).abort /\ Flush(q[s]).serial = q[s].serial
    BY <1>1, <1>2, FlushGood
  <2>3. QED
    BY <1>1, <1>2, <2>1, <2>2
<1>3. ASSUME NEW s \in Ids, NEW f \in Frame, f.serial <= q[s].serial, q[s].serial < q'[s].serial,
             NEW e
      PROVE  FrameFresh(f, q'[s], e)
  BY <1>1, <1>3, HeldTypes DEF FrameFresh
<1>4. ASSUME NEW s \in Ids, NEW f \in Frame, f.serial <= q[s].serial,
             FrameFresh(f, q[s], epoch)
      PROVE  FrameFresh(f, q'[s], epoch)
  BY <1>1, <1>4, HeldTypes DEF FrameFresh
\* A frame that is pushed is one that the decoder has just taken from the codec.
<1>5. ASSUME NEW m \in Media, PushFrame(m), NEW s \in Ids, dec[m].on = s,
             DecoderFresh(dec[m], q[s], epoch)
      PROVE  /\ Decoded(dec[m]) \in Frame /\ Decoded(dec[m]).serial <= q[s].serial
             /\ FrameFresh(Decoded(dec[m]), q[s], epoch)
  <2>1. dec[m].pc = "push" /\ Runs(m) /\ Decoded(dec[m]) \in Frame
    BY <1>5, PushDoes DEF Runs
  <2>2. /\ Decoded(dec[m]).serial = dec[m].pkt_serial
        /\ Decoded(dec[m]).epoch = dec[m].frame.epoch
    BY DEF Decoded
  <2>3. dec[m].pkt_serial <= q[s].serial
    BY <1>5, <2>1 DEF InLine, DecoderBehind
  <2>4. QED
    BY <1>5, <2>1, <2>2, <2>3 DEF DecoderFresh, FrameFresh
<1> HIDE DEF Decoded
<1>6. ASSUME VideoMarked', NEW k \in Places(ring'["V"])
      PROVE  FrameFresh(At(ring'["V"], k), q'[Video], epoch')
  <2>1. epoch' = epoch /\ ~q[Video].abort
    BY <1>6, VideoMarks
  <2>2. \A j \in Places(ring["V"]) :
          At(ring["V"], j) \in Frame /\ At(ring["V"], j).serial <= q[Video].serial
    BY DEF FramesPlaced, SerialsHeld
  <2>3. CASE SeekFlushVideo /\ q'[Video] = Put(Flush(q[Video]), Marker)
    <3>1. ring' = ring
      BY <2>3 DEF SeekFlushVideo
    <3>2. QED
      BY <1>1, <1>2, <1>3, <1>6, <2>1, <2>2, <2>3, <3>1
  <2>4. CASE VideoMarked
    <3>1. CASE PushFrame("V") /\ At(ring'["V"], k) = Decoded(dec["V"])
      <4>1. Runs("V") /\ dec["V"].on = Video
        BY <1>1, <3>1, PushDoes DEF Runs, Wired
      <4>2. DecoderFresh(dec["V"], q[Video], epoch)
        BY <2>4, <4>1 DEF DecodersFresh
      <4>3. QED
        BY <1>1, <1>4, <1>5, <2>1, <3>1, <4>1, <4>2
    <3>2. CASE \E j \in Places(ring["V"]) : At(ring'["V"], k) = At(ring["V"], j)
      BY <1>1, <1>4, <2>1, <2>2, <2>4, <3>2 DEF FramesFresh
    <3>3. QED
      BY <1>6, <3>1, <3>2, HeldMoves
  <2>5. QED
    BY <1>6, <2>3, <2>4, VideoMarks
<1>7. ASSUME AudioMarked', ~q'[audioq'].background
      PROVE  /\ \A k \in Places(ring'["A"]) :
                  At(ring'["A"], k) # NoFrame => FrameFresh(At(ring'["A"], k), q'[audioq'], epoch')
             /\ HasFrame' => FrameFresh(Given', q'[audioq'], epoch')
  <2>1. ASSUME ring'["A"].size <= 0, cb'.pc \in {"closed", "idle"}
        PROVE  Places(ring'["A"]) = {} /\ ~HasFrame'
    <3>1. ring'["A"] \in Ring
      BY <1>1, RingsKept
    <3>2. QED
      BY <2>1, <3>1, RingFields DEF Places, Slots, HasFrame
  <2>2. CASE AudioRests'
    <3>1. ring'["A"].size <= 0
      BY <2>2 DEF AudioRests, RingsWell
    <3>2. cb'.pc \in {"closed", "idle"}
      BY <2>2 DEF AudioRests, Wired, Feeding
    <3>3. QED
      BY <2>1, <3>1, <3>2
  <2>3. CASE StartDecoder
    <3>1. ring' = ring /\ cb' = cb /\ app.pc = "start"
      BY <2>3 DEF StartDecoder
    <3>2. ring'["A"].size <= 0 /\ cb'.pc = "idle"
      BY <3>1 DEF RingsWell, Feeding
    <3>3. QED
      BY <2>1, <3>2
  <2>4. CASE JoinDecoder
    <3>1. q' = [q EXCEPT ![audioq] = Background(q[audioq])] /\ audioq' = audioq
      BY <2>4 DEF JoinDecoder, Wired, trackVars
    <3>2. q'[audioq'].background = TRUE
      BY <1>1, <3>1, FlagsGood
    <3>3. QED
      BY <1>7, <3>2
  <2>5. CASE ~AudioRests' /\ ~StartDecoder /\ ~JoinDecoder
    <3>1. /\ epoch' = epoch /\ audioq' = audioq /\ ~q[audioq].abort /\ dec["A"].on = audioq
          /\ q'[audioq].background = FALSE => ~q[audioq].background
          /\ \/ AudioMarked
             \/ SeekMarkAudio /\ q'[audioq] = Put(q[audioq], Marker)
      BY <1>7, <2>5, AudioMarks
    <3>2. ~q[audioq].background
      BY <1>1, <1>7, <3>1, QueuesKept, Fields
    <3>3. /\ \A j \in Places(ring["A"]) : At(ring["A"], j) # NoFrame =>
               At(ring["A"], j) \in Frame /\ At(ring["A"], j).serial <= q[audioq].serial
          /\ HasFrame => Given \in Frame /\ Given.serial <= q[audioq].serial
      BY <1>1, HeldTypes DEF SerialsHeld
    <3>4. CASE SeekMarkAudio /\ q'[audioq] = Put(q[audioq], Marker)
      <4>1. ring' = ring /\ cb' = cb
        BY <3>4 DEF SeekMarkAudio
      <4>2. q[audioq].serial < q'[audioq].serial
        BY <1>1, <1>2, <3>1, <3>4
      <4>3. /\ HasFrame' => HasFrame /\ Given' = Given
            /\ Places(ring'["A"]) = Places(ring["A"])
            /\ \A k \in Places(ring["A"]) : At(ring'["A"], k) = At(ring["A"], k)
        BY <4>1 DEF HasFrame, Given
      <4>4. QED
        BY <1>1, <1>3, <3>1, <3>3, <4>2, <4>3
    <3>5. CASE AudioMarked
      <4>1. ASSUME NEW f, f # NoFrame,
                   \/ \E j \in Places(ring["A"]) : f = At(ring["A"], j)
                   \/ PushFrame("A") /\ f = Decoded(dec["A"])
                   \/ HasFrame /\ f = Given
            PROVE  FrameFresh(f, q'[audioq'], epoch')
        <5>1. CASE PushFrame("A") /\ f = Decoded(dec["A"])
          <6>1. Runs("A")
            BY <1>1, <5>1, PushDoes DEF Runs
          <6>2. DecoderFresh(dec["A"], q[audioq], epoch)
            BY <3>5, <6>1 DEF DecodersFresh
          <6>3. QED
            BY <1>1, <1>4, <1>5, <3>1, <5>1, <6>2
        <5>2. CASE \E j \in Places(ring["A"]) : f = At(ring["A"], j)
          BY <1>1, <1>4, <3>1, <3>2, <3>3, <3>5, <4>1, <5>2 DEF FramesFresh
        <5>3. CASE HasFrame /\ f = Given
          BY <1>1, <1>4, <3>1, <3>2, <3>3, <3>5, <5>3 DEF FramesFresh
        <5>4. QED
          BY <4>1, <5>1, <5>2, <5>3
      <4>2. HasFrame' => Given' # NoFrame
        BY DEF HasFrame
      <4>3. HasFrame' => FrameFresh(Given', q'[audioq'], epoch')
        BY <4>1, <4>2, HeldMoves
      <4>4. QED
        BY <4>1, <4>3, HeldMoves
    <3>6. QED
      BY <3>1, <3>4, <3>5
  <2>6. QED
    BY <2>2, <2>3, <2>4, <2>5
<1>8. QED
  BY <1>6, <1>7 DEF FramesFresh

(***************************************************************************)
(* The whole invariant.                                                    *)
(***************************************************************************)
LEMMA InitFresh ==
  ASSUME Init
  PROVE  Feeding /\ InLine /\ SerialsHeld /\ Fresh
<1>1. /\ Types /\ QueuesGood /\ Wired /\ RingsWell /\ FramesPlaced
      /\ Video \in Ids /\ Tracks \subseteq Ids /\ Video \notin Tracks
      /\ Media = {"A", "V"} /\ None \notin Ids
  BY InitTypes, StreamsAssumption DEF Ids, Media
<1>2. /\ rd.pc = "loop" /\ rd.next = Opened /\ app.pc = "idle" /\ ~app.bare
      /\ stale = {} /\ epoch = 0 /\ cb.pc \in {"closed", "idle"}
      /\ \A m \in Media : ring[m] = NewRing
  BY DEF Init, Media
<1>3. Opened # {}
  BY StreamsAssumption DEF Init, Opened
<1>4. ~HasFrame /\ \A m \in Media : Places(ring[m]) = {}
  BY <1>1, <1>2, NewRingGood, RingFields DEF HasFrame, Places, Slots
\* The queues are empty, but for the marker of the video.
<1>5. \A s \in Tracks : q[s].pkts = <<>>
  BY <1>1 DEF Init, NewQueue
<1>6. ASSUME Video \in Opened
      PROVE  /\ Len(q[Video].pkts) = 1 /\ q[Video].pkts[1].kind = "flush"
             /\ q[Video].pkts[1].epoch = 0 /\ q[Video].pkts[1].serial = 1
             /\ q[Video].serial = 1
  <2>1. q[Video] = Start(NewQueue(TRUE), FALSE, FirstMarker)
    BY <1>1, <1>6 DEF Init
  <2>2. QED
    BY <2>1 DEF Start, NewQueue, Put, FirstMarker
<1>7. ASSUME Video \notin Opened
      PROVE  q[Video].pkts = <<>> /\ q[Video].abort
  <2>1. q[Video] = NewQueue(TRUE)
    BY <1>1, <1>7 DEF Init
  <2>2. QED
    BY <2>1 DEF NewQueue
<1>8. ASSUME NEW m \in Media, Runs(m)
      PROVE  /\ dec[m].pkt_serial = 0 /\ dec[m].finished = 0 /\ dec[m].codec = <<>>
             /\ dec[m].pc = "top" /\ dec[m].on \in Ids
  <2>1. dec[m] = NoDecoder \/ dec[m] = Decoder(Video, Video) \/ dec[m] = Decoder(audioq, audioq)
    BY <1>1 DEF Init
  <2>2. QED
    BY <1>1, <1>8, <2>1 DEF NoDecoder, Decoder, Runs, Types, Ids
<1>9. \A s \in Ids : \A i \in 1..Len(q[s].pkts) :
        q[s].pkts[i].kind = "flush" /\ q[s].pkts[i].serial = 1 /\ q[s].pkts[i].epoch = 0
  BY <1>1, <1>5, <1>6, <1>7 DEF Ids
<1>10. Feeding
  BY <1>1, <1>2, <1>3, <1>5, <1>7, <1>9 DEF Feeding, Ids
<1>11. InLine
  <2>1. \A m \in Media : Runs(m) => Blank(dec[m])
    BY <1>8 DEF Blank
  <2>2. ASSUME NEW m \in Media, Runs(m)
        PROVE  DecoderBehind(dec[m], q[dec[m].on])
    BY <1>1, <1>8, <1>9, <2>2 DEF DecoderBehind, QueuesGood, GoodQueue
  <2>3. QED
    BY <1>1, <2>1, <2>2 DEF InLine, NextInLine
<1>12. SerialsHeld
  BY <1>1, <1>4 DEF SerialsHeld
<1>13. Fresh
  <2>1. QueuesFresh
    BY <1>1, <1>2, <1>9 DEF QueuesFresh, FreshAt
  <2>2. \A m \in Media : Runs(m) => \A x : DecoderFresh(dec[m], x, epoch)
    BY <1>8 DEF DecoderFresh
  <2>3. QED
    BY <1>1, <1>4, <2>1, <2>2 DEF Fresh, DecodersFresh, FramesFresh
<1>14. QED
  BY <1>10, <1>11, <1>12, <1>13

(***************************************************************************)
(* Every reachable state: only open streams are read, no decoder or frame  *)
(* is ahead of its queue, and what carries the serial of a marked queue    *)
(* was read after the last seek.                                           *)
(***************************************************************************)
THEOREM StreamsFresh == Spec => [](Sound /\ Feeding /\ InLine /\ SerialsHeld /\ Fresh)
<1>1. Init => Sound /\ Feeding /\ InLine /\ SerialsHeld /\ Fresh
  BY InitTypes, InitFresh DEF Sound
<1>2. Sound /\ Sound' /\ Feeding /\ InLine /\ SerialsHeld /\ Fresh /\ [Next]_vars
      => Feeding' /\ InLine' /\ SerialsHeld' /\ Fresh'
  <2>1. SUFFICES ASSUME Sound, Sound', Feeding, InLine, SerialsHeld, Fresh, [Next]_vars
                 PROVE  Feeding' /\ InLine' /\ SerialsHeld' /\ Fresh'
    OBVIOUS
  <2>2. Feeding'
    BY <2>1, FeedingKept DEF Sound
  <2>3. InLine' /\ SerialsHeld'
    BY <2>1, InLineKept, SerialsHeldKept DEF Sound
  <2>4. Fresh'
    BY <2>1, <2>2, QueuesFreshKept, DecodersFreshKept, FramesFreshKept DEF Sound, Fresh
  <2>5. QED
    BY <2>2, <2>3, <2>4
<1>3. QED
  BY <1>1, <1>2, StreamsSafe, PTL DEF Spec

(***************************************************************************)
(* Nothing read before a seek is played once read_thread has carried the   *)
(* seek out, except from a track that the seek did not empty or that was   *)
(* opened while no track was.                                              *)
(***************************************************************************)
THEOREM NothingStale == Spec => NothingStalePlayed
<1> DEFINE Safe == Sound /\ Feeding /\ InLine /\ SerialsHeld /\ Fresh
           PlaysFresh(m) ==
             (out'[m] # out[m] /\ rd.pc \notin {"flush", "mark", "video"})
               => \/ out'[m].epoch = epoch \/ out'[m].on \in stale
                  \/ q[out'[m].on].abort \/ q[out'[m].on].background
                  \/ m = "A" /\ app.bare
<1>1. Safe /\ [Next]_vars => PlaysFresh("V") /\ PlaysFresh("A")
  <2>1. SUFFICES ASSUME Safe, [Next]_vars
                 PROVE  PlaysFresh("V") /\ PlaysFresh("A")
    OBVIOUS
  <2>2. /\ Types /\ RingsWell /\ FramesPlaced /\ Fresh /\ out \in [Media -> Frame \cup {None}]
        /\ "A" \in Media /\ "V" \in Media
    BY <2>1 DEF Sound, Types, Media
  <2>3. SeekFlushVideo => out' = out
    BY DEF SeekFlushVideo
  <2>4. CASE Refresh
    <3> DEFINE f == At(ring["V"], ring["V"].shown)
    <3>1. out'["A"] = out["A"]
      BY <2>2, <2>4, RefreshDoes
    <3>2. out' # out => /\ out'["V"] = f /\ f.serial = q[Video].serial
                        /\ ring["V"].shown \in Places(ring["V"])
      BY <2>2, <2>4, RefreshDoes
    <3>3. (out' # out /\ VideoMarked) => f.epoch = epoch
      BY <2>2, <3>2 DEF Fresh, FramesFresh, FrameFresh
    <3>4. out' # out => f.on = Video
      BY <2>2, <3>2 DEF FramesPlaced
    <3> HIDE DEF f
    <3>5. QED
      BY <3>1, <3>2, <3>3, <3>4 DEF VideoMarked
  <2>5. CASE PlayAudio
    <3>1. out'["V"] = out["V"] /\ (out' # out => out'["A"] = Given)
      BY <2>2, <2>5 DEF PlayAudio, Given, playVars
    <3>2. out' # out => HasFrame /\ Given.serial = q[audioq].serial
      BY <2>5 DEF PlayAudio, HasFrame, Given, playVars
    <3>3. out' # out => Given.on = audioq
      BY <2>2, <3>2 DEF FramesPlaced
    <3>4. (out' # out /\ AudioMarked /\ ~q[audioq].background) => Given.epoch = epoch
      BY <2>2, <3>2 DEF Fresh, FramesFresh, FrameFresh
    <3> HIDE DEF Given
    <3>5. QED
      BY <3>1, <3>2, <3>3, <3>4 DEF AudioMarked
  <2>6. QED
    BY <2>1, <2>3, <2>4, <2>5, Frames DEF ChangesPlayed
<1>2. Media = {"A", "V"}
  BY DEF Media
<1>3. Safe /\ [Next]_vars => [\A m \in Media : PlaysFresh(m)]_vars
  BY <1>1, <1>2
<1>4. QED
  BY <1>3, StreamsFresh, PTL DEF Spec, NothingStalePlayed
=============================================================================
