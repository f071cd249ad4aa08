--------------------------- MODULE AsyncIoProofs -----------------------------
(***************************************************************************)
(* Proofs about the read-ahead ring (AsyncIo), for every size of the file, *)
(* of the ring and of a chunk, and any number of reads, seeks and errors.  *)
(***************************************************************************)
EXTENDS AsyncIo, SequenceTheorems, TLAPS

TaskPcs == {"top", "fill", "report", "wait", "done"}
MainPcs == {"idle", "read", "readWait", "seek", "seekWait", "join", "closed"}
Errors  == {"none", "eof", "failed", "exit"}

Seeks == [request : BOOLEAN, to : Int, completed : BOOLEAN, ret : Int]
Tasks == [pc : TaskPcs, copy : Int, ret : Int, error : Errors]
Mains == [pc : MainPcs, want : Int, got : Int, all : BOOLEAN, keep : BOOLEAN]

\* The types that TypeOK leaves out.
Types ==
  /\ fifo \in Seq(Int) /\ readPos \in Nat /\ pos \in Int /\ inner \in Int
  /\ seek \in Seeks /\ task \in Tasks /\ main \in Mains
  /\ eof \in BOOLEAN /\ abort \in BOOLEAN /\ interrupted \in BOOLEAN
  /\ error \in Errors
  /\ TypeOK

\* What the caller and the task are doing.
Asked ==
  /\ seek.to \in 0..FileSize
  /\ main.pc \in {"read", "readWait"} => main.want >= 1
  /\ seek.request => abort \/ main.pc \in {"seek", "seekWait"}
  /\ seek.request => ~seek.completed

\* A chunk that is being read fits; the end of file was not met before it.
Filling ==
  /\ task.pc = "fill" => task.copy >= 1 /\ Len(fifo) + task.copy <= Forwards + Backwards
  /\ task.pc \in {"fill", "report"} => ~eof
  /\ task.pc = "report" /\ task.ret <= 0 =>
       /\ task.error \in {"eof", "failed"}
       /\ task.error = "eof" => inner = FileSize

\* The ring ends where the task reads on, unless it has failed.
Ends ==
  ~abort =>
    /\ ~eof \/ error = "eof" => inner = First + Len(fifo)
    /\ fifo # <<>> => First + Len(fifo) <= FileSize
    /\ error = "eof" => inner = FileSize
    /\ eof => error \in {"eof", "failed"}
    /\ ~eof => error = "none"

\* A seek that the task has done has emptied the ring; one that failed leaves
\* it empty.
Answered ==
  Sought => /\ readPos = 0
            /\ seek.ret \in 0..FileSize \cup {Failed}
            /\ ~abort /\ seek.ret = Failed => fifo = <<>> /\ eof /\ error = "failed"

\* The end of file that the last call returned.
AtEnd == result = "eof" => pos = FileSize

IInv == Types /\ Asked /\ Filling /\ Ends /\ Answered /\ RingHeld /\ AtEnd

-----------------------------------------------------------------------------
\* ring_generic_read: what is drained lies behind the caller, the rest keeps
\* its order.
LEMMA Drained ==
  ASSUME Types, NEW n \in 1..RingAhead, AfterRead(n)
  PROVE  /\ fifo' \in Seq(Int) /\ readPos' \in 0..Len(fifo')
         /\ Len(fifo') \in Nat /\ Len(fifo') <= Len(fifo)
         /\ Len(fifo') - readPos' = Len(fifo) - readPos - n
         /\ \A i \in 1..Len(fifo') :
              /\ i + (readPos + n - readPos') \in 1..Len(fifo)
              /\ fifo'[i] = fifo[i + (readPos + n - readPos')]
<1>1. /\ fifo \in Seq(Int) /\ Len(fifo) \in Nat /\ readPos \in 0..Len(fifo)
      /\ Backwards \in Nat /\ n \in 1..(Len(fifo) - readPos)
  BY AsyncAssumption, LenProperties DEF Types, TypeOK, RingAhead
<1>2. PICK drain \in 0..Len(fifo) :
         /\ drain <= readPos + n
         /\ fifo' = SubSeq(fifo, drain + 1, Len(fifo))
         /\ readPos' = readPos + n - drain
  <2>1. CASE readPos + n > Backwards
    <3>1. readPos + n - Backwards \in 0..Len(fifo) /\ readPos + n - Backwards <= readPos + n
      BY <1>1, <2>1
    <3>2. QED
      BY <1>1, <2>1, <3>1 DEF AfterRead
  <2>2. CASE ~(readPos + n > Backwards)
    <3>1. 0 \in 0..Len(fifo) /\ 0 <= readPos + n
      BY <1>1
    <3>2. QED
      BY <1>1, <2>2, <3>1 DEF AfterRead
  <2>3. QED
    BY <2>1, <2>2
<1>3. /\ fifo' \in Seq(Int)
      /\ Len(fifo') = IF drain + 1 <= Len(fifo) THEN Len(fifo) - (drain + 1) + 1 ELSE 0
      /\ \A i \in 1..(Len(fifo) - (drain + 1) + 1) : fifo'[i] = fifo[drain + 1 + i - 1]
  <2>1. drain + 1 \in Int /\ Len(fifo) \in Int
    BY <1>1
  <2>2. \A i \in (drain + 1)..Len(fifo) : fifo[i] \in Int
    BY <1>1, LenProperties
  <2>3. QED
    BY <1>2, <2>1, <2>2, SubSeqProperties
<1>4. Len(fifo') = Len(fifo) - drain
  BY <1>1, <1>3
<1>5. readPos' \in 0..Len(fifo') /\ readPos + n - readPos' = drain
  BY <1>1, <1>2, <1>4
<1>6. ASSUME NEW i \in 1..Len(fifo')
      PROVE  /\ i + (readPos + n - readPos') \in 1..Len(fifo)
             /\ fifo'[i] = fifo[i + (readPos + n - readPos')]
  <2>1. i \in 1..(Len(fifo) - (drain + 1) + 1) /\ drain + 1 + i - 1 = i + drain
    BY <1>1, <1>4
  <2>2. i + drain \in 1..Len(fifo)
    BY <1>1, <1>4
  <2>3. QED
    BY <1>3, <1>5, <2>1, <2>2
<1>7. /\ Len(fifo') \in Nat /\ Len(fifo') <= Len(fifo)
      /\ Len(fifo') - readPos' = Len(fifo) - readPos - n
  BY <1>1, <1>2, <1>4
<1>8. QED
  BY <1>3, <1>5, <1>6, <1>7, Zenon

\* ring_generic_write: the bytes of the file from "inner" on come behind what
\* the ring holds.
LEMMA Filled ==
  ASSUME Types, NEW n \in 1..task.copy,
         fifo' = fifo \o [i \in 1..n |-> inner + i - 1]
  PROVE  /\ fifo' \in Seq(Int) /\ Len(fifo') = Len(fifo) + n
         /\ \A i \in 1..Len(fifo) : fifo'[i] = fifo[i]
         /\ \A i \in 1..n : fifo'[Len(fifo) + i] = inner + i - 1
<1> DEFINE new == [i \in 1..n |-> inner + i - 1]
<1>1. fifo \in Seq(Int) /\ Len(fifo) \in Nat /\ inner \in Int /\ n \in Nat /\ n >= 1
  BY LenProperties DEF Types
<1>2. new \in Seq(Int)
  <2>1. \A i \in 1..n : inner + i - 1 \in Int
    BY <1>1
  <2>2. QED
    BY <1>1, <2>1, IsASeq
<1>3. Len(new) = n
  BY <1>1, <1>2, LenProperties
<1>4. QED
  BY <1>1, <1>2, <1>3, ConcatProperties

LEMMA TaskEndsKeeps ==
  ASSUME IInv, TaskEnds
  PROVE  IInv'
<1>1. Types'
  BY AsyncAssumption DEF IInv, TaskEnds, WakeMain, Interrupted, ringVars,
     Types, TypeOK, Seeks, Tasks, Mains, TaskPcs, MainPcs, Errors
<1>2. Asked'
  BY AsyncAssumption DEF IInv, TaskEnds, WakeMain, Interrupted, ringVars,
     Types, Asked, Seeks, Tasks, Mains, TaskPcs, MainPcs, Errors
<1>3. Filling'
  BY AsyncAssumption DEF IInv, TaskEnds, WakeMain, Interrupted, ringVars,
     Types, TypeOK, Asked, Filling, Seeks, Tasks, Mains, TaskPcs, MainPcs,
     Errors
<1>4. Ends'
  BY AsyncAssumption DEF IInv, TaskEnds, WakeMain, Interrupted, ringVars,
     Types, TypeOK, Asked, Filling, Ends, Answered, First, Sought, Seeks,
     Tasks, Mains, TaskPcs, MainPcs, Errors
<1>5. Answered'
  BY AsyncAssumption DEF IInv, TaskEnds, WakeMain, Interrupted, ringVars,
     Types, TypeOK, Asked, Filling, Ends, Answered, Sought, Seeks, Tasks,
     Mains, TaskPcs, MainPcs, Errors
<1>6. RingHeld'
  BY AsyncAssumption DEF IInv, TaskEnds, WakeMain, Interrupted, ringVars,
     Types, TypeOK, Asked, Ends, Answered, RingHeld, First, Sought, Seeks,
     Tasks, Mains, TaskPcs, MainPcs, Errors
<1>7. AtEnd'
  BY AsyncAssumption DEF IInv, TaskEnds, WakeMain, Interrupted, ringVars,
     Types, TypeOK, Asked, Ends, Answered, RingHeld, First, Sought, AtEnd,
     Seeks, Tasks, Mains, TaskPcs, MainPcs, Errors
<1>8. QED
  BY <1>1, <1>2, <1>3, <1>4, <1>5, <1>6, <1>7 DEF IInv

LEMMA TaskSeeksKeeps ==
  ASSUME IInv, TaskSeeks
  PROVE  IInv'
<1>1. /\ seek \in Seeks /\ main \in Mains /\ task \in Tasks
      /\ seek.request /\ seek.to \in 0..FileSize /\ Failed \in Int
      /\ abort = FALSE /\ main.pc \in {"seek", "seekWait"} /\ task.pc = "top"
      /\ pos \in 0..FileSize /\ inner \in 0..FileSize
  BY DEF IInv, Types, TypeOK, Asked, TaskSeeks, Interrupted, Failed
<1>2. /\ fifo' = <<>> /\ readPos' = 0 /\ pos' = pos /\ abort' = FALSE
      /\ task' = task /\ interrupted' = interrupted /\ result' = result
  BY <1>1 DEF TaskSeeks
<1>3. main' \in Mains /\ main'.pc \in {"seek", "seekWait"}
  BY <1>1 DEF TaskSeeks, WakeMain, Mains, MainPcs
<1>4. /\ seek' \in Seeks /\ ~seek'.request /\ seek'.completed
      /\ seek'.to = seek.to
      /\ \/ /\ seek'.ret = seek.to /\ inner' = seek.to
            /\ eof' = FALSE /\ error' = "none"
         \/ /\ seek'.ret = Failed /\ inner' = inner
            /\ eof' = TRUE /\ error' = "failed"
  BY <1>1 DEF TaskSeeks, Seeks
<1>5. Types'
  <2>1. fifo' \in Seq(Int) /\ Len(fifo') = 0
    BY <1>2
  <2>2. inner' \in 0..FileSize /\ FileSize \in Nat
    BY <1>1, <1>4, AsyncAssumption
  <2>3. error' \in Errors /\ eof' \in BOOLEAN
    BY <1>4 DEF Errors
  <2>4. TypeOK'
    BY <1>1, <1>2, <1>3, <1>4, <2>1, <2>2, AsyncAssumption DEF TypeOK, Tasks, TaskPcs
  <2>5. interrupted' \in BOOLEAN /\ abort' \in BOOLEAN
    BY <1>2 DEF IInv, Types
  <2>6. QED
    BY <1>1, <1>2, <1>3, <1>4, <2>1, <2>2, <2>3, <2>4, <2>5 DEF Types
<1>6. Asked'
  BY <1>1, <1>3, <1>4 DEF Asked
<1>7. Filling'
  BY <1>1, <1>2 DEF Filling
<1>8. Ends'
  BY <1>1, <1>2, <1>3, <1>4, AsyncAssumption DEF Ends, First, Sought, Failed
<1>9. Answered'
  BY <1>1, <1>2, <1>3, <1>4, AsyncAssumption DEF Answered, Sought, Failed
<1>10. RingHeld'
  BY <1>2 DEF RingHeld
<1>11. AtEnd'
  BY <1>2 DEF IInv, AtEnd
<1>12. QED
  BY <1>5, <1>6, <1>7, <1>8, <1>9, <1>10, <1>11 DEF IInv

LEMMA TaskWaitsKeeps ==
  ASSUME IInv, TaskWaits
  PROVE  IInv'
<1>1. Types'
  BY AsyncAssumption DEF IInv, TaskWaits, WakeMain, Interrupted, ringVars,
     ioVars, Types, TypeOK, Seeks, Tasks, Mains, TaskPcs, MainPcs, Errors
<1>2. Asked'
  BY AsyncAssumption DEF IInv, TaskWaits, WakeMain, Interrupted, ringVars,
     ioVars, Types, Asked, Seeks, Tasks, Mains, TaskPcs, MainPcs, Errors
<1>3. Filling'
  BY AsyncAssumption DEF IInv, TaskWaits, WakeMain, Interrupted, ringVars,
     ioVars, Types, TypeOK, Asked, Filling, Seeks, Tasks, Mains, TaskPcs,
     MainPcs, Errors
<1>4. Ends'
  BY AsyncAssumption DEF IInv, TaskWaits, WakeMain, Interrupted, ringVars,
     ioVars, Types, TypeOK, Asked, Filling, Ends, Answered, First, Sought,
     Seeks, Tasks, Mains, TaskPcs, MainPcs, Errors
<1>5. Answered'
  BY AsyncAssumption DEF IInv, TaskWaits, WakeMain, Interrupted, ringVars,
     ioVars, Types, TypeOK, Asked, Filling, Ends, Answered, Sought, Seeks,
     Tasks, Mains, TaskPcs, MainPcs, Errors
<1>6. RingHeld'
  BY AsyncAssumption DEF IInv, TaskWaits, WakeMain, Interrupted, ringVars,
     ioVars, Types, TypeOK, Asked, Ends, Answered, RingHeld, First, Sought,
     Seeks, Tasks, Mains, TaskPcs, MainPcs, Errors
<1>7. AtEnd'
  BY AsyncAssumption DEF IInv, TaskWaits, WakeMain, Interrupted, ringVars,
     ioVars, Types, TypeOK, Asked, Ends, Answered, RingHeld, First, Sought,
     AtEnd, Seeks, Tasks, Mains, TaskPcs, MainPcs, Errors
<1>8. QED
  BY <1>1, <1>2, <1>3, <1>4, <1>5, <1>6, <1>7 DEF IInv

LEMMA TaskReadsKeeps ==
  ASSUME IInv, TaskReads
  PROVE  IInv'
<1>1. Types'
  <2>1. RingSpace \in Int /\ Chunk \in Int
    BY AsyncAssumption, LenProperties DEF IInv, Types, RingSpace
  <2>2. (IF RingSpace < Chunk THEN RingSpace ELSE Chunk) \in Int
    BY <2>1
  <2>3. task' \in Tasks /\ task'.pc = "fill"
    BY <2>2 DEF IInv, Types, TaskReads, Tasks, TaskPcs
  <2>4. QED
    BY <2>3 DEF IInv, TaskReads, ringVars, ioVars, Types, TypeOK
<1>2. Asked'
  BY AsyncAssumption DEF IInv, TaskReads, Interrupted, RingSpace, ringVars,
     ioVars, Types, Asked, Seeks, Tasks, Mains, TaskPcs, MainPcs, Errors
<1>3. Filling'
  BY AsyncAssumption DEF IInv, TaskReads, Interrupted, RingSpace, ringVars,
     ioVars, Types, TypeOK, Asked, Filling, Seeks, Tasks, Mains, TaskPcs,
     MainPcs, Errors
<1>4. Ends'
  BY AsyncAssumption DEF IInv, TaskReads, Interrupted, RingSpace, ringVars,
     ioVars, Types, TypeOK, Asked, Filling, Ends, Answered, First, Sought,
     Seeks, Tasks, Mains, TaskPcs, MainPcs, Errors
<1>5. Answered'
  BY AsyncAssumption DEF IInv, TaskReads, Interrupted, RingSpace, ringVars,
     ioVars, Types, TypeOK, Asked, Filling, Ends, Answered, Sought, Seeks,
     Tasks, Mains, TaskPcs, MainPcs, Errors
<1>6. RingHeld'
  BY AsyncAssumption DEF IInv, TaskReads, Interrupted, RingSpace, ringVars,
     ioVars, Types, TypeOK, Asked, Ends, Answered, RingHeld, First, Sought,
     Seeks, Tasks, Mains, TaskPcs, MainPcs, Errors
<1>7. AtEnd'
  BY AsyncAssumption DEF IInv, TaskReads, Interrupted, RingSpace, ringVars,
     ioVars, Types, TypeOK, Asked, Ends, Answered, RingHeld, First, Sought,
     AtEnd, Seeks, Tasks, Mains, TaskPcs, MainPcs, Errors
<1>8. QED
  BY <1>1, <1>2, <1>3, <1>4, <1>5, <1>6, <1>7 DEF IInv

LEMMA TaskFillsKeeps ==
  ASSUME IInv, TaskFills
  PROVE  IInv'
<1>1. /\ task \in Tasks /\ main \in Mains /\ seek \in Seeks
      /\ fifo \in Seq(Int) /\ Len(fifo) \in Nat
      /\ readPos \in 0..Len(fifo) /\ inner \in 0..FileSize /\ FileSize \in Nat
      /\ pos \in 0..FileSize /\ eof = FALSE
      /\ task.copy \in Int /\ Len(fifo) + task.copy <= Forwards + Backwards
      /\ task.pc = "fill"
  BY AsyncAssumption, LenProperties
  DEF IInv, Types, TypeOK, TaskFills, Filling, Tasks
<1>2. /\ readPos' = readPos /\ pos' = pos /\ seek' = seek /\ eof' = eof
      /\ error' = error /\ abort' = abort /\ interrupted' = interrupted
      /\ main' = main /\ result' = result
  BY DEF TaskFills, ioVars
<1>3. Asked' /\ AtEnd'
  BY <1>2 DEF IInv, Asked, AtEnd
<1>4. First' = First /\ Sought' = Sought
  BY <1>2 DEF First, Sought
<1>5. CASE /\ fifo' = fifo /\ inner' = inner
           /\ \/ /\ inner >= FileSize
                 /\ task' = [task EXCEPT !.pc = "report", !.ret = 0, !.error = "eof"]
              \/ task' = [task EXCEPT !.pc = "report", !.ret = 0, !.error = "failed"]
  <2>1. /\ task' \in Tasks /\ task'.pc = "report" /\ task'.ret = 0
        /\ task'.error \in {"eof", "failed"}
        /\ task'.error = "eof" => inner = FileSize
    <3>1. PICK e \in {"eof", "failed"} :
            /\ task' = [task EXCEPT !.pc = "report", !.ret = 0, !.error = e]
            /\ e = "eof" => inner >= FileSize
      BY <1>5
    <3>2. task' = [pc |-> "report", copy |-> task.copy, ret |-> 0, error |-> e]
      BY <1>1, <3>1 DEF Tasks
    <3>3. e = "eof" => inner = FileSize
      BY <1>1, <3>1
    <3>4. QED
      BY <1>1, <3>2, <3>3 DEF TaskPcs, Errors, Tasks
  <2>2. Types'
    BY <1>2, <1>5, <2>1 DEF IInv, Types, TypeOK
  <2>3. Filling'
    BY <1>1, <1>2, <1>5, <2>1 DEF Filling
  <2>4. Ends' /\ Answered' /\ RingHeld'
    BY <1>2, <1>4, <1>5 DEF IInv, Ends, Answered, RingHeld
  <2>5. QED
    BY <1>3, <2>2, <2>3, <2>4 DEF IInv
<1>6. CASE \E n \in 1..task.copy :
             /\ inner + n <= FileSize
             /\ fifo' = fifo \o [i \in 1..n |-> inner + i - 1]
             /\ inner' = inner + n
             /\ task' = [task EXCEPT !.pc = "report", !.ret = n, !.error = "none"]
  <2>1. PICK n \in 1..task.copy :
          /\ inner + n <= FileSize
          /\ fifo' = fifo \o [i \in 1..n |-> inner + i - 1]
          /\ inner' = inner + n
          /\ task' = [task EXCEPT !.pc = "report", !.ret = n, !.error = "none"]
    BY <1>6
  <2>2. /\ fifo' \in Seq(Int) /\ Len(fifo') = Len(fifo) + n
        /\ \A i \in 1..Len(fifo) : fifo'[i] = fifo[i]
        /\ \A i \in 1..n : fifo'[Len(fifo) + i] = inner + i - 1
    BY <2>1, Filled DEF IInv
  <2>3. n \in Int /\ n >= 1 /\ n <= task.copy
    BY <1>1
  <2>4. task' \in Tasks /\ task'.pc = "report" /\ task'.ret = n
    BY <1>1, <2>1, <2>3 DEF Tasks, TaskPcs, Errors
  <2>5. Types'
    <3>1. inner' \in 0..FileSize
      BY <1>1, <2>1, <2>3
    <3>2. readPos' \in 0..Len(fifo') /\ Len(fifo') <= Forwards + Backwards
      BY <1>1, <1>2, <2>2, <2>3, AsyncAssumption
    <3>3. QED
      BY <1>2, <2>2, <2>4, <3>1, <3>2 DEF IInv, Types, TypeOK
  <2>6. Filling'
    BY <1>1, <1>2, <2>3, <2>4 DEF Filling
  <2>7. ~abort => First \in Int /\ inner = First + Len(fifo) /\ error = "none"
    BY <1>1 DEF IInv, Types, Ends, First, Seeks
  <2>8. Ends'
    BY <1>1, <1>2, <1>4, <2>1, <2>2, <2>3, <2>7 DEF Ends
  <2>9. Answered'
    BY <1>1, <1>2, <1>4 DEF IInv, Answered
  <2>10. RingHeld'
    <3>1. SUFFICES ASSUME ~abort, NEW i \in 1..Len(fifo')
                   PROVE  fifo'[i] = First + i - 1
      BY <1>2, <1>4 DEF RingHeld
    <3>2. CASE i <= Len(fifo)
      BY <1>1, <2>2, <2>3, <3>1, <3>2 DEF IInv, RingHeld
    <3>3. CASE i > Len(fifo)
      <4>1. i - Len(fifo) \in 1..n /\ Len(fifo) + (i - Len(fifo)) = i
        BY <1>1, <2>2, <2>3, <3>3
      <4>2. fifo'[i] = inner + (i - Len(fifo)) - 1
        BY <2>2, <4>1
      <4>3. QED
        BY <1>1, <2>7, <3>1, <4>1, <4>2
    <3>4. QED
      BY <1>1, <2>2, <3>2, <3>3
  <2>11. QED
    BY <1>3, <2>5, <2>6, <2>8, <2>9, <2>10 DEF IInv
<1>7. QED
  BY <1>5, <1>6 DEF TaskFills

LEMMA TaskReportsKeeps ==
  ASSUME IInv, TaskReports
  PROVE  IInv'
<1>1. Types'
  <2>1. task' = [pc |-> "top", copy |-> 0, ret |-> 0, error |-> "none"]
    BY DEF IInv, Types, TaskReports, Tasks
  <2>2. task' \in Tasks /\ task'.pc = "top"
    BY <2>1 DEF Tasks, TaskPcs, Errors
  <2>3. main' \in Mains
    BY DEF IInv, Types, TaskReports, WakeMain, Mains, MainPcs
  <2>4. error' \in Errors /\ eof' \in BOOLEAN
    BY DEF IInv, Types, TaskReports, Tasks
  <2>5. main'.pc \in MainPcs
    BY <2>3 DEF Mains
  <2>6. QED
    BY <2>2, <2>3, <2>4, <2>5
    DEF IInv, TaskReports, ringVars, Types, TypeOK, MainPcs, Errors
<1>2. Asked'
  BY AsyncAssumption DEF IInv, TaskReports, WakeMain, ringVars, Types,
     Asked, Seeks, Tasks, Mains, TaskPcs, MainPcs, Errors
<1>3. Filling'
  BY AsyncAssumption DEF IInv, TaskReports, WakeMain, ringVars, Types,
     TypeOK, Asked, Filling, Seeks, Tasks, Mains, TaskPcs, MainPcs, Errors
<1>4. Ends'
  BY AsyncAssumption DEF IInv, TaskReports, WakeMain, ringVars, Types,
     TypeOK, Asked, Filling, Ends, Answered, First, Sought, Seeks, Tasks,
     Mains, TaskPcs, MainPcs, Errors
<1>5. Answered'
  BY AsyncAssumption DEF IInv, TaskReports, WakeMain, ringVars, Types,
     TypeOK, Asked, Filling, Ends, Answered, Sought, Seeks, Tasks, Mains,
     TaskPcs, MainPcs, Errors
<1>6. RingHeld'
  BY AsyncAssumption DEF IInv, TaskReports, WakeMain, ringVars, Types,
     TypeOK, Asked, Ends, Answered, RingHeld, First, Sought, Seeks, Tasks,
     Mains, TaskPcs, MainPcs, Errors
<1>7. AtEnd'
  BY AsyncAssumption DEF IInv, TaskReports, WakeMain, ringVars, Types,
     TypeOK, Asked, Ends, Answered, RingHeld, First, Sought, AtEnd, Seeks,
     Tasks, Mains, TaskPcs, MainPcs, Errors
<1>8. QED
  BY <1>1, <1>2, <1>3, <1>4, <1>5, <1>6, <1>7 DEF IInv

LEMMA ReadKeeps ==
  ASSUME IInv, NEW n \in 1..MaxRead, Read(n)
  PROVE  IInv'
<1>1. Types'
  BY AsyncAssumption DEF IInv, Read, ringVars, ioVars, Types, TypeOK, Seeks,
     Tasks, Mains, TaskPcs, MainPcs, Errors
<1>2. Asked'
  BY AsyncAssumption DEF IInv, Read, ringVars, ioVars, Types, Asked, Seeks,
     Tasks, Mains, TaskPcs, MainPcs, Errors
<1>3. Filling'
  BY AsyncAssumption DEF IInv, Read, ringVars, ioVars, Types, TypeOK, Asked,
     Filling, Seeks, Tasks, Mains, TaskPcs, MainPcs, Errors
<1>4. Ends'
  BY AsyncAssumption DEF IInv, Read, ringVars, ioVars, Types, TypeOK, Asked,
     Filling, Ends, Answered, First, Sought, Seeks, Tasks, Mains, TaskPcs,
     MainPcs, Errors
<1>5. Answered'
  BY AsyncAssumption DEF IInv, Read, ringVars, ioVars, Types, TypeOK, Asked,
     Filling, Ends, Answered, Sought, Seeks, Tasks, Mains, TaskPcs, MainPcs,
     Errors
<1>6. RingHeld'
  BY AsyncAssumption DEF IInv, Read, ringVars, ioVars, Types, TypeOK, Asked,
     Ends, Answered, RingHeld, First, Sought, Seeks, Tasks, Mains, TaskPcs,
     MainPcs, Errors
<1>7. AtEnd'
  BY AsyncAssumption DEF IInv, Read, ringVars, ioVars, Types, TypeOK, Asked,
     Ends, Answered, RingHeld, First, Sought, AtEnd, Seeks, Tasks, Mains,
     TaskPcs, MainPcs, Errors
<1>8. QED
  BY <1>1, <1>2, <1>3, <1>4, <1>5, <1>6, <1>7 DEF IInv

LEMMA ReadInterruptedKeeps ==
  ASSUME IInv, ReadInterrupted
  PROVE  IInv'
<1>1. Types'
  <2>1. main' = AtRest /\ abort' = TRUE
    BY DEF ReadInterrupted, Return
  <2>2. main' \in Mains /\ main'.pc = "idle"
    BY <2>1 DEF AtRest, Mains, MainPcs
  <2>3. task' \in Tasks
    BY DEF IInv, Types, ReadInterrupted, WakeTask, Tasks, TaskPcs
  <2>4. QED
    BY <2>1, <2>2, <2>3
    DEF IInv, Types, TypeOK, ReadInterrupted, ringVars, ioVars, Tasks, TaskPcs
<1>2. Asked'
  BY AsyncAssumption DEF IInv, ReadInterrupted, Interrupted, Return, AtRest,
     WakeTask, ringVars, ioVars, Types, Asked, Seeks, Tasks, Mains, TaskPcs,
     MainPcs, Errors
<1>3. Filling'
  BY AsyncAssumption DEF IInv, ReadInterrupted, Interrupted, Return, AtRest,
     WakeTask, ringVars, ioVars, Types, TypeOK, Asked, Filling, Seeks,
     Tasks, Mains, TaskPcs, MainPcs, Errors
<1>4. Ends'
  BY AsyncAssumption DEF IInv, ReadInterrupted, Interrupted, Return, AtRest,
     WakeTask, ringVars, ioVars, Types, TypeOK, Asked, Filling, Ends,
     Answered, First, Sought, Seeks, Tasks, Mains, TaskPcs, MainPcs, Errors
<1>5. Answered'
  BY AsyncAssumption DEF IInv, ReadInterrupted, Interrupted, Return, AtRest,
     WakeTask, ringVars, ioVars, Types, TypeOK, Asked, Filling, Ends,
     Answered, Sought, Seeks, Tasks, Mains, TaskPcs, MainPcs, Errors
<1>6. RingHeld'
  BY AsyncAssumption DEF IInv, ReadInterrupted, Interrupted, Return, AtRest,
     WakeTask, ringVars, ioVars, Types, TypeOK, Asked, Ends, Answered,
     RingHeld, First, Sought, Seeks, Tasks, Mains, TaskPcs, MainPcs, Errors
<1>7. AtEnd'
  BY AsyncAssumption DEF IInv, ReadInterrupted, Interrupted, Return, AtRest,
     WakeTask, ringVars, ioVars, Types, TypeOK, Asked, Ends, Answered,
     RingHeld, First, Sought, AtEnd, Seeks, Tasks, Mains, TaskPcs, MainPcs,
     Errors
<1>8. QED
  BY <1>1, <1>2, <1>3, <1>4, <1>5, <1>6, <1>7 DEF IInv

LEMMA ReadTakesKeeps ==
  ASSUME IInv, ReadTakes
  PROVE  IInv'
<1>1. PICK n \in 1..RingAhead :
        /\ n <= main.want
        /\ AfterRead(n)
        /\ pos' = pos + n
        /\ \/ Return("ok")
           \/ /\ n # main.want
              /\ main' = [main EXCEPT !.want = @ - n, !.got = @ + n, !.pc = "readWait"]
              /\ result' = result
  <2> DEFINE m == IF main.want < RingAhead THEN main.want ELSE RingAhead
  <2>1. main.pc = "read" /\ RingAhead > 0
    BY DEF ReadTakes
  <2>2. RingAhead \in Int /\ main.want \in Int /\ main.want >= 1
    BY <2>1, LenProperties DEF IInv, Types, RingAhead, Mains, Asked
  <2>3. m \in 1..RingAhead /\ m <= main.want
    BY <2>1, <2>2
  <2>4. /\ AfterRead(m)
        /\ pos' = pos + m
        /\ \/ Return("ok")
           \/ /\ m # main.want
              /\ main' = [main EXCEPT !.want = @ - m, !.got = @ + m, !.pc = "readWait"]
              /\ result' = result
    BY DEF ReadTakes
  <2> HIDE DEF m
  <2>5. QED
    BY <2>3, <2>4
<1>2. /\ fifo' \in Seq(Int) /\ readPos' \in 0..Len(fifo')
      /\ Len(fifo') \in Nat /\ Len(fifo') <= Len(fifo)
      /\ Len(fifo') - readPos' = Len(fifo) - readPos - n
      /\ \A i \in 1..Len(fifo') :
           /\ i + (readPos + n - readPos') \in 1..Len(fifo)
           /\ fifo'[i] = fifo[i + (readPos + n - readPos')]
  BY <1>1, Drained DEF IInv
<1>3. /\ fifo \in Seq(Int) /\ Len(fifo) \in Nat /\ readPos \in 0..Len(fifo)
      /\ pos \in 0..FileSize /\ inner \in 0..FileSize /\ FileSize \in Nat
      /\ task \in Tasks /\ main \in Mains /\ seek \in Seeks /\ main.want \in Int
      /\ n \in Nat /\ n >= 1 /\ n <= Len(fifo) - readPos
      /\ main.pc = "read" /\ abort = FALSE /\ Forwards + Backwards \in Int
  <2>1. main.pc = "read" /\ ~Interrupted
    BY DEF ReadTakes
  <2>2. abort = FALSE
    BY <2>1 DEF IInv, Types, Interrupted
  <2>3. /\ fifo \in Seq(Int) /\ Len(fifo) \in Nat /\ readPos \in 0..Len(fifo)
        /\ pos \in 0..FileSize /\ inner \in 0..FileSize /\ FileSize \in Nat
        /\ task \in Tasks /\ main \in Mains /\ seek \in Seeks
        /\ Forwards + Backwards \in Int
    BY AsyncAssumption, LenProperties DEF IInv, Types, TypeOK
  <2>4. n \in Nat /\ n >= 1 /\ n <= Len(fifo) - readPos
    BY <2>3 DEF RingAhead
  <2>5. QED
    BY <2>1, <2>2, <2>3, <2>4 DEF Mains
<1>18. /\ readPos' \in Int /\ Len(fifo') \in Int /\ pos' = pos + n
       /\ Len(fifo') - readPos' = Len(fifo) - readPos - n
  BY <1>1, <1>2
<1>19. /\ pos \in Int /\ readPos \in Int /\ Len(fifo) \in Int /\ n \in Int
       /\ FileSize \in Int
  BY <1>3
<1>4. /\ seek' = seek /\ eof' = eof /\ error' = error /\ abort' = FALSE
      /\ interrupted' = interrupted /\ inner' = inner
  BY <1>3 DEF ReadTakes, ioVars
<1>5. task' \in Tasks /\ (task' = task \/ task'.pc = "top")
  BY <1>3 DEF ReadTakes, WakeTask, Tasks, TaskPcs
<1>6. /\ main' \in Mains /\ main'.pc \in {"idle", "readWait"}
      /\ main'.pc = "readWait" => main'.want \in Int /\ main'.want >= 1 /\ result' = result
      /\ main'.pc = "idle" => result' = "ok"
  <2>1. CASE Return("ok")
    BY <2>1 DEF Return, AtRest, Mains, MainPcs
  <2>2. CASE /\ n # main.want
             /\ main' = [main EXCEPT !.want = @ - n, !.got = @ + n, !.pc = "readWait"]
             /\ result' = result
    <3>1. main.want - n \in Int /\ main.want - n >= 1
      BY <1>1, <1>3, <2>2
    <3>2. main.got + n \in Int
      BY <1>3 DEF Mains
    <3>3. main' \in Mains /\ main'.pc = "readWait" /\ main'.want = main.want - n
      BY <1>3, <2>2, <3>1, <3>2 DEF Mains, MainPcs
    <3>4. QED
      BY <2>2, <3>1, <3>3
  <2>3. QED
    BY <1>1, <2>1, <2>2
<1>7. /\ First = pos - readPos /\ First' = pos' - readPos' /\ ~Sought' /\ ~Sought
  BY <1>3, <1>6 DEF First, Sought
<1>8. /\ First + Len(fifo) <= FileSize /\ First' + Len(fifo') = First + Len(fifo)
      /\ First \in Int /\ First' \in Int
  <2>1. fifo # <<>>
    BY <1>3
  <2>2. First + Len(fifo) <= FileSize
    BY <1>3, <2>1 DEF IInv, Ends
  <2>3. First \in Int /\ First' \in Int
    BY <1>7, <1>18, <1>19
  <2>4. pos' - readPos' + Len(fifo') = pos - readPos + Len(fifo)
    BY <1>18, <1>19
  <2>5. QED
    BY <1>7, <2>2, <2>3, <2>4
<1>9. pos' \in 0..FileSize /\ pos < FileSize
  BY <1>3, <1>7, <1>8, <1>18
<1>10. Types'
  <2>1. TypeOK'
    BY <1>2, <1>3, <1>4, <1>5, <1>6, <1>9
    DEF IInv, Types, TypeOK, Tasks, TaskPcs
  <2>2. readPos' \in Nat /\ pos' \in Int
    BY <1>2, <1>9
  <2>4. abort' \in BOOLEAN
    BY DEF IInv, Types, ReadTakes
  <2>3. QED
    BY <1>2, <1>4, <1>5, <1>6, <2>1, <2>2, <2>4 DEF IInv, Types
<1>11. Asked'
  BY <1>3, <1>4, <1>6 DEF IInv, Asked
<1>12. Filling'
  <2>1. task'.pc \in {"fill", "report"} => task' = task
    BY <1>5
  <2>2. task'.pc = "fill" =>
          task'.copy >= 1 /\ Len(fifo') + task'.copy <= Forwards + Backwards
    BY <1>2, <1>3, <2>1 DEF IInv, Filling, Tasks
  <2>3. QED
    BY <1>4, <2>1, <2>2 DEF IInv, Filling
<1>13. Ends'
  BY <1>3, <1>4, <1>8 DEF IInv, Ends
<1>14. Answered'
  BY <1>7 DEF Answered
<1>15. RingHeld'
  <2>1. SUFFICES ASSUME NEW i \in 1..Len(fifo')
                 PROVE  fifo'[i] = First' + i - 1
    BY DEF RingHeld
  <2>2. i + (readPos + n - readPos') \in 1..Len(fifo)
    BY <1>2
  <2>3. fifo'[i] = First + (i + (readPos + n - readPos')) - 1
    BY <1>2, <1>3, <2>2 DEF IInv, RingHeld
  <2>4. i \in Int
    BY <1>18
  <2>5. First + (i + (readPos + n - readPos')) - 1 = First' + i - 1
    <3>1. First = pos - readPos /\ First' = pos' - readPos'
      BY <1>7
    <3>2. QED
      BY <1>18, <1>19, <2>4, <3>1
  <2>6. QED
    BY <2>3, <2>5
<1>16. AtEnd'
  <2>1. result # "eof"
    BY <1>3, <1>9 DEF IInv, AtEnd
  <2>2. QED
    BY <1>6, <2>1 DEF AtEnd
<1>17. QED
  BY <1>10, <1>11, <1>12, <1>13, <1>14, <1>15, <1>16 DEF IInv

LEMMA ReadEndsKeeps ==
  ASSUME IInv, ReadEnds
  PROVE  IInv'
<1>1. Types'
  <2>1. main' = AtRest
    BY DEF ReadEnds, Return
  <2>2. main' \in Mains /\ main'.pc = "idle"
    BY <2>1 DEF AtRest, Mains, MainPcs
  <2>3. task' \in Tasks
    BY DEF IInv, Types, ReadEnds, WakeTask, Tasks, TaskPcs
  <2>4. QED
    BY <2>2, <2>3
    DEF IInv, Types, TypeOK, ReadEnds, ringVars, ioVars, Tasks, TaskPcs
<1>2. Asked'
  BY AsyncAssumption DEF IInv, ReadEnds, Interrupted, RingAhead, Return,
     AtRest, WakeTask, ringVars, ioVars, Types, Asked, Seeks, Tasks, Mains,
     TaskPcs, MainPcs, Errors
<1>3. Filling'
  BY AsyncAssumption DEF IInv, ReadEnds, Interrupted, RingAhead, Return,
     AtRest, WakeTask, ringVars, ioVars, Types, TypeOK, Asked, Filling,
     Seeks, Tasks, Mains, TaskPcs, MainPcs, Errors
<1>4. Ends'
  BY AsyncAssumption DEF IInv, ReadEnds, Interrupted, RingAhead, Return,
     AtRest, WakeTask, ringVars, ioVars, Types, TypeOK, Asked, Filling,
     Ends, Answered, First, Sought, Seeks, Tasks, Mains, TaskPcs, MainPcs,
     Errors
<1>5. Answered'
  BY AsyncAssumption DEF IInv, ReadEnds, Interrupted, RingAhead, Return,
     AtRest, WakeTask, ringVars, ioVars, Types, TypeOK, Asked, Filling,
     Ends, Answered, Sought, Seeks, Tasks, Mains, TaskPcs, MainPcs, Errors
<1>6. RingHeld'
  BY AsyncAssumption DEF IInv, ReadEnds, Interrupted, RingAhead, Return,
     AtRest, WakeTask, ringVars, ioVars, Types, TypeOK, Asked, Ends,
     Answered, RingHeld, First, Sought, Seeks, Tasks, Mains, TaskPcs,
     MainPcs, Errors
<1>7. AtEnd'
  BY AsyncAssumption DEF IInv, ReadEnds, Interrupted, RingAhead, Return,
     AtRest, WakeTask, ringVars, ioVars, Types, TypeOK, Asked, Ends,
     Answered, RingHeld, First, Sought, AtEnd, Seeks, Tasks, Mains, TaskPcs,
     MainPcs, Errors
<1>8. QED
  BY <1>1, <1>2, <1>3, <1>4, <1>5, <1>6, <1>7 DEF IInv

LEMMA ReadWaitsKeeps ==
  ASSUME IInv, ReadWaits
  PROVE  IInv'
<1>1. Types'
  BY AsyncAssumption DEF IInv, ReadWaits, Interrupted, WakeTask, ringVars,
     ioVars, Types, TypeOK, Seeks, Tasks, Mains, TaskPcs, MainPcs, Errors
<1>2. Asked'
  BY AsyncAssumption DEF IInv, ReadWaits, Interrupted, WakeTask, ringVars,
     ioVars, Types, Asked, Seeks, Tasks, Mains, TaskPcs, MainPcs, Errors
<1>3. Filling'
  BY AsyncAssumption DEF IInv, ReadWaits, Interrupted, WakeTask, ringVars,
     ioVars, Types, TypeOK, Asked, Filling, Seeks, Tasks, Mains, TaskPcs,
     MainPcs, Errors
<1>4. Ends'
  BY AsyncAssumption DEF IInv, ReadWaits, Interrupted, WakeTask, ringVars,
     ioVars, Types, TypeOK, Asked, Filling, Ends, Answered, First, Sought,
     Seeks, Tasks, Mains, TaskPcs, MainPcs, Errors
<1>5. Answered'
  BY AsyncAssumption DEF IInv, ReadWaits, Interrupted, WakeTask, ringVars,
     ioVars, Types, TypeOK, Asked, Filling, Ends, Answered, Sought, Seeks,
     Tasks, Mains, TaskPcs, MainPcs, Errors
<1>6. RingHeld'
  BY AsyncAssumption DEF IInv, ReadWaits, Interrupted, WakeTask, ringVars,
     ioVars, Types, TypeOK, Asked, Ends, Answered, RingHeld, First, Sought,
     Seeks, Tasks, Mains, TaskPcs, MainPcs, Errors
<1>7. AtEnd'
  BY AsyncAssumption DEF IInv, ReadWaits, Interrupted, WakeTask, ringVars,
     ioVars, Types, TypeOK, Asked, Ends, Answered, RingHeld, First, Sought,
     AtEnd, Seeks, Tasks, Mains, TaskPcs, MainPcs, Errors
<1>8. QED
  BY <1>1, <1>2, <1>3, <1>4, <1>5, <1>6, <1>7 DEF IInv

LEMMA SeekKeeps ==
  ASSUME IInv, NEW p \in 0..(FileSize + 1), Seek(p)
  PROVE  IInv'
<1>1. /\ fifo \in Seq(Int) /\ Len(fifo) \in Nat /\ readPos \in 0..Len(fifo)
      /\ pos \in 0..FileSize /\ FileSize \in Nat /\ ShortSeek \in Nat
      /\ main \in Mains /\ main.pc = "idle" /\ seek \in Seeks /\ p \in Int /\ p >= 0
      /\ seek.to \in 0..FileSize /\ (seek.request => abort)
      /\ seek.request => ~seek.completed
  BY AsyncAssumption, LenProperties DEF IInv, Types, TypeOK, Seek, Asked
<1>2. /\ fifo' = fifo /\ eof' = eof /\ error' = error /\ abort' = abort
      /\ interrupted' = interrupted /\ inner' = inner /\ task' = task
  BY DEF Seek, ioVars
<1>3. \/ /\ pos' = pos /\ readPos' = readPos /\ seek' = seek
         /\ \/ main' = main /\ result' # "eof"
            \/ /\ p > pos /\ result' = result
               /\ main' = [pc |-> "read", want |-> p - pos, got |-> 0, all |-> TRUE,
                           keep |-> FALSE]
      \/ /\ p < pos /\ p >= pos - readPos
         /\ readPos' = readPos + (p - pos) /\ pos' = p
         /\ seek' = seek /\ main' = main /\ result' = "ok"
      \/ /\ pos' = pos /\ readPos' = readPos /\ result' = result /\ p <= FileSize
         /\ seek' = [request |-> TRUE, to |-> p, completed |-> FALSE, ret |-> 0]
         /\ main' = [AtRest EXCEPT !.pc = "seek"]
  BY DEF Seek, InRing
<1>4. /\ pos' \in 0..FileSize /\ readPos' \in 0..Len(fifo)
      /\ pos' - readPos' = pos - readPos
  BY <1>1, <1>3
<1>5. /\ seek' \in Seeks /\ seek'.to \in 0..FileSize
      /\ \/ seek' = seek /\ main'.pc \in {"idle", "read"}
         \/ seek'.request /\ ~seek'.completed /\ main'.pc = "seek"
  <2>1. CASE seek' = seek /\ (main' = main \/ main'.pc = "read")
    BY <1>1, <2>1
  <2>2. CASE /\ p <= FileSize
             /\ seek' = [request |-> TRUE, to |-> p, completed |-> FALSE, ret |-> 0]
             /\ main' = [AtRest EXCEPT !.pc = "seek"]
    <3>1. p \in 0..FileSize /\ p \in Int
      BY <1>1, <2>2
    <3>2. main'.pc = "seek"
      BY <2>2 DEF AtRest
    <3>3. QED
      BY <2>2, <3>1, <3>2 DEF Seeks
  <2>3. QED
    BY <1>3, <2>1, <2>2
<1>6. /\ main' \in Mains /\ main'.pc \in {"idle", "read", "seek"}
      /\ main'.pc = "read" => main'.want >= 1
  <2>1. CASE main' = main
    BY <1>1, <2>1
  <2>2. CASE /\ p > pos
             /\ main' = [pc |-> "read", want |-> p - pos, got |-> 0, all |-> TRUE,
                         keep |-> FALSE]
    <3>1. p - pos \in Int /\ p - pos >= 1
      BY <1>1, <2>2
    <3>2. QED
      BY <2>2, <3>1 DEF Mains, MainPcs
  <2>3. CASE main' = [AtRest EXCEPT !.pc = "seek"]
    <3>1. main' = [pc |-> "seek", want |-> 0, got |-> 0, all |-> FALSE, keep |-> TRUE]
      BY <2>3 DEF AtRest
    <3>2. QED
      BY <3>1 DEF Mains, MainPcs
  <2>4. QED
    BY <1>3, <2>1, <2>2, <2>3
<1>7. ~Sought /\ ~Sought'
  BY <1>1, <1>5 DEF Sought
<1>8. First' = First
  BY <1>4, <1>7 DEF First
<1>9. Types'
  <2>1. TypeOK'
    BY <1>2, <1>4, <1>6 DEF IInv, Types, TypeOK
  <2>2. QED
    BY <1>1, <1>2, <1>4, <1>5, <1>6, <2>1 DEF IInv, Types
<1>10. Asked'
  BY <1>1, <1>2, <1>5, <1>6 DEF Asked
<1>11. Filling'
  BY <1>2 DEF IInv, Filling
<1>12. Ends'
  BY <1>2, <1>8 DEF IInv, Ends
<1>13. Answered'
  BY <1>7 DEF Answered
<1>14. RingHeld'
  BY <1>2, <1>8 DEF IInv, RingHeld
<1>15. AtEnd'
  BY <1>3 DEF IInv, AtEnd
<1>16. QED
  BY <1>9, <1>10, <1>11, <1>12, <1>13, <1>14, <1>15 DEF IInv

LEMMA SeekWaitsKeeps ==
  ASSUME IInv, SeekWaits
  PROVE  IInv'
<1>1. Types'
  BY AsyncAssumption DEF IInv, SeekWaits, Interrupted, WakeTask, ringVars,
     ioVars, Types, TypeOK, Seeks, Tasks, Mains, TaskPcs, MainPcs, Errors
<1>2. Asked'
  BY AsyncAssumption DEF IInv, SeekWaits, Interrupted, WakeTask, ringVars,
     ioVars, Types, Asked, Seeks, Tasks, Mains, TaskPcs, MainPcs, Errors
<1>3. Filling'
  BY AsyncAssumption DEF IInv, SeekWaits, Interrupted, WakeTask, ringVars,
     ioVars, Types, TypeOK, Asked, Filling, Seeks, Tasks, Mains, TaskPcs,
     MainPcs, Errors
<1>4. Ends'
  BY AsyncAssumption DEF IInv, SeekWaits, Interrupted, WakeTask, ringVars,
     ioVars, Types, TypeOK, Asked, Filling, Ends, Answered, First, Sought,
     Seeks, Tasks, Mains, TaskPcs, MainPcs, Errors
<1>5. Answered'
  BY AsyncAssumption DEF IInv, SeekWaits, Interrupted, WakeTask, ringVars,
     ioVars, Types, TypeOK, Asked, Filling, Ends, Answered, Sought, Seeks,
     Tasks, Mains, TaskPcs, MainPcs, Errors
<1>6. RingHeld'
  BY AsyncAssumption DEF IInv, SeekWaits, Interrupted, WakeTask, ringVars,
     ioVars, Types, TypeOK, Asked, Ends, Answered, RingHeld, First, Sought,
     Seeks, Tasks, Mains, TaskPcs, MainPcs, Errors
<1>7. AtEnd'
  BY AsyncAssumption DEF IInv, SeekWaits, Interrupted, WakeTask, ringVars,
     ioVars, Types, TypeOK, Asked, Ends, Answered, RingHeld, First, Sought,
     AtEnd, Seeks, Tasks, Mains, TaskPcs, MainPcs, Errors
<1>8. QED
  BY <1>1, <1>2, <1>3, <1>4, <1>5, <1>6, <1>7 DEF IInv

LEMMA SeekReturnsKeeps ==
  ASSUME IInv, SeekReturns
  PROVE  IInv'
<1>1. /\ main' = AtRest /\ result' \in {"exit", "ok", "failed"}
      /\ \/ abort' = TRUE /\ pos' = pos
         \/ /\ abort' = abort /\ abort = FALSE /\ seek.completed
            /\ pos' = IF seek.ret >= 0 THEN seek.ret ELSE pos
  BY DEF IInv, Types, SeekReturns, Return, Interrupted
<1>2. /\ fifo' = fifo /\ readPos' = readPos /\ seek' = seek /\ eof' = eof
      /\ error' = error /\ interrupted' = interrupted /\ inner' = inner
      /\ task' = task /\ main.pc = "seek"
  BY DEF SeekReturns, ringVars, ioVars
<1>3. /\ main' \in Mains /\ main'.pc = "idle"
  BY <1>1 DEF AtRest, Mains, MainPcs
<1>4. /\ seek \in Seeks /\ pos \in 0..FileSize /\ FileSize \in Nat
      /\ seek.completed =>
           /\ readPos = 0 /\ seek.ret \in 0..FileSize \cup {Failed}
           /\ ~abort /\ seek.ret = Failed => fifo = <<>> /\ eof /\ error = "failed"
  BY <1>2, AsyncAssumption DEF IInv, Types, TypeOK, Answered, Sought
<1>5. pos' \in 0..FileSize
  BY <1>1, <1>4 DEF Failed
<1>6. ~Sought' /\ First' = pos' - readPos
  BY <1>2, <1>3 DEF Sought, First
<1>7. abort' = TRUE \/ First' = First \/ (fifo = <<>> /\ eof /\ error = "failed")
  <2>1. CASE abort' = FALSE /\ seek.completed /\ seek.ret \in 0..FileSize
    <3>1. First = seek.ret
      BY <1>2, <2>1 DEF First, Sought
    <3>2. pos' = seek.ret /\ readPos = 0 /\ seek.ret \in Int
      BY <1>1, <1>4, <2>1
    <3>3. First' = seek.ret
      BY <1>6, <3>2
    <3>4. QED
      BY <3>1, <3>3
  <2>2. CASE abort' = FALSE /\ seek.completed /\ seek.ret = Failed
    BY <1>1, <1>4, <2>2
  <2>3. QED
    BY <1>1, <1>4, <2>1, <2>2
<1>8. Types'
  <2>1. TypeOK'
    BY <1>2, <1>3, <1>5 DEF IInv, Types, TypeOK
  <2>2. abort' \in BOOLEAN /\ pos' \in Int
    <3>1. abort' = TRUE \/ abort' = abort
      BY <1>1
    <3>2. abort \in BOOLEAN
      BY DEF IInv, Types
    <3>3. abort' \in BOOLEAN
      BY <3>1, <3>2, Zenon
    <3>4. QED
      BY <1>5, <3>3
  <2>3. QED
    BY <1>2, <1>3, <2>1, <2>2 DEF IInv, Types
<1>9. Asked'
  BY <1>1, <1>2, <1>3 DEF IInv, Types, Seeks, Asked
<1>10. Filling'
  BY <1>2 DEF IInv, Filling
<1>11. Ends'
  BY <1>1, <1>2, <1>7 DEF IInv, Types, Ends
<1>12. Answered'
  BY <1>6 DEF Answered
<1>13. RingHeld'
  BY <1>1, <1>2, <1>7 DEF IInv, RingHeld
<1>14. AtEnd'
  BY <1>1 DEF AtEnd
<1>15. QED
  BY <1>8, <1>9, <1>10, <1>11, <1>12, <1>13, <1>14 DEF IInv

LEMMA CloseKeeps ==
  ASSUME IInv, Close
  PROVE  IInv'
<1>1. Types'
  BY AsyncAssumption DEF IInv, Close, WakeTask, ringVars, ioVars, Types,
     TypeOK, Seeks, Tasks, Mains, TaskPcs, MainPcs, Errors
<1>2. Asked'
  BY AsyncAssumption DEF IInv, Close, WakeTask, ringVars, ioVars, Types,
     Asked, Seeks, Tasks, Mains, TaskPcs, MainPcs, Errors
<1>3. Filling'
  BY AsyncAssumption DEF IInv, Close, WakeTask, ringVars, ioVars, Types,
     TypeOK, Asked, Filling, Seeks, Tasks, Mains, TaskPcs, MainPcs, Errors
<1>4. Ends'
  BY AsyncAssumption DEF IInv, Close, WakeTask, ringVars, ioVars, Types,
     TypeOK, Asked, Filling, Ends, Answered, First, Sought, Seeks, Tasks,
     Mains, TaskPcs, MainPcs, Errors
<1>5. Answered'
  BY AsyncAssumption DEF IInv, Close, WakeTask, ringVars, ioVars, Types,
     TypeOK, Asked, Filling, Ends, Answered, Sought, Seeks, Tasks, Mains,
     TaskPcs, MainPcs, Errors
<1>6. RingHeld'
  BY AsyncAssumption DEF IInv, Close, WakeTask, ringVars, ioVars, Types,
     TypeOK, Asked, Ends, Answered, RingHeld, First, Sought, Seeks, Tasks,
     Mains, TaskPcs, MainPcs, Errors
<1>7. AtEnd'
  BY AsyncAssumption DEF IInv, Close, WakeTask, ringVars, ioVars, Types,
     TypeOK, Asked, Ends, Answered, RingHeld, First, Sought, AtEnd, Seeks,
     Tasks, Mains, TaskPcs, MainPcs, Errors
<1>8. QED
  BY <1>1, <1>2, <1>3, <1>4, <1>5, <1>6, <1>7 DEF IInv

LEMMA JoinedKeeps ==
  ASSUME IInv, Joined
  PROVE  IInv'
<1>1. Types'
  BY AsyncAssumption DEF IInv, Joined, ringVars, ioVars, Types, TypeOK,
     Seeks, Tasks, Mains, TaskPcs, MainPcs, Errors
<1>2. Asked'
  BY AsyncAssumption DEF IInv, Joined, ringVars, ioVars, Types, Asked,
     Seeks, Tasks, Mains, TaskPcs, MainPcs, Errors
<1>3. Filling'
  BY AsyncAssumption DEF IInv, Joined, ringVars, ioVars, Types, TypeOK,
     Asked, Filling, Seeks, Tasks, Mains, TaskPcs, MainPcs, Errors
<1>4. Ends'
  BY AsyncAssumption DEF IInv, Joined, ringVars, ioVars, Types, TypeOK,
     Asked, Filling, Ends, Answered, First, Sought, Seeks, Tasks, Mains,
     TaskPcs, MainPcs, Errors
<1>5. Answered'
  BY AsyncAssumption DEF IInv, Joined, ringVars, ioVars, Types, TypeOK,
     Asked, Filling, Ends, Answered, Sought, Seeks, Tasks, Mains, TaskPcs,
     MainPcs, Errors
<1>6. RingHeld'
  BY AsyncAssumption DEF IInv, Joined, ringVars, ioVars, Types, TypeOK,
     Asked, Ends, Answered, RingHeld, First, Sought, Seeks, Tasks, Mains,
     TaskPcs, MainPcs, Errors
<1>7. AtEnd'
  BY AsyncAssumption DEF IInv, Joined, ringVars, ioVars, Types, TypeOK,
     Asked, Ends, Answered, RingHeld, First, Sought, AtEnd, Seeks, Tasks,
     Mains, TaskPcs, MainPcs, Errors
<1>8. QED
  BY <1>1, <1>2, <1>3, <1>4, <1>5, <1>6, <1>7 DEF IInv

LEMMA InterruptKeeps ==
  ASSUME IInv, Interrupt
  PROVE  IInv'
<1>1. Types'
  BY AsyncAssumption DEF IInv, Interrupt, ringVars, ioVars, Types, TypeOK,
     Seeks, Tasks, Mains, TaskPcs, MainPcs, Errors
<1>2. Asked'
  BY AsyncAssumption DEF IInv, Interrupt, ringVars, ioVars, Types, Asked,
     Seeks, Tasks, Mains, TaskPcs, MainPcs, Errors
<1>3. Filling'
  BY AsyncAssumption DEF IInv, Interrupt, ringVars, ioVars, Types, TypeOK,
     Asked, Filling, Seeks, Tasks, Mains, TaskPcs, MainPcs, Errors
<1>4. Ends'
  BY AsyncAssumption DEF IInv, Interrupt, ringVars, ioVars, Types, TypeOK,
     Asked, Filling, Ends, Answered, First, Sought, Seeks, Tasks, Mains,
     TaskPcs, MainPcs, Errors
<1>5. Answered'
  BY AsyncAssumption DEF IInv, Interrupt, ringVars, ioVars, Types, TypeOK,
     Asked, Filling, Ends, Answered, Sought, Seeks, Tasks, Mains, TaskPcs,
     MainPcs, Errors
<1>6. RingHeld'
  BY AsyncAssumption DEF IInv, Interrupt, ringVars, ioVars, Types, TypeOK,
     Asked, Ends, Answered, RingHeld, First, Sought, Seeks, Tasks, Mains,
     TaskPcs, MainPcs, Errors
<1>7. AtEnd'
  BY AsyncAssumption DEF IInv, Interrupt, ringVars, ioVars, Types, TypeOK,
     Asked, Ends, Answered, RingHeld, First, Sought, AtEnd, Seeks, Tasks,
     Mains, TaskPcs, MainPcs, Errors
<1>8. QED
  BY <1>1, <1>2, <1>3, <1>4, <1>5, <1>6, <1>7 DEF IInv

LEMMA SpuriousWakeupKeeps ==
  ASSUME IInv, SpuriousWakeup
  PROVE  IInv'
<1>1. Types'
  BY AsyncAssumption DEF IInv, SpuriousWakeup, WakeTask, WakeMain, ringVars,
     ioVars, Types, TypeOK, Seeks, Tasks, Mains, TaskPcs, MainPcs, Errors
<1>2. Asked'
  BY AsyncAssumption DEF IInv, SpuriousWakeup, WakeTask, WakeMain, ringVars,
     ioVars, Types, Asked, Seeks, Tasks, Mains, TaskPcs, MainPcs, Errors
<1>3. Filling'
  BY AsyncAssumption DEF IInv, SpuriousWakeup, WakeTask, WakeMain, ringVars,
     ioVars, Types, TypeOK, Asked, Filling, Seeks, Tasks, Mains, TaskPcs,
     MainPcs, Errors
<1>4. Ends'
  BY AsyncAssumption DEF IInv, SpuriousWakeup, WakeTask, WakeMain, ringVars,
     ioVars, Types, TypeOK, Asked, Filling, Ends, Answered, First, Sought,
     Seeks, Tasks, Mains, TaskPcs, MainPcs, Errors
<1>5. Answered'
  BY AsyncAssumption DEF IInv, SpuriousWakeup, WakeTask, WakeMain, ringVars,
     ioVars, Types, TypeOK, Asked, Filling, Ends, Answered, Sought, Seeks,
     Tasks, Mains, TaskPcs, MainPcs, Errors
<1>6. RingHeld'
  BY AsyncAssumption DEF IInv, SpuriousWakeup, WakeTask, WakeMain, ringVars,
     ioVars, Types, TypeOK, Asked, Ends, Answered, RingHeld, First, Sought,
     Seeks, Tasks, Mains, TaskPcs, MainPcs, Errors
<1>7. AtEnd'
  BY AsyncAssumption DEF IInv, SpuriousWakeup, WakeTask, WakeMain, ringVars,
     ioVars, Types, TypeOK, Asked, Ends, Answered, RingHeld, First, Sought,
     AtEnd, Seeks, Tasks, Mains, TaskPcs, MainPcs, Errors
<1>8. QED
  BY <1>1, <1>2, <1>3, <1>4, <1>5, <1>6, <1>7 DEF IInv

LEMMA InitHolds == Init => IInv
<1> SUFFICES ASSUME Init PROVE IInv
  OBVIOUS
<1>1. /\ fifo = <<>> /\ Len(fifo) = 0 /\ fifo \in Seq(Int)
      /\ readPos = 0 /\ pos = 0 /\ inner = 0 /\ FileSize \in Nat
      /\ Forwards + Backwards \in Nat
  BY AsyncAssumption DEF Init
<1>2. /\ seek = NoSeek /\ seek \in Seeks
      /\ ~seek.request /\ ~seek.completed /\ seek.to = 0
  BY DEF Init, NoSeek, Seeks
<1>3. task \in Tasks /\ task.pc = "top"
  BY DEF Init, Tasks, TaskPcs, Errors
<1>4. main \in Mains /\ main.pc = "idle"
  BY DEF Init, AtRest, Mains, MainPcs
<1>5. TypeOK
  BY <1>1, <1>3, <1>4 DEF Init, TypeOK
<1>6. Types
  <2>1. error \in Errors /\ eof \in BOOLEAN /\ abort \in BOOLEAN /\ interrupted \in BOOLEAN
    BY DEF Init, Errors
  <2>2. readPos \in Nat /\ pos \in Int /\ inner \in Int
    BY <1>1
  <2>3. QED
    BY <1>1, <1>2, <1>3, <1>4, <1>5, <2>1, <2>2 DEF Types
<1>7. Asked /\ Filling /\ Answered /\ AtEnd
  BY <1>1, <1>2, <1>3, <1>4 DEF Init, Asked, Filling, Answered, AtEnd, Sought
<1>8. Ends /\ RingHeld
  BY <1>1, <1>2 DEF Init, Ends, RingHeld, First, Sought
<1>9. QED
  BY <1>6, <1>7, <1>8 DEF IInv

\* The invariant is kept by every step.
LEMMA Inductive == IInv /\ [Next]_vars => IInv'
<1> SUFFICES ASSUME IInv, [Next]_vars PROVE IInv'
  OBVIOUS
<1>1. CASE TaskStep
  BY <1>1, TaskEndsKeeps, TaskSeeksKeeps, TaskWaitsKeeps, TaskReadsKeeps,
     TaskFillsKeeps, TaskReportsKeeps DEF TaskStep
<1>2. CASE MainStep
  BY <1>2, ReadInterruptedKeeps, ReadTakesKeeps, ReadEndsKeeps, ReadWaitsKeeps,
     SeekWaitsKeeps, SeekReturnsKeeps, JoinedKeeps DEF MainStep
<1>3. CASE \E n \in 1..MaxRead : Read(n)
  BY <1>3, ReadKeeps
<1>4. CASE \E p \in 0..(FileSize + 1) : Seek(p)
  BY <1>4, SeekKeeps
<1>5. CASE Close \/ Interrupt \/ SpuriousWakeup
  BY <1>5, CloseKeeps, InterruptKeeps, SpuriousWakeupKeeps
<1>6. CASE UNCHANGED vars
  BY <1>6
  DEF vars, ringVars, ioVars, IInv, Types, TypeOK, Asked, Filling, Ends, Answered,
      RingHeld, AtEnd, First, Sought
<1>7. QED
  BY <1>1, <1>2, <1>3, <1>4, <1>5, <1>6 DEF Next

LEMMA Sound == IInv => RingIsFile
<1> SUFFICES ASSUME IInv PROVE RingIsFile
  OBVIOUS
<1>1. ReadsOn
  <2>1. SUFFICES ASSUME ~abort, ~eof, fifo # <<>>
                 PROVE  inner = fifo[Len(fifo)] + 1
    BY DEF ReadsOn
  <2>2. /\ Len(fifo) \in Nat /\ Len(fifo) \in 1..Len(fifo)
    BY <2>1, LenProperties, EmptySeq DEF IInv, Types
  <2>3. inner = First + Len(fifo) /\ fifo[Len(fifo)] = First + Len(fifo) - 1
    BY <2>1, <2>2 DEF IInv, Ends, RingHeld
  <2>4. First \in Int
    BY DEF IInv, Types, First, Seeks
  <2>5. QED
    BY <2>2, <2>3, <2>4
<1>2. QED
  BY <1>1 DEF IInv, Types, AtEnd, EofIsEnd, RingIsFile

\* Whatever the sizes, the ring holds the bytes of the file around the caller,
\* the task reads on where the ring ends, and the end of file is reported at the
\* end of the file only (ijkasync.c:227-301 and :323-371).
THEOREM RingSound == Spec => []RingIsFile
<1>1. Spec => []IInv
  BY InitHolds, Inductive, PTL DEF Spec
<1>2. QED
  BY <1>1, Sound, PTL

-----------------------------------------------------------------------------
\* While the caller waits for a seek it has delivered nothing.
Quiet == main.pc \in {"seek", "seekWait"} => out = <<>>

LEMMA QuietKept == IInv /\ Quiet /\ [Next]_vars => Quiet'
<1> SUFFICES ASSUME IInv, Quiet, [Next]_vars PROVE Quiet'
  OBVIOUS
<1>1. main \in Mains
  BY DEF IInv, Types
<1>2. CASE TaskStep \/ SpuriousWakeup
  <2>1. out' = out /\ (main' = main \/ main' = WakeMain)
    BY <1>2
    DEF TaskStep, TaskEnds, TaskSeeks, TaskWaits, TaskReads, TaskFills, TaskReports,
        SpuriousWakeup
  <2>2. main'.pc \in {"seek", "seekWait"} => main.pc \in {"seek", "seekWait"}
    BY <1>1, <2>1 DEF WakeMain, Mains
  <2>3. QED
    BY <2>1, <2>2 DEF Quiet
<1>3. CASE ReadInterrupted \/ ReadTakes \/ ReadEnds \/ ReadWaits \/ SeekReturns
  <2>1. main'.pc \in {"idle", "readWait"}
    <3>1. CASE main' = AtRest
      BY <3>1 DEF AtRest
    <3>2. CASE ReadTakes /\ main' # AtRest
      <4>1. PICK w, g : main' = [main EXCEPT !.want = w, !.got = g, !.pc = "readWait"]
        BY <3>2 DEF ReadTakes, Return
      <4>2. QED
        BY <1>1, <4>1 DEF Mains
    <3>3. CASE ReadWaits
      BY <1>1, <3>3 DEF ReadWaits, Mains
    <3>4. CASE ReadInterrupted \/ ReadEnds \/ SeekReturns
      <4>1. main' = AtRest
        BY <3>4 DEF ReadInterrupted, ReadEnds, SeekReturns, Return
      <4>2. QED
        BY <3>1, <4>1
    <3>5. QED
      BY <1>3, <3>1, <3>2, <3>3, <3>4
  <2>2. QED
    BY <2>1 DEF Quiet
<1>4. CASE SeekWaits
  BY <1>4 DEF SeekWaits, Quiet
<1>5. CASE (\E n \in 1..MaxRead : Read(n)) \/ (\E p \in 0..(FileSize + 1) : Seek(p))
  <2>1. out' = <<>>
    BY <1>5 DEF Read, Seek
  <2>2. QED
    BY <2>1 DEF Quiet
<1>6. CASE Close \/ Joined \/ Interrupt \/ UNCHANGED vars
  <2>1. main' = main \/ main'.pc \in {"join", "closed"}
    BY <1>1, <1>6 DEF Close, Joined, Interrupt, vars, Mains
  <2>2. out' = out
    BY <1>6 DEF Close, Joined, Interrupt, vars
  <2>3. QED
    BY <2>1, <2>2 DEF Quiet
<1>7. QED
  BY <1>2, <1>3, <1>4, <1>5, <1>6 DEF Next, TaskStep, MainStep

\* What a read takes from the ring are the bytes of the file at the caller.
LEMMA Taken ==
  ASSUME IInv, ~abort, NEW n \in 1..RingAhead, main.pc = "read"
  PROVE  SubSeq(fifo, readPos + 1, readPos + n) = [i \in 1..n |-> pos + i - 1]
<1>1. /\ fifo \in Seq(Int) /\ Len(fifo) \in Nat /\ readPos \in 0..Len(fifo)
      /\ pos \in Int /\ n \in Nat /\ n <= Len(fifo) - readPos
  BY LenProperties DEF IInv, Types, TypeOK, RingAhead
<1>2. First = pos - readPos
  BY DEF First, Sought
<1>3. \A i \in 1..n : fifo[readPos + i] = pos + i - 1
  <2>1. SUFFICES ASSUME NEW i \in 1..n PROVE fifo[readPos + i] = pos + i - 1
    OBVIOUS
  <2>2. readPos + i \in 1..Len(fifo)
    BY <1>1
  <2>3. fifo[readPos + i] = First + (readPos + i) - 1
    BY <2>2 DEF IInv, RingHeld
  <2>4. QED
    BY <1>1, <1>2, <2>3
<1> DEFINE taken == SubSeq(fifo, readPos + 1, readPos + n)
           bytes == [i \in 1..n |-> pos + i - 1]
<1>4. /\ taken \in Seq(Int) /\ Len(taken) = n
      /\ \A i \in 1..n : taken[i] = fifo[readPos + 1 + i - 1]
  <2>1. \A i \in (readPos + 1)..(readPos + n) : fifo[i] \in Int
    <3>1. SUFFICES ASSUME NEW i \in (readPos + 1)..(readPos + n) PROVE fifo[i] \in Int
      OBVIOUS
    <3>2. i \in 1..Len(fifo)
      BY <1>1
    <3>3. QED
      BY <1>1, <3>2, LenProperties
  <2>2. readPos + 1 \in Int /\ readPos + n \in Int
    BY <1>1
  <2>3. /\ taken \in Seq(Int)
        /\ Len(taken) = IF readPos + 1 <= readPos + n
                        THEN (readPos + n) - (readPos + 1) + 1 ELSE 0
        /\ \A i \in 1..((readPos + n) - (readPos + 1) + 1) :
             taken[i] = fifo[readPos + 1 + i - 1]
    BY <2>1, <2>2, SubSeqProperties
  <2>4. (readPos + n) - (readPos + 1) + 1 = n /\ readPos + 1 <= readPos + n
    BY <1>1
  <2>5. QED
    BY <2>3, <2>4
<1>5. bytes \in Seq(Int) /\ Len(bytes) = n
  <2>1. \A i \in 1..n : pos + i - 1 \in Int
    BY <1>1
  <2>2. bytes \in Seq(Int)
    BY <1>1, <2>1, IsASeq
  <2>3. QED
    BY <1>1, <2>2, LenProperties
<1>6. \A i \in 1..n : taken[i] = bytes[i]
  <2>1. SUFFICES ASSUME NEW i \in 1..n PROVE taken[i] = bytes[i]
    OBVIOUS
  <2>2. readPos + 1 + i - 1 = readPos + i
    BY <1>1
  <2>3. taken[i] = pos + i - 1
    BY <1>3, <1>4, <2>2
  <2>4. QED
    BY <2>3
<1>7. taken = bytes
  <2> HIDE DEF taken, bytes
  <2>1. QED
    BY <1>4, <1>5, <1>6, SeqEqual
<1>8. QED
  BY <1>7

\* Every step of the caller is a step of the stream, and no other thread moves
\* the caller.
LEMMA StreamStep == IInv /\ Quiet /\ [Next]_vars => [Stream!Next]_<<pos, out>>
<1> SUFFICES ASSUME IInv, Quiet, [Next]_vars PROVE [Stream!Next]_<<pos, out>>
  OBVIOUS
<1>1. pos \in 0..FileSize /\ FileSize \in Nat
  BY AsyncAssumption DEF IInv, Types, TypeOK
<1>2. ASSUME pos' \in 0..FileSize, out' = <<>> PROVE Stream!Next
  BY <1>2 DEF Stream!Next, Stream!Seek
<1>3. CASE TaskStep \/ Close \/ Interrupt \/ SpuriousWakeup \/ Joined \/ ReadInterrupted
           \/ ReadEnds \/ ReadWaits \/ SeekWaits \/ UNCHANGED vars
  <2>1. pos' = pos /\ out' = out
    BY <1>3
    DEF TaskStep, TaskEnds, TaskSeeks, TaskWaits, TaskReads, TaskFills, TaskReports,
        Close, Interrupt, SpuriousWakeup, Joined, ReadInterrupted, ReadEnds, ReadWaits,
        SeekWaits, vars
  <2>2. QED
    BY <2>1
<1>4. CASE \E n \in 1..MaxRead : Read(n)
  <2>1. pos' = pos /\ out' = <<>>
    BY <1>4 DEF Read
  <2>2. QED
    BY <1>1, <1>2, <2>1
<1>5. CASE \E p \in 0..(FileSize + 1) : Seek(p)
  <2>1. IInv' /\ out' = <<>>
    BY <1>5, SeekKeeps DEF Seek
  <2>2. pos' \in 0..FileSize
    BY <2>1 DEF IInv, Types, TypeOK
  <2>3. QED
    BY <1>2, <2>1, <2>2
<1>6. CASE SeekReturns
  <2>1. IInv' /\ out' = out /\ out = <<>>
    BY <1>6, SeekReturnsKeeps DEF SeekReturns, Quiet
  <2>2. pos' \in 0..FileSize
    BY <2>1 DEF IInv, Types, TypeOK
  <2>3. QED
    BY <1>2, <2>1, <2>2
<1>7. CASE ReadTakes
  <2> DEFINE n == IF main.want < RingAhead THEN main.want ELSE RingAhead
  <2>1. /\ main.pc = "read" /\ ~abort /\ RingAhead > 0
        /\ out' = IF main.keep THEN SubSeq(fifo, readPos + 1, readPos + n) ELSE <<>>
        /\ pos' = pos + n
    BY <1>7 DEF ReadTakes, Interrupted
  <2>2. n \in 1..RingAhead
    <3>1. RingAhead \in Int /\ main.want \in Int /\ main.want >= 1
      BY <2>1, LenProperties DEF IInv, Types, RingAhead, Mains, Asked
    <3>2. QED
      BY <2>1, <3>1
  <2>3. pos' \in 0..FileSize
    BY <1>7, ReadTakesKeeps DEF IInv, Types, TypeOK
  <2> HIDE DEF n
  <2>4. n \in 1..(FileSize - pos)
    BY <1>1, <2>1, <2>2, <2>3, LenProperties DEF IInv, Types, RingAhead
  <2>5. CASE main.keep
    <3>1. out' = [i \in 1..n |-> pos + i - 1]
      BY <2>1, <2>2, <2>5, Taken
    <3>2. QED
      BY <2>1, <2>4, <3>1 DEF Stream!Next, Stream!Read
  <2>6. CASE ~main.keep
    BY <1>2, <2>1, <2>3, <2>6
  <2>7. QED
    BY <2>5, <2>6
<1>8. QED
  BY <1>3, <1>4, <1>5, <1>6, <1>7 DEF Next, MainStep

\* The read-ahead protocol implements the stream: whatever the task does meanwhile,
\* a read delivers the bytes of the file from the position of the caller, and only
\* its seeks move that position (ijkasync.c:373-437 and :450-553).
THEOREM StreamImplemented == Spec => ImplementsStream
<1>1. Init => IInv /\ Quiet /\ Stream!Init
  <2>1. Init => Quiet /\ Stream!Init
    BY DEF Init, Quiet, AtRest, Stream!Init
  <2>2. QED
    BY <2>1, InitHolds
<1>2. IInv /\ Quiet /\ [Next]_vars => IInv' /\ Quiet'
  BY Inductive, QuietKept
<1>3. IInv /\ Quiet /\ [Next]_vars => [Stream!Next]_<<pos, out>>
  BY StreamStep
<1>4. QED
  BY <1>1, <1>2, <1>3, PTL DEF Spec, ImplementsStream, Stream!Spec
===============================================================================
