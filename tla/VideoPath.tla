------------------------------ MODULE VideoPath -----------------------------
(***************************************************************************)
(* The way of the pictures and the subtitles through ff_ffplay.c: the      *)
(* video decoder copies a picture into a slot of the picture queue         *)
(* (queue_picture), whose bitmap is allocated again for another size; the  *)
(* subtitle decoder fills the subtitle queue; the thread of video_refresh  *)
(* takes the next picture, lets subtitles go whose time is over, displays  *)
(* the picture and sends the text of the subtitle that has begun.          *)
(* read_thread seeks, and the application may close the subtitles.         *)
(***************************************************************************)
EXTENDS Integers, Sequences
LOCAL INSTANCE SequencesExt

CONSTANTS Sizes,      \* of pictures
          Subtitles,  \* of a segment: [start, end, lines], lines of letters
          NewLine,
          RingSize,   \* of the picture queue
          SubSize,    \* SUBPICTURE_QUEUE_SIZE
          Length,     \* pictures of a segment, one per unit of time
          Budgets     \* how many seeks, failures and closes happen

VARIABLES serial,     \* of the queues of the decoders
          decoded,    \* serial, pictures and subtitles decoded so far
          slots, windex, pictq,
          shown,      \* the picture displayed last, as the queue keeps it
          subq, subOpen,
          clock,      \* vidclk
          render,     \* the thread of video_refresh
          seekLoad,   \* latest_video_seek_load_serial, 0 for none
          toldSize, toldText, toldSeek, \* what the application was told last
          recent,     \* the sizes of the last RingSize pictures queued in a row
          swallowed,  \* a report of a seek was taken by an older picture
          left        \* what is left of a budget

vars == <<serial, decoded, slots, windex, pictq, shown, subq, subOpen, clock,
          render, seekLoad, toldSize, toldText, toldSeek, recent, swallowed, left>>

NoSize    == 0
NoPicture == [pts |-> 0, serial |-> 0, size |-> NoSize, slot |-> 1]
NoText    == <<>>

Init ==
  /\ serial = 1 /\ decoded = [serial |-> 1, pictures |-> 0, subtitles |-> 0]
  /\ slots = [i \in 1..RingSize |-> [size |-> NoSize, bmp |-> FALSE]]
  /\ windex = 1 /\ pictq = <<>> /\ shown = NoPicture
  /\ subq = <<>> /\ subOpen = TRUE /\ clock = 0 /\ render = "idle"
  /\ seekLoad = 0 /\ toldSize = NoSize /\ toldText = NoText /\ toldSeek = 0
  /\ recent = <<>> /\ swallowed = FALSE /\ left \in Budgets

-----------------------------------------------------------------------------
\* The decoders.

\* The decoders take the flush marker.
Flush ==
  /\ decoded.serial # serial
  /\ decoded' = [serial |-> serial, pictures |-> 0, subtitles |-> 0]
  /\ UNCHANGED <<serial, slots, windex, pictq, shown, subq, subOpen, clock, render,
                 seekLoad, toldSize, toldText, toldSeek, recent, swallowed, left>>

\* Mutant: only a larger picture gets another bitmap.
FitsSmaller(slot, size) == slot.bmp /\ slot.size >= size

\* The slot has a bitmap of the size of the picture.
Fits(slot, size) == slot.bmp /\ slot.size = size

\* queue_picture after the accurate seek: a slot that does not fit gets a new
\* bitmap (alloc_picture), and the application is told of a size other than
\* the one the slot had.  Without bitmap the picture is not queued.
QueuePicture(size, allocated) ==
  LET slot == slots[windex]
      fits == Fits(slot, size) IN
  /\ decoded.serial = serial /\ decoded.pictures < Length
  /\ Len(pictq) + (IF shown = NoPicture THEN 0 ELSE 1) < RingSize
  /\ decoded' = [decoded EXCEPT !.pictures = @ + 1]
  /\ slots' = IF fits THEN slots
              ELSE [slots EXCEPT ![windex] = [size |-> size, bmp |-> allocated]]
  /\ toldSize' = IF ~fits /\ slot.size # size THEN size ELSE toldSize
  /\ left' = IF allocated THEN left ELSE [left EXCEPT !.failures = @ - 1]
  /\ ~allocated => ~fits /\ left.failures > 0
  /\ IF allocated
     THEN /\ pictq' = Append(pictq, [pts |-> decoded.pictures + 1, size |-> size,
                                     serial |-> decoded.serial, slot |-> windex])
          /\ windex' = (windex % RingSize) + 1
          /\ recent' = IF Len(recent) < RingSize THEN Append(recent, size)
                       ELSE Append(Tail(recent), size)
     ELSE recent' = <<>> /\ UNCHANGED <<pictq, windex>>
  /\ UNCHANGED <<serial, shown, subq, subOpen, clock, render, seekLoad, toldText,
                 toldSeek, swallowed>>

\* subtitle_thread
QueueSubtitle ==
  /\ subOpen /\ decoded.serial = serial
  /\ decoded.subtitles < Len(Subtitles) /\ Len(subq) < SubSize
  /\ decoded' = [decoded EXCEPT !.subtitles = @ + 1]
  /\ subq' = Append(subq, [serial |-> decoded.serial, uploaded |-> 0,
                           sub |-> Subtitles[decoded.subtitles + 1]])
  /\ UNCHANGED <<serial, slots, windex, pictq, shown, subOpen, clock, render,
                 seekLoad, toldSize, toldText, toldSeek, recent, swallowed, left>>

-----------------------------------------------------------------------------
\* parse_ass_subtitle: the lines of an ASS event are copied into a buffer.

\* memcpy into the buffer at idx, which keeps what is behind
Overwrite(out, idx, s) ==
  SubSeq(out, 1, idx) \o s \o SubSeq(out, idx + Len(s) + 1, Len(out))

\* Mutant: the line break is copied over by the next line.
CopyLineOver(acc, line) ==
  [out |-> Overwrite(acc.out, acc.idx, line \o <<NewLine>>), idx |-> Len(line)]

\* One line with its break.  The index of the next line is counted from the
\* beginning of this line, not of the buffer (idx = n + 1).
CopyLine(acc, line) ==
  [out |-> Overwrite(acc.out, acc.idx, line \o <<NewLine>>), idx |-> Len(line) + 1]

\* The last line ends the text where the copy stands, without a last line break.
Parsed(lines) ==
  LET acc  == FoldLeft(CopyLine, [out |-> <<>>, idx |-> 0], Front(lines))
      text == SubSeq(acc.out, 1, acc.idx) \o Last(lines)
  IN IF text # <<>> /\ Last(text) = NewLine THEN Front(text) ELSE text

-----------------------------------------------------------------------------
\* The thread of video_refresh.

\* uploaded is the serial of the picture a subtitle was sent with, 0 for none.
Uploaded(s) == s.uploaded # 0

\* Is the time of the first subtitle over at time t?
Over(subs, t) ==
  /\ subs # <<>>
  /\ \/ Head(subs).serial # serial
     \/ t > Head(subs).sub.end
     \/ Len(subs) > 1 /\ t > subs[2].sub.start

\* Mutant: a subtitle goes without the empty text.
ExpireSilently ==
  /\ render = "subtitles"
  /\ IF subOpen /\ Over(subq, clock)
     THEN subq' = Tail(subq) /\ UNCHANGED <<pictq, shown, render>>
     ELSE /\ shown' = Head(pictq) /\ pictq' = Tail(pictq)
          /\ render' = "display" /\ UNCHANGED subq
  /\ UNCHANGED <<serial, decoded, slots, windex, subOpen, clock, seekLoad, toldSize,
                 toldText, toldSeek, recent, swallowed, left>>

\* Subtitles go whose time is over; the text of one that was shown is taken
\* away.  Then the picture is the one to display.
Expire ==
  /\ render = "subtitles"
  /\ IF subOpen /\ Over(subq, clock)
     THEN /\ subq' = Tail(subq)
          /\ toldText' = IF Uploaded(Head(subq)) THEN NoText ELSE toldText
          /\ UNCHANGED <<pictq, shown, render>>
     ELSE /\ shown' = Head(pictq) /\ pictq' = Tail(pictq)
          /\ render' = "display" /\ UNCHANGED <<subq, toldText>>
  /\ UNCHANGED <<serial, decoded, slots, windex, subOpen, clock, seekLoad, toldSize,
                 toldSeek, recent, swallowed, left>>

\* The next picture, unless it is outdated, sets the video clock.
Refresh ==
  /\ render = "idle" /\ pictq # <<>>
  /\ IF Head(pictq).serial = serial
     THEN /\ clock' = Head(pictq).pts /\ render' = "subtitles"
          /\ UNCHANGED <<pictq, shown>>
     ELSE /\ shown' = Head(pictq) /\ pictq' = Tail(pictq)
          /\ UNCHANGED <<clock, render>>
  /\ UNCHANGED <<serial, decoded, slots, windex, subq, subOpen, seekLoad, toldSize,
                 toldText, toldSeek, recent, swallowed, left>>

\* Mutant: a subtitle is sent before its time.
BegunEarly(s, t) == t + 1 >= s.sub.start

Begun(s, t) == t >= s.sub.start

\* video_image_display2: the text of a subtitle that has begun is sent once;
\* the picture is displayed.
Display ==
  /\ render = "display"
  /\ IF subOpen /\ subq # <<>> /\ Begun(Head(subq), shown.pts) /\ ~Uploaded(Head(subq))
     THEN /\ subq' = <<[Head(subq) EXCEPT !.uploaded = shown.serial]>> \o Tail(subq)
          /\ toldText' = Parsed(Head(subq).sub.lines)
     ELSE UNCHANGED <<subq, toldText>>
  /\ render' = IF seekLoad = shown.serial THEN "report" ELSE "idle"
  /\ UNCHANGED <<serial, decoded, slots, windex, pictq, shown, subOpen, clock,
                 seekLoad, toldSize, toldSeek, recent, swallowed, left>>

\* The first picture of a seek is reported.  The serial is taken out whatever
\* it is by now.
Report ==
  /\ render = "report"
  /\ render' = "idle"
  /\ seekLoad' = 0
  /\ toldSeek' = IF seekLoad = shown.serial THEN seekLoad ELSE toldSeek
  /\ swallowed' = (swallowed \/ seekLoad # shown.serial)
  /\ UNCHANGED <<serial, decoded, slots, windex, pictq, shown, subq, subOpen, clock,
                 toldSize, toldText, recent, left>>

-----------------------------------------------------------------------------
\* Mutant: the serial is noted before the queue has the new one.
SeekNotesOld ==
  /\ left.seeks > 0 /\ left' = [left EXCEPT !.seeks = @ - 1]
  /\ serial' = serial + 1 /\ seekLoad' = serial
  /\ UNCHANGED <<decoded, slots, windex, pictq, shown, subq, subOpen, clock, render,
                 toldSize, toldText, toldSeek, recent, swallowed>>

\* read_thread flushes the queues and notes the serial to be reported; what
\* it reads afterwards has that serial.
Seek ==
  /\ left.seeks > 0 /\ left' = [left EXCEPT !.seeks = @ - 1]
  /\ serial' = serial + 1 /\ seekLoad' = serial + 1
  /\ UNCHANGED <<decoded, slots, windex, pictq, shown, subq, subOpen, clock, render,
                 toldSize, toldText, toldSeek, recent, swallowed>>

\* The application deselects the subtitles: subtitle_st is NULL, and what the
\* queue holds stays there.
CloseSubtitles ==
  /\ subOpen /\ left.closes > 0 /\ left' = [left EXCEPT !.closes = @ - 1]
  /\ subOpen' = FALSE
  /\ UNCHANGED <<serial, decoded, slots, windex, pictq, shown, subq, clock, render,
                 seekLoad, toldSize, toldText, toldSeek, recent, swallowed>>

RefreshStep == Refresh \/ Expire \/ Display \/ Report

Next ==
  \/ Flush \/ QueueSubtitle \/ Seek \/ CloseSubtitles \/ RefreshStep
  \/ \E size \in Sizes, allocated \in BOOLEAN : QueuePicture(size, allocated)

Spec == Init /\ [][Next]_vars

-----------------------------------------------------------------------------
TypeOK ==
  /\ windex \in 1..RingSize /\ Len(pictq) <= RingSize /\ Len(subq) <= SubSize
  /\ render \in {"idle", "subtitles", "display", "report"}
  /\ toldSize \in Sizes \cup {NoSize} /\ seekLoad \in 0..serial
  /\ render = "subtitles" => pictq # <<>>

\* A picture that waits or is shown is in a slot whose bitmap has its size,
\* and no other picture is in that slot.
OwnBitmap ==
  LET all == pictq \o (IF shown = NoPicture THEN <<>> ELSE <<shown>>) IN
  \A i \in DOMAIN all :
    /\ slots[all[i].slot] = [size |-> all[i].size, bmp |-> TRUE]
    /\ \A j \in DOMAIN all : i # j => all[i].slot # all[j].slot

\* When RingSize pictures, queued in a row, have the same size, the application knows
\* that size.  It may be wrong for fewer: each slot compares with the size it
\* had itself.
SizeSettles ==
  \A s \in Sizes :
    Len(recent) = RingSize /\ (\A i \in DOMAIN recent : recent[i] = s)
      => toldSize = s

\* The text the application shows is that of the first subtitle in the queue, line
\* by line: no subtitle goes without its text being taken away.  It has begun at the
\* picture shown, unless it was sent with a picture from before a seek, which was on
\* its way to the display.  Excepted are texts of three and more lines, and the text
\* that is shown when the subtitles are closed.
Joined(lines) == IF Len(lines) = 1 THEN lines[1]
                 ELSE lines[1] \o <<NewLine>> \o lines[2]
TextShown ==
  subOpen /\ toldText # NoText =>
    /\ subq # <<>> /\ Uploaded(Head(subq))
    /\ Len(Head(subq).sub.lines) <= 2 => toldText = Joined(Head(subq).sub.lines)
    /\ shown.serial = Head(subq).serial /\ Head(subq).uploaded = shown.serial =>
         Head(subq).sub.start <= shown.pts

\* When a picture from after the last seek is on display, that seek was
\* reported; unless a picture from before, displayed while the seek came,
\* took the report out unread.
SeekReported ==
  shown.serial = serial /\ serial > 1 /\ render = "idle" /\ ~swallowed =>
    toldSeek = serial

VideoSound == TypeOK /\ OwnBitmap /\ SizeSettles /\ TextShown /\ SeekReported
=============================================================================
