------------------------------ MODULE Thumbnails -----------------------------
(***************************************************************************)
(* The mode in which the player makes pictures instead of playing          *)
(* (get_frame_mode): the application asks for num pictures of a stretch of *)
(* the media, the thread of the decoder converts the first frame at or     *)
(* after each of num equidistant times, and reports it.                    *)
(*                                                                         *)
(* The two threads share ffp->get_img_info without a lock.  A report says  *)
(* 0 for a picture, 1 for the last one, -1 for a failure.  The application *)
(* does not seek.                                                          *)
(***************************************************************************)
EXTENDS Integers, Sequences

CONSTANTS
  LastPts,   \* the pts of the last frame; frames come at 0, 1, 2, ...
  Requests,  \* [start, end, num], a valid request if num > 0
  MaxRequests,
  MaxFaults, \* bound: conversions that fail or give no picture
  MaxTries   \* MAX_RETRY_CONVERT_IMAGE

VARIABLES
  info,     \* get_img_info: start, end, num and how many are missing (count)
  th,       \* the thread: pc, the frame, dst_pts, last_dst_pts, tries, a count
  app,      \* the request the application is writing, how many it may make
  reports,  \* [pts, result]
  ghost,    \* clean: one request only, and every picture was made; first: it
  faults

vars == <<info, th, app, reports, ghost, faults>>

NoInfo == [start |-> 0, end |-> 0, num |-> 0, count |-> 0]
Idle == [start |-> -1, end |-> -1, num |-> 0]

TypeOK ==
  /\ info.count \in Int /\ info.num \in Nat
  /\ th \in [pc : {"get", "check", "aim", "compare", "convert", "count", "decide",
                   "error", "end", "crashed"},
             pts : -1..LastPts, dst : Int, last : Int, tries : 0..MaxTries, c : Int]
  /\ app.writing \in Requests \union {Idle} /\ faults \in 0..MaxFaults

Init ==
  /\ info = NoInfo
  /\ th = [pc |-> "get", pts |-> -1, dst |-> -1, last |-> -1, tries |-> 0, c |-> 0]
  /\ app = [writing |-> Idle, left |-> MaxRequests]
  /\ reports = <<>>
  /\ ghost = [clean |-> TRUE, first |-> Idle]
  /\ faults = MaxFaults

Report(pts, result) == reports' = Append(reports, [pts |-> pts, result |-> result])

-----------------------------------------------------------------------------
(* The application: ffp_set_frame_at_time writes one field after the other. *)

Valid(r) == r.num > 0 /\ r.start >= 0 /\ r.end >= r.start

SetRange ==
  /\ app.writing = Idle /\ app.left > 0
  /\ \E r \in Requests :
       /\ app' = [writing |-> IF Valid(r) THEN r ELSE Idle, left |-> app.left - 1]
       /\ ghost' = [clean |-> ghost.first = Idle /\ Valid(r), first |-> r]
       /\ IF Valid(r)
          THEN info' = [info EXCEPT !.start = r.start, !.end = r.end] /\ UNCHANGED reports
          ELSE info' = [info EXCEPT !.count = 0] /\ Report(0, -1)
  /\ UNCHANGED <<th, faults>>

SetNum ==
  /\ app.writing # Idle
  /\ info' = [info EXCEPT !.num = app.writing.num, !.count = app.writing.num]
  /\ app' = [app EXCEPT !.writing = Idle]
  /\ UNCHANGED <<th, reports, ghost, faults>>

-----------------------------------------------------------------------------
(* The thread of the decoder (ffplay_video_thread).                        *)

At(pc) == th.pc = pc
Becomes(t) == th' = t /\ UNCHANGED app

GetFrame ==
  /\ At("get") /\ th.pts < LastPts
  /\ Becomes([th EXCEPT !.pc = "check", !.pts = @ + 1])
  /\ UNCHANGED <<info, reports, ghost, faults>>

Check ==
  /\ At("check")
  /\ Becomes([th EXCEPT !.pc = IF info.count <= 0 THEN "get" ELSE "aim"])
  /\ UNCHANGED <<info, reports, ghost, faults>>

\* The time of the next picture.  The division by num - 1 = 0, of a request for
\* one picture that replaces another, stops the program or gives 0.
Aim ==
  /\ At("aim")
  /\ LET t(dst) == [th EXCEPT !.pc = "compare", !.last = th.dst, !.dst = dst]
     IN IF th.dst < 0 THEN Becomes(t(info.start))
        ELSE IF info.num = 1
             THEN Becomes(t(th.dst)) \/ Becomes([th EXCEPT !.pc = "crashed"])
             ELSE Becomes(t(th.dst + (info.end - info.start) \div (info.num - 1)))
  /\ UNCHANGED <<info, reports, ghost, faults>>

\* Mutant: the frame is compared with the time of the picture before.
CompareWithLast ==
  /\ At("compare")
  /\ Becomes(IF th.pts >= th.last THEN [th EXCEPT !.pc = "convert", !.tries = 0]
             ELSE [th EXCEPT !.pc = "get", !.dst = th.last])
  /\ UNCHANGED <<info, reports, ghost, faults>>

\* A frame before that time is not converted, and the time forgotten.
Compare ==
  /\ At("compare")
  /\ Becomes(IF th.pts >= th.dst THEN [th EXCEPT !.pc = "convert", !.tries = 0]
             ELSE [th EXCEPT !.pc = "get", !.dst = th.last])
  /\ UNCHANGED <<info, reports, ghost, faults>>

\* convert_image writes a file; an encoder that gives no packet is no failure.
Convert ==
  /\ At("convert")
  /\ \/ /\ Becomes([th EXCEPT !.pc = "count", !.c = info.count])
        /\ UNCHANGED <<ghost, faults>>
     \/ /\ faults > 0 /\ faults' = faults - 1
        /\ Becomes([th EXCEPT !.pc = "decide"])
        /\ ghost' = [ghost EXCEPT !.clean = FALSE]
  /\ UNCHANGED <<info, reports>>

ConvertFails ==
  /\ At("convert") /\ faults > 0
  /\ faults' = faults - 1
  /\ Becomes(IF th.tries < MaxTries THEN [th EXCEPT !.tries = @ + 1]
             ELSE [th EXCEPT !.pc = "error"])
  /\ UNCHANGED <<info, reports, ghost>>

\* img_info->count--, which may undo what the application writes meanwhile.
Count ==
  /\ At("count")
  /\ info' = [info EXCEPT !.count = th.c - 1]
  /\ Report(th.pts, IF th.c - 1 <= 0 THEN 1 ELSE 0)
  /\ Becomes([th EXCEPT !.pc = "decide"])
  /\ UNCHANGED <<ghost, faults>>

Decide ==
  /\ At("decide")
  /\ Becomes([th EXCEPT !.pc = IF info.count <= 0 THEN "end" ELSE "get"])
  /\ UNCHANGED <<info, reports, ghost, faults>>

\* Mutant: the thread gives up and does not say so.
GiveUpSilently ==
  /\ At("error")
  /\ Becomes([th EXCEPT !.pc = "end"])
  /\ UNCHANGED <<info, reports, ghost, faults>>

GiveUp ==
  /\ At("error")
  /\ Report(0, -1)
  /\ Becomes([th EXCEPT !.pc = "end"])
  /\ UNCHANGED <<info, ghost, faults>>

ThreadStep ==
  \/ GetFrame \/ Check \/ Aim \/ Compare \/ Convert \/ ConvertFails
  \/ Count \/ Decide \/ GiveUp
AppStep == SetRange \/ SetNum
Next == ThreadStep \/ AppStep
Spec == Init /\ [][Next]_vars

\* The decoder goes on, the application finishes what it writes.
FairSpec == Spec /\ WF_vars(ThreadStep) /\ WF_vars(SetNum)

-----------------------------------------------------------------------------
(* Properties.                                                             *)

Pictures == {i \in 1..Len(reports) : reports[i].result >= 0}

\* The pictures of a request that is not replaced are those of its num times:
\* the i-th is at or after start + (i - 1) * interval, later than the one before
\* it, and the num-th is reported as the last one.
PicturesInPlace ==
  ghost.clean /\ ghost.first # Idle =>
    LET r == ghost.first
        step == IF r.num = 1 THEN 0 ELSE (r.end - r.start) \div (r.num - 1)
    IN \A i \in Pictures :
         /\ i <= r.num /\ reports[i].pts >= r.start + (i - 1) * step
         /\ i > 1 => reports[i].pts > reports[i - 1].pts
         /\ (reports[i].result = 1) = (i = r.num)

\* A thread that has ended has told the application that there is no more.
EndIsTold == th.pc = "end" => \E i \in 1..Len(reports) : reports[i].result # 0

\* Only a request for one picture that replaces another divides by zero.
OnlyReplacedCrashes == th.pc = "crashed" => ~ghost.clean

\* A request comes to an end, unless the media ends before.
Waiting == info.count > 0 /\ th.pc # "end"
Answered == ~Waiting \/ th.pts = LastPts \/ th.pc = "crashed"
=============================================================================
