-------------------------------- MODULE Watch --------------------------------
(***************************************************************************)
(* The statistics thread (stat_thread): every few seconds it compares what *)
(* was read and decoded with the sample before and reports what stands     *)
(* still (watchout_abnormal_stat).  The other threads go on meanwhile;     *)
(* nothing is locked.                                                      *)
(***************************************************************************)
EXTENDS Integers

CONSTANTS
  Check,    \* check_audio_block = check_no_pkt_recv = check_video_block
  Live,     \* the values of live_quick_start
  MaxReads, MaxToggles

VARIABLES
  live,   \* live_quick_start
  stat,   \* read and decoded: vRead, aRead, vDec, aDec; taken from the audio queue
  play,   \* paused by the application, eof, rendered, audio decoder dead
  th,     \* pc, prev and cur samples
  watch,  \* FFWatchState: head, audio, noVideo, noAudio, video
  told,   \* what the last sample reported, until the audio queue moves
  ghost,  \* intervals in a row: held, vQuiet, aQuiet, vStuck; skipped
  toggles

vars == <<live, stat, play, th, watch, told, ghost, toggles>>

Alarms == {"audioNotConsumed", "noVideo", "noAudio", "videoBlocked"}
Counts == 0..MaxReads

TypeOK ==
  /\ stat \in [vRead : Counts, aRead : Counts, vDec : Counts, aDec : Counts, taken : Counts]
  /\ play \in [paused : BOOLEAN, eof : BOOLEAN, rendered : BOOLEAN, dead : BOOLEAN]
  /\ th.pc \in {"wait", "watch"} /\ told \subseteq Alarms
  /\ \A c \in {"audio", "noVideo", "noAudio", "video"} : watch[c] \in 0..Check

Init ==
  /\ live \in Live
  /\ stat = [vRead |-> 0, aRead |-> 0, vDec |-> 0, aDec |-> 0, taken |-> 0]
  /\ play = [paused |-> FALSE, eof |-> FALSE, rendered |-> FALSE, dead |-> FALSE]
  /\ th = [pc |-> "wait", prev |-> stat, cur |-> stat]
  /\ watch = [head |-> 0, audio |-> 0, noVideo |-> 0, noAudio |-> 0, video |-> 0]
  /\ told = {}
  /\ ghost = [held |-> 0, vQuiet |-> 0, aQuiet |-> 0, vStuck |-> 0, skipped |-> FALSE]
  /\ toggles = MaxToggles

\* The first packet of the audio queue; 0: it is empty.
First == IF stat.taken < stat.aRead THEN stat.taken + 1 ELSE 0

-----------------------------------------------------------------------------
(* The other threads.                                                      *)

Others == UNCHANGED <<live, th, watch>>

ReadVideo ==
  /\ stat.vRead < MaxReads /\ ~play.eof
  /\ stat' = [stat EXCEPT !.vRead = @ + 1]
  /\ Others /\ UNCHANGED <<play, told, ghost, toggles>>
ReadAudio ==
  /\ stat.aRead < MaxReads /\ ~play.eof
  /\ stat' = [stat EXCEPT !.aRead = @ + 1]
  /\ Others /\ UNCHANGED <<play, told, ghost, toggles>>
DecodeVideo ==
  /\ stat.vDec < stat.vRead
  /\ stat' = [stat EXCEPT !.vDec = @ + 1]
  /\ play' = [play EXCEPT !.rendered = TRUE]
  /\ Others /\ UNCHANGED <<told, ghost, toggles>>
DecodeAudio ==
  /\ First # 0 /\ ~play.dead
  /\ stat' = [stat EXCEPT !.aDec = @ + 1, !.taken = @ + 1]
  /\ ghost' = [ghost EXCEPT !.held = 0] /\ told' = {}
  /\ Others /\ UNCHANGED <<play, toggles>>

\* A seek flushes the queue.
Flush ==
  /\ First # 0 /\ toggles > 0 /\ toggles' = toggles - 1
  /\ stat' = [stat EXCEPT !.taken = stat.aRead]
  /\ ghost' = [ghost EXCEPT !.held = 0] /\ told' = {}
  /\ Others /\ UNCHANGED play
Toggle ==
  /\ toggles > 0 /\ toggles' = toggles - 1
  /\ \/ play' = [play EXCEPT !.paused = ~@]
     \/ ~play.eof /\ play' = [play EXCEPT !.eof = TRUE]
     \/ ~play.dead /\ play' = [play EXCEPT !.dead = TRUE]
  /\ Others /\ UNCHANGED <<stat, told, ghost>>

-----------------------------------------------------------------------------
(* The statistics thread.                                                  *)

InARow(quiet, n) == IF quiet THEN (IF n < Check THEN n + 1 ELSE n) ELSE 0

\* After 5 seconds it takes a sample.
Sample ==
  /\ th.pc = "wait"
  /\ th' = [pc |-> "watch", prev |-> th.cur, cur |-> stat]
  /\ told' = {}
  /\ LET p == th.cur
         same(f) == stat[f] = p[f]
     IN ghost' = [ghost EXCEPT
          !.vQuiet = InARow(same("vRead"), @), !.aQuiet = InARow(same("aRead"), @),
          !.vStuck = InARow(/\ same("vDec") /\ stat.vDec > 0 /\ ~same("aDec")
                            /\ ~same("vRead") /\ ~same("aRead"), @)]
  /\ UNCHANGED <<live, stat, play, watch, toggles>>

\* A player that is paused or at its end is not watched, nor before it renders.
Skips == play.paused \/ play.eof \/ ~play.rendered

\* Mutant: whatever is first in the queue counts as the packet of before.
StillFirstAny == First # 0
\* The packet that was the first of the audio queue is still there.
StillFirst == First # 0 /\ First = watch.head

AfterAudio(w) ==
  IF First = 0 THEN w
  ELSE IF ~StillFirst THEN [w EXCEPT !.audio = 0, !.head = First]
  ELSE [w EXCEPT !.audio = IF @ + 1 >= Check THEN 0 ELSE @ + 1]

\* Mutant: packets that were read do not reset the count.
CountQuietAlways(quiet, n) == IF quiet THEN n + 1 ELSE n
CountQuiet(quiet, n) == IF quiet THEN n + 1 ELSE 0

\* What is compared are the samples; a sample that was skipped does not reset the
\* counts.
AfterReads(w) ==
  LET same(f) == th.cur[f] = th.prev[f]
      noV == CountQuiet(same("vRead"), w.noVideo)
      noA == CountQuiet(same("aRead"), w.noAudio)
      stuck == /\ th.cur.vDec > 0 /\ same("vDec") /\ ~same("aDec")
               /\ noV = 0 /\ noA = 0
  IN [w EXCEPT !.noVideo = noV, !.noAudio = noA, !.video = CountQuiet(stuck, w.video)]

Reset(n) == IF n >= Check THEN 0 ELSE n
Watches ==
  /\ th.pc = "watch" /\ ~Skips
  /\ LET audio == StillFirst /\ watch.audio + 1 >= Check
         w == AfterAudio(watch)
         v == IF live THEN AfterReads(w) ELSE w
     IN /\ told' = {a \in Alarms :
                      \/ a = "audioNotConsumed" /\ audio
                      \/ a = "noVideo" /\ v.noVideo >= Check
                      \/ a = "noAudio" /\ v.noAudio >= Check
                      \/ a = "videoBlocked" /\ v.video >= Check}
        /\ watch' = [v EXCEPT !.noVideo = Reset(@), !.noAudio = Reset(@), !.video = Reset(@)]
        /\ ghost' = IF First # 0 /\ First = watch.head
                    THEN [ghost EXCEPT !.held = IF @ < Check THEN @ + 1 ELSE @] ELSE ghost
  /\ th' = [th EXCEPT !.pc = "wait", !.prev = th.cur]
  /\ UNCHANGED <<live, stat, play, toggles>>

SkipsSample ==
  /\ th.pc = "watch" /\ Skips
  /\ th' = [th EXCEPT !.pc = "wait", !.prev = th.cur]
  /\ ghost' = [ghost EXCEPT !.skipped = TRUE]
  /\ UNCHANGED <<live, stat, play, watch, told, toggles>>

StatStep == Sample \/ Watches \/ SkipsSample
Next ==
  \/ ReadVideo \/ ReadAudio \/ DecodeVideo \/ DecodeAudio \/ Flush \/ Toggle
  \/ StatStep
Spec == Init /\ [][Next]_vars
FairSpec == Spec /\ WF_vars(StatStep)

-----------------------------------------------------------------------------
(* Properties.                                                             *)

\* An alarm of the audio queue is true: its first packet was not taken while the
\* player was sampled Check times.  So is one about what was read or shown, unless
\* samples were skipped in between.
AlarmsTrue ==
  /\ "audioNotConsumed" \in told => ghost.held >= Check
  /\ ~ghost.skipped =>
       /\ "noVideo" \in told => ghost.vQuiet >= Check
       /\ "noAudio" \in told => ghost.aQuiet >= Check
       /\ "videoBlocked" \in told => ghost.vStuck >= Check

\* A decoder that has stopped is noticed, as long as the player is watched.
Stuck == play.dead /\ First # 0 /\ ~Skips
Noticed == "audioNotConsumed" \in told \/ ~Stuck
=============================================================================
