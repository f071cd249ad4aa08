-------------------------- MODULE IjkPlayerProofs ---------------------------
(***************************************************************************)
(* Proofs about the player's control path (IjkPlayer): every variable      *)
(* keeps its type, the pause control never stays paused for no reason, a   *)
(* player that says PAUSED is held, only two known steps strand a player   *)
(* that says STARTED, the newest seek is the one reported, and ijkmp_stop  *)
(* is final.                                                               *)
(***************************************************************************)
EXTENDS IjkPlayer, CommonLemmas, TLAPS

\* The pause control has its type and runs when nothing holds it.
GoodControl(p) == p \in PlayControls /\ RunsWhenNotHeld(p)

(***************************************************************************)
(* stream_update_pause_l alone makes the control good, whatever it was.    *)
(***************************************************************************)
LEMMA StreamUpdatePauseGood ==
  ASSUME NEW p \in PlayControls
  PROVE  GoodControl(StreamUpdatePause(p))
BY DEF GoodControl, StreamUpdatePause, StreamTogglePause, Held, PlayControls,
       RunsWhenNotHeld

(***************************************************************************)
(* toggle_pause makes the control good.                                    *)
(***************************************************************************)
LEMMA TogglePauseGood ==
  ASSUME NEW p \in PlayControls, NEW on \in BOOLEAN
  PROVE  GoodControl(TogglePause(p, on))
BY DEF TogglePause, GoodControl, StreamUpdatePause, StreamTogglePause, Held,
       PlayControls, RunsWhenNotHeld

(***************************************************************************)
(* ffp_toggle_buffering keeps the control good.                            *)
(***************************************************************************)
LEMMA ToggleBufferingGood ==
  ASSUME NEW p, GoodControl(p), NEW on \in BOOLEAN
  PROVE  GoodControl(ToggleBuffering(p, on))
BY DEF ToggleBuffering, GoodControl, StreamUpdatePause, StreamTogglePause, Held,
       PlayControls, RunsWhenNotHeld

(***************************************************************************)
(* step_to_next_frame_l keeps the control good.                            *)
(***************************************************************************)
LEMMA StepToNextFrameGood ==
  ASSUME NEW p, GoodControl(p)
  PROVE  GoodControl(StepToNextFrame(p))
BY DEF StepToNextFrame, GoodControl, StreamTogglePause, Held, PlayControls,
       RunsWhenNotHeld

(***************************************************************************)
(* The end of a seek keeps the control good.                               *)
(***************************************************************************)
LEMMA ResumeAfterSeekGood ==
  ASSUME NEW p, GoodControl(p)
  PROVE  GoodControl(ResumeAfterSeek(p))
<1> DEFINE waiting == [p EXCEPT !.pause_req    = FALSE,
                                !.buffering_on = @ \/ PacketBuffering,
                                !.auto_resume  = FALSE]
           resumed == IF p.auto_resume THEN StreamUpdatePause(waiting) ELSE p
<1>1. waiting \in PlayControls
  BY PacketBufferingAssumption DEF GoodControl, PlayControls
<1>2. GoodControl(resumed)
  BY <1>1, StreamUpdatePauseGood
<1>3. GoodControl(StepToNextFrame(resumed))
  BY <1>2, StepToNextFrameGood
<1>4. ResumeAfterSeek(p) =
        IF resumed.pause_req THEN StepToNextFrame(resumed) ELSE resumed
  BY DEF ResumeAfterSeek
<1>5. QED
  BY <1>2, <1>3, <1>4

(***************************************************************************)
(* A frame that is shown keeps the control good.                           *)
(***************************************************************************)
LEMMA FrameShownGood ==
  ASSUME NEW p, GoodControl(p)
  PROVE  GoodControl(FrameShown(p))
BY DEF FrameShown, GoodControl, StreamUpdatePause, StreamTogglePause, Held,
       PlayControls, RunsWhenNotHeld

(***************************************************************************)
(* Setting or clearing auto_resume outside play_mutex keeps it good.       *)
(***************************************************************************)
LEMMA AutoResumeGood ==
  ASSUME NEW p, GoodControl(p), NEW resume \in BOOLEAN
  PROVE  GoodControl([p EXCEPT !.auto_resume = resume])
BY DEF GoodControl, Held, PlayControls, RunsWhenNotHeld

-----------------------------------------------------------------------------
\* What a step may do to the pause control.
ControlMoves(p, r) ==
  \/ r = p
  \/ \E on \in BOOLEAN : r = TogglePause(p, on)
  \/ \E on \in BOOLEAN : r = ToggleBuffering(p, on)
  \/ \E on \in BOOLEAN : r = [p EXCEPT !.auto_resume = on]
  \/ r = ResumeAfterSeek(p)
  \/ r = FrameShown(p)

(***************************************************************************)
(* Every such move keeps the control good.                                 *)
(***************************************************************************)
LEMMA ControlMovesGood ==
  ASSUME NEW p, NEW r, GoodControl(p), ControlMoves(p, r)
  PROVE  GoodControl(r)
<1>1. p \in PlayControls
  BY DEF GoodControl
<1>2. QED
  BY <1>1, TogglePauseGood, ToggleBufferingGood, AutoResumeGood, ResumeAfterSeekGood,
     FrameShownGood DEF ControlMoves

(***************************************************************************)
(* The calls of the application, the message loop, read_thread and the     *)
(* renderers touch the pause control in no other way.                      *)
(***************************************************************************)
LEMMA AppControl == App => ControlMoves(pl, pl')
BY DEF App, SetDataSource, PrepareAsync, PrepareAgain, Start, Pause, SeekTo, Stop,
       AppStops, StopPauses, StopAborts, ControlMoves, ffVars

(***************************************************************************)
(* The steps of ijkmp_get_msg make moves of the pause control.             *)
(***************************************************************************)
LEMMA LoopControl == MessageLoop => ControlMoves(pl, pl')
BY DEF MessageLoop, LoopGets, HandleOther, HandlePrepared, HandleCompleted,
       HandleSeekComplete, HandleStartRefused, HandleStart, StartFromResumes,
       StartFromBuffers, StartFromSeeks, HandlePause, HandleSeek, ControlMoves, ffVars

(***************************************************************************)
(* The steps of read_thread make moves of the pause control.               *)
(***************************************************************************)
LEMMA ReadControl == ReadThread => ControlMoves(pl, pl')
BY DEF ReadThread, ReadOpens, ReadHolds, ReadAnnounces, ReadWaitsForStart,
       ReadResumes, ReadClearsResume, ReadLeaves, ReadGoesOn, SeekBegins, SeekMoves,
       SeekResumes, SeekReports, SeekBuffers, ReadWaitsForRoom, EndLoops, EndExits,
       EndIsOld, ReadWaitsForSeek, EndIsNew, CompleteBuffers, CompletePauses,
       CompleteReports, ReadPacket, ReadEnds, ReadFails, ControlMoves, ffVars

(***************************************************************************)
(* Rendering and starving decoders make moves of the pause control.        *)
(***************************************************************************)
LEMMA RenderControl == Render \/ Starve => ControlMoves(pl, pl')
BY DEF Render, Starve, ControlMoves

\* The control of the player is good.
ControlGood == GoodControl(pl)

(***************************************************************************)
(* The inductive invariant behind NoStuckPause: the pause control starts   *)
(* good, and every step of the player moves it or leaves it alone.         *)
(***************************************************************************)
LEMMA ControlGoodInvariant == Spec => []ControlGood
<1>1. Init => ControlGood
  BY PlayerAssumption
     DEF Init, ControlGood, OpenControl, GoodControl, PlayControls, RunsWhenNotHeld,
         Held
<1>2. ControlGood /\ [Next]_vars => ControlGood'
  <2> SUFFICES ASSUME ControlGood, [Next]_vars
               PROVE  ControlGood'
    OBVIOUS
  <2>1. CASE UNCHANGED vars
    BY <2>1 DEF ControlGood, vars, ffVars
  <2>2. CASE Next
    <3>1. ControlMoves(pl, pl')
      BY <2>2, AppControl, LoopControl, ReadControl, RenderControl DEF Next
    <3>2. QED
      BY <3>1, ControlMovesGood DEF ControlGood
  <2>3. QED
    BY <2>1, <2>2
<1>3. QED
  BY <1>1, <1>2, PTL DEF Spec

(***************************************************************************)
(* NoStuckPause holds in every reachable state of every player.            *)
(***************************************************************************)
THEOREM PauseNeverStuck == Spec => []NoStuckPause
<1>1. ControlGood => NoStuckPause
  BY DEF ControlGood, GoodControl, NoStuckPause
<1>2. QED
  BY <1>1, ControlGoodInvariant, PTL

-----------------------------------------------------------------------------
(***************************************************************************)
(* ijkmp_stop is final because the pause it leaves withdraws every resume  *)
(* that waits (auto_resume), and because a request to start that the loop  *)
(* has already dequeued finds the state changed.  The latter needs the     *)
(* mutex: while ijkmp_stop keeps it, no handler runs, and none is half     *)
(* done when it takes it.                                                  *)
(***************************************************************************)
HeldForGood(p) == p.pause_req /\ ~p.auto_resume

MutexInv ==
  /\ mutex = "loop" <=> loop \in {"start1", "start2"}
  /\ mutex = "app" <=> stopping # "no"

StopInv ==
  /\ is_abort => opened
  /\ is_abort => mp_state \notin {"IDLE", "INITIALIZED"}
  /\ is_abort => loop \notin {"start1", "start2"}
  /\ is_abort /\ stopping = "no" => q_abort
  /\ is_abort /\ stopping # "pause" => HeldForGood(pl)
  /\ is_abort /\ stopping = "no" /\ loop = "handle" /\ msg.what = "REQ_START"
       => mp_state \notin Playable

(***************************************************************************)
(* What read_thread and the renderers do to a control held for good.       *)
(***************************************************************************)
LEMMA HeldForGoodKept ==
  ASSUME NEW p \in PlayControls, HeldForGood(p)
  PROVE  /\ HeldForGood(TogglePause(p, TRUE))
         /\ \A on \in BOOLEAN : HeldForGood(ToggleBuffering(p, on))
         /\ HeldForGood([p EXCEPT !.auto_resume = FALSE])
         /\ HeldForGood(ResumeAfterSeek(p))
         /\ HeldForGood(FrameShown(p))
BY DEF HeldForGood, TogglePause, ToggleBuffering, ResumeAfterSeek, FrameShown,
       StepToNextFrame, StreamUpdatePause, StreamTogglePause, Held, PlayControls

(***************************************************************************)
(* A pause by toggle_pause holds for good: it also withdraws auto_resume.  *)
(***************************************************************************)
LEMMA TogglePauseHolds ==
  ASSUME NEW p \in PlayControls
  PROVE  HeldForGood(TogglePause(p, TRUE))
BY DEF HeldForGood, TogglePause, StreamUpdatePause, StreamTogglePause, Held, PlayControls

\* What StopInv and MutexInv are about, but the pause control.
stopVars == <<mp_state, mutex, q_abort, loop, msg, opened, is_abort, stopping>>

(***************************************************************************)
(* read_thread and the renderers touch the pause control alone, and keep   *)
(* it held for good.                                                       *)
(***************************************************************************)
LEMMA ReadStop == ReadThread => UNCHANGED stopVars
BY DEF ReadThread, ReadOpens, ReadHolds, ReadAnnounces, ReadWaitsForStart,
       ReadResumes, ReadClearsResume, ReadLeaves, ReadGoesOn, SeekBegins, SeekMoves,
       SeekResumes, SeekReports, SeekBuffers, ReadWaitsForRoom, EndLoops, EndExits,
       EndIsOld, ReadWaitsForSeek, EndIsNew, CompleteBuffers, CompletePauses,
       CompleteReports, ReadPacket, ReadEnds, ReadFails, stopVars, outside, mpVars,
       qVars, loopVars, appVars, ffOthers, ffVars

(***************************************************************************)
(* Rendering changes nothing that says how far a stop has come.            *)
(***************************************************************************)
LEMMA RenderStop == Render \/ Starve => UNCHANGED stopVars
BY DEF Render, Starve, stopVars, outside, mpVars, qVars, loopVars, appVars, ffOthers

(***************************************************************************)
(* read_thread keeps a control that is held for good held for good.        *)
(***************************************************************************)
LEMMA ReadHeld ==
  ASSUME pl \in PlayControls, HeldForGood(pl), ReadThread
  PROVE  HeldForGood(pl')
BY HeldForGoodKept
   DEF ReadThread, ReadOpens, ReadHolds, ReadAnnounces, ReadWaitsForStart,
       ReadResumes, ReadClearsResume, ReadLeaves, ReadGoesOn, SeekBegins, SeekMoves,
       SeekResumes, SeekReports, SeekBuffers, ReadWaitsForRoom, EndLoops, EndExits,
       EndIsOld, ReadWaitsForSeek, EndIsNew, CompleteBuffers, CompletePauses,
       CompleteReports, ReadPacket, ReadEnds, ReadFails, ffVars

(***************************************************************************)
(* Rendering and starving decoders keep it held for good, too.             *)
(***************************************************************************)
LEMMA RenderHeld ==
  ASSUME pl \in PlayControls, HeldForGood(pl), Render \/ Starve
  PROVE  HeldForGood(pl')
BY HeldForGoodKept DEF Render, Starve

(***************************************************************************)
(* The calls of the application keep the invariant.                        *)
(***************************************************************************)
LEMMA AppStop ==
  ASSUME ControlGood, MutexInv, StopInv, App
  PROVE  MutexInv' /\ StopInv'
<1> USE DEF MutexInv, StopInv, AppFree, Call
<1>1. CASE SetDataSource
  BY <1>1 DEF SetDataSource, qVars, loopVars, ffOthers, ffVars, appVars
<1>2. CASE PrepareAsync
  BY <1>2 DEF PrepareAsync, appVars
<1>3. CASE PrepareAgain
  BY <1>3 DEF PrepareAgain, qVars, loopVars, ffOthers, ffVars, Playable
<1>4. CASE Start \/ Pause
  BY <1>4 DEF Start, Pause, mpVars, loopVars, ffOthers, ffVars
<1>5. CASE \E to \in Targets : SeekTo(to)
  BY <1>5 DEF SeekTo, loopVars, ffOthers, ffVars
<1>6. CASE Stop
  BY <1>6 DEF Stop, mpVars, loopVars
<1>7. CASE StopPauses
  <2>1. pl \in PlayControls
    BY DEF ControlGood, GoodControl
  <2>2. is_abort => HeldForGood(pl')
    BY <1>7, <2>1, TogglePauseHolds DEF StopPauses, ffOthers
  <2>3. QED
    BY <1>7, <2>2 DEF StopPauses, mpVars, qVars, loopVars, ffOthers
<1>8. CASE StopAborts
  BY <1>8 DEF StopAborts, loopVars, ffOthers, ffVars, Playable
<1>9. QED
  BY <1>1, <1>2, <1>3, <1>4, <1>5, <1>6, <1>7, <1>8 DEF App, AppStops

(***************************************************************************)
(* So does the message loop: what it could start it finds stopped.         *)
(***************************************************************************)
LEMMA LoopStop ==
  ASSUME ControlGood, MutexInv, StopInv, MessageLoop
  PROVE  MutexInv' /\ StopInv'
<1> USE DEF MutexInv, StopInv, Handles
<1>1. CASE LoopGets
  BY <1>1 DEF LoopGets, mpVars, ffOthers, ffVars, appVars
<1>2. CASE HandleOther
  BY <1>2 DEF HandleOther, mpVars, qVars, ffOthers, ffVars, appVars
<1>3. CASE HandlePrepared
  BY <1>3 DEF HandlePrepared, qVars, ffOthers, ffVars, appVars
<1>4. CASE HandleCompleted \/ HandleSeekComplete \/ HandleStartRefused
  BY <1>4 DEF HandleCompleted, HandleSeekComplete, HandleStartRefused, mpVars, qVars,
              ffOthers, ffVars, appVars
<1>5. CASE HandleStart
  <2>1. ~is_abort
    BY <1>5 DEF HandleStart
  <2>2. QED
    BY <1>5, <2>1 DEF HandleStart, qVars, ffOthers, appVars
<1>6. CASE StartFromResumes
  <2>1. ~is_abort
    BY <1>6 DEF StartFromResumes
  <2>2. QED
    BY <1>6, <2>1 DEF StartFromResumes, mpVars, qVars, ffOthers, appVars
<1>7. CASE StartFromBuffers
  BY <1>7 DEF StartFromBuffers, mpVars, qVars, ffOthers, appVars
<1>8. CASE StartFromSeeks
  BY <1>8 DEF StartFromSeeks, qVars, appVars
<1>9. CASE HandlePause
  <2>1. pl \in PlayControls
    BY DEF ControlGood, GoodControl
  <2>2. is_abort /\ stopping # "pause" => HeldForGood(pl')
    BY <1>9, <2>1, TogglePauseHolds DEF HandlePause
  <2>3. QED
    BY <1>9, <2>2 DEF HandlePause, qVars, ffOthers, appVars
<1>10. CASE HandleSeek
  <2>1. pl \in PlayControls
    BY DEF ControlGood, GoodControl
  <2>2. is_abort /\ stopping # "pause" => HeldForGood(pl')
    BY <1>10, <2>1, TogglePauseHolds DEF HandleSeek
  <2>3. QED
    BY <1>10, <2>2 DEF HandleSeek, appVars
<1>11. QED
  BY <1>1, <1>2, <1>3, <1>4, <1>5, <1>6, <1>7, <1>8, <1>9, <1>10 DEF MessageLoop

(***************************************************************************)
(* The two invariants hold in every reachable state.                       *)
(***************************************************************************)
LEMMA StopInvariant == Spec => [](MutexInv /\ StopInv)
<1>1. Init => MutexInv /\ StopInv
  BY DEF Init, MutexInv, StopInv
<1>2. ControlGood /\ MutexInv /\ StopInv /\ [Next]_vars => (MutexInv /\ StopInv)'
  <2> SUFFICES ASSUME ControlGood, MutexInv, StopInv, [Next]_vars
               PROVE  MutexInv' /\ StopInv'
    OBVIOUS
  <2>1. pl \in PlayControls
    BY DEF ControlGood, GoodControl
  <2>2. CASE UNCHANGED vars
    BY <2>2 DEF vars, mpVars, qVars, loopVars, ffOthers, ffVars, appVars, MutexInv,
                StopInv
  <2>3. CASE App
    BY <2>3, AppStop
  <2>4. CASE MessageLoop
    BY <2>4, LoopStop
  <2>5. CASE ReadThread
    <3>1. HeldForGood(pl) => HeldForGood(pl')
      BY <2>1, <2>5, ReadHeld
    <3>2. QED
      BY <2>5, <3>1, ReadStop DEF MutexInv, StopInv, stopVars
  <2>6. CASE Render \/ Starve
    <3>1. HeldForGood(pl) => HeldForGood(pl')
      BY <2>1, <2>6, RenderHeld
    <3>2. QED
      BY <2>6, <3>1, RenderStop DEF MutexInv, StopInv, stopVars
  <2>7. QED
    BY <2>2, <2>3, <2>4, <2>5, <2>6 DEF Next
<1>3. QED
  BY <1>1, <1>2, ControlGoodInvariant, PTL DEF Spec

(***************************************************************************)
(* The message loop does not change how far a stop has come.               *)
(***************************************************************************)
LEMMA LoopKeepsStop == MessageLoop => UNCHANGED <<is_abort, stopping>>
BY DEF MessageLoop, LoopGets, HandleOther, HandlePrepared, HandleCompleted,
       HandleSeekComplete, HandleStartRefused, HandleStart, StartFromResumes,
       StartFromBuffers, StartFromSeeks, HandlePause, HandleSeek, ffOthers, ffVars,
       appVars

(***************************************************************************)
(* StopIsFinal: the pause of a stopped player is never withdrawn.          *)
(***************************************************************************)
THEOREM StopFinal == Spec => StopIsFinal
<1>1. /\ StopInv /\ StopInv' /\ [Next]_vars
      => [is_abort /\ stopping # "pause" /\ pl.pause_req => pl'.pause_req]_vars
  <2> SUFFICES ASSUME StopInv, StopInv', Next, is_abort, stopping # "pause",
                      pl.pause_req
               PROVE  pl'.pause_req
    OBVIOUS
  <2>1. CASE is_abort' /\ stopping' # "pause"
    BY <2>1 DEF StopInv, HeldForGood
  <2>2. CASE ~is_abort' \/ stopping' = "pause"
    <3>1. App
      BY <2>2, ReadStop, RenderStop, LoopKeepsStop DEF Next, stopVars
    <3>2. Stop
      BY <2>2, <3>1
         DEF App, SetDataSource, PrepareAsync, PrepareAgain, Start, Pause, SeekTo,
             AppStops, StopPauses, StopAborts, ffOthers, ffVars, appVars, Call
    <3>3. QED
      BY <3>2 DEF Stop
  <2>3. QED
    BY <2>1, <2>2
<1>2. QED
  BY <1>1, StopInvariant, PTL DEF Spec, StopIsFinal

-----------------------------------------------------------------------------
\* What the recursion of Kept makes of the first n messages.
UptoNext(s, W, f, n) ==
  IF n = 0 THEN <<>> ELSE IF s[n].what \in W THEN f[n - 1] ELSE Append(f[n - 1], s[n])

(***************************************************************************)
(* The recursion of Kept has a solution, so that Upto is one.              *)
(***************************************************************************)
LEMMA UptoExists ==
  ASSUME NEW S, NEW s \in Seq(S), NEW W
  PROVE  \E f : f = [n \in 0 .. Len(s) |-> UptoNext(s, W, f, n)]
<1> DEFINE Good(f, n) == \A i \in 0 .. n : f[i] = UptoNext(s, W, f, i)
           Defined == {n \in 0 .. Len(s) : \E f \in [0 .. n -> Seq(S)] : Good(f, n)}
<1>1. Len(s) \in Nat
  OBVIOUS
<1>2. 0 \in Defined
  <2> DEFINE f == [i \in 0 .. 0 |-> <<>>]
  <2>1. f \in [0 .. 0 -> Seq(S)]
    OBVIOUS
  <2>2. Good(f, 0)
    BY DEF UptoNext
  <2>3. QED
    BY <1>1, <2>1, <2>2
<1>3. ASSUME NEW n \in 1 .. Len(s), n - 1 \in Defined
      PROVE  n \in Defined
  <2>1. PICK f \in [0 .. n - 1 -> Seq(S)] : Good(f, n - 1)
    BY <1>3
  <2> DEFINE g == [i \in 0 .. n |-> IF i = n THEN UptoNext(s, W, f, n) ELSE f[i]]
  <2>2. UptoNext(s, W, f, n) \in Seq(S)
    <3>1. n - 1 \in 0 .. n - 1 /\ s[n] \in S /\ n # 0
      BY <1>1
    <3>2. f[n - 1] \in Seq(S)
      BY <3>1
    <3>3. QED
      BY <3>1, <3>2 DEF UptoNext
  <2>3. g \in [0 .. n -> Seq(S)]
    BY <2>2
  <2>4. ASSUME NEW i \in 0 .. n
        PROVE  g[i] = UptoNext(s, W, g, i)
    <3>1. CASE i = n
      <4>1. g[n - 1] = f[n - 1]
        OBVIOUS
      <4>2. QED
        BY <3>1, <4>1 DEF UptoNext
    <3>2. CASE i # n
      <4>1. i \in 0 .. n - 1
        BY <3>2
      <4>2. f[i] = UptoNext(s, W, f, i)
        BY <2>1, <4>1
      <4>3. i # 0 => g[i - 1] = f[i - 1]
        BY <4>1
      <4>4. QED
        BY <3>2, <4>2, <4>3 DEF UptoNext
    <3>3. QED
      BY <3>1, <3>2
  <2>5. Good(g, n)
    BY <2>4
  <2> HIDE DEF g, Good
  <2>6. \E h \in [0 .. n -> Seq(S)] : Good(h, n)
    BY <2>3, <2>5
  <2>7. QED
    BY <1>1, <2>6
<1>4. Len(s) \in Defined
  <2>1. \A i \in 1 .. Len(s) : i - 1 \in Defined => i \in Defined
    BY <1>3
  <2> HIDE DEF Defined
  <2>2. \A i \in 0 .. Len(s) : i \in Defined
    BY <1>1, <1>2, <2>1, Induction
  <2>3. QED
    BY <1>1, <2>2
<1>5. PICK f \in [0 .. Len(s) -> Seq(S)] : Good(f, Len(s))
  BY <1>4
<1>6. f = [n \in 0 .. Len(s) |-> UptoNext(s, W, f, n)]
  BY <1>5
<1>7. QED
  BY <1>6, Zenon

(***************************************************************************)
(* msg_queue_remove leaves a queue of messages: all those of other codes, and *)
(* no others.                                                              *)
(***************************************************************************)
LEMMA KeptElements ==
  ASSUME NEW S, NEW s \in Seq(S), NEW W
  PROVE  /\ Kept(s, W) \in Seq(S)
         /\ \A i \in 1 .. Len(Kept(s, W)) :
              \E j \in 1 .. Len(s) : Kept(s, W)[i] = s[j] /\ s[j].what \notin W
         /\ \A j \in 1 .. Len(s) :
              s[j].what \notin W => \E i \in 1 .. Len(Kept(s, W)) : Kept(s, W)[i] = s[j]
<1> DEFINE F == CHOOSE f : f = [n \in 0 .. Len(s) |-> UptoNext(s, W, f, n)]
           Sound(n) == /\ F[n] \in Seq(S)
                       /\ \A i \in 1 .. Len(F[n]) :
                            \E j \in 1 .. n : F[n][i] = s[j] /\ s[j].what \notin W
                       /\ \A j \in 1 .. n :
                            s[j].what \notin W => \E i \in 1 .. Len(F[n]) : F[n][i] = s[j]
           Soundly == {n \in 0 .. Len(s) : Sound(n)}
<1>1. Len(s) \in Nat
  OBVIOUS
<1>2. F = [n \in 0 .. Len(s) |-> UptoNext(s, W, F, n)]
  BY UptoExists, Zenon
<1>3. Kept(s, W) = F[Len(s)]
  BY DEF Kept, UptoNext
<1> HIDE DEF F
<1>4. \A n \in 0 .. Len(s) : F[n] = UptoNext(s, W, F, n)
  BY <1>2
<1>5. 0 \in Soundly
  <2>1. F[0] = <<>>
    BY <1>1, <1>4 DEF UptoNext
  <2>2. F[0] \in Seq(S) /\ Len(F[0]) = 0 /\ 1 .. 0 = {}
    BY <2>1
  <2>3. Sound(0)
    BY <2>2, Zenon
  <2>4. QED
    BY <1>1, <2>3
<1>6. ASSUME NEW n \in 1 .. Len(s), n - 1 \in Soundly
      PROVE  n \in Soundly
  <2>1. n # 0 /\ n \in 0 .. Len(s) /\ s[n] \in S /\ n - 1 \in Nat /\ n \in Nat
    BY <1>1
  <2>2. F[n] = IF s[n].what \in W THEN F[n - 1] ELSE Append(F[n - 1], s[n])
    BY <1>4, <2>1 DEF UptoNext
  <2>3. Sound(n - 1)
    BY <1>6
  <2>4. CASE s[n].what \in W
    <3>1. F[n] = F[n - 1]
      BY <2>2, <2>4
    <3>2. ASSUME NEW i \in 1 .. Len(F[n])
          PROVE  \E j \in 1 .. n : F[n][i] = s[j] /\ s[j].what \notin W
      <4>1. PICK j \in 1 .. n - 1 : F[n][i] = s[j] /\ s[j].what \notin W
        BY <2>3, <3>1
      <4>2. j \in 1 .. n
        BY <2>1
      <4>3. QED
        BY <4>1, <4>2
    <3>3. ASSUME NEW j \in 1 .. n, s[j].what \notin W
          PROVE  \E i \in 1 .. Len(F[n]) : F[n][i] = s[j]
      <4>1. j \in 1 .. n - 1
        BY <2>4, <3>3
      <4>2. QED
        BY <2>3, <3>1, <3>3, <4>1
    <3>4. QED
      BY <2>1, <2>3, <3>1, <3>2, <3>3
  <2>5. CASE s[n].what \notin W
    <3>1. F[n] = Append(F[n - 1], s[n])
      BY <2>2, <2>5
    <3>2. /\ F[n] \in Seq(S) /\ Len(F[n]) = Len(F[n - 1]) + 1
          /\ F[n][Len(F[n])] = s[n]
          /\ \A i \in 1 .. Len(F[n - 1]) : F[n][i] = F[n - 1][i]
          /\ Len(F[n - 1]) \in Nat
      <4>1. F[n - 1] \in Seq(S) /\ s[n] \in S
        BY <2>1, <2>3
      <4>2. QED
        BY <3>1, <4>1
    <3>3. ASSUME NEW i \in 1 .. Len(F[n])
          PROVE  \E j \in 1 .. n : F[n][i] = s[j] /\ s[j].what \notin W
      <4>1. CASE i = Len(F[n])
        BY <2>1, <2>5, <3>2, <4>1
      <4>2. CASE i # Len(F[n])
        <5>1. i \in 1 .. Len(F[n - 1])
          BY <3>2, <4>2
        <5>2. PICK j \in 1 .. n - 1 : F[n - 1][i] = s[j] /\ s[j].what \notin W
          BY <2>3, <5>1
        <5>3. j \in 1 .. n
          BY <2>1
        <5>4. QED
          BY <3>2, <5>1, <5>2, <5>3
      <4>3. QED
        BY <4>1, <4>2
    <3>4. ASSUME NEW j \in 1 .. n, s[j].what \notin W
          PROVE  \E i \in 1 .. Len(F[n]) : F[n][i] = s[j]
      <4>1. CASE j = n
        BY <3>2, <4>1
      <4>2. CASE j # n
        <5>1. j \in 1 .. n - 1
          BY <4>2
        <5>2. PICK i \in 1 .. Len(F[n - 1]) : F[n - 1][i] = s[j]
          BY <2>3, <3>4, <5>1
        <5>3. i \in 1 .. Len(F[n])
          BY <3>2
        <5>4. QED
          BY <3>2, <5>2, <5>3
      <4>3. QED
        BY <4>1, <4>2
    <3>5. QED
      BY <2>1, <3>2, <3>3, <3>4
  <2>6. QED
    BY <2>4, <2>5
<1>7. Sound(Len(s))
  <2>1. \A i \in 1 .. Len(s) : i - 1 \in Soundly => i \in Soundly
    BY <1>6
  <2> HIDE DEF Soundly
  <2>2. \A i \in 0 .. Len(s) : i \in Soundly
    BY <1>1, <1>5, <2>1, Induction
  <2> USE DEF Soundly
  <2>3. QED
    BY <1>1, <2>2
<1>8. QED
  BY <1>3, <1>7
-----------------------------------------------------------------------------
\* The codes of the messages of s, and that one of them occurs once at most.
Codes(s) == {s[i].what : i \in DOMAIN s}
Once(s, what) ==
  \A i, j \in DOMAIN s : s[i].what = what /\ s[j].what = what => i = j

\* And that one of them comes before another.
Before(s, first, later) ==
  \A i, j \in DOMAIN s : s[i].what = first /\ s[j].what = later => i < j

(***************************************************************************)
(* What msg_queue_put, msg_queue_get and msg_queue_remove do to the codes. *)
(***************************************************************************)
LEMMA AppendCodes ==
  ASSUME NEW s \in Seq(Messages), NEW m \in Messages
  PROVE  /\ Append(s, m) \in Seq(Messages)
         /\ Codes(Append(s, m)) = Codes(s) \cup {m.what}
         /\ \A what : Once(s, what) /\ (m.what = what => what \notin Codes(s))
                        => Once(Append(s, m), what)
         /\ \A first, later :
              Before(s, first, later) /\ first # later
                /\ (m.what = first => later \notin Codes(s))
                => Before(Append(s, m), first, later)
<1> DEFINE t == Append(s, m)
<1>1. /\ t \in Seq(Messages) /\ Len(t) = Len(s) + 1 /\ Len(s) \in Nat
      /\ DOMAIN t = 1 .. Len(t) /\ DOMAIN s = 1 .. Len(s)
      /\ t[Len(t)] = m /\ \A i \in 1 .. Len(s) : t[i] = s[i]
  OBVIOUS
<1> HIDE DEF t
<1>2. Codes(t) = Codes(s) \cup {m.what}
  BY <1>1 DEF Codes
<1>3. ASSUME NEW what, Once(s, what), m.what = what => what \notin Codes(s)
      PROVE  Once(t, what)
  <2> SUFFICES ASSUME NEW i \in DOMAIN t, NEW j \in DOMAIN t,
                      t[i].what = what, t[j].what = what
               PROVE  i = j
    BY DEF Once
  <2>1. CASE i \in 1 .. Len(s) /\ j \in 1 .. Len(s)
    BY <1>1, <1>3, <2>1 DEF Once
  <2>2. CASE i = Len(t) /\ j = Len(t)
    BY <2>2
  <2>3. CASE i \in 1 .. Len(s) /\ j = Len(t)
    BY <1>1, <1>3, <2>3 DEF Codes
  <2>4. CASE i = Len(t) /\ j \in 1 .. Len(s)
    BY <1>1, <1>3, <2>4 DEF Codes
  <2>5. QED
    BY <1>1, <2>1, <2>2, <2>3, <2>4
<1>4. ASSUME NEW first, NEW later, Before(s, first, later), first # later,
             m.what = first => later \notin Codes(s)
      PROVE  Before(t, first, later)
  <2> SUFFICES ASSUME NEW i \in DOMAIN t, NEW j \in DOMAIN t,
                      t[i].what = first, t[j].what = later
               PROVE  i < j
    BY DEF Before
  <2>1. CASE i \in 1 .. Len(s) /\ j \in 1 .. Len(s)
    BY <1>1, <1>4, <2>1 DEF Before
  <2>2. CASE i \in 1 .. Len(s) /\ j = Len(t)
    BY <1>1, <2>2
  <2>3. CASE i = Len(t)
    <3>1. j \in 1 .. Len(s)
      BY <1>1, <1>4, <2>3
    <3>2. later \in Codes(s)
      BY <1>1, <3>1 DEF Codes
    <3>3. QED
      BY <1>1, <1>4, <2>3, <3>2
  <2>4. QED
    BY <1>1, <2>1, <2>2, <2>3
<1>5. QED
  BY <1>1, <1>2, <1>3, <1>4 DEF t

(***************************************************************************)
(* The message at the head goes, and the others stay.                      *)
(***************************************************************************)
LEMMA TailCodes ==
  ASSUME NEW s \in Seq(Messages), s # <<>>
  PROVE  /\ Head(s) \in Messages
         /\ Tail(s) \in Seq(Messages)
         /\ Codes(s) = Codes(Tail(s)) \cup {Head(s).what}
         /\ \A what : Once(s, what) =>
              /\ Once(Tail(s), what)
              /\ Head(s).what = what => what \notin Codes(Tail(s))
         /\ \A first, later : Before(s, first, later) =>
              /\ Before(Tail(s), first, later)
              /\ Head(s).what = later => first \notin Codes(Tail(s))
<1> DEFINE t == Tail(s)
<1>1. /\ t \in Seq(Messages) /\ Len(t) = Len(s) - 1 /\ Len(s) \in Nat \ {0}
      /\ DOMAIN t = 1 .. Len(t) /\ DOMAIN s = 1 .. Len(s)
      /\ Head(s) = s[1] /\ \A i \in 1 .. Len(t) : t[i] = s[i + 1]
      /\ Head(s) \in Messages
  OBVIOUS
<1> HIDE DEF t
<1>2. Codes(s) = Codes(t) \cup {Head(s).what}
  <2>1. ASSUME NEW i \in DOMAIN s
        PROVE  s[i].what \in Codes(t) \cup {Head(s).what}
    <3>1. CASE i = 1
      BY <1>1, <3>1
    <3>2. CASE i # 1
      <4>1. i - 1 \in DOMAIN t /\ t[i - 1] = s[i]
        BY <1>1, <3>2
      <4>2. QED
        BY <4>1 DEF Codes
    <3>3. QED
      BY <3>1, <3>2
  <2>2. ASSUME NEW i \in DOMAIN t
        PROVE  t[i].what \in Codes(s)
    <3>1. i + 1 \in DOMAIN s /\ s[i + 1] = t[i]
      BY <1>1
    <3>2. QED
      BY <3>1 DEF Codes
  <2>3. Head(s).what \in Codes(s)
    BY <1>1 DEF Codes
  <2>4. QED
    BY <2>1, <2>2, <2>3 DEF Codes
<1>3. ASSUME NEW what, Once(s, what)
      PROVE  /\ Once(t, what)
             /\ Head(s).what = what => what \notin Codes(t)
  <2>1. \A i \in DOMAIN t : i \in Nat /\ i + 1 \in DOMAIN s /\ s[i + 1] = t[i]
    BY <1>1
  <2>2. Once(t, what)
    BY <1>3, <2>1 DEF Once
  <2>3. ASSUME Head(s).what = what, NEW i \in DOMAIN t
        PROVE  t[i].what # what
    <3>1. i \in Nat /\ i >= 1
      BY <1>1
    <3>2. 1 \in DOMAIN s /\ s[1].what = what
      BY <1>1, <2>3
    <3>3. QED
      BY <1>3, <2>1, <3>1, <3>2 DEF Once
  <2>4. QED
    BY <2>2, <2>3 DEF Codes
<1>4. ASSUME NEW first, NEW later, Before(s, first, later)
      PROVE  /\ Before(t, first, later)
             /\ Head(s).what = later => first \notin Codes(t)
  <2>1. \A i \in DOMAIN t : i \in Nat /\ i + 1 \in DOMAIN s /\ s[i + 1] = t[i]
    BY <1>1
  <2>2. ASSUME NEW i \in DOMAIN t, NEW j \in DOMAIN t,
               t[i].what = first, t[j].what = later
        PROVE  i < j
    <3>1. i + 1 < j + 1
      BY <1>4, <2>1, <2>2 DEF Before
    <3>2. QED
      BY <2>1, <3>1
  <2>3. ASSUME Head(s).what = later, NEW i \in DOMAIN t
        PROVE  t[i].what # first
    <3>1. 1 \in DOMAIN s /\ s[1].what = later
      BY <1>1, <2>3
    <3>2. ~(i + 1 < 1)
      BY <2>1
    <3>3. QED
      BY <1>4, <2>1, <3>1, <3>2 DEF Before
  <2>4. QED
    BY <2>2, <2>3 DEF Codes, Before
<1>5. QED
  BY <1>1, <1>2, <1>3, <1>4 DEF t

(***************************************************************************)
(* The messages of the removed codes go, and the others stay.              *)
(***************************************************************************)
LEMMA KeptCodes ==
  ASSUME NEW s \in Seq(Messages), NEW whats
  PROVE  /\ Kept(s, whats) \in Seq(Messages)
         /\ Codes(Kept(s, whats)) = Codes(s) \ whats
<1>1. PICK k : /\ k = Kept(s, whats) /\ k \in Seq(Messages)
               /\ \A i \in 1 .. Len(k) :
                    \E j \in 1 .. Len(s) : k[i] = s[j] /\ s[j].what \notin whats
               /\ \A j \in 1 .. Len(s) :
                    s[j].what \notin whats => \E i \in 1 .. Len(k) : k[i] = s[j]
  BY KeptElements
<1>2. DOMAIN k = 1 .. Len(k) /\ DOMAIN s = 1 .. Len(s)
  BY <1>1
<1>3. ASSUME NEW what \in Codes(k)
      PROVE  what \in Codes(s) \ whats
  BY <1>1, <1>2 DEF Codes
<1>4. ASSUME NEW what \in Codes(s), what \notin whats
      PROVE  what \in Codes(k)
  <2>1. PICK j \in 1 .. Len(s) : s[j].what = what
    BY <1>2 DEF Codes
  <2>2. PICK i \in 1 .. Len(k) : k[i] = s[j]
    BY <1>1, <1>4, <2>1
  <2>3. QED
    BY <1>2, <2>1, <2>2 DEF Codes
<1>5. QED
  BY <1>1, <1>3, <1>4

-----------------------------------------------------------------------------
(***************************************************************************)
(* What is put into the queue are messages.                                *)
(***************************************************************************)
LEMMA PostedType ==
  ASSUME NEW s \in Seq(Messages), NEW m \in Messages
  PROVE  /\ Posted(s, m) \in Seq(Messages)
         /\ q \in Seq(Messages) => \A whats : Without(whats) \in Seq(Messages)
BY KeptElements DEF Posted, Without

(***************************************************************************)
(* The messages that the player posts are messages.                        *)
(***************************************************************************)
LEMMA MsgType ==
  /\ Targets \subseteq Positions /\ NoSeek \in Positions /\ 0 \in Targets
  /\ \A what \in Whats : Msg(what) \in Messages
  /\ \A what \in Whats, arg \in Positions : [what |-> what, arg |-> arg] \in Messages
<1>1. Duration \in Nat
  BY PlayerAssumption
<1>2. Targets \subseteq Positions /\ NoSeek \in Positions /\ 0 \in Targets
  BY <1>1 DEF Positions, Targets, NoSeek
<1>3. QED
  BY <1>2 DEF Msg, Messages

(***************************************************************************)
(* The calls of the application keep the types.                            *)
(***************************************************************************)
LEMMA AppTypes ==
  ASSUME TypeOK, ControlGood, App
  PROVE  TypeOK'
<1> USE DEF TypeOK, AppFree, Call, MpStates, LoopStates, ReadStates
<1>0. pl' \in PlayControls
  BY AppControl, ControlMovesGood DEF ControlGood, GoodControl
<1>1. CASE SetDataSource
  BY <1>0, <1>1 DEF SetDataSource, qVars, loopVars, ffVars, ffOthers, readVars, readData,
                    appVars
<1>2. CASE PrepareAsync
  <2>1. q' \in Seq(Messages)
    BY <1>2, MsgType DEF PrepareAsync, Whats
  <2>2. QED
    BY <1>0, <1>2, <2>1 DEF PrepareAsync, readData, appVars
<1>3. CASE PrepareAgain
  BY <1>0, <1>3
     DEF PrepareAgain, qVars, loopVars, ffVars, ffOthers, readVars, readData
<1>4. CASE Start \/ Pause
  <2>1. PICK what \in {"REQ_START", "REQ_PAUSE"} :
          q' = Posted(Without({"REQ_START", "REQ_PAUSE"}), Msg(what))
    BY <1>4 DEF Start, Pause
  <2>2. Msg(what) \in Messages /\ Without({"REQ_START", "REQ_PAUSE"}) \in Seq(Messages)
    BY PostedType, MsgType DEF Whats
  <2>3. q' \in Seq(Messages)
    BY <2>1, <2>2, PostedType
  <2>4. QED
    BY <1>0, <1>4, <2>3
       DEF Start, Pause, mpVars, loopVars, ffVars, ffOthers, readVars, readData
<1>5. CASE \E to \in Targets : SeekTo(to)
  <2>1. PICK to \in Targets : SeekTo(to)
    BY <1>5
  <2>2. q' \in Seq(Messages) /\ mp_seek' \in Positions
    BY <2>1, PostedType, MsgType DEF SeekTo, Whats
  <2>3. QED
    BY <1>0, <2>1, <2>2
       DEF SeekTo, loopVars, ffVars, ffOthers, readVars, readData
<1>6. CASE Stop
  <2>1. q' \in Seq(Messages)
    BY <1>6, PostedType, MsgType DEF Stop, Whats
  <2>2. QED
    BY <1>0, <1>6, <2>1
       DEF Stop, mpVars, loopVars, readVars, readData
<1>7. CASE StopPauses
  <2>1. UNCHANGED <<mpVars, mutex, qVars, loopVars, ffOthers, readVars, backlog,
                    asserted, calls, want>>
        /\ stopping' = "abort"
    BY <1>7 DEF StopPauses
  <2>2. QED
    BY <1>0, <2>1 DEF mpVars, qVars, loopVars, ffOthers, readVars, readData
<1>8. CASE StopAborts
  BY <1>0, <1>8 DEF StopAborts, loopVars, ffVars, ffOthers, readVars, readData
<1>9. QED
  BY <1>1, <1>2, <1>3, <1>4, <1>5, <1>6, <1>7, <1>8 DEF App, AppStops

(***************************************************************************)
(* The steps of ijkmp_get_msg keep the types.                              *)
(***************************************************************************)
LEMMA LoopTypes ==
  ASSUME TypeOK, ControlGood, MessageLoop
  PROVE  TypeOK'
<1> USE DEF TypeOK, Handles, MpStates, LoopStates
<1>0. pl' \in PlayControls
  BY LoopControl, ControlMovesGood DEF ControlGood, GoodControl
<1>1. CASE LoopGets
  <2>1. q' \in Seq(Messages) /\ msg' \in Messages
    BY <1>1, TailCodes DEF LoopGets
  <2>2. QED
    BY <1>0, <1>1, <2>1
       DEF LoopGets, mpVars, ffVars, ffOthers, readVars, readData, appVars
<1>2. CASE HandleOther \/ HandleStartRefused
  BY <1>0, <1>2 DEF HandleOther, HandleStartRefused, mpVars, qVars, ffVars, ffOthers,
                    readVars, readData, appVars
<1>3. CASE HandlePrepared \/ HandleCompleted
  BY <1>0, <1>3 DEF HandlePrepared, HandleCompleted, qVars, ffVars, ffOthers, readVars,
                    readData, appVars
<1>4. CASE HandleSeekComplete
  <2>1. mp_seek' \in Positions
    BY <1>4, MsgType DEF HandleSeekComplete
  <2>2. QED
    BY <1>0, <1>4, <2>1 DEF HandleSeekComplete, qVars, ffVars, ffOthers, readVars,
                            readData, appVars
<1>5. CASE HandleStart \/ HandlePause
  BY <1>0, <1>5 DEF HandleStart, HandlePause, qVars, ffOthers, readVars, readData, appVars
<1>6. CASE StartFromResumes \/ StartFromBuffers
  BY <1>0, <1>6 DEF StartFromResumes, StartFromBuffers, mpVars, qVars, ffOthers,
                    readVars, readData, appVars
<1>7. CASE StartFromSeeks
  <2>1. is_seek' \in Positions
    BY <1>7, MsgType DEF StartFromSeeks, StreamSeek
  <2>2. QED
    BY <1>0, <1>7, <2>1 DEF StartFromSeeks, qVars, readVars, readData, appVars
<1>8. CASE HandleSeek
  <2>1. q' \in Seq(Messages)
    BY <1>8, PostedType, MsgType DEF HandleSeek, Whats
  <2>2. is_seek' \in Positions
    BY <1>8 DEF HandleSeek, StreamSeek, Messages
  <2>3. QED
    BY <1>0, <1>8, <2>1, <2>2 DEF HandleSeek, readVars, readData, appVars
<1>9. QED
  BY <1>1, <1>2, <1>3, <1>4, <1>5, <1>6, <1>7, <1>8 DEF MessageLoop

(***************************************************************************)
(* The steps of read_thread keep the types.                                *)
(***************************************************************************)
LEMMA ReadTypes ==
  ASSUME TypeOK, ControlGood, ReadThread
  PROVE  TypeOK'
<1> USE DEF TypeOK, ReadsAt, ReadStates, outside, mpVars, loopVars, appVars
<1>0. pl' \in PlayControls
  BY ReadControl, ControlMovesGood DEF ControlGood, GoodControl
<1>1. CASE ReadOpens \/ ReadWaitsForStart \/ ReadLeaves \/ ReadGoesOn \/ EndExits
           \/ EndIsOld \/ ReadWaitsForSeek
  BY <1>0, <1>1 DEF ReadOpens, ReadWaitsForStart, ReadLeaves, ReadGoesOn, EndExits,
                    EndIsOld, ReadWaitsForSeek, qVars, ffVars, ffOthers, readData
<1>2. CASE ReadHolds \/ ReadClearsResume \/ SeekResumes \/ SeekBuffers
           \/ ReadWaitsForRoom \/ CompleteBuffers \/ CompletePauses
  BY <1>0, <1>2 DEF ReadHolds, ReadClearsResume, SeekResumes, SeekBuffers,
                    ReadWaitsForRoom, CompleteBuffers, CompletePauses, qVars, ffOthers,
                    readData
<1>3. CASE ReadAnnounces \/ ReadResumes \/ SeekReports \/ CompleteReports \/ ReadFails
  <2>1. q' \in Seq(Messages)
    BY <1>3, PostedType, MsgType
       DEF ReadAnnounces, ReadResumes, SeekReports, CompleteReports, ReadFails, Whats
  <2>2. QED
    BY <1>0, <1>3, <2>1 DEF ReadAnnounces, ReadResumes, SeekReports, CompleteReports,
                            ReadFails, ffVars, ffOthers, readData
<1>4. CASE SeekBegins
  <2>1. target' \in Targets
    BY <1>4 DEF SeekBegins, Positions
  <2>2. QED
    BY <1>0, <1>4, <2>1 DEF SeekBegins, qVars, ffOthers
<1>5. CASE SeekMoves
  <2>1. is_seek' \in Positions
    BY <1>5, MsgType DEF SeekMoves
  <2>2. pos' \in Targets /\ backlog' \in Nat /\ nulls' \in BOOLEAN
    <3>1. CASE pos' = target /\ backlog' = 0 /\ nulls' = FALSE
      BY <3>1
    <3>2. CASE UNCHANGED <<pos, backlog, nulls>>
      BY <3>2
    <3>3. QED
      BY <1>5, <3>1, <3>2 DEF SeekMoves
  <2>3. eof' \in BOOLEAN /\ completed' \in BOOLEAN
    BY <1>5 DEF SeekMoves
  <2>4. /\ UNCHANGED <<outside, qVars, opened, is_abort, recv_eof, loops, io_error,
                       target, prepared>>
        /\ rt' = "seekresume"
    BY <1>5 DEF SeekMoves
  <2>5. QED
    BY <1>0, <2>1, <2>2, <2>3, <2>4 DEF qVars
<1>6. CASE EndLoops
  <2>1. is_seek' \in Positions
    BY <1>6, MsgType DEF EndLoops, StreamSeek
  <2>2. loops' \in Nat
    BY <1>6 DEF EndLoops, PlaysAgain
  <2>3. QED
    BY <1>0, <1>6, <2>1, <2>2 DEF EndLoops, qVars, readData
<1>7. CASE EndIsNew
  BY <1>0, <1>7 DEF EndIsNew, qVars
<1>8. CASE ReadPacket
  <2>1. pos' \in Targets
    BY <1>8, PlayerAssumption DEF ReadPacket, Targets
  <2>2. backlog' \in Nat
    BY <1>8 DEF ReadPacket
  <2>3. QED
    BY <1>0, <1>8, <2>1, <2>2 DEF ReadPacket, Reads, qVars, ffOthers
<1>9. CASE ReadEnds
  BY <1>0, <1>9 DEF ReadEnds, Reads, qVars, ffOthers
<1>10. QED
  BY <1>1, <1>2, <1>3, <1>4, <1>5, <1>6, <1>7, <1>8, <1>9 DEF ReadThread

(***************************************************************************)
(* Rendering and starving decoders keep the types.                         *)
(***************************************************************************)
LEMMA RenderTypes ==
  ASSUME TypeOK, ControlGood, Render \/ Starve
  PROVE  TypeOK'
<1> USE DEF TypeOK, outside, mpVars, loopVars, appVars, qVars, ffOthers, readVars, readData
<1>0. pl' \in PlayControls
  BY RenderControl, ControlMovesGood DEF ControlGood, GoodControl
<1>1. CASE Render
  BY <1>0, <1>1 DEF Render
<1>2. CASE Starve
  BY <1>0, <1>2 DEF Starve
<1>3. QED
  BY <1>1, <1>2

(***************************************************************************)
(* TypeOK holds in every reachable state of every player.                  *)
(***************************************************************************)
THEOREM TypeCorrect == Spec => []TypeOK
<1>1. Init => TypeOK
  <2> SUFFICES ASSUME Init
               PROVE  TypeOK
    OBVIOUS
  <2>1. q \in Seq(Messages) /\ msg \in Messages /\ mp_seek \in Positions
        /\ is_seek \in Positions
    BY MsgType DEF Init, Whats
  <2>2. pl \in PlayControls
    BY PlayerAssumption DEF Init, OpenControl, PlayControls
  <2>3. loops \in Nat /\ pos \in Targets /\ target \in Targets
    BY MsgType, PlayerAssumption DEF Init
  <2>4. QED
    BY <2>1, <2>2, <2>3 DEF Init, TypeOK, MpStates, LoopStates, ReadStates
<1>2. TypeOK /\ ControlGood /\ [Next]_vars => TypeOK'
  <2> SUFFICES ASSUME TypeOK, ControlGood, [Next]_vars
               PROVE  TypeOK'
    OBVIOUS
  <2>1. CASE UNCHANGED vars
    BY <2>1 DEF TypeOK, vars, mpVars, qVars, loopVars, ffVars, ffOthers, readVars,
                readData, appVars
  <2>2. CASE Next
    BY <2>2, AppTypes, LoopTypes, ReadTypes, RenderTypes DEF Next
  <2>3. QED
    BY <2>1, <2>2
<1>3. QED
  BY <1>1, <1>2, ControlGoodInvariant, PTL DEF Spec

-----------------------------------------------------------------------------
(***************************************************************************)
(* Where the player is in its life: there is a VideoState exactly when     *)
(* ijkmp_prepare_async has opened one; a queue that is not aborted carries *)
(* its messages; ijkmp_stop has raised abort_request wherever it is; and   *)
(* ijkmp_start_l works on a player that may be started.                    *)
(***************************************************************************)
Unopened == {"IDLE", "INITIALIZED", "ERROR"}

LifeInv ==
  /\ opened <=> mp_state \notin Unopened
  /\ opened <=> rt # "off"
  /\ stopping # "no" => is_abort
  /\ mp_state = "STOPPED" => is_abort
  /\ mp_state \in {"IDLE", "INITIALIZED"} => q = <<>> /\ loop = "off"
  /\ opened /\ ~is_abort => ~q_abort
  /\ loop \in {"start1", "start2"} => mp_state \in Playable
  /\ ~opened => /\ Codes(q) \subseteq {"FLUSH"}
                /\ loop = "handle" => msg.what = "FLUSH"

\* FFP_MSG_PREPARED is still to come: read_thread has not posted it, or the
\* loop has not handled it.
Posting   == rt \in {"open", "hold", "announce"}
Dequeued(what) == loop = "handle" /\ msg.what = what

(***************************************************************************)
(* FFP_MSG_PREPARED is sent once, before FFP_MSG_COMPLETED, and is handled *)
(* before any call is carried out; a player that is to wait for its start is held from the beginning. *)
(***************************************************************************)
PreparedInv ==
  ~is_abort =>
    /\ Posting \/ "PREPARED" \in Codes(q) \/ Dequeued("PREPARED")
         => mp_state = "ASYNC_PREPARING"
    /\ Posting => /\ Codes(q) \cap {"PREPARED", "COMPLETED"} = {}
                  /\ ~Dequeued("PREPARED") /\ ~Dequeued("COMPLETED")
    /\ Dequeued("PREPARED") \/ Dequeued("COMPLETED") => "PREPARED" \notin Codes(q)
    /\ Once(q, "PREPARED") /\ Before(q, "PREPARED", "COMPLETED")
    /\ ~StartOnPrepared /\ mp_state \in {"IDLE", "INITIALIZED", "ASYNC_PREPARING"}
         => HeldForGood(pl)

\* A player in MP_STATE_PAUSED is held, and no resume waits.
PausedInv == mp_state = "PAUSED" /\ ~is_abort /\ mutex # "loop" => HeldForGood(pl)

(***************************************************************************)
(* The codes in the queue after msg_queue_remove and after msg_queue_put.  *)
(***************************************************************************)
LEMMA WithoutCodes ==
  ASSUME q \in Seq(Messages), NEW whats
  PROVE  /\ Without(whats) \in Seq(Messages)
         /\ Codes(Without(whats)) \subseteq Codes(q)
         /\ Codes(q) \ whats \subseteq Codes(Without(whats))
BY KeptCodes DEF Without

(***************************************************************************)
(* A message that is put into an aborted queue is not there.               *)
(***************************************************************************)
LEMMA PostedCodes ==
  ASSUME NEW s \in Seq(Messages), NEW m \in Messages
  PROVE  /\ Codes(Posted(s, m)) \subseteq Codes(s) \cup {m.what}
         /\ Codes(s) \subseteq Codes(Posted(s, m))
         /\ ~q_abort => m.what \in Codes(Posted(s, m))
         /\ \A what : Once(s, what) /\ (m.what = what => what \notin Codes(s))
                        => Once(Posted(s, m), what)
         /\ \A first, later :
              Before(s, first, later) /\ first # later
                /\ (m.what = first => later \notin Codes(s))
                => Before(Posted(s, m), first, later)
BY AppendCodes DEF Posted

(***************************************************************************)
(* What is not there is not there twice.                                   *)
(***************************************************************************)
LEMMA NoneIsOnce ==
  ASSUME NEW s, NEW what, what \notin Codes(s)
  PROVE  Once(s, what) /\ \A later : Before(s, what, later)
BY DEF Codes, Once, Before

\* The invariants about the life of the player, its preparation and its pause.
LivesWell == LifeInv /\ PreparedInv /\ PausedInv

(***************************************************************************)
(* The calls of the application keep them: a call is refused before the    *)
(* player is prepared, and a stopped one is out of their reach.            *)
(***************************************************************************)
LEMMA AppLives ==
  ASSUME TypeOK, ControlGood, MutexInv, StopInv, LivesWell, App
  PROVE  LivesWell'
<1> USE DEF LivesWell, AppFree, Call
<1>0. q \in Seq(Messages)
  BY DEF TypeOK
<1>1. CASE SetDataSource
  BY <1>1 DEF SetDataSource, LifeInv, PreparedInv, PausedInv, Posting, Dequeued,
              Unopened, qVars, loopVars, ffVars, ffOthers, readVars, appVars, Playable
<1>2. CASE PrepareAsync
  <2>1. q = <<>> /\ loop = "off" /\ q' = Append(q, Msg("FLUSH")) /\ q' \in Seq(Messages)
    BY <1>2, <1>0, MsgType DEF PrepareAsync, LifeInv, Whats
  <2>2. Codes(q) = {} /\ Codes(q') = {"FLUSH"}
    <3>1. Codes(q) = {}
      BY <2>1 DEF Codes
    <3>2. Codes(q') = Codes(q) \cup {"FLUSH"}
      BY <1>0, <2>1, AppendCodes, MsgType DEF Whats, Msg
    <3>3. QED
      BY <3>1, <3>2
  <2>3. Once(q', "PREPARED") /\ Before(q', "PREPARED", "COMPLETED")
    BY <2>2, NoneIsOnce
  <2>4. ~is_abort /\ ~opened
    BY <1>2 DEF PrepareAsync, LifeInv, StopInv, Unopened
  <2>5. stopping' = stopping /\ stopping = "no"
    BY <1>2 DEF PrepareAsync, appVars
  <2>6. LifeInv'
    BY <1>2, <2>2, <2>4, <2>5 DEF PrepareAsync, LifeInv, Unopened
  <2>7. PreparedInv'
    BY <1>2, <2>2, <2>3, <2>4 DEF PrepareAsync, PreparedInv, Posting, Dequeued
  <2>8. PausedInv'
    BY <1>2 DEF PrepareAsync, PausedInv
  <2>9. QED
    BY <2>6, <2>7, <2>8
<1>3. CASE PrepareAgain
  <2>1. is_abort /\ is_abort'
    BY <1>3 DEF PrepareAgain, LifeInv, ffVars, ffOthers
  <2>2. LifeInv'
    BY <1>3, <2>1
       DEF PrepareAgain, LifeInv, Unopened, Playable, qVars, loopVars, ffVars, ffOthers,
           readVars
  <2>3. QED
    BY <2>1, <2>2 DEF PreparedInv, PausedInv
<1>4. CASE Start \/ Pause \/ \E to \in Targets : SeekTo(to)
  <2>1. PICK s \in Seq(Messages), m \in Messages :
          q' = Posted(s, m) /\ Codes(s) \subseteq Codes(q) /\ m.what # "PREPARED"
    <3>1. CASE Start \/ Pause
      <4>1. PICK what \in {"REQ_START", "REQ_PAUSE"} :
              q' = Posted(Without({"REQ_START", "REQ_PAUSE"}), Msg(what))
        BY <3>1 DEF Start, Pause
      <4>2. Msg(what) \in Messages /\ Msg(what).what # "PREPARED"
        BY MsgType DEF Whats, Msg
      <4>3. QED
        BY <1>0, <4>1, <4>2, WithoutCodes
    <3>2. CASE \E to \in Targets : SeekTo(to)
      <4>1. PICK to \in Targets : SeekTo(to)
        BY <3>2
      <4> DEFINE req == [what |-> "REQ_SEEK", arg |-> to]
      <4>2. req \in Messages /\ req.what # "PREPARED"
        BY MsgType DEF Whats
      <4>3. q' = Posted(Without({"REQ_SEEK"}), req)
        BY <4>1 DEF SeekTo
      <4> HIDE DEF req
      <4>4. QED
        BY <1>0, <4>2, <4>3, WithoutCodes
    <3>3. QED
      BY <1>4, <3>1, <3>2
  <2>2. Codes(q') \subseteq Codes(q) \cup {m.what}
    BY <2>1, PostedCodes
  <2>3. /\ mp_state \in Playable
        /\ UNCHANGED <<mp_state, mutex, q_abort, loop, msg, opened, is_abort, rt, pl,
                       stopping>>
    BY <1>4 DEF Start, Pause, SeekTo, mpVars, loopVars, ffVars, ffOthers, readVars
  <2>4. opened
    BY <2>3 DEF LifeInv, Playable, Unopened
  <2>5. LifeInv'
    BY <2>3, <2>4 DEF LifeInv, Playable
  <2>6. PreparedInv'
    <3> SUFFICES ASSUME ~is_abort
                 PROVE  PreparedInv'
      BY <2>3 DEF PreparedInv
    <3>1. "PREPARED" \notin Codes(q) /\ ~Posting /\ ~Dequeued("PREPARED")
      BY <2>3 DEF PreparedInv, Playable
    <3>2. "PREPARED" \notin Codes(q')
      BY <2>1, <2>2, <3>1
    <3>3. Once(q', "PREPARED") /\ Before(q', "PREPARED", "COMPLETED")
      BY <3>2, NoneIsOnce
    <3>4. ~Posting' /\ ~Dequeued("PREPARED")'
      BY <2>3, <3>1 DEF Posting, Dequeued
    <3>5. QED
      BY <2>3, <3>2, <3>3, <3>4 DEF PreparedInv, Playable
  <2>7. PausedInv'
    BY <2>3 DEF PausedInv
  <2>8. QED
    BY <2>5, <2>6, <2>7
<1>5. CASE Stop
  <2>1. opened /\ is_abort'
    BY <1>5 DEF Stop, LifeInv, Unopened
  <2>2. Codes(q') \subseteq Codes(q) /\ q' = Without({"REQ_START", "REQ_PAUSE"})
    BY <1>0, <1>5, WithoutCodes DEF Stop
  <2>3. LifeInv'
    BY <1>5, <2>1 DEF Stop, LifeInv, Unopened, mpVars, loopVars, readVars
  <2>4. QED
    BY <2>1, <2>3 DEF PreparedInv, PausedInv
<1>6. CASE AppStops
  <2>1. is_abort /\ is_abort'
    BY <1>6 DEF AppStops, StopPauses, StopAborts, LifeInv, ffVars, ffOthers
  <2>2. LifeInv'
    BY <1>6, <2>1
       DEF AppStops, StopPauses, StopAborts, LifeInv, Unopened, Playable, mpVars, qVars,
           loopVars, ffVars, ffOthers, readVars, StopInv
  <2>3. QED
    BY <2>1, <2>2 DEF PreparedInv, PausedInv
<1>7. QED
  BY <1>1, <1>2, <1>3, <1>4, <1>5, <1>6 DEF App

(***************************************************************************)
(* The message loop keeps them.                                            *)
(***************************************************************************)
LEMMA LoopLives ==
  ASSUME TypeOK, ControlGood, MutexInv, StopInv, LivesWell, MessageLoop
  PROVE  LivesWell'
<1> USE DEF LivesWell, Handles
<1>0. q \in Seq(Messages) /\ pl \in PlayControls
  BY DEF TypeOK
<1>1. CASE LoopGets
  <2>1. UNCHANGED <<mpVars, mutex, q_abort, ffVars, readVars, appVars>> /\ loop = "get"
    BY <1>1 DEF LoopGets
  <2>2. CASE loop' = "off" /\ UNCHANGED <<q, msg>>
    BY <2>1, <2>2 DEF LifeInv, PreparedInv, PausedInv, Posting, Dequeued, mpVars, ffVars,
                      ffOthers, readVars, appVars
  <2>3. CASE q # <<>> /\ msg' = Head(q) /\ q' = Tail(q) /\ loop' = "handle"
    <3>1. /\ Codes(q) = Codes(q') \cup {msg'.what}
          /\ Once(q, "PREPARED") => Once(q', "PREPARED")
          /\ Once(q, "PREPARED") /\ msg'.what = "PREPARED" => "PREPARED" \notin Codes(q')
          /\ Before(q, "PREPARED", "COMPLETED") =>
               /\ Before(q', "PREPARED", "COMPLETED")
               /\ msg'.what = "COMPLETED" => "PREPARED" \notin Codes(q')
      BY <1>0, <2>3, TailCodes
    <3>2. LifeInv'
      BY <2>1, <2>3, <3>1 DEF LifeInv, mpVars, ffVars, ffOthers, readVars, appVars
    <3>3. PreparedInv'
      BY <2>1, <2>3, <3>1 DEF PreparedInv, Posting, Dequeued, mpVars, ffVars, ffOthers,
                              readVars
    <3>4. PausedInv'
      BY <2>1 DEF PausedInv, mpVars, ffVars, ffOthers
    <3>5. QED
      BY <3>2, <3>3, <3>4
  <2>4. QED
    BY <1>1, <2>2, <2>3 DEF LoopGets
<1>2. CASE HandleOther \/ HandleSeekComplete \/ HandleStartRefused
  BY <1>2 DEF HandleOther, HandleSeekComplete, HandleStartRefused, LifeInv, PreparedInv,
              PausedInv, Posting, Dequeued, mpVars, qVars, ffVars, ffOthers, readVars,
              appVars
<1>3. CASE HandlePrepared
  <2>1. UNCHANGED <<mutex, qVars, ffVars, readVars, appVars>> /\ loop' = "get"
        /\ Dequeued("PREPARED")
    BY <1>3 DEF HandlePrepared, Dequeued
  <2>2. opened /\ mutex = "free"
    BY <1>3, <2>1 DEF LifeInv, Dequeued, HandlePrepared
  <2>3. mp_state' \in {"PAUSED", "PREPARED", mp_state}
    BY <1>3 DEF HandlePrepared
  <2>4. LifeInv'
    BY <2>1, <2>2, <2>3
       DEF LifeInv, Unopened, qVars, ffVars, ffOthers, readVars, appVars
  <2>5. ~is_abort => /\ mp_state = "ASYNC_PREPARING" /\ ~Posting
                     /\ "PREPARED" \notin Codes(q)
    BY <2>1 DEF PreparedInv, Posting
  <2>6. ~is_abort => mp_state' = IF StartOnPrepared THEN "PREPARED" ELSE "PAUSED"
    BY <1>3, <2>5 DEF HandlePrepared
  <2>7. PreparedInv'
    BY <2>1, <2>5, <2>6, NoneIsOnce
       DEF PreparedInv, Posting, Dequeued, qVars, ffVars, ffOthers, readVars
  <2>8. PausedInv'
    BY <2>1, <2>5, <2>6 DEF PausedInv, PreparedInv, ffVars, ffOthers
  <2>9. QED
    BY <2>4, <2>7, <2>8
<1>4. CASE HandleCompleted
  <2>1. opened /\ Dequeued("COMPLETED")
    BY <1>4 DEF HandleCompleted, LifeInv, Dequeued
  <2>2. QED
    BY <1>4, <2>1
       DEF HandleCompleted, LifeInv, PreparedInv, PausedInv, Posting, Dequeued, Unopened,
           qVars, ffVars, ffOthers, readVars, appVars
<1>5. CASE HandleStart \/ StartFromResumes
  <2>1. /\ mp_state \in Playable /\ mp_state' \in {"STARTED", mp_state}
        /\ HandleStart => mp_state' = "STARTED"
        /\ StartFromResumes => mutex' = "loop" /\ mp_state' = mp_state
        /\ loop' \in {"get", "start1"} /\ HandleStart => loop' = "get"
        /\ UNCHANGED <<qVars, msg, ffOthers, readVars, appVars>>
    BY <1>5 DEF HandleStart, StartFromResumes, mpVars
  <2>2. loop' \in {"get", "start1"}
    BY <1>5 DEF HandleStart, StartFromResumes
  <2>3. UNCHANGED <<qVars, msg, ffOthers, readVars, appVars>>
    BY <1>5 DEF HandleStart, StartFromResumes
  <2>4. LifeInv'
    BY <2>1, <2>2, <2>3 DEF LifeInv, Unopened, Playable, qVars, ffOthers, readVars, appVars
  <2>5. PreparedInv'
    BY <2>1, <2>2, <2>3
       DEF PreparedInv, Posting, Dequeued, Playable, qVars, ffOthers, readVars
  <2>6. PausedInv'
    BY <1>5, <2>1 DEF PausedInv
  <2>7. QED
    BY <2>4, <2>5, <2>6
<1>6. CASE StartFromBuffers
  BY <1>6 DEF StartFromBuffers, LifeInv, PreparedInv, PausedInv, MutexInv, Posting,
              Dequeued, Playable, mpVars, qVars, ffOthers, readVars, appVars
<1>7. CASE StartFromSeeks
  BY <1>7 DEF StartFromSeeks, LifeInv, PreparedInv, PausedInv, Posting,
              Dequeued, Playable, Unopened, qVars, readVars, appVars
<1>8. CASE HandlePause
  <2>1. /\ loop = "handle" /\ loop' = "get"
        /\ UNCHANGED <<mutex, qVars, msg, ffOthers, readVars, appVars>>
    BY <1>8 DEF HandlePause
  <2>2. CASE mp_state \in Playable
    <3>1. mp_state' = "PAUSED" /\ HeldForGood(pl')
      BY <1>0, <1>8, <2>2, TogglePauseHolds DEF HandlePause
    <3>2. QED
      BY <2>1, <2>2, <3>1
         DEF LifeInv, PreparedInv, PausedInv, Posting, Dequeued, Playable, Unopened,
             qVars, ffOthers, readVars, appVars
  <2>3. CASE mp_state \notin Playable
    <3>1. UNCHANGED <<mp_state, pl>>
      BY <1>8, <2>3 DEF HandlePause
    <3>2. QED
      BY <2>1, <2>3, <3>1
         DEF LifeInv, PreparedInv, PausedInv, Posting, Dequeued, Playable, Unopened,
             qVars, ffOthers, readVars, appVars
  <2>4. QED
    BY <2>2, <2>3
<1>9. CASE HandleSeek
  <2>1. /\ loop = "handle" /\ loop' = "get"
        /\ UNCHANGED <<mp_state, mutex, q_abort, msg, opened, is_abort, readVars, appVars>>
    BY <1>9 DEF HandleSeek
  <2>2. CASE UNCHANGED <<pl, q>>
    BY <2>1, <2>2
       DEF LifeInv, PreparedInv, PausedInv, Posting, Dequeued, readVars, appVars
  <2>3. CASE /\ mp_state \in Playable
             /\ pl' = TogglePause(pl, TRUE) /\ q' = Posted(q, Msg("COMPLETED"))
    <3>1. HeldForGood(pl')
      BY <1>0, <2>3, TogglePauseHolds
    <3>2. /\ Codes(q') \subseteq Codes(q) \cup {"COMPLETED"}
          /\ Once(q, "PREPARED") => Once(q', "PREPARED")
          /\ Before(q, "PREPARED", "COMPLETED") => Before(q', "PREPARED", "COMPLETED")
      BY <1>0, <2>3, PostedCodes, MsgType DEF Whats, Msg
    <3>3. opened
      BY <2>3 DEF LifeInv, Playable, Unopened
    <3>4. LifeInv'
      BY <2>1, <2>3, <3>3 DEF LifeInv, readVars, appVars, Playable, Unopened
    <3>5. PreparedInv'
      BY <2>1, <2>3, <3>2 DEF PreparedInv, Posting, Dequeued, readVars, Playable
    <3>6. PausedInv'
      BY <3>1 DEF PausedInv
    <3>7. QED
      BY <3>4, <3>5, <3>6
  <2>4. QED
    BY <1>9, <2>2, <2>3 DEF HandleSeek
<1>10. QED
  BY <1>1, <1>2, <1>3, <1>4, <1>5, <1>6, <1>7, <1>8, <1>9 DEF MessageLoop

(***************************************************************************)
(* What read_thread does to the queue, and where it goes.                  *)
(***************************************************************************)
LEMMA ReadPosts ==
  ASSUME TypeOK, ReadThread
  PROVE  /\ q_abort' = q_abort
         /\ rt # "off" /\ rt' # "off"
         /\ \/ q' = q
            \/ \E m \in Messages :
                 /\ q' = Posted(q, m)
                 /\ m.what = "PREPARED" => rt = "announce"
                 /\ m.what = "COMPLETED" => ~Posting /\ ~Posting'
         /\ Posting' => rt \in {"open", "hold"}
<1> USE DEF ReadsAt, Posting, qVars, Reads
<1>1. CASE ReadAnnounces \/ ReadResumes \/ SeekReports \/ CompleteReports \/ ReadFails
  <2>1. \E m \in Messages : /\ q' \in {q, Posted(q, m)}
                            /\ m.what = "PREPARED" => rt = "announce"
                            /\ m.what = "COMPLETED" => ~Posting /\ ~Posting'
    <3>1. Msg("PREPARED") \in Messages /\ Msg("REQ_START") \in Messages
          /\ Msg("ERROR") \in Messages /\ Msg("COMPLETED") \in Messages
      BY MsgType DEF Whats
    <3>2. [what |-> "SEEK_COMPLETE", arg |-> target] \in Messages
      BY MsgType DEF Whats, TypeOK
    <3>3. QED
      BY <1>1, <3>1, <3>2 DEF ReadAnnounces, ReadResumes, SeekReports, CompleteReports,
                              ReadFails, Msg
  <2>2. QED
    BY <1>1, <2>1 DEF ReadAnnounces, ReadResumes, SeekReports, CompleteReports, ReadFails
<1>2. CASE ~(ReadAnnounces \/ ReadResumes \/ SeekReports \/ CompleteReports \/ ReadFails)
  BY <1>2 DEF ReadThread, ReadOpens, ReadHolds, ReadWaitsForStart,
       ReadClearsResume, ReadLeaves, ReadGoesOn, SeekBegins, SeekMoves,
       SeekResumes, SeekBuffers, ReadWaitsForRoom, EndLoops, EndExits,
       EndIsOld, ReadWaitsForSeek, EndIsNew, CompleteBuffers, CompletePauses,
       ReadPacket, ReadEnds
<1>3. QED
  BY <1>1, <1>2

(***************************************************************************)
(* read_thread keeps the invariants.                                       *)
(***************************************************************************)
LEMMA ReadLives ==
  ASSUME TypeOK, ControlGood, MutexInv, StopInv, LivesWell, ReadThread
  PROVE  LivesWell'
<1> USE DEF LivesWell
<1>0. q \in Seq(Messages) /\ pl \in PlayControls
  BY DEF TypeOK
<1>1. UNCHANGED stopVars
  BY ReadStop
<1>2. HeldForGood(pl) => HeldForGood(pl')
  BY <1>0, ReadHeld
<1>3. opened /\ opened'
  BY <1>1, ReadPosts DEF LifeInv, stopVars
<1>4. LifeInv'
  BY <1>1, <1>3, ReadPosts DEF LifeInv, stopVars, Unopened
<1>5. PausedInv'
  BY <1>1, <1>2 DEF PausedInv, stopVars
<1>6. PreparedInv'
  <2> SUFFICES ASSUME ~is_abort
               PROVE  PreparedInv'
    BY <1>1 DEF PreparedInv, stopVars
  <2>1. CASE q' = q
    BY <1>1, <1>2, <2>1, ReadPosts DEF PreparedInv, stopVars, Posting, Dequeued
  <2>2. CASE \E m \in Messages : /\ q' = Posted(q, m)
                                 /\ m.what = "PREPARED" => rt = "announce"
                                 /\ m.what = "COMPLETED" => ~Posting /\ ~Posting'
    <3>1. PICK m \in Messages : /\ q' = Posted(q, m)
                                /\ m.what = "PREPARED" => rt = "announce"
                                /\ m.what = "COMPLETED" => ~Posting /\ ~Posting'
      BY <2>2
    <3>2. /\ Codes(q') \subseteq Codes(q) \cup {m.what}
          /\ Once(q, "PREPARED") /\ (m.what = "PREPARED" => "PREPARED" \notin Codes(q))
               => Once(q', "PREPARED")
          /\ Before(q, "PREPARED", "COMPLETED")
               /\ (m.what = "PREPARED" => "COMPLETED" \notin Codes(q))
               => Before(q', "PREPARED", "COMPLETED")
      BY <1>0, <3>1, PostedCodes
    <3>3. CASE m.what = "PREPARED"
      BY <1>1, <1>2, <3>1, <3>2, <3>3, ReadPosts
         DEF PreparedInv, stopVars, Posting, Dequeued
    <3>4. CASE m.what # "PREPARED"
      BY <1>1, <1>2, <3>1, <3>2, <3>4, ReadPosts
         DEF PreparedInv, stopVars, Posting, Dequeued
    <3>5. QED
      BY <3>3, <3>4
  <2>3. QED
    BY <2>1, <2>2, ReadPosts
<1>7. QED
  BY <1>4, <1>5, <1>6

(***************************************************************************)
(* So do the renderers.                                                    *)
(***************************************************************************)
LEMMA RenderLives ==
  ASSUME TypeOK, ControlGood, LivesWell, Render \/ Starve
  PROVE  LivesWell'
<1>1. UNCHANGED stopVars /\ UNCHANGED <<q, rt>>
  BY RenderStop DEF Render, Starve, qVars, readVars
<1>2. HeldForGood(pl) => HeldForGood(pl')
  BY RenderHeld DEF TypeOK
<1>3. QED
  BY <1>1, <1>2 DEF LivesWell, LifeInv, PreparedInv, PausedInv, stopVars, Posting, Dequeued

(***************************************************************************)
(* The invariants hold in every reachable state.                           *)
(***************************************************************************)
LEMMA LivesInvariant == Spec => []LivesWell
<1>1. Init => LivesWell
  <2> SUFFICES ASSUME Init
               PROVE  LivesWell
    OBVIOUS
  <2>1. Codes(q) = {} /\ Once(q, "PREPARED") /\ Before(q, "PREPARED", "COMPLETED")
    BY DEF Init, Codes, Once, Before
  <2>2. ~StartOnPrepared => HeldForGood(pl)
    BY DEF Init, OpenControl, HeldForGood
  <2>3. QED
    BY <2>1, <2>2 DEF Init, LivesWell, LifeInv, PreparedInv, PausedInv, Posting, Dequeued,
                      Unopened
<1>2. /\ TypeOK /\ ControlGood /\ MutexInv /\ StopInv /\ LivesWell /\ [Next]_vars
      => LivesWell'
  <2> SUFFICES ASSUME TypeOK, ControlGood, MutexInv, StopInv, LivesWell, [Next]_vars
               PROVE  LivesWell'
    OBVIOUS
  <2>1. CASE UNCHANGED vars
    BY <2>1 DEF vars, mpVars, qVars, loopVars, ffOthers, ffVars, readVars, appVars,
                LivesWell, LifeInv, PreparedInv, PausedInv, Posting, Dequeued
  <2>2. CASE Next
    BY <2>2, AppLives, LoopLives, ReadLives, RenderLives DEF Next
  <2>3. QED
    BY <2>1, <2>2
<1>3. QED
  BY <1>1, <1>2, TypeCorrect, ControlGoodInvariant, StopInvariant, PTL DEF Spec

(***************************************************************************)
(* PausedIsHeld: a player that says it is paused has the pause on record.  *)
(***************************************************************************)
THEOREM PauseOnRecord == Spec => []PausedIsHeld
<1>1. PausedInv /\ MutexInv => PausedIsHeld
  BY DEF PausedInv, MutexInv, PausedIsHeld, Quiet, HeldForGood
<1>2. QED
  BY <1>1, LivesInvariant, StopInvariant, PTL DEF LivesWell

-----------------------------------------------------------------------------
\* The player is to run, but is paused, and nothing under way will resume it:
\* Stranded, or at the end of the media.
Lost ==
  LET starting == loop \in {"start1", "start2"}
  IN  /\ starting \/ mp_state = "STARTED"
      /\ pl.pause_req /\ ~is_abort
      /\ ~(pl.auto_resume /\ (starting \/ is_seek # NoSeek \/ rt = "seekresume"))
      /\ ~Pending({"REQ_START", "REQ_PAUSE", "COMPLETED"})

\* read_thread completes the media, and has not told it yet.
Completing == rt \in {"complete1", "complete2", "complete3"}

(***************************************************************************)
(* The end of the media is told, so that a player that is at its end and   *)
(* is not lost has a way back, unless an error ended the media.            *)
(***************************************************************************)
CompletedInv ==
  /\ ~IoErrors => ~io_error
  /\ Completing => completed
  /\ rt \in {"off", "open", "hold", "announce", "waitstart", "resume", "clear"}
       => ~completed
  /\ completed /\ ~Completing /\ ~IoErrors => ~Lost

(***************************************************************************)
(* What the sections under play_mutex make of a pause and of a resume that *)
(* waits.                                                                  *)
(***************************************************************************)
LEMMA ControlRequests ==
  ASSUME NEW p \in PlayControls, NEW on \in BOOLEAN
  PROVE  /\ TogglePause(p, on).pause_req = on
         /\ ToggleBuffering(p, on).pause_req = p.pause_req
         /\ ToggleBuffering(p, on).auto_resume = p.auto_resume
         /\ FrameShown(p).pause_req = p.pause_req
         /\ FrameShown(p).auto_resume = p.auto_resume
         /\ [p EXCEPT !.auto_resume = on].pause_req = p.pause_req
         /\ [p EXCEPT !.auto_resume = on].auto_resume = on
         /\ p.auto_resume => ~ResumeAfterSeek(p).pause_req
         /\ ~p.auto_resume => /\ ResumeAfterSeek(p).pause_req = p.pause_req
                              /\ ~ResumeAfterSeek(p).auto_resume
BY DEF TogglePause, ToggleBuffering, FrameShown, ResumeAfterSeek, StepToNextFrame,
       StreamUpdatePause, StreamTogglePause, Held, PlayControls

\* The messages that bring a player that is lost back.
Ways == {"REQ_START", "REQ_PAUSE", "COMPLETED"}

(***************************************************************************)
(* A step that changes nothing Lost looks at, but adds messages or a seek, *)
(* loses no player.                                                        *)
(***************************************************************************)
LEMMA StillFound ==
  ASSUME ~Lost, UNCHANGED <<mp_state, loop, msg, is_abort>>,
         Codes(q) \cap Ways \subseteq Codes(q'),
         pl'.pause_req = pl.pause_req, pl'.auto_resume = pl.auto_resume,
         is_seek # NoSeek => is_seek' # NoSeek,
         rt = "seekresume" => rt' = "seekresume"
  PROVE  ~Lost'
<1>1. Waiting(Ways) => Waiting(Ways)'
  BY DEF Waiting, Codes
<1>2. QED
  BY <1>1 DEF Lost, Pending, Ways

(***************************************************************************)
(* The calls of the application lose no player.                            *)
(***************************************************************************)
LEMMA AppFinds ==
  ASSUME TypeOK, LivesWell, ~Lost, App
  PROVE  ~Lost'
<1> USE DEF LivesWell, AppFree, Call
<1>1. CASE SetDataSource \/ PrepareAsync
  BY <1>1 DEF SetDataSource, PrepareAsync, LifeInv, Lost, loopVars
<1>2. CASE PrepareAgain \/ Stop \/ AppStops
  <2>1. is_abort'
    BY <1>2 DEF PrepareAgain, Stop, AppStops, StopPauses, StopAborts, LifeInv, Unopened,
                ffVars, ffOthers
  <2>2. QED
    BY <2>1 DEF Lost
<1>3. CASE Start \/ Pause
  <2>1. PICK what \in {"REQ_START", "REQ_PAUSE"} :
          q' = Posted(Without({"REQ_START", "REQ_PAUSE"}), Msg(what))
    BY <1>3 DEF Start, Pause
  <2>2. mp_state \in Playable /\ UNCHANGED <<is_abort, opened, q_abort>>
    BY <1>3 DEF Start, Pause, ffVars, ffOthers
  <2>3. ~is_abort => ~q_abort
    BY <2>2 DEF LifeInv, Playable, Unopened
  <2>4. ~is_abort => what \in Codes(q')
    BY <2>1, <2>3, WithoutCodes, PostedCodes, MsgType DEF TypeOK, Whats, Msg
  <2>5. ~is_abort => Waiting({"REQ_START", "REQ_PAUSE", "COMPLETED"})'
    BY <2>4 DEF Waiting, Codes
  <2>6. QED
    BY <2>2, <2>5 DEF Lost, Pending
<1>4. CASE \E to \in Targets : SeekTo(to)
  <2>1. PICK to \in Targets : SeekTo(to)
    BY <1>4
  <2>2. Codes(q) \ {"REQ_SEEK"} \subseteq Codes(Without({"REQ_SEEK"}))
        /\ Without({"REQ_SEEK"}) \in Seq(Messages)
    BY WithoutCodes DEF TypeOK
  <2>3. [what |-> "REQ_SEEK", arg |-> to] \in Messages
    BY MsgType DEF Whats
  <2>4. Codes(q) \cap Ways \subseteq Codes(q')
    BY <2>1, <2>2, <2>3, PostedCodes DEF SeekTo, Ways
  <2>5. QED
    BY <2>1, <2>4, StillFound DEF SeekTo, loopVars, ffVars, ffOthers, readVars
<1>5. QED
  BY <1>1, <1>2, <1>3, <1>4 DEF App

(***************************************************************************)
(* Nor does the message loop: what it takes out of the queue it carries    *)
(* out, and a start from the beginning leaves its resume to the seek.      *)
(***************************************************************************)
LEMMA LoopFinds ==
  ASSUME TypeOK, LivesWell, ~Lost, MessageLoop
  PROVE  ~Lost'
<1> USE DEF LivesWell, Handles
<1>0. q \in Seq(Messages) /\ pl \in PlayControls
  BY DEF TypeOK
<1>1. CASE LoopGets
  <2>1. UNCHANGED <<mp_state, is_abort, pl, is_seek, rt>> /\ loop = "get"
    BY <1>1 DEF LoopGets, mpVars, ffVars, ffOthers, readVars
  <2>2. CASE loop' = "off" /\ UNCHANGED <<q, msg>>
    BY <2>1, <2>2 DEF Lost, Pending, Waiting
  <2>3. CASE q # <<>> /\ msg' = Head(q) /\ q' = Tail(q) /\ loop' = "handle"
    <3>1. Codes(q) = Codes(q') \cup {msg'.what}
      BY <1>0, <2>3, TailCodes
    <3>2. Waiting(Ways) => Pending(Ways)'
      BY <2>3, <3>1 DEF Waiting, Pending, Codes
    <3>3. QED
      BY <2>1, <2>3, <3>2 DEF Lost, Pending, Ways
  <2>4. QED
    BY <1>1, <2>2, <2>3 DEF LoopGets
<1>2. CASE HandleOther \/ HandleSeekComplete \/ HandleStartRefused \/ HandlePrepared
  <2>1. /\ loop = "handle" /\ loop' = "get" /\ UNCHANGED <<q, is_abort, pl, is_seek, rt>>
        /\ mp_state' = "STARTED" => mp_state = "STARTED" /\ msg.what \notin Ways
    BY <1>2 DEF HandleOther, HandleSeekComplete, HandleStartRefused, HandlePrepared,
                mpVars, qVars, ffVars, ffOthers, readVars, Playable, Ways
  <2>2. QED
    BY <2>1 DEF Lost, Pending, Waiting, Ways
<1>3. CASE HandleCompleted
  BY <1>3 DEF HandleCompleted, Lost
<1>4. CASE HandleStart
  <2>1. ~pl'.pause_req
    BY <1>0, <1>4, ControlRequests DEF HandleStart
  <2>2. QED
    BY <2>1 DEF Lost
<1>5. CASE StartFromResumes
  <2>1. pl'.auto_resume /\ loop' = "start1"
    BY <1>0, <1>5, ControlRequests DEF StartFromResumes
  <2>2. QED
    BY <2>1 DEF Lost
<1>6. CASE StartFromBuffers
  <2>1. pl'.pause_req = pl.pause_req /\ pl'.auto_resume = pl.auto_resume
    BY <1>0, <1>6, ControlRequests DEF StartFromBuffers
  <2>2. QED
    BY <1>6, <2>1 DEF StartFromBuffers, Lost, Pending, Waiting, qVars, ffOthers
<1>7. CASE StartFromSeeks
  <2>1. is_seek' # NoSeek
    <3>1. Duration \in Nat
      BY PlayerAssumption
    <3>2. 0 # NoSeek
      BY <3>1 DEF NoSeek
    <3>3. QED
      BY <1>7, <3>2 DEF StartFromSeeks, StreamSeek
  <2>2. QED
    BY <1>7, <2>1 DEF StartFromSeeks, Lost, Pending, Waiting, qVars
<1>8. CASE HandlePause
  BY <1>8 DEF HandlePause, Lost, Playable
<1>9. CASE HandleSeek
  <2>1. /\ loop = "handle" /\ msg.what = "REQ_SEEK" /\ loop' = "get"
        /\ UNCHANGED <<mp_state, is_abort, opened, q_abort, rt>>
    BY <1>9 DEF HandleSeek, readVars
  <2>2. CASE /\ UNCHANGED <<pl, q>>
             /\ is_seek # NoSeek => is_seek' # NoSeek
    BY <2>1, <2>2 DEF Lost, Pending, Waiting
  <2>3. CASE /\ mp_state \in Playable
             /\ q' = Posted(q, Msg("COMPLETED"))
    <3>1. ~is_abort => "COMPLETED" \in Codes(q')
      BY <1>0, <2>3, PostedCodes, MsgType DEF LifeInv, Playable, Unopened, Whats, Msg
    <3>2. ~is_abort => Waiting({"REQ_START", "REQ_PAUSE", "COMPLETED"})'
      BY <3>1 DEF Waiting, Codes
    <3>3. QED
      BY <2>1, <3>2 DEF Lost, Pending
  <2>4. QED
    BY <1>9, <2>2, <2>3 DEF HandleSeek, StreamSeek
<1>10. QED
  BY <1>1, <1>2, <1>3, <1>4, <1>5, <1>6, <1>7, <1>8, <1>9 DEF MessageLoop

(***************************************************************************)
(* read_thread loses a player only when it forgets auto_resume, or at the  *)
(* end of the media.                                                       *)
(***************************************************************************)
LEMMA ReadFinds ==
  ASSUME TypeOK, LivesWell, ~Lost, ReadThread
  PROVE  ~Lost' \/ rt = "clear" \/ Completing'
<1> USE DEF ReadsAt
<1>0. q \in Seq(Messages) /\ pl \in PlayControls
  BY DEF TypeOK
<1>1. UNCHANGED <<mp_state, loop, msg, is_abort>>
  BY ReadStop DEF stopVars
<1>2. Codes(q) \subseteq Codes(q')
  BY <1>0, ReadPosts, PostedCodes
<1>3. CASE ReadHolds
  <2>1. is_abort \/ mp_state = "ASYNC_PREPARING"
    BY <1>3 DEF ReadHolds, LivesWell, PreparedInv, Posting
  <2>2. QED
    BY <1>1, <2>1 DEF Lost, LivesWell, LifeInv, Playable
<1>4. CASE ReadClearsResume
  BY <1>4 DEF ReadClearsResume
<1>5. CASE EndIsNew \/ CompletePauses
  BY <1>5 DEF EndIsNew, CompletePauses, Completing
<1>6. CASE SeekMoves
  <2>1. UNCHANGED pl /\ rt' = "seekresume" /\ rt = "seek" /\ UNCHANGED q
    BY <1>6 DEF SeekMoves, qVars
  <2>2. QED
    BY <1>1, <2>1 DEF Lost, Pending, Waiting
<1>7. CASE SeekResumes
  <2>1. pl' = ResumeAfterSeek(pl) /\ UNCHANGED q /\ UNCHANGED is_seek
    BY <1>7 DEF SeekResumes, qVars, ffOthers
  <2>2. pl.auto_resume => ~pl'.pause_req
    BY <1>0, <2>1, ControlRequests
  <2>3. ~pl.auto_resume => pl'.pause_req = pl.pause_req
    BY <1>0, <2>1, ControlRequests
  <2>4. QED
    BY <1>1, <2>1, <2>2, <2>3 DEF Lost, Pending, Waiting
<1>8. CASE ~(ReadHolds \/ ReadClearsResume \/ EndIsNew \/ CompletePauses \/ SeekMoves
             \/ SeekResumes)
  <2>1. rt # "seekresume"
    BY <1>8 DEF ReadThread, ReadOpens, ReadAnnounces, ReadWaitsForStart, ReadResumes,
         ReadLeaves, ReadGoesOn, SeekBegins, SeekReports, SeekBuffers,
         ReadWaitsForRoom, EndLoops, EndExits, EndIsOld, ReadWaitsForSeek,
         CompleteBuffers, CompleteReports, ReadPacket, ReadEnds, ReadFails, Reads
  <2>2. is_seek # NoSeek => is_seek' # NoSeek
    BY <1>8 DEF ReadThread, ReadOpens, ReadAnnounces, ReadWaitsForStart, ReadResumes,
         ReadLeaves, ReadGoesOn, SeekBegins, SeekReports, SeekBuffers,
         ReadWaitsForRoom, EndLoops, EndExits, EndIsOld, ReadWaitsForSeek,
         CompleteBuffers, CompleteReports, ReadPacket, ReadEnds, ReadFails, ffVars,
         ffOthers, StreamSeek
  <2>3. pl' = pl \/ \E on \in BOOLEAN : pl' = ToggleBuffering(pl, on)
    BY <1>8 DEF ReadThread, ReadOpens, ReadAnnounces, ReadWaitsForStart, ReadResumes,
         ReadLeaves, ReadGoesOn, SeekBegins, SeekReports, SeekBuffers,
         ReadWaitsForRoom, EndLoops, EndExits, EndIsOld, ReadWaitsForSeek,
         CompleteBuffers, CompleteReports, ReadPacket, ReadEnds, ReadFails, ffVars
  <2>4. pl'.pause_req = pl.pause_req /\ pl'.auto_resume = pl.auto_resume
    BY <1>0, <2>3, ControlRequests
  <2>5. QED
    BY <1>1, <1>2, <2>1, <2>2, <2>4, StillFound
<1>9. QED
  BY <1>3, <1>4, <1>5, <1>6, <1>7, <1>8

(***************************************************************************)
(* The renderers lose no player.                                           *)
(***************************************************************************)
LEMMA RenderFinds ==
  ASSUME TypeOK, ~Lost, Render \/ Starve
  PROVE  ~Lost'
<1>1. UNCHANGED stopVars /\ UNCHANGED <<q, is_seek, rt>>
  BY RenderStop DEF Render, Starve, qVars, readVars, ffOthers
<1>2. pl'.pause_req = pl.pause_req /\ pl'.auto_resume = pl.auto_resume
  <2>1. pl \in PlayControls
    BY DEF TypeOK
  <2>2. pl' = pl \/ pl' = FrameShown(pl) \/ pl' = ToggleBuffering(pl, TRUE)
    BY DEF Render, Starve
  <2>3. /\ FrameShown(pl).pause_req = pl.pause_req
        /\ FrameShown(pl).auto_resume = pl.auto_resume
        /\ ToggleBuffering(pl, TRUE).pause_req = pl.pause_req
        /\ ToggleBuffering(pl, TRUE).auto_resume = pl.auto_resume
    BY <2>1, ControlRequests, Zenon
  <2>4. QED
    BY <2>2, <2>3
<1>3. QED
  BY <1>1, <1>2, StillFound DEF stopVars

(***************************************************************************)
(* CompletedInv holds in every reachable state.                            *)
(***************************************************************************)
LEMMA CompletedInvariant == Spec => []CompletedInv
<1>1. Init => CompletedInv
  BY DEF Init, CompletedInv, Completing
<1>2. TypeOK /\ LivesWell /\ CompletedInv /\ [Next]_vars => CompletedInv'
  <2> SUFFICES ASSUME TypeOK, LivesWell, CompletedInv, [Next]_vars
               PROVE  CompletedInv'
    OBVIOUS
  <2>1. CASE UNCHANGED vars
    BY <2>1 DEF vars, mpVars, qVars, loopVars, ffOthers, ffVars, readVars, readData,
                appVars, CompletedInv, Completing, Lost, Pending, Waiting
  <2>2. CASE App
    <3>1. CASE PrepareAsync
      BY <2>2, <3>1 DEF PrepareAsync, CompletedInv, Completing, LivesWell, LifeInv,
                        readData, Unopened
    <3>2. CASE ~PrepareAsync
      <4>1. UNCHANGED readVars
        BY <2>2, <3>2 DEF App, SetDataSource, PrepareAgain, Start, Pause, SeekTo, Stop,
                          AppStops, StopPauses, StopAborts
      <4>2. ~Lost => ~Lost'
        BY <2>2, AppFinds
      <4>3. QED
        BY <4>1, <4>2 DEF CompletedInv, Completing, readVars, readData
    <3>3. QED
      BY <3>1, <3>2
  <2>3. CASE MessageLoop
    <3>1. UNCHANGED readVars
      BY <2>3 DEF MessageLoop, LoopGets, HandleOther, HandlePrepared, HandleCompleted,
         HandleSeekComplete, HandleStartRefused, HandleStart, StartFromResumes,
         StartFromBuffers, StartFromSeeks, HandlePause, HandleSeek
    <3>2. ~Lost => ~Lost'
      BY <2>3, LoopFinds
    <3>3. QED
      BY <3>1, <3>2 DEF CompletedInv, Completing, readVars, readData
  <2>4. CASE Render \/ Starve
    <3>1. UNCHANGED readVars
      BY <2>4 DEF Render, Starve
    <3>2. ~Lost => ~Lost'
      BY <2>4, RenderFinds
    <3>3. QED
      BY <3>1, <3>2 DEF CompletedInv, Completing, readVars, readData
  <2>5. CASE ReadThread
    <3>1. ~IoErrors => ~io_error'
      BY <2>5 DEF CompletedInv, ReadThread, ReadOpens, ReadHolds, ReadAnnounces,
         ReadWaitsForStart, ReadResumes, ReadClearsResume, ReadLeaves, ReadGoesOn,
         SeekBegins, SeekMoves, SeekResumes, SeekReports, SeekBuffers, ReadWaitsForRoom,
         EndLoops, EndExits, EndIsOld, ReadWaitsForSeek, EndIsNew, CompleteBuffers,
         CompletePauses, CompleteReports, ReadPacket, ReadEnds, ReadFails, readData
    <3>2. Completing' => completed'
      BY <2>5 DEF CompletedInv, Completing, ReadThread, ReadOpens, ReadHolds,
         ReadAnnounces, ReadWaitsForStart, ReadResumes, ReadClearsResume, ReadLeaves,
         ReadGoesOn, SeekBegins, SeekMoves, SeekResumes, SeekReports, SeekBuffers,
         ReadWaitsForRoom, EndLoops, EndExits, EndIsOld, ReadWaitsForSeek, EndIsNew,
         CompleteBuffers, CompletePauses, CompleteReports, ReadPacket, ReadEnds,
         ReadFails, ReadsAt, Reads, readData
    <3>3. rt' \in {"off", "open", "hold", "announce", "waitstart", "resume", "clear"}
            => ~completed'
      BY <2>5 DEF CompletedInv, ReadThread, ReadOpens, ReadHolds,
         ReadAnnounces, ReadWaitsForStart, ReadResumes, ReadClearsResume, ReadLeaves,
         ReadGoesOn, SeekBegins, SeekMoves, SeekResumes, SeekReports, SeekBuffers,
         ReadWaitsForRoom, EndLoops, EndExits, EndIsOld, ReadWaitsForSeek, EndIsNew,
         CompleteBuffers, CompletePauses, CompleteReports, ReadPacket, ReadEnds,
         ReadFails, ReadsAt, Reads, readData
    <3>4. ASSUME completed', ~Completing', ~IoErrors, Lost'
          PROVE  FALSE
      <4>1. CASE Completing
        <5>1. CompleteReports
          BY <2>5, <3>4, <4>1 DEF Completing, ReadThread, ReadOpens, ReadHolds,
             ReadAnnounces, ReadWaitsForStart, ReadResumes, ReadClearsResume, ReadLeaves,
             ReadGoesOn, SeekBegins, SeekMoves, SeekResumes, SeekReports, SeekBuffers,
             ReadWaitsForRoom, EndLoops, EndExits, EndIsOld, ReadWaitsForSeek, EndIsNew,
             CompleteBuffers, CompletePauses, ReadPacket, ReadEnds, ReadFails, ReadsAt,
             Reads
        <5>2. q' = Posted(q, Msg("COMPLETED"))
          BY <3>4, <5>1 DEF CompleteReports, CompletedInv
        <5>3. ~is_abort /\ ~q_abort
          BY <2>5, <3>4, ReadStop, ReadPosts DEF LivesWell, LifeInv, stopVars, Lost
        <5>4. "COMPLETED" \in Codes(q')
          BY <5>2, <5>3, PostedCodes, MsgType DEF TypeOK, Whats, Msg
        <5>5. Waiting({"REQ_START", "REQ_PAUSE", "COMPLETED"})'
          BY <5>4 DEF Waiting, Codes
        <5>6. QED
          BY <3>4, <5>5 DEF Lost, Pending
      <4>2. CASE ~Completing
        <5>1. completed
          BY <2>5, <3>4, <4>2 DEF Completing, ReadThread, ReadOpens, ReadHolds,
             ReadAnnounces, ReadWaitsForStart, ReadResumes, ReadClearsResume, ReadLeaves,
             ReadGoesOn, SeekBegins, SeekMoves, SeekResumes, SeekReports, SeekBuffers,
             ReadWaitsForRoom, EndLoops, EndExits, EndIsOld, ReadWaitsForSeek, EndIsNew,
             CompleteBuffers, CompletePauses, CompleteReports, ReadPacket, ReadEnds,
             ReadFails, ReadsAt, readData
        <5>2. ~Lost /\ rt # "clear"
          BY <3>4, <4>2, <5>1 DEF CompletedInv
        <5>3. QED
          BY <2>5, <3>4, <5>2, ReadFinds
      <4>3. QED
        BY <4>1, <4>2
    <3>5. QED
      BY <3>1, <3>2, <3>3, <3>4 DEF CompletedInv
  <2>6. QED
    BY <2>1, <2>2, <2>3, <2>4, <2>5 DEF Next
<1>3. QED
  BY <1>1, <1>2, TypeCorrect, LivesInvariant, PTL DEF Spec

(***************************************************************************)
(* OnlyClearStrands: the steps that strand a started player are those.     *)
(***************************************************************************)
THEOREM StartedIsNotStranded == Spec => OnlyClearStrands
<1>1. TypeOK /\ LivesWell /\ CompletedInv /\ CompletedInv' /\ [Next]_vars
      => [Stranded' => Stranded \/ rt = "clear" \/ SeeksAfterError]_vars
  <2> SUFFICES ASSUME TypeOK, LivesWell, CompletedInv, CompletedInv', Next,
                      Stranded', ~Stranded, rt # "clear"
               PROVE  SeeksAfterError
    OBVIOUS
  <2>1. Lost' /\ ~completed'
    BY DEF Lost, Stranded
  <2>2. ~Lost \/ completed
    BY DEF Lost, Stranded
  <2>3. CASE ~Lost
    <3>1. ReadThread /\ Completing'
      BY <2>1, <2>3, AppFinds, LoopFinds, ReadFinds, RenderFinds DEF Next
    <3>2. completed'
      BY <3>1 DEF CompletedInv
    <3>3. QED
      BY <2>1, <3>2
  <2>4. CASE Lost /\ completed
    <3>1. SeekMoves
      BY <2>1, <2>4
         DEF Next, App, SetDataSource, PrepareAsync, PrepareAgain, Start, Pause, SeekTo,
             Stop, AppStops, StopPauses, StopAborts, MessageLoop, LoopGets, HandleOther,
             HandlePrepared, HandleCompleted, HandleSeekComplete, HandleStartRefused,
             HandleStart, StartFromResumes, StartFromBuffers, StartFromSeeks, HandlePause,
             HandleSeek, ReadThread, ReadOpens, ReadHolds, ReadAnnounces,
             ReadWaitsForStart, ReadResumes, ReadClearsResume, ReadLeaves, ReadGoesOn,
             SeekBegins, SeekResumes, SeekReports, SeekBuffers, ReadWaitsForRoom,
             EndLoops, EndExits, EndIsOld, ReadWaitsForSeek, EndIsNew, CompleteBuffers,
             CompletePauses, CompleteReports, ReadPacket, ReadEnds, ReadFails, Render,
             Starve, readVars, readData
    <3>2. rt = "seek"
      BY <3>1 DEF SeekMoves, ReadsAt
    <3>3. IoErrors
      BY <2>4, <3>2 DEF CompletedInv, Completing
    <3>4. QED
      BY <2>4, <3>2, <3>3 DEF SeeksAfterError
  <2>5. QED
    BY <2>2, <2>3, <2>4
<1>2. QED
  BY <1>1, TypeCorrect, LivesInvariant, CompletedInvariant, PTL DEF Spec, OnlyClearStrands

-----------------------------------------------------------------------------
\* The seeks that wait in s ask for the position that the player reports.
Agrees(s, reported) ==
  \A i \in DOMAIN s : s[i].what = "REQ_SEEK" => reported \in {NoSeek, s[i].arg}

(***************************************************************************)
(* A message is put behind seeks that agree.                               *)
(***************************************************************************)
LEMMA PostedAgrees ==
  ASSUME NEW s \in Seq(Messages), NEW m \in Messages, NEW reported, Agrees(s, reported),
         m.what = "REQ_SEEK" => reported = m.arg
  PROVE  Agrees(Posted(s, m), reported)
<1>1. CASE q_abort
  BY <1>1 DEF Posted
<1>2. CASE ~q_abort
  <2>1. Posted(s, m) = Append(s, m)
    BY <1>2 DEF Posted
  <2>2. ASSUME NEW i \in DOMAIN Append(s, m), Append(s, m)[i] # m
        PROVE  i \in DOMAIN s /\ Append(s, m)[i] = s[i]
    <3>1. i \in 1 .. Len(s) + 1 /\ Len(s) \in Nat /\ DOMAIN s = 1 .. Len(s)
      OBVIOUS
    <3>2. Append(s, m)[Len(s) + 1] = m
      OBVIOUS
    <3>3. i \in 1 .. Len(s)
      BY <2>2, <3>1, <3>2
    <3>4. QED
      BY <3>1, <3>3
  <2>3. QED
    BY <2>1, <2>2 DEF Agrees
<1>3. QED
  BY <1>1, <1>2

(***************************************************************************)
(* What is left when messages are removed agrees, and so does anything     *)
(* when no seek is left.                                                   *)
(***************************************************************************)
LEMMA KeptAgrees ==
  ASSUME NEW s \in Seq(Messages), NEW whats, NEW reported,
         Agrees(s, reported) \/ "REQ_SEEK" \in whats
  PROVE  Agrees(Kept(s, whats), reported)
<1>1. PICK k : /\ k = Kept(s, whats) /\ k \in Seq(Messages)
               /\ \A i \in 1 .. Len(k) :
                    \E j \in 1 .. Len(s) : k[i] = s[j] /\ s[j].what \notin whats
  BY KeptElements
<1>2. DOMAIN k = 1 .. Len(k) /\ DOMAIN s = 1 .. Len(s)
  BY <1>1
<1>3. QED
  BY <1>1, <1>2 DEF Agrees

(***************************************************************************)
(* The calls, the loop, read_thread and the renderers keep the seeks that  *)
(* wait in agreement with the position that is reported.                   *)
(***************************************************************************)
LEMMA SeekAgreesKept ==
  ASSUME TypeOK, LivesWell, SeekAgrees, [Next]_vars
  PROVE  SeekAgrees'
<1>0. q \in Seq(Messages)
  BY DEF TypeOK
<1>1. SUFFICES ASSUME ~q_abort'
               PROVE  Agrees(q', mp_seek')
  BY DEF SeekAgrees, Agrees
<1>2. ~q_abort => Agrees(q, mp_seek)
  BY DEF SeekAgrees, Agrees
<1>3. CASE UNCHANGED <<mp_seek, q, q_abort>>
  BY <1>1, <1>2, <1>3 DEF Agrees
<1>4. CASE PrepareAsync
  <2>1. q = <<>> /\ q' = Append(<<>>, Msg("FLUSH"))
    BY <1>4 DEF PrepareAsync, LivesWell, LifeInv
  <2>2. DOMAIN q' = {1} /\ q'[1].what = "FLUSH"
    BY <2>1 DEF Msg
  <2>3. QED
    BY <2>2 DEF Agrees
<1>5. CASE Start \/ Pause \/ Stop
  <2>1. UNCHANGED <<mp_seek, q_abort>>
    BY <1>5 DEF Start, Pause, Stop, mpVars
  <2>2. Agrees(Kept(q, {"REQ_START", "REQ_PAUSE"}), mp_seek)
        /\ Kept(q, {"REQ_START", "REQ_PAUSE"}) \in Seq(Messages)
    BY <1>0, <1>1, <1>2, <2>1, KeptAgrees, KeptCodes
  <2>3. CASE Stop
    BY <1>1, <2>1, <2>2, <2>3 DEF Stop, Without
  <2>4. CASE Start \/ Pause
    <3>1. PICK what \in {"REQ_START", "REQ_PAUSE"} :
            q' = Posted(Kept(q, {"REQ_START", "REQ_PAUSE"}), Msg(what))
      BY <1>1, <2>1, <2>4 DEF Start, Pause, Without
    <3>2. Msg(what) \in Messages /\ Msg(what).what # "REQ_SEEK"
      BY MsgType DEF Whats, Msg
    <3>3. QED
      BY <2>1, <2>2, <3>1, <3>2, PostedAgrees
  <2>5. QED
    BY <1>5, <2>3, <2>4
<1>6. CASE \E to \in Targets : SeekTo(to)
  <2>1. PICK to \in Targets : SeekTo(to)
    BY <1>6
  <2> DEFINE req == [what |-> "REQ_SEEK", arg |-> to]
  <2>2. req \in Messages /\ req.arg = to
    BY MsgType DEF Whats
  <2>3. Agrees(Kept(q, {"REQ_SEEK"}), to) /\ Kept(q, {"REQ_SEEK"}) \in Seq(Messages)
    BY <1>0, KeptAgrees, KeptCodes
  <2>4. q' = Posted(Kept(q, {"REQ_SEEK"}), req) /\ mp_seek' = to
    BY <1>1, <2>1 DEF SeekTo, Without
  <2> HIDE DEF req
  <2>5. QED
    BY <2>2, <2>3, <2>4, PostedAgrees
<1>7. CASE LoopGets
  <2>1. UNCHANGED <<mp_seek, q_abort>> /\ (q' = q \/ (q # <<>> /\ q' = Tail(q)))
    BY <1>7 DEF LoopGets, mpVars
  <2>2. CASE q # <<>> /\ q' = Tail(q)
    <3>1. \A i \in DOMAIN Tail(q) : i + 1 \in DOMAIN q /\ Tail(q)[i] = q[i + 1]
      BY <1>0, <2>2
    <3>2. QED
      BY <1>1, <1>2, <2>1, <2>2, <3>1 DEF Agrees
  <2>3. QED
    BY <1>1, <1>2, <2>1, <2>2 DEF Agrees
<1>8. CASE HandleSeekComplete
  BY <1>8 DEF HandleSeekComplete, Agrees
<1>9. CASE HandleSeek
  <2>1. UNCHANGED <<mp_seek, q_abort>> /\ q' \in {q, Posted(q, Msg("COMPLETED"))}
    BY <1>9 DEF HandleSeek
  <2>2. Msg("COMPLETED") \in Messages /\ Msg("COMPLETED").what # "REQ_SEEK"
    BY MsgType DEF Whats, Msg
  <2>3. QED
    BY <1>0, <1>1, <1>2, <2>1, <2>2, PostedAgrees
<1>10. CASE ReadThread
  <2>1. UNCHANGED <<mp_seek, q_abort>>
    BY <1>10, ReadPosts
       DEF ReadThread, ReadOpens, ReadHolds, ReadAnnounces, ReadWaitsForStart,
       ReadResumes, ReadClearsResume, ReadLeaves, ReadGoesOn, SeekBegins, SeekMoves,
       SeekResumes, SeekReports, SeekBuffers, ReadWaitsForRoom, EndLoops, EndExits,
       EndIsOld, ReadWaitsForSeek, EndIsNew, CompleteBuffers, CompletePauses,
       CompleteReports, ReadPacket, ReadEnds, ReadFails, outside, mpVars
  <2>2. q' = q \/ \E m \in Messages : q' = Posted(q, m) /\ m.what # "REQ_SEEK"
    <3>1. CASE ReadAnnounces \/ ReadResumes \/ SeekReports \/ CompleteReports \/ ReadFails
      <4>1. Msg("PREPARED") \in Messages /\ Msg("REQ_START") \in Messages
            /\ Msg("ERROR") \in Messages /\ Msg("COMPLETED") \in Messages
            /\ [what |-> "SEEK_COMPLETE", arg |-> target] \in Messages
        BY MsgType DEF Whats, TypeOK
      <4>2. QED
        BY <3>1, <4>1 DEF ReadAnnounces, ReadResumes, SeekReports, CompleteReports,
                          ReadFails, Msg
    <3>2. CASE ~(ReadAnnounces \/ ReadResumes \/ SeekReports \/ CompleteReports
                 \/ ReadFails)
      BY <1>10, <3>2
         DEF ReadThread, ReadOpens, ReadHolds, ReadWaitsForStart,
         ReadClearsResume, ReadLeaves, ReadGoesOn, SeekBegins, SeekMoves,
         SeekResumes, SeekBuffers, ReadWaitsForRoom, EndLoops, EndExits,
         EndIsOld, ReadWaitsForSeek, EndIsNew, CompleteBuffers, CompletePauses,
         ReadPacket, ReadEnds, qVars
    <3>3. QED
      BY <3>1, <3>2
  <2>3. QED
    BY <1>0, <1>1, <1>2, <2>1, <2>2, PostedAgrees
<1>11. CASE SetDataSource \/ PrepareAgain \/ StopPauses \/ Render \/ Starve
  BY <1>3, <1>11 DEF SetDataSource, PrepareAgain, StopPauses, Render, Starve, mpVars,
                     qVars, outside
<1>12. CASE StopAborts
  BY <1>1, <1>12 DEF StopAborts
<1>13. CASE HandleOther \/ HandlePrepared \/ HandleCompleted \/ HandleStartRefused
            \/ HandleStart \/ StartFromResumes \/ StartFromBuffers \/ StartFromSeeks
            \/ HandlePause
  BY <1>3, <1>13 DEF HandleOther, HandlePrepared, HandleCompleted, HandleStartRefused,
                     HandleStart, StartFromResumes, StartFromBuffers, StartFromSeeks,
                     HandlePause, mpVars, qVars
<1>14. CASE UNCHANGED vars
  BY <1>3, <1>14 DEF vars, mpVars, qVars
<1>15. QED
  BY <1>4, <1>5, <1>6, <1>7, <1>8, <1>9, <1>10, <1>11, <1>12, <1>13, <1>14
     DEF Next, App, AppStops, MessageLoop

(***************************************************************************)
(* SeekAgrees holds in every reachable state of every player.              *)
(***************************************************************************)
THEOREM NewestSeekReported == Spec => []SeekAgrees
<1>1. Init => SeekAgrees
  BY DEF Init, SeekAgrees
<1>2. TypeOK /\ LivesWell /\ SeekAgrees /\ [Next]_vars => SeekAgrees'
  BY SeekAgreesKept
<1>3. QED
  BY <1>1, <1>2, TypeCorrect, LivesInvariant, PTL DEF Spec
=============================================================================
