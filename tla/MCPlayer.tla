------------------------------ MODULE MCPlayer ------------------------------
(***************************************************************************)
(* Instances of IjkPlayer for TLC: video that starts when it is prepared,  *)
(* the same with fewer calls, once with fair threads and once with I/O     *)
(* errors, and audio that waits for a start, is played twice and then      *)
(* exits, with I/O errors and a second prepare_async; and of Clocks,       *)
(* VideoPath and Display, which share no state with the others.            *)
(***************************************************************************)
EXTENDS IjkPlayer

CONSTANTS
  FewCalls,  \* bound: number of calls in the fair and the broken instance
  Windows, NoWindow  \* of Display

VARIABLES
  instance,
  \* Clocks
  cfg, now, clk, serial, pictq, last, timer, decoder, sound, ctrl, seekPos,
  due, stall, ghost, left,
  \* VideoPath
  viSerial, decoded, slots, windex, viPictq, shown, subq, subOpen, viClock, viRender,
  seekLoad, toldSize, toldText, toldSeek, recent, swallowed, viLeft,
  \* Display
  play, window, refs, geometry, egl, gl, overlays, ring, filler, screen, app,
  returned, onScreen

Whole == INSTANCE IjkPlayer WITH IoErrors <- FALSE

Audio == INSTANCE IjkPlayer WITH HasVideo <- FALSE, StartOnPrepared <- FALSE,
           Loop <- 2, AutoExit <- TRUE, IoErrors <- TRUE, Reprepare <- TRUE

Budget(toggles, seeks, stalls) ==
  [toggles |-> toggles, seeks |-> seeks, stalls |-> stalls]
Time == INSTANCE Clocks WITH
  Frame <- 2, MinThreshold <- 2, MaxThreshold <- 5, DupThreshold <- 8,
  Period <- 3, Latency <- 1, FrameDrops <- {1}, Targets <- {6}, Horizon <- 15,
  Budgets <- {Budget(2, 0, 0), Budget(1, 1, 0), Budget(0, 1, 1)}

Subtitle(start, end, lines) == [start |-> start, end |-> end, lines |-> lines]
Mishaps(seeks, failures, closes) ==
  [seeks |-> seeks, failures |-> failures, closes |-> closes]
Picture == INSTANCE VideoPath WITH
  Sizes <- {1, 2}, NewLine <- 0, RingSize <- 2, SubSize <- 2, Length <- 3,
  Subtitles <- <<Subtitle(1, 1, <<<<1>>, <<2>>>>),
                 Subtitle(2, 3, <<<<3>>, <<4>>, <<5, 6>>>>)>>,
  Budgets <- {Mishaps(2, 0, 0), Mishaps(1, 1, 0), Mishaps(0, 1, 1)},
  serial <- viSerial, pictq <- viPictq, clock <- viClock, render <- viRender,
  left <- viLeft

\* Two frames of one size, where the second may be of another kind, and one that is
\* as large as a line of the window's buffer is padded to, or larger.
Video(format, pixels, faults) ==
  [format |-> format, moves |-> 2 - faults, faults |-> faults,
   frames |-> [i \in 1..3 |-> [pix |-> pixels[i], h |-> 3,
                              w |-> IF i < 3 THEN 3 ELSE IF pixels[i] = "yuv420p" THEN 20
                                                         ELSE 5]]]
DisplayPlays ==
  {Video(format, pixels, faults) :
     format \in {"GLES2", "YV12", "RV32", "RV16", "I420"}, faults \in 0..1,
     pixels \in {<<"yuv420p", "nv12", "yuv444p10">>, <<"yuv420p", "mediacodec", "yuv420p">>}}
Screen == INSTANCE Display WITH
  Geometries <- {[hal |-> "565", w |-> 4, h |-> 4], [hal |-> "8888", w |-> 5, h |-> 3],
                 [hal |-> "other", w |-> 6, h |-> 6]},
  RingSize <- 2, Plays <- DisplayPlays,
  slots <- overlays, dec <- filler, render <- screen, shown <- onScreen

timeVars == <<cfg, now, clk, serial, pictq, last, timer, decoder, sound, ctrl,
              seekPos, due, stall, ghost, left>>
pictureVars == <<viSerial, decoded, slots, windex, viPictq, shown, subq, subOpen,
                 viClock, viRender, seekLoad, toldSize, toldText, toldSeek, recent,
                 swallowed, viLeft>>
screenVars == <<play, window, refs, geometry, egl, gl, overlays, ring, filler, screen,
                app, returned, onScreen>>
v == <<vars, instance, timeVars, pictureVars, screenVars>>

MCInit ==
  /\ \/ instance \in {"video", "live", "broken", "time", "picture", "screen"}
        /\ Init
     \/ instance = "audio" /\ Audio!Init
  /\ Time!Init /\ Picture!Init
  /\ instance # "time" => cfg.master = "audio" /\ left.toggles = 2
  /\ instance # "picture" => viLeft.seeks = 2
  /\ Screen!Init
  /\ instance # "screen" => /\ play = CHOOSE p \in DisplayPlays : TRUE
                           /\ \A w \in Windows : geometry[w].hal = "565"

MCNext ==
  /\ \/ /\ \/ instance = "video" /\ Whole!Next
           \/ instance = "live" /\ Whole!Next /\ calls' <= FewCalls
           \/ instance = "broken" /\ Next /\ calls' <= FewCalls
           \/ instance = "audio" /\ Audio!Next
        /\ UNCHANGED <<timeVars, pictureVars, screenVars>>
     \/ instance = "time" /\ Time!Next /\ UNCHANGED <<vars, pictureVars, screenVars>>
     \/ instance = "picture" /\ Picture!Next /\ UNCHANGED <<vars, timeVars, screenVars>>
     \/ instance = "screen" /\ Screen!Next /\ UNCHANGED <<vars, timeVars, pictureVars>>
  /\ UNCHANGED instance

Live == instance = "live" /\ UNCHANGED <<instance, timeVars, pictureVars, screenVars>>

MCSpec ==
  /\ MCInit /\ [][MCNext]_v
  /\ WF_v(Live /\ ~asserted /\ Whole!AppStops)
  /\ WF_v(Live /\ ~asserted /\ Whole!MessageLoop)
  /\ WF_v(Live /\ ~asserted /\ Whole!ReadThread)
  /\ WF_v(Live /\ ~asserted /\ Whole!Render)

\* Every variable keeps its type.  Clocks: sound and pictures come together
\* again, no picture is dropped without need, a pause holds the position, and
\* nothing makes it run ahead.  VideoPath: each picture has its own bitmap, and
\* the application is told of sizes, texts and seeks.  Display: EGL draws on the
\* window that the video output has, what is shown is what was filled, in its
\* colours, and whatever was taken is given back.
PlayerSound ==
  /\ TypeOK
  /\ instance = "time" => /\ Time!TypeOK /\ Time!InSync /\ Time!CalmKeepsPictures
                         /\ Time!PauseHolds /\ Time!NeverAhead
  /\ instance = "picture" => Picture!VideoSound
  /\ instance = "screen" => Screen!DisplaySound

\* Clocks: a resume goes on from the position of the pause.
ResumesInPlace == [][Time!ResumesInPlaceStep]_v

\* In the fair instance a stop ends the threads, a seek is reported, and
\* buffering ends.
LiveProgress ==
  instance = "live" => StopEndsThreads /\ SeekReported /\ BufferingEnds
=============================================================================
