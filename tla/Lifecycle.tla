------------------------------ MODULE Lifecycle -----------------------------
(***************************************************************************)
(* The life of native players behind one Java IjkMediaPlayer: the JNI      *)
(* methods of android/ijkplayer_jni.c, the reference count and the end of  *)
(* a player in ijkplayer.c, its message loop, and the events that the loop *)
(* posts to the Handler of the application's thread.                       *)
(*                                                                         *)
(* The object is used by a thread Ui, which prepares, resets and           *)
(* releases it and runs the Handler, and by a thread Bg, which calls       *)
(* methods meanwhile.  What a thread has still to do is a sequence of      *)
(* steps, each for one native player; a call inside a call puts its steps  *)
(* in front.  A pending "dec" is a reference that the thread owns.  Thread *)
(* m is the message loop of player m.                                      *)
(***************************************************************************)
EXTENDS Integers, Sequences, FiniteSets

CONSTANTS
  MaxPlayers,   \* bound: native_setup is called so often
  MaxMsgs,      \* bound: messages that a player's threads post
  MaxCalls      \* bound: calls of the background thread

\* The application has an object with a player.
ASSUME PlayersAssumption == MaxPlayers \in Nat \ {0}

Players == 1..MaxPlayers
Ui == 0 - 1
Bg == 0
Threads == {Ui, Bg} \cup Players

VARIABLES
  player,    \* the native players
  cur,       \* mNativeMediaPlayer, 0 for none
  handles,   \* the global references to the Java weak reference
  todo,      \* what each thread has still to do
  events,    \* the Handler's queue: the player that each event came from
  gone,      \* is the Java object garbage?
  calls

vars == <<player, cur, handles, todo, events, gone, calls>>

Step(op, m) == [op |-> op, mp |-> m]
NoPlayer == [state |-> "none", refs |-> 0, weak |-> 0, opaque |-> 0,
             prepared |-> FALSE, is |-> FALSE, stop |-> FALSE, aborted |-> TRUE,
             read |-> "none", msgs |-> 0, posted |-> 0, loopRef |-> 0]

\* native_setup: the player is created with a reference, the Java object gets
\* another one, and the weak reference is kept as a global one.
NewPlayer(h) ==
  [NoPlayer EXCEPT !.state = "live", !.refs = 2, !.weak = h, !.opaque = h]

Init ==
  /\ player = [m \in Players |-> IF m = 1 THEN [NewPlayer(1) EXCEPT !.refs = 1]
                                          ELSE NoPlayer]
  /\ cur = 1 /\ handles = {1}
  /\ todo = [t \in Threads |-> <<>>]
  /\ events = <<>> /\ gone = FALSE /\ calls = 0

Idle(t) == todo[t] = <<>>
Next1(t) == Head(todo[t])
Does(t, op) == todo[t] # <<>> /\ Next1(t).op = op
Then(t, steps) == todo' = [todo EXCEPT ![t] = steps \o Tail(@)]

-----------------------------------------------------------------------------
\* jni_get_media_player takes a reference.
GetPlayer == player' = [player EXCEPT ![cur].refs = @ + 1]

\* A method begins, and gives the reference up in the end; without a player it
\* throws or returns.
Begin(t, steps) ==
  /\ Idle(t) /\ ~gone /\ cur # 0
  /\ GetPlayer
  /\ todo' = [todo EXCEPT ![t] = steps \o <<Step("dec", cur)>>]

BeginPrepare ==
  /\ Begin(Ui, <<Step("prepare", cur)>>)
  /\ UNCHANGED <<cur, handles, events, gone, calls>>

\* The other methods take the player's mutex and leave its life alone,
BeginCall ==
  /\ calls < MaxCalls /\ calls' = calls + 1
  /\ Begin(Bg, <<>>)
  /\ UNCHANGED <<cur, handles, events, gone>>

\* but for stop.
BeginStop ==
  /\ calls < MaxCalls /\ calls' = calls + 1
  /\ Begin(Bg, <<Step("stopCall", cur)>>)
  /\ UNCHANGED <<cur, handles, events, gone>>

\* Mutant: the Java object lets go of the player before it is shut down.
ReleaseStepsUnsetFirst(m) ==
  <<Step("unset", m), Step("stop", m), Step("close", m), Step("unweak", m)>>
ReleaseSteps(m) ==
  <<Step("stop", m), Step("close", m), Step("unweak", m), Step("unset", m)>>

BeginRelease ==
  /\ Begin(Ui, ReleaseSteps(cur))
  /\ UNCHANGED <<cur, handles, events, gone, calls>>

\* finalize, when the application has dropped the object without a release
Finalize ==
  /\ Idle(Bg) /\ Begin(Ui, ReleaseSteps(cur))
  /\ gone' = TRUE
  /\ UNCHANGED <<cur, handles, events, calls>>

\* IjkMediaPlayer.reset: _reset, then the Handler's queue is emptied.
BeginReset ==
  /\ \E m \in Players : player[m].state = "none"
  /\ Idle(Ui) /\ ~gone /\ cur # 0
  /\ GetPlayer
  /\ todo' = [todo EXCEPT ![Ui] = <<Step("takeWeak", cur), Step("dec", cur),
                                      Step("clear", 0)>>]
  /\ UNCHANGED <<cur, handles, events, gone, calls>>

-----------------------------------------------------------------------------
\* Their steps.

\* ijkmp_prepare_async: once; the message loop gets a reference, and unless
\* it fails, stream_open starts the threads that read and decode.
Prepare(t) ==
  LET m == Next1(t).mp IN
  /\ Does(t, "prepare")
  /\ IF player[m].prepared
     THEN Then(t, <<>>) /\ UNCHANGED player
     ELSE \E ok \in BOOLEAN :
       /\ player' = [player EXCEPT ![m].prepared = TRUE, ![m].refs = @ + 1,
                                   ![m].aborted = FALSE, ![m].is = ok,
                                   ![m].read = IF ok THEN "run" ELSE @]
       /\ todo' = [todo EXCEPT ![t] = Tail(@),
            ![m] = <<Step("enter", m), Step("dec", m), Step("ret", m)>>]
  /\ UNCHANGED <<cur, handles, events, gone, calls>>

\* ffp_stop_l
Stopped(p) == [p EXCEPT !.stop = @ \/ p.is, !.aborted = TRUE]
Stop(t) ==
  LET m == Next1(t).mp IN
  /\ Does(t, "stop") \/ Does(t, "stopCall")
  /\ player' = IF Does(t, "stopCall") /\ ~player[m].prepared THEN player
               ELSE [player EXCEPT ![m] = Stopped(@)]
  /\ Then(t, <<>>)
  /\ UNCHANGED <<cur, handles, events, gone, calls>>

\* ffp_wait_stop_l with stream_close, which waits for the threads
Close(t) ==
  LET m == Next1(t).mp IN
  /\ Does(t, "close")
  /\ IF player[m].is
     THEN player' = [player EXCEPT ![m] = Stopped(@)] /\ Then(t, <<Step("join", m)>>)
     ELSE UNCHANGED player /\ Then(t, <<>>)
  /\ UNCHANGED <<cur, handles, events, gone, calls>>

Joined(t) ==
  LET m == Next1(t).mp IN
  /\ Does(t, "join") /\ player[m].read = "end"
  /\ player' = [player EXCEPT ![m].is = FALSE]
  /\ Then(t, <<>>)
  /\ UNCHANGED <<cur, handles, events, gone, calls>>

\* ijkmp_set_weak_thiz(NULL): a release deletes the global reference,
Unweak(t) ==
  LET m == Next1(t).mp IN
  /\ Does(t, "unweak")
  /\ player' = [player EXCEPT ![m].weak = 0]
  /\ handles' = handles \ {player[m].weak}
  /\ Then(t, <<>>)
  /\ UNCHANGED <<cur, events, gone, calls>>

\* a reset keeps it for native_setup, and releases the player if the object
\* has not lost it.
TakeWeak(t) ==
  LET m == Next1(t).mp IN
  /\ Does(t, "takeWeak")
  /\ player' = [player EXCEPT ![m].weak = 0, ![cur].refs = @ + 1]
  /\ Then(t, ReleaseSteps(cur) \o <<Step("dec", cur), Step("setup", player[m].weak)>>)
  /\ UNCHANGED <<cur, handles, events, gone, calls>>

\* jni_set_media_player(NULL)
Unset(t) ==
  /\ Does(t, "unset")
  /\ cur' = 0
  /\ Then(t, IF cur = 0 THEN <<>> ELSE <<Step("dec", cur)>>)
  /\ UNCHANGED <<player, handles, events, gone, calls>>

Setup(t) ==
  LET m == CHOOSE m \in Players :
             /\ player[m].state = "none"
             /\ \A n \in 1..(m - 1) : player[n].state # "none"
  IN  /\ Does(t, "setup")
      /\ player' = [player EXCEPT ![m] = NewPlayer(IF Next1(t).mp = 0 THEN 0 ELSE m)]
      /\ handles' = handles \cup (IF Next1(t).mp = 0 THEN {} ELSE {m})
      /\ cur' = m
      /\ Then(t, <<Step("dec", m)>>)
      /\ UNCHANGED <<events, gone, calls>>

\* Handler.removeCallbacksAndMessages
Clear(t) ==
  /\ Does(t, "clear")
  /\ events' = <<>>
  /\ Then(t, <<>>)
  /\ UNCHANGED <<player, cur, handles, gone, calls>>

\* Mutant: whoever drops the last reference leaves the player as it is.
DecLeaks(t) ==
  LET m == Next1(t).mp IN
  /\ Does(t, "dec")
  /\ player' = [player EXCEPT ![m].refs = @ - 1]
  /\ Then(t, <<>>)
  /\ UNCHANGED <<cur, handles, events, gone, calls>>

\* ijkmp_dec_ref: who drops the last reference shuts the player down and
\* destroys it.
Dec(t) ==
  LET m == Next1(t).mp IN
  /\ Does(t, "dec")
  /\ player' = [player EXCEPT ![m].refs = @ - 1]
  /\ Then(t, IF player[m].refs = 1
             THEN <<Step("stop", m), Step("close", m), Step("destroy", m)>>
             ELSE <<>>)
  /\ UNCHANGED <<cur, handles, events, gone, calls>>

\* ijkmp_destroy joins the message loop, unless it is the loop that runs it:
\* pthread_join refuses to wait for its own thread.
Destroy(t) ==
  LET m == Next1(t).mp IN
  /\ Does(t, "destroy")
  /\ t = m \/ Idle(m)
  /\ player' = [player EXCEPT ![m].state = "freed"]
  /\ Then(t, <<>>)
  /\ UNCHANGED <<cur, handles, events, gone, calls>>

-----------------------------------------------------------------------------
\* The message loop.

\* message_loop_n takes the global reference once.
LoopEnters(m) ==
  /\ Does(m, "enter")
  /\ player' = [player EXCEPT ![m].loopRef = player[m].weak]
  /\ Then(m, IF player[m].weak = 0 THEN <<>> ELSE <<Step("get", m)>>)
  /\ UNCHANGED <<cur, handles, events, gone, calls>>

LoopGets(m) ==
  /\ Does(m, "get") /\ ~player[m].aborted /\ player[m].msgs > 0
  /\ player' = [player EXCEPT ![m].msgs = @ - 1]
  /\ Then(m, <<Step("post", m), Step("get", m)>>)
  /\ UNCHANGED <<cur, handles, events, gone, calls>>

LoopEnds(m) ==
  /\ Does(m, "get") /\ player[m].aborted
  /\ Then(m, <<>>)
  /\ UNCHANGED <<player, cur, handles, events, gone, calls>>

\* postEventFromNative
LoopPosts(m) ==
  /\ Does(m, "post")
  /\ events' = IF gone THEN events ELSE Append(events, m)
  /\ Then(m, <<>>)
  /\ UNCHANGED <<player, cur, handles, gone, calls>>

\* SDL_RunThread keeps the result in the SDL_Thread, a field of the player.
LoopReturns(m) ==
  /\ Does(m, "ret")
  /\ Then(m, <<>>)
  /\ UNCHANGED <<player, cur, handles, events, gone, calls>>

\* The threads of the stream post messages and call inject_callback with the
\* global reference of native_setup, until they are told to stop or fail.
ReadPosts(m) ==
  /\ player[m].read = "run" /\ player[m].posted < MaxMsgs
  /\ player' = [player EXCEPT ![m].posted = @ + 1,
                              ![m].msgs = IF player[m].aborted THEN @ ELSE @ + 1]
  /\ UNCHANGED <<cur, handles, todo, events, gone, calls>>

ReadEnds(m) ==
  /\ player[m].read = "run"
  /\ player' = [player EXCEPT ![m].read = "end"]
  /\ UNCHANGED <<cur, handles, todo, events, gone, calls>>

\* EventHandler.handleMessage; without a native player the event is dropped.
Handles ==
  /\ Idle(Ui) /\ events # <<>>
  /\ events' = Tail(events)
  /\ UNCHANGED <<player, cur, handles, todo, gone, calls>>

-----------------------------------------------------------------------------
ThreadStep(t) ==
  \/ Prepare(t) \/ Stop(t) \/ Close(t) \/ Joined(t) \/ Unweak(t) \/ TakeWeak(t)
  \/ Unset(t) \/ Setup(t) \/ Clear(t) \/ Dec(t) \/ Destroy(t)
LoopStep(m) ==
  LoopEnters(m) \/ LoopGets(m) \/ LoopEnds(m) \/ LoopPosts(m) \/ LoopReturns(m)

Next ==
  \/ BeginPrepare \/ BeginCall \/ BeginStop \/ BeginRelease \/ Finalize \/ BeginReset
  \/ \E t \in Threads : ThreadStep(t)
  \/ \E m \in Players : LoopStep(m) \/ ReadPosts(m) \/ ReadEnds(m)
  \/ Handles

Spec == Init /\ [][Next]_vars

\* Threads run; those of the stream end once they are told to.
ReadStops(m) == player[m].stop /\ ReadEnds(m)

-----------------------------------------------------------------------------
TypeOK ==
  /\ cur \in Players \cup {0} /\ handles \subseteq Players
  /\ \A m \in Players : /\ player[m].state \in {"none", "live", "freed"}
                        /\ player[m].refs \in 0..(Cardinality(Threads) + 2)
                        /\ player[m].weak \in Players \cup {0}
                        /\ player[m].read \in {"none", "run", "end"}

\* No thread uses a player that is freed, whoever dropped the last reference,
\* and no player that the object or a thread still refers to is freed; only
\* the message loop that freed it itself has its result to leave in it.
PlayersUsed ==
  /\ \A t \in Threads : \A i \in 1..Len(todo[t]) :
       todo[t][i].mp # 0 /\ todo[t][i].op \notin {"ret", "setup"}
         => player[todo[t][i].mp].state = "live"
  /\ cur # 0 => player[cur].state = "live"

\* A stream is closed by one thread, once.
ClosedByOne ==
  \A m \in Players :
    Cardinality({t \in Threads : Does(t, "join") /\ Next1(t).mp = m}) <= 1

\* Once the object has let go of a player nothing is read or decoded for it any
\* more; while something is, the global reference that inject_callback uses
\* is there.
ReleasedIsQuiet ==
  \A m \in Players : player[m].read = "run" =>
    player[m].opaque \in handles /\ cur = m

\* What a native player must not suffer from the threads around it, taken
\* together.
LifeSound == PlayersUsed /\ ClosedByOne /\ ReleasedIsQuiet

\* A player that the object has let go of is freed, and a method that has
\* begun ends.
Unsettled ==
  \/ \E m \in Players : player[m].state = "live" /\ cur # m
  \/ ~Idle(Ui) \/ ~Idle(Bg)

\* "make sure none of the listeners get called anymore": an event of the
\* player before the reset never reaches a listener of the object after it.
NoStaleEvents ==
  [][Idle(Ui) /\ events # <<>> /\ events' = Tail(events) /\ cur # 0 /\ ~gone
       => Head(events) = cur]_vars
=============================================================================
