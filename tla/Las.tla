-------------------------------- MODULE Las ---------------------------------
(***************************************************************************)
(* The demuxer for live adaptive streams (ijkavformat/ijklas.c).  A read   *)
(* thread downloads FLV tags of one representation into a queue; at a key  *)
(* frame it may change to another representation, and when audio only is   *)
(* asked for or no more it starts over somewhere else.  Every change is a  *)
(* new connection, number switch_index, and the caller of las_read_packet  *)
(* opens a new FLV demuxer for each.                                       *)
(*                                                                         *)
(* The live stream is the groups of pictures 1..Gops, each a key tag and a *)
(* tag that follows it; a connection for audio only has the latter alone.  *)
(* A tag is Size units of data, and Header more when it carries the FLV    *)
(* header of its connection.  The measured speed is the local index of the *)
(* bitrate that it would carry.                                            *)
(***************************************************************************)
EXTENDS Integers, Sequences, FiniteSetsExt

CONSTANTS
  Levels,      \* representations, 0..Levels-1 by bitrate
  Disabled,    \* those the algorithm must not choose
  Manual,      \* las_switch_mode, or -1 for adaptive
  Buffers,     \* what the audio cache holds, in tenths of a second
  Gops,        \* groups of pictures until the server closes the connection
  Size, Header,
  MaxToggles,  \* bound: changes of audio_only_request
  MaxChecks,   \* bound: looks of the algorithm thread at the buffer
  MaxFaults    \* bound: connections that break

VARIABLES
  reader,      \* the read thread and its GopReader
  adapt,       \* MultiRateAdaption: current, the representation expected, ...
  tags, aborted,      \* the tag queue
  readAborted,        \* read_abort_request
  algo,        \* the algorithm thread
  audioOnly,   \* audio_only_request
  main,        \* the caller: pc, ctx, cur_switch_index, reading_tag
  fed,         \* what the FLV demuxer was given first
  played,      \* the group of pictures read last, as the player reports it
  lastPut,     \* the tag put last, for the properties
  faults, interrupted

vars == <<reader, adapt, tags, aborted, readAborted, algo, audioOnly, main, fed,
          played, lastPut, faults, interrupted>>

NoTag == [gop |-> 0, key |-> FALSE, conn |-> 0, head |-> FALSE, jump |-> FALSE]
SizeOf(tag) == Size + (IF tag.head THEN Header ELSE 0)

-----------------------------------------------------------------------------
\* MultiRateAdaption: pure functions of the current level, the buffer b, the
\* largest recent buffer p and the level want that the smoothed speed carries.

\* get_predicted_buffer below buffer_lower_limit_second, or
\* is_speed_too_small: the buffer shrinks.
Starves(b, p) == 2 * b - p < 6 \/ 10 * b < 4 * p
Grows(b, p)   == 10 * b > 9 * p

\* quantization(get_buffer_speed): the bitrate scaled by the buffer's change;
\* bitrates double from level to level.
ScaledLevel(l, b, p) == Max({0} \cup {i \in 0..Levels-1 : 2^i * p <= 2^l * b})

\* Does the algorithm have no experience of the buffer?
NoPast(b) == adapt.fresh /\ b <= 1

NextLocal(b, p, want) ==
  LET l == adapt.current IN
  CASE NoPast(b)     -> l
    [] ~NoPast(b) /\ Starves(b, p) -> Min({l, ScaledLevel(l, b, p)})
    [] ~NoPast(b) /\ ~Starves(b, p) /\ Grows(b, p) ->
         Min({l + 1, Levels - 1,
              Max({l, IF adapt.generated THEN l + 1 ELSE want})})
    [] OTHER -> l

\* Mutant: disabled representations are not left out.
AllowedLocalAnyway(l) == l

\* next_representation_id steps down from the disabled ones.
AllowedLocal(l) == Max({0} \cup {i \in 0..l : i \notin Disabled})

Chosen(b, p, want) ==
  IF Manual >= 0 THEN Manual ELSE AllowedLocal(NextLocal(b, p, want))
Decide(b, p, want) ==
  LET l == Chosen(b, p, want)
  IN  adapt' = [current |-> l, expected |-> l, decided |-> TRUE,
                generated |-> /\ adapt.generated /\ l >= adapt.current
                              /\ ~(Manual < 0 /\ ~NoPast(b) /\ ~Starves(b, p) /\ Grows(b, p)),
                fresh |-> l < adapt.current \/ adapt.fresh]

Init ==
  \* MultiRateAdaption_init and PlayList_open_read_thread
  /\ \E l \in IF Manual >= 0 THEN {Manual} ELSE 0..Levels-1 :
       adapt = [current |-> l, expected |-> l, decided |-> FALSE,
                generated |-> FALSE, fresh |-> TRUE]
  /\ reader = [pc |-> "top", rep |-> 0 - 1, conn |-> 0, audio |-> FALSE,
               start |-> 1, gop |-> 1, key |-> TRUE, first |-> TRUE,
               firstVideo |-> TRUE, jump |-> FALSE]
  /\ tags = <<>> /\ aborted = FALSE /\ readAborted = FALSE /\ algo = "none"
  /\ audioOnly = FALSE
  /\ main = [pc |-> "first", ctx |-> FALSE, cur |-> 0, tag |-> NoTag, left |-> 0]
  /\ fed = "nothing" /\ played = 1 /\ lastPut = NoTag
  /\ faults = [breaks |-> MaxFaults, toggles |-> MaxToggles, checks |-> MaxChecks]
  /\ interrupted = FALSE

-----------------------------------------------------------------------------
\* The read thread.

\* It ends: TagQueue_abort, and the algorithm thread is woken.
Ends == reader' = [reader EXCEPT !.pc = "end"] /\ aborted' = TRUE

\* The loop of PlayList_read_thread: the old connection is closed, which
\* counts it, and the representation expected by now is asked for.
ReaderConnects ==
  /\ reader.pc = "top" /\ ~aborted /\ ~interrupted
  /\ reader' = [reader EXCEPT !.pc = "open", !.rep = adapt.expected,
                              !.conn = IF @ = 0 /\ reader.rep < 0 THEN 0 ELSE @ + 1]
  /\ UNCHANGED <<adapt, tags, aborted, readAborted, algo, audioOnly, main, fed,
                 played, lastPut, faults, interrupted>>

ReaderStops ==
  /\ reader.pc = "top" /\ (aborted \/ interrupted)
  /\ Ends
  /\ UNCHANGED <<adapt, tags, readAborted, algo, audioOnly, main, fed, played,
                 lastPut, faults, interrupted>>

\* GopReader_open_input and the FLV header; the first connection starts the
\* algorithm thread.  The server begins with the group asked for.
ReaderOpens ==
  /\ reader.pc = "open"
  /\ reader' = [reader EXCEPT !.pc = "tag", !.gop = reader.start,
                              !.key = ~reader.audio, !.first = TRUE, !.firstVideo = TRUE]
  /\ algo' = IF algo = "none" THEN "run" ELSE algo
  /\ UNCHANGED <<adapt, tags, aborted, readAborted, audioOnly, main, fed, played,
                 lastPut, faults, interrupted>>

\* A connection that is refused, breaks, is interrupted or is closed by the
\* server at the end of the stream ends the thread.
ReaderFails ==
  /\ reader.pc \in {"open", "tag"}
  /\ \/ interrupted \/ (reader.pc = "tag" /\ reader.gop > Gops)
     \/ faults.breaks > 0
  /\ faults' = [faults EXCEPT !.breaks = IF @ > 0 THEN @ - 1 ELSE @]
  /\ Ends
  /\ UNCHANGED <<adapt, tags, readAborted, algo, audioOnly, main, fed, played,
                 lastPut, interrupted>>

ReaderAborts ==
  /\ reader.pc = "tag" /\ (readAborted \/ aborted)
  /\ Ends
  /\ UNCHANGED <<adapt, tags, readAborted, algo, audioOnly, main, fed, played,
                 lastPut, faults, interrupted>>

\* Audio only is asked for, or not any more: the download starts over half a
\* group before what is being played.
ReaderToggles ==
  /\ reader.pc = "tag" /\ ~readAborted /\ ~aborted
  /\ reader.audio # audioOnly
  /\ \E g \in {played, played - 1} \ {0} :
       reader' = [reader EXCEPT !.pc = "top", !.audio = audioOnly, !.start = g,
                                !.jump = TRUE]
  /\ UNCHANGED <<adapt, tags, aborted, readAborted, algo, audioOnly, main, fed,
                 played, lastPut, faults, interrupted>>

\* A key frame that is not the connection's first: the next group begins
\* here, and the algorithm says which representation to take it from.
IsEdge == reader.key /\ ~reader.firstVideo
Reading == reader.pc = "tag" /\ ~readAborted /\ ~aborted
           /\ reader.audio = audioOnly /\ reader.gop <= Gops

\* Mutant: the group that the next connection has to begin with is not noted.
ReaderSwitchesForgets ==
  /\ Reading /\ IsEdge
  /\ \E b, p \in Buffers, want \in 0..Levels-1 :
       b <= p /\ Chosen(b, p, want) # reader.rep /\ Decide(b, p, want)
  /\ reader' = [reader EXCEPT !.pc = "top", !.jump = FALSE]
  /\ UNCHANGED <<tags, aborted, readAborted, algo, audioOnly, main, fed, played,
                 lastPut, faults, interrupted>>

ReaderSwitches ==
  /\ Reading /\ IsEdge
  /\ \E b, p \in Buffers, want \in 0..Levels-1 :
       b <= p /\ Chosen(b, p, want) # reader.rep /\ Decide(b, p, want)
  /\ reader' = [reader EXCEPT !.pc = "top", !.start = reader.gop, !.jump = FALSE]
  /\ UNCHANGED <<tags, aborted, readAborted, algo, audioOnly, main, fed, played,
                 lastPut, faults, interrupted>>

\* A tag is downloaded and put; the first one of a connection carries its
\* header.
ReaderReads ==
  /\ Reading
  /\ IF IsEdge
     THEN \E b, p \in Buffers, want \in 0..Levels-1 :
            b <= p /\ Chosen(b, p, want) = reader.rep /\ Decide(b, p, want)
     ELSE UNCHANGED adapt
  /\ LET tag == [gop |-> reader.gop, key |-> reader.key, conn |-> reader.conn,
                 head |-> reader.first, jump |-> reader.jump]
     IN  tags' = Append(tags, tag) /\ lastPut' = tag
  /\ reader' = [reader EXCEPT !.first = FALSE,
                              !.firstVideo = @ /\ ~reader.key,
                              !.start = IF IsEdge THEN reader.gop ELSE @,
                              !.gop = IF reader.key THEN @ ELSE @ + 1,
                              !.key = ~reader.key /\ ~reader.audio]
  /\ UNCHANGED <<aborted, readAborted, algo, audioOnly, main, fed, played,
                 faults, interrupted>>

\* PlayList_algo_statistic_thread: a stable buffer makes a higher speed up.
AlgoChecks ==
  /\ algo = "run" /\ ~aborted /\ ~readAborted /\ faults.checks > 0
  /\ faults' = [faults EXCEPT !.checks = @ - 1]
  /\ \E stable \in BOOLEAN :
       adapt' = [adapt EXCEPT !.fresh = FALSE,
                              !.generated = stable /\ adapt.current + 1 < Levels]
  /\ UNCHANGED <<reader, tags, aborted, readAborted, algo, audioOnly, main, fed,
                 played, lastPut, interrupted>>

AlgoEnds ==
  /\ algo = "run" /\ (aborted \/ readAborted)
  /\ algo' = "end"
  /\ UNCHANGED <<reader, adapt, tags, aborted, readAborted, audioOnly, main, fed,
                 played, lastPut, faults, interrupted>>

-----------------------------------------------------------------------------
\* The caller: las_read_header, las_read_packet and las_close.  pc is "first"
\* while the header waits for the first tag, "opening" while an FLV demuxer is
\* opened and probed, "reading" in las_read_packet.

InCall == main.pc \in {"first", "opening", "reopening", "reading", "closing"}

\* PlayList_prepare_reading_tag, with TagQueue_get
MainGets ==
  /\ main.pc \in {"first", "opening", "reopening", "reading"}
  /\ main.left = 0 /\ ~aborted /\ tags # <<>>
  /\ tags' = Tail(tags)
  /\ main' = [main EXCEPT !.tag = Head(tags), !.left = SizeOf(Head(tags)),
                          !.pc = IF @ = "first" THEN "opening" ELSE @,
                          !.cur = IF main.pc = "first" THEN Head(tags).conn ELSE @,
                          !.ctx = @ \/ main.pc = "first"]
  /\ UNCHANGED <<reader, adapt, aborted, readAborted, algo, audioOnly, fed,
                 played, lastPut, faults, interrupted>>

\* An aborted queue gives nothing, also when it is not empty.
MainGetFails ==
  /\ main.pc \in {"first", "opening", "reopening", "reading"}
  /\ main.left = 0 /\ aborted
  /\ \E opened \in IF main.pc = "reopening" THEN BOOLEAN ELSE {main.ctx} :
       main' = [main EXCEPT !.ctx = opened,
                            !.pc = IF @ \in {"first", "opening"} THEN "closing" ELSE "idle"]
  /\ IF main'.pc = "closing" THEN readAborted' = TRUE ELSE UNCHANGED readAborted
  /\ UNCHANGED <<reader, adapt, tags, aborted, algo, audioOnly, fed, played,
                 lastPut, faults, interrupted>>

\* PlayList_read_data gives some of the tag to the FLV demuxer.  A demuxer
\* that has enough is open; a packet read ends the call.
MainReads ==
  /\ main.pc \in {"opening", "reopening", "reading"}
  /\ main.left > 0 /\ main.tag.conn = main.cur
  /\ \E n \in 1..main.left :
       /\ fed' = CASE fed # "nothing" -> fed
                   [] main.tag.head /\ main.left = SizeOf(main.tag) -> "header"
                   [] OTHER -> "garbage"
       /\ \E pc \in IF n < main.left THEN {main.pc}
                    ELSE IF main.pc = "reading" THEN {"idle"}
                    ELSE {main.pc, IF main.pc = "opening" THEN "idle" ELSE "reading"} :
            main' = [main EXCEPT !.left = @ - n, !.pc = pc]
  /\ played' \in {played, main.tag.gop}
  /\ UNCHANGED <<reader, adapt, tags, aborted, readAborted, algo, audioOnly,
                 lastPut, faults, interrupted>>

\* The tag is of another connection: the FLV demuxer sees an end of file,
\* and las_read_packet closes it and opens another.
MainOpensNext ==
  /\ main.pc \in {"opening", "reopening", "reading"}
  /\ main.left > 0 /\ main.tag.conn # main.cur
  /\ IF main.pc = "reading"
     THEN /\ main' = [main EXCEPT !.pc = "reopening", !.cur = main.tag.conn, !.ctx = TRUE]
          /\ fed' = "nothing"
     ELSE /\ main' = [main EXCEPT !.pc = IF @ = "opening" THEN "idle" ELSE "reading"]
          /\ UNCHANGED fed
  /\ UNCHANGED <<reader, adapt, tags, aborted, readAborted, algo, audioOnly,
                 played, lastPut, faults, interrupted>>

\* las_read_packet; without an FLV demuxer it fails at once.
MainCalls ==
  /\ main.pc = "idle" /\ main.ctx
  /\ main' = [main EXCEPT !.pc = "reading"]
  /\ UNCHANGED <<reader, adapt, tags, aborted, readAborted, algo, audioOnly, fed,
                 played, lastPut, faults, interrupted>>

\* las_close: both aborts, the FLV demuxer, then both threads are joined.
Close ==
  /\ main.pc = "idle"
  /\ main' = [main EXCEPT !.pc = "closing", !.ctx = FALSE]
  /\ aborted' = TRUE /\ readAborted' = TRUE
  /\ UNCHANGED <<reader, adapt, tags, algo, audioOnly, fed, played, lastPut,
                 faults, interrupted>>

Closed ==
  /\ main.pc = "closing" /\ reader.pc = "end" /\ algo # "run"
  /\ main' = [main EXCEPT !.pc = "closed"]
  /\ tags' = <<>>
  /\ UNCHANGED <<reader, adapt, aborted, readAborted, algo, audioOnly, fed,
                 played, lastPut, faults, interrupted>>

\* The player asks for audio only, or no more, and may interrupt.
Toggle ==
  /\ faults.toggles > 0
  /\ faults' = [faults EXCEPT !.toggles = @ - 1]
  /\ audioOnly' = ~audioOnly
  /\ UNCHANGED <<reader, adapt, tags, aborted, readAborted, algo, main, fed,
                 played, lastPut, interrupted>>

Interrupt ==
  /\ ~interrupted /\ interrupted' = TRUE
  /\ UNCHANGED <<reader, adapt, tags, aborted, readAborted, algo, audioOnly,
                 main, fed, played, lastPut, faults>>

ReaderStep == \/ ReaderConnects \/ ReaderStops \/ ReaderOpens \/ ReaderFails
              \/ ReaderAborts \/ ReaderToggles \/ ReaderSwitches \/ ReaderReads
MainStep == MainGets \/ MainGetFails \/ MainReads \/ MainOpensNext \/ Closed

Next == ReaderStep \/ AlgoChecks \/ AlgoEnds \/ MainStep \/ MainCalls \/ Close
        \/ Toggle \/ Interrupt

\* The download goes on or fails, since it is opened with a timeout.
FairSpec == Init /\ [][Next]_vars /\ WF_vars(ReaderStep) /\ WF_vars(MainStep)
            /\ WF_vars(AlgoEnds)

-----------------------------------------------------------------------------
TypeOK ==
  /\ adapt.current \in 0..Levels-1 /\ adapt.expected \in 0..Levels-1
  /\ reader.pc \in {"top", "open", "tag", "end"}
  /\ main.pc \in {"first", "opening", "reopening", "reading", "idle", "closing", "closed"}
  /\ main.left \in 0..(Size + Header)

\* Once the algorithm has decided, what is downloaded next is a level it may
\* choose, unless there is no such level below the one it wanted.
ChosenAllowed ==
  adapt.decided /\ Manual < 0 =>
    adapt.expected \notin Disabled \/ adapt.expected = 0

\* Whatever is switched, the tags that are downloaded make one stream: within
\* a connection they follow one another, the first one carries the header, and
\* a connection for another representation takes over with the very group the
\* old one ended before.  Only a change to or from audio only jumps.  And an
\* FLV demuxer is given a stream from its header on.
JoinsAt(old, new) ==
  /\ new.head <=> (old = NoTag \/ old.conn # new.conn)
  /\ old = NoTag => (new.gop = 1 /\ new.key) \/ new.jump
  /\ old # NoTag /\ ~(new.jump /\ new.head) =>
       \/ new.gop = old.gop /\ old.key /\ ~new.key
       \/ new.gop = old.gop + 1 /\ ~old.key
TagsJoinStep ==
  /\ lastPut' # lastPut => JoinsAt(lastPut, lastPut')
  /\ fed' # "garbage"

\* Every call returns, also one that waits for a tag: the thread that should
\* put it reads on or ends.
CallsReturn == InCall ~> ~InCall
=============================================================================
