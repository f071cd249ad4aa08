------------------------- MODULE MediaCodecNodeProofs -------------------------
(***************************************************************************)
(* The buffers of the MediaCodec decoder, proved for any number of output  *)
(* buffers, any size of the picture queue, and any number of seeks,        *)
(* surfaces, failures and switches: a buffer is given back only by the     *)
(* proxy that owns it, and none is lost while the decoder works on the     *)
(* surface of the pipeline.                                                *)
(*                                                                         *)
(* The proxies in use are those of the slots: the one in the hand of the   *)
(* output thread, that of the picture shown last, and those of the         *)
(* pictures to show.  Release compares serials only; that equal serials    *)
(* mean the same life of the codec, and that no two slots hold the same    *)
(* buffer of it, is what the invariant says.                               *)
(***************************************************************************)
EXTENDS MediaCodecNode, FiniteSetTheorems, TLAPS

Hand == 0 - 1

\* The proxies in use, numbered.
Slot(k) ==
  IF k = Hand THEN drain.proxy
  ELSE IF k = 0 /\ pictq.shown # <<>> THEN pictq.shown[1].proxy
  ELSE IF k \in 1..Len(pictq.next) THEN pictq.next[k].proxy
  ELSE NoProxy

\* A proxy that still stands for a buffer of a codec.
Live(p) == p # NoProxy /\ p.idx \in Outputs

FeedPlaces == {"top", "got", "data", "surface", "input", "first", "flushing", "flushed",
               "stopping", "stopped", "end"}
Codecs == [java : BOOLEAN, started : BOOLEAN, gen : Nat, serial : Nat,
           held : SUBSET Outputs, load : Nat, fake : 0..FakeSize]
Feeds == [pc : FeedPlaces, pending : BOOLEAN, serial : Nat, got : {"flush", "data"},
          fed : BOOLEAN, surface : Surfaces \cup {NoSurface}]
Drains == [pc : {"top", "first", "queue", "join", "end"},
           proxy : Proxies \cup {NoProxy}, ever : BOOLEAN]
PictQs == [next : Seq(Pictures), shown : Seq(Pictures)]

CodecType == codec \in Codecs
FeedType == feed \in Feeds
DrainType == drain \in Drains
PictType ==
  /\ pictq \in PictQs
  /\ Len(pictq.next) + Len(pictq.shown) <= RingSize /\ Len(pictq.shown) <= 1
  /\ render = "display" => Len(pictq.shown) = 1
FlagsType ==
  /\ request \in [flush : BOOLEAN, first : BOOLEAN, need : BOOLEAN, recreate : BOOLEAN]
  /\ surface \in Surfaces \cup {NoSurface} /\ pipe \in Surfaces \cup {NoSurface}
  /\ vout \in [window : Surfaces \cup {NoSurface}, attached : BOOLEAN]
  /\ app \in [pc : {"idle", "surface"}, surface : Surfaces \cup {NoSurface}]
  /\ abr \in {"none", "signal", "wait", "got"}
  /\ q \in [serial : Nat, marker : BOOLEAN, abort : BOOLEAN]

Types == CodecType /\ FeedType /\ DrainType /\ PictType /\ FlagsType

\* The object serial of a real codec is the number of its life, but for the
\* step between its flush or stop and the new serial; a dummy has serial 0.
SerialKnown ==
  /\ codec.gen >= 1
  /\ codec.java => codec.serial \in 1..codec.gen
  /\ codec.java /\ feed.pc \notin {"flushed", "stopped"} => codec.serial = codec.gen
  /\ ~codec.java => codec.serial = 0

NoneLive == \A k \in Int : ~Live(Slot(k))

\* Nothing stands for a buffer that the codec is about to take back, or has
\* just taken back; nor does the output thread hold one when it ends.
Emptied ==
  /\ feed.pc \in {"flushing", "stopping"} => NoneLive
  /\ codec.java /\ codec.serial # codec.gen => NoneLive
  /\ drain.pc = "join" => ~Live(drain.proxy)

\* A proxy with the serial of the codec stands for a buffer that the codec
\* gave away in this life; the others are of an earlier life.
Good(p) ==
  Live(p) =>
    /\ p.serial \in Nat /\ p.serial >= 1
    /\ p.serial < codec.gen \/ p.serial = codec.serial
    /\ p.serial = codec.serial => p.gen = codec.gen /\ p.idx \in codec.held
Owned == \A k \in Int : Good(Slot(k))

Current(p) == Live(p) /\ p.serial = codec.serial
Apart ==
  \A k, l \in Int :
    k # l /\ Current(Slot(k)) /\ Current(Slot(l)) => Slot(k).idx # Slot(l).idx

Buffers == SerialKnown /\ Emptied /\ Owned /\ Apart /\ ~misrelease
IInv == Types /\ Buffers

-----------------------------------------------------------------------------
(***************************************************************************)
(* A forgotten proxy stands for nothing, and it is still a proxy.          *)
(***************************************************************************)
LEMMA Forgets ==
  ASSUME NEW p \in Proxies \cup {NoProxy}
  PROVE  /\ Forgotten(p) \in Proxies \cup {NoProxy} /\ ~Live(Forgotten(p))
         /\ Forgotten(NoProxy) = NoProxy
<1>1. Invalid \notin Outputs
  BY NodeAssumption DEF Invalid
<1>2. QED
  BY <1>1 DEF Forgotten, Proxies, Live

(***************************************************************************)
(* So it is with the pictures of a sequence.                               *)
(***************************************************************************)
LEMMA ForgetsFrames ==
  ASSUME NEW frames \in Seq(Pictures)
  PROVE  /\ ForgetFrames(frames) \in Seq(Pictures)
         /\ Len(ForgetFrames(frames)) = Len(frames)
         /\ \A i \in 1..Len(frames) :
              ForgetFrames(frames)[i].proxy = Forgotten(frames[i].proxy)
<1>1. ASSUME NEW i \in 1..Len(frames)
      PROVE  /\ [frames[i] EXCEPT !.proxy = Forgotten(@)] \in Pictures
             /\ [frames[i] EXCEPT !.proxy = Forgotten(@)].proxy = Forgotten(frames[i].proxy)
  <2>1. frames[i] \in Pictures
    OBVIOUS
  <2>2. frames[i].proxy \in Proxies \cup {NoProxy}
    BY <2>1 DEF Pictures
  <2>3. Forgotten(frames[i].proxy) \in Proxies \cup {NoProxy}
    BY <2>2, Forgets
  <2> HIDE DEF Pictures
  <2>4. QED
    BY <2>1, <2>3 DEF Pictures
<1>2. DOMAIN frames = 1..Len(frames) /\ Len(frames) \in Nat
  OBVIOUS
<1>3. /\ DOMAIN ForgetFrames(frames) = 1..Len(frames)
      /\ \A i \in 1..Len(frames) :
           ForgetFrames(frames)[i] = [frames[i] EXCEPT !.proxy = Forgotten(@)]
  BY <1>2 DEF ForgetFrames
<1>4. ForgetFrames(frames) = [i \in 1..Len(frames) |-> [frames[i] EXCEPT !.proxy = Forgotten(@)]]
  BY <1>2, Zenon DEF ForgetFrames
<1>5. \A i \in 1..Len(frames) : ForgetFrames(frames)[i] \in Pictures
  BY <1>1, <1>3
<1>6. ForgetFrames(frames) \in Seq(Pictures) /\ Len(ForgetFrames(frames)) = Len(frames)
  <2> DEFINE g[i \in 1..Len(frames)] == ForgetFrames(frames)[i]
  <2>1. ForgetFrames(frames) \in [1..Len(frames) -> Pictures]
    BY <1>3, <1>4, <1>5
  <2>2. QED
    BY <1>2, <2>1
<1>7. QED
  BY <1>1, <1>3, <1>6

(***************************************************************************)
(* The parts of a slot, one by one.                                        *)
(***************************************************************************)
LEMMA Slots ==
  ASSUME PictType, DrainType
  PROVE  /\ Slot(Hand) = drain.proxy
         /\ pictq.shown # <<>> => Slot(0) = pictq.shown[1].proxy
         /\ pictq.shown = <<>> => Slot(0) = NoProxy
         /\ Len(pictq.next) \in Nat
         /\ \A k \in 1..Len(pictq.next) : Slot(k) = pictq.next[k].proxy
         /\ \A k \in Int : k > Len(pictq.next) \/ k < Hand => Slot(k) = NoProxy
         /\ \A k \in Int : Slot(k) \in Proxies \cup {NoProxy}
<1>1. Len(pictq.next) \in Nat /\ pictq.next \in Seq(Pictures) /\ pictq.shown \in Seq(Pictures)
  BY DEF PictType, PictQs
<1>2. \A k \in 1..Len(pictq.next) : pictq.next[k] \in Pictures
  BY <1>1
<1>3. pictq.shown # <<>> => pictq.shown[1] \in Pictures
  BY <1>1
<1>4. drain.proxy \in Proxies \cup {NoProxy}
  BY DEF DrainType, Drains
<1>5. \A k \in Int : Slot(k) \in Proxies \cup {NoProxy}
  BY <1>2, <1>3, <1>4 DEF Slot, Pictures
<1>6. \A k \in Int : k > Len(pictq.next) \/ k < Hand => Slot(k) = NoProxy
  BY <1>1 DEF Slot, Hand
<1>7. QED
  BY <1>1, <1>5, <1>6 DEF Slot, Hand

(***************************************************************************)
(* When the proxies only move to other slots or vanish, and the codec      *)
(* takes back none but those that vanish, what is known of them stays.     *)
(***************************************************************************)
LEMMA Moved ==
  ASSUME Owned, Apart, NEW from \in [Int -> Int],
         \A k \in Int : Live(Slot(k)') => Slot(k)' = Slot(from[k]),
         \A k, l \in Int : k # l /\ Live(Slot(k)') /\ Live(Slot(l)') => from[k] # from[l],
         codec'.gen = codec.gen, codec'.serial = codec.serial,
         \A k \in Int : Current(Slot(k)') /\ Slot(k)'.idx \in codec.held
           => Slot(k)'.idx \in codec'.held
  PROVE  /\ Owned' /\ Apart' /\ (NoneLive => NoneLive')
<1>1. ASSUME NEW k \in Int, Live(Slot(k)')
      PROVE  Slot(k)' = Slot(from[k]) /\ from[k] \in Int
  BY <1>1
<1>2. NoneLive => NoneLive'
  BY <1>1, Zenon DEF NoneLive
<1>3. Owned'
  <2>1. SUFFICES ASSUME NEW k \in Int, Live(Slot(k)')
                 PROVE  Good(Slot(k))'
    BY DEF Owned, Good
  <2>2. Slot(k)' = Slot(from[k]) /\ Good(Slot(from[k]))
    BY <1>1, <2>1, Zenon DEF Owned
  <2>3. QED
    BY <2>1, <2>2 DEF Good, Current
<1>4. Apart'
  <2>1. SUFFICES ASSUME NEW k \in Int, NEW l \in Int, k # l,
                        Current(Slot(k))', Current(Slot(l))'
                 PROVE  Slot(k)'.idx # Slot(l)'.idx
    BY DEF Apart
  <2>2. Live(Slot(k)') /\ Live(Slot(l)')
    BY <2>1 DEF Current
  <2>3. /\ Slot(k)' = Slot(from[k]) /\ Slot(l)' = Slot(from[l])
        /\ from[k] \in Int /\ from[l] \in Int /\ from[k] # from[l]
    BY <1>1, <2>1, <2>2
  <2>4. Current(Slot(from[k])) /\ Current(Slot(from[l]))
    BY <2>1, <2>3 DEF Current
  <2>5. QED
    BY <2>3, <2>4 DEF Apart
<1>5. QED
  BY <1>2, <1>3, <1>4

(***************************************************************************)
(* When nothing stands for a buffer, everything is known of the proxies.   *)
(***************************************************************************)
LEMMA NoneToKnow ==
  ASSUME NoneLive'
  PROVE  Owned' /\ Apart'
BY DEF NoneLive, Owned, Good, Apart, Current

(***************************************************************************)
(* InvalidateAll leaves no proxy that stands for a buffer, and the proxies *)
(* where they are.                                                         *)
(***************************************************************************)
LEMMA Invalidated ==
  ASSUME PictType, DrainType, InvalidateAll, PictType', DrainType'
  PROVE  NoneLive'
<1>1. /\ drain'.proxy = Forgotten(drain.proxy)
      /\ pictq'.next = ForgetFrames(pictq.next) /\ pictq'.shown = ForgetFrames(pictq.shown)
  BY DEF InvalidateAll, DrainType, Drains
<1>2. /\ pictq.next \in Seq(Pictures) /\ pictq.shown \in Seq(Pictures)
      /\ drain.proxy \in Proxies \cup {NoProxy}
  BY DEF PictType, PictQs, DrainType, Drains
<1>3. SUFFICES ASSUME NEW k \in Int
               PROVE  ~Live(Slot(k)')
  BY DEF NoneLive
<1>4. ~Live(NoProxy)
  BY DEF Live
<1>5. CASE k = Hand
  BY <1>1, <1>2, <1>5, Forgets DEF Slot
<1>6. CASE k = 0
  <2>1. CASE pictq'.shown = <<>>
    <3>1. Slot(k)' = NoProxy
      BY <1>6, <2>1 DEF Slot, Hand
    <3>2. QED
      BY <1>4, <3>1
  <2>2. CASE pictq'.shown # <<>>
    <3>1. /\ Len(pictq'.shown) = Len(pictq.shown)
          /\ \A i \in 1..Len(pictq.shown) : pictq'.shown[i].proxy = Forgotten(pictq.shown[i].proxy)
      BY <1>1, <1>2, ForgetsFrames
    <3>2. pictq'.shown \in Seq(Pictures)
      BY DEF PictType, PictQs
    <3>3. 1 \in 1..Len(pictq.shown)
      BY <1>2, <2>2, <3>1, <3>2
    <3>4. pictq.shown[1].proxy \in Proxies \cup {NoProxy}
      <4>1. pictq.shown[1] \in Pictures
        BY <1>2, <3>3
      <4>2. QED
        BY <4>1 DEF Pictures
    <3>5. Slot(k)' = pictq'.shown[1].proxy
      BY <1>6, <2>2 DEF Slot, Hand
    <3>6. QED
      BY <3>1, <3>3, <3>4, <3>5, Forgets
  <2>3. QED
    BY <2>1, <2>2
<1>7. CASE k \in 1..Len(pictq'.next)
  <2>1. /\ Len(pictq'.next) = Len(pictq.next)
        /\ \A i \in 1..Len(pictq.next) : pictq'.next[i].proxy = Forgotten(pictq.next[i].proxy)
    BY <1>1, <1>2, ForgetsFrames
  <2>2. pictq.next[k].proxy \in Proxies \cup {NoProxy}
    <3>1. pictq.next[k] \in Pictures
      BY <1>2, <1>7, <2>1
    <3>2. QED
      BY <3>1 DEF Pictures
  <2>3. Slot(k)' = pictq'.next[k].proxy
    BY <1>2, <1>7, <2>1 DEF Slot, Hand
  <2>4. QED
    BY <1>7, <2>1, <2>2, <2>3, Forgets
<1>8. CASE k # Hand /\ k # 0 /\ k \notin 1..Len(pictq'.next)
  BY <1>4, <1>8 DEF Slot
<1>9. QED
  BY <1>5, <1>6, <1>7, <1>8

-----------------------------------------------------------------------------
(***************************************************************************)
(* Release changes what the codec has given away, and nothing else of it.  *)
(***************************************************************************)
LEMMA ReleaseKeeps ==
  ASSUME CodecType, NEW p \in Proxies \cup {NoProxy}, Release(p)
  PROVE  /\ CodecType'
         /\ codec'.gen = codec.gen /\ codec'.serial = codec.serial
         /\ codec'.java = codec.java /\ codec'.held \subseteq codec.held
         /\ ~Returned(p) => codec' = codec /\ misrelease' = misrelease
         /\ Returned(p) => /\ codec'.held = codec.held \ {p.idx}
                           /\ misrelease' = (misrelease \/ p.idx \notin codec.held \/ p.gen # codec.gen)
<1>1. CASE ~Returned(p)
  BY <1>1 DEF Release, CodecType
<1>2. CASE Returned(p)
  <2>1. codec' = [codec EXCEPT !.held = @ \ {p.idx}]
    BY <1>2 DEF Release
  <2>2. misrelease' = (misrelease \/ p.idx \notin codec.held \/ p.gen # codec.gen)
    BY <1>2, Zenon DEF Release
  <2>3. QED
    BY <1>2, <2>1, <2>2 DEF CodecType, Codecs
<1>3. QED
  BY <1>1, <1>2

(***************************************************************************)
(* The types along InvalidateAll.                                          *)
(***************************************************************************)
LEMMA InvalidateKeeps ==
  ASSUME DrainType, PictType, InvalidateAll, UNCHANGED render
  PROVE  DrainType' /\ PictType' /\ drain'.pc = drain.pc
<1>1. drain.proxy \in Proxies \cup {NoProxy}
  BY DEF DrainType, Drains
<1>2. Forgotten(drain.proxy) \in Proxies \cup {NoProxy}
  BY <1>1, Forgets
<1>3. DrainType' /\ drain'.pc = drain.pc
  <2> HIDE DEF Forgotten, Proxies
  <2>1. drain' = [drain EXCEPT !.proxy = Forgotten(drain.proxy)]
    BY DEF InvalidateAll
  <2>2. QED
    BY <1>2, <2>1 DEF DrainType, Drains
<1>4. pictq.next \in Seq(Pictures) /\ pictq.shown \in Seq(Pictures)
  BY DEF PictType, PictQs
<1>5. /\ ForgetFrames(pictq.next) \in Seq(Pictures)
      /\ Len(ForgetFrames(pictq.next)) = Len(pictq.next)
      /\ ForgetFrames(pictq.shown) \in Seq(Pictures)
      /\ Len(ForgetFrames(pictq.shown)) = Len(pictq.shown)
  BY <1>4, ForgetsFrames
<1>6. pictq' = [next |-> ForgetFrames(pictq.next), shown |-> ForgetFrames(pictq.shown)]
  BY DEF InvalidateAll
<1>7. PictType'
  <2> HIDE DEF ForgetFrames
  <2>1. /\ pictq' \in PictQs /\ pictq'.next = ForgetFrames(pictq.next)
        /\ pictq'.shown = ForgetFrames(pictq.shown)
    BY <1>5, <1>6 DEF PictQs
  <2>2. QED
    BY <1>5, <2>1 DEF PictType
<1>8. QED
  BY <1>3, <1>7

(***************************************************************************)
(* A new codec.                                                            *)
(***************************************************************************)
LEMMA NewCodecType ==
  ASSUME NEW s, NEW gen \in Nat, NEW ok \in BOOLEAN
  PROVE  /\ NewCodec(s, gen, ok) \in Codecs
         /\ NewCodec(s, gen, ok).gen = gen
         /\ NewCodec(s, gen, ok).java <=> s # NoSurface
         /\ NewCodec(s, gen, ok).serial = IF s = NoSurface THEN 0 ELSE gen
<1> DEFINE j == s # NoSurface
           n == IF s = NoSurface THEN 0 ELSE gen
<1>1. j \in BOOLEAN /\ n \in Nat /\ 0 \in 0..FakeSize /\ {} \in SUBSET Outputs
  BY NodeAssumption
<1>2. NewCodec(s, gen, ok) = [java |-> j, started |-> ok, gen |-> gen, serial |-> n,
                              held |-> {}, load |-> 0, fake |-> 0]
  BY DEF NewCodec
<1> HIDE DEF j, n
<1>3. NewCodec(s, gen, ok) \in Codecs
  BY <1>1, <1>2 DEF Codecs
<1>4. /\ NewCodec(s, gen, ok).gen = gen /\ NewCodec(s, gen, ok).java = j
      /\ NewCodec(s, gen, ok).serial = n
  BY <1>2
<1>5. QED
  BY <1>3, <1>4 DEF j, n

\* The types at the start.
LEMMA InitTypes == Init => Types
<1>1. SUFFICES ASSUME NEW s \in Start,
    /\ codec = NewCodec(s, 1, TRUE)
    /\ surface = s /\ pipe = s /\ vout = [window |-> s, attached |-> TRUE]
    /\ request = [flush |-> FALSE, first |-> TRUE, need |-> s # NoSurface,
                  recreate |-> FALSE]
    /\ abr = "none"
    /\ q = [serial |-> 1, marker |-> TRUE, abort |-> FALSE]
    /\ feed = [pc |-> "top", pending |-> FALSE, serial |-> 0, got |-> "data",
               fed |-> FALSE, surface |-> s]
    /\ drain = [pc |-> "top", proxy |-> NoProxy, ever |-> FALSE]
    /\ pictq = [next |-> <<>>, shown |-> <<>>]
    /\ render = "idle" /\ app = [pc |-> "idle", surface |-> s]
                 PROVE  Types
  BY Zenon DEF Init
<1>2. s \in Surfaces \cup {NoSurface}
  BY NodeAssumption
<1>3. CodecType
  BY <1>1, NewCodecType DEF CodecType
<1>4. FeedType /\ DrainType
  BY <1>1, <1>2 DEF FeedType, Feeds, FeedPlaces, DrainType, Drains
<1>5. PictType
  <2>1. <<>> \in Seq(Pictures) /\ Len(<<>>) = 0
    OBVIOUS
  <2>2. pictq.next = <<>> /\ pictq.shown = <<>> /\ pictq \in PictQs
    BY <1>1, <2>1 DEF PictQs
  <2>3. QED
    BY <1>1, <2>1, <2>2, NodeAssumption DEF PictType
<1>6. FlagsType
  BY <1>1, <1>2 DEF FlagsType
<1>7. QED
  BY <1>3, <1>4, <1>5, <1>6 DEF Types

(***************************************************************************)
(* Types along the input thread.                                           *)
(***************************************************************************)
LEMMA FeedTypes ==
  ASSUME Types, FeedStep
  PROVE  FeedType' /\ CodecType' /\ FlagsType'
<1>1. FeedEnds => FeedType' /\ CodecType' /\ FlagsType'
  BY DEF FeedEnds, FeedGoto, Types, FeedType, Feeds, FeedPlaces, CodecType, FlagsType
<1>2. FeedGet => FeedType' /\ CodecType' /\ FlagsType'
  BY DEF FeedGet, Types, FeedType, Feeds, FeedPlaces, CodecType, FlagsType
<1>3. FeedAgain => FeedType' /\ CodecType' /\ FlagsType'
  BY DEF FeedAgain, FeedGoto, Types, FeedType, Feeds, FeedPlaces, CodecType, FlagsType
<1>4. ASSUME FeedTakes
      PROVE  FeedType' /\ CodecType' /\ FlagsType'
  <2>1. FeedType'
    BY <1>4 DEF FeedTakes, Types, FeedType, Feeds, FeedPlaces
  <2>2. CodecType' /\ UNCHANGED <<request, surface, pipe, vout, app, q>>
    BY <1>4 DEF FeedTakes, Types, CodecType
  <2>3. abr' \in {abr, "signal"}
    BY <1>4 DEF FeedTakes
  <2>4. QED
    BY <2>1, <2>2, <2>3 DEF Types, FlagsType
<1>5. ASSUME FeedFlushes
      PROVE  FeedType' /\ CodecType' /\ FlagsType'
  <2>1. FeedType'
    BY <1>5 DEF FeedFlushes, FeedGoto, Types, FeedType, Feeds, FeedPlaces
  <2>2. CodecType'
    BY <1>5 DEF FeedFlushes, Types, CodecType
  <2>3. FlagsType'
    BY <1>5 DEF FeedFlushes, Types, FlagsType
  <2>4. QED
    BY <2>1, <2>2, <2>3
<1>6. ASSUME FlushCodec
      PROVE  FeedType' /\ CodecType' /\ FlagsType'
  <2>1. FeedType'
    BY <1>6 DEF FlushCodec, FeedGoto, Types, FeedType, Feeds, FeedPlaces
  <2>2. CodecType'
    <3> DEFINE g == IF codec.java THEN codec.gen + 1 ELSE codec.gen
    <3>1. codec' = [codec EXCEPT !.gen = g, !.held = {}, !.load = 0, !.fake = 0]
      BY <1>6 DEF FlushCodec
    <3>2. g \in Nat /\ 0 \in 0..FakeSize /\ codec \in Codecs
      BY NodeAssumption DEF Types, CodecType, Codecs
    <3> HIDE DEF g
    <3>3. QED
      BY <3>1, <3>2 DEF CodecType, Codecs
  <2>3. FlagsType'
    BY <1>6 DEF FlushCodec, Types, FlagsType
  <2>4. QED
    BY <2>1, <2>2, <2>3
<1>7. ASSUME FlushDone
      PROVE  FeedType' /\ CodecType' /\ FlagsType'
  <2>1. FeedType'
    BY <1>7 DEF FlushDone, FeedGoto, Types, FeedType, Feeds, FeedPlaces
  <2>2. CodecType'
    <3> DEFINE n == IF codec.java THEN codec.gen ELSE codec.serial
    <3>1. codec' = [codec EXCEPT !.serial = n]
      BY <1>7 DEF FlushDone
    <3>2. n \in Nat /\ codec \in Codecs
      BY DEF Types, CodecType, Codecs
    <3> HIDE DEF n
    <3>3. QED
      BY <3>1, <3>2 DEF CodecType, Codecs
  <2>3. FlagsType'
    BY <1>7 DEF FlushDone, Types, FlagsType
  <2>4. QED
    BY <2>1, <2>2, <2>3
<1>8. FeedEos => FeedType' /\ CodecType' /\ FlagsType'
  BY DEF FeedEos, FeedGoto, Types, FeedType, Feeds, FeedPlaces, CodecType, Codecs, FlagsType
<1>9. ASSUME FeedGotEos
      PROVE  FeedType' /\ CodecType' /\ FlagsType'
  <2>1. FeedType'
    BY <1>9 DEF FeedGotEos, FeedGoto, Types, FeedType, Feeds, FeedPlaces
  <2>2. CodecType'
    BY <1>9 DEF FeedGotEos, Types, CodecType
  <2>3. FlagsType'
    BY <1>9 DEF FeedGotEos, Types, FlagsType
  <2>4. QED
    BY <2>1, <2>2, <2>3
<1>10. ASSUME TakeSurface
      PROVE  FeedType' /\ CodecType' /\ FlagsType'
  <2>1. FeedType'
    <3> DEFINE place == IF codec.started THEN "stopping" ELSE "stopped"
    <3>1. \/ feed' = [feed EXCEPT !.pc = "input"]
          \/ feed' = [feed EXCEPT !.pc = place, !.surface = pipe]
      BY <1>10 DEF TakeSurface, FeedGoto
    <3>2. /\ place \in FeedPlaces /\ "input" \in FeedPlaces
          /\ pipe \in Surfaces \cup {NoSurface} /\ feed \in Feeds
      BY DEF FeedPlaces, Types, FeedType, FlagsType
    <3> HIDE DEF place
    <3>3. QED
      BY <3>1, <3>2 DEF FeedType, Feeds
  <2>2. CodecType'
    BY <1>10 DEF TakeSurface, Types, CodecType
  <2>3. FlagsType'
    BY <1>10 DEF TakeSurface, Types, FlagsType
  <2>4. QED
    BY <2>1, <2>2, <2>3
<1>11. ASSUME StopCodec
      PROVE  FeedType' /\ CodecType' /\ FlagsType'
  <2>1. FeedType'
    BY <1>11 DEF StopCodec, FeedGoto, Types, FeedType, Feeds, FeedPlaces
  <2>2. CodecType'
    <3> DEFINE g == codec.gen + 1
    <3>1. codec' = [codec EXCEPT !.started = FALSE, !.gen = g, !.held = {}, !.load = 0, !.fake = 0]
      BY <1>11 DEF StopCodec
    <3>2. g \in Nat /\ 0 \in 0..FakeSize /\ codec \in Codecs
      BY NodeAssumption DEF Types, CodecType, Codecs
    <3> HIDE DEF g
    <3>3. QED
      BY <3>1, <3>2 DEF CodecType, Codecs
  <2>3. FlagsType'
    BY <1>11 DEF StopCodec, Types, FlagsType
  <2>4. QED
    BY <2>1, <2>2, <2>3
<1>12. ASSUME NEW ok \in BOOLEAN, Reconfigured(ok), UNCHANGED <<abr, q, pipe, app>>
       PROVE  FeedType' /\ CodecType' /\ FlagsType'
  <2>1. codec.gen + 1 \in Nat
    BY DEF Types, CodecType, Codecs
  <2>2. CodecType'
    BY <1>12, <2>1, NewCodecType DEF Reconfigured, CodecType
  <2>3. FeedType'
    BY <1>12 DEF Reconfigured, FeedGoto, Types, FeedType, Feeds, FeedPlaces
  <2>4. FlagsType'
    BY <1>12 DEF Reconfigured, Types, FeedType, Feeds, FlagsType
  <2>5. QED
    BY <2>2, <2>3, <2>4
<1>13. Reconfigure => FeedType' /\ CodecType' /\ FlagsType'
  BY <1>12 DEF Reconfigure
<1>14. FirstWait => FeedType' /\ CodecType' /\ FlagsType'
  BY DEF FirstWait, FeedGoto, Types, FeedType, Feeds, FeedPlaces, CodecType, FlagsType
<1>15. FeedInput => FeedType' /\ CodecType' /\ FlagsType'
  <2>1. SUFFICES ASSUME FeedInput
                 PROVE  FeedType' /\ CodecType' /\ FlagsType'
    OBVIOUS
  <2>2. FlagsType'
    BY <2>1 DEF FeedInput, Types, FlagsType
  <2>3. FeedType'
    BY <2>1 DEF FeedInput, FeedGoto, Types, FeedType, Feeds, FeedPlaces
  <2>4. CodecType'
    <3> DEFINE l == codec.load + 1
               f == codec.fake + 1
    <3>1. \/ codec' = codec
          \/ codec' = [codec EXCEPT !.load = l, !.fake = 0]
          \/ codec' = [codec EXCEPT !.fake = f] /\ codec.fake < FakeSize
      BY <2>1 DEF FeedInput
    <3>2. codec.fake \in 0..FakeSize /\ codec.load \in Nat /\ codec \in Codecs
      BY DEF Types, CodecType, Codecs
    <3>3. l \in Nat /\ 0 \in 0..FakeSize /\ (codec.fake < FakeSize => f \in 0..FakeSize)
      BY <3>2, NodeAssumption
    <3> HIDE DEF l, f
    <3>4. QED
      BY <3>1, <3>2, <3>3 DEF CodecType, Codecs
  <2>5. QED
    BY <2>2, <2>3, <2>4
<1>16. QED
  BY <1>1, <1>2, <1>3, <1>4, <1>5, <1>6, <1>7, <1>8, <1>9, <1>10, <1>11, <1>13, <1>14, <1>15
     DEF FeedStep

(***************************************************************************)
(* What a step leaves alone keeps its type.                                *)
(***************************************************************************)
LEMMA Same ==
  ASSUME Types
  PROVE  /\ UNCHANGED codec => CodecType'
         /\ UNCHANGED feed => FeedType'
         /\ UNCHANGED drain => DrainType'
         /\ UNCHANGED <<pictq, render>> => PictType'
         /\ UNCHANGED <<request, surface, vout, pipe, app, abr, q>> => FlagsType'
<1>1. UNCHANGED codec => CodecType'
  BY DEF Types, CodecType
<1>2. UNCHANGED feed => FeedType'
  BY DEF Types, FeedType
<1>3. UNCHANGED drain => DrainType'
  BY DEF Types, DrainType
<1>4. UNCHANGED <<pictq, render>> => PictType'
  BY Zenon DEF Types, PictType
<1>5. UNCHANGED <<request, surface, vout, pipe, app, abr, q>> => FlagsType'
  BY DEF Types, FlagsType
<1>6. QED
  BY <1>1, <1>2, <1>3, <1>4, <1>5

(***************************************************************************)
(* The input thread forgets all proxies or leaves them alone.              *)
(***************************************************************************)
LEMMA FeedPictures ==
  ASSUME FeedStep
  PROVE  UNCHANGED render /\ (InvalidateAll \/ UNCHANGED <<drain, pictq>>)
BY DEF FeedStep, FeedEnds, FeedGet, FeedAgain, FeedTakes, FeedFlushes, FlushCodec, FlushDone,
       FeedEos, FeedGotEos, TakeSurface, StopCodec, Reconfigure, Reconfigured, FirstWait, FeedInput

(***************************************************************************)
(* Types along the output thread.                                          *)
(***************************************************************************)
LEMMA DrainFrameTypes ==
  ASSUME Types, DrainFrame
  PROVE  Types' /\ codec'.gen = codec.gen /\ codec'.serial = codec.serial /\ codec'.java = codec.java
<1>1. codec \in Codecs /\ drain \in Drains
  BY DEF Types, CodecType, DrainType
<1>2. FeedType' /\ PictType' /\ FlagsType'
  BY Same DEF DrainFrame
<1>3. CASE /\ codec.fake > 0
           /\ codec' = [codec EXCEPT !.fake = @ - 1]
           /\ drain' = [pc |-> "first", ever |-> TRUE,
                        proxy |-> [idx |-> Fake, serial |-> codec.serial, gen |-> 0]]
  <2>1. codec.fake \in 0..FakeSize
    BY <1>1 DEF Codecs
  <2>2. codec.fake - 1 \in 0..FakeSize
    BY <1>3, <2>1, NodeAssumption
  <2>3. [idx |-> Fake, serial |-> codec.serial, gen |-> 0] \in Proxies
    BY <1>1 DEF Codecs, Proxies
  <2>4. CodecType' /\ codec'.gen = codec.gen /\ codec'.serial = codec.serial /\ codec'.java = codec.java
    BY <1>1, <1>3, <2>2 DEF CodecType, Codecs
  <2>5. DrainType'
    BY <1>3, <2>3 DEF DrainType, Drains
  <2>6. QED
    BY <1>2, <2>4, <2>5 DEF Types
<1>4. ASSUME NEW i \in IF codec.java THEN Outputs \ codec.held ELSE {Fake},
             codec.load > 0,
             codec' = [codec EXCEPT !.load = @ - 1,
                                    !.held = IF codec.java THEN @ \cup {i} ELSE @],
             drain' = [pc |-> "first", ever |-> TRUE,
                       proxy |-> [idx |-> i, serial |-> codec.serial, gen |-> codec.gen]]
      PROVE  Types' /\ codec'.gen = codec.gen /\ codec'.serial = codec.serial /\ codec'.java = codec.java
  <2> DEFINE l == codec.load - 1
             held == IF codec.java THEN codec.held \cup {i} ELSE codec.held
  <2>1. codec.load \in Nat /\ codec.held \in SUBSET Outputs
    BY <1>1 DEF Codecs
  <2>2. l \in Nat /\ held \in SUBSET Outputs
    BY <1>4, <2>1
  <2>3. codec' = [codec EXCEPT !.load = l, !.held = held]
    BY <1>4
  <2>4. [idx |-> i, serial |-> codec.serial, gen |-> codec.gen] \in Proxies
    BY <1>1 DEF Codecs, Proxies
  <2> HIDE DEF l, held
  <2>5. CodecType' /\ codec'.gen = codec.gen /\ codec'.serial = codec.serial /\ codec'.java = codec.java
    BY <1>1, <2>2, <2>3 DEF CodecType, Codecs
  <2>6. DrainType'
    BY <1>4, <2>4 DEF DrainType, Drains
  <2>7. QED
    BY <1>2, <2>5, <2>6 DEF Types
<1>5. QED
  BY <1>3, <1>4 DEF DrainFrame

\* The types through the steps of the output thread.
LEMMA DrainTypes ==
  ASSUME Types, DrainStep \/ DrainGivesUp
  PROVE  Types'
<1>0. /\ drain \in Drains /\ codec \in Codecs /\ NoProxy \in Proxies \cup {NoProxy}
      /\ drain.proxy \in Proxies \cup {NoProxy}
  BY DEF Types, DrainType, CodecType, Drains
<1>1. ASSUME NEW pc \in {"top", "first", "queue", "join", "end"},
             NEW p \in Proxies \cup {NoProxy}, DrainGoto(pc, p)
      PROVE  DrainType'
  <2> HIDE DEF Proxies
  <2>1. QED
    BY <1>0, <1>1 DEF DrainGoto, DrainType, Drains
<1>2. CASE DrainNothing
  <2>1. DrainType' /\ UNCHANGED <<codec, feed, pictq, render, request, surface, vout, pipe, app, q>>
    BY <1>0, <1>1, <1>2 DEF DrainNothing
  <2>2. abr' \in {abr, "got"}
    BY <1>2 DEF DrainNothing
  <2>3. FlagsType'
    BY <2>1, <2>2 DEF Types, FlagsType
  <2>4. QED
    BY <2>1, <2>3, Same DEF Types
<1>3. CASE DrainGivesUp
  <2>1. DrainType' /\ UNCHANGED <<codec, feed, pictq, render, request, surface, vout, pipe, app, abr, q>>
    BY <1>0, <1>1, <1>3 DEF DrainGivesUp
  <2>2. QED
    BY <2>1, Same DEF Types
<1>4. CASE DrainFirst
  <2>1. DrainType'
    BY <1>0, <1>1, <1>4 DEF DrainFirst
  <2>2. CodecType'
    BY <1>0, <1>4, ReleaseKeeps DEF DrainFirst, Types, CodecType
  <2>3. FeedType' /\ PictType' /\ FlagsType'
    <3>1. request' = [request EXCEPT !.first = FALSE] /\ UNCHANGED <<feed, pictq, render, surface, vout, pipe, app, abr, q>>
      BY <1>4 DEF DrainFirst
    <3>2. FlagsType'
      BY <3>1 DEF Types, FlagsType
    <3>3. QED
      BY <3>1, <3>2, Same
  <2>4. QED
    BY <2>1, <2>2, <2>3 DEF Types
<1>5. CASE DrainQueues
  <2> DEFINE picture == [proxy |-> drain.proxy, serial |-> feed.serial]
  <2>1. /\ picture \in Pictures /\ pictq \in PictQs
        /\ pictq.next \in Seq(Pictures) /\ pictq.shown \in Seq(Pictures)
    BY <1>0 DEF Types, FeedType, Feeds, Pictures, PictType, PictQs
  <2>2. pictq' = [pictq EXCEPT !.next = Append(pictq.next, picture)]
    BY <1>5 DEF DrainQueues
  <2> HIDE DEF picture
  <2>3. /\ Append(pictq.next, picture) \in Seq(Pictures)
        /\ Len(Append(pictq.next, picture)) = Len(pictq.next) + 1
    BY <2>1
  <2>4. /\ pictq' \in PictQs /\ pictq'.next = Append(pictq.next, picture)
        /\ pictq'.shown = pictq.shown
    BY <2>1, <2>2, <2>3 DEF PictQs
  <2>5. Len(pictq.next) + Len(pictq.shown) < RingSize /\ UNCHANGED render
    BY <1>5 DEF DrainQueues
  <2>6. PictType'
    <3>1. Len(pictq.next) \in Nat /\ Len(pictq.shown) \in Nat
      BY <2>1
    <3>2. Len(pictq'.next) + Len(pictq'.shown) <= RingSize
      <4>1. Len(pictq'.next) = Len(pictq.next) + 1 /\ Len(pictq'.shown) = Len(pictq.shown)
        BY <2>3, <2>4, Zenon
      <4>2. RingSize \in Nat
        BY NodeAssumption
      <4> DEFINE a == Len(pictq.next)
                 b == Len(pictq.shown)
      <4>3. a \in Nat /\ b \in Nat /\ a + b < RingSize
        BY <2>5, <3>1
      <4> HIDE DEF a, b
      <4>4. (a + 1) + b <= RingSize
        BY <4>2, <4>3
      <4>5. QED
        BY <4>1, <4>4, Zenon DEF a, b
    <3>3. QED
      BY <2>4, <2>5, <3>2 DEF Types, PictType
  <2>7. DrainType'
    BY <1>0, <1>1, <1>5 DEF DrainQueues
  <2>8. CodecType' /\ FeedType' /\ FlagsType'
    BY <1>5, Same DEF DrainQueues
  <2>9. QED
    BY <2>6, <2>7, <2>8 DEF Types
<1>6. CASE DrainDrops
  <2>1. DrainType'
    BY <1>0, <1>1, <1>6 DEF DrainDrops
  <2>2. CodecType'
    BY <1>0, <1>6, ReleaseKeeps DEF DrainDrops, Types
  <2>3. FeedType' /\ PictType' /\ FlagsType'
    BY <1>6, Same DEF DrainDrops
  <2>4. QED
    BY <2>1, <2>2, <2>3 DEF Types
<1>7. CASE DrainAborted
  <2>1. DrainType' /\ UNCHANGED <<codec, feed, pictq, render, request, surface, vout, pipe, app, abr, q>>
    BY <1>0, <1>1, <1>7 DEF DrainAborted
  <2>2. QED
    BY <2>1, Same DEF Types
<1>8. CASE DrainEnds
  <2> DEFINE g == codec.gen + 1
             n == IF codec.java THEN codec.gen + 1 ELSE codec.serial
  <2>1. g \in Nat /\ n \in Nat /\ 0 \in 0..FakeSize
    BY <1>0, NodeAssumption DEF Codecs
  <2>2. codec' = [codec EXCEPT !.started = FALSE, !.gen = g, !.held = {}, !.load = 0,
                               !.fake = 0, !.serial = n]
    BY <1>8 DEF DrainEnds
  <2> HIDE DEF g, n
  <2>3. CodecType'
    BY <1>0, <2>1, <2>2 DEF CodecType, Codecs
  <2>4. DrainType'
    <3> HIDE DEF Proxies
    <3>1. QED
      BY <1>0, <1>8 DEF DrainEnds, DrainType, Drains
  <2>5. PictType'
    <3>1. pictq.next \in Seq(Pictures) /\ pictq.shown \in Seq(Pictures)
      BY DEF Types, PictType, PictQs
    <3>2. /\ ForgetFrames(pictq.next) \in Seq(Pictures)
          /\ Len(ForgetFrames(pictq.next)) = Len(pictq.next)
          /\ ForgetFrames(pictq.shown) \in Seq(Pictures)
          /\ Len(ForgetFrames(pictq.shown)) = Len(pictq.shown)
      BY <3>1, ForgetsFrames
    <3>3. /\ pictq' = [next |-> ForgetFrames(pictq.next), shown |-> ForgetFrames(pictq.shown)]
          /\ UNCHANGED render
      BY <1>8 DEF DrainEnds
    <3> HIDE DEF ForgetFrames
    <3>4. /\ pictq' \in PictQs /\ pictq'.next = ForgetFrames(pictq.next)
          /\ pictq'.shown = ForgetFrames(pictq.shown)
      BY <3>2, <3>3 DEF PictQs
    <3>5. QED
      BY <3>2, <3>3, <3>4 DEF Types, PictType
  <2>6. FeedType' /\ FlagsType'
    BY <1>8 DEF DrainEnds, Types, FeedType, FlagsType
  <2>7. QED
    BY <2>3, <2>4, <2>5, <2>6 DEF Types
<1>9. QED
  BY <1>2, <1>3, <1>4, <1>5, <1>6, <1>7, <1>8, DrainFrameTypes DEF DrainStep

(***************************************************************************)
(* Types along the renderer.                                               *)
(***************************************************************************)
LEMMA RenderTypes ==
  ASSUME Types, RenderStep
  PROVE  Types'
<1>1. /\ pictq \in PictQs /\ pictq.next \in Seq(Pictures) /\ pictq.shown \in Seq(Pictures)
      /\ Len(pictq.next) \in Nat /\ Len(pictq.shown) \in Nat
  BY DEF Types, PictType, PictQs
<1>2. \A f \in {pictq.next, pictq.shown} : f # <<>> =>
        f[1] \in Pictures /\ f[1].proxy \in Proxies \cup {NoProxy} /\ Len(f) >= 1
  <2>1. SUFFICES ASSUME NEW f \in Seq(Pictures), f # <<>>
                 PROVE  f[1] \in Pictures /\ f[1].proxy \in Proxies \cup {NoProxy} /\ Len(f) >= 1
    BY <1>1
  <2>2. f[1] \in Pictures /\ Len(f) >= 1
    BY <2>1
  <2>3. QED
    BY <2>2 DEF Pictures
<1>3. FeedType' /\ DrainType' /\ FlagsType'
  BY DEF RenderStep, RenderNext, Display, Types, FeedType, DrainType, FlagsType
<1>4. CASE RenderNext
  <2> DEFINE rest == Tail(pictq.next)
             first == <<Head(pictq.next)>>
  <2>1. /\ pictq.next # <<>> /\ pictq' = [next |-> rest, shown |-> first]
    BY <1>4 DEF RenderNext
  <2>2. /\ rest \in Seq(Pictures) /\ Len(rest) = Len(pictq.next) - 1
        /\ first \in Seq(Pictures) /\ Len(first) = 1 /\ Len(pictq.next) >= 1
    BY <1>1, <2>1
  <2> HIDE DEF rest, first
  <2>3. pictq' \in PictQs /\ pictq'.next = rest /\ pictq'.shown = first
    BY <2>1, <2>2 DEF PictQs
  <2>4. PictType'
    <3>1. Len(pictq.next) + Len(pictq.shown) <= RingSize
      BY DEF Types, PictType
    <3>2. Len(pictq'.next) = Len(pictq.next) - 1 /\ Len(pictq'.shown) = 1
      BY <2>2, <2>3, Zenon
    <3>3. RingSize \in Nat /\ RingSize >= 1 /\ Len(pictq.shown) >= 0
      BY <1>1, NodeAssumption
    <3>4. Len(pictq'.next) + Len(pictq'.shown) <= RingSize
      <4> DEFINE a == Len(pictq.next)
                 b == Len(pictq.shown)
      <4>1. a \in Nat /\ b \in Nat /\ a + b <= RingSize
        BY <1>1, <3>1
      <4> HIDE DEF a, b
      <4>2. (a - 1) + 1 <= RingSize
        BY <3>3, <4>1
      <4>3. QED
        BY <3>2, <4>2, Zenon DEF a, b
    <3>5. QED
      BY <2>3, <3>2, <3>4 DEF PictType
  <2>5. CodecType'
    <3>1. CASE pictq.shown = <<>>
      BY <1>4, <3>1 DEF RenderNext, Types, CodecType
    <3>2. CASE pictq.shown # <<>>
      BY <1>2, <1>4, <3>2, ReleaseKeeps DEF RenderNext, Types
    <3>3. QED
      BY <3>1, <3>2
  <2>6. QED
    BY <1>3, <2>4, <2>5 DEF Types
<1>5. CASE Display
  <2>1. Len(pictq.shown) = 1 /\ pictq.shown # <<>> /\ render' = "idle"
    <3>1. Len(pictq.shown) = 1 /\ render' = "idle"
      BY <1>5 DEF Display, Types, PictType
    <3>2. Len(<<>>) = 0
      OBVIOUS
    <3>3. Len(pictq.shown) # 0
      BY <3>1
    <3>4. pictq.shown # <<>>
      BY <3>2, <3>3, Zenon
    <3>5. QED
      BY <3>1, <3>4
  <2>2. CASE vout.window = NoSurface
    <3>1. UNCHANGED <<codec, pictq>>
      BY <1>5, <2>2 DEF Display
    <3>2. PictType'
      BY <2>1, <3>1 DEF Types, PictType
    <3>3. QED
      BY <1>3, <3>1, <3>2, Same DEF Types
  <2>3. CASE vout.window # NoSurface
    <3> DEFINE shown == [pictq.shown EXCEPT ![1] = [pictq.shown[1] EXCEPT !.proxy = NoProxy]]
    <3>1. pictq' = [pictq EXCEPT !.shown = shown] /\ Release(pictq.shown[1].proxy)
      BY <1>5, <2>3 DEF Display
    <3>2. [pictq.shown[1] EXCEPT !.proxy = NoProxy] \in Pictures
      BY <1>2, <2>1 DEF Pictures
    <3>3. shown \in Seq(Pictures) /\ Len(shown) = 1
      BY <1>1, <2>1, <3>2
    <3> HIDE DEF shown
    <3>4. pictq' \in PictQs /\ pictq'.next = pictq.next /\ pictq'.shown = shown
      BY <1>1, <3>1, <3>3 DEF PictQs
    <3>5. PictType'
      BY <2>1, <3>3, <3>4 DEF Types, PictType
    <3>6. CodecType'
      BY <1>2, <2>1, <3>1, ReleaseKeeps DEF Types
    <3>7. QED
      BY <1>3, <3>5, <3>6 DEF Types
  <2>4. QED
    BY <2>2, <2>3
<1>6. QED
  BY <1>4, <1>5 DEF RenderStep

(***************************************************************************)
(* Types along the application and the reader.                             *)
(***************************************************************************)
LEMMA OutsideTypes ==
  ASSUME Types,
         \/ \E s \in Surfaces \cup {NoSurface} : SetWindow(s)
         \/ SetSurface \/ SeekRequests \/ SeekMarks \/ Abort
  PROVE  /\ Types' /\ UNCHANGED <<codec, feed, render, misrelease>>
         /\ InvalidateAll \/ UNCHANGED <<drain, pictq>>
<1>1. /\ UNCHANGED <<codec, feed, render, misrelease>>
      /\ InvalidateAll \/ UNCHANGED <<drain, pictq>>
  BY DEF SetWindow, SetSurface, Detach, SeekRequests, SeekMarks, Abort
<1>2. DrainType' /\ PictType'
  <2>1. CASE InvalidateAll
    BY <1>1, <2>1, InvalidateKeeps DEF Types
  <2>2. CASE UNCHANGED <<drain, pictq>>
    BY <1>1, <2>2 DEF Types, DrainType, PictType
  <2>3. QED
    BY <1>1, <2>1, <2>2
<1>3. CodecType' /\ FeedType'
  BY <1>1 DEF Types, CodecType, FeedType
<1>4. FlagsType'
  <2>1. ASSUME NEW s \in Surfaces \cup {NoSurface}, SetWindow(s)
        PROVE  FlagsType'
    BY <2>1 DEF SetWindow, Types, FlagsType
  <2>2. CASE SetSurface
    BY <2>2 DEF SetSurface, Detach, Types, FlagsType
  <2>3. CASE SeekRequests \/ SeekMarks \/ Abort
    <3>1. UNCHANGED <<surface, pipe, vout, app, abr>>
      BY <2>3 DEF SeekRequests, SeekMarks, Abort
    <3>2. \/ request' = [request EXCEPT !.flush = TRUE] /\ q' = q
          \/ request' = request /\ q' = [q EXCEPT !.serial = @ + 1, !.marker = TRUE]
          \/ request' = request /\ q' = [q EXCEPT !.abort = TRUE]
      BY <2>3 DEF SeekRequests, SeekMarks, Abort
    <3>3. request' \in [flush : BOOLEAN, first : BOOLEAN, need : BOOLEAN, recreate : BOOLEAN]
      BY <3>2 DEF Types, FlagsType
    <3>4. q' \in [serial : Nat, marker : BOOLEAN, abort : BOOLEAN]
      <4>1. q \in [serial : Nat, marker : BOOLEAN, abort : BOOLEAN]
        BY DEF Types, FlagsType
      <4>2. q.serial + 1 \in Nat
        BY <4>1
      <4>3. QED
        BY <3>2, <4>1, <4>2
    <3>5. QED
      BY <3>1, <3>3, <3>4 DEF Types, FlagsType
  <2>4. QED
    BY <2>1, <2>2, <2>3
<1>5. QED
  BY <1>1, <1>2, <1>3, <1>4 DEF Types

\* The types through every step.
LEMMA TypesKept ==
  ASSUME Types, [Next]_vars
  PROVE  Types'
<1>1. CASE FeedStep
  <2>1. DrainType' /\ PictType'
    BY <1>1, FeedPictures, InvalidateKeeps DEF Types, DrainType, PictType
  <2>2. QED
    BY <1>1, <2>1, FeedTypes DEF Types
<1>2. CASE UNCHANGED vars
  BY <1>2, Same DEF vars, Types
<1>3. QED
  BY <1>1, <1>2, DrainTypes, RenderTypes, OutsideTypes DEF Next

-----------------------------------------------------------------------------
(***************************************************************************)
(* The life of the codec, of which only these fields tell.                 *)
(***************************************************************************)
SameLife == codec'.gen = codec.gen /\ codec'.serial = codec.serial /\ codec'.java = codec.java

\* No proxy is in use at the start.
LEMMA InitBuffers == Init => Buffers
<1>1. SUFFICES ASSUME NEW s \in Start, codec = NewCodec(s, 1, TRUE),
                      feed = [pc |-> "top", pending |-> FALSE, serial |-> 0, got |-> "data",
                              fed |-> FALSE, surface |-> s],
                      drain = [pc |-> "top", proxy |-> NoProxy, ever |-> FALSE],
                      pictq = [next |-> <<>>, shown |-> <<>>], misrelease = FALSE
               PROVE  Buffers
  BY Zenon DEF Init
<1>2. NoneLive
  <2>1. drain.proxy = NoProxy /\ pictq.shown = <<>> /\ pictq.next = <<>> /\ Len(<<>>) = 0
    BY <1>1
  <2>2. \A k \in Int : Slot(k) = NoProxy
    BY <2>1 DEF Slot
  <2>3. QED
    BY <2>2 DEF NoneLive, Live
<1>3. SerialKnown
  <2>1. 1 \in Nat /\ TRUE \in BOOLEAN
    OBVIOUS
  <2>2. /\ codec.gen = 1 /\ (codec.java <=> s # NoSurface)
        /\ codec.serial = IF s = NoSurface THEN 0 ELSE 1
    BY <1>1, <2>1, NewCodecType, Zenon
  <2>3. feed.pc = "top"
    BY <1>1
  <2>4. QED
    BY <2>2, <2>3 DEF SerialKnown
<1>4. Emptied
  BY <1>1, <1>2 DEF Emptied
<1>5. QED
  BY <1>1, <1>2, <1>3, <1>4 DEF Buffers, NoneLive, Owned, Good, Apart, Current

(***************************************************************************)
(* When nothing stands for a buffer, only the serial is left to show.      *)
(***************************************************************************)
LEMMA AllForgotten ==
  ASSUME NoneLive', SerialKnown', ~misrelease'
  PROVE  Buffers'
<1>1. Hand \in Int /\ Slot(Hand)' = drain'.proxy
  BY DEF Slot, Hand
<1>2. Emptied'
  BY <1>1 DEF Emptied, NoneLive
<1>3. QED
  BY <1>2, NoneToKnow DEF Buffers

(***************************************************************************)
(* Proxies that stay where they are stand for what they stood for.         *)
(***************************************************************************)
LEMMA Stays ==
  ASSUME UNCHANGED <<drain, pictq>>
  PROVE  (\A k \in Int : Slot(k)' = Slot(k)) /\ (NoneLive => NoneLive')
<1>1. \A k \in Int : Slot(k)' = Slot(k)
  BY Zenon DEF Slot
<1>2. QED
  BY <1>1, Zenon DEF NoneLive

(***************************************************************************)
(* A step of the input thread that leaves proxies and codec alone.         *)
(***************************************************************************)
LEMMA Untouched ==
  ASSUME Buffers, UNCHANGED <<drain, pictq, misrelease>>, SameLife, codec'.held = codec.held,
         feed.pc \in {"flushed", "stopped"} =>
           feed'.pc = feed.pc \/ codec.serial = codec.gen \/ ~codec.java,
         feed'.pc \in {"flushing", "stopping"} => feed'.pc = feed.pc
  PROVE  Buffers'
<1>1. (\A k \in Int : Slot(k)' = Slot(k)) /\ (NoneLive => NoneLive')
  BY Stays
<1>2. SerialKnown'
  BY DEF Buffers, SerialKnown, SameLife
<1>3. Emptied'
  BY <1>1 DEF Buffers, Emptied, SameLife
<1>4. \A k \in Int : Good(Slot(k))' /\ (Current(Slot(k))' <=> Current(Slot(k)))
  <2>1. SUFFICES ASSUME NEW k \in Int
                 PROVE  Good(Slot(k))' /\ (Current(Slot(k))' <=> Current(Slot(k)))
    OBVIOUS
  <2>2. Slot(k)' = Slot(k) /\ Good(Slot(k))
    BY <1>1 DEF Buffers, Owned
  <2>3. QED
    BY <2>2 DEF Good, Current, SameLife
<1>5. Owned'
  BY <1>4 DEF Owned
<1>6. Apart'
  <2>1. SUFFICES ASSUME NEW k \in Int, NEW l \in Int, k # l,
                        Current(Slot(k))', Current(Slot(l))'
                 PROVE  Slot(k)'.idx # Slot(l)'.idx
    BY DEF Apart
  <2>2. Current(Slot(k)) /\ Current(Slot(l)) /\ Slot(k)' = Slot(k) /\ Slot(l)' = Slot(l)
    BY <1>1, <1>4, <2>1
  <2>3. QED
    BY <2>1, <2>2 DEF Buffers, Apart
<1>7. QED
  BY <1>2, <1>3, <1>5, <1>6 DEF Buffers

(***************************************************************************)
(* The input thread and the buffers.                                       *)
(***************************************************************************)
LEMMA FeedBuffers ==
  ASSUME IInv, FeedStep, Types'
  PROVE  Buffers'
<1>1. /\ feed \in Feeds /\ codec \in Codecs /\ Buffers /\ UNCHANGED misrelease /\ ~misrelease'
      /\ InvalidateAll => NoneLive'
      /\ InvalidateAll \/ UNCHANGED <<drain, pictq>>
  <2>1. UNCHANGED misrelease
    BY DEF FeedStep, FeedEnds, FeedGet, FeedAgain, FeedTakes, FeedFlushes, FlushCodec, FlushDone,
           FeedEos, FeedGotEos, TakeSurface, StopCodec, Reconfigure, FirstWait, FeedInput
  <2>2. ~misrelease'
    BY <2>1 DEF IInv, Buffers
  <2>3. InvalidateAll => NoneLive'
    BY Invalidated DEF IInv, Types
  <2>4. QED
    BY <2>1, <2>2, <2>3, FeedPictures DEF IInv, Types, FeedType, CodecType
<1>2. CASE FeedEnds \/ FeedGet \/ FeedAgain \/ FeedTakes \/ FeedEos \/ FeedGotEos \/ FirstWait
           \/ FeedInput
  <2>1. UNCHANGED <<drain, pictq>>
    BY <1>2 DEF FeedEnds, FeedGet, FeedAgain, FeedTakes, FeedEos, FeedGotEos, FirstWait, FeedInput
  <2>2. SameLife /\ codec'.held = codec.held
    BY <1>1, <1>2 DEF FeedEnds, FeedGet, FeedAgain, FeedTakes, FeedEos, FeedGotEos, FirstWait,
                      FeedInput, SameLife, Codecs
  <2>3. feed.pc \notin {"flushed", "stopped"} /\ feed'.pc \notin {"flushing", "stopping"}
    BY <1>1, <1>2 DEF FeedEnds, FeedGet, FeedAgain, FeedTakes, FeedEos, FeedGotEos, FirstWait,
                      FeedInput, FeedGoto, Feeds
  <2>4. QED
    BY <1>1, <2>1, <2>2, <2>3, Untouched
<1>3. CASE FeedFlushes \/ TakeSurface
  <2>1. codec' = codec /\ feed.pc \in {"got", "surface"}
    BY <1>3 DEF FeedFlushes, TakeSurface
  <2>2. CASE InvalidateAll
    <3>1. SerialKnown'
      BY <1>1, <2>1 DEF Buffers, SerialKnown
    <3>2. QED
      BY <1>1, <2>2, <3>1, AllForgotten
  <2>3. CASE UNCHANGED <<drain, pictq>> /\ ~InvalidateAll
    <3>1. feed'.pc \notin {"flushing", "stopping"}
      BY <1>1, <1>3, <2>3 DEF FeedFlushes, TakeSurface, FeedGoto, Feeds
    <3>2. QED
      BY <1>1, <2>1, <2>3, <3>1, Untouched DEF SameLife
  <2>4. QED
    BY <1>1, <2>2, <2>3
<1>4. CASE FlushCodec \/ StopCodec
  <2>1. feed.pc \in {"flushing", "stopping"} /\ UNCHANGED <<drain, pictq>>
        /\ feed'.pc \in {"flushed", "stopped"}
    BY <1>1, <1>4 DEF FlushCodec, StopCodec, FeedGoto, Feeds
  <2>2. NoneLive'
    BY <1>1, <2>1, Stays DEF Buffers, Emptied
  <2>3. /\ codec'.gen \in Nat /\ codec'.gen >= codec.gen
        /\ codec'.serial = codec.serial /\ codec'.java = codec.java
    <3>1. CASE FlushCodec
      BY <1>1, <3>1 DEF FlushCodec, Codecs
    <3>2. CASE StopCodec
      BY <1>1, <3>2 DEF StopCodec, Codecs
    <3>3. QED
      BY <1>4, <3>1, <3>2
  <2>4. SerialKnown'
    BY <1>1, <2>1, <2>3 DEF Buffers, SerialKnown, Codecs
  <2>5. QED
    BY <1>1, <2>2, <2>4, AllForgotten
<1>5. CASE FlushDone
  <2>1. feed.pc = "flushed" /\ UNCHANGED <<drain, pictq>> /\ feed'.pc \in {"top", "data"}
    BY <1>1, <1>5 DEF FlushDone, Feeds
  <2>2. /\ codec'.gen = codec.gen /\ codec'.java = codec.java /\ codec'.held = codec.held
        /\ codec'.serial = IF codec.java THEN codec.gen ELSE codec.serial
    BY <1>1, <1>5 DEF FlushDone, Codecs
  <2>3. CASE codec.java /\ codec.serial # codec.gen
    <3>1. NoneLive'
      BY <1>1, <2>1, <2>3, Stays DEF Buffers, Emptied
    <3>2. SerialKnown'
      BY <1>1, <2>1, <2>2, <2>3 DEF Buffers, SerialKnown, Codecs
    <3>3. QED
      BY <1>1, <3>1, <3>2, AllForgotten
  <2>4. CASE ~(codec.java /\ codec.serial # codec.gen)
    <3>1. SameLife
      BY <2>2, <2>4 DEF SameLife
    <3>2. QED
      BY <1>1, <2>1, <2>2, <2>4, <3>1, Untouched
  <2>5. QED
    BY <2>3, <2>4
<1>6. CASE Reconfigure
  <2>1. PICK ok \in BOOLEAN : Reconfigured(ok)
    BY <1>6 DEF Reconfigure
  <2>2. /\ codec' = NewCodec(feed.surface, codec.gen + 1, ok) /\ InvalidateAll
        /\ codec.gen + 1 \in Nat /\ codec.gen + 1 >= 1
    BY <1>1, <2>1 DEF Reconfigured, Codecs
  <2>3. SerialKnown'
    BY <2>2, NewCodecType DEF SerialKnown
  <2>4. QED
    BY <1>1, <2>2, <2>3, AllForgotten
<1>7. QED
  BY <1>2, <1>3, <1>4, <1>5, <1>6 DEF FeedStep

(***************************************************************************)
(* The application and the reader.                                         *)
(***************************************************************************)
LEMMA OutsideBuffers ==
  ASSUME IInv, Types', UNCHANGED <<codec, feed, misrelease>>,
         InvalidateAll \/ UNCHANGED <<drain, pictq>>
  PROVE  Buffers'
<1>1. CASE InvalidateAll
  <2>1. NoneLive'
    BY <1>1, Invalidated DEF IInv, Types
  <2>2. SerialKnown' /\ ~misrelease'
    BY DEF IInv, Buffers, SerialKnown
  <2>3. QED
    BY <2>1, <2>2, AllForgotten
<1>2. CASE UNCHANGED <<drain, pictq>>
  BY <1>2, Untouched DEF IInv, SameLife
<1>3. QED
  BY <1>1, <1>2

(***************************************************************************)
(* A picture that is queued: the proxy in the hand goes behind the others. *)
(***************************************************************************)
LEMMA QueuedSlots ==
  ASSUME Types, DrainQueues, NEW m \in Int, m = Len(pictq.next) + 1
  PROVE  /\ Slot(Hand)' = NoProxy /\ m # Hand
         /\ Slot(m)' = drain.proxy /\ Slot(m) = NoProxy
         /\ \A k \in Int : k # Hand /\ k # m => Slot(k)' = Slot(k)
<1> DEFINE n == Len(pictq.next)
           picture == [proxy |-> drain.proxy, serial |-> feed.serial]
<1>1. /\ drain'.proxy = NoProxy /\ pictq'.shown = pictq.shown
      /\ pictq'.next = Append(pictq.next, picture)
  BY DEF DrainQueues, DrainGoto, Types, DrainType, Drains, PictType, PictQs
<1>2. n \in Nat /\ pictq.next \in Seq(Pictures) /\ Hand = -1 /\ m = n + 1
  BY DEF Types, PictType, PictQs, Hand
<1>3. picture \in Pictures /\ picture.proxy = drain.proxy
  BY DEF Drains, Pictures, Types, FeedType, Feeds, DrainType
<1> HIDE DEF picture
<1>4. /\ Len(pictq'.next) = n + 1 /\ \A k \in 1..n : pictq'.next[k] = pictq.next[k]
      /\ pictq'.next[n + 1] = picture
  BY <1>1, <1>2, <1>3
<1> HIDE DEF n
<1>5. Slot(Hand)' = NoProxy
  BY <1>1 DEF Slot
<1>6. Slot(m)' = drain.proxy /\ m # Hand
  BY <1>2, <1>3, <1>4 DEF Slot
<1>7. Slot(m) = NoProxy
  BY <1>2, Slots DEF Types, n
<1>8. ASSUME NEW k \in Int, k # Hand, k # m
      PROVE  Slot(k)' = Slot(k)
  <2>1. k \in 1..(n + 1) <=> k \in 1..n
    BY <1>2, <1>8
  <2>2. QED
    BY <1>1, <1>4, <1>8, <2>1 DEF Slot, n
<1>9. QED
  BY <1>5, <1>6, <1>7, <1>8

(***************************************************************************)
(* The next picture is shown: each proxy moves up, and that of the picture *)
(* shown so far is given back.                                             *)
(***************************************************************************)
LEMMA NextSlots ==
  ASSUME Types, RenderNext, Types'
  PROVE  /\ Slot(Hand)' = Slot(Hand)
         /\ \A k \in Int : k >= 0 => Slot(k)' = Slot(k + 1)
         /\ \A k \in Int : k < Hand => Slot(k)' = NoProxy
         /\ IF pictq.shown = <<>> THEN UNCHANGED <<codec, misrelease>> /\ Slot(0) = NoProxy
            ELSE Release(Slot(0))
<1> DEFINE n == Len(pictq.next)
<1>1. /\ pictq.next # <<>> /\ pictq'.next = Tail(pictq.next)
      /\ pictq'.shown = <<Head(pictq.next)>> /\ UNCHANGED drain
  BY DEF RenderNext
<1>2. n \in Nat /\ pictq.next \in Seq(Pictures) /\ Hand = -1
  BY DEF Types, PictType, PictQs, Hand
<1>3. /\ n >= 1 /\ Len(pictq'.next) = n - 1
      /\ \A k \in 1..(n - 1) : pictq'.next[k] = pictq.next[k + 1]
      /\ pictq'.shown # <<>> /\ pictq'.shown[1] = pictq.next[1]
  BY <1>1, <1>2
<1>4. /\ \A k \in 1..n : Slot(k) = pictq.next[k].proxy
      /\ \A k \in Int : k > n => Slot(k) = NoProxy
  BY Slots DEF Types
<1> HIDE DEF n
<1>5. Slot(Hand)' = Slot(Hand)
  BY <1>1 DEF Slot
<1>6. ASSUME NEW k \in Int, k >= 0
      PROVE  Slot(k)' = Slot(k + 1)
  <2>1. CASE k = 0
    BY <1>2, <1>3, <1>4, <2>1 DEF Slot
  <2>2. CASE k \in 1..(n - 1)
    <3>1. Slot(k)' = pictq'.next[k].proxy
      BY <1>2, <1>3, <2>2 DEF Slot
    <3>2. k + 1 \in 1..n
      BY <1>2, <2>2
    <3>3. QED
      BY <1>3, <1>4, <2>2, <3>1, <3>2
  <2>3. CASE k # 0 /\ k \notin 1..(n - 1)
    <3>1. Slot(k)' = NoProxy
      BY <1>2, <1>3, <1>6, <2>3 DEF Slot
    <3>2. k + 1 > n /\ k + 1 \in Int
      BY <1>2, <1>3, <1>6, <2>3
    <3>3. QED
      BY <1>4, <3>1, <3>2
  <2>4. QED
    BY <2>1, <2>2, <2>3
<1>7. \A k \in Int : k < Hand => Slot(k)' = NoProxy
  BY <1>2, <1>3 DEF Slot
<1>8. CASE pictq.shown = <<>>
  BY <1>5, <1>6, <1>7, <1>8, Slots DEF Types, RenderNext
<1>9. CASE pictq.shown # <<>>
  <2>1. Release(Slot(0))
    BY <1>9, Slots DEF Types, RenderNext
  <2>2. QED
    BY <1>5, <1>6, <1>7, <1>9, <2>1
<1>10. QED
  BY <1>8, <1>9

(***************************************************************************)
(* A picture that is displayed loses its proxy, which is given back.       *)
(***************************************************************************)
LEMMA DisplaySlots ==
  ASSUME Types, Display, vout.window # NoSurface
  PROVE  /\ Release(Slot(0)) /\ Slot(0)' = NoProxy
         /\ \A k \in Int : k # 0 => Slot(k)' = Slot(k)
<1>1. /\ pictq \in PictQs /\ pictq.next \in Seq(Pictures) /\ pictq.shown \in Seq(Pictures)
      /\ UNCHANGED drain /\ Hand = -1
  BY DEF Types, PictType, PictQs, Display, Hand
<1>2. pictq.shown # <<>>
  <2>1. Len(pictq.shown) = 1
    BY DEF Display, Types, PictType
  <2>2. Len(<<>>) = 0
    OBVIOUS
  <2>3. Len(pictq.shown) # 0
    BY <2>1
  <2>4. QED
    BY <2>2, <2>3, Zenon
<1>3. /\ Release(pictq.shown[1].proxy)
      /\ pictq' = [pictq EXCEPT !.shown[1].proxy = NoProxy]
  BY DEF Display
<1>4. Slot(0) = pictq.shown[1].proxy
  BY <1>2, Slots DEF Types
<1>5. 1 \in 1..Len(pictq.shown) /\ pictq.shown[1] \in Pictures
  BY <1>1, <1>2
<1>6. pictq'.shown = [pictq.shown EXCEPT ![1] = [pictq.shown[1] EXCEPT !.proxy = NoProxy]]
  BY <1>1, <1>3 DEF PictQs
<1>7. pictq'.shown[1].proxy = NoProxy
  <2>1. pictq'.shown[1] = [pictq.shown[1] EXCEPT !.proxy = NoProxy]
    BY <1>1, <1>5, <1>6
  <2>2. QED
    BY <1>5, <2>1 DEF Pictures
<1>8. pictq'.next = pictq.next /\ pictq'.shown # <<>>
  BY <1>1, <1>2, <1>3, <1>6 DEF PictQs
<1>9. Slot(0)' = NoProxy
  BY <1>1, <1>7, <1>8 DEF Slot
<1>10. \A k \in Int : k # 0 => Slot(k)' = Slot(k)
  BY <1>1, <1>8 DEF Slot
<1>11. QED
  BY <1>3, <1>4, <1>9, <1>10

(***************************************************************************)
(* A proxy that is given back owns its buffer, and the codec goes on       *)
(* holding the buffers of the others.                                      *)
(***************************************************************************)
LEMMA GivenBack ==
  ASSUME Types, Buffers, NEW r \in Int, Release(Slot(r))
  PROVE  /\ ~misrelease' /\ SameLife
         /\ \A k \in Int : k # r /\ Current(Slot(k)) => Slot(k).idx \in codec'.held
<1>1. Slot(r) \in Proxies \cup {NoProxy}
  BY Slots DEF Types
<1>2. /\ SameLife
      /\ ~Returned(Slot(r)) => codec' = codec /\ misrelease' = misrelease
      /\ Returned(Slot(r)) =>
           /\ codec'.held = codec.held \ {Slot(r).idx}
           /\ misrelease' = (misrelease \/ Slot(r).idx \notin codec.held \/ Slot(r).gen # codec.gen)
  BY <1>1, ReleaseKeeps DEF Types, SameLife
<1>3. \A k \in Int : Current(Slot(k)) => Slot(k).idx \in codec.held /\ Slot(k).gen = codec.gen
  BY DEF Buffers, Owned, Good, Current
<1>4. CASE ~Returned(Slot(r))
  BY <1>2, <1>3, <1>4 DEF Buffers
<1>5. CASE Returned(Slot(r))
  <2>1. Current(Slot(r))
    BY <1>5 DEF Returned, Current, Live
  <2>2. ~misrelease'
    BY <1>2, <1>3, <1>5, <2>1 DEF Buffers
  <2>3. ASSUME NEW k \in Int, k # r, Current(Slot(k))
        PROVE  Slot(k).idx \in codec'.held
    <3>1. Slot(k).idx # Slot(r).idx
      BY <2>1, <2>3 DEF Buffers, Apart
    <3>2. QED
      BY <1>2, <1>3, <1>5, <2>3, <3>1
  <2>4. QED
    BY <1>2, <2>2, <2>3
<1>6. QED
  BY <1>4, <1>5

(***************************************************************************)
(* Proxies that move from slot to slot, while one of them is given back    *)
(* and vanishes, or none is.                                               *)
(***************************************************************************)
LEMMA MovedOn ==
  ASSUME Types, Buffers, UNCHANGED feed, drain'.pc = "join" => ~Live(drain'.proxy),
         NEW from \in [Int -> Int],
         \A k \in Int : Live(Slot(k)') => Slot(k)' = Slot(from[k]),
         \A k, l \in Int : k # l /\ Live(Slot(k)') /\ Live(Slot(l)') => from[k] # from[l],
         \/ SameLife /\ codec'.held = codec.held /\ UNCHANGED misrelease
         \/ \E r \in Int : /\ Release(Slot(r))
                           /\ \A k \in Int : Live(Slot(k)') => from[k] # r
  PROVE  Buffers'
<1>1. SameLife /\ ~misrelease'
  BY GivenBack DEF Buffers
<1>2. \A k \in Int : Current(Slot(k)') /\ Slot(k)'.idx \in codec.held => Slot(k)'.idx \in codec'.held
  <2>1. CASE codec'.held = codec.held
    BY <2>1
  <2>2. ASSUME NEW r \in Int, Release(Slot(r)), \A k \in Int : Live(Slot(k)') => from[k] # r,
               NEW k \in Int, Current(Slot(k)')
        PROVE  Slot(k)'.idx \in codec'.held
    <3>1. Live(Slot(k)')
      BY <2>2 DEF Current
    <3>2. Slot(k)' = Slot(from[k]) /\ from[k] \in Int /\ from[k] # r
      BY <2>2, <3>1
    <3>3. Current(Slot(from[k]))
      BY <2>2, <3>2
    <3>4. QED
      BY <2>2, <3>2, <3>3, GivenBack
  <2>3. QED
    BY <2>1, <2>2
<1>3. Owned' /\ Apart' /\ (NoneLive => NoneLive')
  BY <1>1, <1>2, Moved DEF SameLife, Buffers
<1>4. SerialKnown'
  BY <1>1 DEF Buffers, SerialKnown, SameLife
<1>5. Emptied'
  BY <1>1, <1>3 DEF Buffers, Emptied, SameLife
<1>6. QED
  BY <1>1, <1>3, <1>4, <1>5 DEF Buffers

(***************************************************************************)
(* A frame from the codec: its buffer is one that nothing stands for.      *)
(***************************************************************************)
LEMMA DrainFrameBuffers ==
  ASSUME IInv, DrainFrame, Types'
  PROVE  Buffers'
<1>1. /\ Types /\ Buffers /\ codec \in Codecs /\ drain'.pc = "first"
      /\ UNCHANGED <<feed, pictq, misrelease>> /\ ~Locked
      /\ SameLife /\ codec.gen \in Nat /\ codec.serial \in Nat
  <2>1. SameLife
    BY DrainFrameTypes DEF IInv, SameLife
  <2>2. codec \in Codecs /\ codec.gen \in Nat /\ codec.serial \in Nat
    BY DEF IInv, Types, CodecType, Codecs
  <2>3. drain'.pc = "first" /\ ~Locked /\ UNCHANGED <<feed, pictq, misrelease>>
    <3>1. ~Locked /\ UNCHANGED <<feed, pictq, misrelease>>
      BY DEF DrainFrame
    <3>2. \E p : drain' = [pc |-> "first", ever |-> TRUE, proxy |-> p]
      BY Zenon DEF DrainFrame
    <3>3. drain'.pc = "first"
      BY <3>2
    <3>4. QED
      BY <3>1, <3>3
  <2>4. QED
    BY <2>1, <2>2, <2>3 DEF IInv
<1>2. \A k \in Int : k # Hand => Slot(k)' = Slot(k)
  BY <1>1, Zenon DEF Slot
<1>3. Hand \in Int /\ Slot(Hand)' = drain'.proxy
  BY DEF Slot, Hand
<1> DEFINE from == [k \in Int |-> k]
<1>4. from \in [Int -> Int] /\ \A k \in Int : from[k] = k
  OBVIOUS
<1> HIDE DEF from
<1>5. CASE ~Live(drain'.proxy) /\ codec'.held = codec.held
  <2>1. \A k \in Int : Live(Slot(k)') => Slot(k)' = Slot(from[k])
    BY <1>2, <1>3, <1>4, <1>5
  <2>2. QED
    BY <1>1, <1>4, <1>5, <2>1, MovedOn
<1>6. ASSUME NEW i \in Outputs \ codec.held, codec.java,
             codec'.held = codec.held \cup {i},
             drain'.proxy = [idx |-> i, serial |-> codec.serial, gen |-> codec.gen]
      PROVE  Buffers'
  <2>1. codec.serial = codec.gen /\ codec.gen >= 1
    BY <1>1, <1>6 DEF Buffers, SerialKnown, Locked
  <2>2. SerialKnown' /\ Emptied'
    BY <1>1, <2>1 DEF Buffers, SerialKnown, Emptied, SameLife, Locked
  <2>3. drain'.proxy.idx = i /\ drain'.proxy.serial = codec.serial /\ drain'.proxy.gen = codec.gen
    BY <1>6
  <2>4. \A k \in Int : k # Hand /\ Current(Slot(k))' =>
          Slot(k)' = Slot(k) /\ Current(Slot(k)) /\ Slot(k)'.idx \in codec.held
    <3>1. SUFFICES ASSUME NEW k \in Int, k # Hand, Current(Slot(k))'
                   PROVE  Slot(k)' = Slot(k) /\ Current(Slot(k)) /\ Slot(k)'.idx \in codec.held
      OBVIOUS
    <3>2. Slot(k)' = Slot(k)
      BY <1>2, <3>1
    <3>3. Current(Slot(k))
      BY <1>1, <3>1, <3>2 DEF Current, SameLife
    <3>4. Good(Slot(k))
      BY <1>1, <3>1 DEF Buffers, Owned
    <3>5. QED
      BY <3>2, <3>3, <3>4 DEF Good, Current
  <2>5. Owned'
    <3>1. SUFFICES ASSUME NEW k \in Int
                   PROVE  Good(Slot(k))'
      BY DEF Owned
    <3>2. CASE k = Hand
      BY <1>1, <1>3, <1>6, <2>1, <2>3, <3>2 DEF Good, SameLife
    <3>3. CASE k # Hand
      <4>1. Slot(k)' = Slot(k) /\ Good(Slot(k))
        BY <1>1, <1>2, <3>3 DEF Buffers, Owned
      <4>2. QED
        BY <1>1, <1>6, <4>1 DEF Good, SameLife
    <3>4. QED
      BY <3>2, <3>3
  <2>6. Apart'
    <3>1. SUFFICES ASSUME NEW k \in Int, NEW l \in Int, k # l,
                          Current(Slot(k))', Current(Slot(l))'
                   PROVE  Slot(k)'.idx # Slot(l)'.idx
      BY DEF Apart
    <3>2. CASE k = Hand \/ l = Hand
      BY <1>3, <1>6, <2>3, <2>4, <3>1, <3>2
    <3>3. CASE k # Hand /\ l # Hand
      BY <1>1, <2>4, <3>1, <3>3 DEF Buffers, Apart
    <3>4. QED
      BY <3>2, <3>3
  <2>7. QED
    BY <1>1, <2>2, <2>5, <2>6 DEF Buffers
<1>7. QED
  <2>1. 0 \notin Outputs
    BY NodeAssumption
  <2>2. CASE /\ codec' = [codec EXCEPT !.fake = @ - 1]
             /\ drain' = [pc |-> "first", ever |-> TRUE,
                          proxy |-> [idx |-> Fake, serial |-> codec.serial, gen |-> 0]]
    BY <1>1, <1>5, <2>1, <2>2 DEF Live, Fake, Codecs
  <2>3. ASSUME NEW i \in IF codec.java THEN Outputs \ codec.held ELSE {Fake},
               codec' = [codec EXCEPT !.load = @ - 1,
                                      !.held = IF codec.java THEN @ \cup {i} ELSE @],
               drain' = [pc |-> "first", ever |-> TRUE,
                         proxy |-> [idx |-> i, serial |-> codec.serial, gen |-> codec.gen]]
        PROVE  Buffers'
    <3>1. CASE codec.java
      <4>1. /\ codec'.held = codec.held \cup {i}
            /\ drain'.proxy = [idx |-> i, serial |-> codec.serial, gen |-> codec.gen]
        BY <1>1, <2>3, <3>1 DEF Codecs
      <4>2. QED
        BY <1>6, <2>3, <3>1, <4>1
    <3>2. CASE ~codec.java
      <4>1. codec'.held = codec.held /\ ~Live(drain'.proxy)
        BY <1>1, <2>1, <2>3, <3>2 DEF Codecs, Live, Fake
      <4>2. QED
        BY <1>5, <4>1
    <3>3. QED
      BY <1>1, <3>1, <3>2 DEF Codecs
  <2>4. QED
    BY <2>2, <2>3 DEF DrainFrame

(***************************************************************************)
(* The output thread and the buffers.                                      *)
(***************************************************************************)
LEMMA DrainBuffers ==
  ASSUME IInv, DrainStep \/ DrainGivesUp, Types'
  PROVE  Buffers'
<1> DEFINE same == [k \in Int |-> k]
<1>1. /\ Types /\ Buffers /\ drain \in Drains /\ DrainType /\ PictType
      /\ same \in [Int -> Int] /\ \A k \in Int : same[k] = k
  BY DEF IInv, Types, DrainType
<1> HIDE DEF same
<1>2. Hand \in Int /\ Slot(Hand) = drain.proxy /\ Slot(Hand)' = drain'.proxy /\ ~Live(NoProxy)
  BY DEF Slot, Hand, Live
<1>3. UNCHANGED pictq => \A k \in Int : k # Hand => Slot(k)' = Slot(k)
  BY Zenon DEF Slot
<1>4. ASSUME UNCHANGED <<pictq, feed>>, drain'.proxy = NoProxy,
             \/ SameLife /\ codec'.held = codec.held /\ UNCHANGED misrelease
             \/ Release(drain.proxy)
      PROVE  Buffers'
  <2>1. \A k \in Int : Live(Slot(k)') => Slot(k)' = Slot(same[k]) /\ same[k] # Hand
    BY <1>1, <1>2, <1>3, <1>4
  <2>2. \A k, l \in Int : k # l => same[k] # same[l]
    BY <1>1
  <2>3. \/ SameLife /\ codec'.held = codec.held /\ UNCHANGED misrelease
        \/ \E r \in Int : Release(Slot(r)) /\ \A k \in Int : Live(Slot(k)') => same[k] # r
    BY <1>2, <1>4, <2>1
  <2>4. ~Live(drain'.proxy)
    BY <1>2, <1>4
  <2>5. QED
    BY <1>1, <1>4, <2>1, <2>2, <2>3, <2>4, MovedOn
<1>5. CASE DrainNothing \/ DrainGivesUp \/ DrainAborted
  <2>1. UNCHANGED <<pictq, feed, codec, misrelease>> /\ drain'.proxy = NoProxy
    BY <1>1, <1>5 DEF DrainNothing, DrainGivesUp, DrainAborted, DrainGoto, Drains
  <2>2. QED
    BY <1>4, <2>1 DEF SameLife
<1>6. CASE DrainDrops
  <2>1. UNCHANGED <<pictq, feed>> /\ drain'.proxy = NoProxy /\ Release(drain.proxy)
    BY <1>1, <1>6 DEF DrainDrops, DrainGoto, Drains
  <2>2. QED
    BY <1>4, <2>1
<1>7. CASE DrainFirst
  <2>1. CASE q.abort
    <3>1. UNCHANGED <<pictq, feed>> /\ drain'.proxy = NoProxy /\ Release(drain.proxy)
      BY <1>1, <1>7, <2>1 DEF DrainFirst, DrainGoto, Drains
    <3>2. QED
      BY <1>4, <3>1
  <2>2. CASE ~q.abort
    <3>1. /\ UNCHANGED <<pictq, feed, codec, misrelease>> /\ drain'.proxy = drain.proxy
          /\ drain'.pc \in {"top", "queue"}
      BY <1>1, <1>7, <2>2 DEF DrainFirst, DrainGoto, Drains
    <3>2. \A k \in Int : Slot(k)' = Slot(same[k])
      BY <1>1, <1>2, <1>3, <3>1
    <3>3. \A k, l \in Int : k # l => same[k] # same[l]
      BY <1>1
    <3>4. QED
      BY <1>1, <3>1, <3>2, <3>3, MovedOn DEF SameLife
  <2>3. QED
    BY <2>1, <2>2
<1>8. CASE DrainQueues
  <2>1. PICK m \in Int : m = Len(pictq.next) + 1
    BY <1>1 DEF PictType, PictQs
  <2> DEFINE from == [k \in Int |-> IF k = m THEN Hand ELSE k]
  <2>2. /\ UNCHANGED <<feed, codec, misrelease>> /\ drain'.pc = "top"
    BY <1>1, <1>8 DEF DrainQueues, DrainGoto, Drains
  <2>3. /\ Slot(Hand)' = NoProxy /\ m # Hand /\ Slot(m)' = drain.proxy
        /\ \A k \in Int : k # Hand /\ k # m => Slot(k)' = Slot(k)
    BY <1>1, <1>8, <2>1, QueuedSlots
  <2>4. from \in [Int -> Int] /\ \A k \in Int : from[k] = IF k = m THEN Hand ELSE k
    BY DEF Hand
  <2> HIDE DEF from
  <2>5. ASSUME NEW k \in Int, Live(Slot(k)')
        PROVE  k # Hand /\ Slot(k)' = Slot(from[k])
    <3>1. k # Hand
      BY <1>2, <2>3, <2>5
    <3>2. CASE k = m
      <4>1. from[k] = Hand
        BY <2>4, <3>2
      <4>2. QED
        BY <1>2, <2>3, <3>1, <3>2, <4>1
    <3>3. CASE k # m
      BY <2>3, <2>4, <3>1, <3>3
    <3>4. QED
      BY <3>2, <3>3
  <2>6. \A k, l \in Int : k # l /\ Live(Slot(k)') /\ Live(Slot(l)') => from[k] # from[l]
    BY <2>4, <2>5
  <2>7. SameLife /\ codec'.held = codec.held /\ UNCHANGED misrelease
    BY <2>2 DEF SameLife
  <2>8. QED
    BY <1>1, <2>2, <2>4, <2>5, <2>6, <2>7, MovedOn
<1>9. CASE DrainEnds
  <2>1. /\ drain.pc = "join" /\ feed.pc = "end" /\ UNCHANGED <<feed, misrelease>>
        /\ drain' = [drain EXCEPT !.pc = "end"]
        /\ pictq' = [next |-> ForgetFrames(pictq.next), shown |-> ForgetFrames(pictq.shown)]
    BY <1>9 DEF DrainEnds
  <2>2. drain.proxy \in Proxies \cup {NoProxy} /\ ~Live(drain.proxy) /\ drain'.proxy = drain.proxy
    BY <1>1, <2>1 DEF Drains, Buffers, Emptied
  <2>3. \A k \in Int : k # Hand => ~Live(Slot(k)')
    <3>1. /\ pictq.next \in Seq(Pictures) /\ pictq.shown \in Seq(Pictures)
          /\ pictq'.next \in Seq(Pictures) /\ pictq'.shown \in Seq(Pictures)
      BY <1>1 DEF PictType, PictQs, Types
    <3>2. /\ Len(pictq'.next) = Len(pictq.next) /\ Len(pictq'.shown) = Len(pictq.shown)
          /\ \A i \in 1..Len(pictq.next) : pictq'.next[i].proxy = Forgotten(pictq.next[i].proxy)
          /\ \A i \in 1..Len(pictq.shown) : pictq'.shown[i].proxy = Forgotten(pictq.shown[i].proxy)
      <4>1. pictq'.next = ForgetFrames(pictq.next) /\ pictq'.shown = ForgetFrames(pictq.shown)
        BY <2>1
      <4>2. QED
        BY <3>1, <4>1, ForgetsFrames
    <3>3. \A i \in 1..Len(pictq.next) : ~Live(pictq'.next[i].proxy)
      <4>1. \A i \in 1..Len(pictq.next) : pictq.next[i] \in Pictures
        BY <3>1
      <4>2. \A i \in 1..Len(pictq.next) : pictq.next[i].proxy \in Proxies \cup {NoProxy}
        BY <4>1 DEF Pictures
      <4>3. QED
        BY <3>2, <4>2, Forgets
    <3>4. \A i \in 1..Len(pictq.shown) : ~Live(pictq'.shown[i].proxy)
      <4>1. \A i \in 1..Len(pictq.shown) : pictq.shown[i] \in Pictures
        BY <3>1
      <4>2. \A i \in 1..Len(pictq.shown) : pictq.shown[i].proxy \in Proxies \cup {NoProxy}
        BY <4>1 DEF Pictures
      <4>3. QED
        BY <3>2, <4>2, Forgets
    <3>5. pictq'.shown # <<>> => 1 \in 1..Len(pictq.shown)
      BY <3>1, <3>2
    <3>6. SUFFICES ASSUME NEW k \in Int, k # Hand
                   PROVE  ~Live(Slot(k)')
      OBVIOUS
    <3>7. CASE k = 0 /\ pictq'.shown # <<>>
      BY <3>4, <3>5, <3>6, <3>7 DEF Slot
    <3>8. CASE k \in 1..Len(pictq'.next) /\ ~(k = 0 /\ pictq'.shown # <<>>)
      BY <3>2, <3>3, <3>6, <3>8 DEF Slot
    <3>9. CASE k \notin 1..Len(pictq'.next) /\ ~(k = 0 /\ pictq'.shown # <<>>)
      BY <1>2, <3>6, <3>9 DEF Slot
    <3>10. QED
      BY <3>7, <3>8, <3>9
  <2>4. NoneLive'
    BY <1>2, <2>2, <2>3 DEF NoneLive
  <2>5. /\ codec'.gen = codec.gen + 1 /\ codec'.java = codec.java
        /\ codec'.serial = IF codec.java THEN codec.gen + 1 ELSE codec.serial
        /\ codec.gen \in Nat
    BY <1>1, <1>9 DEF DrainEnds, Types, CodecType, Codecs
  <2>6. SerialKnown'
    BY <1>1, <2>1, <2>5 DEF Buffers, SerialKnown
  <2>7. QED
    BY <1>1, <2>1, <2>4, <2>6, AllForgotten DEF Buffers
<1>10. QED
  BY <1>5, <1>6, <1>7, <1>8, <1>9, DrainFrameBuffers DEF DrainStep

(***************************************************************************)
(* The renderer and the buffers.                                           *)
(***************************************************************************)
LEMMA RenderBuffers ==
  ASSUME IInv, RenderStep, Types'
  PROVE  Buffers'
<1>1. /\ Types /\ Buffers /\ UNCHANGED <<drain, feed>> /\ ~Live(NoProxy) /\ Hand = -1
      /\ (drain'.pc = "join" => ~Live(drain'.proxy))
  BY DEF IInv, Live, RenderStep, RenderNext, Display, Buffers, Emptied, Hand
<1>2. CASE RenderNext
  <2> DEFINE from == [k \in Int |-> IF k = Hand THEN Hand ELSE k + 1]
  <2>1. /\ from \in [Int -> Int] /\ \A k \in Int : from[k] = IF k = Hand THEN Hand ELSE k + 1
    BY <1>1
  <2> HIDE DEF from
  <2>2. /\ Slot(Hand)' = Slot(Hand)
        /\ \A k \in Int : k >= 0 => Slot(k)' = Slot(k + 1)
        /\ \A k \in Int : k < Hand => Slot(k)' = NoProxy
        /\ IF pictq.shown = <<>> THEN UNCHANGED <<codec, misrelease>> /\ Slot(0) = NoProxy
           ELSE Release(Slot(0))
    BY <1>1, <1>2, NextSlots
  <2>3. ASSUME NEW k \in Int, Live(Slot(k)')
        PROVE  (k = Hand \/ k >= 0) /\ Slot(k)' = Slot(from[k]) /\ from[k] # 0
    <3>1. k = Hand \/ k >= 0
      BY <1>1, <2>2, <2>3
    <3>2. CASE k = Hand
      BY <1>1, <2>1, <2>2, <3>2
    <3>3. CASE k >= 0
      <4>1. from[k] = k + 1 /\ from[k] # 0
        BY <1>1, <2>1, <3>3
      <4>2. QED
        BY <2>2, <3>3, <4>1
    <3>4. QED
      BY <3>1, <3>2, <3>3
  <2>4. ASSUME NEW k \in Int, NEW l \in Int, k # l, Live(Slot(k)'), Live(Slot(l)')
        PROVE  from[k] # from[l]
    <3>1. (k = Hand \/ k >= 0) /\ (l = Hand \/ l >= 0)
      BY <2>3, <2>4
    <3>2. QED
      BY <1>1, <2>1, <2>4, <3>1
  <2>5. \/ SameLife /\ codec'.held = codec.held /\ UNCHANGED misrelease
        \/ \E r \in Int : Release(Slot(r)) /\ \A k \in Int : Live(Slot(k)') => from[k] # r
    <3>1. CASE pictq.shown = <<>>
      BY <2>2, <3>1 DEF SameLife
    <3>2. CASE pictq.shown # <<>>
      BY <2>2, <2>3, <3>2
    <3>3. QED
      BY <3>1, <3>2
  <2>6. QED
    BY <1>1, <2>1, <2>3, <2>4, <2>5, MovedOn
<1>3. CASE Display
  <2>1. CASE vout.window = NoSurface
    <3>1. UNCHANGED <<codec, pictq, misrelease>>
      BY <1>3, <2>1 DEF Display
    <3>2. QED
      BY <1>1, <3>1, OutsideBuffers
  <2>2. CASE vout.window # NoSurface
    <3> DEFINE same == [k \in Int |-> k]
    <3>1. same \in [Int -> Int] /\ \A k \in Int : same[k] = k
      OBVIOUS
    <3> HIDE DEF same
    <3>2. /\ Release(Slot(0)) /\ Slot(0)' = NoProxy
          /\ \A k \in Int : k # 0 => Slot(k)' = Slot(k)
      BY <1>1, <1>3, <2>2, DisplaySlots
    <3>3. \A k \in Int : Live(Slot(k)') => Slot(k)' = Slot(same[k]) /\ same[k] # 0
      BY <1>1, <3>1, <3>2
    <3>4. \A k, l \in Int : k # l => same[k] # same[l]
      BY <3>1
    <3>5. \E r \in Int : Release(Slot(r)) /\ \A k \in Int : Live(Slot(k)') => same[k] # r
      BY <3>2, <3>3
    <3>6. QED
      BY <1>1, <3>1, <3>3, <3>4, <3>5, MovedOn
  <2>3. QED
    BY <2>1, <2>2
<1>4. QED
  BY <1>2, <1>3 DEF RenderStep

-----------------------------------------------------------------------------
(***************************************************************************)
(* No buffer is lost.  Calm is the time in which nothing is about to take  *)
(* the buffers back: the output knows the codec, which works on the        *)
(* surface of the pipeline, and the application sets no other one.         *)
(***************************************************************************)
Calm ==
  /\ vout.attached /\ surface = pipe /\ feed.pc \notin {"flushing", "stopping"}
  /\ app.pc = "surface" => app.surface = pipe

Covers(k, i) ==
  /\ Slot(k) # NoProxy /\ Slot(k).idx = i
  /\ Slot(k).gen = codec.gen /\ Slot(k).serial = codec.serial
Covered == \A i \in codec.held : \E k \in Int : Covers(k, i)

\* The window of the output is the surface the application set last, and the
\* codec is a dummy where it has no surface; a codec that took its buffers
\* back holds none until it has its new serial.
Windows ==
  /\ app.pc = "idle" => vout.window = pipe
  /\ app.pc = "surface" => vout.window = app.surface
  /\ codec.java <=> surface # NoSurface
HandEmpty == drain.pc = "top" => drain.proxy = NoProxy
NoneHeld == ~codec.java \/ codec.serial # codec.gen => codec.held = {}

Held == Windows /\ HandEmpty /\ NoneHeld /\ (Calm => Covered)

\* No proxy is needed at the start.
LEMMA InitHeld == Init => Held
<1>1. SUFFICES ASSUME Init
               PROVE  Held
  OBVIOUS
<1>2. PICK s \in Start :
        /\ codec = NewCodec(s, 1, TRUE) /\ surface = s /\ pipe = s
        /\ vout = [window |-> s, attached |-> TRUE]
        /\ drain = [pc |-> "top", proxy |-> NoProxy, ever |-> FALSE]
        /\ app = [pc |-> "idle", surface |-> s]
  BY <1>1 DEF Init
<1>3. codec.java = (s # NoSurface) /\ codec.held = {}
  BY <1>2 DEF NewCodec
<1>4. QED
  BY <1>2, <1>3 DEF Held, Windows, HandEmpty, NoneHeld, Covered

(***************************************************************************)
(* When the codec holds no more buffers than before, and the proxies of    *)
(* those it still holds are in some slot, each buffer is still covered.    *)
(***************************************************************************)
LEMMA StaysCovered ==
  ASSUME Types, Covered, SameLife, codec'.held \subseteq codec.held,
         \A k \in Int : Current(Slot(k)) /\ Slot(k).idx \in codec'.held
           => \E l \in Int : Slot(l)' = Slot(k)
  PROVE  Covered'
<1>1. SUFFICES ASSUME NEW i \in codec'.held
               PROVE  \E l \in Int : Covers(l, i)'
  BY DEF Covered
<1>2. i \in codec.held /\ i \in Outputs
  BY DEF Types, CodecType, Codecs
<1>3. PICK k \in Int : Covers(k, i)
  BY <1>2 DEF Covered
<1>4. Current(Slot(k)) /\ Slot(k).idx \in codec'.held
  BY <1>2, <1>3 DEF Covers, Current, Live
<1>5. PICK l \in Int : Slot(l)' = Slot(k)
  BY <1>4
<1>6. Covers(l, i)'
  BY <1>3, <1>5 DEF Covers, SameLife
<1>7. QED
  BY <1>6

(***************************************************************************)
(* So it is when one proxy is given back: its buffer is held no more.      *)
(***************************************************************************)
LEMMA ReturnCovered ==
  ASSUME Types, vout.attached, Covered, NEW r \in Int, Release(Slot(r)),
         \A k \in Int : k # r /\ Current(Slot(k)) => \E l \in Int : Slot(l)' = Slot(k)
  PROVE  Covered'
<1>1. Slot(r) \in Proxies \cup {NoProxy}
  BY Slots DEF Types
<1>2. /\ SameLife
      /\ ~Returned(Slot(r)) => codec' = codec /\ misrelease' = misrelease
      /\ Returned(Slot(r)) => codec'.held = codec.held \ {Slot(r).idx}
  BY <1>1, ReleaseKeeps DEF Types, SameLife
<1>3. Current(Slot(r)) => Returned(Slot(r))
  BY DEF Returned, Current, Live
<1>4. codec'.held \subseteq codec.held
  BY <1>2
<1>5. \A k \in Int : Current(Slot(k)) /\ Slot(k).idx \in codec'.held
        => \E l \in Int : Slot(l)' = Slot(k)
  BY <1>2, <1>3
<1>6. QED
  BY <1>2, <1>4, <1>5, StaysCovered

\* Giving a buffer back leaves a codec without buffers as it is.
LEMMA ReturnNoneHeld ==
  ASSUME Types, NoneHeld, NEW r \in Int, Release(Slot(r))
  PROVE  NoneHeld' /\ codec'.java = codec.java
<1>1. Slot(r) \in Proxies \cup {NoProxy}
  BY Slots DEF Types
<1>2. /\ SameLife
      /\ ~Returned(Slot(r)) => codec' = codec /\ misrelease' = misrelease
      /\ Returned(Slot(r)) => codec'.held = codec.held \ {Slot(r).idx}
  BY <1>1, ReleaseKeeps DEF Types, SameLife
<1>3. QED
  BY <1>2 DEF NoneHeld, SameLife

(***************************************************************************)
(* The input thread: it invalidates the buffers only on the way to a codec *)
(* that takes them back.                                                   *)
(***************************************************************************)
LEMMA FeedHeld ==
  ASSUME IInv, Held, FeedStep
  PROVE  Held'
<1>1. /\ Types /\ codec \in Codecs /\ feed \in Feeds /\ drain \in Drains
      /\ UNCHANGED <<pipe, app>> /\ codec.gen \in Nat /\ codec.serial \in Nat
      /\ Windows /\ HandEmpty /\ NoneHeld /\ (Calm => Covered)
  <2>1. UNCHANGED <<pipe, app>>
    BY DEF FeedStep, FeedEnds, FeedGet, FeedAgain, FeedTakes, FeedFlushes, FlushCodec,
           FlushDone, FeedEos, FeedGotEos, TakeSurface, StopCodec, Reconfigure, FirstWait,
           FeedInput
  <2>2. QED
    BY <2>1 DEF IInv, Types, CodecType, Codecs, FeedType, DrainType, Held
<1>2. HandEmpty'
  <2>1. drain' = drain \/ drain' = [drain EXCEPT !.proxy = Forgotten(@)]
    BY DEF FeedStep, FeedEnds, FeedGet, FeedAgain, FeedTakes, FeedFlushes, FlushCodec,
           FlushDone, FeedEos, FeedGotEos, TakeSurface, StopCodec, Reconfigure, Reconfigured,
           FirstWait, FeedInput, InvalidateAll
  <2>2. QED
    BY <1>1, <2>1, Forgets DEF HandEmpty, Drains
<1>3. ASSUME UNCHANGED <<drain, pictq, vout, surface>>, SameLife, codec'.held = codec.held,
             feed.pc \notin {"flushing", "stopping"}
      PROVE  Held'
  <2>1. Windows' /\ NoneHeld'
    BY <1>1, <1>3 DEF Windows, NoneHeld, SameLife
  <2>2. Calm' => Calm
    BY <1>1, <1>3 DEF Calm
  <2>3. \A k \in Int : Slot(k)' = Slot(k)
    BY <1>3, Stays
  <2>4. Calm' => Covered'
    BY <1>1, <1>3, <2>2, <2>3, StaysCovered
  <2>5. QED
    BY <1>2, <2>1, <2>4 DEF Held
<1>4. CASE \/ FeedEnds \/ FeedGet \/ FeedAgain \/ FeedTakes \/ FeedEos \/ FeedGotEos
           \/ FirstWait \/ FeedInput
  <2>1. /\ UNCHANGED <<drain, pictq, vout, surface>> /\ feed.pc \notin {"flushing", "stopping"}
    BY <1>4 DEF FeedEnds, FeedGet, FeedAgain, FeedTakes, FeedEos, FeedGotEos, FirstWait,
                FeedInput
  <2>2. SameLife /\ codec'.held = codec.held
    BY <1>1, <1>4 DEF SameLife, Codecs, FeedEnds, FeedGet, FeedAgain, FeedTakes, FeedEos,
                      FeedGotEos, FirstWait, FeedInput
  <2>3. QED
    BY <1>3, <2>1, <2>2
<1>5. CASE FeedFlushes \/ TakeSurface
  <2>1. /\ UNCHANGED <<codec, vout, surface>> /\ feed.pc \in {"got", "surface"}
        /\ UNCHANGED <<drain, pictq>> \/ feed'.pc \in {"flushing", "stopping"}
    BY <1>1, <1>5 DEF FeedFlushes, TakeSurface, FeedGoto, Feeds
  <2>2. CASE UNCHANGED <<drain, pictq>>
    BY <1>3, <2>1, <2>2 DEF SameLife
  <2>3. CASE feed'.pc \in {"flushing", "stopping"}
    BY <1>1, <1>2, <2>1, <2>3 DEF Held, Windows, NoneHeld, Calm
  <2>4. QED
    BY <2>1, <2>2, <2>3
<1>6. CASE FlushCodec \/ StopCodec
  <2>1. codec'.held = {} /\ codec'.java = codec.java /\ UNCHANGED <<vout, surface>>
    BY <1>1, <1>6 DEF FlushCodec, StopCodec, Codecs
  <2>2. QED
    BY <1>1, <1>2, <2>1 DEF Held, Windows, NoneHeld, Covered
<1>7. CASE FlushDone
  <2>1. /\ feed.pc = "flushed" /\ UNCHANGED <<drain, pictq, vout, surface>>
        /\ codec'.gen = codec.gen /\ codec'.java = codec.java /\ codec'.held = codec.held
        /\ codec'.serial = IF codec.java THEN codec.gen ELSE codec.serial
    BY <1>1, <1>7 DEF FlushDone, Codecs
  <2>2. CASE codec.java /\ codec.serial # codec.gen
    BY <1>1, <1>2, <2>1, <2>2 DEF Held, Windows, NoneHeld, Covered
  <2>3. CASE ~(codec.java /\ codec.serial # codec.gen)
    BY <1>3, <2>1, <2>3 DEF SameLife
  <2>4. QED
    BY <2>2, <2>3
<1>8. CASE Reconfigure
  <2>1. PICK ok \in BOOLEAN : Reconfigured(ok)
    BY <1>8 DEF Reconfigure
  <2>2. codec'.held = {} /\ codec'.java = (surface' # NoSurface)
    BY <2>1 DEF Reconfigured, NewCodec
  <2>3. vout'.window = vout.window
    BY <1>1, <2>1 DEF Reconfigured, Types, FlagsType
  <2>4. QED
    BY <1>1, <1>2, <2>2, <2>3 DEF Held, Windows, NoneHeld, Covered
<1>9. QED
  BY <1>4, <1>5, <1>6, <1>7, <1>8 DEF FeedStep

(***************************************************************************)
(* The application: a surface other than that of the pipeline ends the     *)
(* calm, and taking away no surface loses nothing.                         *)
(***************************************************************************)
LEMMA WindowHeld ==
  ASSUME IInv, Held, NEW s \in Surfaces \cup {NoSurface}, SetWindow(s)
  PROVE  Held'
<1>1. /\ Types /\ Windows /\ HandEmpty /\ NoneHeld /\ (Calm => Covered) /\ vout' = [vout EXCEPT !.window = s]
      /\ UNCHANGED <<codec, surface, pipe, feed>> /\ app' = [pc |-> "surface", surface |-> s]
      /\ app.pc = "idle" /\ (UNCHANGED <<drain, pictq>> \/ InvalidateAll)
      /\ (vout.window = s /\ s # NoSurface => UNCHANGED <<drain, pictq>>)
  BY DEF SetWindow, IInv, Held
<1>2. /\ vout'.window = s /\ vout'.attached = vout.attached
  BY <1>1 DEF Types, FlagsType
<1>3. Windows' /\ NoneHeld'
  BY <1>1, <1>2 DEF Windows, NoneHeld
<1>4. HandEmpty'
  BY <1>1, Forgets DEF HandEmpty, InvalidateAll, Types, DrainType, Drains
<1>5. ASSUME Calm'
      PROVE  Covered'
  <2>1. Calm /\ s = pipe /\ s = surface /\ vout.window = s
    BY <1>1, <1>2, <1>5 DEF Calm, Windows
  <2>2. CASE s = NoSurface
    <3>1. codec'.held = {}
      BY <1>1, <2>1, <2>2 DEF Windows, NoneHeld
    <3>2. QED
      BY <3>1 DEF Covered
  <2>3. CASE s # NoSurface
    <3>1. \A k \in Int : Slot(k)' = Slot(k)
      BY <1>1, <2>1, <2>3, Stays
    <3>2. QED
      BY <1>1, <2>1, <3>1, StaysCovered DEF SameLife
  <2>4. QED
    BY <2>2, <2>3
<1>6. QED
  BY <1>3, <1>4, <1>5 DEF Held

LEMMA SurfaceHeld ==
  ASSUME IInv, Held, SetSurface
  PROVE  Held'
<1>1. /\ Types /\ Windows /\ HandEmpty /\ NoneHeld /\ (Calm => Covered)
      /\ UNCHANGED <<codec, surface, feed>> /\ app.pc = "surface" /\ app'.pc = "idle"
  BY DEF SetSurface, IInv, Held, Types, FlagsType
<1>2. CASE app.surface = pipe
  <2>1. UNCHANGED <<vout, pipe, drain, pictq>>
    BY <1>2 DEF SetSurface
  <2>2. \A k \in Int : Slot(k)' = Slot(k)
    BY <2>1, Stays
  <2>3. Calm' => Calm
    BY <1>1, <1>2, <2>1 DEF Calm
  <2>4. Calm' => Covered'
    BY <1>1, <2>2, <2>3, StaysCovered DEF SameLife
  <2>5. QED
    BY <1>1, <1>2, <2>1, <2>4 DEF Held, Windows, HandEmpty, NoneHeld
<1>3. CASE app.surface # pipe
  <2>1. /\ pipe' = app.surface /\ vout' = [vout EXCEPT !.attached = FALSE]
        /\ InvalidateAll \/ UNCHANGED <<drain, pictq>>
    BY <1>3 DEF SetSurface, Detach
  <2>2. vout'.window = vout.window /\ ~vout'.attached
    BY <1>1, <2>1 DEF Types, FlagsType
  <2>3. HandEmpty'
    BY <1>1, <2>1, Forgets DEF HandEmpty, InvalidateAll, Types, DrainType, Drains
  <2>4. QED
    BY <1>1, <2>1, <2>2, <2>3 DEF Held, Windows, NoneHeld, Calm
<1>4. QED
  BY <1>2, <1>3

(***************************************************************************)
(* A frame from the codec: its proxy is in the hand, which was empty.      *)
(***************************************************************************)
LEMMA FrameHeld ==
  ASSUME IInv, Held, DrainFrame
  PROVE  Held'
<1>1. /\ Types /\ Buffers /\ codec \in Codecs /\ Windows /\ NoneHeld /\ (Calm => Covered)
      /\ UNCHANGED <<feed, pictq, vout, pipe, app, surface>> /\ ~Locked
      /\ drain.pc = "top" /\ drain.proxy = NoProxy /\ drain'.pc = "first"
  <2>1. drain.pc = "top" /\ drain.proxy = NoProxy /\ ~Locked
        /\ UNCHANGED <<feed, pictq, vout, pipe, app, surface>>
    BY DEF DrainFrame, Held, HandEmpty
  <2>2. \E p : drain' = [pc |-> "first", ever |-> TRUE, proxy |-> p]
    BY Zenon DEF DrainFrame
  <2>3. drain'.pc = "first"
    BY <2>2
  <2>4. QED
    BY <2>1, <2>3 DEF IInv, Types, CodecType, Held
<1>2. SameLife
  BY <1>1, DrainFrameTypes DEF SameLife
<1>3. \A k \in Int : k # Hand => Slot(k)' = Slot(k)
  BY <1>1, Zenon DEF Slot
<1>4. Hand \in Int /\ Slot(Hand)' = drain'.proxy /\ Slot(Hand) = NoProxy
  BY <1>1 DEF Slot, Hand
<1>5. ASSUME NEW i \in codec.held, Covered
      PROVE  \E k \in Int : Covers(k, i)'
  <2>1. PICK k \in Int : Covers(k, i)
    BY <1>5 DEF Covered
  <2>2. k # Hand
    BY <1>4, <2>1 DEF Covers
  <2>3. Slot(k)' = Slot(k)
    BY <1>3, <2>2
  <2>4. Covers(k, i)'
    BY <1>2, <2>1, <2>3 DEF Covers, SameLife
  <2>5. QED
    BY <2>4
<1>6. CASE codec'.held = codec.held
  <2>1. Covered => Covered'
    BY <1>5, <1>6 DEF Covered
  <2>2. QED
    BY <1>1, <1>2, <1>6, <2>1 DEF Held, Windows, HandEmpty, NoneHeld, Calm, SameLife
<1>7. ASSUME NEW i \in Outputs, codec.java, codec'.held = codec.held \cup {i},
             drain'.proxy = [idx |-> i, serial |-> codec.serial, gen |-> codec.gen]
      PROVE  Held'
  <2>1. codec.serial = codec.gen
    BY <1>1, <1>7 DEF Buffers, SerialKnown, Locked
  <2>2. /\ drain'.proxy # NoProxy /\ drain'.proxy.idx = i
        /\ drain'.proxy.serial = codec.serial /\ drain'.proxy.gen = codec.gen
    <3>1. /\ drain'.proxy.idx = i
          /\ drain'.proxy.serial = codec.serial /\ drain'.proxy.gen = codec.gen
      BY <1>7
    <3>2. drain'.proxy \in [idx : Int, serial : Int, gen : Int]
      BY <1>1, <1>7, NodeAssumption DEF Codecs
    <3>3. QED
      BY <3>1, <3>2, NodeAssumption
  <2>3. Covers(Hand, i)'
    BY <1>2, <1>4, <2>2 DEF Covers, SameLife
  <2>4. Covered => Covered'
    BY <1>4, <1>5, <1>7, <2>3 DEF Covered
  <2>5. QED
    BY <1>1, <1>2, <1>7, <2>1, <2>4 DEF Held, Windows, HandEmpty, NoneHeld, Calm, SameLife
<1>8. CASE codec' = [codec EXCEPT !.fake = @ - 1]
  BY <1>1, <1>6, <1>8 DEF Codecs
<1>9. ASSUME NEW i \in IF codec.java THEN Outputs \ codec.held ELSE {Fake},
             codec' = [codec EXCEPT !.load = @ - 1,
                                    !.held = IF codec.java THEN @ \cup {i} ELSE @],
             drain' = [pc |-> "first", ever |-> TRUE,
                       proxy |-> [idx |-> i, serial |-> codec.serial, gen |-> codec.gen]]
      PROVE  Held'
  <2>1. CASE codec.java
    <3>1. /\ codec'.held = codec.held \cup {i}
          /\ drain'.proxy = [idx |-> i, serial |-> codec.serial, gen |-> codec.gen]
      BY <1>1, <1>9, <2>1 DEF Codecs
    <3>2. QED
      BY <1>7, <1>9, <2>1, <3>1
  <2>2. CASE ~codec.java
    <3>1. codec'.held = codec.held
      BY <1>1, <1>9, <2>2 DEF Codecs
    <3>2. QED
      BY <1>6, <3>1
  <2>3. QED
    BY <1>1, <2>1, <2>2 DEF Codecs
<1>10. QED
  BY <1>8, <1>9 DEF DrainFrame

(***************************************************************************)
(* The output thread: a proxy stays in its hand, is queued or is given     *)
(* back.                                                                   *)
(***************************************************************************)
LEMMA DrainHeld ==
  ASSUME IInv, Held, DrainStep \/ DrainGivesUp
  PROVE  Held'
<1>1. /\ Types /\ codec \in Codecs /\ drain \in Drains /\ Windows /\ HandEmpty /\ NoneHeld
      /\ (Calm => Covered)
  BY DEF IInv, Types, CodecType, DrainType, Held
<1>2. Hand \in Int /\ Slot(Hand) = drain.proxy /\ Slot(Hand)' = drain'.proxy
  BY DEF Slot, Hand
<1>3. UNCHANGED pictq => \A k \in Int : k # Hand => Slot(k)' = Slot(k)
  BY Zenon DEF Slot
<1>4. ASSUME UNCHANGED <<vout, surface, pipe, app, feed>>, codec'.java = codec.java, NoneHeld',
             HandEmpty', Calm /\ Covered => Covered'
      PROVE  Held'
  BY <1>1, <1>4 DEF Held, Windows, Calm
<1>5. ASSUME UNCHANGED <<vout, surface, pipe, app, feed, pictq>>, drain'.proxy = NoProxy,
             (UNCHANGED codec /\ drain.proxy = NoProxy) \/ Release(drain.proxy)
      PROVE  Held'
  <2>1. CASE UNCHANGED codec /\ drain.proxy = NoProxy
    <3>1. \A k \in Int : Slot(k)' = Slot(k)
      BY <1>2, <1>3, <1>5, <2>1
    <3>2. Covered => Covered'
      BY <1>1, <2>1, <3>1, StaysCovered DEF SameLife
    <3>3. QED
      BY <1>1, <1>4, <1>5, <2>1, <3>2 DEF NoneHeld, HandEmpty
  <2>2. CASE Release(drain.proxy)
    <3>1. Release(Slot(Hand))
      BY <1>2, <2>2
    <3>2. Calm /\ Covered => Covered'
      BY <1>1, <1>2, <1>3, <1>5, <3>1, ReturnCovered DEF Calm
    <3>3. QED
      BY <1>1, <1>2, <1>4, <1>5, <3>1, <3>2, ReturnNoneHeld DEF HandEmpty
  <2>3. QED
    BY <1>5, <2>1, <2>2
<1>6. CASE DrainNothing \/ DrainGivesUp \/ DrainAborted
  <2>1. /\ UNCHANGED <<vout, surface, pipe, app, feed, pictq, codec>>
        /\ drain'.proxy = NoProxy /\ drain.proxy = NoProxy
    BY <1>1, <1>6 DEF DrainNothing, DrainGivesUp, DrainAborted, DrainGoto, Drains, HandEmpty
  <2>2. QED
    BY <1>5, <2>1
<1>7. CASE DrainDrops \/ (DrainFirst /\ q.abort)
  <2>1. /\ UNCHANGED <<vout, surface, pipe, app, feed, pictq>>
        /\ drain'.proxy = NoProxy /\ Release(drain.proxy)
    BY <1>1, <1>7 DEF DrainDrops, DrainFirst, DrainGoto, Drains
  <2>2. QED
    BY <1>5, <2>1
<1>8. CASE DrainFirst /\ ~q.abort
  <2>1. /\ UNCHANGED <<vout, surface, pipe, app, feed, pictq, codec>>
        /\ drain'.proxy = drain.proxy
        /\ drain'.pc = IF drain.proxy = NoProxy THEN "top" ELSE "queue"
    BY <1>1, <1>8 DEF DrainFirst, DrainGoto, Drains
  <2>2. \A k \in Int : Slot(k)' = Slot(k)
    BY <1>2, <1>3, <2>1
  <2>3. Covered => Covered'
    BY <1>1, <2>1, <2>2, StaysCovered DEF SameLife
  <2>4. QED
    BY <1>1, <1>4, <2>1, <2>3 DEF NoneHeld, HandEmpty
<1>9. CASE DrainQueues
  <2>1. PICK m \in Int : m = Len(pictq.next) + 1
    BY <1>1 DEF Types, PictType, PictQs
  <2>2. /\ UNCHANGED <<vout, surface, pipe, app, feed, codec>> /\ drain'.proxy = NoProxy
    BY <1>1, <1>9 DEF DrainQueues, DrainGoto, Drains
  <2>3. /\ m # Hand /\ Slot(m)' = drain.proxy /\ Slot(m) = NoProxy
        /\ \A k \in Int : k # Hand /\ k # m => Slot(k)' = Slot(k)
    BY <1>1, <1>9, <2>1, QueuedSlots
  <2>4. ASSUME NEW k \in Int, Current(Slot(k))
        PROVE  \E l \in Int : Slot(l)' = Slot(k)
    <3>1. CASE k = Hand
      BY <1>2, <2>3, <3>1
    <3>2. CASE k = m
      BY <2>3, <2>4, <3>2 DEF Current, Live
    <3>3. CASE k # Hand /\ k # m
      BY <2>3, <3>3
    <3>4. QED
      BY <3>1, <3>2, <3>3
  <2>5. Covered => Covered'
    BY <1>1, <2>2, <2>4, StaysCovered DEF SameLife
  <2>6. QED
    BY <1>1, <1>4, <2>2, <2>5 DEF NoneHeld, HandEmpty
<1>10. CASE DrainEnds
  <2>1. /\ UNCHANGED <<vout, surface, pipe, app, feed>> /\ drain' = [drain EXCEPT !.pc = "end"]
        /\ codec'.held = {} /\ codec'.java = codec.java
    BY <1>1, <1>10 DEF DrainEnds, Codecs
  <2>2. QED
    BY <1>1, <1>4, <2>1 DEF NoneHeld, HandEmpty, Drains, Covered
<1>11. QED
  BY <1>6, <1>7, <1>8, <1>9, <1>10, FrameHeld DEF DrainStep

(***************************************************************************)
(* The renderer: the picture shown so far is given back, or the one that   *)
(* is displayed.                                                           *)
(***************************************************************************)
LEMMA RenderHeld ==
  ASSUME IInv, Held, RenderStep, Types'
  PROVE  Held'
<1>1. /\ Types /\ Windows /\ HandEmpty /\ NoneHeld /\ (Calm => Covered)
      /\ UNCHANGED <<drain, vout, surface, pipe, app, feed>> /\ Hand = -1
  BY DEF IInv, Held, RenderStep, RenderNext, Display, Hand
<1>2. ASSUME codec'.java = codec.java, NoneHeld', Calm /\ Covered => Covered'
      PROVE  Held'
  BY <1>1, <1>2 DEF Held, Windows, HandEmpty, Calm
<1>3. CASE RenderNext
  <2>1. /\ Slot(Hand)' = Slot(Hand)
        /\ \A k \in Int : k >= 0 => Slot(k)' = Slot(k + 1)
        /\ IF pictq.shown = <<>> THEN UNCHANGED <<codec, misrelease>> /\ Slot(0) = NoProxy
           ELSE Release(Slot(0))
    BY <1>1, <1>3, NextSlots
  <2>2. ASSUME NEW k \in Int, k # 0, Current(Slot(k))
        PROVE  \E l \in Int : Slot(l)' = Slot(k)
    <3>1. CASE k = Hand
      BY <1>1, <2>1, <3>1
    <3>2. CASE k >= 1
      <4>1. PICK l \in Int : l >= 0 /\ k = l + 1
        <5>1. k - 1 \in Int /\ k - 1 >= 0 /\ k = (k - 1) + 1
          BY <3>2
        <5>2. QED
          BY <5>1
      <4>2. Slot(l)' = Slot(k)
        BY <2>1, <4>1
      <4>3. QED
        BY <4>2
    <3>3. CASE k < Hand
      BY <1>1, <2>2, <3>3, Slots DEF Types, Current, Live
    <3>4. QED
      BY <1>1, <2>2, <3>1, <3>2, <3>3
  <2>3. CASE pictq.shown = <<>>
    <3>1. UNCHANGED codec /\ Slot(0) = NoProxy
      BY <2>1, <2>3
    <3>2. \A k \in Int : Current(Slot(k)) => \E l \in Int : Slot(l)' = Slot(k)
      BY <2>2, <3>1 DEF Current, Live
    <3>3. Covered => Covered'
      BY <1>1, <3>1, <3>2, StaysCovered DEF SameLife
    <3>4. QED
      BY <1>1, <1>2, <3>1, <3>3 DEF NoneHeld
  <2>4. CASE pictq.shown # <<>>
    <3>1. Release(Slot(0))
      BY <2>1, <2>4
    <3>2. Calm /\ Covered => Covered'
      BY <1>1, <2>2, <3>1, ReturnCovered DEF Calm
    <3>3. QED
      BY <1>1, <1>2, <3>1, <3>2, ReturnNoneHeld
  <2>5. QED
    BY <2>3, <2>4
<1>4. CASE Display
  <2>1. CASE vout.window = NoSurface
    <3>1. UNCHANGED <<codec, pictq>>
      BY <1>4, <2>1 DEF Display
    <3>2. \A k \in Int : Slot(k)' = Slot(k)
      BY <1>1, <3>1, Stays
    <3>3. Covered => Covered'
      BY <1>1, <3>1, <3>2, StaysCovered DEF SameLife
    <3>4. QED
      BY <1>1, <1>2, <3>1, <3>3 DEF NoneHeld
  <2>2. CASE vout.window # NoSurface
    <3>1. /\ Release(Slot(0)) /\ \A k \in Int : k # 0 => Slot(k)' = Slot(k)
      BY <1>1, <1>4, <2>2, DisplaySlots
    <3>2. Calm /\ Covered => Covered'
      BY <1>1, <3>1, ReturnCovered DEF Calm
    <3>3. QED
      BY <1>1, <1>2, <3>1, <3>2, ReturnNoneHeld
  <2>3. QED
    BY <2>1, <2>2
<1>5. QED
  BY <1>3, <1>4 DEF RenderStep

-----------------------------------------------------------------------------
(***************************************************************************)
(* The types and what is known of the buffers hold in every state.         *)
(***************************************************************************)
LEMMA Safe == Spec => []IInv
<1>1. Init => IInv
  BY InitTypes, InitBuffers DEF IInv
<1>2. IInv /\ [Next]_vars => IInv'
  <2>1. SUFFICES ASSUME IInv, [Next]_vars
                 PROVE  IInv'
    OBVIOUS
  <2>2. Types'
    BY <2>1, TypesKept DEF IInv
  <2>3. CASE FeedStep
    BY <2>1, <2>2, <2>3, FeedBuffers DEF IInv
  <2>4. CASE DrainStep \/ DrainGivesUp
    BY <2>1, <2>2, <2>4, DrainBuffers DEF IInv
  <2>5. CASE RenderStep
    BY <2>1, <2>2, <2>5, RenderBuffers DEF IInv
  <2>6. CASE \/ \E s \in Surfaces \cup {NoSurface} : SetWindow(s)
             \/ SetSurface \/ SeekRequests \/ SeekMarks \/ Abort
    BY <2>1, <2>2, <2>6, OutsideTypes, OutsideBuffers DEF IInv
  <2>7. CASE UNCHANGED vars
    BY <2>1, <2>2, <2>7, OutsideBuffers DEF IInv, vars
  <2>8. QED
    BY <2>1, <2>3, <2>4, <2>5, <2>6, <2>7 DEF Next
<1>3. QED
  BY <1>1, <1>2, PTL DEF Spec

(***************************************************************************)
(* Type correctness of the decoder, with the size of the picture queue.    *)
(***************************************************************************)
THEOREM TypeCorrect == Spec => []TypeOK
<1>1. IInv => TypeOK
  <2>1. SUFFICES ASSUME Types
                 PROVE  TypeOK
    BY DEF IInv
  <2>2. codec \in [java : BOOLEAN, started : BOOLEAN, gen : Nat, serial : Nat,
                   held : SUBSET Outputs, load : Nat, fake : 0..FakeSize]
    BY <2>1 DEF Types, CodecType, Codecs
  <2>3. /\ drain.pc \in {"top", "first", "queue", "join", "end"}
        /\ drain.proxy \in Proxies \cup {NoProxy}
    BY <2>1 DEF Types, DrainType, Drains
  <2>4. \A f \in {pictq.next, pictq.shown} : f \in Seq(Pictures)
    BY <2>1 DEF Types, PictType, PictQs
  <2>5. Len(pictq.next) + Len(pictq.shown) <= RingSize /\ Len(pictq.shown) <= 1
    BY <2>1 DEF Types, PictType
  <2>6. /\ request \in [flush : BOOLEAN, first : BOOLEAN, need : BOOLEAN, recreate : BOOLEAN]
        /\ {surface, pipe, vout.window} \subseteq Surfaces \cup {NoSurface}
        /\ vout.attached \in BOOLEAN
        /\ abr \in {"none", "signal", "wait", "got"}
        /\ q \in [serial : Nat, marker : BOOLEAN, abort : BOOLEAN]
    BY <2>1 DEF Types, FlagsType
  <2>7. QED
    BY <2>2, <2>3, <2>4, <2>5, <2>6 DEF TypeOK
<1>2. QED
  BY <1>1, Safe, PTL

(***************************************************************************)
(* releaseOutputBuffer is called only for a buffer that the codec gave     *)
(* away in its present life and has not got back, whatever seeks,          *)
(* surfaces, failures and switches come between the threads.               *)
(***************************************************************************)
THEOREM ReleasedOnce == Spec => []ReleasedByOwner
<1>1. IInv => ReleasedByOwner
  BY DEF IInv, Buffers, ReleasedByOwner
<1>2. QED
  BY <1>1, Safe, PTL

(***************************************************************************)
(* Each buffer the codec gave away is covered in calm times.               *)
(***************************************************************************)
LEMMA AlwaysHeld == Spec => []Held
<1>1. Init => Held
  BY InitHeld
<1>2. IInv /\ IInv' /\ Held /\ [Next]_vars => Held'
  <2>1. SUFFICES ASSUME IInv, IInv', Held, [Next]_vars
                 PROVE  Held'
    OBVIOUS
  <2>2. CASE FeedStep
    BY <2>1, <2>2, FeedHeld
  <2>3. CASE DrainStep \/ DrainGivesUp
    BY <2>1, <2>3, DrainHeld
  <2>4. CASE RenderStep
    BY <2>1, <2>4, RenderHeld DEF IInv
  <2>5. ASSUME NEW s \in Surfaces \cup {NoSurface}, SetWindow(s)
        PROVE  Held'
    BY <2>1, <2>5, WindowHeld
  <2>6. CASE SetSurface
    BY <2>1, <2>6, SurfaceHeld
  <2>7. CASE SeekRequests \/ SeekMarks \/ Abort \/ UNCHANGED vars
    <3>1. UNCHANGED <<codec, surface, feed, drain, pictq, vout, pipe, app>>
      BY <2>7 DEF SeekRequests, SeekMarks, Abort, vars
    <3>2. \A k \in Int : Slot(k)' = Slot(k)
      BY <3>1, Stays
    <3>3. Calm' => Covered'
      BY <2>1, <3>1, <3>2, StaysCovered DEF Held, Calm, IInv, SameLife
    <3>4. QED
      BY <2>1, <3>1, <3>3 DEF Held, Windows, HandEmpty, NoneHeld
  <2>8. QED
    BY <2>1, <2>2, <2>3, <2>4, <2>5, <2>6, <2>7 DEF Next
<1>3. QED
  BY <1>1, <1>2, Safe, PTL DEF Spec

(***************************************************************************)
(* As long as the output knows the codec, which works on the surface of    *)
(* the pipeline, each buffer the codec gave away is in exactly one proxy   *)
(* that brings it back: none is lost by a seek, a surface or a dropped     *)
(* picture, and none is given back twice.                                  *)
(***************************************************************************)
THEOREM NothingLost == Spec => []NoBufferLost
<1>1. IInv /\ Held => NoBufferLost
  <2>1. SUFFICES ASSUME IInv, Held, vout.attached, surface = pipe, app.pc = "idle", ~Locked,
                        NEW i \in codec.held
                 PROVE  Cardinality({h \in Holders : HoldsBuffer(h, i)}) = 1
    BY DEF NoBufferLost
  <2> DEFINE Num(h) == IF h[1] = "drain" THEN Hand ELSE IF h[1] = "shown" THEN 0 ELSE h[2]
             S == {h \in Holders : HoldsBuffer(h, i)}
  <2>2. Types /\ Buffers /\ Hand = -1 /\ i \in Outputs /\ Len(pictq.next) \in Nat
    BY <2>1 DEF IInv, Types, CodecType, Codecs, Hand, PictType, PictQs
  <2>3. PICK k \in Int : Covers(k, i)
    BY <2>1 DEF Held, Calm, Covered, Locked
  <2>4. \A l \in Int : Covers(l, i) => l = k
    <3>1. \A l \in Int : Covers(l, i) => Current(Slot(l)) /\ Slot(l).idx = i
      BY <2>2 DEF Covers, Current, Live
    <3>2. QED
      BY <2>2, <2>3, <3>1 DEF Buffers, Apart
  <2>5. /\ DOMAIN pictq.next = 1..Len(pictq.next) /\ DOMAIN pictq.shown \subseteq {1}
        /\ DOMAIN pictq.shown = {1} <=> pictq.shown # <<>>
    <3>1. /\ pictq.next \in Seq(Pictures) /\ pictq.shown \in Seq(Pictures)
          /\ Len(pictq.shown) <= 1
      BY <2>2 DEF Types, PictType, PictQs
    <3>2. DOMAIN pictq.shown = 1..Len(pictq.shown) /\ Len(pictq.shown) \in Nat
      BY <3>1
    <3>3. pictq.shown # <<>> <=> Len(pictq.shown) = 1
      <4>1. pictq.shown # <<>> => 1 \in 1..Len(pictq.shown)
        BY <3>1
      <4>2. Len(<<>>) = 0
        OBVIOUS
      <4>3. Len(pictq.shown) = 1 => Len(pictq.shown) # 0
        OBVIOUS
      <4>4. Len(pictq.shown) = 1 => pictq.shown # <<>>
        BY <4>2, <4>3, Zenon
      <4> DEFINE n == Len(pictq.shown)
      <4>5. n \in Nat /\ n <= 1 /\ (pictq.shown # <<>> => 1 \in 1..n) /\ (n = 1 => pictq.shown # <<>>)
        BY <3>1, <3>2, <4>1, <4>4
      <4> HIDE DEF n
      <4>6. pictq.shown # <<>> <=> n = 1
        BY <4>5
      <4>7. QED
        BY <4>6 DEF n
    <3>4. QED
      BY <3>1, <3>2, <3>3
  <2>6. ASSUME NEW h \in Holders
        PROVE  Num(h) \in Int /\ (HoldsBuffer(h, i) <=> Covers(Num(h), i))
    <3>1. CASE h = <<"drain", 1>>
      BY <2>2, <3>1 DEF HoldsBuffer, ProxyOf, Covers, Slot
    <3>2. ASSUME NEW j \in DOMAIN pictq.next, h = <<"next", j>>
          PROVE  Num(h) \in Int /\ (HoldsBuffer(h, i) <=> Covers(Num(h), i))
      <4>1. Num(h) = j /\ j \in 1..Len(pictq.next) /\ j \in Int /\ j # 0 /\ j # Hand
        BY <2>2, <2>5, <3>2
      <4>2. ProxyOf(h) = Slot(j)
        BY <3>2, <4>1 DEF ProxyOf, Slot
      <4>3. QED
        BY <4>1, <4>2 DEF HoldsBuffer, Covers
    <3>3. ASSUME NEW j \in DOMAIN pictq.shown, h = <<"shown", j>>
          PROVE  Num(h) \in Int /\ (HoldsBuffer(h, i) <=> Covers(Num(h), i))
      <4>1. j = 1 /\ pictq.shown # <<>> /\ Num(h) = 0
        BY <2>5, <3>3
      <4>2. ProxyOf(h) = Slot(0)
        BY <2>2, <3>3, <4>1 DEF ProxyOf, Slot
      <4>3. QED
        BY <4>1, <4>2 DEF HoldsBuffer, Covers
    <3>4. QED
      BY <3>1, <3>2, <3>3 DEF Holders
  <2>7. ASSUME NEW g \in Holders, NEW h \in Holders, Num(g) = Num(h)
        PROVE  g = h
    BY <2>2, <2>5, <2>7 DEF Holders
  <2>8. \E h \in Holders : Num(h) = k
    <3>1. Slot(k) # NoProxy
      BY <2>3 DEF Covers
    <3>2. CASE k = Hand
      <4>1. <<"drain", 1>> \in Holders /\ Num(<<"drain", 1>>) = k
        BY <3>2 DEF Holders
      <4>2. QED
        BY <4>1
    <3>3. CASE k = 0 /\ pictq.shown # <<>>
      <4>1. <<"shown", 1>> \in Holders /\ Num(<<"shown", 1>>) = k
        BY <2>5, <3>3 DEF Holders
      <4>2. QED
        BY <4>1
    <3>4. CASE k \in 1..Len(pictq.next)
      <4>1. <<"next", k>> \in Holders /\ Num(<<"next", k>>) = k
        BY <2>5, <3>4 DEF Holders
      <4>2. QED
        BY <4>1
    <3>5. QED
      BY <3>1, <3>2, <3>3, <3>4 DEF Slot
  <2> HIDE DEF Num
  <2>9. PICK h \in Holders : S = {h}
    BY <2>3, <2>4, <2>6, <2>7, <2>8
  <2>10. QED
    BY <2>9, FS_Singleton
<1>2. QED
  BY <1>1, Safe, AlwaysHeld, PTL
=============================================================================
