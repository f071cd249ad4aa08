-------------------------- MODULE LifecycleProofs ---------------------------
(***************************************************************************)
(* Proofs about Lifecycle: no thread uses a player that is freed           *)
(* (PlayersUsed), a stream is closed by one thread (ClosedByOne), and      *)
(* nothing is read for a player that the object has let go of              *)
(* (ReleasedIsQuiet).                                                      *)
(*                                                                         *)
(* What a thread has still to do is a stack.  The proofs number its steps  *)
(* from the bottom, so that a step keeps its number while others are put   *)
(* in front of it.                                                         *)
(***************************************************************************)
EXTENDS Lifecycle, CommonLemmas, SequenceTheorems, FiniteSetTheorems, TLAPS

Deep(s, j) == s[Len(s) + 1 - j]

\* A thread holds a player at a depth when it gives a reference up below;
\* it ends a player when it destroys it below.
Held(s, j, m) == \E k \in 1 .. (j - 1) : Deep(s, k) = Step("dec", m)
Dying(s, j, m) == \E k \in 1 .. j : Deep(s, k) = Step("destroy", m)

\* The steps of calls and of the message loop, those that shut a player down,
\* those of the message loop, and those that only the application's thread takes.
CallOps == {"prepare", "stopCall", "takeWeak", "unweak", "unset", "enter", "get", "post"}
EndOps == {"stop", "close", "join"}
LoopOps == {"enter", "get", "post", "ret"}
UiOps == {"prepare", "takeWeak", "setup", "unset", "unweak", "clear"}
Ops == CallOps \cup EndOps \cup {"dec", "destroy", "ret", "setup", "clear"}
Steps == [op : Ops, mp : Players \cup {0}]

PlayerRecords ==
  [state : {"none", "live", "freed"}, refs : Nat, weak : Players \cup {0},
   opaque : Players \cup {0}, prepared : BOOLEAN, is : BOOLEAN, stop : BOOLEAN,
   aborted : BOOLEAN, read : {"none", "run", "end"}, msgs : Int, posted : Int,
   loopRef : Players \cup {0}]

Typed ==
  /\ todo \in [Threads -> Seq(Steps)]
  /\ player \in [Players -> PlayerRecords]
  /\ cur \in Players \cup {0}
  /\ handles \subseteq Players

(***************************************************************************)
(* The invariant.  Every step on a player is on one that the thread holds, *)
(* or on one that it ends.                                                 *)
(***************************************************************************)
OkAt(t, s, j) ==
  /\ Deep(s, j).op \notin {"clear", "setup"} => Deep(s, j).mp # 0
  /\ Deep(s, j).op \in CallOps => Held(s, j, Deep(s, j).mp)
  /\ Deep(s, j).op \in EndOps =>
       \/ Held(s, j, Deep(s, j).mp) /\ (Deep(s, j).op = "stop" \/ t = Ui)
       \/ Dying(s, j, Deep(s, j).mp)
  /\ Deep(s, j).op \in LoopOps => t = Deep(s, j).mp
  /\ Deep(s, j).op = "clear" => Deep(s, j).mp = 0
  /\ Deep(s, j).op \in UiOps => t = Ui
StackOk(t, s) == \A j \in 1 .. Len(s) : OkAt(t, s, j)
StacksOk == \A t \in Threads : StackOk(t, todo[t])

\* The references that threads own, as places in their stacks, and all of them:
\* the object has one more of the player it refers to.
Places(s, m) == {j \in 1 .. Len(s) : Deep(s, j) = Step("dec", m)}
Owned(f, m) == {p \in Threads \X Nat : p[2] \in Places(f[p[1]], m)}
Counted ==
  \A m \in Players :
    /\ IsFiniteSet(Owned(todo, m))
    /\ player[m].refs = Cardinality(Owned(todo, m)) + (IF cur = m THEN 1 ELSE 0)

\* A player is destroyed once, when it is live and nobody refers to it.
Ends ==
  /\ \A t \in Threads : \A j \in 1 .. Len(todo[t]) : \A m \in Players :
       Deep(todo[t], j) = Step("destroy", m) =>
         player[m].refs = 0 /\ player[m].state = "live"
  /\ \A t, u \in Threads : \A j \in 1 .. Len(todo[t]), k \in 1 .. Len(todo[u]) :
       \A m \in Players :
         Deep(todo[t], j) = Step("destroy", m) /\ Deep(todo[u], k) = Step("destroy", m)
           => t = u /\ j = k

Lives ==
  \A m \in Players :
    /\ player[m].refs > 0 => player[m].state = "live"
    /\ player[m].state = "none" => ~player[m].prepared /\ player[m].refs = 0
    /\ ~player[m].prepared => todo[m] = <<>>

\* What the application's thread has to do: a call of prepare or reset goes on
\* with the object's player, and a reset that sets up a new player has let go of
\* the old one.
Prepares(s, c) == s = <<Step("prepare", c), Step("dec", c)>>
Resets(s, c) == s = <<Step("takeWeak", c), Step("dec", c), Step("clear", 0)>>
Above(s, j, op) == \E k \in (j + 1) .. Len(s) : Deep(s, k).op = op
UiStack(s, c) ==
  \A j \in 1 .. Len(s) :
    /\ Deep(s, j).op = "prepare" => c # 0 /\ Prepares(s, c)
    /\ Deep(s, j).op = "takeWeak" => c # 0 /\ Resets(s, c)
    /\ Deep(s, j).op = "setup" =>
         /\ c = 0 \/ Above(s, j, "unset")
         /\ \A k \in 1 .. Len(s) : Deep(s, k).op = "setup" => k = j
    /\ Deep(s, j).op = "unweak" => \E k \in 1 .. j : Deep(s, k).op = "unset"
Fresh == \E m \in Players : player[m].state = "none"
UiSteps ==
  /\ UiStack(todo[Ui], cur)
  /\ \A j \in 1 .. Len(todo[Ui]) : Deep(todo[Ui], j).op \in {"takeWeak", "setup"} => Fresh

\* Until it lets go of its player, the object's global reference is there, also
\* for the callbacks, and a reset hands one on to the next player; what is read
\* is read for the object's player, and the thread that lets go of it closes the
\* stream first.
LetsGo(s) == \E j \in 1 .. Len(s) : Deep(s, j).op = "unset"
Whole ==
  cur # 0 /\ ~LetsGo(todo[Ui]) =>
    player[cur].weak = cur /\ player[cur].opaque = cur /\ cur \in handles
HandsOn(s) == \A j \in 1 .. Len(s) : Deep(s, j).op = "setup" => Deep(s, j).mp # 0
ClosesAbove(s, m) ==
  \A j \in 1 .. Len(s) : Deep(s, j).op \in {"unset", "unweak"} =>
    \E k \in (j + 1) .. Len(s) : Deep(s, k) \in {Step("close", m), Step("join", m)}
Quiet ==
  \A m \in Players : player[m].read = "run" =>
    /\ cur = m /\ m \in handles /\ player[m].opaque = m
    /\ player[m].is /\ player[m].prepared
    /\ ClosesAbove(todo[Ui], m)

RefsInv == Typed /\ StacksOk /\ Counted /\ Ends /\ Lives /\ UiSteps
UseInv == Whole /\ HandsOn(todo[Ui]) /\ Quiet
LifeInv == RefsInv /\ UseInv

-----------------------------------------------------------------------------
(***************************************************************************)
(* Stacks.                                                                 *)
(***************************************************************************)

(***************************************************************************)
(* What is left of a stack s, and the steps p put in front of it: q.       *)
(***************************************************************************)
Fronted(s, p, q) ==
  /\ Len(s) \in Nat /\ Len(s) >= 1 /\ Len(p) \in Nat
  /\ Len(q) = Len(p) + Len(s) - 1
  /\ Deep(s, Len(s)) = Head(s)
  /\ \A j \in 1 .. (Len(s) - 1) : Deep(q, j) = Deep(s, j)
  /\ \A j \in Len(s) .. Len(q) : Deep(q, j) = p[Len(q) + 1 - j]
  /\ \A j \in 1 .. Len(q) : j < Len(s) => j \in 1 .. (Len(s) - 1)
  /\ \A j \in 1 .. Len(q) : j >= Len(s) => /\ j \in Len(s) .. Len(q)
                                           /\ Len(q) + 1 - j \in 1 .. Len(p)

LEMMA Pushed ==
  ASSUME NEW S, NEW s \in Seq(S), s # <<>>, NEW p \in Seq(S),
         NEW q, q = p \o Tail(s)
  PROVE  q \in Seq(S) /\ Fronted(s, p, q)
<1>1. /\ Len(s) \in Nat /\ Len(s) >= 1 /\ Len(p) \in Nat
      /\ Tail(s) \in Seq(S) /\ Len(Tail(s)) = Len(s) - 1
      /\ Head(s) = s[1]
  OBVIOUS
<1>2. q \in Seq(S) /\ Len(q) = Len(p) + Len(s) - 1
  BY <1>1
<1>3. ASSUME NEW j \in 1 .. (Len(s) - 1)
      PROVE  Deep(q, j) = Deep(s, j)
  <2>1. Len(q) + 1 - j > Len(p) /\ Len(q) + 1 - j <= Len(q)
    BY <1>1, <1>2
  <2>2. q[Len(q) + 1 - j] = Tail(s)[Len(q) + 1 - j - Len(p)]
    BY <1>1, <1>2, <2>1
  <2>3. Len(q) + 1 - j - Len(p) = Len(s) - j /\ Len(s) - j \in 1 .. (Len(s) - 1)
    BY <1>1, <1>2
  <2>4. Tail(s)[Len(s) - j] = s[Len(s) - j + 1]
    BY <1>1, <2>3
  <2>5. QED
    BY <1>1, <2>2, <2>3, <2>4 DEF Deep
<1>4. ASSUME NEW j \in Len(s) .. Len(q)
      PROVE  Deep(q, j) = p[Len(q) + 1 - j]
  <2>1. Len(q) + 1 - j \in 1 .. Len(p)
    BY <1>1, <1>2
  <2>2. QED
    BY <1>1, <1>2, <2>1 DEF Deep
<1>5. Deep(s, Len(s)) = Head(s)
  BY <1>1 DEF Deep
<1>6. /\ \A j \in 1 .. Len(q) : j < Len(s) => j \in 1 .. (Len(s) - 1)
      /\ \A j \in 1 .. Len(q) : j >= Len(s) => /\ j \in Len(s) .. Len(q)
                                               /\ Len(q) + 1 - j \in 1 .. Len(p)
  BY <1>1, <1>2
<1>7. QED
  BY <1>1, <1>2, <1>3, <1>4, <1>5, <1>6 DEF Fronted

(***************************************************************************)
(* The references in a stack: unless the step on top or a step put in      *)
(* front is one, they stay the same;                                       *)
(***************************************************************************)
LEMMA PlacesStay ==
  ASSUME NEW s, NEW p, NEW q, Fronted(s, p, q), NEW m, Head(s) # Step("dec", m),
         \A i \in 1 .. Len(p) : p[i] # Step("dec", m)
  PROVE  Places(q, m) = Places(s, m)
<1>0. /\ Len(s) \in Nat /\ Len(s) >= 1 /\ Len(p) \in Nat
      /\ Len(q) = Len(p) + Len(s) - 1
      /\ Deep(s, Len(s)) = Head(s)
      /\ \A j \in 1 .. (Len(s) - 1) : Deep(q, j) = Deep(s, j)
      /\ \A j \in Len(s) .. Len(q) : Deep(q, j) = p[Len(q) + 1 - j]
      /\ \A j \in 1 .. Len(q) : j < Len(s) => j \in 1 .. (Len(s) - 1)
      /\ \A j \in 1 .. Len(q) : j >= Len(s) => /\ j \in Len(s) .. Len(q)
                                               /\ Len(q) + 1 - j \in 1 .. Len(p)
  BY DEF Fronted
<1>1. ASSUME NEW j \in Places(q, m)
      PROVE  j \in Places(s, m)
  <2>1. j \in 1 .. Len(q) /\ Deep(q, j) = Step("dec", m)
    BY DEF Places
  <2>2. j < Len(s)
    BY <1>0, <2>1
  <2>3. QED
    BY <1>0, <2>1, <2>2 DEF Places
<1>2. ASSUME NEW j \in Places(s, m)
      PROVE  j \in Places(q, m)
  <2>1. j \in 1 .. Len(s) /\ Deep(s, j) = Step("dec", m)
    BY DEF Places
  <2>2. j # Len(s)
    BY <1>0, <2>1
  <2>3. j \in 1 .. (Len(s) - 1) /\ j \in 1 .. Len(q)
    BY <1>0, <2>1, <2>2
  <2>4. QED
    BY <1>0, <2>1, <2>3 DEF Places
<1>3. QED
  BY <1>1, <1>2

(***************************************************************************)
(* one that is put in front is one more;                                   *)
(***************************************************************************)
LEMMA PlacesMore ==
  ASSUME NEW s, NEW p, NEW q, Fronted(s, p, q), NEW m, Head(s) # Step("dec", m),
         NEW i \in 1 .. Len(p), p[i] = Step("dec", m),
         \A k \in 1 .. Len(p) : p[k] = Step("dec", m) => k = i
  PROVE  /\ Places(q, m) = Places(s, m) \cup {Len(q) + 1 - i}
         /\ Len(q) + 1 - i \notin Places(s, m)
         /\ Len(q) + 1 - i \in Nat
<1>0. /\ Len(s) \in Nat /\ Len(s) >= 1 /\ Len(p) \in Nat
      /\ Len(q) = Len(p) + Len(s) - 1
      /\ Deep(s, Len(s)) = Head(s)
      /\ \A j \in 1 .. (Len(s) - 1) : Deep(q, j) = Deep(s, j)
      /\ \A j \in Len(s) .. Len(q) : Deep(q, j) = p[Len(q) + 1 - j]
      /\ \A j \in 1 .. Len(q) : j < Len(s) => j \in 1 .. (Len(s) - 1)
      /\ \A j \in 1 .. Len(q) : j >= Len(s) => /\ j \in Len(s) .. Len(q)
                                               /\ Len(q) + 1 - j \in 1 .. Len(p)
  BY DEF Fronted
<1>1. ASSUME NEW j \in Places(q, m)
      PROVE  j \in Places(s, m) \cup {Len(q) + 1 - i}
  <2>1. j \in 1 .. Len(q) /\ Deep(q, j) = Step("dec", m)
    BY DEF Places
  <2>2. CASE j < Len(s)
    BY <1>0, <2>1, <2>2 DEF Places
  <2>3. CASE j >= Len(s)
    <3>1. Len(q) + 1 - j \in 1 .. Len(p) /\ p[Len(q) + 1 - j] = Step("dec", m)
      BY <1>0, <2>1, <2>3
    <3>2. Len(q) + 1 - j = i
      BY <3>1
    <3>3. QED
      BY <1>0, <2>1, <3>2
  <2>4. QED
    BY <1>0, <2>1, <2>2, <2>3
<1>2. ASSUME NEW j \in Places(s, m)
      PROVE  j \in Places(q, m) /\ j < Len(s)
  <2>1. j \in 1 .. Len(s) /\ Deep(s, j) = Step("dec", m)
    BY DEF Places
  <2>2. j # Len(s)
    BY <1>0, <2>1
  <2>3. j \in 1 .. (Len(s) - 1) /\ j \in 1 .. Len(q)
    BY <1>0, <2>1, <2>2
  <2>4. QED
    BY <1>0, <2>1, <2>3 DEF Places
<1>3. /\ Len(q) + 1 - i \in Len(s) .. Len(q) /\ Len(q) + 1 - i \in 1 .. Len(q)
      /\ Len(q) + 1 - (Len(q) + 1 - i) = i
  BY <1>0
<1>4. Deep(q, Len(q) + 1 - i) = Step("dec", m)
  BY <1>0, <1>3
<1>5. Len(q) + 1 - i \in Places(q, m)
  BY <1>3, <1>4 DEF Places
<1>6. ~(Len(q) + 1 - i < Len(s))
  BY <1>0
<1>7. QED
  BY <1>0, <1>1, <1>2, <1>3, <1>5, <1>6

(***************************************************************************)
(* one on top that is done is one less.                                    *)
(***************************************************************************)
LEMMA PlacesLess ==
  ASSUME NEW s, NEW p, NEW q, Fronted(s, p, q), NEW m, Head(s) = Step("dec", m),
         \A i \in 1 .. Len(p) : p[i] # Step("dec", m)
  PROVE  /\ Places(q, m) = Places(s, m) \ {Len(s)}
         /\ Len(s) \in Places(s, m)
         /\ Len(s) \in Nat
<1>0. /\ Len(s) \in Nat /\ Len(s) >= 1 /\ Len(p) \in Nat
      /\ Len(q) = Len(p) + Len(s) - 1
      /\ Deep(s, Len(s)) = Head(s)
      /\ \A j \in 1 .. (Len(s) - 1) : Deep(q, j) = Deep(s, j)
      /\ \A j \in Len(s) .. Len(q) : Deep(q, j) = p[Len(q) + 1 - j]
      /\ \A j \in 1 .. Len(q) : j < Len(s) => j \in 1 .. (Len(s) - 1)
      /\ \A j \in 1 .. Len(q) : j >= Len(s) => /\ j \in Len(s) .. Len(q)
                                               /\ Len(q) + 1 - j \in 1 .. Len(p)
  BY DEF Fronted
<1>1. ASSUME NEW j \in Places(q, m)
      PROVE  j \in Places(s, m) \ {Len(s)}
  <2>1. j \in 1 .. Len(q) /\ Deep(q, j) = Step("dec", m)
    BY DEF Places
  <2>2. j < Len(s)
    BY <1>0, <2>1
  <2>3. QED
    BY <1>0, <2>1, <2>2 DEF Places
<1>2. ASSUME NEW j \in Places(s, m) \ {Len(s)}
      PROVE  j \in Places(q, m)
  <2>1. j \in 1 .. Len(s) /\ Deep(s, j) = Step("dec", m)
    BY DEF Places
  <2>3. j \in 1 .. (Len(s) - 1) /\ j \in 1 .. Len(q)
    BY <1>0, <2>1
  <2>4. QED
    BY <1>0, <2>1, <2>3 DEF Places
<1>3. Len(s) \in Places(s, m)
  BY <1>0 DEF Places
<1>4. QED
  BY <1>0, <1>1, <1>2, <1>3

(***************************************************************************)
(* The references of all threads follow those of the one that moves.       *)
(***************************************************************************)
LEMMA OwnedStay ==
  ASSUME NEW f, NEW g, NEW m,
         \A t \in Threads : Places(g[t], m) = Places(f[t], m)
  PROVE  Owned(g, m) = Owned(f, m)
  BY Zenon DEF Owned

LEMMA OwnedMore ==
  ASSUME NEW f, NEW g, NEW m, NEW t \in Threads, NEW j \in Nat,
         \A u \in Threads \ {t} : Places(g[u], m) = Places(f[u], m),
         Places(g[t], m) = Places(f[t], m) \cup {j}, j \notin Places(f[t], m),
         IsFiniteSet(Owned(f, m))
  PROVE  /\ IsFiniteSet(Owned(g, m))
         /\ Cardinality(Owned(g, m)) = Cardinality(Owned(f, m)) + 1
<1>1. Owned(g, m) = Owned(f, m) \cup {<<t, j>>}
  BY DEF Owned
<1>2. <<t, j>> \notin Owned(f, m)
  BY DEF Owned
<1>3. QED
  BY <1>1, <1>2, FS_AddElement

LEMMA OwnedLess ==
  ASSUME NEW f, NEW g, NEW m, NEW t \in Threads, NEW j \in Nat,
         \A u \in Threads \ {t} : Places(g[u], m) = Places(f[u], m),
         Places(g[t], m) = Places(f[t], m) \ {j}, j \in Places(f[t], m),
         IsFiniteSet(Owned(f, m))
  PROVE  /\ IsFiniteSet(Owned(g, m))
         /\ Cardinality(Owned(g, m)) = Cardinality(Owned(f, m)) - 1
<1>1. Owned(g, m) = Owned(f, m) \ {<<t, j>>}
  BY DEF Owned
<1>2. <<t, j>> \in Owned(f, m)
  BY DEF Owned
<1>3. /\ IsFiniteSet(Owned(f, m) \ {<<t, j>>})
      /\ Cardinality(Owned(f, m) \ {<<t, j>>})
           = IF <<t, j>> \in Owned(f, m) THEN Cardinality(Owned(f, m)) - 1
                                         ELSE Cardinality(Owned(f, m))
  BY FS_RemoveElement, Zenon
<1>4. QED
  BY <1>1, <1>2, <1>3

(***************************************************************************)
(* Who has a reference in a stack has a player that counts it.             *)
(***************************************************************************)
LEMMA OwnedPositive ==
  ASSUME NEW f, NEW m, NEW t \in Threads, NEW j \in Places(f[t], m),
         IsFiniteSet(Owned(f, m))
  PROVE  Cardinality(Owned(f, m)) \in Nat /\ Cardinality(Owned(f, m)) >= 1
<1>1. <<t, j>> \in Owned(f, m)
  <2>1. j \in 1 .. Len(f[t])
    BY DEF Places
  <2>2. j \in Nat
    BY <2>1
  <2>3. QED
    BY <2>2 DEF Owned
<1>2. Cardinality(Owned(f, m)) \in Nat /\ Cardinality(Owned(f, m)) # 0
  BY <1>1, FS_CardinalityType, FS_EmptySet
<1>3. QED
  BY <1>2

(***************************************************************************)
(* What a step rests on is below it, and stays there.                      *)
(***************************************************************************)
LEMMA HeldBelow ==
  ASSUME NEW s, NEW p, NEW q, Fronted(s, p, q), NEW m,
         NEW j \in 1 .. Len(q), NEW i \in 1 .. Len(s),
         i = j \/ (i = Len(s) /\ j >= i), Held(s, i, m)
  PROVE  Held(q, j, m)
<1>1. PICK k \in 1 .. (i - 1) : Deep(s, k) = Step("dec", m)
  BY DEF Held
<1>2. Len(s) \in Nat /\ Len(q) \in Int
  BY DEF Fronted
<1>3. k \in 1 .. (Len(s) - 1) /\ k \in 1 .. (j - 1)
  BY <1>2
<1>4. QED
  BY <1>1, <1>3 DEF Held, Fronted

LEMMA DyingBelow ==
  ASSUME NEW s, NEW p, NEW q, Fronted(s, p, q), NEW m, NEW i \in 1 .. Len(s),
         Dying(s, i, m), Head(s).op # "destroy" \/ i < Len(s),
         NEW j \in 1 .. Len(q), j >= i
  PROVE  Dying(q, j, m)
<1>1. PICK k \in 1 .. i : Deep(s, k) = Step("destroy", m)
  BY DEF Dying
<1>2. Len(s) \in Nat /\ Len(q) \in Int /\ Deep(s, Len(s)) = Head(s)
  BY DEF Fronted
<1>3. k # Len(s)
  <2>1. CASE i < Len(s)
    BY <1>2, <2>1
  <2>2. CASE Head(s).op # "destroy"
    BY <1>1, <1>2, <2>2 DEF Step
  <2>3. QED
    BY <2>1, <2>2
<1>4. k \in 1 .. (Len(s) - 1) /\ k \in 1 .. j
  BY <1>2, <1>3
<1>5. QED
  BY <1>1, <1>4 DEF Dying, Fronted

(***************************************************************************)
(* The steps that are left are in order as they were.                      *)
(***************************************************************************)
LEMMA RestOk ==
  ASSUME NEW t, NEW s, NEW p, NEW q, Fronted(s, p, q), StackOk(t, s),
         NEW j \in 1 .. Len(q), j < Len(s)
  PROVE  OkAt(t, q, j)
<1>1. j \in 1 .. Len(s) /\ Deep(q, j) = Deep(s, j) /\ j <= j
  BY DEF Fronted
<1>2. OkAt(t, s, j)
  BY <1>1 DEF StackOk
<1>3. \A m : Held(s, j, m) => Held(q, j, m)
  BY <1>1, HeldBelow
<1>4. \A m : Dying(s, j, m) => Dying(q, j, m)
  BY <1>1, DyingBelow
<1>5. QED
  BY <1>1, <1>2, <1>3, <1>4 DEF OkAt

(***************************************************************************)
(* Steps that follow the one on top on the same player are in order.       *)
(***************************************************************************)
Follows(x, p) ==
  \A i \in 1 .. Len(p) :
    /\ p[i].mp = x.mp
    /\ \/ p[i].op \in {"get", "post"} /\ x.op \in {"enter", "get"}
       \/ p[i].op = "join" /\ x.op = "close"

LEMMA FollowsOk ==
  ASSUME NEW t, NEW s, NEW p, NEW q, Fronted(s, p, q), StackOk(t, s),
         Follows(Head(s), p)
  PROVE  StackOk(t, q)
<1> SUFFICES ASSUME NEW j \in 1 .. Len(q)
             PROVE  OkAt(t, q, j)
  BY DEF StackOk
<1>1. CASE j < Len(s)
  BY <1>1, RestOk
<1>2. CASE ~(j < Len(s))
  <2> DEFINE x == Head(s)
  <2>1. /\ Len(s) \in 1 .. Len(s) /\ x = Deep(s, Len(s)) /\ Len(s) \in Nat
        /\ j >= Len(s)
    BY <1>2 DEF Fronted
  <2>2. PICK i \in 1 .. Len(p) : Deep(q, j) = p[i]
    BY <2>1 DEF Fronted
  <2>3. OkAt(t, s, Len(s))
    BY <2>1 DEF StackOk
  <2>4. Held(s, Len(s), x.mp) => Held(q, j, x.mp)
    BY <2>1, HeldBelow
  <2>5. x.op = "close" /\ Dying(s, Len(s), x.mp) => Dying(q, j, x.mp)
    BY <2>1, DyingBelow
  <2>6. /\ p[i].mp = x.mp
        /\ \/ p[i].op \in {"get", "post"} /\ x.op \in {"enter", "get"}
           \/ p[i].op = "join" /\ x.op = "close"
    BY DEF Follows
  <2> HIDE DEF x
  <2>7. CASE p[i].op \in {"get", "post"} /\ x.op \in {"enter", "get"}
    BY <2>1, <2>2, <2>3, <2>4, <2>6, <2>7 DEF OkAt, CallOps, EndOps, LoopOps, UiOps
  <2>8. CASE p[i].op = "join" /\ x.op = "close"
    BY <2>1, <2>2, <2>3, <2>4, <2>5, <2>6, <2>8 DEF OkAt, CallOps, EndOps, LoopOps, UiOps
  <2>9. QED
    BY <2>6, <2>7, <2>8
<1>3. QED
  BY <1>1, <1>2

(***************************************************************************)
(* Ends is kept when nothing new is to be destroyed and what is to be      *)
(* destroyed stays as it is.                                               *)
(***************************************************************************)
LEMMA EndsKept ==
  ASSUME Ends,
         \A u \in Threads : \A m \in Players : \A j \in 1 .. Len(todo'[u]) :
           Deep(todo'[u], j) = Step("destroy", m) =>
             j \in 1 .. Len(todo[u]) /\ Deep(todo[u], j) = Step("destroy", m),
         \A m \in Players :
           \/ player'[m].refs = player[m].refs /\ player'[m].state = player[m].state
           \/ player[m].refs # 0
           \/ player[m].state # "live"
  PROVE  Ends'
<1>1. ASSUME NEW t \in Threads, NEW j \in 1 .. Len(todo'[t]), NEW m \in Players,
             Deep(todo'[t], j) = Step("destroy", m)
      PROVE  player'[m].refs = 0 /\ player'[m].state = "live"
  <2>1. j \in 1 .. Len(todo[t]) /\ Deep(todo[t], j) = Step("destroy", m)
    BY <1>1
  <2>2. player[m].refs = 0 /\ player[m].state = "live"
    BY <2>1 DEF Ends
  <2>3. QED
    BY <2>2
<1>2. ASSUME NEW t \in Threads, NEW u \in Threads, NEW j \in 1 .. Len(todo'[t]),
             NEW k \in 1 .. Len(todo'[u]), NEW m \in Players,
             Deep(todo'[t], j) = Step("destroy", m),
             Deep(todo'[u], k) = Step("destroy", m)
      PROVE  t = u /\ j = k
  <2>1. /\ j \in 1 .. Len(todo[t]) /\ Deep(todo[t], j) = Step("destroy", m)
        /\ k \in 1 .. Len(todo[u]) /\ Deep(todo[u], k) = Step("destroy", m)
    BY <1>2
  <2>2. QED
    BY <2>1 DEF Ends
<1>3. QED
  BY <1>1, <1>2 DEF Ends

(***************************************************************************)
(* What a step leaves of the stack of the thread that takes it.            *)
(***************************************************************************)
LEMMA Thens ==
  ASSUME Typed, NEW t \in Threads, NEW p \in Seq(Steps), todo[t] # <<>>, Then(t, p)
  PROVE  /\ todo' \in [Threads -> Seq(Steps)]
         /\ todo'[t] = p \o Tail(todo[t])
         /\ todo[t] \in Seq(Steps) /\ todo'[t] \in Seq(Steps)
         /\ Fronted(todo[t], p, todo'[t])
         /\ \A u \in Threads \ {t} : todo'[u] = todo[u]
<1>1. todo[t] \in Seq(Steps) /\ Tail(todo[t]) \in Seq(Steps)
  BY DEF Typed
<1>2. p \o Tail(todo[t]) \in Seq(Steps)
  BY <1>1
<1>3. /\ todo' \in [Threads -> Seq(Steps)]
      /\ todo'[t] = p \o Tail(todo[t])
      /\ \A u \in Threads \ {t} : todo'[u] = todo[u]
  BY <1>2 DEF Typed, Then
<1>4. Fronted(todo[t], p, todo'[t])
  BY <1>1, <1>3, Pushed, Zenon
<1>5. QED
  BY <1>1, <1>2, <1>3, <1>4

\* A step that neither is nor adds the end of a player:
LEMMA NoNewEnds ==
  ASSUME Typed, NEW t \in Threads, NEW p \in Seq(Steps), todo[t] # <<>>, Then(t, p),
         \A i \in 1 .. Len(p) : p[i].op # "destroy"
  PROVE  \A u \in Threads : \A m \in Players : \A j \in 1 .. Len(todo'[u]) :
           Deep(todo'[u], j) = Step("destroy", m) =>
             j \in 1 .. Len(todo[u]) /\ Deep(todo[u], j) = Step("destroy", m)
<1> SUFFICES ASSUME NEW u \in Threads, NEW m \in Players, NEW j \in 1 .. Len(todo'[u]),
                    Deep(todo'[u], j) = Step("destroy", m)
             PROVE  j \in 1 .. Len(todo[u]) /\ Deep(todo[u], j) = Step("destroy", m)
  OBVIOUS
<1>1. CASE u # t
  BY <1>1, Thens
<1>2. CASE u = t
  <2>1. Fronted(todo[t], p, todo'[t])
    BY Thens, Zenon
  <2>2. CASE j < Len(todo[t])
    BY <1>2, <2>1, <2>2 DEF Fronted
  <2>3. CASE ~(j < Len(todo[t]))
    <3>1. Deep(todo'[t], j) = p[Len(todo'[t]) + 1 - j] /\ Len(todo'[t]) + 1 - j \in 1 .. Len(p)
      BY <1>2, <2>1, <2>3 DEF Fronted
    <3>2. p[Len(todo'[t]) + 1 - j].op = "destroy"
      BY <1>2, <3>1 DEF Step
    <3>3. QED
      BY <3>1, <3>2
  <2>4. QED
    BY <2>2, <2>3
<1>3. QED
  BY <1>1, <1>2

-----------------------------------------------------------------------------
(***************************************************************************)
(* Steps that leave the references alone: the thread goes on, perhaps with *)
(* another step on the same player.                                        *)
(***************************************************************************)
SameLives ==
  \A m \in Players : /\ player'[m].state = player[m].state
                     /\ player'[m].refs = player[m].refs
                     /\ player'[m].prepared = player[m].prepared

\* With the object's player as it was and no player new, what Ui rests on stays.
LEMMA UiOthers ==
  ASSUME UiSteps, UNCHANGED cur, todo'[Ui] = todo[Ui], Fresh => Fresh'
  PROVE  UiSteps'
<1>1. UiStack(todo'[Ui], cur')
  BY DEF UiSteps
<1>2. ASSUME NEW j \in 1 .. Len(todo'[Ui]),
             Deep(todo'[Ui], j).op \in {"takeWeak", "setup"}
      PROVE  Fresh'
  <2>1. j \in 1 .. Len(todo[Ui]) /\ Deep(todo[Ui], j).op \in {"takeWeak", "setup"}
    BY <1>2
  <2>2. Fresh
    BY <2>1 DEF UiSteps
  <2>3. QED
    BY <2>2
<1>3. QED
  BY <1>1, <1>2 DEF UiSteps

LEMMA UiMovesOn ==
  ASSUME NEW s, NEW p, NEW q, Fronted(s, p, q), NEW c, UiStack(s, c),
         NEW d, \/ d = c /\ Head(s).op # "unset"
                \/ d = 0
                \/ Head(s).op = "setup",
         \A i \in 1 .. Len(p) : p[i].op \notin {"prepare", "takeWeak", "setup", "unset", "unweak"}
  PROVE  /\ UiStack(q, d)
         /\ \A j \in 1 .. Len(q) : Deep(q, j).op \in {"takeWeak", "setup"} =>
              /\ j \in 1 .. Len(s) /\ Deep(s, j).op \in {"takeWeak", "setup"}
              /\ Head(s).op # "setup"
<1>0. /\ Len(s) \in Nat /\ Len(s) >= 1 /\ Len(q) \in Int /\ Deep(s, Len(s)) = Head(s)
      /\ Len(q) >= Len(s) - 1
  BY DEF Fronted
<1>1. ASSUME NEW j \in 1 .. Len(q),
             Deep(q, j).op \in {"prepare", "takeWeak", "setup", "unset", "unweak"}
      PROVE  j \in 1 .. (Len(s) - 1) /\ Deep(q, j) = Deep(s, j)
  <2>1. CASE j < Len(s)
    BY <2>1 DEF Fronted
  <2>2. CASE ~(j < Len(s))
    <3>1. j >= Len(s)
      BY <1>0, <2>2
    <3>2. PICK i \in 1 .. Len(p) : Deep(q, j) = p[i]
      BY <3>1 DEF Fronted
    <3>3. QED
      BY <1>1, <3>2
  <2>3. QED
    BY <2>1, <2>2
<1>2. ASSUME NEW j \in 1 .. Len(q), Deep(q, j).op = "prepare"
      PROVE  FALSE
  <2>1. j \in 1 .. (Len(s) - 1) /\ Deep(s, j).op = "prepare"
    BY <1>1, <1>2
  <2>2. Prepares(s, c)
    BY <1>0, <2>1 DEF UiStack
  <2>3. Len(s) = 2 /\ j = 1 /\ Deep(s, 1) = Step("dec", c)
    BY <1>0, <2>1, <2>2 DEF Prepares, Deep
  <2>4. QED
    BY <2>1, <2>3 DEF Step
<1>3. ASSUME NEW j \in 1 .. Len(q), Deep(q, j).op = "takeWeak"
      PROVE  FALSE
  <2>1. j \in 1 .. (Len(s) - 1) /\ Deep(s, j).op = "takeWeak"
    BY <1>1, <1>3
  <2>2. Resets(s, c)
    BY <1>0, <2>1 DEF UiStack
  <2>3. /\ Len(s) = 3 /\ j \in {1, 2} /\ Deep(s, 1) = Step("clear", 0)
        /\ Deep(s, 2) = Step("dec", c)
    BY <1>0, <2>1, <2>2 DEF Resets, Deep
  <2>4. QED
    BY <2>1, <2>3 DEF Step
<1>4. ASSUME NEW j \in 1 .. Len(q), Deep(q, j).op = "setup"
      PROVE  /\ d = 0 \/ Above(q, j, "unset")
             /\ \A k \in 1 .. Len(q) : Deep(q, k).op = "setup" => k = j
             /\ Head(s).op # "setup"
  <2>1. j \in 1 .. (Len(s) - 1) /\ Deep(s, j).op = "setup"
    BY <1>1, <1>4
  <2>2. j \in 1 .. Len(s)
    BY <1>0, <2>1
  <2>3. /\ c = 0 \/ Above(s, j, "unset")
        /\ \A k \in 1 .. Len(s) : Deep(s, k).op = "setup" => k = j
    BY <2>1, <2>2 DEF UiStack
  <2>4. Head(s).op # "setup"
    BY <1>0, <2>1, <2>3
  <2>5. ASSUME Head(s).op # "unset", Above(s, j, "unset")
        PROVE  Above(q, j, "unset")
    <3>1. PICK k \in (j + 1) .. Len(s) : Deep(s, k).op = "unset"
      BY <2>5 DEF Above
    <3>2. k # Len(s)
      BY <1>0, <2>5, <3>1
    <3>3. k \in 1 .. (Len(s) - 1) /\ k \in (j + 1) .. Len(q)
      BY <1>0, <3>2
    <3>4. QED
      BY <3>1, <3>3 DEF Above, Fronted
  <2>6. ASSUME NEW k \in 1 .. Len(q), Deep(q, k).op = "setup"
        PROVE  k = j
    <3>1. k \in 1 .. (Len(s) - 1) /\ Deep(s, k).op = "setup"
      BY <1>1, <2>6
    <3>2. QED
      BY <1>0, <2>3, <3>1
  <2>7. QED
    BY <2>3, <2>4, <2>5, <2>6
<1>5. ASSUME NEW j \in 1 .. Len(q), Deep(q, j).op = "unweak"
      PROVE  \E k \in 1 .. j : Deep(q, k).op = "unset"
  <2>1. j \in 1 .. (Len(s) - 1) /\ Deep(s, j).op = "unweak" /\ j \in 1 .. Len(s)
    BY <1>0, <1>1, <1>5
  <2>2. PICK k \in 1 .. j : Deep(s, k).op = "unset"
    BY <2>1 DEF UiStack
  <2>3. k \in 1 .. (Len(s) - 1)
    BY <1>0, <2>1
  <2>4. QED
    BY <2>2, <2>3 DEF Fronted
<1>6. UiStack(q, d)
  BY <1>2, <1>3, <1>4, <1>5 DEF UiStack
<1>7. QED
  BY <1>0, <1>1, <1>3, <1>4, <1>6

LEMMA MovesOn ==
  ASSUME RefsInv, NEW t \in Threads, NEW p \in Seq(Steps), todo[t] # <<>>, Then(t, p),
         Follows(Head(todo[t]), p),
         Head(todo[t]).op \notin {"dec", "destroy", "unset", "takeWeak"},
         player' \in [Players -> PlayerRecords], SameLives,
         UNCHANGED cur, handles' \subseteq Players
  PROVE  RefsInv'
<1>0. /\ Typed /\ StacksOk /\ Counted /\ Ends /\ Lives /\ UiSteps
  BY DEF RefsInv
<1>1. /\ todo' \in [Threads -> Seq(Steps)]
      /\ todo'[t] = p \o Tail(todo[t])
      /\ todo[t] \in Seq(Steps) /\ todo'[t] \in Seq(Steps)
      /\ Fronted(todo[t], p, todo'[t])
      /\ \A u \in Threads \ {t} : todo'[u] = todo[u]
  BY <1>0, Thens, Zenon
<1>2. Typed'
  BY <1>0, <1>1 DEF Typed
<1>3. \A i \in 1 .. Len(p) : p[i].op \in {"get", "post", "join"}
  BY DEF Follows
<1>4. StacksOk'
  <2>1. StackOk(t, todo'[t])
    BY <1>0, <1>1, FollowsOk DEF StacksOk
  <2>2. ASSUME NEW u \in Threads \ {t}
        PROVE  StackOk(u, todo'[u])
    BY <1>0, <1>1 DEF StacksOk
  <2>3. QED
    BY <2>1, <2>2 DEF StacksOk
<1>5. Counted'
  <2>1. ASSUME NEW m \in Players
        PROVE  Owned(todo', m) = Owned(todo, m)
    <3>1. Head(todo[t]) # Step("dec", m)
      BY DEF Step
    <3>2. \A i \in 1 .. Len(p) : p[i] # Step("dec", m)
      BY <1>3 DEF Step
    <3>3. Places(todo'[t], m) = Places(todo[t], m)
      BY <1>1, <3>1, <3>2, PlacesStay
    <3>4. \A u \in Threads : Places(todo'[u], m) = Places(todo[u], m)
      BY <1>1, <3>3
    <3>5. QED
      BY <3>4, OwnedStay, Zenon
  <2>2. QED
    BY <1>0, <2>1 DEF Counted, SameLives
<1>6. Ends'
  <2>1. \A i \in 1 .. Len(p) : p[i].op # "destroy"
    BY <1>3
  <2>2. \A u \in Threads : \A m \in Players : \A j \in 1 .. Len(todo'[u]) :
          Deep(todo'[u], j) = Step("destroy", m) =>
            j \in 1 .. Len(todo[u]) /\ Deep(todo[u], j) = Step("destroy", m)
    BY <1>0, <2>1, NoNewEnds, Zenon
  <2>3. QED
    BY <1>0, <2>2, EndsKept DEF SameLives
<1>7. Lives'
  <2>1. ASSUME NEW m \in Players, ~player'[m].prepared
        PROVE  todo'[m] = <<>>
    <3>1. todo[m] = <<>> /\ m \in Threads
      BY <1>0, <2>1 DEF Lives, SameLives, Threads
    <3>2. m # t
      BY <3>1
    <3>3. QED
      BY <1>1, <3>1, <3>2
  <2>2. QED
    BY <1>0, <2>1 DEF Lives, SameLives
<1>8. UiSteps'
  <2>1. Fresh => Fresh'
    BY DEF Fresh, SameLives
  <2>2. CASE t = Ui
    <3>1. \A i \in 1 .. Len(p) :
            p[i].op \notin {"prepare", "takeWeak", "setup", "unset", "unweak"}
      BY <1>3
    <3>2. /\ UiStack(todo'[Ui], cur)
          /\ \A j \in 1 .. Len(todo'[Ui]) :
               Deep(todo'[Ui], j).op \in {"takeWeak", "setup"} =>
                 /\ j \in 1 .. Len(todo[Ui])
                 /\ Deep(todo[Ui], j).op \in {"takeWeak", "setup"}
      BY <1>0, <1>1, <2>2, <3>1, UiMovesOn DEF UiSteps
    <3>3. QED
      BY <1>0, <2>1, <3>2 DEF UiSteps
  <2>3. CASE t # Ui
    <3>1. todo'[Ui] = todo[Ui]
      BY <1>1, <2>3 DEF Threads
    <3>2. QED
      BY <1>0, <2>1, <3>1, UiOthers
  <2>4. QED
    BY <2>2, <2>3
<1>9. QED
  BY <1>2, <1>4, <1>5, <1>6, <1>7, <1>8 DEF RefsInv

-----------------------------------------------------------------------------
(***************************************************************************)
(* A method that begins takes one reference and will give it up.           *)
(***************************************************************************)
LEMMA CountedPlayer ==
  ASSUME Typed, Counted, cur # 0
  PROVE  cur \in Players /\ player[cur].refs \in Nat /\ player[cur].refs # 0
<1>1. cur \in Players
  BY DEF Typed
<1>2. Cardinality(Owned(todo, cur)) \in Nat
  BY <1>1, FS_CardinalityType DEF Counted
<1>3. player[cur].refs = Cardinality(Owned(todo, cur)) + 1
  BY <1>1 DEF Counted
<1>4. QED
  BY <1>1, <1>2, <1>3

LEMMA GotPlayer ==
  ASSUME Typed, Counted, cur # 0, GetPlayer
  PROVE  /\ player' \in [Players -> PlayerRecords]
         /\ player'[cur] = [player[cur] EXCEPT !.refs = @ + 1]
         /\ player'[cur].refs = player[cur].refs + 1
         /\ \A m \in Players \ {cur} : player'[m] = player[m]
         /\ \A m \in Players : /\ player'[m].state = player[m].state
                               /\ player'[m].prepared = player[m].prepared
<1>1. cur \in Players /\ player[cur].refs \in Nat /\ player[cur] \in PlayerRecords
  BY CountedPlayer DEF Typed
<1>2. [player[cur] EXCEPT !.refs = @ + 1] \in PlayerRecords
  BY <1>1 DEF PlayerRecords
<1>3. /\ player'[cur] = [player[cur] EXCEPT !.refs = @ + 1]
      /\ \A m \in Players \ {cur} : player'[m] = player[m]
      /\ player' \in [Players -> PlayerRecords]
  BY <1>1, <1>2 DEF GetPlayer, Typed
<1>4. /\ player'[cur].refs = player[cur].refs + 1
      /\ player'[cur].state = player[cur].state
      /\ player'[cur].prepared = player[cur].prepared
  BY <1>1, <1>3 DEF PlayerRecords
<1>5. QED
  BY <1>1, <1>3, <1>4

LEMMA Begins ==
  ASSUME RefsInv, NEW t \in {Ui, Bg}, todo[t] = <<>>, cur # 0, GetPlayer,
         NEW q \in Seq(Steps), todo' = [todo EXCEPT ![t] = q],
         UNCHANGED <<cur, handles>>, StackOk(t, q),
         NEW d \in Nat, \A m : Places(q, m) = IF m = cur THEN {d} ELSE {},
         \A j \in 1 .. Len(q) : Deep(q, j).op # "destroy",
         t = Ui => /\ UiStack(q, cur)
                   /\ \A j \in 1 .. Len(q) :
                        Deep(q, j).op \in {"takeWeak", "setup"} => Fresh
  PROVE  RefsInv'
<1>0. /\ Typed /\ StacksOk /\ Counted /\ Ends /\ Lives /\ UiSteps
  BY DEF RefsInv
<1>1. cur \in Players /\ player[cur].refs \in Nat /\ player[cur].refs # 0
  BY <1>0, CountedPlayer
<1>2. /\ player' \in [Players -> PlayerRecords]
      /\ player'[cur].refs = player[cur].refs + 1
      /\ \A m \in Players \ {cur} : player'[m] = player[m]
      /\ \A m \in Players : /\ player'[m].state = player[m].state
                            /\ player'[m].prepared = player[m].prepared
  BY <1>0, GotPlayer
<1>3. t \in Threads /\ t \notin Players /\ Ui \in Threads
  BY PlayersAssumption DEF Threads, Ui, Bg, Players
<1>4. /\ todo' \in [Threads -> Seq(Steps)] /\ todo'[t] = q
      /\ \A u \in Threads \ {t} : todo'[u] = todo[u]
  BY <1>0, <1>3 DEF Typed
<1>5. Typed'
  BY <1>0, <1>2, <1>4 DEF Typed
<1>6. StacksOk'
  BY <1>0, <1>4 DEF StacksOk
<1>7. Counted'
  <2>1. \A m : Places(todo[t], m) = {}
    <3>1. Len(todo[t]) = 0
      OBVIOUS
    <3>2. QED
      BY <3>1 DEF Places
  <2>2. \A u \in Threads \ {t} : \A m : Places(todo'[u], m) = Places(todo[u], m)
    BY <1>4
  <2>3. /\ IsFiniteSet(Owned(todo', cur))
        /\ Cardinality(Owned(todo', cur)) = Cardinality(Owned(todo, cur)) + 1
    <3>1. Places(todo'[t], cur) = Places(todo[t], cur) \cup {d} /\ d \notin Places(todo[t], cur)
      BY <1>4, <2>1
    <3>2. IsFiniteSet(Owned(todo, cur))
      BY <1>0, <1>1 DEF Counted
    <3>3. \A u \in Threads \ {t} : Places(todo'[u], cur) = Places(todo[u], cur)
      BY <2>2
    <3>4. QED
      BY <1>3, <3>1, <3>2, <3>3, OwnedMore, Zenon
  <2>4. ASSUME NEW m \in Players \ {cur}
        PROVE  Owned(todo', m) = Owned(todo, m)
    <3>1. Places(todo'[t], m) = Places(todo[t], m)
      BY <1>4, <2>1
    <3>2. \A u \in Threads : Places(todo'[u], m) = Places(todo[u], m)
      BY <2>2, <3>1
    <3>3. QED
      BY <3>2, OwnedStay, Zenon
  <2>5. Cardinality(Owned(todo, cur)) \in Nat
    BY <1>0, <1>1, FS_CardinalityType DEF Counted
  <2>6. QED
    BY <1>0, <1>1, <1>2, <2>3, <2>4, <2>5 DEF Counted
<1>8. Ends'
  <2>1. ASSUME NEW u \in Threads, NEW m \in Players, NEW j \in 1 .. Len(todo'[u]),
               Deep(todo'[u], j) = Step("destroy", m)
        PROVE  j \in 1 .. Len(todo[u]) /\ Deep(todo[u], j) = Step("destroy", m)
    <3>1. Deep(todo'[u], j).op = "destroy"
      BY <2>1 DEF Step
    <3>2. u # t
      BY <1>4, <3>1
    <3>3. QED
      BY <1>4, <2>1, <3>2
  <2>2. QED
    BY <1>0, <1>1, <1>2, <2>1, EndsKept
<1>9. Lives'
  <2>1. ASSUME NEW m \in Players
        PROVE  /\ player'[m].refs > 0 => player'[m].state = "live"
               /\ player'[m].state = "none" => ~player'[m].prepared /\ player'[m].refs = 0
    <3>1. CASE m = cur
      BY <1>0, <1>1, <1>2, <3>1 DEF Lives
    <3>2. CASE m # cur
      BY <1>0, <1>2, <3>2 DEF Lives
    <3>3. QED
      BY <3>1, <3>2
  <2>2. ASSUME NEW m \in Players, ~player'[m].prepared
        PROVE  todo'[m] = <<>>
    BY <1>0, <1>2, <1>3, <1>4, <2>2 DEF Lives, Threads
  <2>3. QED
    BY <2>1, <2>2 DEF Lives
<1>10. UiSteps'
  <2>1. Fresh => Fresh'
    BY <1>2 DEF Fresh
  <2>2. CASE t = Ui
    BY <1>4, <2>1, <2>2 DEF UiSteps
  <2>3. CASE t # Ui
    <3>1. todo'[Ui] = todo[Ui]
      BY <1>3, <1>4, <2>3
    <3>2. QED
      BY <1>0, <2>1, <3>1, UiOthers
  <2>4. QED
    BY <2>2, <2>3
<1>11. QED
  BY <1>5, <1>6, <1>7, <1>8, <1>9, <1>10 DEF RefsInv

LEMMA PairJoined ==
  ASSUME NEW a, NEW b
  PROVE  <<a>> \o <<b>> = <<a, b>>
<1>1. <<a>> \in Seq({a, b}) /\ <<b>> \in Seq({a, b}) /\ <<a, b>> \in Seq({a, b})
  OBVIOUS
<1>2. Len(<<a>>) = 1 /\ Len(<<b>>) = 1 /\ Len(<<a, b>>) = 2
  OBVIOUS
<1>3. <<a>> \o <<b>> \in Seq({a, b}) /\ Len(<<a>> \o <<b>>) = 2
  BY <1>1, <1>2
<1>4. /\ (<<a>> \o <<b>>)[1] = <<a, b>>[1]
      /\ (<<a>> \o <<b>>)[2] = <<a, b>>[2]
  BY <1>1, <1>2
<1>5. \A i \in 1 .. 2 : (<<a>> \o <<b>>)[i] = <<a, b>>[i]
  BY <1>4
<1>6. QED
  BY <1>1, <1>2, <1>3, <1>5, SeqEqual

LEMMA PrepareBegins ==
  ASSUME RefsInv, BeginPrepare
  PROVE  RefsInv'
<1> DEFINE q == <<Step("prepare", cur), Step("dec", cur)>>
<1>0. <<Step("prepare", cur)>> \o <<Step("dec", cur)>> = q
  BY PairJoined, Zenon
<1>1. /\ todo[Ui] = <<>> /\ cur # 0 /\ GetPlayer
      /\ todo' = [todo EXCEPT ![Ui] = q] /\ UNCHANGED <<cur, handles>>
  BY <1>0, Zenon DEF BeginPrepare, Begin, Idle
<1>2. cur \in Players
  BY <1>1 DEF RefsInv, Typed
<1>3. q \in Seq(Steps)
  BY <1>2 DEF Steps, Step, Ops, CallOps, EndOps
<1>4. /\ Len(q) = 2
      /\ Deep(q, 1) = Step("dec", cur)
      /\ Deep(q, 2) = Step("prepare", cur)
  BY DEF Deep
<1>5. \A j \in 1 .. Len(q) : j \in {1, 2}
  BY <1>4
<1>6. Prepares(q, cur)
  BY DEF Prepares
<1> HIDE DEF q
<1>7. /\ Deep(q, 1).op = "dec" /\ Deep(q, 1).mp = cur
      /\ Deep(q, 2).op = "prepare" /\ Deep(q, 2).mp = cur
  BY <1>4 DEF Step
<1>8. Held(q, 2, cur)
  BY <1>4 DEF Held
<1>9. StackOk(Ui, q)
  BY <1>1, <1>5, <1>7, <1>8 DEF StackOk, OkAt, CallOps, EndOps, LoopOps, UiOps
<1>10. UiStack(q, cur)
  BY <1>1, <1>5, <1>6, <1>7 DEF UiStack
<1>11. \A m : Places(q, m) = IF m = cur THEN {1} ELSE {}
  BY <1>4, <1>5 DEF Places, Step
<1>12. QED
  BY <1>1, <1>3, <1>5, <1>7, <1>9, <1>10, <1>11, Begins

LEMMA CallBegins ==
  ASSUME RefsInv, BeginCall \/ BeginStop
  PROVE  RefsInv'
<1>1. /\ todo[Bg] = <<>> /\ cur # 0 /\ GetPlayer /\ UNCHANGED <<cur, handles>>
      /\ \/ todo' = [todo EXCEPT ![Bg] = <<Step("dec", cur)>>]
         \/ todo' = [todo EXCEPT ![Bg] = <<Step("stopCall", cur), Step("dec", cur)>>]
  BY DEF BeginCall, BeginStop, Begin, Idle
<1>2. cur \in Players
  BY <1>1 DEF RefsInv, Typed
<1>3. Bg # Ui
  BY DEF Bg, Ui
<1>4. ASSUME NEW q, q \in Seq(Steps), todo' = [todo EXCEPT ![Bg] = q],
             \A j \in 1 .. Len(q) : j \in {1, 2},
             1 \in 1 .. Len(q), Deep(q, 1) = Step("dec", cur),
             2 \in 1 .. Len(q) => Deep(q, 2) = Step("stopCall", cur)
      PROVE  RefsInv'
  <2>1. Held(q, 2, cur)
    BY <1>4 DEF Held
  <2>2. /\ Deep(q, 1).op = "dec" /\ Deep(q, 1).mp = cur
        /\ 2 \in 1 .. Len(q) => Deep(q, 2).op = "stopCall" /\ Deep(q, 2).mp = cur
    BY <1>4 DEF Step
  <2>3. StackOk(Bg, q)
    BY <1>1, <1>4, <2>1, <2>2 DEF StackOk, OkAt, CallOps, EndOps, LoopOps, UiOps
  <2>4. \A m : Places(q, m) = IF m = cur THEN {1} ELSE {}
    BY <1>4 DEF Places, Step
  <2>5. \A j \in 1 .. Len(q) : Deep(q, j).op # "destroy"
    BY <1>4, <2>2
  <2>6. QED
    BY <1>1, <1>3, <1>4, <2>3, <2>4, <2>5, Begins
<1>5. CASE todo' = [todo EXCEPT ![Bg] = <<Step("dec", cur)>>]
  <2> DEFINE q == <<Step("dec", cur)>>
  <2>1. q \in Seq(Steps)
    BY <1>2 DEF Steps, Step, Ops
  <2>2. Len(q) = 1 /\ Deep(q, 1) = Step("dec", cur)
    BY DEF Deep
  <2>3. /\ \A j \in 1 .. Len(q) : j \in {1, 2}
        /\ 1 \in 1 .. Len(q) /\ ~(2 \in 1 .. Len(q))
    BY <2>2
  <2>4. todo' = [todo EXCEPT ![Bg] = q]
    BY <1>5
  <2> HIDE DEF q
  <2>5. QED
    BY <1>4, <2>1, <2>2, <2>3, <2>4
<1>6. CASE todo' = [todo EXCEPT ![Bg] = <<Step("stopCall", cur), Step("dec", cur)>>]
  <2> DEFINE q == <<Step("stopCall", cur), Step("dec", cur)>>
  <2>1. q \in Seq(Steps)
    BY <1>2 DEF Steps, Step, Ops, CallOps
  <2>2. /\ Len(q) = 2 /\ Deep(q, 1) = Step("dec", cur)
        /\ Deep(q, 2) = Step("stopCall", cur)
    BY DEF Deep
  <2>3. /\ \A j \in 1 .. Len(q) : j \in {1, 2}
        /\ 1 \in 1 .. Len(q)
    BY <2>2
  <2>4. todo' = [todo EXCEPT ![Bg] = q]
    BY <1>6
  <2> HIDE DEF q
  <2>5. QED
    BY <1>4, <2>1, <2>2, <2>3, <2>4
<1>7. QED
  BY <1>1, <1>5, <1>6

LEMMA ReleaseBegins ==
  ASSUME RefsInv, BeginRelease \/ Finalize
  PROVE  RefsInv'
<1> DEFINE q == <<Step("stop", cur), Step("close", cur), Step("unweak", cur),
                  Step("unset", cur), Step("dec", cur)>>
<1>1. /\ todo[Ui] = <<>> /\ cur # 0 /\ GetPlayer
      /\ todo' = [todo EXCEPT ![Ui] = q] /\ UNCHANGED <<cur, handles>>
  BY DEF BeginRelease, Finalize, Begin, Idle, ReleaseSteps
<1>2. cur \in Players
  BY <1>1 DEF RefsInv, Typed
<1>3. q \in Seq(Steps)
  BY <1>2 DEF Steps, Step, Ops, CallOps, EndOps
<1>4. /\ Len(q) = 5
      /\ Deep(q, 1) = Step("dec", cur)
      /\ Deep(q, 2) = Step("unset", cur)
      /\ Deep(q, 3) = Step("unweak", cur)
      /\ Deep(q, 4) = Step("close", cur)
      /\ Deep(q, 5) = Step("stop", cur)
  BY DEF Deep
<1>5. \A j \in 1 .. Len(q) : j \in {1, 2, 3, 4, 5}
  BY <1>4
<1> HIDE DEF q
<1>6. /\ Deep(q, 1).op = "dec" /\ Deep(q, 1).mp = cur
      /\ Deep(q, 2).op = "unset" /\ Deep(q, 2).mp = cur
      /\ Deep(q, 3).op = "unweak" /\ Deep(q, 3).mp = cur
      /\ Deep(q, 4).op = "close" /\ Deep(q, 4).mp = cur
      /\ Deep(q, 5).op = "stop" /\ Deep(q, 5).mp = cur
  BY <1>4 DEF Step
<1>7. Held(q, 2, cur) /\ Held(q, 3, cur) /\ Held(q, 4, cur) /\ Held(q, 5, cur)
  BY <1>4 DEF Held
<1>8. StackOk(Ui, q)
  BY <1>1, <1>5, <1>6, <1>7 DEF StackOk, OkAt, CallOps, EndOps, LoopOps, UiOps
<1>9. UiStack(q, cur)
  <2>1. 2 \in 1 .. 3
    OBVIOUS
  <2>2. QED
    BY <1>5, <1>6, <2>1 DEF UiStack
<1>10. \A m : Places(q, m) = IF m = cur THEN {1} ELSE {}
  BY <1>4, <1>5 DEF Places, Step
<1>11. QED
  BY <1>1, <1>3, <1>5, <1>6, <1>8, <1>9, <1>10, Begins

LEMMA ResetBegins ==
  ASSUME RefsInv, BeginReset
  PROVE  RefsInv'
<1> DEFINE q == <<Step("takeWeak", cur), Step("dec", cur), Step("clear", 0)>>
<1>1. /\ todo[Ui] = <<>> /\ cur # 0 /\ GetPlayer /\ Fresh
      /\ todo' = [todo EXCEPT ![Ui] = q] /\ UNCHANGED <<cur, handles>>
  BY DEF BeginReset, Idle, Fresh
<1>2. cur \in Players
  BY <1>1 DEF RefsInv, Typed
<1>3. q \in Seq(Steps)
  BY <1>2 DEF Steps, Step, Ops, CallOps, EndOps
<1>4. /\ Len(q) = 3
      /\ Deep(q, 1) = Step("clear", 0)
      /\ Deep(q, 2) = Step("dec", cur)
      /\ Deep(q, 3) = Step("takeWeak", cur)
  BY DEF Deep
<1>5. \A j \in 1 .. Len(q) : j \in {1, 2, 3}
  BY <1>4
<1>6. Resets(q, cur)
  BY DEF Resets
<1> HIDE DEF q
<1>7. /\ Deep(q, 1).op = "clear" /\ Deep(q, 1).mp = 0
      /\ Deep(q, 2).op = "dec" /\ Deep(q, 2).mp = cur
      /\ Deep(q, 3).op = "takeWeak" /\ Deep(q, 3).mp = cur
  BY <1>4 DEF Step
<1>8. Held(q, 3, cur)
  BY <1>4 DEF Held
<1>9. StackOk(Ui, q)
  BY <1>1, <1>5, <1>7, <1>8 DEF StackOk, OkAt, CallOps, EndOps, LoopOps, UiOps
<1>10. UiStack(q, cur)
  BY <1>1, <1>5, <1>6, <1>7 DEF UiStack
<1>11. \A m : Places(q, m) = IF m = cur THEN {2} ELSE {}
  BY <1>4, <1>5 DEF Places, Step
<1>12. QED
  BY <1>1, <1>3, <1>5, <1>7, <1>9, <1>10, <1>11, Begins

-----------------------------------------------------------------------------
(***************************************************************************)
(* The step on top, and the player that it is for.                         *)
(***************************************************************************)
LEMMA TopStep ==
  ASSUME RefsInv, NEW t \in Threads, todo[t] # <<>>
  PROVE  /\ Head(todo[t]) \in Steps
         /\ Len(todo[t]) \in 1 .. Len(todo[t])
         /\ Deep(todo[t], Len(todo[t])) = Head(todo[t])
         /\ OkAt(t, todo[t], Len(todo[t]))
         /\ Head(todo[t]).mp \in Players \cup {0}
         /\ Head(todo[t]).op \notin {"clear", "setup"} => Head(todo[t]).mp \in Players
<1>1. todo[t] \in Seq(Steps)
  BY DEF RefsInv, Typed
<1>2. /\ Head(todo[t]) \in Steps /\ Len(todo[t]) \in 1 .. Len(todo[t])
      /\ Deep(todo[t], Len(todo[t])) = Head(todo[t])
  BY <1>1 DEF Deep
<1>3. OkAt(t, todo[t], Len(todo[t]))
  BY <1>2 DEF RefsInv, StacksOk, StackOk
<1>4. Head(todo[t]).mp \in Players \cup {0}
  BY <1>2 DEF Steps
<1>5. QED
  BY <1>2, <1>3, <1>4 DEF OkAt

LEMMA Referred ==
  ASSUME RefsInv, NEW t \in Threads, NEW m \in Players, NEW j \in Places(todo[t], m)
  PROVE  player[m].refs \in Nat /\ player[m].refs > 0 /\ player[m].state = "live"
<1>1. /\ IsFiniteSet(Owned(todo, m))
      /\ player[m].refs = Cardinality(Owned(todo, m)) + (IF cur = m THEN 1 ELSE 0)
  BY DEF RefsInv, Counted
<1>2. Cardinality(Owned(todo, m)) \in Nat /\ Cardinality(Owned(todo, m)) >= 1
  BY <1>1, OwnedPositive
<1>3. player[m].refs \in Nat /\ player[m].refs > 0
  BY <1>1, <1>2
<1>4. QED
  BY <1>3 DEF RefsInv, Lives

LEMMA HeldReferred ==
  ASSUME RefsInv, NEW t \in Threads, NEW m \in Players,
         NEW j \in 1 .. Len(todo[t]), Held(todo[t], j, m)
  PROVE  player[m].refs \in Nat /\ player[m].refs > 0 /\ player[m].state = "live"
<1>1. PICK k \in 1 .. (j - 1) : Deep(todo[t], k) = Step("dec", m)
  BY DEF Held
<1>2. Len(todo[t]) \in Nat
  BY DEF RefsInv, Typed
<1>3. k \in Places(todo[t], m)
  BY <1>1, <1>2 DEF Places
<1>4. QED
  BY <1>3, Referred

LEMMA DyingUnreferred ==
  ASSUME RefsInv, NEW t \in Threads, NEW m \in Players,
         NEW j \in 1 .. Len(todo[t]), Dying(todo[t], j, m)
  PROVE  player[m].refs = 0 /\ player[m].state = "live"
<1>1. PICK k \in 1 .. j : Deep(todo[t], k) = Step("destroy", m)
  BY DEF Dying
<1>2. Len(todo[t]) \in Nat
  BY DEF RefsInv, Typed
<1>3. k \in 1 .. Len(todo[t])
  BY <1>2
<1>4. QED
  BY <1>1, <1>3 DEF RefsInv, Ends

\* How the references change where another player is concerned.
LEMMA OthersStay ==
  ASSUME Typed, NEW t \in Threads, NEW p \in Seq(Steps), todo[t] # <<>>, Then(t, p),
         NEW m \in Players, Head(todo[t]) # Step("dec", m),
         \A i \in 1 .. Len(p) : p[i] # Step("dec", m)
  PROVE  Owned(todo', m) = Owned(todo, m)
<1>1. /\ Fronted(todo[t], p, todo'[t])
      /\ \A u \in Threads \ {t} : todo'[u] = todo[u]
  BY Thens, Zenon
<1>2. Places(todo'[t], m) = Places(todo[t], m)
  BY <1>1, PlacesStay
<1>3. \A u \in Threads : Places(todo'[u], m) = Places(todo[u], m)
  BY <1>1, <1>2
<1>4. QED
  BY <1>3, OwnedStay, Zenon

\* Without another player new, the stack of Ui stays in order.
LEMMA UiGoesOn ==
  ASSUME RefsInv, NEW t \in Threads, NEW p \in Seq(Steps), todo[t] # <<>>, Then(t, p),
         \A i \in 1 .. Len(p) :
           p[i].op \notin {"prepare", "takeWeak", "setup", "unset", "unweak"},
         \/ cur' = cur /\ Head(todo[t]).op # "unset"
         \/ cur' = 0 /\ t = Ui
         \/ Head(todo[t]).op = "setup" /\ t = Ui,
         Head(todo[t]).op = "setup" \/ (Fresh => Fresh')
  PROVE  UiSteps'
<1>1. /\ Fronted(todo[t], p, todo'[t])
      /\ \A u \in Threads \ {t} : todo'[u] = todo[u]
  BY Thens, Zenon DEF RefsInv
<1>2. UiStack(todo[Ui], cur) /\ UiSteps
  BY DEF RefsInv, UiSteps
<1>3. CASE t = Ui
  <2>1. /\ UiStack(todo'[Ui], cur')
        /\ \A j \in 1 .. Len(todo'[Ui]) : Deep(todo'[Ui], j).op \in {"takeWeak", "setup"} =>
             /\ j \in 1 .. Len(todo[Ui]) /\ Deep(todo[Ui], j).op \in {"takeWeak", "setup"}
             /\ Head(todo[Ui]).op # "setup"
    BY <1>1, <1>2, <1>3, UiMovesOn
  <2>2. QED
    BY <1>2, <1>3, <2>1 DEF UiSteps
<1>4. CASE t # Ui
  <2>1. todo'[Ui] = todo[Ui] /\ cur' = cur
    BY <1>1, <1>4 DEF Threads
  <2>2. CASE Head(todo[t]).op = "setup"
    BY <1>4, <2>2, TopStep DEF OkAt, UiOps
  <2>3. CASE Head(todo[t]).op # "setup"
    BY <1>2, <1>4, <2>1, <2>3, UiOthers
  <2>4. QED
    BY <2>2, <2>3
<1>5. QED
  BY <1>3, <1>4

-----------------------------------------------------------------------------
(***************************************************************************)
(* The end of a reference, and of a player.                                *)
(***************************************************************************)
LEMMA Decs ==
  ASSUME RefsInv, NEW t \in Threads, Dec(t)
  PROVE  RefsInv'
<1> DEFINE s == todo[t]  x == Head(todo[t])  m == x.mp  q == todo'[t]
           p == IF player[m].refs = 1
                THEN <<Step("stop", m), Step("close", m), Step("destroy", m)>>
                ELSE <<>>
<1>0. /\ Typed /\ StacksOk /\ Counted /\ Ends /\ Lives /\ UiSteps
  BY DEF RefsInv
<1>1. /\ s # <<>> /\ x.op = "dec" /\ Then(t, p) /\ UNCHANGED <<cur, handles>>
      /\ player' = [player EXCEPT ![m].refs = @ - 1]
  BY DEF Dec, Does, Next1
<1>2. /\ x \in Steps /\ m \in Players /\ Deep(s, Len(s)) = x /\ Len(s) \in 1 .. Len(s)
  BY <1>1, TopStep
<1>3. x = Step("dec", m)
  BY <1>1, <1>2 DEF Steps, Step
<1>4. Len(s) \in Places(s, m)
  BY <1>2, <1>3 DEF Places
<1>5. player[m].refs \in Nat /\ player[m].refs > 0 /\ player[m].state = "live"
  BY <1>2, <1>4, Referred
<1>6. player[m] \in PlayerRecords
  BY <1>0, <1>2 DEF Typed
<1>7. [player[m] EXCEPT !.refs = @ - 1] \in PlayerRecords
  BY <1>5, <1>6 DEF PlayerRecords
<1>8. /\ player'[m] = [player[m] EXCEPT !.refs = @ - 1]
      /\ \A n \in Players \ {m} : player'[n] = player[n]
      /\ player' \in [Players -> PlayerRecords]
  BY <1>0, <1>1, <1>2, <1>7 DEF Typed
<1>9. /\ player'[m].refs = player[m].refs - 1
      /\ player'[m].state = "live"
      /\ player'[m].prepared = player[m].prepared
  BY <1>5, <1>6, <1>8 DEF PlayerRecords
<1>10. p \in Seq(Steps)
  <2>1. <<Step("stop", m), Step("close", m), Step("destroy", m)>> \in Seq(Steps)
    BY <1>2 DEF Steps, Step, Ops, EndOps
  <2>2. QED
    BY <2>1
<1>11. \A i \in 1 .. Len(p) : p[i].op \in {"stop", "close", "destroy"} /\ p[i].mp = m
  <2>1. CASE player[m].refs = 1
    BY <2>1 DEF Step
  <2>2. CASE player[m].refs # 1
    BY <2>2
  <2>3. QED
    BY <2>1, <2>2
<1>12. /\ player[m].refs = 1 =>
            /\ Len(p) = 3 /\ p[1] = Step("stop", m) /\ p[2] = Step("close", m)
            /\ p[3] = Step("destroy", m)
       /\ player[m].refs # 1 => Len(p) = 0
  <2>1. CASE player[m].refs = 1
    BY <2>1
  <2>2. CASE player[m].refs # 1
    BY <2>2
  <2>3. QED
    BY <2>1, <2>2
<1> HIDE DEF p
<1>13. /\ todo' \in [Threads -> Seq(Steps)] /\ q \in Seq(Steps)
       /\ Fronted(s, p, q)
       /\ \A u \in Threads \ {t} : todo'[u] = todo[u]
  BY <1>0, <1>1, <1>10, Thens, Zenon
<1>14. Typed'
  BY <1>0, <1>1, <1>8, <1>13 DEF Typed
<1>15. \A i \in 1 .. Len(p) : \A n : p[i] # Step("dec", n)
  BY <1>11 DEF Step
<1>16. StacksOk'
  <2>0. StackOk(t, s)
    BY <1>0 DEF StacksOk
  <2>1. ASSUME NEW j \in 1 .. Len(q)
        PROVE  OkAt(t, q, j)
    <3>1. CASE j < Len(s)
      BY <1>13, <2>0, <3>1, RestOk
    <3>2. CASE ~(j < Len(s))
      <4>1. j >= Len(s)
        BY <1>2, <1>13, <3>2
      <4>2. Deep(q, j) = p[Len(q) + 1 - j] /\ Len(q) + 1 - j \in 1 .. Len(p)
        BY <1>13, <4>1 DEF Fronted
      <4>3. player[m].refs = 1
        BY <1>12, <4>2
      <4>4. Len(s) \in 1 .. j /\ Len(s) \in Len(s) .. Len(q) /\ Len(q) + 1 - Len(s) = 3
        BY <1>2, <1>12, <1>13, <4>1, <4>3 DEF Fronted
      <4>5. Deep(q, Len(s)) = Step("destroy", m)
        BY <1>12, <1>13, <4>3, <4>4 DEF Fronted
      <4>6. Dying(q, j, m)
        BY <4>4, <4>5 DEF Dying
      <4>7. Deep(q, j).op \in {"stop", "close", "destroy"} /\ Deep(q, j).mp = m
        BY <1>11, <4>2
      <4>8. m # 0
        BY <1>2 DEF Players
      <4>9. QED
        BY <4>6, <4>7, <4>8 DEF OkAt, CallOps, EndOps, LoopOps, UiOps
    <3>3. QED
      BY <3>1, <3>2
  <2>2. StackOk(t, q)
    BY <2>1 DEF StackOk
  <2>3. ASSUME NEW u \in Threads \ {t}
        PROVE  StackOk(u, todo'[u])
    BY <1>0, <1>13 DEF StacksOk
  <2>4. QED
    BY <2>2, <2>3 DEF StacksOk
<1>17. Counted'
  <2>1. ASSUME NEW n \in Players \ {m}
        PROVE  Owned(todo', n) = Owned(todo, n)
    <3>1. x # Step("dec", n)
      BY <1>2 DEF Step
    <3>2. QED
      BY <1>0, <1>1, <1>10, <1>15, <3>1, OthersStay, Zenon
  <2>2. /\ IsFiniteSet(Owned(todo', m))
        /\ Cardinality(Owned(todo', m)) = Cardinality(Owned(todo, m)) - 1
    <3>1. Places(q, m) = Places(s, m) \ {Len(s)} /\ Len(s) \in Nat
      BY <1>3, <1>13, <1>15, PlacesLess
    <3>2. IsFiniteSet(Owned(todo, m))
      BY <1>0, <1>2 DEF Counted
    <3>3. \A u \in Threads \ {t} : Places(todo'[u], m) = Places(todo[u], m)
      BY <1>13
    <3>4. /\ Places(todo'[t], m) = Places(todo[t], m) \ {Len(s)}
          /\ Len(s) \in Places(todo[t], m)
      BY <1>4, <3>1
    <3>5. Len(s) \in Nat
      BY <3>1
    <3> HIDE DEF s, m
    <3>6. QED
      BY <3>2, <3>3, <3>4, <3>5, OwnedLess, Zenon
  <2>3. Cardinality(Owned(todo, m)) \in Nat
    BY <1>0, <1>2, FS_CardinalityType DEF Counted
  <2>4. QED
    BY <1>0, <1>1, <1>8, <1>9, <2>1, <2>2, <2>3 DEF Counted
<1>18. Ends'
  <2>1. ASSUME NEW u \in Threads, NEW n \in Players, NEW j \in 1 .. Len(todo'[u]),
               Deep(todo'[u], j) = Step("destroy", n)
        PROVE  \/ j \in 1 .. Len(todo[u]) /\ Deep(todo[u], j) = Step("destroy", n) /\ n # m
               \/ u = t /\ j = Len(s) /\ n = m /\ player[m].refs = 1
    <3>1. ASSUME j \in 1 .. Len(todo[u]), Deep(todo[u], j) = Step("destroy", n)
          PROVE  n # m
      BY <1>0, <1>5, <3>1 DEF Ends
    <3>2. CASE u # t
      BY <1>13, <2>1, <3>1, <3>2
    <3>3. CASE u = t /\ j < Len(s)
      BY <1>13, <2>1, <3>1, <3>3 DEF Fronted
    <3>4. CASE u = t /\ ~(j < Len(s))
      <4>1. j >= Len(s) /\ j \in 1 .. Len(q)
        BY <1>2, <1>13, <3>4
      <4>2. Deep(q, j) = p[Len(q) + 1 - j] /\ Len(q) + 1 - j \in 1 .. Len(p)
        BY <1>13, <4>1 DEF Fronted
      <4>3. player[m].refs = 1
        BY <1>12, <4>2
      <4>4. n = m /\ p[Len(q) + 1 - j].op = "destroy"
        BY <1>11, <2>1, <3>4, <4>2 DEF Step
      <4>5. Len(q) + 1 - j = 3
        <5>1. /\ Len(p) = 3 /\ p[1] = Step("stop", m) /\ p[2] = Step("close", m)
          BY <1>12, <4>3
        <5>2. p[1].op = "stop" /\ p[2].op = "close"
          BY <5>1 DEF Step
        <5>3. \A i \in 1 .. Len(p) : i \in {1, 2, 3}
          BY <5>1
        <5>4. QED
          BY <4>2, <4>4, <5>2, <5>3
      <4>6. Len(q) = 3 + Len(s) - 1 /\ Len(s) \in Int /\ Len(q) \in Int
        <5>1. Len(p) = 3
          BY <1>12, <4>3
        <5>2. Len(q) = Len(p) + Len(s) - 1 /\ Len(s) \in Nat
          BY <1>13 DEF Fronted
        <5>3. QED
          BY <5>1, <5>2
      <4>7. j = Len(s)
        <5> DEFINE a == Len(q)  b == Len(s)
        <5>1. a = 3 + b - 1 /\ b \in Int /\ a \in Int /\ j \in 1 .. a /\ a + 1 - j = 3
          BY <4>1, <4>5, <4>6
        <5> HIDE DEF a, b
        <5>2. j = b
          BY <5>1
        <5>3. QED
          BY <5>2 DEF b
      <4>8. QED
        BY <3>4, <4>3, <4>4, <4>7
    <3>5. QED
      BY <3>2, <3>3, <3>4
  <2>2. ASSUME NEW u \in Threads, NEW n \in Players, NEW j \in 1 .. Len(todo'[u]),
               Deep(todo'[u], j) = Step("destroy", n)
        PROVE  player'[n].refs = 0 /\ player'[n].state = "live"
    <3>1. CASE n = m
      BY <1>9, <2>1, <2>2, <3>1
    <3>2. CASE n # m
      <4>1. j \in 1 .. Len(todo[u]) /\ Deep(todo[u], j) = Step("destroy", n)
        BY <2>1, <2>2, <3>2
      <4>2. QED
        BY <1>0, <1>8, <3>2, <4>1 DEF Ends
    <3>3. QED
      BY <3>1, <3>2
  <2>3. ASSUME NEW u \in Threads, NEW v \in Threads, NEW j \in 1 .. Len(todo'[u]),
               NEW k \in 1 .. Len(todo'[v]), NEW n \in Players,
               Deep(todo'[u], j) = Step("destroy", n),
               Deep(todo'[v], k) = Step("destroy", n)
        PROVE  u = v /\ j = k
    <3>1. CASE n = m
      BY <2>1, <2>3, <3>1
    <3>2. CASE n # m
      <4>1. /\ j \in 1 .. Len(todo[u]) /\ Deep(todo[u], j) = Step("destroy", n)
            /\ k \in 1 .. Len(todo[v]) /\ Deep(todo[v], k) = Step("destroy", n)
        BY <2>1, <2>3, <3>2
      <4>2. QED
        BY <1>0, <4>1 DEF Ends
    <3>3. QED
      BY <3>1, <3>2
  <2>4. QED
    BY <2>2, <2>3 DEF Ends
<1>19. Lives'
  <2>1. ASSUME NEW n \in Players
        PROVE  /\ player'[n].refs > 0 => player'[n].state = "live"
               /\ player'[n].state = "none" => ~player'[n].prepared /\ player'[n].refs = 0
    <3>1. CASE n = m
      BY <1>9, <3>1
    <3>2. CASE n # m
      BY <1>0, <1>8, <3>2 DEF Lives
    <3>3. QED
      BY <3>1, <3>2
  <2>2. ASSUME NEW n \in Players, ~player'[n].prepared
        PROVE  todo'[n] = <<>>
    <3>1. ~player[n].prepared
      BY <1>8, <1>9, <2>2
    <3>2. todo[n] = <<>> /\ n \in Threads
      BY <1>0, <3>1 DEF Lives, Threads
    <3>3. n # t
      BY <1>1, <3>2
    <3>4. QED
      BY <1>13, <3>2, <3>3
  <2>3. QED
    BY <2>1, <2>2 DEF Lives
<1>20. UiSteps'
  <2>1. Fresh => Fresh'
    <3>1. \A n \in Players : player'[n].state = player[n].state
      BY <1>5, <1>8, <1>9
    <3>2. QED
      BY <3>1 DEF Fresh
  <2>2. \A i \in 1 .. Len(p) :
          p[i].op \notin {"prepare", "takeWeak", "setup", "unset", "unweak"}
    BY <1>11
  <2>3. QED
    BY <1>1, <1>10, <2>1, <2>2, UiGoesOn
<1>21. QED
  BY <1>14, <1>16, <1>17, <1>18, <1>19, <1>20 DEF RefsInv

LEMMA Destroys ==
  ASSUME RefsInv, NEW t \in Threads, Destroy(t)
  PROVE  RefsInv'
<1> DEFINE s == todo[t]  x == Head(todo[t])  m == x.mp  q == todo'[t]
<1>0. /\ Typed /\ StacksOk /\ Counted /\ Ends /\ Lives /\ UiSteps
  BY DEF RefsInv
<1>1. /\ s # <<>> /\ x.op = "destroy" /\ Then(t, <<>>) /\ UNCHANGED <<cur, handles>>
      /\ player' = [player EXCEPT ![m].state = "freed"]
  BY DEF Destroy, Does, Next1
<1>2. /\ x \in Steps /\ m \in Players /\ Deep(s, Len(s)) = x /\ Len(s) \in 1 .. Len(s)
  BY <1>1, TopStep
<1>3. x = Step("destroy", m)
  BY <1>1, <1>2 DEF Steps, Step
<1>4. player[m].refs = 0 /\ player[m].state = "live"
  BY <1>0, <1>2, <1>3 DEF Ends
<1>5. player[m] \in PlayerRecords
  BY <1>0, <1>2 DEF Typed
<1>6. [player[m] EXCEPT !.state = "freed"] \in PlayerRecords
  BY <1>5 DEF PlayerRecords
<1>7. /\ player'[m] = [player[m] EXCEPT !.state = "freed"]
      /\ \A n \in Players \ {m} : player'[n] = player[n]
      /\ player' \in [Players -> PlayerRecords]
  BY <1>0, <1>1, <1>2, <1>6 DEF Typed
<1>8. /\ player'[m].refs = 0
      /\ player'[m].state = "freed"
      /\ player'[m].prepared = player[m].prepared
  BY <1>4, <1>5, <1>7 DEF PlayerRecords
<1>9. <<>> \in Seq(Steps) /\ Len(<<>>) = 0
  OBVIOUS
<1>10. /\ todo' \in [Threads -> Seq(Steps)] /\ q \in Seq(Steps)
       /\ Fronted(s, <<>>, q)
       /\ \A u \in Threads \ {t} : todo'[u] = todo[u]
  BY <1>0, <1>1, <1>9, Thens, Zenon
<1>11. Typed'
  BY <1>0, <1>1, <1>7, <1>10 DEF Typed
<1>12. StacksOk'
  <2>1. StackOk(t, q)
    <3>1. Follows(x, <<>>)
      BY DEF Follows
    <3>2. StackOk(t, s)
      BY <1>0 DEF StacksOk
    <3>3. QED
      BY <1>10, <3>1, <3>2, FollowsOk, Zenon
  <2>2. ASSUME NEW u \in Threads \ {t}
        PROVE  StackOk(u, todo'[u])
    BY <1>0, <1>10 DEF StacksOk
  <2>3. QED
    BY <2>1, <2>2 DEF StacksOk
<1>13. Counted'
  <2>1. ASSUME NEW n \in Players
        PROVE  Owned(todo', n) = Owned(todo, n)
    <3>1. x # Step("dec", n) /\ \A i \in 1 .. Len(<<>>) : <<>>[i] # Step("dec", n)
      BY <1>1 DEF Step
    <3>2. QED
      BY <1>0, <1>1, <1>9, <3>1, OthersStay, Zenon
  <2>2. QED
    BY <1>0, <1>1, <1>4, <1>7, <1>8, <2>1 DEF Counted
<1>14. Ends'
  <2>1. \A i \in 1 .. Len(<<>>) : <<>>[i].op # "destroy"
    OBVIOUS
  <2>2. \A u \in Threads : \A n \in Players : \A j \in 1 .. Len(todo'[u]) :
          Deep(todo'[u], j) = Step("destroy", n) =>
            j \in 1 .. Len(todo[u]) /\ Deep(todo[u], j) = Step("destroy", n)
    BY <1>0, <1>1, <1>9, <2>1, NoNewEnds, Zenon
  <2>3. ASSUME NEW u \in Threads, NEW j \in 1 .. Len(todo'[u]),
               Deep(todo'[u], j) = Step("destroy", m)
        PROVE  FALSE
    <3>1. j \in 1 .. Len(todo[u]) /\ Deep(todo[u], j) = Step("destroy", m)
      BY <1>2, <2>2, <2>3
    <3>2. u = t /\ j = Len(s)
      BY <1>0, <1>2, <1>3, <3>1 DEF Ends
    <3>3. Len(q) = Len(s) - 1
      BY <1>9, <1>10 DEF Fronted
    <3>4. QED
      BY <1>2, <2>3, <3>2, <3>3
  <2>4. ASSUME NEW u \in Threads, NEW j \in 1 .. Len(todo'[u]), NEW n \in Players,
               Deep(todo'[u], j) = Step("destroy", n)
        PROVE  player'[n].refs = 0 /\ player'[n].state = "live"
    <3>1. n # m
      BY <2>3, <2>4
    <3>2. j \in 1 .. Len(todo[u]) /\ Deep(todo[u], j) = Step("destroy", n)
      BY <2>2, <2>4
    <3>3. QED
      BY <1>0, <1>7, <3>1, <3>2 DEF Ends
  <2>5. ASSUME NEW u \in Threads, NEW v \in Threads, NEW j \in 1 .. Len(todo'[u]),
               NEW k \in 1 .. Len(todo'[v]), NEW n \in Players,
               Deep(todo'[u], j) = Step("destroy", n),
               Deep(todo'[v], k) = Step("destroy", n)
        PROVE  u = v /\ j = k
    <3>1. /\ j \in 1 .. Len(todo[u]) /\ Deep(todo[u], j) = Step("destroy", n)
          /\ k \in 1 .. Len(todo[v]) /\ Deep(todo[v], k) = Step("destroy", n)
      BY <2>2, <2>5
    <3>2. QED
      BY <1>0, <3>1 DEF Ends
  <2>6. QED
    BY <2>4, <2>5 DEF Ends
<1>15. Lives'
  <2>1. ASSUME NEW n \in Players
        PROVE  /\ player'[n].refs > 0 => player'[n].state = "live"
               /\ player'[n].state = "none" => ~player'[n].prepared /\ player'[n].refs = 0
    <3>1. CASE n = m
      BY <1>8, <3>1
    <3>2. CASE n # m
      BY <1>0, <1>7, <3>2 DEF Lives
    <3>3. QED
      BY <3>1, <3>2
  <2>2. ASSUME NEW n \in Players, ~player'[n].prepared
        PROVE  todo'[n] = <<>>
    <3>1. ~player[n].prepared
      BY <1>7, <1>8, <2>2
    <3>2. todo[n] = <<>> /\ n \in Threads
      BY <1>0, <3>1 DEF Lives, Threads
    <3>3. n # t
      BY <1>1, <3>2
    <3>4. QED
      BY <1>10, <3>2, <3>3
  <2>3. QED
    BY <2>1, <2>2 DEF Lives
<1>16. UiSteps'
  <2>1. Fresh => Fresh'
    <3>1. ASSUME NEW n \in Players, player[n].state = "none"
          PROVE  player'[n].state = "none"
      BY <1>4, <1>7, <3>1
    <3>2. QED
      BY <3>1 DEF Fresh
  <2>2. \A i \in 1 .. Len(<<>>) :
          <<>>[i].op \notin {"prepare", "takeWeak", "setup", "unset", "unweak"}
    OBVIOUS
  <2>3. Head(todo[t]).op # "unset" /\ cur' = cur
    BY <1>1
  <2>4. QED
    BY <1>1, <1>9, <2>1, <2>2, <2>3, UiGoesOn, Zenon
<1>17. QED
  BY <1>11, <1>12, <1>13, <1>14, <1>15, <1>16 DEF RefsInv

-----------------------------------------------------------------------------
(***************************************************************************)
(* The object lets go of its player: its reference is the thread's now.    *)
(***************************************************************************)
LEMMA Unsets ==
  ASSUME RefsInv, NEW t \in Threads, Unset(t)
  PROVE  RefsInv'
<1> DEFINE s == todo[t]  x == Head(todo[t])  q == todo'[t]
           p == IF cur = 0 THEN <<>> ELSE <<Step("dec", cur)>>
<1>0. /\ Typed /\ StacksOk /\ Counted /\ Ends /\ Lives /\ UiSteps
  BY DEF RefsInv
<1>1. /\ s # <<>> /\ x.op = "unset" /\ Then(t, p) /\ UNCHANGED <<player, handles>>
      /\ cur' = 0
  BY DEF Unset, Does, Next1
<1>2. /\ Deep(s, Len(s)) = x /\ Len(s) \in 1 .. Len(s) /\ OkAt(t, s, Len(s))
  BY <1>1, TopStep
<1>3. t = Ui
  BY <1>1, <1>2 DEF OkAt, UiOps
<1>4. cur \in Players \cup {0} /\ 0 \notin Players
  BY <1>0 DEF Typed, Players
<1>5. p \in Seq(Steps)
  <2>1. cur # 0 => <<Step("dec", cur)>> \in Seq(Steps)
    BY <1>4 DEF Steps, Step, Ops
  <2>2. QED
    BY <2>1
<1>6. /\ cur # 0 => Len(p) = 1 /\ p[1] = Step("dec", cur)
      /\ cur = 0 => Len(p) = 0
  <2>1. CASE cur = 0
    BY <2>1
  <2>2. CASE cur # 0
    BY <2>2
  <2>3. QED
    BY <2>1, <2>2
<1> HIDE DEF p
<1>7. \A i \in 1 .. Len(p) : cur # 0 /\ i = 1 /\ p[i] = Step("dec", cur)
  <2>1. CASE cur = 0
    <3>1. 1 .. Len(p) = {}
      BY <1>6, <2>1
    <3>2. QED
      BY <3>1
  <2>2. CASE cur # 0
    <3>1. Len(p) = 1 /\ p[1] = Step("dec", cur)
      BY <1>6, <2>2
    <3>2. \A i \in 1 .. Len(p) : i = 1
      BY <3>1
    <3>3. QED
      BY <2>2, <3>1, <3>2
  <2>3. QED
    BY <2>1, <2>2
<1>8. \A i \in 1 .. Len(p) : cur # 0 /\ p[i].op = "dec" /\ p[i].mp = cur
  BY <1>7 DEF Step
<1>9. /\ todo' \in [Threads -> Seq(Steps)] /\ q \in Seq(Steps)
      /\ Fronted(s, p, q)
      /\ \A u \in Threads \ {t} : todo'[u] = todo[u]
  BY <1>0, <1>1, <1>5, Thens, Zenon
<1>10. Typed'
  BY <1>0, <1>1, <1>9 DEF Typed
<1>11. StacksOk'
  <2>0. StackOk(t, s)
    BY <1>0 DEF StacksOk
  <2>1. ASSUME NEW j \in 1 .. Len(q)
        PROVE  OkAt(t, q, j)
    <3>1. CASE j < Len(s)
      BY <1>9, <2>0, <3>1, RestOk
    <3>2. CASE ~(j < Len(s))
      <4>1. j >= Len(s)
        BY <1>2, <1>9, <3>2
      <4>2. PICK i \in 1 .. Len(p) : Deep(q, j) = p[i]
        BY <1>9, <4>1 DEF Fronted
      <4>3. Deep(q, j).op = "dec" /\ Deep(q, j).mp # 0
        BY <1>8, <4>2
      <4>4. QED
        BY <4>3 DEF OkAt, CallOps, EndOps, LoopOps, UiOps
    <3>3. QED
      BY <3>1, <3>2
  <2>2. StackOk(t, q)
    BY <2>1 DEF StackOk
  <2>3. ASSUME NEW u \in Threads \ {t}
        PROVE  StackOk(u, todo'[u])
    BY <1>0, <1>9 DEF StacksOk
  <2>4. QED
    BY <2>2, <2>3 DEF StacksOk
<1>12. Counted'
  <2>1. ASSUME NEW n \in Players, n # cur
        PROVE  Owned(todo', n) = Owned(todo, n)
    <3>1. x # Step("dec", n) /\ \A i \in 1 .. Len(p) : p[i] # Step("dec", n)
      BY <1>1, <1>8, <2>1 DEF Step
    <3>2. QED
      BY <1>0, <1>1, <1>5, <3>1, OthersStay, Zenon
  <2>2. ASSUME cur # 0
        PROVE  /\ IsFiniteSet(Owned(todo', cur))
               /\ Cardinality(Owned(todo', cur)) = Cardinality(Owned(todo, cur)) + 1
    <3>1. 1 \in 1 .. Len(p) /\ p[1] = Step("dec", cur)
      BY <1>6, <2>2
    <3>2. x # Step("dec", cur) /\ \A k \in 1 .. Len(p) : p[k] = Step("dec", cur) => k = 1
      BY <1>1, <1>7 DEF Step
    <3>3. /\ Places(q, cur) = Places(s, cur) \cup {Len(q) + 1 - 1}
          /\ Len(q) + 1 - 1 \notin Places(s, cur) /\ Len(q) + 1 - 1 \in Nat
      BY <1>9, <3>1, <3>2, PlacesMore
    <3>4. PICK d \in Nat : d = Len(q) + 1 - 1
      BY <3>3
    <3>5. \A u \in Threads \ {t} : Places(todo'[u], cur) = Places(todo[u], cur)
      BY <1>9
    <3>6. IsFiniteSet(Owned(todo, cur))
      BY <1>0, <1>4, <2>2 DEF Counted
    <3>7. /\ Places(todo'[t], cur) = Places(todo[t], cur) \cup {d}
          /\ d \notin Places(todo[t], cur)
      BY <3>3, <3>4
    <3>8. QED
      BY <3>5, <3>6, <3>7, OwnedMore, Zenon
  <2>3. ASSUME NEW n \in Players
        PROVE  /\ IsFiniteSet(Owned(todo', n))
               /\ player'[n].refs = Cardinality(Owned(todo', n)) + (IF cur' = n THEN 1 ELSE 0)
    <3>1. /\ IsFiniteSet(Owned(todo, n)) /\ Cardinality(Owned(todo, n)) \in Nat
          /\ player[n].refs = Cardinality(Owned(todo, n)) + (IF cur = n THEN 1 ELSE 0)
      BY <1>0, FS_CardinalityType DEF Counted
    <3>2. player' = player /\ cur' # n
      BY <1>1, <1>4
    <3>3. CASE n = cur
      BY <1>4, <2>2, <3>1, <3>2, <3>3
    <3>4. CASE n # cur
      BY <2>1, <3>1, <3>2, <3>4
    <3>5. QED
      BY <3>3, <3>4
  <2>4. QED
    BY <2>3 DEF Counted
<1>13. Ends'
  <2>1. \A i \in 1 .. Len(p) : p[i].op # "destroy"
    BY <1>8
  <2>2. \A u \in Threads : \A n \in Players : \A j \in 1 .. Len(todo'[u]) :
          Deep(todo'[u], j) = Step("destroy", n) =>
            j \in 1 .. Len(todo[u]) /\ Deep(todo[u], j) = Step("destroy", n)
    BY <1>0, <1>1, <1>5, <2>1, NoNewEnds, Zenon
  <2>3. QED
    BY <1>0, <1>1, <2>2, EndsKept
<1>14. Lives'
  <2>1. ASSUME NEW n \in Players, ~player'[n].prepared
        PROVE  todo'[n] = <<>>
    <3>1. todo[n] = <<>> /\ n \in Threads
      BY <1>0, <1>1, <2>1 DEF Lives, Threads
    <3>2. n # t
      BY <1>1, <3>1
    <3>3. QED
      BY <1>9, <3>1, <3>2
  <2>2. QED
    BY <1>0, <1>1, <2>1 DEF Lives
<1>15. UiSteps'
  <2>1. Fresh => Fresh'
    BY <1>1 DEF Fresh
  <2>2. \A i \in 1 .. Len(p) :
          p[i].op \notin {"prepare", "takeWeak", "setup", "unset", "unweak"}
    BY <1>8
  <2>3. QED
    BY <1>1, <1>3, <1>5, <2>1, <2>2, UiGoesOn
<1>16. QED
  BY <1>10, <1>11, <1>12, <1>13, <1>14, <1>15 DEF RefsInv

(***************************************************************************)
(* native_setup: the object has let go of its player before, and the new   *)
(* one is one that nobody knows.                                           *)
(***************************************************************************)
LEMMA FreshLeast ==
  ASSUME Fresh
  PROVE  \E m \in Players : /\ player[m].state = "none"
                            /\ \A n \in 1 .. (m - 1) : player[n].state # "none"
<1> DEFINE T == {m \in Players : player[m].state = "none"}
<1>1. T \subseteq Nat /\ T # {}
  BY PlayersAssumption DEF Fresh, Players
<1>2. PICK m \in T : \A n \in T : m <= n
  BY <1>1, Least
<1>3. ASSUME NEW n \in 1 .. (m - 1)
      PROVE  player[n].state # "none"
  <2>1. m \in 1 .. MaxPlayers /\ MaxPlayers \in Nat
    BY PlayersAssumption DEF Players
  <2>2. n \in Players /\ ~(m <= n)
    BY <2>1 DEF Players
  <2>3. QED
    BY <1>2, <2>2
<1>4. QED
  BY <1>2, <1>3

LEMMA NewPlayers ==
  ASSUME NEW h \in Players \cup {0}
  PROVE  /\ NewPlayer(h) \in PlayerRecords
         /\ NewPlayer(h).state = "live" /\ NewPlayer(h).refs = 2
         /\ NewPlayer(h).prepared = FALSE /\ NewPlayer(h).read = "none"
         /\ NewPlayer(h).weak = h /\ NewPlayer(h).opaque = h
<1>1. /\ NoPlayer \in PlayerRecords
      /\ NoPlayer.prepared = FALSE /\ NoPlayer.read = "none"
  BY DEF NoPlayer, PlayerRecords
<1>2. NewPlayer(h) \in PlayerRecords
  BY <1>1 DEF NewPlayer, PlayerRecords
<1>3. /\ NewPlayer(h).state = "live" /\ NewPlayer(h).refs = 2
      /\ NewPlayer(h).weak = h /\ NewPlayer(h).opaque = h
      /\ NewPlayer(h).prepared = NoPlayer.prepared
      /\ NewPlayer(h).read = NoPlayer.read
  BY <1>1 DEF NewPlayer, PlayerRecords
<1>4. QED
  BY <1>1, <1>2, <1>3

LEMMA Setups ==
  ASSUME RefsInv, NEW t \in Threads, Setup(t)
  PROVE  /\ RefsInv' /\ t = Ui /\ cur = 0 /\ cur' \in Players
         /\ todo[t] # <<>> /\ Head(todo[t]).op = "setup"
         /\ Then(t, <<Step("dec", cur')>>)
         /\ player'[cur'] = NewPlayer(IF Head(todo[t]).mp = 0 THEN 0 ELSE cur')
         /\ handles' = handles \cup (IF Head(todo[t]).mp = 0 THEN {} ELSE {cur'})
         /\ \A n \in Players \ {cur'} : player'[n] = player[n]
<1> DEFINE s == todo[t]  x == Head(todo[t])  q == todo'[t]
           m == CHOOSE m \in Players :
                  /\ player[m].state = "none"
                  /\ \A n \in 1 .. (m - 1) : player[n].state # "none"
           p == <<Step("dec", m)>>
           h == IF x.mp = 0 THEN 0 ELSE m
<1>0. /\ Typed /\ StacksOk /\ Counted /\ Ends /\ Lives /\ UiSteps
  BY DEF RefsInv
<1>1. /\ s # <<>> /\ x.op = "setup" /\ Then(t, p)
      /\ player' = [player EXCEPT ![m] = NewPlayer(h)]
      /\ handles' = handles \cup (IF x.mp = 0 THEN {} ELSE {m})
      /\ cur' = m
  BY DEF Setup, Does, Next1
<1>2. /\ Deep(s, Len(s)) = x /\ Len(s) \in 1 .. Len(s) /\ OkAt(t, s, Len(s))
  BY <1>1, TopStep
<1>3. t = Ui
  BY <1>1, <1>2 DEF OkAt, UiOps
<1>4. Fresh
  BY <1>0, <1>1, <1>2, <1>3 DEF UiSteps
<1>5. m \in Players /\ player[m].state = "none"
  BY <1>4, FreshLeast
<1>6. cur = 0
  <2>1. cur = 0 \/ Above(s, Len(s), "unset")
    BY <1>0, <1>1, <1>2, <1>3 DEF UiSteps, UiStack
  <2>2. Len(s) \in Nat
    BY <1>0 DEF Typed
  <2>3. (Len(s) + 1) .. Len(s) = {}
    BY <2>2
  <2>4. QED
    BY <2>1, <2>3 DEF Above
<1>7. x.mp \in Players \cup {0} /\ 0 \notin Players
  BY <1>1, TopStep DEF Players
<1>8. h \in Players \cup {0}
  BY <1>5, <1>7
<1> HIDE DEF m, h
<1>9. player[m].refs = 0 /\ ~player[m].prepared /\ todo[m] = <<>>
  BY <1>0, <1>5 DEF Lives
<1>10. /\ NewPlayer(h) \in PlayerRecords
       /\ NewPlayer(h).state = "live" /\ NewPlayer(h).refs = 2
       /\ NewPlayer(h).prepared = FALSE
  BY <1>8, NewPlayers
<1>11. /\ player'[m] = NewPlayer(h)
       /\ \A n \in Players \ {m} : player'[n] = player[n]
       /\ player' \in [Players -> PlayerRecords]
  BY <1>0, <1>1, <1>5, <1>10 DEF Typed
<1>12. p \in Seq(Steps)
  BY <1>5 DEF Steps, Step, Ops
<1>13. Len(p) = 1 /\ p[1] = Step("dec", m)
  OBVIOUS
<1> HIDE DEF p
<1>14. \A i \in 1 .. Len(p) : i = 1 /\ p[i].op = "dec" /\ p[i].mp = m
  BY <1>13 DEF Step
<1>15. /\ todo' \in [Threads -> Seq(Steps)] /\ q \in Seq(Steps)
       /\ Fronted(s, p, q)
       /\ \A u \in Threads \ {t} : todo'[u] = todo[u]
  BY <1>0, <1>1, <1>12, Thens, Zenon
<1>16. Typed'
  BY <1>0, <1>1, <1>5, <1>11, <1>15 DEF Typed
<1>17. StacksOk'
  <2>0. StackOk(t, s)
    BY <1>0 DEF StacksOk
  <2>1. ASSUME NEW j \in 1 .. Len(q)
        PROVE  OkAt(t, q, j)
    <3>1. CASE j < Len(s)
      BY <1>15, <2>0, <3>1, RestOk
    <3>2. CASE ~(j < Len(s))
      <4>1. j >= Len(s)
        BY <1>2, <1>15, <3>2
      <4>2. PICK i \in 1 .. Len(p) : Deep(q, j) = p[i]
        BY <1>15, <4>1 DEF Fronted
      <4>3. Deep(q, j).op = "dec" /\ Deep(q, j).mp # 0
        BY <1>5, <1>7, <1>14, <4>2
      <4>4. QED
        BY <4>3 DEF OkAt, CallOps, EndOps, LoopOps, UiOps
    <3>3. QED
      BY <3>1, <3>2
  <2>2. StackOk(t, q)
    BY <2>1 DEF StackOk
  <2>3. ASSUME NEW u \in Threads \ {t}
        PROVE  StackOk(u, todo'[u])
    BY <1>0, <1>15 DEF StacksOk
  <2>4. QED
    BY <2>2, <2>3 DEF StacksOk
<1>18. Counted'
  <2>1. ASSUME NEW n \in Players, n # m
        PROVE  Owned(todo', n) = Owned(todo, n)
    <3>1. x # Step("dec", n) /\ \A i \in 1 .. Len(p) : p[i] # Step("dec", n)
      BY <1>1, <1>14, <2>1 DEF Step
    <3>2. QED
      BY <1>0, <1>1, <1>12, <3>1, OthersStay, Zenon
  <2>2. /\ IsFiniteSet(Owned(todo', m))
        /\ Cardinality(Owned(todo', m)) = Cardinality(Owned(todo, m)) + 1
    <3>1. 1 \in 1 .. Len(p) /\ p[1] = Step("dec", m)
      BY <1>13
    <3>2. x # Step("dec", m) /\ \A k \in 1 .. Len(p) : p[k] = Step("dec", m) => k = 1
      BY <1>1, <1>14 DEF Step
    <3>3. /\ Places(q, m) = Places(s, m) \cup {Len(q) + 1 - 1}
          /\ Len(q) + 1 - 1 \notin Places(s, m) /\ Len(q) + 1 - 1 \in Nat
      BY <1>15, <3>1, <3>2, PlacesMore
    <3>4. PICK d \in Nat : d = Len(q) + 1 - 1
      BY <3>3
    <3>5. \A u \in Threads \ {t} : Places(todo'[u], m) = Places(todo[u], m)
      BY <1>15
    <3>6. IsFiniteSet(Owned(todo, m))
      BY <1>0, <1>5 DEF Counted
    <3>7. /\ Places(todo'[t], m) = Places(todo[t], m) \cup {d}
          /\ d \notin Places(todo[t], m)
      BY <3>3, <3>4
    <3>8. QED
      BY <3>5, <3>6, <3>7, OwnedMore, Zenon
  <2>3. ASSUME NEW n \in Players
        PROVE  /\ IsFiniteSet(Owned(todo', n))
               /\ player'[n].refs = Cardinality(Owned(todo', n)) + (IF cur' = n THEN 1 ELSE 0)
    <3>1. /\ IsFiniteSet(Owned(todo, n)) /\ Cardinality(Owned(todo, n)) \in Nat
          /\ player[n].refs = Cardinality(Owned(todo, n))
      BY <1>0, <1>6, <1>7, FS_CardinalityType DEF Counted
    <3>2. CASE n = m
      BY <1>1, <1>9, <1>10, <1>11, <2>2, <3>1, <3>2
    <3>3. CASE n # m
      BY <1>1, <1>11, <2>1, <3>1, <3>3
    <3>4. QED
      BY <3>2, <3>3
  <2>4. QED
    BY <2>3 DEF Counted
<1>19. Ends'
  <2>1. \A i \in 1 .. Len(p) : p[i].op # "destroy"
    BY <1>14
  <2>2. \A u \in Threads : \A n \in Players : \A j \in 1 .. Len(todo'[u]) :
          Deep(todo'[u], j) = Step("destroy", n) =>
            j \in 1 .. Len(todo[u]) /\ Deep(todo[u], j) = Step("destroy", n)
    BY <1>0, <1>1, <1>12, <2>1, NoNewEnds, Zenon
  <2>3. ASSUME NEW n \in Players
        PROVE  \/ player'[n].refs = player[n].refs /\ player'[n].state = player[n].state
               \/ player[n].state # "live"
    BY <1>5, <1>11
  <2>4. QED
    BY <1>0, <2>2, <2>3, EndsKept
<1>20. Lives'
  <2>1. ASSUME NEW n \in Players, ~player'[n].prepared
        PROVE  todo'[n] = <<>>
    <3>1. todo[n] = <<>> /\ n \in Threads
      BY <1>0, <1>9, <1>11, <2>1 DEF Lives, Threads
    <3>2. n # t
      BY <1>1, <3>1
    <3>3. QED
      BY <1>15, <3>1, <3>2
  <2>2. ASSUME NEW n \in Players
        PROVE  /\ player'[n].refs > 0 => player'[n].state = "live"
               /\ player'[n].state = "none" => ~player'[n].prepared /\ player'[n].refs = 0
    <3>1. CASE n = m
      BY <1>10, <1>11, <3>1
    <3>2. CASE n # m
      BY <1>0, <1>11, <3>2 DEF Lives
    <3>3. QED
      BY <3>1, <3>2
  <2>3. QED
    BY <2>1, <2>2 DEF Lives
<1>21. UiSteps'
  <2>1. \A i \in 1 .. Len(p) :
          p[i].op \notin {"prepare", "takeWeak", "setup", "unset", "unweak"}
    BY <1>14
  <2>2. QED
    BY <1>1, <1>3, <1>12, <2>1, UiGoesOn
<1>22. RefsInv'
  BY <1>16, <1>17, <1>18, <1>19, <1>20, <1>21 DEF RefsInv
<1>23. QED
  BY <1>1, <1>3, <1>5, <1>6, <1>11, <1>22 DEF h, p

LEMMA SixJoined ==
  ASSUME NEW a, NEW b, NEW c, NEW d, NEW e, NEW f
  PROVE  <<a, b, c, d>> \o <<e, f>> = <<a, b, c, d, e, f>>
<1> DEFINE S == {a, b, c, d, e, f}
           u == <<a, b, c, d>>  v == <<e, f>>  w == <<a, b, c, d, e, f>>
<1>1. u \in Seq(S) /\ v \in Seq(S) /\ w \in Seq(S)
  OBVIOUS
<1>2. Len(u) = 4 /\ Len(v) = 2 /\ Len(w) = 6
  OBVIOUS
<1>3. /\ u[1] = a /\ u[2] = b /\ u[3] = c /\ u[4] = d /\ v[1] = e /\ v[2] = f
      /\ w[1] = a /\ w[2] = b /\ w[3] = c /\ w[4] = d /\ w[5] = e /\ w[6] = f
  OBVIOUS
<1> HIDE DEF S, u, v, w
<1>4. /\ u \o v \in Seq(S) /\ Len(u \o v) = 6
      /\ \A i \in 1 .. 6 : (u \o v)[i] = IF i <= 4 THEN u[i] ELSE v[i - 4]
  <2>1. /\ u \o v \in Seq(S) /\ Len(u \o v) = Len(u) + Len(v)
        /\ \A i \in 1 .. Len(u) + Len(v) :
             (u \o v)[i] = IF i <= Len(u) THEN u[i] ELSE v[i - Len(u)]
    BY <1>1, ConcatProperties
  <2>2. QED
    BY <1>2, <2>1
<1>5. \A i \in 1 .. 6 : i \in {1, 2, 3, 4, 5, 6}
  OBVIOUS
<1>6. /\ (u \o v)[1] = w[1] /\ (u \o v)[2] = w[2] /\ (u \o v)[3] = w[3]
      /\ (u \o v)[4] = w[4] /\ (u \o v)[5] = w[5] /\ (u \o v)[6] = w[6]
  BY <1>3, <1>4
<1>7. \A i \in 1 .. 6 : (u \o v)[i] = w[i]
  BY <1>5, <1>6
<1>8. u \o v = w
  BY <1>1, <1>2, <1>4, <1>7, SeqEqual
<1>9. QED
  BY <1>8 DEF u, v, w

(***************************************************************************)
(* A reset takes another reference to shut the player down with.           *)
(***************************************************************************)
Taken(q, c, w) ==
  /\ Len(q) = 8
  /\ Deep(q, 1) = Step("clear", 0) /\ Deep(q, 2) = Step("dec", c)
  /\ Deep(q, 3) = Step("setup", w) /\ Deep(q, 4) = Step("dec", c)
  /\ Deep(q, 5) = Step("unset", c) /\ Deep(q, 6) = Step("unweak", c)
  /\ Deep(q, 7) = Step("close", c) /\ Deep(q, 8) = Step("stop", c)

LEMMA TakesWeak ==
  ASSUME RefsInv, NEW t \in Threads, TakeWeak(t)
  PROVE  /\ RefsInv' /\ t = Ui /\ cur \in Players /\ UNCHANGED <<cur, handles>>
         /\ Resets(todo[Ui], cur) /\ Taken(todo'[Ui], cur, player[cur].weak)
         /\ \A n \in Players : /\ player'[n].read = player[n].read
                               /\ player'[n].opaque = player[n].opaque
                               /\ player'[n].is = player[n].is
                               /\ player'[n].prepared = player[n].prepared
<1> DEFINE s == todo[t]  x == Head(todo[t])  q == todo'[t]  w == player[cur].weak
           p == <<Step("stop", cur), Step("close", cur), Step("unweak", cur),
                  Step("unset", cur), Step("dec", cur), Step("setup", w)>>
<1>0. /\ Typed /\ StacksOk /\ Counted /\ Ends /\ Lives /\ UiSteps
  BY DEF RefsInv
<1>1. /\ s # <<>> /\ x.op = "takeWeak" /\ UNCHANGED <<cur, handles>>
      /\ player' = [player EXCEPT ![x.mp].weak = 0, ![cur].refs = @ + 1]
      /\ Then(t, ReleaseSteps(cur) \o <<Step("dec", cur), Step("setup", player[x.mp].weak)>>)
  BY DEF TakeWeak, Does, Next1
<1>2. /\ Deep(s, Len(s)) = x /\ Len(s) \in 1 .. Len(s) /\ OkAt(t, s, Len(s))
  BY <1>1, TopStep
<1>3. t = Ui
  BY <1>1, <1>2 DEF OkAt, UiOps
<1>4. cur # 0 /\ Resets(s, cur) /\ Fresh
  BY <1>0, <1>1, <1>2, <1>3 DEF UiSteps, UiStack
<1>5. /\ Len(s) = 3 /\ x.mp = cur
      /\ Deep(s, 1) = Step("clear", 0) /\ Deep(s, 2) = Step("dec", cur)
  BY <1>4 DEF Resets, Step, Deep
<1>6. cur \in Players /\ player[cur].refs \in Nat /\ player[cur].refs # 0
  BY <1>0, <1>4, CountedPlayer
<1>7. player[cur] \in PlayerRecords
  BY <1>0, <1>6 DEF Typed
<1>8. w \in Players \cup {0}
  BY <1>7 DEF PlayerRecords
<1> HIDE DEF w
<1>9. p \in Seq(Steps)
  BY <1>6, <1>8 DEF Steps, Step, Ops, CallOps, EndOps
<1>10. Then(t, p)
  <2>1. ReleaseSteps(cur) \o <<Step("dec", cur), Step("setup", w)>> = p
    BY SixJoined DEF ReleaseSteps
  <2>2. QED
    BY <1>1, <1>5, <2>1 DEF w
<1>11. /\ Len(p) = 6
       /\ p[1] = Step("stop", cur) /\ p[2] = Step("close", cur)
       /\ p[3] = Step("unweak", cur) /\ p[4] = Step("unset", cur)
       /\ p[5] = Step("dec", cur) /\ p[6] = Step("setup", w)
  OBVIOUS
<1> HIDE DEF p
<1>12. /\ todo' \in [Threads -> Seq(Steps)] /\ q \in Seq(Steps)
       /\ Fronted(s, p, q)
       /\ \A u \in Threads \ {t} : todo'[u] = todo[u]
  BY <1>0, <1>1, <1>9, <1>10, Thens, Zenon
<1> DEFINE r == player[cur].refs + 1
<1>14. /\ player'[cur] = [player[cur] EXCEPT !.weak = 0, !.refs = player[cur].refs + 1]
       /\ \A n \in Players \ {cur} : player'[n] = player[n]
       /\ player' \in [Players -> PlayerRecords]
  <2>1. r \in Nat
    BY <1>6
  <2> HIDE DEF r
  <2>2. [player[cur] EXCEPT !.weak = 0, !.refs = r] \in PlayerRecords
    BY <1>7, <2>1 DEF PlayerRecords
  <2>3. [[player[cur] EXCEPT !.weak = 0] EXCEPT !.refs = r]
          = [player[cur] EXCEPT !.weak = 0, !.refs = r]
    OBVIOUS
  <2>4. [player[cur] EXCEPT !.weak = 0].refs = player[cur].refs
    BY <1>7 DEF PlayerRecords
  <2>5. player' = [[player EXCEPT ![cur].weak = 0] EXCEPT ![cur].refs = @ + 1]
    BY <1>1, <1>5
  <2>6. /\ [player EXCEPT ![cur].weak = 0][cur] = [player[cur] EXCEPT !.weak = 0]
        /\ \A n \in Players \ {cur} : [player EXCEPT ![cur].weak = 0][n] = player[n]
        /\ DOMAIN [player EXCEPT ![cur].weak = 0] = Players
    BY <1>0, <1>6 DEF Typed
  <2>7. /\ player'[cur] = [[player[cur] EXCEPT !.weak = 0] EXCEPT !.refs = r]
        /\ \A n \in Players \ {cur} : player'[n] = player[n]
        /\ DOMAIN player' = Players
    BY <1>6, <2>4, <2>5, <2>6 DEF r
  <2>8. player'[cur] \in PlayerRecords
    BY <2>2, <2>3, <2>7
  <2>9. \A n \in Players : player'[n] \in PlayerRecords
    BY <1>0, <2>7, <2>8 DEF Typed
  <2>10. player' = [n \in Players |-> player'[n]]
    BY <2>5, <2>7
  <2>11. QED
    BY <2>3, <2>7, <2>9, <2>10 DEF r
<1>15. /\ player'[cur].refs = player[cur].refs + 1
       /\ player'[cur].state = player[cur].state
       /\ player'[cur].prepared = player[cur].prepared
  BY <1>7, <1>14 DEF PlayerRecords
<1>16. Typed'
  BY <1>0, <1>1, <1>12, <1>14 DEF Typed
<1>17. Len(q) = 8
  BY <1>5, <1>11, <1>12 DEF Fronted
<1>18. /\ Deep(q, 1) = Step("clear", 0) /\ Deep(q, 2) = Step("dec", cur)
       /\ Deep(q, 3) = Step("setup", w) /\ Deep(q, 4) = Step("dec", cur)
       /\ Deep(q, 5) = Step("unset", cur) /\ Deep(q, 6) = Step("unweak", cur)
       /\ Deep(q, 7) = Step("close", cur) /\ Deep(q, 8) = Step("stop", cur)
  <2>0. \A j \in Len(s) .. Len(q) : Deep(q, j) = p[Len(q) + 1 - j]
    BY <1>12 DEF Fronted
  <2>1. \A j \in 3 .. 8 : Deep(q, j) = p[8 + 1 - j]
    BY <1>5, <1>17, <2>0
  <2>2. \A j \in 1 .. 2 : Deep(q, j) = Deep(s, j)
    BY <1>5, <1>12 DEF Fronted
  <2>3. /\ Deep(q, 3) = p[6] /\ Deep(q, 4) = p[5] /\ Deep(q, 5) = p[4]
        /\ Deep(q, 6) = p[3] /\ Deep(q, 7) = p[2] /\ Deep(q, 8) = p[1]
    BY <2>1
  <2>4. QED
    BY <1>5, <1>11, <2>2, <2>3
<1>19. /\ Deep(q, 1).op = "clear" /\ Deep(q, 1).mp = 0 /\ Deep(q, 2).op = "dec" /\ Deep(q, 2).mp = cur
       /\ Deep(q, 3).op = "setup" /\ Deep(q, 4).op = "dec" /\ Deep(q, 4).mp = cur
       /\ Deep(q, 5).op = "unset" /\ Deep(q, 5).mp = cur
       /\ Deep(q, 6).op = "unweak" /\ Deep(q, 6).mp = cur
       /\ Deep(q, 7).op = "close" /\ Deep(q, 7).mp = cur
       /\ Deep(q, 8).op = "stop" /\ Deep(q, 8).mp = cur
  BY <1>18 DEF Step
<1>20. \A j \in 1 .. Len(q) : j \in {1, 2, 3, 4, 5, 6, 7, 8}
  BY <1>17
<1>21. StacksOk'
  <2>1. \A j \in {5, 6, 7, 8} : Held(q, j, cur)
    BY <1>18 DEF Held
  <2>2. StackOk(t, q)
    BY <1>3, <1>4, <1>19, <1>20, <2>1 DEF StackOk, OkAt, CallOps, EndOps, LoopOps, UiOps
  <2>3. ASSUME NEW u \in Threads \ {t}
        PROVE  StackOk(u, todo'[u])
    BY <1>0, <1>12 DEF StacksOk
  <2>4. QED
    BY <2>2, <2>3 DEF StacksOk
<1>22. Counted'
  <2>0. \A i \in 1 .. Len(p) : i # 5 => p[i].op # "dec"
    <3>1. \A i \in 1 .. Len(p) : i \in {1, 2, 3, 4, 5, 6}
      BY <1>11
    <3>2. /\ p[1].op # "dec" /\ p[2].op # "dec" /\ p[3].op # "dec" /\ p[4].op # "dec"
          /\ p[6].op # "dec"
      BY <1>11 DEF Step
    <3>3. QED
      BY <3>1, <3>2
  <2>1. ASSUME NEW n \in Players, n # cur
        PROVE  Owned(todo', n) = Owned(todo, n)
    <3>1. x # Step("dec", n)
      BY <1>1 DEF Step
    <3>2. \A i \in 1 .. Len(p) : p[i] # Step("dec", n)
      BY <1>11, <2>0, <2>1 DEF Step
    <3>3. QED
      BY <1>0, <1>1, <1>9, <1>10, <3>1, <3>2, OthersStay, Zenon
  <2>2. /\ IsFiniteSet(Owned(todo', cur))
        /\ Cardinality(Owned(todo', cur)) = Cardinality(Owned(todo, cur)) + 1
    <3>1. 5 \in 1 .. Len(p) /\ p[5] = Step("dec", cur)
      BY <1>11
    <3>2. x # Step("dec", cur) /\ \A k \in 1 .. Len(p) : p[k] = Step("dec", cur) => k = 5
      BY <1>1, <2>0 DEF Step
    <3>3. /\ Places(q, cur) = Places(s, cur) \cup {Len(q) + 1 - 5}
          /\ Len(q) + 1 - 5 \notin Places(s, cur) /\ Len(q) + 1 - 5 \in Nat
      BY <1>12, <3>1, <3>2, PlacesMore
    <3>4. PICK d \in Nat : d = Len(q) + 1 - 5
      BY <3>3
    <3>5. \A u \in Threads \ {t} : Places(todo'[u], cur) = Places(todo[u], cur)
      BY <1>12
    <3>6. IsFiniteSet(Owned(todo, cur))
      BY <1>0, <1>6 DEF Counted
    <3>7. /\ Places(todo'[t], cur) = Places(todo[t], cur) \cup {d}
          /\ d \notin Places(todo[t], cur)
      BY <3>3, <3>4
    <3>8. QED
      BY <3>5, <3>6, <3>7, OwnedMore, Zenon
  <2>3. ASSUME NEW n \in Players
        PROVE  /\ IsFiniteSet(Owned(todo', n))
               /\ player'[n].refs = Cardinality(Owned(todo', n)) + (IF cur' = n THEN 1 ELSE 0)
    <3>1. /\ IsFiniteSet(Owned(todo, n)) /\ Cardinality(Owned(todo, n)) \in Nat
          /\ player[n].refs = Cardinality(Owned(todo, n)) + (IF cur = n THEN 1 ELSE 0)
      BY <1>0, FS_CardinalityType DEF Counted
    <3>2. CASE n = cur
      BY <1>1, <1>15, <2>2, <3>1, <3>2
    <3>3. CASE n # cur
      BY <1>1, <1>14, <2>1, <3>1, <3>3
    <3>4. QED
      BY <3>2, <3>3
  <2>4. QED
    BY <2>3 DEF Counted
<1>23. Ends'
  <2>1. ASSUME NEW u \in Threads, NEW n \in Players, NEW j \in 1 .. Len(todo'[u]),
               Deep(todo'[u], j) = Step("destroy", n)
        PROVE  j \in 1 .. Len(todo[u]) /\ Deep(todo[u], j) = Step("destroy", n)
    <3>1. Deep(todo'[u], j).op = "destroy"
      BY <2>1 DEF Step
    <3>2. u # t
      BY <1>19, <1>20, <3>1
    <3>3. QED
      BY <1>12, <2>1, <3>2
  <2>2. ASSUME NEW n \in Players
        PROVE  \/ player'[n].refs = player[n].refs /\ player'[n].state = player[n].state
               \/ player[n].refs # 0
    BY <1>6, <1>14
  <2>3. QED
    BY <1>0, <2>1, <2>2, EndsKept
<1>24. Lives'
  <2>0. \A n \in Players : /\ player'[n].state = player[n].state
                           /\ player'[n].prepared = player[n].prepared
    BY <1>14, <1>15
  <2>1. ASSUME NEW n \in Players, ~player'[n].prepared
        PROVE  todo'[n] = <<>>
    <3>1. todo[n] = <<>> /\ n \in Threads
      BY <1>0, <2>0, <2>1 DEF Lives, Threads
    <3>2. n # t
      BY <1>1, <3>1
    <3>3. QED
      BY <1>12, <3>1, <3>2
  <2>2. ASSUME NEW n \in Players
        PROVE  /\ player'[n].refs > 0 => player'[n].state = "live"
               /\ player'[n].state = "none" => ~player'[n].prepared /\ player'[n].refs = 0
    <3>1. CASE n = cur
      BY <1>0, <1>6, <1>15, <3>1 DEF Lives
    <3>2. CASE n # cur
      BY <1>0, <1>14, <3>2 DEF Lives
    <3>3. QED
      BY <3>1, <3>2
  <2>3. QED
    BY <2>1, <2>2 DEF Lives
<1>25. UiSteps'
  <2>1. Fresh'
    <3>1. \A n \in Players : player'[n].state = player[n].state
      BY <1>14, <1>15
    <3>2. QED
      BY <1>4, <3>1 DEF Fresh
  <2>2. Above(q, 3, "unset")
    BY <1>17, <1>19 DEF Above
  <2>3. 5 \in 1 .. 6
    OBVIOUS
  <2>4. UiStack(q, cur)
    BY <1>19, <1>20, <2>2, <2>3 DEF UiStack
  <2>5. QED
    BY <1>1, <1>3, <2>1, <2>4 DEF UiSteps
<1>26. Taken(q, cur, w)
  BY <1>17, <1>18 DEF Taken
<1>27. \A n \in Players : /\ player'[n].read = player[n].read
                          /\ player'[n].opaque = player[n].opaque
                          /\ player'[n].is = player[n].is
                          /\ player'[n].prepared = player[n].prepared
  <2>1. /\ player'[cur].read = player[cur].read /\ player'[cur].opaque = player[cur].opaque
        /\ player'[cur].is = player[cur].is
        /\ player'[cur].prepared = player[cur].prepared
    BY <1>7, <1>14 DEF PlayerRecords
  <2>2. QED
    BY <1>14, <2>1
<1>28. RefsInv'
  BY <1>16, <1>21, <1>22, <1>23, <1>24, <1>25 DEF RefsInv
<1>29. QED
  BY <1>1, <1>3, <1>4, <1>6, <1>26, <1>27, <1>28 DEF w

(***************************************************************************)
(* The first prepare starts the message loop with a reference of its own.  *)
(***************************************************************************)
LEMMA PreparesFirst ==
  ASSUME RefsInv, NEW t \in Threads, Prepare(t), ~player[Head(todo[t]).mp].prepared
  PROVE  /\ RefsInv' /\ t = Ui /\ cur \in Players /\ UNCHANGED <<cur, handles>>
         /\ Prepares(todo[Ui], cur) /\ ~player[cur].prepared
         /\ todo'[Ui] = <<Step("dec", cur)>>
         /\ player'[cur].weak = player[cur].weak /\ player'[cur].opaque = player[cur].opaque
         /\ player'[cur].prepared
         /\ player'[cur].read = "run" => player'[cur].is \/ player[cur].read = "run"
         /\ \A n \in Players \ {cur} : player'[n] = player[n]
<1> DEFINE s == todo[t]  x == Head(todo[t])  m == x.mp  q == todo'[t]
           p == <<Step("enter", m), Step("dec", m), Step("ret", m)>>
<1>0. /\ Typed /\ StacksOk /\ Counted /\ Ends /\ Lives /\ UiSteps
  BY DEF RefsInv
<1>1. /\ s # <<>> /\ x.op = "prepare" /\ UNCHANGED <<cur, handles>>
      /\ todo' = [todo EXCEPT ![t] = Tail(@), ![m] = p]
  BY DEF Prepare, Does, Next1
<1>2. PICK ok \in BOOLEAN :
        player' = [player EXCEPT ![m].prepared = TRUE, ![m].refs = @ + 1,
                                 ![m].aborted = FALSE, ![m].is = ok,
                                 ![m].read = IF ok THEN "run" ELSE @]
  BY DEF Prepare, Does, Next1
<1>3. /\ Deep(s, Len(s)) = x /\ Len(s) \in 1 .. Len(s) /\ OkAt(t, s, Len(s))
      /\ m \in Players
  BY <1>1, TopStep
<1>4. t = Ui
  BY <1>1, <1>3 DEF OkAt, UiOps
<1>5. cur # 0 /\ Prepares(s, cur)
  BY <1>0, <1>1, <1>3, <1>4 DEF UiSteps, UiStack
<1>6. m = cur /\ s = <<Step("prepare", cur), Step("dec", cur)>>
  BY <1>5 DEF Prepares, Step
<1>7. player[cur].refs \in Nat /\ player[cur].refs # 0 /\ cur \in Players
  BY <1>0, <1>5, CountedPlayer
<1>8. player[cur] \in PlayerRecords /\ ~player[cur].prepared
  BY <1>0, <1>6, <1>7 DEF Typed
<1>9. todo[cur] = <<>> /\ cur # t /\ cur \in Threads /\ player[cur].state = "live"
  <2>1. todo[cur] = <<>>
    BY <1>0, <1>7, <1>8 DEF Lives
  <2>2. player[cur].state = "live"
    BY <1>0, <1>7 DEF Lives
  <2>3. cur \in Threads
    BY <1>7 DEF Threads
  <2>4. QED
    BY <1>1, <2>1, <2>2, <2>3
<1>10. /\ player' \in [Players -> PlayerRecords]
       /\ player'[cur].refs = player[cur].refs + 1
       /\ player'[cur].state = player[cur].state
       /\ player'[cur].prepared = TRUE
       /\ player'[cur].weak = player[cur].weak /\ player'[cur].opaque = player[cur].opaque
       /\ player'[cur].read = "run" => player'[cur].is \/ player[cur].read = "run"
       /\ \A n \in Players \ {cur} : player'[n] = player[n]
  <2> DEFINE a == player[cur].refs + 1
             b == IF ok THEN "run" ELSE player[cur].read
             r == [player[cur] EXCEPT !.prepared = TRUE, !.refs = a, !.aborted = FALSE,
                                      !.is = ok, !.read = b]
  <2>1. a \in Nat /\ b \in {"none", "run", "end"}
    BY <1>7, <1>8 DEF PlayerRecords
  <2>2. player' = [player EXCEPT ![cur] = r]
    BY <1>0, <1>2, <1>6, <1>7, <1>8 DEF Typed, PlayerRecords
  <2>0. b = "run" => ok \/ player[cur].read = "run"
    OBVIOUS
  <2> HIDE DEF a, b
  <2>3. r \in PlayerRecords
    BY <1>8, <2>1 DEF PlayerRecords
  <2>4. /\ r.refs = a /\ r.state = player[cur].state /\ r.prepared = TRUE
        /\ r.weak = player[cur].weak /\ r.opaque = player[cur].opaque
        /\ r.read = b /\ r.is = ok
    BY <1>8 DEF PlayerRecords
  <2> HIDE DEF r
  <2>5. /\ player' \in [Players -> PlayerRecords] /\ player'[cur] = r
        /\ \A n \in Players \ {cur} : player'[n] = player[n]
    BY <1>0, <1>7, <2>2, <2>3 DEF Typed
  <2>6. QED
    BY <2>0, <2>4, <2>5 DEF a
<1>11. /\ Tail(s) = <<Step("dec", cur)>>
       /\ Tail(s) \in Seq(Steps)
  BY <1>6, <1>7 DEF Steps, Step, Ops
<1>12. p \in Seq(Steps)
  BY <1>3 DEF Steps, Step, Ops, CallOps
<1>13. /\ todo' \in [Threads -> Seq(Steps)]
       /\ q = <<Step("dec", cur)>>
       /\ todo'[cur] = <<Step("enter", cur), Step("dec", cur), Step("ret", cur)>>
       /\ \A u \in Threads \ {t, cur} : todo'[u] = todo[u]
  BY <1>0, <1>1, <1>6, <1>9, <1>11, <1>12 DEF Typed
<1> DEFINE l == todo'[cur]
<1>14. /\ Len(q) = 1 /\ Deep(q, 1) = Step("dec", cur)
       /\ Deep(q, 1).op = "dec" /\ Deep(q, 1).mp = cur
  BY <1>13 DEF Deep, Step
<1>15. /\ Len(l) = 3
       /\ Deep(l, 1) = Step("ret", cur) /\ Deep(l, 2) = Step("dec", cur)
       /\ Deep(l, 3) = Step("enter", cur)
  BY <1>13 DEF Deep
<1>16. /\ Deep(l, 1).op = "ret" /\ Deep(l, 1).mp = cur
       /\ Deep(l, 2).op = "dec" /\ Deep(l, 2).mp = cur
       /\ Deep(l, 3).op = "enter" /\ Deep(l, 3).mp = cur
  BY <1>15 DEF Step
<1>17. /\ Len(s) = 2 /\ Deep(s, 1) = Step("dec", cur)
       /\ Deep(s, 2) = Step("prepare", cur)
  BY <1>6 DEF Deep
<1>18. /\ \A j \in 1 .. Len(q) : j = 1
       /\ \A j \in 1 .. Len(l) : j \in {1, 2, 3}
       /\ \A j \in 1 .. Len(s) : j \in {1, 2}
  BY <1>14, <1>15, <1>17
<1> HIDE DEF q, l, s, p
<1>19. Typed'
  BY <1>0, <1>1, <1>10, <1>13 DEF Typed
<1>20. StacksOk'
  <2>1. StackOk(t, q)
    BY <1>5, <1>14, <1>18 DEF StackOk, OkAt, CallOps, EndOps, LoopOps, UiOps
  <2>2. Held(l, 3, cur)
    BY <1>15 DEF Held
  <2>3. StackOk(cur, l)
    BY <1>5, <1>16, <1>18, <2>2 DEF StackOk, OkAt, CallOps, EndOps, LoopOps, UiOps
  <2>4. ASSUME NEW u \in Threads \ {t, cur}
        PROVE  StackOk(u, todo'[u])
    BY <1>0, <1>13 DEF StacksOk
  <2>5. QED
    BY <2>1, <2>3, <2>4 DEF StacksOk, q, l
<1>21. Counted'
  <2>1. \A n : Places(q, n) = Places(s, n)
    <3>1. Step("prepare", cur) # Step("dec", cur)
      BY DEF Step
    <3>2. ASSUME NEW n
          PROVE  Places(q, n) = Places(s, n)
      <4>1. Step("prepare", cur) # Step("dec", n)
        BY DEF Step
      <4>2. 1 \in 1 .. Len(q) /\ 1 \in 1 .. Len(s)
        BY <1>14, <1>17
      <4>3. QED
        BY <1>14, <1>17, <1>18, <4>1, <4>2 DEF Places
    <3>3. QED
      BY <3>2
  <2>2. \A n : Places(todo[cur], n) = {}
    <3>1. Len(todo[cur]) = 0
      BY <1>9
    <3>2. QED
      BY <3>1 DEF Places
  <2>3. \A n : Places(l, n) = IF n = cur THEN {2} ELSE {}
    BY <1>15, <1>18 DEF Places, Step
  <2>4. ASSUME NEW n \in Players, n # cur
        PROVE  Owned(todo', n) = Owned(todo, n)
    <3>1. \A u \in Threads : Places(todo'[u], n) = Places(todo[u], n)
      BY <1>13, <2>1, <2>2, <2>3, <2>4 DEF q, l, s
    <3>2. QED
      BY <3>1, OwnedStay, Zenon
  <2>5. /\ IsFiniteSet(Owned(todo', cur))
        /\ Cardinality(Owned(todo', cur)) = Cardinality(Owned(todo, cur)) + 1
    <3>1. \A u \in Threads \ {cur} : Places(todo'[u], cur) = Places(todo[u], cur)
      BY <1>13, <2>1 DEF q, s
    <3>2. /\ Places(todo'[cur], cur) = Places(todo[cur], cur) \cup {2}
          /\ 2 \notin Places(todo[cur], cur) /\ 2 \in Nat
      BY <2>2, <2>3 DEF l
    <3>3. IsFiniteSet(Owned(todo, cur))
      BY <1>0, <1>7 DEF Counted
    <3>4. QED
      BY <1>9, <3>1, <3>2, <3>3, OwnedMore, Zenon
  <2>6. ASSUME NEW n \in Players
        PROVE  /\ IsFiniteSet(Owned(todo', n))
               /\ player'[n].refs = Cardinality(Owned(todo', n)) + (IF cur' = n THEN 1 ELSE 0)
    <3>1. /\ IsFiniteSet(Owned(todo, n)) /\ Cardinality(Owned(todo, n)) \in Nat
          /\ player[n].refs = Cardinality(Owned(todo, n)) + (IF cur = n THEN 1 ELSE 0)
      BY <1>0, FS_CardinalityType DEF Counted
    <3>2. CASE n = cur
      BY <1>1, <1>10, <2>5, <3>1, <3>2
    <3>3. CASE n # cur
      BY <1>1, <1>10, <2>4, <3>1, <3>3
    <3>4. QED
      BY <3>2, <3>3
  <2>7. QED
    BY <2>6 DEF Counted
<1>22. Ends'
  <2>1. ASSUME NEW u \in Threads, NEW n \in Players, NEW j \in 1 .. Len(todo'[u]),
               Deep(todo'[u], j) = Step("destroy", n)
        PROVE  j \in 1 .. Len(todo[u]) /\ Deep(todo[u], j) = Step("destroy", n)
    <3>1. Deep(todo'[u], j).op = "destroy"
      BY <2>1 DEF Step
    <3>2. u # t
      BY <1>14, <1>18, <3>1 DEF q
    <3>3. u # cur
      BY <1>16, <1>18, <3>1 DEF l
    <3>4. QED
      BY <1>13, <2>1, <3>2, <3>3
  <2>2. ASSUME NEW n \in Players
        PROVE  \/ player'[n].refs = player[n].refs /\ player'[n].state = player[n].state
               \/ player[n].refs # 0
    BY <1>7, <1>10
  <2>3. QED
    BY <1>0, <2>1, <2>2, EndsKept
<1>23. Lives'
  <2>1. ASSUME NEW n \in Players, ~player'[n].prepared
        PROVE  todo'[n] = <<>>
    <3>1. n # cur
      BY <1>10, <2>1
    <3>2. todo[n] = <<>> /\ n \in Threads
      BY <1>0, <1>10, <2>1, <3>1 DEF Lives, Threads
    <3>3. n # t
      BY <1>1, <3>2 DEF s
    <3>4. QED
      BY <1>13, <3>1, <3>2, <3>3
  <2>2. ASSUME NEW n \in Players
        PROVE  /\ player'[n].refs > 0 => player'[n].state = "live"
               /\ player'[n].state = "none" => ~player'[n].prepared /\ player'[n].refs = 0
    <3>1. CASE n = cur
      BY <1>9, <1>10, <3>1
    <3>2. CASE n # cur
      BY <1>0, <1>10, <3>2 DEF Lives
    <3>3. QED
      BY <3>1, <3>2
  <2>3. QED
    BY <2>1, <2>2 DEF Lives
<1>24. UiSteps'
  <2>1. UiStack(q, cur)
    BY <1>14, <1>18 DEF UiStack
  <2>2. \A j \in 1 .. Len(q) : Deep(q, j).op \notin {"takeWeak", "setup"}
    BY <1>14, <1>18
  <2>3. QED
    BY <1>1, <1>4, <2>1, <2>2 DEF UiSteps, q
<1>25. RefsInv'
  BY <1>19, <1>20, <1>21, <1>22, <1>23, <1>24 DEF RefsInv
<1>26. QED
  BY <1>1, <1>4, <1>5, <1>7, <1>8, <1>10, <1>13, <1>25 DEF s, q

-----------------------------------------------------------------------------
(***************************************************************************)
(* The other steps change neither the references nor whether a player      *)
(* lives.                                                                  *)
(***************************************************************************)
LEMMA OneChanged ==
  ASSUME Typed, NEW m \in Players, NEW r \in PlayerRecords,
         r.state = player[m].state, r.refs = player[m].refs,
         r.prepared = player[m].prepared, player' = [player EXCEPT ![m] = r]
  PROVE  /\ player' \in [Players -> PlayerRecords] /\ SameLives
         /\ player'[m] = r
         /\ \A n \in Players \ {m} : player'[n] = player[n]
  BY DEF Typed, SameLives

LEMMA StoppedSame ==
  ASSUME NEW r \in PlayerRecords
  PROVE  /\ Stopped(r) \in PlayerRecords
         /\ Stopped(r).state = r.state /\ Stopped(r).refs = r.refs
         /\ Stopped(r).prepared = r.prepared /\ Stopped(r).weak = r.weak
         /\ Stopped(r).opaque = r.opaque /\ Stopped(r).read = r.read
         /\ Stopped(r).is = r.is
<1> DEFINE b == r.stop \/ r.is
<1>1. b \in BOOLEAN
  BY DEF PlayerRecords
<1>2. Stopped(r) = [r EXCEPT !.stop = b, !.aborted = TRUE]
  BY DEF Stopped
<1> HIDE DEF b
<1>3. QED
  BY <1>1, <1>2 DEF PlayerRecords

LEMMA Unchanging ==
  ASSUME Typed, UNCHANGED player
  PROVE  player' \in [Players -> PlayerRecords] /\ SameLives
  BY DEF Typed, SameLives

\* A step that is done, or goes on on the same player:
LEMMA StepsOn ==
  ASSUME RefsInv, NEW t \in Threads,
         \/ Prepare(t) /\ player[Head(todo[t]).mp].prepared
         \/ Stop(t) \/ Close(t) \/ Joined(t) \/ Unweak(t) \/ Clear(t)
  PROVE  RefsInv'
<1> DEFINE x == Head(todo[t])  m == x.mp
<1>0. Typed
  BY DEF RefsInv
<1>1. /\ todo[t] # <<>>
      /\ x.op \in {"prepare", "stop", "stopCall", "close", "join", "unweak", "clear"}
      /\ x.op = "clear" \/ m \in Players
  <2>1. /\ todo[t] # <<>>
        /\ x.op \in {"prepare", "stop", "stopCall", "close", "join", "unweak", "clear"}
    BY DEF Prepare, Stop, Close, Joined, Unweak, Clear, Does, Next1
  <2>2. QED
    BY <2>1, TopStep
<1>2. <<>> \in Seq(Steps) /\ Follows(x, <<>>)
  BY DEF Follows
<1>3. UNCHANGED cur
  BY DEF Prepare, Stop, Close, Joined, Unweak, Clear
<1>4. m \in Players => player[m] \in PlayerRecords
  BY <1>0 DEF Typed
<1>5. ASSUME NEW p \in Seq(Steps), Then(t, p), Follows(x, p),
             player' \in [Players -> PlayerRecords], SameLives, handles' \subseteq Players
      PROVE  RefsInv'
  BY <1>1, <1>3, <1>5, MovesOn
<1>6. CASE Prepare(t) /\ player[m].prepared
  <2>1. Then(t, <<>>) /\ UNCHANGED <<player, handles>>
    BY <1>6 DEF Prepare, Next1
  <2>2. player' \in [Players -> PlayerRecords] /\ SameLives /\ handles' \subseteq Players
    BY <1>0, <2>1, Unchanging DEF Typed
  <2>3. QED
    BY <1>2, <1>5, <2>1, <2>2
<1>7. CASE Stop(t)
  <2>1. Then(t, <<>>) /\ UNCHANGED handles /\ m \in Players
    BY <1>1, <1>7 DEF Stop, Does, Next1
  <2>2. player' = player \/ player' = [player EXCEPT ![m] = Stopped(player[m])]
    BY <1>7 DEF Stop, Next1
  <2>3. player' \in [Players -> PlayerRecords] /\ SameLives
    BY <1>0, <1>4, <2>1, <2>2, Unchanging, OneChanged, StoppedSame
  <2>4. handles' \subseteq Players
    BY <1>0, <2>1 DEF Typed
  <2>5. QED
    BY <1>2, <1>5, <2>1, <2>3, <2>4
<1>8. CASE Close(t)
  <2>1. UNCHANGED handles /\ m \in Players /\ x.op = "close"
    BY <1>1, <1>8 DEF Close, Does, Next1
  <2>2. handles' \subseteq Players
    BY <1>0, <2>1 DEF Typed
  <2>3. CASE player[m].is
    <3>1. /\ player' = [player EXCEPT ![m] = Stopped(player[m])]
          /\ Then(t, <<Step("join", m)>>)
      BY <1>8, <2>3 DEF Close, Next1
    <3>2. player' \in [Players -> PlayerRecords] /\ SameLives
      BY <1>0, <1>4, <2>1, <3>1, OneChanged, StoppedSame
    <3>3. <<Step("join", m)>> \in Seq(Steps)
      BY <2>1 DEF Steps, Step, Ops, EndOps
    <3>4. Follows(x, <<Step("join", m)>>)
      BY <2>1 DEF Follows, Step
    <3>5. QED
      BY <1>5, <2>2, <3>1, <3>2, <3>3, <3>4
  <2>4. CASE ~player[m].is
    <3>1. UNCHANGED player /\ Then(t, <<>>)
      BY <1>8, <2>4 DEF Close, Next1
    <3>2. player' \in [Players -> PlayerRecords] /\ SameLives
      BY <1>0, <3>1, Unchanging
    <3>3. QED
      BY <1>2, <1>5, <2>2, <3>1, <3>2
  <2>5. QED
    BY <2>3, <2>4
<1>9. CASE Joined(t)
  <2>1. /\ UNCHANGED handles /\ m \in Players /\ Then(t, <<>>)
        /\ player' = [player EXCEPT ![m].is = FALSE]
    BY <1>1, <1>9 DEF Joined, Does, Next1
  <2>2. DEFINE r == [player[m] EXCEPT !.is = FALSE]
  <2>3. /\ r \in PlayerRecords /\ r.state = player[m].state /\ r.refs = player[m].refs
        /\ r.prepared = player[m].prepared
    BY <1>4, <2>1 DEF PlayerRecords
  <2>4. player' = [player EXCEPT ![m] = r]
    BY <2>1
  <2> HIDE DEF r
  <2>5. player' \in [Players -> PlayerRecords] /\ SameLives
    BY <1>0, <2>1, <2>3, <2>4, OneChanged
  <2>6. handles' \subseteq Players
    BY <1>0, <2>1 DEF Typed
  <2>7. QED
    BY <1>2, <1>5, <2>1, <2>5, <2>6
<1>10. CASE Unweak(t)
  <2>1. /\ m \in Players /\ Then(t, <<>>)
        /\ player' = [player EXCEPT ![m].weak = 0]
        /\ handles' = handles \ {player[m].weak}
    BY <1>1, <1>10 DEF Unweak, Does, Next1
  <2>2. DEFINE r == [player[m] EXCEPT !.weak = 0]
  <2>3. /\ r \in PlayerRecords /\ r.state = player[m].state /\ r.refs = player[m].refs
        /\ r.prepared = player[m].prepared
    BY <1>4, <2>1 DEF PlayerRecords
  <2>4. player' = [player EXCEPT ![m] = r]
    BY <2>1
  <2> HIDE DEF r
  <2>5. player' \in [Players -> PlayerRecords] /\ SameLives
    BY <1>0, <2>1, <2>3, <2>4, OneChanged
  <2>6. handles' \subseteq Players
    BY <1>0, <2>1 DEF Typed
  <2>7. QED
    BY <1>2, <1>5, <2>1, <2>5, <2>6
<1>11. CASE Clear(t)
  <2>1. Then(t, <<>>) /\ UNCHANGED <<player, handles>>
    BY <1>11 DEF Clear
  <2>2. player' \in [Players -> PlayerRecords] /\ SameLives /\ handles' \subseteq Players
    BY <1>0, <2>1, Unchanging DEF Typed
  <2>3. QED
    BY <1>2, <1>5, <2>1, <2>2
<1>12. QED
  BY <1>6, <1>7, <1>8, <1>9, <1>10, <1>11

LEMMA LoopsOn ==
  ASSUME RefsInv, NEW m \in Players, LoopStep(m)
  PROVE  RefsInv'
<1> DEFINE x == Head(todo[m])
<1>0. Typed /\ m \in Threads /\ player[m] \in PlayerRecords
  BY DEF RefsInv, Typed, Threads
<1>1. /\ todo[m] # <<>> /\ UNCHANGED <<cur, handles>>
      /\ x.op \in {"enter", "get", "post", "ret"}
  BY DEF LoopStep, LoopEnters, LoopGets, LoopEnds, LoopPosts, LoopReturns, Does, Next1
<1>2. <<>> \in Seq(Steps) /\ Follows(x, <<>>)
  BY DEF Follows
<1>3. handles' \subseteq Players
  BY <1>0, <1>1 DEF Typed
<1>4. ASSUME NEW p \in Seq(Steps), Then(m, p), Follows(x, p),
             player' \in [Players -> PlayerRecords], SameLives
      PROVE  RefsInv'
  BY <1>0, <1>1, <1>3, <1>4, MovesOn
<1>5. CASE LoopEnds(m) \/ LoopPosts(m) \/ LoopReturns(m)
  <2>1. Then(m, <<>>) /\ UNCHANGED player
    BY <1>5 DEF LoopEnds, LoopPosts, LoopReturns
  <2>2. player' \in [Players -> PlayerRecords] /\ SameLives
    BY <1>0, <2>1, Unchanging
  <2>3. QED
    BY <1>2, <1>4, <2>1, <2>2
<1>6. x.op \in {"enter", "get"} => x.mp = m
  BY <1>0, <1>1, TopStep DEF OkAt, LoopOps
<1>7. CASE LoopEnters(m)
  <2>1. x.op = "enter" /\ x.mp = m
    BY <1>6, <1>7 DEF LoopEnters, Does, Next1
  <2>2. player' = [player EXCEPT ![m].loopRef = player[m].weak]
    BY <1>7 DEF LoopEnters
  <2> DEFINE r == [player[m] EXCEPT !.loopRef = player[m].weak]
  <2>3. /\ r \in PlayerRecords /\ r.state = player[m].state /\ r.refs = player[m].refs
        /\ r.prepared = player[m].prepared
    BY <1>0 DEF PlayerRecords
  <2>4. player' = [player EXCEPT ![m] = r]
    BY <2>2
  <2> HIDE DEF r
  <2>5. player' \in [Players -> PlayerRecords] /\ SameLives
    BY <1>0, <2>3, <2>4, OneChanged
  <2>6. <<Step("get", m)>> \in Seq(Steps) /\ Follows(x, <<Step("get", m)>>)
    BY <2>1 DEF Follows, Steps, Step, Ops, CallOps
  <2>7. Then(m, <<>>) \/ Then(m, <<Step("get", m)>>)
    BY <1>7 DEF LoopEnters
  <2>8. QED
    BY <1>2, <1>4, <2>5, <2>6, <2>7
<1>8. CASE LoopGets(m)
  <2>1. x.op = "get" /\ x.mp = m
    BY <1>6, <1>8 DEF LoopGets, Does, Next1
  <2>2. /\ player' = [player EXCEPT ![m].msgs = @ - 1]
        /\ Then(m, <<Step("post", m), Step("get", m)>>)
    BY <1>8 DEF LoopGets
  <2> DEFINE r == [player[m] EXCEPT !.msgs = @ - 1]
  <2>3. /\ r \in PlayerRecords /\ r.state = player[m].state /\ r.refs = player[m].refs
        /\ r.prepared = player[m].prepared
    BY <1>0 DEF PlayerRecords
  <2>4. player' = [player EXCEPT ![m] = r]
    BY <2>2
  <2> HIDE DEF r
  <2>5. player' \in [Players -> PlayerRecords] /\ SameLives
    BY <1>0, <2>3, <2>4, OneChanged
  <2> DEFINE p == <<Step("post", m), Step("get", m)>>
  <2>6. p \in Seq(Steps)
    BY DEF Steps, Step, Ops, CallOps
  <2>7. Len(p) = 2 /\ p[1] = Step("post", m) /\ p[2] = Step("get", m)
    OBVIOUS
  <2> HIDE DEF p
  <2>8. \A i \in 1 .. Len(p) : p[i].op \in {"get", "post"} /\ p[i].mp = m
    <3>1. \A i \in 1 .. Len(p) : i \in {1, 2}
      BY <2>7
    <3>2. QED
      BY <2>7, <3>1 DEF Step
  <2>9. Follows(x, p)
    BY <2>1, <2>8 DEF Follows
  <2>10. QED
    BY <1>4, <2>2, <2>5, <2>6, <2>9 DEF p
<1>9. QED
  BY <1>5, <1>7, <1>8 DEF LoopStep

(***************************************************************************)
(* The steps of the threads of a stream and of the Handler.                *)
(***************************************************************************)
LEMMA StacksStay ==
  ASSUME RefsInv, UNCHANGED <<todo, cur, handles>>,
         player' \in [Players -> PlayerRecords], SameLives
  PROVE  RefsInv'
<1>0. /\ Typed /\ StacksOk /\ Counted /\ Ends /\ Lives /\ UiSteps
  BY DEF RefsInv
<1>1. todo' = todo /\ cur' = cur /\ handles' = handles
  OBVIOUS
<1>2. Typed'
  BY <1>0, <1>1 DEF Typed
<1>3. StacksOk'
  BY <1>0, <1>1 DEF StacksOk
<1>4. Counted'
  BY <1>0, <1>1 DEF Counted, SameLives
<1>5. Ends'
  BY <1>0, <1>1, EndsKept DEF SameLives
<1>6. Lives'
  BY <1>0, <1>1 DEF Lives, SameLives
<1>7. UiSteps'
  <2>1. Fresh => Fresh'
    BY DEF Fresh, SameLives
  <2>2. QED
    BY <1>0, <1>1, <2>1, UiOthers
<1>8. QED
  BY <1>2, <1>3, <1>4, <1>5, <1>6, <1>7 DEF RefsInv

LEMMA StreamsOn ==
  ASSUME RefsInv, \/ \E m \in Players : ReadPosts(m) \/ ReadEnds(m)
                  \/ Handles
  PROVE  RefsInv'
<1>0. Typed
  BY DEF RefsInv
<1>1. ASSUME NEW m \in Players, ReadPosts(m)
      PROVE  RefsInv'
  <2>1. /\ player' = [player EXCEPT ![m].posted = @ + 1,
                              ![m].msgs = IF player[m].aborted THEN @ ELSE @ + 1]
        /\ UNCHANGED <<todo, cur, handles>>
    BY <1>1 DEF ReadPosts
  <2>2. player[m] \in PlayerRecords
    BY <1>0 DEF Typed
  <2> DEFINE a == player[m].posted + 1
             b == IF player[m].aborted THEN player[m].msgs ELSE player[m].msgs + 1
             r == [player[m] EXCEPT !.posted = a, !.msgs = b]
  <2>3. a \in Int /\ b \in Int
    BY <2>2 DEF PlayerRecords
  <2>4. player' = [player EXCEPT ![m] = r]
    BY <1>0, <2>1, <2>2 DEF Typed, PlayerRecords
  <2> HIDE DEF a, b
  <2>5. /\ r \in PlayerRecords /\ r.state = player[m].state /\ r.refs = player[m].refs
        /\ r.prepared = player[m].prepared
    BY <2>2, <2>3 DEF PlayerRecords
  <2> HIDE DEF r
  <2>6. player' \in [Players -> PlayerRecords] /\ SameLives
    BY <1>0, <2>4, <2>5, OneChanged
  <2>7. QED
    BY <2>1, <2>6, StacksStay
<1>2. ASSUME NEW m \in Players, ReadEnds(m)
      PROVE  RefsInv'
  <2>1. /\ player' = [player EXCEPT ![m].read = "end"]
        /\ UNCHANGED <<todo, cur, handles>>
    BY <1>2 DEF ReadEnds
  <2>2. player[m] \in PlayerRecords
    BY <1>0 DEF Typed
  <2> DEFINE r == [player[m] EXCEPT !.read = "end"]
  <2>3. player' = [player EXCEPT ![m] = r]
    BY <2>1
  <2>4. /\ r \in PlayerRecords /\ r.state = player[m].state /\ r.refs = player[m].refs
        /\ r.prepared = player[m].prepared
    BY <2>2 DEF PlayerRecords
  <2> HIDE DEF r
  <2>5. player' \in [Players -> PlayerRecords] /\ SameLives
    BY <1>0, <2>3, <2>4, OneChanged
  <2>6. QED
    BY <2>1, <2>5, StacksStay
<1>3. CASE Handles
  BY <1>0, <1>3, Unchanging, StacksStay DEF Handles
<1>4. QED
  BY <1>1, <1>2, <1>3

-----------------------------------------------------------------------------
(***************************************************************************)
(* The references and the ends of players, in every behaviour.             *)
(***************************************************************************)

(***************************************************************************)
(* In the beginning the object has the only reference to its player, and   *)
(* no thread has anything to do.                                           *)
(***************************************************************************)
LEMMA InitRefs ==
  ASSUME Init
  PROVE  RefsInv
<1>1. /\ 1 \in Players /\ 0 \notin Players
      /\ player = [m \in Players |-> IF m = 1 THEN [NewPlayer(1) EXCEPT !.refs = 1]
                                              ELSE NoPlayer]
      /\ cur = 1 /\ handles = {1} /\ todo = [t \in Threads |-> <<>>]
  BY PlayersAssumption DEF Init, Players
<1>2. /\ NewPlayer(1) \in PlayerRecords /\ NewPlayer(1).state = "live"
      /\ NewPlayer(1).prepared = FALSE
  BY <1>1, NewPlayers
<1>3. /\ NoPlayer \in PlayerRecords /\ NoPlayer.state = "none" /\ NoPlayer.refs = 0
      /\ NoPlayer.prepared = FALSE
  BY DEF NoPlayer, PlayerRecords
<1> DEFINE r == [NewPlayer(1) EXCEPT !.refs = 1]
<1>4. /\ r \in PlayerRecords /\ r.state = "live" /\ r.refs = 1 /\ r.prepared = FALSE
  BY <1>2 DEF PlayerRecords
<1> HIDE DEF r
<1>5. /\ player \in [Players -> PlayerRecords]
      /\ \A m \in Players : player[m] = IF m = 1 THEN r ELSE NoPlayer
  BY <1>1, <1>3, <1>4 DEF r
<1>6. /\ todo \in [Threads -> Seq(Steps)]
      /\ \A t \in Threads : todo[t] = <<>> /\ Len(todo[t]) = 0
  BY <1>1
<1>7. Typed
  BY <1>1, <1>5, <1>6 DEF Typed
<1>8. \A t \in Threads : 1 .. Len(todo[t]) = {}
  BY <1>6
<1>9. StacksOk
  BY <1>8 DEF StacksOk, StackOk
<1>10. Counted
  <2>1. ASSUME NEW m \in Players
        PROVE  Owned(todo, m) = {}
    <3>1. \A t \in Threads : Places(todo[t], m) = {}
      BY <1>8 DEF Places
    <3>2. QED
      BY <3>1 DEF Owned
  <2>2. IsFiniteSet({}) /\ Cardinality({}) = 0
    BY FS_EmptySet
  <2>3. \A m \in Players : player[m].refs = IF m = 1 THEN 1 ELSE 0
    BY <1>3, <1>4, <1>5
  <2>4. \A m \in Players : /\ IsFiniteSet(Owned(todo, m))
                            /\ Cardinality(Owned(todo, m)) = 0
    BY <2>1, <2>2
  <2>5. QED
    BY <1>1, <2>3, <2>4 DEF Counted
<1>11. Ends
  BY <1>8 DEF Ends
<1>12. Lives
  <2>1. \A m \in Players : m \in Threads
    BY DEF Threads
  <2>2. QED
    BY <1>3, <1>4, <1>5, <1>6, <2>1 DEF Lives
<1>13. UiSteps
  <2>1. Ui \in Threads
    BY DEF Threads
  <2>2. QED
    BY <1>8, <2>1 DEF UiSteps, UiStack
<1>14. QED
  BY <1>7, <1>9, <1>10, <1>11, <1>12, <1>13 DEF RefsInv

(***************************************************************************)
(* Every step keeps them.                                                  *)
(***************************************************************************)
LEMMA NextRefs ==
  ASSUME RefsInv, [Next]_vars
  PROVE  RefsInv'
<1>1. CASE BeginPrepare \/ BeginCall \/ BeginStop \/ BeginRelease \/ Finalize \/ BeginReset
  BY <1>1, PrepareBegins, CallBegins, ReleaseBegins, ResetBegins
<1>2. ASSUME NEW t \in Threads, ThreadStep(t)
      PROVE  RefsInv'
  <2>1. CASE Prepare(t)
    BY <2>1, PreparesFirst, StepsOn
  <2>2. CASE Stop(t) \/ Close(t) \/ Joined(t) \/ Unweak(t) \/ Clear(t)
    BY <2>2, StepsOn
  <2>3. CASE TakeWeak(t)
    BY <2>3, TakesWeak
  <2>4. CASE Unset(t)
    BY <2>4, Unsets
  <2>5. CASE Setup(t)
    BY <2>5, Setups
  <2>6. CASE Dec(t)
    BY <2>6, Decs
  <2>7. CASE Destroy(t)
    BY <2>7, Destroys
  <2>8. QED
    BY <1>2, <2>1, <2>2, <2>3, <2>4, <2>5, <2>6, <2>7 DEF ThreadStep
<1>3. ASSUME NEW m \in Players, LoopStep(m) \/ ReadPosts(m) \/ ReadEnds(m)
      PROVE  RefsInv'
  BY <1>3, LoopsOn, StreamsOn
<1>4. CASE Handles
  BY <1>4, StreamsOn
<1>5. CASE UNCHANGED vars
  <2>1. UNCHANGED <<player, todo, cur, handles>>
    BY <1>5 DEF vars
  <2>2. player' \in [Players -> PlayerRecords] /\ SameLives
    BY <2>1, Unchanging DEF RefsInv
  <2>3. QED
    BY <2>1, <2>2, StacksStay
<1>6. QED
  BY <1>1, <1>2, <1>3, <1>4, <1>5 DEF Next

(***************************************************************************)
(* A step on a player is on one that is not freed.                         *)
(***************************************************************************)
LEMMA StepsUsed ==
  ASSUME RefsInv, NEW t \in Threads, NEW j \in 1 .. Len(todo[t]),
         Deep(todo[t], j).mp # 0, Deep(todo[t], j).op \notin {"ret", "setup"}
  PROVE  player[Deep(todo[t], j).mp].state = "live"
<1> DEFINE s == todo[t]  x == Deep(s, j)  m == x.mp
<1>1. s \in Seq(Steps) /\ Len(s) \in Nat
  BY DEF RefsInv, Typed
<1>2. x \in Steps
  BY <1>1 DEF Deep
<1>3. m \in Players /\ x.op \in Ops
  BY <1>2 DEF Steps
<1>4. OkAt(t, s, j)
  BY DEF RefsInv, StacksOk, StackOk
<1>5. x.op # "clear"
  BY <1>4 DEF OkAt
<1>6. CASE x.op = "dec"
  <2>1. x = Step("dec", m)
    BY <1>2, <1>6 DEF Steps, Step
  <2>2. j \in Places(s, m)
    BY <2>1 DEF Places
  <2>3. QED
    BY <1>3, <2>2, Referred
<1>7. CASE x.op = "destroy"
  <2>1. x = Step("destroy", m)
    BY <1>2, <1>7 DEF Steps, Step
  <2>2. QED
    BY <1>3, <2>1 DEF RefsInv, Ends
<1>8. CASE Held(s, j, m)
  BY <1>3, <1>8, HeldReferred
<1>9. CASE Dying(s, j, m)
  BY <1>3, <1>9, DyingUnreferred
<1>10. CASE x.op \in CallOps \cup EndOps
  BY <1>4, <1>8, <1>9, <1>10 DEF OkAt
<1>11. QED
  BY <1>3, <1>5, <1>6, <1>7, <1>10 DEF Ops

LEMMA RefsUsed ==
  ASSUME RefsInv
  PROVE  PlayersUsed
<1>1. ASSUME NEW t \in Threads, NEW i \in 1 .. Len(todo[t]),
             todo[t][i].mp # 0, todo[t][i].op \notin {"ret", "setup"}
      PROVE  player[todo[t][i].mp].state = "live"
  <2>1. Len(todo[t]) \in Nat
    BY DEF RefsInv, Typed
  <2> DEFINE j == Len(todo[t]) + 1 - i
  <2>2. j \in 1 .. Len(todo[t]) /\ Len(todo[t]) + 1 - j = i
    BY <2>1
  <2>3. Deep(todo[t], j) = todo[t][i]
    BY <2>2 DEF Deep
  <2> HIDE DEF j
  <2>4. QED
    BY <1>1, <2>2, <2>3, StepsUsed
<1>2. ASSUME cur # 0
      PROVE  player[cur].state = "live"
  <2>1. cur \in Players /\ player[cur].refs \in Nat /\ player[cur].refs # 0
    BY <1>2, CountedPlayer DEF RefsInv
  <2>2. QED
    BY <2>1 DEF RefsInv, Lives
<1>3. QED
  BY <1>1, <1>2 DEF PlayersUsed

(***************************************************************************)
(* Who waits for the threads of a stream holds its player, and then it is  *)
(* the application's thread, or ends it, and then nobody refers to it.     *)
(***************************************************************************)
LEMMA RefsClosed ==
  ASSUME RefsInv
  PROVE  ClosedByOne
<1> SUFFICES ASSUME NEW m \in Players
             PROVE  Cardinality({t \in Threads : Does(t, "join") /\ Next1(t).mp = m}) <= 1
  BY DEF ClosedByOne
<1> DEFINE T == {t \in Threads : Does(t, "join") /\ Next1(t).mp = m}
<1>1. ASSUME NEW t \in T
      PROVE  /\ Len(todo[t]) \in 1 .. Len(todo[t])
             /\ \/ t = Ui /\ Held(todo[t], Len(todo[t]), m)
                \/ Dying(todo[t], Len(todo[t]), m)
  <2>1. t \in Threads /\ todo[t] # <<>> /\ Head(todo[t]).op = "join" /\ Head(todo[t]).mp = m
    BY DEF Does, Next1
  <2>2. /\ Len(todo[t]) \in 1 .. Len(todo[t]) /\ OkAt(t, todo[t], Len(todo[t]))
        /\ Deep(todo[t], Len(todo[t])) = Head(todo[t])
    BY <2>1, TopStep
  <2>3. QED
    BY <2>1, <2>2 DEF OkAt, EndOps
<1>2. ASSUME NEW t \in T, NEW u \in T
      PROVE  t = u
  <2>0. /\ Len(todo[t]) \in 1 .. Len(todo[t]) /\ Len(todo[u]) \in 1 .. Len(todo[u])
        /\ t \in Threads /\ u \in Threads
    BY <1>1
  <2>1. CASE Dying(todo[t], Len(todo[t]), m) /\ Dying(todo[u], Len(todo[u]), m)
    BY <2>0, <2>1 DEF Dying, RefsInv, Ends
  <2>2. CASE t = Ui /\ u = Ui
    BY <2>2
  <2>3. ~(Dying(todo[t], Len(todo[t]), m) /\ Held(todo[u], Len(todo[u]), m))
    BY <2>0, DyingUnreferred, HeldReferred
  <2>4. ~(Dying(todo[u], Len(todo[u]), m) /\ Held(todo[t], Len(todo[t]), m))
    BY <2>0, DyingUnreferred, HeldReferred
  <2>5. QED
    BY <1>1, <2>1, <2>2, <2>3, <2>4
<1>3. CASE T = {}
  BY <1>3, FS_EmptySet
<1>4. CASE T # {}
  <2>1. PICK t \in T : TRUE
    BY <1>4
  <2>2. T = {t}
    BY <1>2, <2>1
  <2>3. Cardinality({t}) = 1
    BY FS_Singleton
  <2>4. QED
    BY <2>2, <2>3
<1>5. QED
  BY <1>3, <1>4

THEOREM RefsAlways == Spec => []RefsInv
<1>1. Init => RefsInv
  BY InitRefs
<1>2. RefsInv /\ [Next]_vars => RefsInv'
  BY NextRefs
<1>3. QED
  BY <1>1, <1>2, PTL DEF Spec

-----------------------------------------------------------------------------
(***************************************************************************)
(* What is read, and the global reference.                                 *)
(***************************************************************************)
LEMMA LetsGoOn ==
  ASSUME NEW s, NEW p, NEW q, Fronted(s, p, q), Head(s).op # "unset", LetsGo(s)
  PROVE  LetsGo(q)
<1>1. PICK j \in 1 .. Len(s) : Deep(s, j).op = "unset"
  BY DEF LetsGo
<1>2. Len(s) \in Nat /\ Len(p) \in Nat /\ Len(q) = Len(p) + Len(s) - 1 /\ j # Len(s)
  BY <1>1 DEF Fronted
<1>3. j \in 1 .. (Len(s) - 1) /\ j \in 1 .. Len(q)
  BY <1>2
<1>4. QED
  BY <1>1, <1>3 DEF LetsGo, Fronted

LEMMA HandsOnStill ==
  ASSUME NEW s, NEW p, NEW q, Fronted(s, p, q), HandsOn(s),
         \A i \in 1 .. Len(p) : p[i].op # "setup"
  PROVE  HandsOn(q)
<1> SUFFICES ASSUME NEW j \in 1 .. Len(q), Deep(q, j).op = "setup"
             PROVE  Deep(q, j).mp # 0
  BY DEF HandsOn
<1>1. Len(s) \in Nat
  BY DEF Fronted
<1>2. ~(j >= Len(s))
  BY DEF Fronted
<1>3. j \in 1 .. (Len(s) - 1) /\ j \in 1 .. Len(s)
  BY <1>1, <1>2
<1>4. QED
  BY <1>3 DEF HandsOn, Fronted

(***************************************************************************)
(* The stream is still closed before the object's player is let go of.     *)
(***************************************************************************)
LEMMA ClosesOn ==
  ASSUME NEW s, NEW p, NEW q, Fronted(s, p, q), NEW m, ClosesAbove(s, m),
         \A i \in 1 .. Len(p) : p[i].op \notin {"unset", "unweak"},
         \/ Head(s) \notin {Step("close", m), Step("join", m)}
         \/ Len(p) = 1 /\ p[1] = Step("join", m)
  PROVE  ClosesAbove(q, m)
<1> SUFFICES ASSUME NEW j \in 1 .. Len(q), Deep(q, j).op \in {"unset", "unweak"}
             PROVE  \E k \in (j + 1) .. Len(q) :
                      Deep(q, k) \in {Step("close", m), Step("join", m)}
  BY DEF ClosesAbove
<1>1. /\ Len(s) \in Nat /\ Len(p) \in Nat /\ Len(q) = Len(p) + Len(s) - 1
      /\ Deep(s, Len(s)) = Head(s)
  BY DEF Fronted
<1>2. ~(j >= Len(s))
  BY DEF Fronted
<1>3. j \in 1 .. (Len(s) - 1) /\ j \in 1 .. Len(s)
  BY <1>1, <1>2
<1>4. Deep(s, j) = Deep(q, j)
  BY <1>3 DEF Fronted
<1>5. PICK k \in (j + 1) .. Len(s) : Deep(s, k) \in {Step("close", m), Step("join", m)}
  BY <1>3, <1>4 DEF ClosesAbove
<1>6. CASE k < Len(s)
  <2>1. k \in 1 .. (Len(s) - 1) /\ k \in (j + 1) .. Len(q)
    BY <1>1, <1>3, <1>6
  <2>2. QED
    BY <1>5, <2>1 DEF Fronted
<1>7. CASE ~(k < Len(s))
  <2>1. k = Len(s) /\ Head(s) \in {Step("close", m), Step("join", m)}
    BY <1>1, <1>5, <1>7
  <2>2. Len(p) = 1 /\ p[1] = Step("join", m)
    BY <2>1
  <2>3. Len(q) = Len(s) /\ k \in Len(s) .. Len(q) /\ Len(q) + 1 - k = 1
        /\ k \in (j + 1) .. Len(q)
    BY <1>1, <1>3, <2>1, <2>2
  <2>4. Deep(q, k) = p[1]
    BY <2>3 DEF Fronted
  <2>5. QED
    BY <2>2, <2>3, <2>4
<1>8. QED
  BY <1>6, <1>7

(***************************************************************************)
(* Steps that begin to read nothing and let go of nothing.                 *)
(***************************************************************************)
SameUse ==
  \A m \in Players :
    /\ player'[m].weak = player[m].weak /\ player'[m].opaque = player[m].opaque
    /\ player'[m].read = "run" =>
         /\ player[m].read = "run"
         /\ player[m].is => player'[m].is
         /\ player[m].prepared => player'[m].prepared
SameUi ==
  /\ LetsGo(todo[Ui]) => LetsGo(todo'[Ui])
  /\ HandsOn(todo[Ui]) => HandsOn(todo'[Ui])
  /\ \A m \in Players : player'[m].read = "run" /\ ClosesAbove(todo[Ui], m)
                          => ClosesAbove(todo'[Ui], m)

LEMMA UsedSame ==
  ASSUME Typed, UseInv, UNCHANGED <<cur, handles>>, SameUse, SameUi
  PROVE  UseInv'
<1>1. Whole'
  BY DEF Typed, UseInv, Whole, SameUse, SameUi
<1>2. HandsOn(todo'[Ui])
  BY DEF UseInv, SameUi
<1>3. Quiet'
  BY DEF UseInv, Quiet, SameUse, SameUi
<1>4. QED
  BY <1>1, <1>2, <1>3 DEF UseInv

LEMMA SameUsed ==
  ASSUME Typed, NEW m \in Players, NEW r \in PlayerRecords,
         r.weak = player[m].weak, r.opaque = player[m].opaque,
         r.read = "run" => /\ player[m].read = "run"
                           /\ player[m].is => r.is
                           /\ player[m].prepared => r.prepared,
         player' = [player EXCEPT ![m] = r]
  PROVE  SameUse
<1>1. player'[m] = r /\ \A n \in Players \ {m} : player'[n] = player[n]
  BY DEF Typed
<1> SUFFICES ASSUME NEW n \in Players
             PROVE  /\ player'[n].weak = player[n].weak /\ player'[n].opaque = player[n].opaque
                    /\ player'[n].read = "run" =>
                         /\ player[n].read = "run"
                         /\ player[n].is => player'[n].is
                         /\ player[n].prepared => player'[n].prepared
  BY DEF SameUse
<1>2. CASE n = m
  BY <1>1, <1>2
<1>3. CASE n # m
  BY <1>1, <1>3
<1>4. QED
  BY <1>2, <1>3

LEMMA UsesOn ==
  ASSUME LifeInv, NEW t \in Threads, NEW p \in Seq(Steps), todo[t] # <<>>, Then(t, p),
         Head(todo[t]).op # "unset",
         \A i \in 1 .. Len(p) : p[i].op \notin {"unset", "unweak", "setup"},
         \A m \in Players : player'[m].read = "run" =>
           \/ Head(todo[t]) \notin {Step("close", m), Step("join", m)}
           \/ Len(p) = 1 /\ p[1] = Step("join", m),
         UNCHANGED <<cur, handles>>, SameUse
  PROVE  UseInv'
<1>0. Typed /\ UseInv
  BY DEF LifeInv, RefsInv
<1>1. /\ Fronted(todo[t], p, todo'[t])
      /\ \A u \in Threads \ {t} : todo'[u] = todo[u]
  BY <1>0, Thens, Zenon
<1>2. CASE t = Ui
  <2>1. LetsGo(todo[Ui]) => LetsGo(todo'[Ui])
    BY <1>1, <1>2, LetsGoOn
  <2>2. HandsOn(todo[Ui]) => HandsOn(todo'[Ui])
    BY <1>1, <1>2, HandsOnStill
  <2>3. ASSUME NEW m \in Players, player'[m].read = "run", ClosesAbove(todo[Ui], m)
        PROVE  ClosesAbove(todo'[Ui], m)
    BY <1>1, <1>2, <2>3, ClosesOn
  <2>4. SameUi
    BY <2>1, <2>2, <2>3 DEF SameUi
  <2>5. QED
    BY <1>0, <2>4, UsedSame
<1>3. CASE t # Ui
  <2>1. todo'[Ui] = todo[Ui]
    BY <1>1, <1>3 DEF Threads
  <2>2. SameUi
    BY <2>1 DEF SameUi
  <2>3. QED
    BY <1>0, <2>2, UsedSame
<1>4. QED
  BY <1>2, <1>3

LEMMA CalmOn ==
  ASSUME LifeInv, NEW t \in Threads, NEW p \in Seq(Steps), todo[t] # <<>>, Then(t, p),
         Head(todo[t]).op \notin {"close", "join", "unset"},
         \A i \in 1 .. Len(p) : p[i].op \notin {"unset", "unweak", "setup"},
         UNCHANGED <<cur, handles>>, SameUse
  PROVE  UseInv'
<1>1. \A m \in Players : Head(todo[t]) \notin {Step("close", m), Step("join", m)}
  BY DEF Step
<1>2. QED
  BY <1>1, UsesOn

(***************************************************************************)
(* The steps that only go on.                                              *)
(***************************************************************************)
LEMMA CalmSteps ==
  ASSUME LifeInv, NEW t \in Threads,
         \/ Prepare(t) /\ player[Head(todo[t]).mp].prepared
         \/ Stop(t) \/ Clear(t) \/ Dec(t) \/ Destroy(t)
  PROVE  UseInv'
<1> DEFINE x == Head(todo[t])  m == x.mp
<1>0. Typed /\ RefsInv
  BY DEF LifeInv, RefsInv
<1>1. /\ todo[t] # <<>> /\ UNCHANGED <<cur, handles>>
      /\ x.op \in {"prepare", "stop", "stopCall", "clear", "dec", "destroy"}
      /\ x.op = "clear" \/ m \in Players
  <2>1. /\ todo[t] # <<>> /\ UNCHANGED <<cur, handles>>
        /\ x.op \in {"prepare", "stop", "stopCall", "clear", "dec", "destroy"}
    BY DEF Prepare, Stop, Clear, Dec, Destroy, Does, Next1
  <2>2. QED
    BY <1>0, <2>1, TopStep
<1>2. m \in Players => player[m] \in PlayerRecords
  BY <1>0 DEF Typed
<1>3. <<>> \in Seq(Steps) /\ \A i \in 1 .. Len(<<>>) : FALSE
  OBVIOUS
<1>4. ASSUME Then(t, <<>>), SameUse
      PROVE  UseInv'
  BY <1>1, <1>3, <1>4, CalmOn
<1>5. CASE UNCHANGED player /\ Then(t, <<>>)
  <2>1. SameUse
    BY <1>5 DEF SameUse
  <2>2. QED
    BY <1>4, <1>5, <2>1
<1>6. CASE (Prepare(t) /\ player[m].prepared) \/ Clear(t)
  BY <1>5, <1>6 DEF Prepare, Clear, Next1
<1>7. CASE Stop(t)
  <2>1. Then(t, <<>>) /\ m \in Players
    BY <1>1, <1>7 DEF Stop, Does, Next1
  <2>2. player' = player \/ player' = [player EXCEPT ![m] = Stopped(player[m])]
    BY <1>7 DEF Stop, Next1
  <2>3. CASE player' = [player EXCEPT ![m] = Stopped(player[m])]
    <3>1. SameUse
      BY <1>0, <1>2, <2>1, <2>3, StoppedSame, SameUsed
    <3>2. QED
      BY <1>4, <2>1, <3>1
  <2>4. QED
    BY <1>5, <2>1, <2>2, <2>3
<1>8. CASE Destroy(t)
  <2>1. Then(t, <<>>) /\ m \in Players
    BY <1>1, <1>8 DEF Destroy, Does, Next1
  <2>2. player' = [player EXCEPT ![m].state = "freed"]
    BY <1>8 DEF Destroy, Next1
  <2> DEFINE r == [player[m] EXCEPT !.state = "freed"]
  <2>3. /\ r \in PlayerRecords /\ r.weak = player[m].weak /\ r.opaque = player[m].opaque
        /\ r.read = player[m].read /\ r.is = player[m].is /\ r.prepared = player[m].prepared
    BY <1>2, <2>1 DEF PlayerRecords
  <2>4. player' = [player EXCEPT ![m] = r]
    BY <2>2
  <2> HIDE DEF r
  <2>5. SameUse
    BY <1>0, <2>1, <2>3, <2>4, SameUsed
  <2>6. QED
    BY <1>4, <2>1, <2>5
<1>9. CASE Dec(t)
  <2>1. m \in Players /\ x = Step("dec", m)
    <3>1. x.op = "dec" /\ x \in Steps
      BY <1>0, <1>1, <1>9, TopStep DEF Dec, Does, Next1
    <3>2. QED
      BY <1>1, <3>1 DEF Steps, Step
  <2>2. player[m].refs \in Nat /\ player[m].refs > 0
    <3>1. Len(todo[t]) \in Places(todo[t], m)
      BY <1>0, <1>1, <2>1, TopStep DEF Places
    <3>2. QED
      BY <1>0, <2>1, <3>1, Referred
  <2>3. player' = [player EXCEPT ![m].refs = @ - 1]
    BY <1>9 DEF Dec, Next1
  <2> DEFINE r == [player[m] EXCEPT !.refs = @ - 1]
  <2>4. player[m].refs - 1 \in Nat
    BY <2>2
  <2>5. /\ r \in PlayerRecords /\ r.weak = player[m].weak /\ r.opaque = player[m].opaque
        /\ r.read = player[m].read /\ r.is = player[m].is /\ r.prepared = player[m].prepared
    BY <1>2, <2>1, <2>4 DEF PlayerRecords
  <2>6. player' = [player EXCEPT ![m] = r]
    BY <2>3
  <2> HIDE DEF r
  <2>7. SameUse
    BY <1>0, <2>1, <2>5, <2>6, SameUsed
  <2> DEFINE p == <<Step("stop", m), Step("close", m), Step("destroy", m)>>
  <2>8. Then(t, <<>>) \/ Then(t, p)
    BY <1>9 DEF Dec, Next1
  <2>9. p \in Seq(Steps)
    BY <2>1 DEF Steps, Step, Ops, CallOps, EndOps
  <2>10. /\ Len(p) = 3 /\ p[1] = Step("stop", m) /\ p[2] = Step("close", m)
         /\ p[3] = Step("destroy", m)
    OBVIOUS
  <2> HIDE DEF p
  <2>11. \A i \in 1 .. Len(p) : p[i].op \notin {"unset", "unweak", "setup"}
    <3>1. \A i \in 1 .. Len(p) : i \in {1, 2, 3}
      BY <2>10
    <3>2. QED
      BY <2>10, <3>1 DEF Step
  <2>12. CASE Then(t, p)
    BY <1>1, <2>7, <2>9, <2>11, <2>12, CalmOn
  <2>13. QED
    BY <1>4, <2>7, <2>8, <2>12
<1>10. QED
  BY <1>6, <1>7, <1>8, <1>9

(***************************************************************************)
(* Those of the message loop.                                              *)
(***************************************************************************)
LEMMA LoopUses ==
  ASSUME LifeInv, NEW m \in Players, LoopStep(m)
  PROVE  UseInv'
<1> DEFINE x == Head(todo[m])
<1>0. Typed /\ m \in Threads /\ player[m] \in PlayerRecords
  BY DEF LifeInv, RefsInv, Typed, Threads
<1>1. /\ todo[m] # <<>> /\ UNCHANGED <<cur, handles>>
      /\ x.op \in {"enter", "get", "post", "ret"}
  BY DEF LoopStep, LoopEnters, LoopGets, LoopEnds, LoopPosts, LoopReturns, Does, Next1
<1>2. PICK p \in {<<>>, <<Step("get", m)>>, <<Step("post", m), Step("get", m)>>} : Then(m, p)
  BY DEF LoopStep, LoopEnters, LoopGets, LoopEnds, LoopPosts, LoopReturns
<1>3. p \in Seq(Steps)
  <2>1. Step("get", m) \in Steps /\ Step("post", m) \in Steps
    BY DEF Steps, Step, Ops, CallOps
  <2>2. /\ <<>> \in Seq(Steps) /\ <<Step("get", m)>> \in Seq(Steps)
        /\ <<Step("post", m), Step("get", m)>> \in Seq(Steps)
    BY <2>1
  <2>3. QED
    BY <1>2, <2>2
<1>4. \A i \in 1 .. Len(p) : p[i].op \notin {"unset", "unweak", "setup"}
  <2>1. CASE p = <<>>
    BY <2>1
  <2>2. CASE p = <<Step("get", m)>>
    BY <2>2 DEF Step
  <2>3. CASE p = <<Step("post", m), Step("get", m)>>
    <3>1. Len(p) = 2 /\ p[1].op = "post" /\ p[2].op = "get"
      BY <2>3 DEF Step
    <3>2. \A i \in 1 .. Len(p) : i = 1 \/ i = 2
      BY <3>1
    <3>3. QED
      BY <3>1, <3>2
  <2>4. QED
    BY <1>2, <2>1, <2>2, <2>3
<1>5. SameUse
  <2>1. CASE UNCHANGED player
    BY <2>1 DEF SameUse
  <2>2. CASE player' = [player EXCEPT ![m].loopRef = player[m].weak]
    <3> DEFINE r == [player[m] EXCEPT !.loopRef = player[m].weak]
    <3>1. /\ r \in PlayerRecords /\ r.weak = player[m].weak /\ r.opaque = player[m].opaque
          /\ r.read = player[m].read /\ r.is = player[m].is
          /\ r.prepared = player[m].prepared
      BY <1>0 DEF PlayerRecords
    <3>2. player' = [player EXCEPT ![m] = r]
      BY <2>2
    <3> HIDE DEF r
    <3>3. QED
      BY <1>0, <3>1, <3>2, SameUsed
  <2>3. CASE player' = [player EXCEPT ![m].msgs = @ - 1]
    <3> DEFINE r == [player[m] EXCEPT !.msgs = @ - 1]
    <3>1. /\ r \in PlayerRecords /\ r.weak = player[m].weak /\ r.opaque = player[m].opaque
          /\ r.read = player[m].read /\ r.is = player[m].is
          /\ r.prepared = player[m].prepared
      BY <1>0 DEF PlayerRecords
    <3>2. player' = [player EXCEPT ![m] = r]
      BY <2>3
    <3> HIDE DEF r
    <3>3. QED
      BY <1>0, <3>1, <3>2, SameUsed
  <2>4. QED
    BY <2>1, <2>2, <2>3
       DEF LoopStep, LoopEnters, LoopGets, LoopEnds, LoopPosts, LoopReturns
<1>6. QED
  BY <1>0, <1>1, <1>2, <1>3, <1>4, <1>5, CalmOn

(***************************************************************************)
(* A stream that is open is closed by whoever comes to it, and who waited  *)
(* for its threads finds nothing read any more.                            *)
(***************************************************************************)
LEMMA ClosesUses ==
  ASSUME LifeInv, NEW t \in Threads, Close(t) \/ Joined(t)
  PROVE  UseInv'
<1> DEFINE x == Head(todo[t])  m == x.mp
<1>0. Typed /\ RefsInv /\ Quiet
  BY DEF LifeInv, RefsInv, UseInv
<1>1. /\ todo[t] # <<>> /\ UNCHANGED <<cur, handles>> /\ x.op \in {"close", "join"}
  BY DEF Close, Joined, Does, Next1
<1>2. m \in Players /\ x \in Steps
  BY <1>0, <1>1, TopStep
<1>3. player[m] \in PlayerRecords
  BY <1>0, <1>2 DEF Typed
<1>4. x.op # "unset" /\ \A n \in Players : n # m => x \notin {Step("close", n), Step("join", n)}
  BY <1>1 DEF Step
<1>5. <<>> \in Seq(Steps) /\ \A i \in 1 .. Len(<<>>) : FALSE
  OBVIOUS
<1>6. ASSUME Then(t, <<>>), SameUse, player'[m].read # "run"
      PROVE  UseInv'
  BY <1>1, <1>4, <1>5, <1>6, UsesOn
<1>7. CASE Close(t) /\ player[m].is
  <2> DEFINE p == <<Step("join", m)>>
  <2>1. player' = [player EXCEPT ![m] = Stopped(player[m])] /\ Then(t, p)
    BY <1>7 DEF Close, Next1
  <2>2. p \in Seq(Steps)
    BY <1>2 DEF Steps, Step, Ops, CallOps, EndOps
  <2>3. Len(p) = 1 /\ p[1] = Step("join", m)
    OBVIOUS
  <2> HIDE DEF p
  <2>4. \A i \in 1 .. Len(p) : p[i].op \notin {"unset", "unweak", "setup"}
    BY <2>3 DEF Step
  <2>5. SameUse
    BY <1>0, <1>2, <1>3, <2>1, StoppedSame, SameUsed
  <2>6. QED
    BY <1>1, <1>4, <2>1, <2>2, <2>3, <2>4, <2>5, UsesOn
<1>8. CASE Close(t) /\ ~player[m].is
  <2>1. UNCHANGED player /\ Then(t, <<>>)
    BY <1>8 DEF Close, Next1
  <2>2. player'[m].read # "run"
    BY <1>0, <1>2, <1>8, <2>1 DEF Quiet
  <2>3. SameUse
    BY <2>1 DEF SameUse
  <2>4. QED
    BY <1>6, <2>1, <2>2, <2>3
<1>9. CASE Joined(t)
  <2>1. /\ player' = [player EXCEPT ![m].is = FALSE] /\ Then(t, <<>>)
        /\ player[m].read = "end"
    BY <1>9 DEF Joined, Next1
  <2> DEFINE r == [player[m] EXCEPT !.is = FALSE]
  <2>2. /\ r \in PlayerRecords /\ r.weak = player[m].weak /\ r.opaque = player[m].opaque
        /\ r.read = "end"
    BY <1>3, <2>1 DEF PlayerRecords
  <2>3. player' = [player EXCEPT ![m] = r]
    BY <2>1
  <2> HIDE DEF r
  <2>4. SameUse
    BY <1>0, <1>2, <2>2, <2>3, SameUsed
  <2>5. player'[m].read # "run"
    BY <1>0, <1>2, <2>2, <2>3 DEF Typed
  <2>6. QED
    BY <1>6, <2>1, <2>4, <2>5
<1>10. QED
  BY <1>7, <1>8, <1>9

(***************************************************************************)
(* A thread that comes to let go of the object's player finds nothing read *)
(* any more.                                                               *)
(***************************************************************************)
LEMMA NoneReads ==
  ASSUME LifeInv, todo[Ui] # <<>>, Head(todo[Ui]).op \in {"unset", "unweak"}
  PROVE  \A m \in Players : player[m].read # "run"
<1> SUFFICES ASSUME NEW m \in Players, player[m].read = "run"
             PROVE  FALSE
  OBVIOUS
<1>1. Ui \in Threads /\ RefsInv
  BY DEF LifeInv, Threads
<1>2. /\ Len(todo[Ui]) \in 1 .. Len(todo[Ui])
      /\ Deep(todo[Ui], Len(todo[Ui])) = Head(todo[Ui])
  BY <1>1, TopStep
<1>3. ClosesAbove(todo[Ui], m)
  BY DEF LifeInv, UseInv, Quiet
<1>4. \E k \in (Len(todo[Ui]) + 1) .. Len(todo[Ui]) : TRUE
  BY <1>2, <1>3 DEF ClosesAbove
<1>5. QED
  BY <1>2, <1>4

LEMMA UnweakUses ==
  ASSUME LifeInv, NEW t \in Threads, Unweak(t)
  PROVE  UseInv'
<1> DEFINE x == Head(todo[t])  m == x.mp
<1>0. /\ Typed /\ RefsInv /\ HandsOn(todo[Ui]) /\ StacksOk /\ UiSteps
  BY DEF LifeInv, RefsInv, UseInv
<1>1. /\ todo[t] # <<>> /\ x.op = "unweak" /\ Then(t, <<>>) /\ UNCHANGED cur
      /\ player' = [player EXCEPT ![m].weak = 0]
  BY DEF Unweak, Does, Next1
<1>2. /\ m \in Players /\ Len(todo[t]) \in 1 .. Len(todo[t])
      /\ OkAt(t, todo[t], Len(todo[t])) /\ Deep(todo[t], Len(todo[t])) = x
  BY <1>0, <1>1, TopStep
<1>3. t = Ui
  BY <1>1, <1>2 DEF OkAt, UiOps
<1>4. \A n \in Players : player[n].read # "run"
  BY <1>1, <1>3, NoneReads
<1>5. <<>> \in Seq(Steps)
  OBVIOUS
<1>6. Fronted(todo[t], <<>>, todo'[t])
  BY <1>0, <1>1, <1>5, Thens, Zenon
<1>7. LetsGo(todo[Ui])
  <2>1. PICK k \in 1 .. Len(todo[Ui]) : Deep(todo[Ui], k).op = "unset"
    BY <1>0, <1>1, <1>2, <1>3 DEF UiSteps, UiStack
  <2>2. QED
    BY <2>1 DEF LetsGo
<1>8. Whole'
  BY <1>1, <1>3, <1>6, <1>7, LetsGoOn DEF Whole
<1>9. HandsOn(todo'[Ui])
  <2>1. \A i \in 1 .. Len(<<>>) : FALSE
    OBVIOUS
  <2>2. QED
    BY <1>0, <1>3, <1>6, <2>1, HandsOnStill
<1>10. \A n \in Players : player'[n].read = player[n].read
  BY <1>0, <1>1, <1>2 DEF Typed, PlayerRecords
<1>11. Quiet'
  BY <1>4, <1>10 DEF Quiet
<1>12. QED
  BY <1>8, <1>9, <1>11 DEF UseInv

LEMMA UnsetUses ==
  ASSUME LifeInv, NEW t \in Threads, Unset(t)
  PROVE  UseInv'
<1> DEFINE x == Head(todo[t])
           p == IF cur = 0 THEN <<>> ELSE <<Step("dec", cur)>>
<1>0. /\ Typed /\ RefsInv /\ HandsOn(todo[Ui]) /\ StacksOk
  BY DEF LifeInv, RefsInv, UseInv
<1>1. /\ todo[t] # <<>> /\ x.op = "unset" /\ Then(t, p) /\ cur' = 0 /\ UNCHANGED player
  BY DEF Unset, Does, Next1
<1>2. OkAt(t, todo[t], Len(todo[t])) /\ Deep(todo[t], Len(todo[t])) = x
  BY <1>0, <1>1, TopStep
<1>3. t = Ui
  BY <1>1, <1>2 DEF OkAt, UiOps
<1>4. \A n \in Players : player[n].read # "run"
  BY <1>1, <1>3, NoneReads
<1>5. p \in Seq(Steps)
  <2>1. cur \in Players \cup {0}
    BY <1>0 DEF Typed
  <2>2. Step("dec", cur) \in Steps
    BY <2>1 DEF Steps, Step, Ops
  <2>3. QED
    BY <2>2
<1>6. \A i \in 1 .. Len(p) : p[i].op = "dec"
  BY DEF Step
<1> HIDE DEF p
<1>7. Fronted(todo[t], p, todo'[t])
  BY <1>0, <1>1, <1>5, Thens, Zenon
<1>8. HandsOn(todo'[Ui])
  BY <1>0, <1>3, <1>6, <1>7, HandsOnStill
<1>9. QED
  BY <1>1, <1>4, <1>8 DEF UseInv, Whole, Quiet

(***************************************************************************)
(* A reset takes the global reference over, and closes the stream before   *)
(* it lets go; native_setup gives it to the new player.                    *)
(***************************************************************************)
LEMMA TakeWeakUses ==
  ASSUME LifeInv, NEW t \in Threads, TakeWeak(t)
  PROVE  UseInv'
<1> DEFINE s == todo[Ui]  q == todo'[Ui]  w == player[cur].weak
<1>0. RefsInv /\ Whole /\ Quiet
  BY DEF LifeInv, UseInv
<1>1. /\ cur \in Players /\ cur' = cur /\ handles' = handles
      /\ Resets(s, cur) /\ Taken(q, cur, w)
      /\ \A n \in Players : /\ player'[n].read = player[n].read
                            /\ player'[n].opaque = player[n].opaque
                            /\ player'[n].is = player[n].is
                            /\ player'[n].prepared = player[n].prepared
  BY <1>0, TakesWeak
<1>2. w # 0
  <2>1. /\ Len(s) = 3 /\ Deep(s, 1).op = "clear" /\ Deep(s, 2).op = "dec"
        /\ Deep(s, 3).op = "takeWeak"
    BY <1>1 DEF Resets, Deep, Step
  <2>2. \A j \in 1 .. Len(s) : j \in {1, 2, 3}
    BY <2>1
  <2>3. ~LetsGo(s)
    BY <2>1, <2>2 DEF LetsGo
  <2>4. cur # 0
    BY <1>1 DEF Players
  <2>5. QED
    BY <1>0, <2>3, <2>4 DEF Whole
<1> HIDE DEF s, q, w
<1>3. /\ Len(q) = 8
      /\ Deep(q, 1).op = "clear" /\ Deep(q, 2).op = "dec"
      /\ Deep(q, 3).op = "setup" /\ Deep(q, 3).mp = w /\ Deep(q, 4).op = "dec"
      /\ Deep(q, 5).op = "unset" /\ Deep(q, 6).op = "unweak"
      /\ Deep(q, 7) = Step("close", cur) /\ Deep(q, 7).op = "close"
      /\ Deep(q, 8).op = "stop"
  BY <1>1 DEF Taken, Step
<1>4. \A j \in 1 .. Len(q) : j \in {1, 2, 3, 4, 5, 6, 7, 8}
  BY <1>3
<1>5. LetsGo(q)
  BY <1>3 DEF LetsGo
<1>6. HandsOn(q)
  BY <1>2, <1>3, <1>4 DEF HandsOn
<1>7. ClosesAbove(q, cur)
  <2>1. \A j \in 1 .. Len(q) : Deep(q, j).op \in {"unset", "unweak"} => 7 \in (j + 1) .. Len(q)
    BY <1>3, <1>4
  <2>2. QED
    BY <1>3, <2>1 DEF ClosesAbove
<1>8. Quiet'
  BY <1>0, <1>1, <1>7 DEF Quiet, q
<1>9. QED
  BY <1>5, <1>6, <1>8 DEF UseInv, Whole, q

LEMMA SetupUses ==
  ASSUME LifeInv, NEW t \in Threads, Setup(t)
  PROVE  UseInv'
<1> DEFINE x == Head(todo[t])  m == cur'  p == <<Step("dec", m)>>
<1>0. /\ Typed /\ RefsInv /\ HandsOn(todo[Ui]) /\ Quiet
  BY DEF LifeInv, RefsInv, UseInv
<1>1. /\ t = Ui /\ cur = 0 /\ m \in Players /\ todo[t] # <<>> /\ x.op = "setup" /\ Then(t, p)
      /\ player'[m] = NewPlayer(IF x.mp = 0 THEN 0 ELSE m)
      /\ handles' = handles \cup (IF x.mp = 0 THEN {} ELSE {m})
      /\ \A n \in Players \ {m} : player'[n] = player[n]
  BY <1>0, Setups
<1>2. x.mp # 0
  <2>1. Len(todo[t]) \in 1 .. Len(todo[t]) /\ Deep(todo[t], Len(todo[t])) = x
    BY <1>0, <1>1, TopStep
  <2>2. QED
    BY <1>0, <1>1, <2>1 DEF HandsOn
<1>3. player'[m] = NewPlayer(m) /\ m \in handles'
  BY <1>1, <1>2
<1>4. player'[m].weak = m /\ player'[m].opaque = m /\ player'[m].read = "none"
  <2>1. PICK h \in Players : h = m
    BY <1>1
  <2>2. NewPlayer(h).weak = h /\ NewPlayer(h).opaque = h /\ NewPlayer(h).read = "none"
    BY NewPlayers
  <2>3. QED
    BY <1>3, <2>1, <2>2
<1>5. p \in Seq(Steps)
  BY <1>1 DEF Steps, Step, Ops
<1>6. \A i \in 1 .. Len(p) : p[i].op = "dec"
  BY DEF Step
<1> HIDE DEF p
<1>7. Fronted(todo[t], p, todo'[t])
  BY <1>0, <1>1, <1>5, Thens, Zenon
<1>8. HandsOn(todo'[Ui])
  BY <1>0, <1>1, <1>6, <1>7, HandsOnStill
<1>9. Whole'
  BY <1>3, <1>4 DEF Whole
<1>10. \A n \in Players : player'[n].read # "run"
  <2>1. 0 \notin Players
    BY DEF Players
  <2>2. \A n \in Players : player[n].read # "run"
    BY <1>0, <1>1, <2>1 DEF Quiet
  <2>3. QED
    BY <1>1, <1>4, <2>2
<1>11. Quiet'
  BY <1>10 DEF Quiet
<1>12. QED
  BY <1>8, <1>9, <1>11 DEF UseInv

(***************************************************************************)
(* The first prepare is one of the object's player, with its reference.    *)
(***************************************************************************)
LEMMA PrepareUses ==
  ASSUME LifeInv, NEW t \in Threads, Prepare(t), ~player[Head(todo[t]).mp].prepared
  PROVE  UseInv'
<1> DEFINE s == todo[Ui]  q == todo'[Ui]
<1>0. RefsInv /\ Whole /\ Quiet
  BY DEF LifeInv, UseInv
<1>1. /\ cur \in Players /\ cur' = cur /\ handles' = handles
      /\ Prepares(s, cur) /\ ~player[cur].prepared
      /\ q = <<Step("dec", cur)>>
      /\ player'[cur].weak = player[cur].weak /\ player'[cur].opaque = player[cur].opaque
      /\ player'[cur].prepared
      /\ player'[cur].read = "run" => player'[cur].is \/ player[cur].read = "run"
      /\ \A n \in Players \ {cur} : player'[n] = player[n]
  BY <1>0, PreparesFirst
<1>2. ~LetsGo(s) /\ cur # 0
  <2>1. Len(s) = 2 /\ Deep(s, 1).op = "dec" /\ Deep(s, 2).op = "prepare"
    BY <1>1 DEF Prepares, Deep, Step
  <2>2. \A j \in 1 .. Len(s) : j \in {1, 2}
    BY <2>1
  <2>3. QED
    BY <1>1, <2>1, <2>2 DEF LetsGo, Players
<1>3. player[cur].weak = cur /\ player[cur].opaque = cur /\ cur \in handles
  BY <1>0, <1>2 DEF Whole
<1>4. \A j \in 1 .. Len(q) : Deep(q, j).op = "dec"
  BY <1>1 DEF Deep, Step
<1>5. HandsOn(q) /\ \A n : ClosesAbove(q, n)
  BY <1>4 DEF HandsOn, ClosesAbove
<1> HIDE DEF s, q
<1>6. Whole'
  BY <1>1, <1>3 DEF Whole
<1>7. Quiet'
  <2> SUFFICES ASSUME NEW n \in Players, player'[n].read = "run"
               PROVE  /\ cur' = n /\ n \in handles' /\ player'[n].opaque = n
                      /\ player'[n].is /\ player'[n].prepared
                      /\ ClosesAbove(todo'[Ui], n)
    BY DEF Quiet
  <2>1. player[cur].read # "run"
    BY <1>0, <1>1 DEF Quiet
  <2>2. n = cur
    BY <1>0, <1>1 DEF Quiet
  <2>3. QED
    BY <1>1, <1>3, <1>5, <2>1, <2>2 DEF q
<1>8. QED
  BY <1>5, <1>6, <1>7 DEF UseInv, q

(***************************************************************************)
(* A method that begins takes a reference, and what it has to do before it *)
(* lets go of the player closes the stream.                                *)
(***************************************************************************)
LEMMA GotUse ==
  ASSUME RefsInv, cur # 0, GetPlayer
  PROVE  SameUse /\ cur \in Players
<1>0. Typed /\ Counted
  BY DEF RefsInv
<1>1. cur \in Players /\ player[cur].refs \in Nat /\ player[cur] \in PlayerRecords
  BY <1>0, CountedPlayer DEF Typed
<1> DEFINE a == player[cur].refs + 1  r == [player[cur] EXCEPT !.refs = a]
<1>2. a \in Nat
  BY <1>1
<1>3. player' = [player EXCEPT ![cur] = r]
  BY DEF GetPlayer
<1> HIDE DEF a
<1>4. /\ r \in PlayerRecords /\ r.weak = player[cur].weak /\ r.opaque = player[cur].opaque
      /\ r.read = player[cur].read /\ r.is = player[cur].is
      /\ r.prepared = player[cur].prepared
  BY <1>1, <1>2 DEF PlayerRecords
<1> HIDE DEF r
<1>5. SameUse
  BY <1>0, <1>1, <1>3, <1>4, SameUsed
<1>6. QED
  BY <1>1, <1>5

LEMMA BeginUses ==
  ASSUME LifeInv, cur # 0, GetPlayer, UNCHANGED <<cur, handles>>,
         \/ todo'[Ui] = todo[Ui]
         \/ todo[Ui] = <<>> /\ HandsOn(todo'[Ui]) /\ ClosesAbove(todo'[Ui], cur)
  PROVE  UseInv'
<1>0. RefsInv /\ Typed /\ UseInv /\ Quiet
  BY DEF LifeInv, RefsInv, UseInv
<1>1. SameUse
  BY <1>0, GotUse
<1>2. CASE todo'[Ui] = todo[Ui]
  <2>1. SameUi
    BY <1>2 DEF SameUi
  <2>2. QED
    BY <1>0, <1>1, <2>1, UsedSame
<1>3. CASE todo[Ui] = <<>> /\ HandsOn(todo'[Ui]) /\ ClosesAbove(todo'[Ui], cur)
  <2>1. 1 .. Len(todo[Ui]) = {}
    BY <1>3
  <2>2. ~LetsGo(todo[Ui])
    BY <2>1 DEF LetsGo
  <2>3. \A m \in Players : player'[m].read = "run" => m = cur
    BY <1>0, <1>1 DEF Quiet, SameUse
  <2>4. SameUi
    BY <1>3, <2>2, <2>3 DEF SameUi
  <2>5. QED
    BY <1>0, <1>1, <2>4, UsedSame
<1>4. QED
  BY <1>2, <1>3

LEMMA BeginsUse ==
  ASSUME LifeInv,
         BeginPrepare \/ BeginCall \/ BeginStop \/ BeginRelease \/ Finalize \/ BeginReset
  PROVE  UseInv'
<1>0. RefsInv /\ Typed
  BY DEF LifeInv, RefsInv
<1>1. cur # 0 /\ GetPlayer /\ UNCHANGED <<cur, handles>>
  BY DEF BeginPrepare, BeginCall, BeginStop, BeginRelease, Finalize, BeginReset, Begin
<1>2. Ui \in Threads /\ Bg \in Threads /\ Ui # Bg
  BY DEF Threads, Ui, Bg
<1>3. DOMAIN todo = Threads
  BY <1>0 DEF Typed
<1>4. CASE BeginCall \/ BeginStop
  <2>1. todo'[Ui] = todo[Ui]
    BY <1>2, <1>3, <1>4 DEF BeginCall, BeginStop, Begin
  <2>2. QED
    BY <1>1, <2>1, BeginUses
<1>5. ASSUME NEW q, todo[Ui] = <<>>, todo' = [todo EXCEPT ![Ui] = q], HandsOn(q),
             ClosesAbove(q, cur)
      PROVE  UseInv'
  <2>1. todo'[Ui] = q
    BY <1>2, <1>3, <1>5
  <2>2. QED
    BY <1>1, <1>5, <2>1, BeginUses
<1>6. CASE BeginPrepare
  <2> DEFINE q == <<Step("prepare", cur), Step("dec", cur)>>
  <2>1. <<Step("prepare", cur)>> \o <<Step("dec", cur)>> = q
    BY PairJoined, Zenon
  <2>2. todo[Ui] = <<>> /\ todo' = [todo EXCEPT ![Ui] = q]
    BY <1>6, <2>1, Zenon DEF BeginPrepare, Begin, Idle
  <2>3. /\ Len(q) = 2 /\ Deep(q, 1).op = "dec" /\ Deep(q, 2).op = "prepare"
    BY DEF Deep, Step
  <2> HIDE DEF q
  <2>4. \A j \in 1 .. Len(q) : j \in {1, 2}
    BY <2>3
  <2>5. HandsOn(q) /\ ClosesAbove(q, cur)
    BY <2>3, <2>4 DEF HandsOn, ClosesAbove
  <2>6. QED
    BY <1>5, <2>2, <2>5
<1>7. CASE BeginReset
  <2> DEFINE q == <<Step("takeWeak", cur), Step("dec", cur), Step("clear", 0)>>
  <2>1. todo[Ui] = <<>> /\ todo' = [todo EXCEPT ![Ui] = q]
    BY <1>7 DEF BeginReset, Idle
  <2>2. /\ Len(q) = 3 /\ Deep(q, 1).op = "clear" /\ Deep(q, 2).op = "dec"
        /\ Deep(q, 3).op = "takeWeak"
    BY DEF Deep, Step
  <2> HIDE DEF q
  <2>3. \A j \in 1 .. Len(q) : j \in {1, 2, 3}
    BY <2>2
  <2>4. HandsOn(q) /\ ClosesAbove(q, cur)
    BY <2>2, <2>3 DEF HandsOn, ClosesAbove
  <2>5. QED
    BY <1>5, <2>1, <2>4
<1>8. CASE BeginRelease \/ Finalize
  <2> DEFINE q == <<Step("stop", cur), Step("close", cur), Step("unweak", cur),
                    Step("unset", cur), Step("dec", cur)>>
  <2>1. todo[Ui] = <<>> /\ todo' = [todo EXCEPT ![Ui] = q]
    BY <1>8 DEF BeginRelease, Finalize, Begin, Idle, ReleaseSteps
  <2>2. /\ Len(q) = 5 /\ Deep(q, 1).op = "dec" /\ Deep(q, 2).op = "unset"
        /\ Deep(q, 3).op = "unweak"
        /\ Deep(q, 4) = Step("close", cur) /\ Deep(q, 4).op = "close"
        /\ Deep(q, 5).op = "stop"
    BY DEF Deep, Step
  <2> HIDE DEF q
  <2>3. \A j \in 1 .. Len(q) : j \in {1, 2, 3, 4, 5}
    BY <2>2
  <2>4. \A j \in 1 .. Len(q) : Deep(q, j).op \in {"unset", "unweak"} => 4 \in (j + 1) .. Len(q)
    BY <2>2, <2>3
  <2>5. HandsOn(q) /\ ClosesAbove(q, cur)
    BY <2>2, <2>3, <2>4 DEF HandsOn, ClosesAbove
  <2>6. QED
    BY <1>5, <2>1, <2>5
<1>9. QED
  BY <1>4, <1>6, <1>7, <1>8

(***************************************************************************)
(* The threads of the stream, the Handler, and steps that change nothing.  *)
(***************************************************************************)
LEMMA StreamUses ==
  ASSUME LifeInv, \/ \E m \in Players : ReadPosts(m) \/ ReadEnds(m)
                  \/ Handles \/ UNCHANGED vars
  PROVE  UseInv'
<1>0. Typed /\ UseInv
  BY DEF LifeInv, RefsInv
<1>1. UNCHANGED <<todo, cur, handles>>
  BY DEF ReadPosts, ReadEnds, Handles, vars
<1>2. SameUi
  <2>1. todo' = todo
    BY <1>1
  <2>2. QED
    BY <2>1 DEF SameUi
<1>3. SameUse
  <2>1. CASE UNCHANGED player
    BY <2>1 DEF SameUse
  <2>2. ASSUME NEW m \in Players, ReadPosts(m) \/ ReadEnds(m)
        PROVE  SameUse
    <3>1. player[m] \in PlayerRecords
      BY <1>0 DEF Typed
    <3> DEFINE a == player[m].posted + 1
               b == IF player[m].aborted THEN player[m].msgs ELSE player[m].msgs + 1
               r == [player[m] EXCEPT !.posted = a, !.msgs = b]
               e == [player[m] EXCEPT !.read = "end"]
    <3>2. a \in Int /\ b \in Int
      BY <3>1 DEF PlayerRecords
    <3>3. player' = [player EXCEPT ![m] = r] \/ player' = [player EXCEPT ![m] = e]
      BY <1>0, <2>2, <3>1 DEF ReadPosts, ReadEnds, Typed, PlayerRecords
    <3> HIDE DEF a, b
    <3>4. /\ r \in PlayerRecords /\ r.weak = player[m].weak /\ r.opaque = player[m].opaque
          /\ r.read = player[m].read /\ r.is = player[m].is
          /\ r.prepared = player[m].prepared
      BY <3>1, <3>2 DEF PlayerRecords
    <3>5. /\ e \in PlayerRecords /\ e.weak = player[m].weak /\ e.opaque = player[m].opaque
          /\ e.read # "run"
      BY <3>1 DEF PlayerRecords
    <3> HIDE DEF r, e
    <3>6. QED
      BY <1>0, <3>3, <3>4, <3>5, SameUsed
  <2>3. QED
    BY <2>1, <2>2 DEF Handles, vars
<1>4. QED
  BY <1>0, <1>1, <1>2, <1>3, UsedSame

LEMMA NextUse ==
  ASSUME LifeInv, [Next]_vars
  PROVE  UseInv'
<1>1. CASE BeginPrepare \/ BeginCall \/ BeginStop \/ BeginRelease \/ Finalize \/ BeginReset
  BY <1>1, BeginsUse
<1>2. ASSUME NEW t \in Threads, ThreadStep(t)
      PROVE  UseInv'
  <2>1. CASE Prepare(t)
    BY <2>1, PrepareUses, CalmSteps
  <2>2. CASE Stop(t) \/ Clear(t) \/ Dec(t) \/ Destroy(t)
    BY <2>2, CalmSteps
  <2>3. CASE Close(t) \/ Joined(t)
    BY <2>3, ClosesUses
  <2>4. CASE Unweak(t)
    BY <2>4, UnweakUses
  <2>5. CASE TakeWeak(t)
    BY <2>5, TakeWeakUses
  <2>6. CASE Unset(t)
    BY <2>6, UnsetUses
  <2>7. CASE Setup(t)
    BY <2>7, SetupUses
  <2>8. QED
    BY <1>2, <2>1, <2>2, <2>3, <2>4, <2>5, <2>6, <2>7 DEF ThreadStep
<1>3. ASSUME NEW m \in Players, LoopStep(m) \/ ReadPosts(m) \/ ReadEnds(m)
      PROVE  UseInv'
  BY <1>3, LoopUses, StreamUses
<1>4. CASE Handles \/ UNCHANGED vars
  BY <1>4, StreamUses
<1>5. QED
  BY <1>1, <1>2, <1>3, <1>4 DEF Next

LEMMA InitLife ==
  ASSUME Init
  PROVE  LifeInv
<1>1. RefsInv
  BY InitRefs
<1>2. /\ 1 \in Players /\ cur = 1 /\ handles = {1}
      /\ player = [m \in Players |-> IF m = 1 THEN [NewPlayer(1) EXCEPT !.refs = 1]
                                              ELSE NoPlayer]
  BY PlayersAssumption DEF Init, Players
<1>3. /\ NewPlayer(1) \in PlayerRecords /\ NewPlayer(1).weak = 1
      /\ NewPlayer(1).opaque = 1 /\ NewPlayer(1).read = "none"
  BY <1>2, NewPlayers
<1>4. NoPlayer.read = "none"
  BY DEF NoPlayer
<1> DEFINE r == [NewPlayer(1) EXCEPT !.refs = 1]
<1>5. r.weak = 1 /\ r.opaque = 1 /\ r.read = "none"
  BY <1>3 DEF PlayerRecords
<1> HIDE DEF r
<1>6. \A m \in Players : player[m] = IF m = 1 THEN r ELSE NoPlayer
  BY <1>2 DEF r
<1>7. Whole
  BY <1>2, <1>5, <1>6 DEF Whole
<1>8. Quiet
  BY <1>4, <1>5, <1>6 DEF Quiet
<1>9. HandsOn(todo[Ui])
  <2>1. todo[Ui] = <<>>
    BY DEF Init, Threads
  <2>2. QED
    BY <2>1 DEF HandsOn
<1>10. QED
  BY <1>1, <1>7, <1>8, <1>9 DEF LifeInv, UseInv

THEOREM LifeAlways == Spec => []LifeInv
<1>1. Init => LifeInv
  BY InitLife
<1>2. LifeInv /\ [Next]_vars => LifeInv'
  BY NextRefs, NextUse DEF LifeInv
<1>3. QED
  BY <1>1, <1>2, PTL DEF Spec

-----------------------------------------------------------------------------
(***************************************************************************)
(* What the runs check.                                                    *)
(***************************************************************************)

\* Lifecycle: for any number of players, messages and calls, no thread has a
\* step on a native player that is freed, and the object's player is not freed:
\* whoever goes on with a player owns a reference to it below on its stack
\* (jni_get_media_player, ijkmp_inc_ref), or is the one that dropped the last
\* reference and ends it (ijkmp_dec_ref).
THEOREM PlayersNotFreed == Spec => []PlayersUsed
<1>1. LifeInv => PlayersUsed
  BY RefsUsed DEF LifeInv
<1>2. QED
  BY <1>1, LifeAlways, PTL

\* Lifecycle: at most one thread at a time waits in stream_close for the threads
\* of a player's stream.
THEOREM StreamClosedOnce == Spec => []ClosedByOne
<1>1. LifeInv => ClosedByOne
  BY RefsClosed DEF LifeInv
<1>2. QED
  BY <1>1, LifeAlways, PTL

\* Lifecycle: while the threads of a stream read or decode for a player, the
\* object still refers to it and the global reference that inject_callback uses
\* exists; a release or a reset closes the stream before it lets go of either.
THEOREM ReleaseIsQuiet == Spec => []ReleasedIsQuiet
<1>1. LifeInv => ReleasedIsQuiet
  BY DEF LifeInv, UseInv, Quiet, ReleasedIsQuiet
<1>2. QED
  BY <1>1, LifeAlways, PTL

\* Lifecycle: the three together, as the run of the life of players checks them.
THEOREM LifeIsSound == Spec => []LifeSound
<1>1. PlayersUsed /\ ClosedByOne /\ ReleasedIsQuiet => LifeSound
  BY DEF LifeSound
<1>2. QED
  BY <1>1, PlayersNotFreed, StreamClosedOnce, ReleaseIsQuiet, PTL
=============================================================================
