------------------------------ MODULE IjkUtil -------------------------------
(***************************************************************************)
(* The containers of ijkavutil.                                            *)
(*                                                                         *)
(* The balanced tree of ijktree.c holds the entries of the cache by their  *)
(* position: ijk_av_tree_insert, which with a node adds an element and     *)
(* without one takes it out, ijk_av_tree_find, which also gives the        *)
(* neighbours of the key, and ijk_av_tree_enumerate.  The cache reads on   *)
(* at next[1] and extends the entry at next[0], so that a neighbour that   *)
(* is not the nearest would hide cached bytes or write over them.          *)
(*                                                                         *)
(* The dictionary of ijkdict.c carries the options of the protocols: an    *)
(* array of entries in which a replaced entry is filled with the last one  *)
(* and the new entry is put behind them.  ijk_av_dict_set with its flags   *)
(* and the allocations that may fail, ijk_av_dict_get, ijk_av_dict_copy,   *)
(* and the pointers that are kept as text.  A key is a sequence of         *)
(* letters, a letter is the number of a small one or that plus Capital; a  *)
(* value is a sequence, for values are appended.                           *)
(*                                                                         *)
(* The byte ring of ijkfifo.c has two pointers into the buffer, and two    *)
(* indices that are never reset to the beginning of the buffer but run     *)
(* over at 2^32, whose difference is the number of bytes.  The pieces of a *)
(* transfer are at most up to the end of the buffer.                       *)
(***************************************************************************)
EXTENDS Integers, Sequences, FiniteSets
LOCAL INSTANCE SequencesExt

CONSTANTS
  TreeKeys,      \* positions, numbers larger than 0
  Capital,       \* added to a small letter
  Keys, Values,  \* of the calls
  MaxEntries,    \* bound: entries of the dictionary
  MaxLength,     \* bound: appended values
  Width,         \* bits of a pointer
  Capacity,      \* of the first buffer
  MaxBuffer,     \* bound: of a grown buffer
  Wrap,          \* one more than the largest index, 2^32 in the code
  Bytes          \* written one after the other, beginning again

VARIABLES
  root,
  elems,    \* what was added and not taken out again
  style,    \* do the calls ask for IJK_AV_DICT_MATCH_CASE
  dict,     \* the entries; an empty dictionary is freed, and NULL
  last,     \* what was set last for the keys that mean the same, unless one of:
  several,  \* IJK_AV_DICT_MULTIKEY was used
  lost,     \* an allocation failed after the old entry was taken out
  fifo,
  content   \* the bytes that were written and not read

treeVars == <<root, elems>>
dictVars == <<style, dict, last, several, lost>>
fifoVars == <<fifo, content>>
vars == <<treeVars, dictVars, fifoVars>>

(***************************************************************************)
(* The tree.                                                               *)
(***************************************************************************)

\* NULL, a tree without elements; 0 is no element.
Nil == [elem |-> 0]

Leaf(key) == [elem |-> key, state |-> 0, child |-> [i \in 0..1 |-> Nil]]

-----------------------------------------------------------------------------
\* Mutant: the neighbours are those on the way to the element.
RECURSIVE FindOnTheWay(_, _, _)
FindOnTheWay(t, key, next) ==
  CASE t = Nil       -> [elem |-> 0, next |-> next]
    [] t.elem = key  -> [elem |-> key, next |-> next]
    [] t.elem # key  -> LET i == IF key < t.elem THEN 1 ELSE 0 IN
                        FindOnTheWay(t.child[1 - i], key, [next EXCEPT ![i] = t.elem])

\* next[0] and next[1] are the elements before and behind the key.  Those of a
\* key that is found are in the subtrees, or where they were found before.
RECURSIVE Find(_, _, _)
Find(t, key, next) ==
  CASE t = Nil       -> [elem |-> 0, next |-> next]
    [] t.elem = key  -> [elem |-> key,
                         next |-> Find(t.child[1], key,
                                       Find(t.child[0], key, next).next).next]
    [] t.elem # key  -> LET i == IF key < t.elem THEN 1 ELSE 0 IN
                        Find(t.child[1 - i], key, [next EXCEPT ![i] = t.elem])

NoNext == [i \in 0..1 |-> 0]

\* The elements from lo to hi in their order, as cmp lets them through.
RECURSIVE Enumerate(_, _, _)
Enumerate(t, lo, hi) ==
  IF t = Nil THEN <<>>
  ELSE (IF t.elem >= lo THEN Enumerate(t.child[0], lo, hi) ELSE <<>>)
       \o (IF t.elem \in lo..hi THEN <<t.elem>> ELSE <<>>)
       \o (IF t.elem <= hi THEN Enumerate(t.child[1], lo, hi) ELSE <<>>)

-----------------------------------------------------------------------------
\* Child i of t is too high (t.state is 2 or -2).  Its inner child comes up when
\* that is the higher one.
TurnTwice(t, i) ==
  LET c == t.child[i]
      p == c.child[1 - i]
      kids == [j \in 0..1 |-> IF j = i THEN [c EXCEPT !.child[1 - i] = p.child[i]]
                              ELSE [t EXCEPT !.child[i] = p.child[1 - i]]]
  IN [elem |-> p.elem, state |-> 0,
      child |-> [kids EXCEPT ![0].state = IF p.state > 0 THEN -1 ELSE 0,
                             ![1].state = IF p.state < 0 THEN 1 ELSE 0]]

\* Else the child itself comes up.
TurnOnce(t, i) ==
  LET c     == t.child[i]
      state == IF c.state # 0 THEN 0 ELSE t.state \div 2
  IN [c EXCEPT !.state = -state,
               !.child[1 - i] = [t EXCEPT !.state = state,
                                          !.child[i] = c.child[1 - i]]]

\* Mutant: the child always comes up.
TurnOnlyOnce(t, i) == TurnOnce(t, i)

Turn(t, i) ==
  IF t.child[i].state * 2 = -t.state THEN TurnTwice(t, i) ELSE TurnOnce(t, i)

\* Mutant: also a removal ends the balancing where the heights become equal.
StopsEqual(t, removed) == t.state = 0

\* The height of t is what it was before: an insertion made the lower side
\* higher, a removal the side that was not higher lower.
Stops(t, removed) == (t.state = 0) # removed

\* The way back from child d, whose height has changed if nothing was returned.
\* removed: there is a node in *next, which the removal has put there.
Back(t, d, r) ==
  LET with == [t EXCEPT !.child[d] = r.tree]
      i    == IF r.node THEN 1 - d ELSE d
      s    == with.state + 2 * i - 1
      next == IF s \in {-2, 2} THEN Turn([with EXCEPT !.state = s], i)
              ELSE [with EXCEPT !.state = s]
  IN IF r.ret # "null" THEN [r EXCEPT !.tree = with]
     ELSE [tree |-> next, node |-> r.node,
           ret  |-> IF Stops(next, r.node) THEN "key" ELSE "null"]

\* ijk_av_tree_insert: the tree, the element in the tree or the key or NULL, and
\* whether *next holds a node afterwards.  An element with children is replaced by
\* its neighbour in a subtree, which is taken out there.
RECURSIVE Insert(_, _, _)
Insert(t, key, node) ==
  LET d == IF t.elem < key THEN 1 ELSE 0
      i == IF t.child[0] = Nil THEN 1 ELSE 0
      near == Find(t.child[i], key, NoNext).next[i]
  IN CASE t = Nil -> IF node THEN [tree |-> Leaf(key), ret |-> "null", node |-> FALSE]
                     ELSE [tree |-> Nil, ret |-> "key", node |-> FALSE]
       [] t # Nil /\ t.elem # key -> Back(t, d, Insert(t.child[d], key, node))
       [] t.elem = key /\ node -> [tree |-> t, ret |-> "elem", node |-> TRUE]
       [] t.elem = key /\ ~node /\ t.child[i] = Nil ->
            [tree |-> Nil, ret |-> "null", node |-> TRUE]
       [] t.elem = key /\ ~node /\ t.child[i] # Nil ->
            Back([t EXCEPT !.elem = near], i, Insert(t.child[i], near, FALSE))

-----------------------------------------------------------------------------
TreeInit == root = Nil /\ elems = {}

Add(key) ==
  /\ root' = Insert(root, key, TRUE).tree
  /\ elems' = elems \cup {key}

TakeOut(key) ==
  /\ root' = Insert(root, key, FALSE).tree
  /\ elems' = elems \ {key}

TreeNext == \E key \in TreeKeys : Add(key) \/ TakeOut(key)

-----------------------------------------------------------------------------
RECURSIVE Height(_)
Height(t) ==
  IF t = Nil THEN 0
  ELSE 1 + (IF Height(t.child[0]) > Height(t.child[1]) THEN Height(t.child[0])
            ELSE Height(t.child[1]))

RECURSIVE IsBalanced(_)
IsBalanced(t) ==
  t # Nil =>
    /\ t.state = Height(t.child[1]) - Height(t.child[0]) /\ t.state \in -1..1
    /\ \A i \in 0..1 : IsBalanced(t.child[i])

\* Whatever is added and taken out in whatever order, the subtrees of a node differ
\* in height by what it notes of them, by 1 at most.
Balanced == IsBalanced(root)

\* The tree holds what was added and not taken out, in its order.
Between(lo, hi) == {e \in elems : lo <= e /\ e <= hi}
InOrder ==
  \A lo, hi \in TreeKeys :
    LET seq == Enumerate(root, lo, hi) IN
    /\ {seq[i] : i \in DOMAIN seq} = Between(lo, hi)
    /\ \A i \in 1..(Len(seq) - 1) : seq[i] < seq[i + 1]

\* find gives the element and the nearest on both sides, insert tells of an element
\* that is there.
Nearest(key, f) ==
  /\ f.elem = (IF key \in elems THEN key ELSE 0)
  /\ \A i \in 0..1 :
       LET side == {e \in elems : IF i = 0 THEN e < key ELSE e > key} IN
       IF side = {} THEN f.next[i] = 0
       ELSE f.next[i] \in side /\ \A e \in side : IF i = 0 THEN e <= f.next[i]
                                                  ELSE e >= f.next[i]
FindsNearest ==
  \A key \in TreeKeys :
    /\ Nearest(key, Find(root, key, NoNext))
    /\ Insert(root, key, TRUE).ret = "elem" <=> key \in elems

TreeSound == Balanced /\ InOrder /\ FindsNearest

(***************************************************************************)
(* The dictionary.                                                         *)
(***************************************************************************)

\* No value: NULL, which only a call with IJK_AV_DICT_DONT_STRDUP_VAL may pass,
\* for strdup takes none.
None == <<>>

-----------------------------------------------------------------------------
Upper(letter) == IF letter < Capital THEN letter + Capital ELSE letter

\* Mutant: the case is always ignored.
SameAnyCase(a, b, case) == Upper(a) = Upper(b)

Same(a, b, case) == IF case THEN a = b ELSE Upper(a) = Upper(b)

\* The key is the beginning of the entry's; only a call that ignores suffixes takes
\* an entry with a longer key.
Matches(entryKey, key, case, suffix) ==
  /\ Len(key) <= Len(entryKey)
  /\ \A i \in DOMAIN key : Same(entryKey[i], key[i], case)
  /\ suffix \/ Len(entryKey) = Len(key)

\* ijk_av_dict_get: the first entry behind prev that matches, 0 for none
Get(m, key, prev, case, suffix) ==
  LET found == {i \in (prev + 1)..Len(m) : Matches(m[i].key, key, case, suffix)}
  IN IF found = {} THEN 0 ELSE CHOOSE i \in found : \A j \in found : i <= j

\* Mutant: the entries behind a removed one move up over the last.
WithoutLast(m, i) == IF i = 0 THEN m ELSE SubSeq(m, 1, Len(m) - 1)

\* *tag = m->elems[--m->count]
Without(m, i) ==
  IF i = 0 THEN m ELSE SubSeq([m EXCEPT ![i] = m[Len(m)]], 1, Len(m) - 1)

\* ijk_av_dict_set.  opt is the flag it is called with, oom the allocation that
\* fails.  A failed copy of the key or value leaves the dictionary as it is; when
\* the appended value cannot be allocated the old entry is gone already.
Set(m, key, value, case, opt, oom) ==
  LET tag   == IF opt = "multi" THEN 0 ELSE Get(m, key, 0, case, FALSE)
      rest  == Without(m, tag)
      joins == tag # 0 /\ opt = "append" /\ value # None
      fails == \/ oom = "copy"
               \/ oom = "entries" /\ tag = 0 /\ value # None
      entry == [key |-> key, value |-> IF joins THEN m[tag].value \o value ELSE value]
  IN CASE fails                               -> [dict |-> m, ok |-> FALSE]
       [] ~fails /\ tag # 0 /\ opt = "keep"   -> [dict |-> m, ok |-> TRUE]
       [] OTHER ->
            IF joins /\ oom = "appended" THEN [dict |-> rest, ok |-> FALSE]
            ELSE [dict |-> IF value = None THEN rest ELSE Append(rest, entry),
                  ok |-> TRUE]

\* ijk_av_dict_copy with flags 0: all the entries, for the empty key is the
\* beginning of every key, are set one after the other, case ignored.
Copy(dst, src) ==
  LET Step(m, e) == Set(m, e.key, e.value, FALSE, "none", "none").dict
  IN FoldLeft(Step, dst, src)

\* ijk_av_dict_set_intptr and ijk_av_dict_get_intptr: "%p" prints NULL as no
\* hexadecimal number, and strtoll reads a signed number: a larger one becomes the
\* largest signed one.
PtrToText(p) == [hex |-> p # 0, digits |-> p]
StrToPtr(t) ==
  LET largest == 2^(Width - 1) - 1 IN
  IF ~t.hex THEN 0 ELSE IF t.digits > largest THEN largest ELSE t.digits

-----------------------------------------------------------------------------
\* Keys that mean the same to the calls.
Class(key) == IF style = "case" THEN key ELSE [i \in DOMAIN key |-> Upper(key[i])]
Classes == {Class(key) : key \in Keys}

DictInit ==
  /\ style \in {"case", "any"} /\ dict = <<>>
  /\ last = [c \in Classes |-> None] /\ several = FALSE /\ lost = FALSE

Call(key, value, opt, oom) ==
  LET r == Set(dict, key, value, style = "case", opt, oom)
      c == Class(key)
      tag == Get(dict, key, 0, style = "case", FALSE) IN
  /\ dict' = r.dict
  /\ Len(r.dict) <= MaxEntries
  /\ \A i \in DOMAIN r.dict : Len(r.dict[i].value) <= MaxLength
  /\ several' = (several \/ opt = "multi")
  /\ lost' = (lost \/ (~r.ok /\ r.dict # dict))
  /\ last' = IF several' \/ lost' THEN [k \in Classes |-> None]
             ELSE IF ~r.ok \/ (opt = "keep" /\ tag # 0) THEN last
             ELSE [last EXCEPT ![c] = IF value # None /\ opt = "append"
                                      THEN @ \o value ELSE value]
  /\ UNCHANGED style

DictNext ==
  \E key \in Keys, value \in Values \cup {None},
     opt \in {"none", "keep", "append", "multi"},
     oom \in {"none", "copy", "entries", "appended"} : Call(key, value, opt, oom)

-----------------------------------------------------------------------------
\* An option has the value that was set or appended last, whatever entries were
\* moved in between and whatever call failed; unless several entries of a key were
\* asked for, or the old value was lost by an append that failed: a replaced entry
\* is filled with the last one, so that an older value of a key may be found first.
LastIsFound ==
  ~several /\ ~lost =>
    \A key \in Keys :
      LET i == Get(dict, key, 0, style = "case", FALSE) IN
      IF last[Class(key)] = None THEN i = 0
      ELSE i # 0 /\ dict[i].value = last[Class(key)]

\* Without that flag no two entries mean the same key.
KeysDiffer ==
  ~several => \A i, j \in DOMAIN dict :
                i # j => Class(dict[i].key) # Class(dict[j].key)

\* A copy has the same entries, if no two keys differ only in case.
CopyIsSame ==
  ~several /\ style = "any" =>
    {Copy(<<>>, dict)[i] : i \in DOMAIN dict} = {dict[i] : i \in DOMAIN dict}

\* A pointer comes back from its text if its first bit is not set.
PointersReturn ==
  \A p \in 0..(2^(Width - 1) - 1) : StrToPtr(PtrToText(p)) = p

DictSound == LastIsFound /\ KeysDiffer /\ CopyIsSame /\ PointersReturn

(***************************************************************************)
(* The byte ring.                                                          *)
(***************************************************************************)

Buffer(f) == Len(f.buf)
Smaller(a, b) == IF a < b THEN a ELSE b
Larger(a, b) == IF a > b THEN a ELSE b

Alloc(size) == [buf |-> [i \in 1..size |-> 0], wptr |-> 0, rptr |-> 0,
                wndx |-> 0, rndx |-> 0]

\* Mutant: the bytes between the pointers.
SizeOfPointers(f) == (f.wptr - f.rptr + Buffer(f)) % Buffer(f)

\* ijk_av_fifo_size: an unsigned difference
Size(f) == (f.wndx - f.rndx + Wrap) % Wrap

Space(f) == Buffer(f) - Size(f)

\* The offsets of n bytes from ptr on, piece by piece.  A piece ends at the end of
\* the buffer, and the next begins at its beginning.
RECURSIVE Places(_, _, _)
Places(f, ptr, n) ==
  LET from == IF ptr >= Buffer(f) THEN ptr - Buffer(f) ELSE ptr
      len  == Smaller(Buffer(f) - from, n)
  IN IF n = 0 THEN <<>> ELSE [i \in 1..len |-> from + i - 1] \o Places(f, from + len, n - len)

Bytewise(f, places) == [i \in DOMAIN places |-> f.buf[places[i] + 1]]

Moved(f, ptr, n) == IF ptr + n >= Buffer(f) THEN ptr + n - Buffer(f) ELSE ptr + n

-----------------------------------------------------------------------------
\* ijk_av_fifo_generic_write; that there is space is up to the caller.
GenericWrite(f, src) ==
  LET places == Places(f, f.wptr, Len(src))
      At(p)  == {i \in DOMAIN places : places[i] = p - 1}
  IN [f EXCEPT !.buf = [p \in DOMAIN f.buf |->
                          IF At(p) = {} THEN f.buf[p] ELSE src[CHOOSE i \in At(p) : TRUE]],
               !.wptr = Moved(f, f.wptr, Len(src)),
               !.wndx = (f.wndx + Len(src)) % Wrap]

\* ijk_av_fifo_drain
DrainOf(f, n) == [f EXCEPT !.rptr = Moved(f, f.rptr, n), !.rndx = (f.rndx + n) % Wrap]

\* ijk_av_fifo_generic_peek and _read
Peek(f, n) == Bytewise(f, Places(f, f.rptr, n))

At(f, offset) ==
  f.rptr + offset - (IF offset >= Buffer(f) - f.rptr THEN Buffer(f) ELSE 0)

\* ijk_av_fifo_generic_peek_at
PeekAt(f, offset, n) == Bytewise(f, Places(f, At(f, offset), n))

\* Mutant: the indices are taken over with the bytes.
ReallocOldIndices(f, size) ==
  IF Buffer(f) >= size THEN f
  ELSE [GenericWrite(Alloc(size), Peek(f, Size(f))) EXCEPT !.wndx = f.wndx]

\* ijk_av_fifo_realloc2: the bytes are moved to the beginning of a larger buffer.
Realloc(f, size) ==
  IF Buffer(f) >= size THEN f ELSE GenericWrite(Alloc(size), Peek(f, Size(f)))

\* ijk_av_fifo_grow: space for n more bytes, and twice the buffer at least
Grown(f, n) ==
  LET size == n + Size(f) IN
  IF size >= Wrap THEN f
  ELSE IF Buffer(f) < size THEN Realloc(f, Larger(size, 2 * Buffer(f))) ELSE f

-----------------------------------------------------------------------------
FifoInit == fifo = Alloc(Capacity) /\ content = <<>>

\* The number of bytes written is that of the index, so that bytes written one after
\* the other differ.
Fresh(n) == [i \in 1..n |-> 1 + ((fifo.wndx + i) % Bytes)]

Write(n) ==
  /\ n <= Space(fifo)
  /\ fifo' = GenericWrite(fifo, Fresh(n)) /\ content' = content \o Fresh(n)

\* read, or drain
Take(n) ==
  /\ n <= Size(fifo)
  /\ fifo' = DrainOf(fifo, n) /\ content' = SubSeq(content, n + 1, Len(content))

Grow(n) ==
  /\ Buffer(Grown(fifo, n)) <= MaxBuffer
  /\ fifo' = Grown(fifo, n) /\ UNCHANGED content

Reset ==
  /\ fifo' = [fifo EXCEPT !.wptr = 0, !.rptr = 0, !.wndx = 0, !.rndx = 0]
  /\ content' = <<>>

FifoNext == Reset \/ \E n \in 1..MaxBuffer : Write(n) \/ Take(n) \/ Grow(n)

-----------------------------------------------------------------------------
\* What is read, drained or looked at is what was written, in that order, across the
\* end of the buffer, a full buffer, a growing one and indices that run over.
FifoSound ==
  /\ Size(fifo) = Len(content) /\ Size(fifo) <= Buffer(fifo)
  /\ Peek(fifo, Size(fifo)) = content
  /\ \A offset \in 0..Size(fifo) :
       PeekAt(fifo, offset, Size(fifo) - offset)
         = SubSeq(content, offset + 1, Len(content))

-----------------------------------------------------------------------------
\* The containers, which share no state.
Init == TreeInit /\ DictInit /\ FifoInit

TreeStep == TreeNext /\ UNCHANGED <<dictVars, fifoVars>>
DictStep == DictNext /\ UNCHANGED <<treeVars, fifoVars>>
FifoStep == FifoNext /\ UNCHANGED <<treeVars, dictVars>>

Next == TreeStep \/ DictStep \/ FifoStep

Spec == Init /\ [][Next]_vars

UtilSound == TreeSound /\ DictSound /\ FifoSound
=============================================================================
