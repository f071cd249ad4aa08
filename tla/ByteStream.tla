----------------------------- MODULE ByteStream -----------------------------
(***************************************************************************)
(* What a url_read / url_seek protocol promises its caller: bytes come in  *)
(* the order of the file from the position the caller is at, and only a    *)
(* seek moves that position otherwise.  The protocols of ijkavformat that  *)
(* read ahead or cache (ijkasync.c, ijkiocache.c) are shown to implement   *)
(* it.  A byte is the position it has in the file.                         *)
(***************************************************************************)
EXTENDS Integers, Sequences

CONSTANT FileSize

VARIABLES pos,  \* logical_pos
          out   \* the bytes delivered by the last read

Init == pos = 0 /\ out = <<>>

Read == \E n \in 1..(FileSize - pos) :
          /\ out' = [i \in 1..n |-> pos + i - 1]
          /\ pos' = pos + n

Seek == \E p \in 0..FileSize : pos' = p /\ out' = <<>>

Next == Read \/ Seek

Spec == Init /\ [][Next]_<<pos, out>>
=============================================================================
