------------------------------ MODULE CacheMap ------------------------------
(***************************************************************************)
(* The index of the disk cache (ijkavformat/ijkiomanager.c and the parts   *)
(* of ijkiocache.c that open and flush the cache): one cache file keeps    *)
(* the bytes of several resources, a tree per resource says where; the     *)
(* trees are written to a map file when the application shares the cache   *)
(* and when the player is destroyed, and read again by the next player.    *)
(* The process may die in between.                                         *)
(*                                                                         *)
(* A byte is <<resource, position>>; the bytes of a resource are read in   *)
(* order.                                                                  *)
(***************************************************************************)
EXTENDS Integers, FiniteSets, FiniteSetsExt

CONSTANTS
  Resources,  \* cur_file_no
  Capacity,   \* cache_max_capacity
  MaxBytes,   \* bound: bytes per resource
  MaxRuns     \* bound: players one after the other

VARIABLES
  disk,      \* the cache file: offset -> byte, Nothing
  trees,     \* cache_info_map: resource -> [entries, physical], physical_size
  last,      \* last_physical_pos
  shared,    \* ijkio_app_ctx->shared
  saved,     \* the map file, NoMap when there is none
  up,        \* a player runs
  run,       \* players so far
  flushed,   \* the cache was flushed since the map file was written
  stale      \* the trees were read from a map file older than the last flush

vars == <<disk, trees, last, shared, saved, up, run, flushed, stale>>

Nothing == <<>>
NoMap   == <<>>
Empty   == [entries |-> {}, physical |-> 0]
NoTrees == [r \in Resources |-> Empty]

Init ==
  /\ disk = [i \in 0..(Capacity - 1) |-> Nothing]
  /\ trees = NoTrees /\ last = 0 /\ shared = FALSE
  /\ saved = NoMap /\ up = TRUE /\ run = 1
  /\ flushed = FALSE /\ stale = FALSE

-----------------------------------------------------------------------------
\* The next byte of the resource that is not cached.
NextByte(r) == LET ends == {e.log + e.size : e \in trees[r].entries}
               IN  IF ends = {} THEN 0 ELSE Max(ends)

\* add_entry: the last entry grows when the byte follows it on the disk too.
Grown(tree, p, phys) ==
  LET fits == {e \in tree.entries : e.log + e.size = p /\ e.phys + e.size = phys}
  IN  [entries |-> IF fits = {} THEN tree.entries \cup {[log |-> p, phys |-> phys, size |-> 1]}
                   ELSE (tree.entries \ fits) \cup {[e EXCEPT !.size = @ + 1] : e \in fits},
       physical |-> tree.physical + 1]

AddEntry(r) ==
  /\ up /\ NextByte(r) < MaxBytes /\ last + 1 < Capacity
  /\ disk' = [disk EXCEPT ![last] = <<r, NextByte(r)>>]
  /\ trees' = [trees EXCEPT ![r] = Grown(trees[r], NextByte(r), last)]
  /\ last' = last + 1
  /\ UNCHANGED <<shared, saved, up, run, flushed, stale>>

\* ijkio_cache_file_overrang: a full cache is flushed, but not a shared one.
Overrang(r) ==
  /\ up /\ NextByte(r) < MaxBytes /\ last + 1 >= Capacity /\ ~shared
  /\ trees' = NoTrees /\ last' = 0
  /\ flushed' = TRUE /\ stale' = FALSE
  /\ UNCHANGED <<disk, shared, saved, up, run>>

\* ijkio_manager_save_tree_to_file for every tree
SaveMap == saved' = trees /\ flushed' = FALSE

\* ijkio_manager_will_share_cache_map, ijkio_manager_did_share_cache_map
WillShare ==
  /\ up /\ SaveMap /\ shared' = TRUE
  /\ UNCHANGED <<disk, trees, last, up, run, stale>>
DidShare ==
  /\ up /\ shared /\ shared' = FALSE
  /\ UNCHANGED <<disk, trees, last, saved, up, run, flushed, stale>>

\* ijkio_manager_destroy with auto_save_map
Destroy ==
  /\ up /\ SaveMap
  /\ up' = FALSE /\ shared' = FALSE
  /\ trees' = NoTrees /\ last' = 0
  /\ UNCHANGED <<disk, run, stale>>

\* The process dies.
Crash ==
  /\ up /\ up' = FALSE /\ shared' = FALSE
  /\ trees' = NoTrees /\ last' = 0
  /\ UNCHANGED <<disk, saved, run, flushed, stale>>

\* Mutant: the size of the largest tree instead of the sum.
PhysicalMax(m) == Max({m[r].physical : r \in Resources})

\* ijkio_manager_parse_cache_info adds up the physical sizes; ijkio_cache_open
\* uses the trees if the cache file is long enough, and empties it if there
\* are none.
PhysicalEnd(m) == MapThenSumSet(LAMBDA r : m[r].physical, Resources)
DiskLength == Cardinality({i \in DOMAIN disk : disk[i] # Nothing})

Restart ==
  /\ ~up /\ run < MaxRuns
  /\ up' = TRUE /\ run' = run + 1
  /\ IF saved = NoMap \/ saved = NoTrees
     THEN /\ trees' = NoTrees /\ last' = 0
          /\ disk' = [i \in DOMAIN disk |-> Nothing]
     ELSE IF DiskLength < PhysicalEnd(saved)
     THEN trees' = NoTrees /\ last' = 0 /\ UNCHANGED disk
     ELSE trees' = saved /\ last' = PhysicalEnd(saved) /\ UNCHANGED disk
  /\ stale' = (flushed \/ (stale /\ trees' # NoTrees))
  /\ UNCHANGED <<shared, saved, flushed>>

Next == \/ \E r \in Resources : AddEntry(r) \/ Overrang(r)
        \/ WillShare \/ DidShare \/ Destroy \/ Crash \/ Restart

Spec == Init /\ [][Next]_vars

-----------------------------------------------------------------------------
TypeOK ==
  /\ last \in 0..(Capacity - 1) /\ run \in 1..MaxRuns
  /\ {shared, up, flushed, stale} \subseteq BOOLEAN
  /\ DOMAIN trees = Resources
  /\ \A r \in Resources : trees[r].physical \in 0..Capacity

\* While a player runs, and after a restart, an entry describes the bytes that
\* are on the disk; unless the process died after a flush, so that the map file
\* describes bytes that were overwritten.
MapIsDisk ==
  up /\ ~stale =>
     \A r \in Resources : \A e \in trees[r].entries : \A i \in 0..(e.size - 1) :
        disk[e.phys + i] = <<r, e.log + i>>

\* The next byte is written behind all that the entries describe.
LastIsEnd ==
  up => \A r \in Resources : \A e \in trees[r].entries : e.phys + e.size <= last

\* A cache that the application shares is not changed under its map: what the
\* map file says stays true for the other application that reads it.
SharedMapIsDisk ==
  shared /\ ~stale =>
     \A r \in Resources : \A e \in saved[r].entries : \A i \in 0..(e.size - 1) :
        disk[e.phys + i] = <<r, e.log + i>>
=============================================================================
