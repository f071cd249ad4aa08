------------------------------ MODULE IoCache -------------------------------
(***************************************************************************)
(* The cache protocol (ijkavformat/ijkiocache.c): the bytes of a resource  *)
(* are kept in a file on disk, which a tree of entries describes.  Without *)
(* cache_file_forwards_capacity the caller fills the cache as it reads     *)
(* ("sync"); with it ijkio_cache_task, run by the thread pool, reads ahead *)
(* and the caller takes everything from the disk ("async").                *)
(*                                                                         *)
(* A byte is the position it has in the resource.  An entry [log, phys,    *)
(* size] says that size bytes from position log lie at offset phys of the  *)
(* disk.  One step is one section under c->file_mutex, or one call of the  *)
(* inner protocol with what is decided before it.                          *)
(***************************************************************************)
EXTENDS Integers, Sequences, FiniteSets

CONSTANTS
  FileSize,    \* logical_size
  Capacity,    \* cache_max_capacity
  Forwards,    \* cache_file_forwards_capacity
  Block,       \* bytes read at once (4096 in the code)
  MaxRetries,  \* failures in a row before the cache is rebuilt (3 in the code)
  MaxRebuilds, \* rebuilds before the cache is given up (3 in the code)
  Modes,       \* [async, shared]: whether there is a task, ijkio_app_ctx->shared
  MaxRead,     \* bytes the caller asks for at once (bound)
  MaxSeeks, MaxMishaps, MaxPauses,  \* bounds of the seeks, errors and pauses
  MaxEvents    \* and of all of them together

VARIABLES
  mode,
  disk, tree, last,   \* the cache file, its entries and last_physical_pos
  fd,                 \* the cache file is open
  off,                \* cache_file_close
  inner,              \* the position of the inner resource
  lazy,               \* async_open: the inner resource is not open yet
  pos, rinner,        \* read_logical_pos, read_inner_pos
  fpos, finner, fend, \* file_logical_pos, file_inner_pos, file_logical_end
  eof, error,         \* io_eof_reached, io_error
  fails,              \* file_handle_retry_count and file_error_count
  seek,               \* seek_request, seek_pos, seek_completed
  abort, running,     \* abort_request, task_is_running
  task,               \* ijkio_cache_task: pc ("crashed" ends the process) and
                      \* the bytes it has read
  main,               \* the caller: pc, the bytes it wants and has got, and
                      \* whether the position moved while it reads
  ctl,                \* the thread that pauses, resumes and closes
  out, result,        \* what the last call of the caller returned
  rebuilt,            \* the cache was rebuilt after errors of the disk
  used                \* the bounded actions so far

cacheVars == <<disk, tree, last, fd, off>>
readVars  == <<pos, rinner>>
fileVars  == <<fpos, finner, fend>>
ioVars    == <<eof, error>>
retVars   == <<out, result>>
vars == <<mode, cacheVars, inner, lazy, readVars, fileVars, ioVars, fails,
          seek, abort, running, task, main, ctl, retVars, rebuilt, used>>

NoByte == -1
NoSeek == [request |-> FALSE, to |-> 0, completed |-> FALSE]
AtRest == [pc |-> "idle", want |-> 0, got |-> <<>>, moved |-> FALSE]
Least(a, b) == IF a < b THEN a ELSE b

\* ijkio_cache_open: an empty cache, or one that an earlier player has left,
\* with which the inner resource is opened when it is needed.
Init ==
  /\ mode \in Modes
  /\ \/ tree = {} /\ last = 0 /\ disk = [i \in 0..(Capacity - 1) |-> NoByte]
        /\ lazy = FALSE
     \/ /\ FileSize > 1
        /\ tree = {[log |-> 1, phys |-> 0, size |-> 1]} /\ last = 1
        /\ disk = [i \in 0..(Capacity - 1) |-> IF i = 0 THEN 1 ELSE NoByte]
        /\ lazy = TRUE
  /\ fd = TRUE /\ off = FALSE
  /\ inner = 0 /\ pos = 0 /\ rinner = 0
  /\ fpos = 0 /\ finner = 0 /\ fend = 0
  /\ eof = FALSE /\ error = "none"
  /\ fails = [row |-> 0, rebuilds |-> 0]
  /\ seek = NoSeek
  /\ abort = FALSE /\ running = (mode.async)
  /\ task = [pc |-> IF mode.async THEN "top" ELSE "none", data |-> <<>>]
  /\ main = AtRest /\ ctl = "idle"
  /\ out = <<>> /\ result = "none" /\ rebuilt = FALSE
  /\ used = [seeks |-> 0, mishaps |-> 0, pauses |-> 0]

-----------------------------------------------------------------------------
\* The tree: the entry that begins at or before p, the one that begins next.
Before(p) == {e \in tree : e.log <= p /\ \A f \in tree : f.log <= p => f.log <= e.log}
After(p)  == {e \in tree : e.log > p /\ \A f \in tree : f.log > p => f.log >= e.log}
Covers(e, p) == e.log <= p /\ p < e.log + e.size
Cached(p) == {e \in Before(p) : Covers(e, p)}
End(e) == e.log + e.size

\* Mutant: the bytes from the start of the entry.
OnDiskFromStart(e, p, n) == [i \in 1..n |-> disk[e.phys + i - 1]]

\* n bytes from position p as the disk holds them.
OnDisk(e, p, n) == [i \in 1..n |-> disk[e.phys + (p - e.log) + i - 1]]

\* The bytes of the inner resource from where it is.
Bytes(n) == [i \in 1..n |-> inner + i - 1]

\* Mutant: an entry grows wherever the bytes lie on the disk.
WithEntryAnywhere(t, p, phys, n) ==
  LET grown == {e \in t : End(e) = p}
  IN  IF grown # {}
      THEN LET e == CHOOSE x \in grown : TRUE
           IN  (t \ {e}) \cup {[e EXCEPT !.size = @ + n]}
      ELSE t \cup {[log |-> p, phys |-> phys, size |-> n]}

\* add_entry and sync_add_entry after the write: the entry that ends where
\* the bytes begin, in the resource and on the disk, grows.
WithEntry(t, p, phys, n) ==
  LET grown == {e \in t : End(e) = p /\ e.phys + e.size = phys
                          /\ \A f \in t : f.log <= p => f.log <= e.log}
  IN  IF grown # {}
      THEN LET e == CHOOSE x \in grown : TRUE
           IN  (t \ {e}) \cup {[e EXCEPT !.size = @ + n]}
      ELSE t \cup {[log |-> p, phys |-> phys, size |-> n]}

WithBytes(d, phys, data) ==
  [i \in DOMAIN d |-> IF i >= phys /\ i < phys + Len(data)
                      THEN data[i - phys + 1] ELSE d[i]]

\* One bounded action more.
Spend(kind, max) ==
  /\ used[kind] < max /\ used.seeks + used.mishaps + used.pauses < MaxEvents
  /\ used' = [used EXCEPT ![kind] = @ + 1]

\* lseek, read or write of the cache file fails; a call of the inner protocol.
DiskFails  == Spend("mishaps", MaxMishaps)
InnerFails == DiskFails

\* ijkio_cache_file_error after a failure that is counted.  After too many of
\* them in a row the cache is emptied and its file opened anew; it is given up
\* when that fails too, or was done too often.  restarts is what
\* file_inner_pos may be after it was set to 0.
FileError(givenUp, restarts) ==
  \/ /\ fails.row < MaxRetries \/ mode.shared
     /\ ~givenUp
     /\ fails' = [fails EXCEPT !.row = @ + 1]
     /\ UNCHANGED <<cacheVars, fpos, finner, eof, rebuilt>>
  \/ /\ fails.row >= MaxRetries /\ ~mode.shared
     /\ givenUp \/ fails.rebuilds < MaxRebuilds
     /\ tree' = {} /\ last' = 0 /\ fpos' = pos /\ eof' = FALSE
     /\ finner' \in restarts
     /\ fd' = ~givenUp /\ off' = givenUp
     /\ fails' = [row |-> 0, rebuilds |-> fails.rebuilds + 1]
     /\ rebuilt' = TRUE
     /\ UNCHANGED disk

Crashed == task.pc = "crashed"

-----------------------------------------------------------------------------
\* "sync": ijkio_cache_sync_read.

SyncIdle == ~mode.async /\ main.pc = "idle" /\ ctl = "idle" /\ ~off

Return(bytes, r) == out' = bytes /\ result' = r

SyncFromCache(n) ==
  /\ SyncIdle /\ Cached(pos) # {}
  /\ \E e \in Cached(pos) :
       LET m == Least(n, End(e) - pos) IN
       /\ Return(OnDisk(e, pos, m), "ok")
       /\ pos' = pos + m
  /\ UNCHANGED <<mode, cacheVars, inner, lazy, rinner, fileVars, ioVars, fails,
                 seek, abort, running, task, main, ctl, rebuilt, used>>

\* The bytes come from the inner resource; n is limited to the next entry.
\* t and l are the cache they are added to if stored: writing them may fail.
\* A full cache is emptied first, unless it is shared.
SyncFromInner(n, t, l, stored) ==
  LET m == Least(n, FileSize - pos)
      full == l + m >= Capacity
      base == IF full THEN 0 ELSE l
      data == [i \in 1..m |-> pos + i - 1]
  IN
  /\ pos < FileSize
  /\ inner' = pos + m /\ rinner' = pos + m /\ pos' = pos + m
  /\ lazy' = FALSE
  /\ Return(data, "ok")
  /\ IF stored /\ ~(full /\ mode.shared)
     THEN /\ tree' = WithEntry(IF full THEN {} ELSE t, pos, base, m)
          /\ disk' = WithBytes(disk, base, data)
          /\ last' = base + m
     ELSE tree' = t /\ last' = l /\ UNCHANGED disk

SyncMiss(n) ==
  /\ SyncIdle /\ Cached(pos) = {}
  /\ LET room == IF After(pos) = {} THEN n
                 ELSE Least(n, (CHOOSE e \in After(pos) : TRUE).log - pos)
     IN  \/ SyncFromInner(room, tree, last, fd) /\ UNCHANGED used
         \/ fd /\ SyncFromInner(room, tree, last, FALSE) /\ DiskFails
  /\ UNCHANGED <<mode, fd, off, fileVars, ioVars, fails, seek, abort, running,
                 task, main, ctl, rebuilt>>

\* The cache file cannot be read: the cache is emptied and the file opened
\* anew.  The entry that limits the read was freed with the others, so that
\* what it limits the read to is undetermined.
SyncBadFile(n) ==
  /\ SyncIdle /\ Cached(pos) # {}
  /\ DiskFails
  /\ \E open \in BOOLEAN, room \in 1..n :
       SyncFromInner(room, {}, 0, open) /\ fd' = open
  /\ rebuilt' = TRUE
  /\ eof' = FALSE
  /\ UNCHANGED <<mode, off, fileVars, error, fails, seek, abort, running, task,
                 main, ctl>>

SyncEnd ==
  /\ SyncIdle /\ Cached(pos) = {} /\ pos >= FileSize
  /\ eof' = TRUE
  /\ Return(<<>>, "eof")
  /\ UNCHANGED <<mode, cacheVars, inner, lazy, readVars, fileVars, error, fails,
                 seek, abort, running, task, main, ctl, rebuilt, used>>

SyncError ==
  /\ SyncIdle /\ Cached(pos) = {} /\ pos < FileSize
  /\ InnerFails
  /\ Return(<<>>, "failed")
  /\ UNCHANGED <<mode, cacheVars, inner, lazy, readVars, fileVars, ioVars,
                 fails, seek, abort, running, task, main, ctl, rebuilt>>

\* ijkio_cache_seek
SyncSeek(p) ==
  /\ SyncIdle /\ Spend("seeks", MaxSeeks)
  /\ pos' = p /\ Return(<<>>, "ok")
  /\ UNCHANGED <<mode, cacheVars, inner, lazy, rinner, fileVars, ioVars, fails,
                 seek, abort, running, task, main, ctl, rebuilt>>

-----------------------------------------------------------------------------
\* "async": the caller.

\* Mutant: the caller is not signalled.
AwakeNobody(m) == m

\* pthread_cond_signal on cond_wakeup_main, cond_wakeup_file_background and
\* cond_wakeup_exit.
Awake(m) == IF m.pc \in {"readWait", "seekWait"}
            THEN [m EXCEPT !.pc = IF @ = "readWait" THEN "read" ELSE "seek"]
            ELSE m
WakeTask == IF task.pc = "wait" THEN [task EXCEPT !.pc = "top"] ELSE task

\* A read or a seek of a paused context begins with ijkio_cache_resume, and
\* nothing follows ijkio_cache_close.
Usable == main.pc = "idle" /\ ctl \in {"idle", "pause", "pauseWait"}

Read(n) ==
  /\ mode.async /\ Usable /\ ~off
  /\ main' = [AtRest EXCEPT !.pc = "read", !.want = n]
  /\ UNCHANGED <<mode, cacheVars, inner, lazy, readVars, fileVars, ioVars,
                 fails, seek, abort, running, task, ctl, retVars, rebuilt, used>>

\* The cache was given up: the caller reads the inner resource from where it
\* happens to be.
ReadDirectly(n) ==
  /\ Usable /\ off
  /\ inner + n <= FileSize
  /\ Return(Bytes(n), "ok") /\ inner' = inner + n
  /\ UNCHANGED <<mode, cacheVars, lazy, readVars, fileVars, ioVars, fails, seek,
                 abort, running, task, main, ctl, rebuilt, used>>

\* One turn of the loop of ijkio_cache_read.  At the end the task is
\* signalled, unless the read is complete and the task is far ahead or done.
ReadDone(bytes, r) ==
  /\ main' = AtRest
  /\ Return(bytes, r)
  /\ task' = IF r # "ok" \/ main.want > Len(bytes) - Len(main.got)
                \/ (~eof /\ fpos - pos' <= Forwards)
             THEN WakeTask ELSE task

ReadInterrupted ==
  /\ main.pc = "read" /\ abort
  /\ ReadDone(<<>>, "exit")
  /\ UNCHANGED <<mode, cacheVars, inner, lazy, readVars, fileVars, ioVars,
                 fails, seek, abort, running, ctl, rebuilt, used>>

\* The cache is given up while the caller waits: this once it seeks the inner
\* resource, and it does not move its own position.
ReadGivenUp ==
  /\ main.pc = "read" /\ ~abort /\ off
  /\ LET m == Least(main.want, FileSize - pos) IN
       /\ inner' = pos + m
       /\ Return(main.got \o [i \in 1..m |-> pos + i - 1], "ok")
  /\ main' = AtRest
  /\ UNCHANGED <<mode, cacheVars, lazy, readVars, fileVars, ioVars, fails, seek,
                 abort, running, task, ctl, rebuilt, used>>

ReadTakes ==
  /\ main.pc = "read" /\ ~abort /\ ~off
  /\ \E e \in Cached(pos) :
       LET m == Least(main.want, End(e) - pos)
           bytes == main.got \o OnDisk(e, pos, m)
       IN  /\ pos' = pos + m
           /\ IF m = main.want
              THEN ReadDone(bytes, "ok")
              ELSE /\ main' = [main EXCEPT !.pc = "readWait", !.want = @ - m, !.got = bytes]
                   /\ task' = WakeTask
                   /\ UNCHANGED retVars
  /\ UNCHANGED <<mode, cacheVars, inner, lazy, rinner, fileVars, ioVars, fails,
                 seek, abort, running, ctl, rebuilt, used>>

\* What a read returns when it gets nothing more.
EndOfRead == ReadDone(main.got, IF main.got # <<>> THEN "ok"
                                ELSE IF error = "none" THEN "eof" ELSE error)

\* The lseek or the read of the cache file fails.  What ijkio_cache_file_error
\* returns is not looked at: the read ends if the task has seen the end, else
\* it waits and tries again.  A task that is reading the inner resource adds to
\* file_inner_pos before or after it is set to 0.
ReadFails ==
  /\ main.pc = "read" /\ ~abort /\ ~off /\ Cached(pos) # {} /\ DiskFails
  /\ UNCHANGED pos
  /\ \E givenUp \in BOOLEAN :
       FileError(givenUp, IF task.pc = "store" THEN {0, Len(task.data)} ELSE {0})
  /\ IF eof' THEN EndOfRead
     ELSE /\ main' = [main EXCEPT !.pc = "readWait"]
          /\ task' = WakeTask
          /\ UNCHANGED retVars
  /\ UNCHANGED <<mode, inner, lazy, rinner, fend, error, seek, abort, running,
                 ctl>>

ReadEnds ==
  /\ main.pc = "read" /\ ~abort /\ ~off /\ Cached(pos) = {} /\ eof
  /\ UNCHANGED readVars
  /\ EndOfRead
  /\ UNCHANGED <<mode, cacheVars, inner, lazy, fileVars, ioVars, fails,
                 seek, abort, running, ctl, rebuilt, used>>

ReadWaits ==
  /\ main.pc = "read" /\ ~abort /\ ~off /\ Cached(pos) = {} /\ ~eof
  /\ main' = [main EXCEPT !.pc = "readWait"]
  /\ task' = WakeTask
  /\ UNCHANGED <<mode, cacheVars, inner, lazy, readVars, fileVars, ioVars,
                 fails, seek, abort, running, ctl, retVars, rebuilt, used>>

\* ijkio_cache_seek
Seek(p) ==
  /\ mode.async /\ Usable
  /\ Spend("seeks", MaxSeeks)
  /\ IF off
     THEN inner' = p /\ Return(<<>>, "ok") /\ UNCHANGED <<seek, main>>
     ELSE /\ seek' = [request |-> TRUE, to |-> p, completed |-> FALSE]
          /\ main' = [AtRest EXCEPT !.pc = "seek"]
          /\ UNCHANGED <<inner, retVars>>
  /\ UNCHANGED <<mode, cacheVars, lazy, readVars, fileVars, ioVars, fails,
                 abort, running, task, ctl, rebuilt>>

SeekWaits ==
  /\ main.pc = "seek" /\ ~abort /\ ~seek.completed
  /\ main' = [main EXCEPT !.pc = "seekWait"]
  /\ task' = WakeTask
  /\ UNCHANGED <<mode, cacheVars, inner, lazy, readVars, fileVars, ioVars,
                 fails, seek, abort, running, ctl, retVars, rebuilt, used>>

SeekReturns ==
  /\ main.pc = "seek" /\ (abort \/ seek.completed)
  /\ main' = AtRest
  /\ Return(<<>>, IF abort THEN "exit" ELSE "ok")
  /\ UNCHANGED <<mode, cacheVars, inner, lazy, readVars, fileVars, ioVars,
                 fails, seek, abort, running, task, ctl, rebuilt, used>>

-----------------------------------------------------------------------------
\* ijkio_cache_task

TaskEnds ==
  /\ task.pc = "top" /\ (off \/ abort)
  /\ IF off THEN UNCHANGED ioVars ELSE eof' = TRUE /\ error' = "exit"
  /\ task' = [task EXCEPT !.pc = "ending"]
  /\ UNCHANGED <<mode, cacheVars, inner, lazy, readVars, fileVars, fails, seek,
                 abort, running, main, ctl, retVars, rebuilt, used>>

TaskEnded ==
  /\ task.pc = "ending"
  /\ running' = FALSE
  /\ main' = Awake(main)
  /\ ctl' = IF ctl \in {"closeWait", "pauseWait"}
            THEN IF ctl = "closeWait" THEN "close" ELSE "pause" ELSE ctl
  /\ task' = [task EXCEPT !.pc = "none"]
  /\ UNCHANGED <<mode, cacheVars, inner, lazy, readVars, fileVars, ioVars,
                 fails, seek, abort, retVars, rebuilt, used>>

TaskSeeks ==
  /\ task.pc = "top" /\ ~off /\ ~abort /\ seek.request
  /\ eof' = FALSE /\ error' = "none"
  /\ seek' = [seek EXCEPT !.request = FALSE, !.completed = TRUE]
  /\ pos' = seek.to /\ fpos' = seek.to
  /\ main' = [Awake(main) EXCEPT !.moved = main.pc \in {"read", "readWait"}]
  /\ task' = [task EXCEPT !.pc = "decide"]
  /\ UNCHANGED <<mode, cacheVars, inner, lazy, rinner, finner, fend, fails,
                 abort, running, ctl, retVars, rebuilt, used>>

\* Whether there is something to do is decided before the mutex is taken.
TaskDecides ==
  /\ \/ task.pc = "top" /\ ~off /\ ~abort /\ ~seek.request
     \/ task.pc = "decide"
  /\ task' = [task EXCEPT !.pc = IF fpos - pos > Forwards \/ eof
                                 THEN "sleep" ELSE "fetch"]
  /\ UNCHANGED <<mode, cacheVars, inner, lazy, readVars, fileVars, ioVars,
                 fails, seek, abort, running, main, ctl, retVars, rebuilt, used>>

TaskSleeps ==
  /\ task.pc = "sleep"
  /\ task' = [task EXCEPT !.pc = "wait"]
  /\ main' = Awake(main)
  /\ UNCHANGED <<mode, cacheVars, inner, lazy, readVars, fileVars, ioVars,
                 fails, seek, abort, running, ctl, retVars, rebuilt, used>>

\* ijkio_cache_write_file up to the mutex: what is cached is skipped, then the
\* inner resource is opened, moved and read up to the next entry.
Skipped == IF Cached(fpos) = {} THEN fpos
           ELSE End(CHOOSE e \in Cached(fpos) : TRUE)
Room == IF After(fpos) = {} THEN Block
        ELSE Least(Block, (CHOOSE e \in After(fpos) : TRUE).log - Skipped)

\* The caller has given the cache up: c->tree_info is NULL.
TaskCrashes ==
  /\ task.pc = "fetch" /\ off
  /\ task' = [task EXCEPT !.pc = "crashed"]
  /\ UNCHANGED <<mode, cacheVars, inner, lazy, readVars, fileVars, ioVars,
                 fails, seek, abort, running, main, ctl, retVars, rebuilt, used>>

TaskFetches ==
  /\ task.pc = "fetch" /\ ~off
  /\ fpos' = Skipped
  /\ \/ /\ Room = 0
        /\ task' = [task EXCEPT !.pc = "top"]
        /\ UNCHANGED <<inner, lazy, finner, fend, ioVars, used>>
     \/ /\ Room > 0 /\ (Skipped >= FileSize \/ (fend > 0 /\ Skipped = fend))
        /\ eof' = TRUE
        /\ task' = [task EXCEPT !.pc = "top"]
        /\ UNCHANGED <<inner, lazy, finner, fend, error, used>>
     \/ /\ Room > 0 /\ Skipped < FileSize /\ ~(fend > 0 /\ Skipped = fend)
        /\ LET from == IF Skipped # finner THEN Skipped ELSE inner IN
           \/ \E n \in 1..Room :
                /\ from + n <= FileSize
                /\ task' = [pc |-> "store", data |-> [i \in 1..n |-> from + i - 1]]
                /\ inner' = from + n /\ finner' = Skipped + n
                /\ lazy' = FALSE
                /\ UNCHANGED <<fend, ioVars, used>>
           \* the open or the read fails, or the seek, which leaves no error
           \/ /\ InnerFails
              /\ eof' = TRUE
              /\ error' \in IF Skipped # finner THEN {error, "failed"} ELSE {"failed"}
              /\ finner' \in {finner, Skipped}
              /\ inner' = IF finner' = Skipped THEN from ELSE inner
              /\ task' = [task EXCEPT !.pc = "top"]
              /\ UNCHANGED <<lazy, fend>>
           \* the resource ends here
           \/ /\ from >= FileSize
              /\ fend' = Skipped /\ eof' = TRUE /\ error' = "none"
              /\ inner' = from /\ finner' = Skipped /\ lazy' = FALSE
              /\ task' = [task EXCEPT !.pc = "top"]
              /\ UNCHANGED used
  /\ UNCHANGED <<mode, cacheVars, readVars, fails, seek, abort, running, main,
                 ctl, retVars, rebuilt>>

\* add_entry: the bytes are written where the cache ends.  A full cache is
\* emptied, and the bytes are read again, or given up when it is shared.
TaskStores ==
  /\ task.pc = "store" /\ ~off
  /\ LET n == Len(task.data) IN
     \/ /\ last + n < Capacity
        /\ disk' = WithBytes(disk, last, task.data)
        /\ tree' = WithEntry(tree, fpos, last, n)
        /\ last' = last + n /\ fpos' = fpos + n
        /\ fails' = [fails EXCEPT !.row = 0]
        /\ main' = Awake(main)
        /\ task' = [pc |-> "top", data |-> <<>>]
        /\ UNCHANGED <<off, eof>>
     \/ /\ last + n >= Capacity /\ ~mode.shared
        /\ tree' = {} /\ last' = 0 /\ eof' = FALSE /\ fpos' = pos
        /\ task' = [pc |-> "top", data |-> <<>>]
        /\ UNCHANGED <<disk, off, fails, main>>
     \/ /\ last + n >= Capacity /\ mode.shared
        /\ off' = TRUE
        /\ task' = [pc |-> "ending", data |-> <<>>]
        /\ UNCHANGED <<disk, tree, last, eof, fpos, fails, main>>
  /\ UNCHANGED <<mode, fd, inner, lazy, readVars, finner, fend, error, seek,
                 abort, running, ctl, retVars, rebuilt, used>>

TaskStoreFails ==
  /\ task.pc = "store" /\ ~off /\ DiskFails
  /\ \E givenUp \in BOOLEAN :
       /\ FileError(givenUp, {0})
       /\ task' = [pc |-> IF givenUp THEN "ending" ELSE "top", data |-> <<>>]
  /\ UNCHANGED <<mode, inner, lazy, readVars, fend, error, seek, abort, running,
                 main, ctl, retVars>>

\* The caller has given the cache up meanwhile and closed its file: that is
\* one failure more, after which the file may even be opened again.
TaskStoresClosed ==
  /\ task.pc = "store" /\ off
  /\ finner' = 0 /\ fpos' = pos
  /\ fd' \in {FALSE, fails.rebuilds < MaxRebuilds}
  /\ fails' = [fails EXCEPT !.rebuilds = @ + 1]
  /\ task' = [pc |-> "ending", data |-> <<>>]
  /\ UNCHANGED <<mode, disk, tree, last, off, inner, lazy, readVars, fend, ioVars,
                 seek, abort, running, main, ctl, retVars, rebuilt, used>>

-----------------------------------------------------------------------------
\* ijkio_cache_pause, ijkio_cache_resume and ijkio_cache_close.

\* Both ask the task to end and wait for it; the signal is for a task that
\* waits already.
Ask(pc) ==
  /\ ctl \in {"idle", "paused"} /\ mode.async
  /\ abort' = TRUE
  /\ ctl' = pc
  /\ task' = WakeTask
  /\ UNCHANGED <<mode, cacheVars, inner, lazy, readVars, fileVars, ioVars,
                 fails, seek, running, main, retVars, rebuilt>>
Pause == Ask("pause") /\ Spend("pauses", MaxPauses)
Close == main.pc = "idle" /\ Ask("close") /\ UNCHANGED used

AskedWaits ==
  /\ ctl \in {"pause", "close"} /\ running
  /\ ctl' = IF ctl = "pause" THEN "pauseWait" ELSE "closeWait"
  /\ UNCHANGED <<mode, cacheVars, inner, lazy, readVars, fileVars, ioVars,
                 fails, seek, abort, running, task, main, retVars, rebuilt, used>>

AskedReturns ==
  /\ ctl \in {"pause", "close"} /\ ~running
  /\ ctl' = IF ctl = "pause" THEN "paused" ELSE "closed"
  /\ UNCHANGED <<mode, cacheVars, inner, lazy, readVars, fileVars, ioVars,
                 fails, seek, abort, running, task, main, retVars, rebuilt, used>>

\* ijkio_cache_resume moves the cache file to its end first, and gives the
\* cache up when that fails.
FileKept == UNCHANGED <<fd, off, used>>
FileLost == ~off /\ DiskFails /\ fd' = FALSE /\ off' = TRUE

Resume ==
  /\ ctl = "paused" /\ main.pc = "idle"
  /\ FileKept \/ FileLost
  /\ ctl' = "idle" /\ abort' = FALSE
  /\ IF off' THEN UNCHANGED <<running, task>>
     ELSE running' = TRUE /\ task' = [pc |-> "top", data |-> <<>>]
  /\ UNCHANGED <<mode, disk, tree, last, inner, lazy, readVars, fileVars, ioVars,
                 fails, seek, main, retVars, rebuilt>>

\* The inner protocol cannot be resumed, or the pool takes no task: the caller
\* gets the error, and the context stays paused.
ResumeFails ==
  /\ ctl = "paused" /\ main.pc = "idle"
  /\ \/ (FileKept \/ FileLost) /\ UNCHANGED abort
     \/ ~off /\ FileKept /\ abort' = FALSE
  /\ UNCHANGED <<mode, disk, tree, last, inner, lazy, readVars, fileVars, ioVars,
                 fails, seek, running, task, main, ctl, retVars, rebuilt>>

-----------------------------------------------------------------------------
TaskStep == \/ TaskEnds \/ TaskEnded \/ TaskSeeks \/ TaskDecides \/ TaskSleeps
            \/ TaskFetches \/ TaskCrashes
            \/ TaskStores \/ TaskStoreFails \/ TaskStoresClosed
MainStep == /\ ~Crashed
            /\ \/ ReadInterrupted \/ ReadGivenUp \/ ReadTakes \/ ReadFails
               \/ ReadEnds \/ ReadWaits \/ SeekWaits \/ SeekReturns
CtlStep  == ~Crashed /\ (AskedWaits \/ AskedReturns)

\* What the application and FFmpeg ask for.
Request ==
  \/ \E n \in 1..MaxRead : \/ SyncFromCache(n) \/ SyncMiss(n) \/ SyncBadFile(n)
                           \/ Read(n) \/ ReadDirectly(n)
  \/ SyncEnd \/ SyncError
  \/ \E p \in 0..FileSize : SyncSeek(p) \/ Seek(p)
  \/ Pause \/ Close \/ Resume \/ ResumeFails

Next == TaskStep \/ MainStep \/ CtlStep \/ (~Crashed /\ Request)

Spec == Init /\ [][Next]_vars

Fairness == WF_vars(TaskStep) /\ WF_vars(MainStep) /\ WF_vars(CtlStep)

FairSpec == Spec /\ Fairness

-----------------------------------------------------------------------------
TypeOK ==
  /\ last \in 0..Capacity /\ pos \in 0..FileSize /\ inner \in 0..FileSize
  /\ fpos \in 0..FileSize /\ finner \in 0..FileSize
  /\ \A e \in tree : e.size > 0 /\ e.phys + e.size <= last
  /\ task.pc \in {"none", "top", "decide", "sleep", "wait", "fetch", "store",
                  "ending", "crashed"}

\* What the entries say of the disk is true: no byte is written where another
\* entry keeps its own, and no entry survives the bytes it describes, unless
\* the cache was rebuilt after errors of the disk: then file_inner_pos is 0
\* wherever the inner resource is (ijkiocache.c:160).
CacheIsFile ==
  rebuilt \/ \A e \in tree : \A i \in 0..(e.size - 1) : disk[e.phys + i] = e.log + i

\* No two entries describe the same byte of the resource or of the disk.
EntriesApart ==
  \A e, f \in tree : e = f \/ /\ End(e) <= f.log \/ End(f) <= e.log
                              /\ e.phys + e.size <= f.phys \/ f.phys + f.size <= e.phys

\* A read delivers the bytes at the position of the caller, from the cache or
\* past it, unless the cache was rebuilt or was given up between two reads, or
\* a seek that a pause had interrupted is carried out in the middle of it.
ReadsTrueStep ==
  out' # out /\ out' # <<>> /\ ~rebuilt /\ ~main.moved /\ ~(off /\ main.pc = "idle")
    => \A i \in 1..Len(out') : out'[i] = pos - Len(main.got) + i - 1

\* ijkio_cache_close, and ijkio_cache_pause, under way
Closing == ctl \in {"close", "closeWait"}
Asked == Closing \/ ctl \in {"pause", "pauseWait"}

\* "ijkmp_release -> MP_STATE_END" (ijkplayer.h:96): what a release waits for,
\* the close of the protocols among it, comes to an end.
CloseEnds == Closing ~> ~Closing \/ Crashed

\* The task has fallen asleep after it was asked to end: the signal came
\* between its test and its wait (ijkiocache.c:510-514), and no other follows.
SleptThrough == abort /\ task.pc = "wait"

\* A call of the caller, a pause and a close return, whatever the task is doing
\* when they wait; but for a seek when the task gives the cache up, which the
\* loop of ijkio_cache_seek does not look at (ijkiocache.c:1066-1077), and for
\* a pause or a close that the task has slept through.
InCall ==
  /\ ~Crashed
  /\ \/ main.pc # "idle" /\ ~(main.pc \in {"seek", "seekWait"} /\ off)
     \/ Asked /\ ~SleptThrough
CallsReturn == InCall ~> ~InCall
=============================================================================
