------------------------------- MODULE MCCache ------------------------------
(***************************************************************************)
(* The disk cache for TLC: the cache protocol of one url (IoCache), the    *)
(* index of the cache file across players (CacheMap), the contexts that    *)
(* pause each other (IoManager), the threads that run their tasks          *)
(* (ThreadPool), and the containers of ijkavutil (IjkUtil).  They share no *)
(* state, so that an instance lets one of them run and the others stay as  *)
(* they begin: "which" says which.                                         *)
(***************************************************************************)
EXTENDS IoManager

CONSTANTS r1, r2, c1, c2, w1, w2

MCContexts == {c1, c2}

VARIABLES
  which,
  \* IoCache
  mode, disk, tree, last, fd, off, inner, lazy, pos, rinner, fpos, finner,
  fend, eof, error, fails, seek, abort, running, task, main, ctl, out, result,
  rebuilt, used,
  \* CacheMap
  mapDisk, mapLast, trees, shared, saved, up, run, flushed, stale,
  \* ThreadPool
  ring, size, head, tail, pending, shutdown, worker, owner, added, runs,
  grewWrapped,
  \* IjkUtil
  root, elems, style, dict, lastSet, several, lost, fifo, content

Synchronous == [async |-> FALSE, shared |-> FALSE]

Cache == INSTANCE IoCache WITH
  FileSize <- 4, Capacity <- 4, Forwards <- 1, Block <- 2, MaxRetries <- 0,
  MaxRebuilds <- 1,
  Modes <- {Synchronous, [async |-> TRUE, shared |-> FALSE],
            [async |-> TRUE, shared |-> TRUE]},
  MaxRead <- 2, MaxSeeks <- 1, MaxMishaps <- 1, MaxPauses <- 1,
  MaxEvents <- 2

Map == INSTANCE CacheMap WITH
  Resources <- {r1, r2}, Capacity <- 4, MaxBytes <- 3, MaxRuns <- 3,
  disk <- mapDisk, last <- mapLast

Pool == INSTANCE ThreadPool WITH
  Workers <- {w1, w2}, QueueSize <- 2, MaxQueue <- 4, MaxTasks <- 5

Util == INSTANCE IjkUtil WITH
  TreeKeys <- 1..8,
  Capital <- 10, Keys <- {<<1>>, <<11>>, <<1, 2>>}, Values <- {<<1>>},
  MaxEntries <- 3, MaxLength <- 2, Width <- 4, last <- lastSet,
  Capacity <- 2, MaxBuffer <- 5, Wrap <- 8, Bytes <- 5

cacheVars   == <<mode, disk, tree, last, fd, off, inner, lazy, pos, rinner, fpos,
                 finner, fend, eof, error, fails, seek, abort, running, task,
                 main, ctl, out, result, rebuilt, used>>
mapVars     == <<mapDisk, mapLast, trees, shared, saved, up, run, flushed, stale>>
managerVars == vars
poolVars    == <<ring, size, head, tail, pending, shutdown, worker, owner,
                 added, runs, grewWrapped>>
utilVars    == <<root, elems, style, dict, lastSet, several, lost, fifo, content>>
allVars == <<which, cacheVars, mapVars, managerVars, poolVars, utilVars>>

MCInit ==
  /\ which \in {"cache", "map", "manager", "pool", "tree", "dict", "fifo"}
  /\ Cache!Init /\ Map!Init /\ Init /\ Pool!Init /\ Util!Init
  /\ which # "cache" => mode = Synchronous /\ ~lazy
  /\ which # "dict" => style = "any"

CacheStep(A) ==
  which = "cache" /\ A /\ UNCHANGED <<which, mapVars, managerVars, poolVars, utilVars>>
MapStep(A) ==
  which = "map" /\ A /\ UNCHANGED <<which, cacheVars, managerVars, poolVars, utilVars>>
ManagerStep(A) ==
  which = "manager" /\ A /\ UNCHANGED <<which, cacheVars, mapVars, poolVars, utilVars>>
ThreadStep(A) ==
  which = "pool" /\ A /\ UNCHANGED <<which, cacheVars, mapVars, managerVars, utilVars>>
UtilStep ==
  /\ \/ which = "tree" /\ Util!TreeStep
     \/ which = "dict" /\ Util!DictStep
     \/ which = "fifo" /\ Util!FifoStep
  /\ UNCHANGED <<which, cacheVars, mapVars, managerVars, poolVars>>

MCNext == \/ CacheStep(Cache!Next) \/ MapStep(Map!Next)
        \/ ManagerStep(Next) \/ ThreadStep(Pool!Next)
        \/ UtilStep

MCSpec == MCInit /\ [][MCNext]_allVars

\* The fairness of each component; as one component runs, conditions of
\* different components are stated together.
MCFairSpec ==
  /\ MCSpec
  /\ WF_allVars(\/ CacheStep(Cache!TaskStep)
             \/ ManagerStep(CallStep)
             \/ ThreadStep(Pool!WorkerStep(w1)))
  /\ WF_allVars(\/ CacheStep(Cache!MainStep)
             \/ ManagerStep(PoolStep)
             \/ ThreadStep(Pool!WorkerStep(w2)))
  /\ WF_allVars(CacheStep(Cache!CtlStep) \/ ThreadStep(Pool!Joined))

-----------------------------------------------------------------------------
\* The properties, each explained where the component states it; OneTask of
\* IoManager is checked by its own name.

\* IoCache: the entries describe the bytes on the disk, and no byte twice.
\* CacheMap: so do the entries of a restarted player, what is written next is
\* behind them, and a shared map stays true.  IjkUtil: the tree of entries is
\* balanced and in order, and finds the neighbours of a position; an option is
\* what was set last; bytes come out as they went in.  ThreadPool: the ring holds
\* the pending tasks in their order, each of them is started once, a leisurely
\* end runs them all, and no task is pending while all the workers sleep.
CacheSound ==
  /\ Cache!TypeOK /\ Cache!CacheIsFile /\ Cache!EntriesApart
  /\ Map!TypeOK /\ Map!MapIsDisk /\ Map!LastIsEnd /\ Map!SharedMapIsDisk
  /\ Util!UtilSound
  /\ TypeOK
  /\ Pool!TypeOK /\ Pool!RingIsQueue /\ Pool!OnceInOrder /\ Pool!LeisurelyRunsAll
  /\ Pool!NoIdleWorker

\* IoCache: a read delivers the bytes at the position of the caller.
ReadsTrue == [][Cache!ReadsTrueStep]_allVars

\* A call of the protocol, a call of FFmpeg and the destruction of the pool
\* return: Cache!CallsReturn, IoManager's CallsReturn and Pool!DestroyEnds in one
\* formula, as one component runs.
CallUnderWay ==
  \/ which = "cache" /\ Cache!InCall
  \/ which = "manager" /\ InCall
  \/ which = "pool" /\ Pool!Destroying
AllCallsReturn == CallUnderWay ~> ~CallUnderWay

\* The cache protocol of a url with a task alone, and what the code promises of
\* its close, explained in IoCache.
ShutdownSpec == MCFairSpec /\ which = "cache" /\ mode.async
CloseEnds == Cache!CloseEnds
=============================================================================
