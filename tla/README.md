# A TLA+ model of the ijkplayer core

This directory models the part of the player that decides *what happens when*:
the message queue and the state machine of the player, the threads that read,
decode and play, the protocols between FFmpeg and the network, the outputs and
decoders of Android, and the life of a player beside its Java object. The
modules are translated from `src/ijkmedia` and from `IjkMediaPlayer.java`;
every definition that stands for code names the function or field it comes
from, and `PROJECT.json` gives its lines.

## 1. Inventory

The repository is a fork of ijkplayer: FFmpeg's ffplay rewritten as a library
(`src/ijkmedia/ijkplayer`), a portability layer (`src/ijkmedia/ijksdl`),
bindings for Android (`src/ijkmedia/ijkplayer/android`, `src/android`) and iOS
(`src/ios`). What a player does is decided by these components.

| Component | State | Operations | Hard behaviour |
|---|---|---|---|
| Message queue (`ff_ffmsg_queue.h`) | list of messages, stack of recycled nodes, `abort_request`, a mutex and a condition | init, start, put (four forms), get, remove, abort, flush, destroy | lost wakeups; ownership of the object in a message; the two lists |
| `IjkMediaPlayer` (`ijkplayer.c`) | `mp_state`, `restart`, `restart_from_beginning`, `seek_req`/`seek_msec`, `mutex` | set_data_source, prepare_async, start, pause, seek_to, stop; `ijkmp_get_msg` | a call comes between the dequeueing and the handling of a message |
| Pause control (`ff_ffplay.c`) | `pause_req`, `buffering_on`, `step`, `auto_resume`, `paused`, the audio output | toggle_pause, toggle_buffering, step_to_next_frame, update_pause | five writers; `auto_resume` is written without the lock |
| `read_thread` | `seek_req`, `eof`, `prepared`, its local `completed`, `loop`, `error` | wait for start, seek, read, complete, fail | seeks against completion, buffering and stop |
| Opening and closing | streams, decoders, threads, the input | stream_open, stream_component_open, stream_close | each of a dozen steps may fail; the application closes meanwhile |
| Packet queues, decoder threads | packets with a serial, `finished`, `recv_eof`, `abort_request` | put, get, flush, drop; decode | stale serials; a lock that is not released |
| Frame queues, renderers | ring of frames, `rindex_shown` | peek, push, next; `video_refresh`, audio callback | reset during a track switch |
| Audio tracks | `audioq`, `audio_stream`, a queue for each track | select, deselect, `sync_multi_audiotrack` | switches against seeks |
| Buffering | high-water marks, `buffering_on` | check, starve, fill | it must end, whatever the sizes |
| Sound path | the opened output, resampler, audio clock | audio_open, audio_decode_frame, callback | retries, failures, pause, speed |
| Pictures and subtitles | the rings of both, their bitmaps | queue_picture, display, report | sizes change; a seek is reported once |
| Clocks | three clocks, `frame_timer`, `step` | set, drift, pause, drop a frame | what the position is after a pause or a stall |
| Accurate seek | two request flags, two conditions | wait for the other decoder | a handshake with timeouts |
| Thumbnails, ABR, watchdog | `get_img_info`; programmes and bandwidths; two samples | request and answer; select and switch; compare | counters shared without a lock |
| Lifecycle, JNI (`ijkplayer_jni.c`, `IjkMediaPlayer.java`) | references, weak Java reference, pending events | setup, release, reset, finalize, message loop | the last reference dropped by the wrong thread |
| MediaCodec decoders (`android/pipeline`) | codec, surface, output buffers in proxies | feed, drain, reconfigure, release | buffers that outlive a flush or a reconfiguration |
| Codec object and content keys (`ijksdl_codec_android_mediacodec*.c`, `ffpipeline_android.c`) | reference count, serial, fake frames, surface, crypto | make, configure, stop, flush, refer, drop | a codec freed or exchanged while another thread has it |
| Video output (`ijksdl_egl.c`, `gles2`, `android_nativewindow.c`) | overlays, window, context, renderer | fill, display, change the window | the window changes between two pictures; formats change |
| Audio outputs (`ijksdl/android`) | pause and flush flags of the output thread | open, pause, flush, close | requests between two writes to a device that blocks |
| `ijkavutil` | thread pool, tree, dictionary, byte ring | add, destroy; insert, find; set, get; read, write | shutdown with tasks queued; a ring that grows; indices that wrap |
| `ijkio`: cache and manager (`ijkiocache.c`, `ijkiomanager.c`) | cache file, tree of entries, map file; contexts | read, seek, task; open, pause, close | task against caller; crash and restart |
| Read-ahead (`ijkasync.c`) | ring, positions | read, seek, task | a seek while the ring is filled |
| Reconnecting hooks (`ijkurlhook.c`, `ijkiourlhook.c`, `ijklivehook.c`) | inner protocol, logical position | open, read, seek, ask the application | a retry after a retry; interruption |
| Live adaptive streaming (`ijklas.c`) | queue of tags, representation, switch index | download, switch, read | switches against the reader |

They interact as follows. An application calls `ijkmp_*` under `mp->mutex`; a
call either acts at once (`stop`) or removes the requests it replaces from the
message queue and posts one (`start`, `pause`, `seek_to`). The message loop, a
thread that the bindings run around `ijkmp_get_msg`, dequeues it, takes
`mp->mutex` and carries it out on the `VideoState`. `read_thread` looks at the
flags of the `VideoState` once per turn, reads packets into the queues and posts
`PREPARED`, `COMPLETED`, `SEEK_COMPLETE` and `ERROR` to the message queue.
Decoders turn packets into frames, and turn buffering on when they starve;
`read_thread` turns it off when the queues are full or the media ends. The
renderers (the thread of `video_refresh`, the callback of the audio output) take
the frames and obey `is->paused`. Under FFmpeg's demuxer lie the protocols of
`ijkavformat`, stacked on each other by `url_read` and `url_seek`. On Android
the video decoder may be MediaCodec, whose buffers travel through the picture
queue and are given back by the video output.

What makes each component correct is the list of properties in section 3. The
places where the code is exposed are the `hazards` of `PROJECT.json`, each with
the properties that would catch it going wrong.

Not modelled: the iOS side (VideoToolbox decoders, view, audio queue and
controllers), other protocols and demuxers, metadata, generated JNI bindings,
cJSON, bandwidth meters, other Java players and the example applications.
Section 5 says why.

## 2. Plan

The order of the work was that of importance: messages and control, then the
streams, then what feeds them and what they feed. Each component has a module;
an `MC` module joins the components that are checked by one run. All of it is
done but for the proofs named at the end of section 4.

| Modules | Composition |
|---|---|
| `MsgQueue` (abstract), `MsgQueueList` | the list implements the abstract queue |
| `IjkPlayer` | operators on the record of pause flags, and the threads around them |
| `Queues`, `Streams` | operators on packet queue and frame ring; the threads around them |
| `ByteStream` (abstract), `AsyncIo` | the read-ahead implements a plain file |
| `Buffering`, `AudioPath`, `VideoPath`, `Clocks`, `Opening`, `AccurateSeek`, `Thumbnails`, `Abr`, `Watch`, `Lifecycle`, `MediaCodecNode`, `SyncDecoder`, `AudioOut`, `IoCache`, `CacheMap`, `IoManager`, `ThreadPool`, `IjkUtil`, `UrlHook`, `IoUrlHook`, `LiveHook`, `Las`, `CodecObject`, `Display` | one component each |
| `MsgQueueProofs`, `IjkPlayerProofs`, `StreamsProofs`, `AsyncIoProofs`, `IoManagerProofs`, `MediaCodecNodeProofs`, `LifecycleProofs`, `CommonLemmas` | proofs |

`RECURSIVE` operators are in `IjkUtil` and `MsgQueueList` only, which no proof
uses.

## 3. Modules, runs and results

An `MC` module EXTENDS the component that most of the run is about, so that its
properties are checked by their own names, and instantiates the others. The
components of a run share no state. A variable, `which` or `instance`, chosen at
the start says which of them runs; the others stay as they begin. Fairness
conditions and progress properties of different components are therefore stated
jointly: a condition on `A \/ B` is one on `A` where only `A` runs. Deadlock is
checked in the run `queue`. In the other runs it is not: an application that
stops calling leaves the system at rest for good.

### Run `queue` (`MCMsgQueue`)

`MsgQueue` keeps the pending messages as a set, each stamped with the order of
its posting; the head of the queue is the least stamp. Every operation holds
`q->mutex` throughout, so each is one action, except `msg_queue_get`, which is
split at `SDL_CondWait`: `GetMessage`, `GetWaits` and `GetAborted` are one turn
of its loop, `SpuriousWakeup` a wait that returns by itself. `PutRefused` and `StartNoNode` are
a post that finds the queue aborted or gets no memory for its node, and a start
whose flush message does. `Signal` is
`pthread_cond_signal`: it wakes one sleeping thread and is otherwise forgotten.
`hand[l]` is the message that loop `l` has taken and not yet freed; `made` and
`freed` are the history of the objects that messages own. `Recreate` destroys
the queue and makes the one of the next player. `MsgQueueList` has the same
actions on `first_msg`, `last_msg`, `next`, `nb_messages` and the recycled nodes.

| Property | Says |
|---|---|
| `TypeOK` | types of the abstract queue |
| `ObjOwnedOnce` | the object of a message is freed once, by whoever owns it |
| `NoLostWakeup` | a live queue with messages never has all its loops asleep |
| `NoObjectLost` | an object leaks only when a post is refused, by an aborted queue or for want of memory for a node, in the abstract queue and in the list (`LostOnlyWithoutNode`) |
| `OneLoopServes` | an abort ends the only loop, a pending message is taken or removed |
| `ListShape`, `ImplementsMsgQueue` | the list is well linked, and is the abstract queue, the order of delivery included |

Bounds: two loops, or one for `OneLoopServes` and the list; two codes; five
messages. Two loops occur when a `prepare_async` follows a `stop` in a build
without assertions. Two codes are enough for `msg_queue_remove` (the one removed,
the others), five messages for removals at the head, in the middle and at the
end, twice over. Fairness: the one loop runs.

### Run `player` (`MCPlayer`: `IjkPlayer`, `Clocks`, `VideoPath`, `Display`)

`IjkPlayer` turns every section under `is->play_mutex` into a function on the
record of pause flags, and interleaves the threads at the points where the code
does not hold a lock.

| Code | Model |
|---|---|
| `ijkmp_set_data_source`, `prepare_async`, `start`, `pause`, `seek_to` | `SetDataSource`, `PrepareAsync` / `PrepareAgain`, `Start`, `Pause`, `SeekTo`; one step each under `mp->mutex` |
| `ijkmp_stop` | `Stop`, `StopPauses`, `StopAborts`: `read_thread` runs between its writes; `mutex = "app"` keeps the message loop out |
| `ijkmp_get_msg` | `LoopGets`, then one action per case; a case waits for `mp->mutex` |
| `ffp_start_from_l` | `StartFromResumes`, `StartFromBuffers`, `StartFromSeeks`, under `mutex = "loop"` |
| `read_thread` | one action per section, `rt` says which comes next: preparation, seek, back-pressure, end of the media, reading, `fail` |
| `video_refresh`, audio callback | `Render` |
| `packet_queue_get_or_buffering` without data | `Starve` |

The media is `Duration` packets long; a position is a number of packets.
`backlog` counts what was read and not rendered; `nulls` says that the null
packets of the end were queued since the last flush, so that `Finished` is the
test of `read_thread` on `auddec.finished`, `viddec.finished` and the frame
queues. The message queue has become a sequence: that is what `MsgQueue` is
shown to deliver.

`Display` is the way of a picture from the decoder to the window: the decoder
fills the overlays in the slots of the picture queue without the mutex of the
video output, the render thread holds it while it displays one, the application
takes it to change the window.

| Code | Model |
|---|---|
| `queue_picture`, `alloc_picture`, `func_fill_frame` of both overlays | `Take`, `AllocPicture`, `FillBegins`, `FillEnds` |
| `frame_queue_next` | `Advance` |
| `func_display_overlay_l` | `DisplayBuffer` (MediaCodec), `DisplayBegins` |
| `IJK_EGL_display` | `MakeCurrent` / `MakeContext`, `Prepare`, `Draw`, `Leave`; `CurrentFails`, `PrepareFails` |
| `SDL_Android_NativeWindow_display_l` | `SetGeometry`, `Copy`; `CopyFails` |
| `SDL_VoutAndroid_SetAndroidSurface` | `SetSurface`, `SetNativeWindow`, `ReleaseLocal` |
| `stream_close`, `func_free_l` | `Free` |

| Property | Says |
|---|---|
| `NoStuckPause` | the player is never paused without a request that holds it |
| `PausedIsHeld` | a player that says PAUSED has its pause requested, but for what is in flight |
| `SeekAgrees` | while a seek waits in the queue, the position reported is its own, not that of one it replaced |
| `StopIsFinal` | no step of any thread withdraws the pause of a stopped player |
| `OnlyClearStrands` | only the clearing of `auto_resume` behind PREPARED, or a seek in a media that an I/O error ended, strands a started player |
| `LiveProgress` | a stop ends the threads, a seek is reported, buffering ends |
| `ResumesInPlace` | a resume goes on from the position of the pause (`Clocks`) |
| `PlayerSound` | `Clocks`: sound and pictures come together again, no picture is dropped without need, a pause holds the position, nothing makes it run ahead. `VideoPath`: each picture has its own bitmap, and the application is told of sizes, texts and seeks. `Display`: EGL draws on the window that the output has, and not while a codec or the CPU does; an overlay that is displayed is not being filled; colours are in their places and no padding is seen; a copy stays inside both buffers; windows, proxies and the objects of OpenGL are given back |

Instances: `video` (3 calls), `live` (2 calls, fair), `broken` (2 calls, I/O
errors), `audio` (waits for a start, plays twice, exits at the end, I/O errors, a
second `prepare_async`), `time`, `picture` and `screen`. Three calls are enough for one
that overtakes the handling of another while a third has already changed the
state, after any number of completions, which the media reaches by itself.
`Duration = 2` has a position that is neither start nor end; with `QueueCap = 1`
a single packet fills the queues, so that back-pressure, starvation and the end
alternate. `Clocks` counts in ticks up to `Horizon = 15`, with a frame of 2, a
device that asks every 3 ticks and budgets in which two of pauses, seeks and
stalls meet; it was also checked once with a horizon of 30 and frame drops off
and on. `VideoPath` has a ring of 2, pictures of two sizes and two subtitles, of
which one has two lines and one three. `Display` has two windows with one of three
kinds of buffers (of the picture's format, of another, of one that the table does
not know), two changes of the window or one and a failing call, five output
formats, and three frames of which the second may need a conversion, another
texture or MediaCodec and the third is larger: with a ring of 2 each slot is used
again, by a picture of another kind.

Fairness: the message loop, `read_thread` and the renderer are threads of their
own, each blocked only by conditions that the model has as guards (waits with a
timeout are polls), so weak fairness on each is what the scheduler provides.
`ijkmp_stop`, once called, returns (`AppStops`). Nothing makes the application
call, and nothing makes a decoder starve. With `StartOnPrepared = FALSE` a seek
before the first start waits for that start, which is up to the application;
progress is therefore checked with `StartOnPrepared = TRUE`.

### Run `streams` (`MCStreams`: `Streams`, `Buffering`, `AudioPath`)

`Streams` is what happens between `av_read_frame` and the frames played:
`read_thread` puts packets into a queue per track, the decoder threads turn them
into frames, the audio callback and `video_refresh` play these, while the
application seeks, selects tracks and closes. A packet knows the position it was
read at and the number of seeks before (`epoch`), which the code does not: it has
only serials. That the serials suffice is the point.

| Code | Model |
|---|---|
| `packet_queue_*` under `q->mutex` | operators of `Queues` (`Put`, `Get`, `Flush`, `Drop`, `Abort`, `Start`); `locked` records that `packet_queue_drop` returned with the lock (line 387) |
| `frame_queue_*` | operators of `Queues` |
| `decoder_decode_frame` and the loop around it | `Receive`, `GetPacket`, `Send`, `PushFrame` |
| the loop of `read_thread` | `Top`, `SeekFlushAudio` .. `SeekEnd`, `BuffersFull`, `Complete`, `Idle`, `ReadPacket`, `ReadEof`, `ReadError` |
| audio callback | `Peek`, `Advance`, `PlayAudio`: the frame queue is not locked between them |
| `ffp_set_stream_selected` with what it closes and opens | `SelectTrack`, `JoinDecoder`, `ResetSampq`, `CloseAout`, `SetActive`, `OpenAout`, `StartDecoder` |
| `stream_close` | `CloseStream`, `JoinRead`, `JoinAudio`, `JoinVideo` |

| Property | Says |
|---|---|
| `SerialsTell` | serials only grow along a queue, and a marker is the first of its serial |
| `NothingStalePlayed` | what is played comes from behind the last seek that its queue knows of |
| `ActiveTrackPlayed` | the sound is that of the active track, whatever switches are in progress |
| `CompletedPlayedAll` | COMPLETED is reported only when everything has been played |
| `OnlyResetBreaksRing` | the indices of a ring become unsound in one way only: the callback advances the ring of the sound after a switch has reset it |
| `MarkFalls` | the high-water mark falls only by a seek, and data ends the buffering only if every stream has some (`Buffering`) |
| `StreamsProgress` | closing ends, a seek is shown, a file is played to its end however often it buffers, a rate that was set is applied |
| `StreamsSound` | types; the decoder is fed by the stream its codec was opened for; full queues let the player go on; the output is opened when it can be and plays sound in its own format, and the clock follows it (`AudioPath`) |

Seven files: one or two audio tracks, video alone and with audio; one or two
packets per stream; a seek with a switch, two switches, a seek with a read error,
a seek with a dropped packet. A codec delays by one packet, rings have two slots,
a queue of one packet is full. What is longer repeats: a decoder holds at most
one packet and one frame, so two packets and two serials put every stage of the
path on both sides of a seek. Fairness: every thread runs, and a call of the
application, once made, goes on. A video queue that `packet_queue_drop` left
locked is exempted from progress, and a playback with a failed read from
`CompletedPlayedAll`: the hang and the dropped packets are in the model and in the
code.

### Run `cache` (`MCCache`: `IoManager`, `IoCache`, `CacheMap`, `ThreadPool`, `IjkUtil`)

`IoCache` is the cache protocol of one url; one step is one section under
`c->file_mutex` or one call of the inner protocol. `CacheMap` is the map of the
cache file over players, crashes and restarts; `IoManager` the contexts that
pause each other; `ThreadPool` the threads that run the tasks; `IjkUtil` has the
tree, the dictionary and the byte ring of `ijkavutil`.

| Property | Says |
|---|---|
| `CacheSound` | the entries say truly which bytes are on the disk, before and after a restart, and no byte twice; the tree of entries is balanced, in order, and finds the neighbours of a position; the ring of the pool holds the pending tasks in order, each is started once, a leisurely end runs them all, no task is pending while all workers sleep; an option is what was set last; bytes come out as they went in |
| `ReadsTrue` | a read delivers the bytes at the position of the caller |
| `OneTask` | no context has two tasks, nor one while it is paused or closed |
| `AllCallsReturn` | calls of the protocol, of FFmpeg and of the pool return |

Bounds: a file of 4 bytes in a cache of 4, reads of 2, one seek, one pause and one
mishap (an error of the disk or of the network), of which two meet (`MaxEvents`), a
cache that is emptied once after errors (`MaxRebuilds`), with and without task,
shared or not; two resources of up to 3 bytes over 3 runs of the process; two
contexts, two threads and three openings; two workers, a ring of 2 that grows to
4, five tasks; a tree of eight keys; a dictionary of three entries; a byte ring of
2 to 5 bytes whose indices wrap at 8. Fairness: the tasks, the callers and the
workers run. The pool exempts a ring that grew while its content had wrapped
(`grewWrapped`, a defect of `realloc` at `ijkthreadpool.c:161`). `ReadsTrue` exempts
a cache that was emptied or given up, and a seek that the task carries out in the
middle of a read; `CacheSound` a map older than the last flush (`stale`).
`AllCallsReturn` exempts a task that crashed because the caller gave the cache up,
and the pause and the close that the task slept through (`SleptThrough`): it tests
`abort_request` and then waits, in steps of their own in `IoCache` and in
`IoManager` (`TaskDecides`, `TaskSleeps`). The run `cache_shutdown` shows that call.

### Run `protocols` (`MCProtocols`: `AsyncIo`, `UrlHook`, `IoUrlHook`, `LiveHook`, `Las`, `Abr`)

| Property | Says |
|---|---|
| `RingIsFile` | the ring of the read-ahead holds the bytes of the file at the positions it says |
| `ImplementsStream` | `AsyncIo` implements `ByteStream`: reads and seeks are answered as a plain file answers them |
| `ReadsContinue` | a reconnecting hook reads on where the last read ended; a new connection is marked as a discontinuity (`LiveHook`), goes on with the group that the old one ended before and begins with its header (`Las`) |
| `PositionsAgree` | the inner protocol is where the hook believes it is; the algorithm keeps off disabled representations; the best programme is selected and read, and one switch is queued at a time (`Abr`) |
| `CallsReturn` | calls return, a pause or an interrupt ends them; a programme that was selected is switched to |

Bounds: a file of 5 bytes, a ring with 2 ahead and 1 behind, chunks of 2, two
seeks and one error (`AsyncIo`); a file of 3 bytes, two seeks, three faults
(`UrlHook`); three connections (`LiveHook`); three representations of which one
is disabled, three groups, one toggle, check and fault each (`Las`); two
programmes, known or unknown rates (`Abr`). The pictures of a ring wrap around at
these sizes several times. Fairness: task, callers and readers run.

### Run `android` (`MCMediaCodec`: `MediaCodecNode`, `SyncDecoder`, `CodecObject`)

`MediaCodecNode` is the decoder with two threads: `feed` (`enqueue_thread_func`)
and `drain` (`func_run_sync`) exclude each other with `acodec_mutex`, `render`
gives the buffers back under the mutex of the video output only, the application
sets surfaces and `read_thread` seeks. A proxy is an index, the object serial of
the codec and, in the model, the life of the codec it was taken from.
`SyncDecoder` is `func_run_sync_loop` with its sorting of pictures. `CodecObject`
takes apart what `MediaCodecNode` takes as one codec: the object
`SDL_AMediaCodec` with its reference count, its serial, its queue of fake frames
and its two classes (Java's codec, and the dummy of a decoder without surface),
`recreate_format_l` and `reconfigure_codec_l` step by step, and the content keys
that the input thread waits for.

| Property | Says |
|---|---|
| `ReleasedByOwner` | a buffer is given back only while it is out, and in the life of the codec that gave it away |
| `NoBufferLost` | while the output knows the codec and the decoder works on the surface of the pipeline, every buffer that is out is in exactly one proxy that brings it back |
| `AndroidSound` | types; the sorted pictures of the single thread are accounted for, in order, of the right segment and from the right codec. `CodecObject`: references to codecs and surfaces are counted and none is left; while every reconfiguration took the mutex, the output thread is in a living codec; a buffer is given only to the codec and the life it comes from, though serials wrap; a codec that is fed has the size of the pictures and a queue that serves; a packet waits for its keys, and its description fits into the arrays |
| `AndroidProgress` | after an abort the threads end, a flush marker is taken, a surface that was set is taken, an adaptive switch finishes |

Bounds: two surfaces, two output buffers, a picture queue of 2, budgets in each
of which two of seeks, surfaces, failures and stream switches meet; in `CodecObject`
serials of 1 and 2, packets of which one changes the size or has new keys, and one
mishap or change of the surface. Fairness: the
threads run; the output thread, which asks for a frame again and again under
`acodec_mutex`, gets one when one is there again and again (strong fairness of
`DrainFrame`: MediaCodec gives what it has decoded). Exempted from progress are a
decoder that gave up and a codec that lost its surface while it waits for the end
of a stream (`Starved`), a hang that is in the code.

### Run `playback` (`MCPlayback`: `Lifecycle`, `Opening`, `AccurateSeek`, `AudioOut`, `Thumbnails`, `Watch`)

| Property | Says |
|---|---|
| `LifeSound` | no thread uses a freed player (`PlayersUsed`), a stream is closed by one thread (`ClosedByOne`), nothing is read for a player that the object has let go of, and while something is, the global reference of the callbacks exists (`ReleasedIsQuiet`) |
| `PlaybackSound` | whatever failed, all that was opened is returned (but for the context of subtitles that are not shown, and the close that crashes before there are stream indices), threads are joined once, and the application hears of it; decoders that sleep for each other are awaited, no frame before the target of an accurate seek is played; the device and the volume are kept; thumbnails are those of their places and their end is told; an alarm is true |
| `PlaybackProgress` | a released player is freed and its methods return, a stream closes, an accurate seek ends, the output does what it is told, a request for thumbnails is answered, a decoder that stands still is noticed |

Bounds: two players, one message and one call beside the release (`Lifecycle`);
four kinds of content, the settings of five options and two faults (`Opening`);
targets 1 and 2 with one seek (`AccurateSeek`); two backends, three policies of
the device and two bounds (`AudioOut`); two requests of up to three pictures
(`Thumbnails`); an alarm after two samples (`Watch`). `MaxMsgs` and `MaxCalls` are
small because every pair of threads meets already: the properties are about a last
reference, of which there is one. Fairness: the threads run, the device plays,
timers expire. Exempted: the decoder that itself timed out in an accurate seek or
met a frame of an older serial (`gaveUp`, one flag for each decoder), and a request
for thumbnails that replaced one under way, which may divide by zero.

### Where the code disagrees with its documentation

Five runs expect a violation, each of one property that states a line of a header
or a comment; the findings in `PROJECT.json` quote it.

- `cache_shutdown`: `ijkio_cache_task` tests whether it is to end or may sleep without
  the mutex (`ijkiocache.c:487-511`) and then waits without testing again; a close
  that signals in between waits for ever, and the release of the player with it.
- `pause_lost`: `read_thread` undoes a pause with a start request of its own.
- `surface`: a surface taken away and set again leaves the output without codec.
- `crypto_race`: the codec that is made anew because content keys have arrived is
  freed while the output thread is in it; the mutex is not taken. `UsedAlive` and
  `RightOwner` of `CodecObject` are about behaviours without this race.
- `stale_events`: an event of the player before a reset reaches the listeners.

More came up while modelling and proving, without a run of their own:

- `prepare_async` after `stop` fails the assertion `ff_ffplay.c:5164`, since `stop`
  leaves `ffp->is` allocated (against `ijkplayer.h:124`); `asserted` records it.
- `stream_open` that cannot make `read_thread`, or a `read_thread` without a mutex
  (`ff_ffplay.c:4597-4624`, 3776-3780), leaves the stream indices at 0: `stream_close`
  closes stream 0 of an input that is NULL (1246-1251, 1158) and crashes
  (`CloseCrashes`).
- Without the option `subtitle`, which is the default, the context of an opened
  subtitle codec is freed by nobody (`ff_ffplay.c:3293`).
- The cache task looks into `c->tree_info` (`ijkiocache.c:388`) after an error on the
  caller's side has set it to NULL (`TaskCrashes`).
- A stopped player becomes COMPLETED by a message dequeued before the stop
  (`ijkplayer.c:733`, against `ijkplayer.h:122-127`).
- A second pause during the single step after a seek leaves `is->paused = 0`
  (`ff_ffplay.c:1484`, against `ijkplayer.h:103`).
- After completion, seek, start, no audio is rendered: `recv_eof` stays set
  (`ff_ffplay.c:4303`, against `ijkplayer.h:112-113`).
- `read_thread` forgets a resume asked for by a start from the beginning
  (`ff_ffplay.c:4137`, against `ijkplayer.h:113`). `OnlyClearStrands` is the
  positive side: nothing else does.
- A seek after an I/O error leaves a started player paused. This came out of the
  attempt to prove `OnlyClearStrands`, and is now its second exception.
- A track that is opened while none is open plays from the queue of the track
  that was open before (`is->audioq`), and `sync_multi_audiotrack` takes the
  flush markers out of that queue (`ff_ffplay.c:375`, 4385, 5803-5811): frames of
  before the seek are played. This came out of the attempt to prove
  `NothingStalePlayed`; TLC found the same with two tracks, one seek and two
  switches.
- A pause takes COMPLETED to PAUSED (`ijkplayer.c:783`, against `ijkplayer.h:114`);
  `FFP_MSG_ERROR` has no case in `ijkmp_get_msg` (`ijkplayer.h:71`, `:93`).
- Without video the single step after a seek (`ff_ffplay.c:4225`) is never over,
  so that the audio callback returns at line 2729 without a frame.
- A change of the resolution makes a new format only if both width and height
  differ, though the option is to handle it automatically
  (`ff_ffplay_options.h:195`).
- `recreate_format_l` overwrites `input_aformat` without deleting it; when it
  fails, the local reference of the new surface is not given back, and a failing
  `create_codec_l` leaves a NULL codec that is used (`CodecObject` takes it to
  succeed).
- A picture that needs other buffers of its window is lost once: the window is
  given the new geometry, but the copy is that of the old format
  (`SettlesAtOnce` says that the next one is shown).
- The threshold 'if pause more than 1 second' (`ff_ffplay.c:3688-3691`) is a
  million of milliseconds.

## 4. Proofs

TLC checks small instances; the theorems below hold for every value of the
constants that satisfies the assumptions, which give the constants their types:
`QueueAssumption`, `PlayerAssumption`, `PacketBufferingAssumption`,
`StreamsAssumption`, `RingAssumption`, `AsyncAssumption`, `ManagerAssumption`
(finitely many contexts), `NodeAssumption` (no proxy is none) and
`PlayersAssumption` (there is a player). TLC evaluates each in a run. Every
inductive invariant was checked by TLC before it was proved.

| Module | Theorem | Property of a run |
|---|---|---|
| `MsgQueueProofs` | `TypeCorrect`, `OwnedOnce`, `WakeupNeverLost`, `ObjectsKept` | `TypeOK`, `ObjOwnedOnce`, `NoLostWakeup`, `LostOnlyWhenRefused` (of `NoObjectLost`) |
| `IjkPlayerProofs` | `PauseNeverStuck`, `PauseOnRecord`, `NewestSeekReported` | `NoStuckPause`, `PausedIsHeld`, `SeekAgrees` |
| | `StopFinal`, `StartedIsNotStranded`, `TypeCorrect` | `StopIsFinal`, `OnlyClearStrands`, types |
| `StreamsProofs` | `SerialsTold`, `NothingStale`, `ActiveTrack`, `OnlySwitchBreaksRing` | `SerialsTell`, `NothingStalePlayed`, `ActiveTrackPlayed`, `OnlyResetBreaksRing` |
| | `TypeCorrect`, `StreamsSafe`, `StreamsFresh` | types, the wiring, the freshness of all that is queued |
| `AsyncIoProofs` | `RingSound`, `StreamImplemented` | `RingIsFile`, `ImplementsStream` |
| `IoManagerProofs` | `TasksApart`, `TypeCorrect` | `OneTask`, types |
| `MediaCodecNodeProofs` | `ReleasedOnce`, `NothingLost`, `TypeCorrect` | `ReleasedByOwner`, `NoBufferLost`, types |
| `LifecycleProofs` | `LifeIsSound` | `LifeSound` |
| | `PlayersNotFreed`, `StreamClosedOnce`, `ReleaseIsQuiet`, `RefsAlways` | its three parts, and the counting they rest on |

`CommonLemmas` holds what several proofs use: the least element of a set of
numbers, induction over a set of numbers, and how an index wraps around a ring.

**Message queue.** `ObjOwnedOnce` is not inductive: it does not say that two
pending messages have different stamps, nor that a message that owns an object
had one allocated. `Owned` adds both. `NoLostWakeup` is inductive together with
the types: a post wakes a sleeper, and a loop goes to sleep only when the queue
is empty. `ObjectsKept` goes through all that may own an object, the queue, the hands
of the loops and what was freed: an operation but a failing post moves an object
from one to the other, so that the set of the lost ones stays, and such a post adds
its own. `Owned` is needed there too: a message that is taken or removed is one, and
not another with the same stamp. The order of delivery is not a theorem of the
abstract queue, whose head is the least stamp by definition; that the list keeps it
is `ImplementsMsgQueue`.

**Player.** `ControlGood` is `NoStuckPause` with the types of the flags: every
step of every thread is a move of the control or leaves the flags alone, and
every move keeps a good control good. `StopInv` says that a stopped player is out
of reach of the requests: the loop is not in the middle of one, the queue is
aborted, a start that was dequeued before finds a state that does not allow it,
and the pause is on record with no resume waiting. `MutexInv` ties `mutex` to
where the application and the loop are. `LifeInv` says which states have a
`VideoState`, a running loop and a queue that is not aborted; `PreparedInv` that
PREPARED is sent once, before COMPLETED, and that a player that waits for its
start is held until then. With them `PausedInv` (no resume waits in a player that
says PAUSED) is inductive, which gives `PausedIsHeld`, and so is `SeekAgrees`.
`OnlyClearStrands` is about `Lost` players; `CompletedInv` says that the end of the
media, once noticed, is told, so that no step but the two that it excepts loses
one.

**Streams.** `Sound` is the wiring: types, which decoder works on which queue
(`Wired`), well-formed queues and rings, and frames where a reader may look.
Upon it stand `Feeding` (what `read_thread` may put where, in each of its steps),
`InLine` (the packet in the hand of a decoder comes before those in its queue),
`SerialsHeld` and `Fresh`: while the serials are told apart, every packet
(`QueuesFresh`), every decoder (`DecodersFresh`) and every frame (`FramesFresh`)
that bears the current serial of its queue is of the newest seek. The exceptions
of `NothingStalePlayed` were found by this proof. The indices of the rings need
arithmetic modulo the size of the ring (`Wrap`).

**Read-ahead.** `IInv` says where the ring, the task and the caller are in every
state of the request between them (`Asked`, `Filling`, `Ends`, `Answered`), that
the ring holds the file (`RingHeld`) and what the end of the file means
(`AtEnd`). For the refinement `Quiet` says what the abstract stream looks like
while no call is made; every step of `AsyncIo` is a step of `ByteStream` or
leaves its variables alone.

**Manager of the contexts.** `OneTask` counts; the invariant says the same with
indices: a task that waits in the queue of the pool is the only one of its context
(`WaitsAlone`), a context that is paused or closed has none (`NoneAtRest`). What
keeps it so is where the call of FFmpeg is: the context that is being opened is
closed, and not among those that are paused first (`OpensClosed`).

**MediaCodec.** `ReleasedByOwner` compares a proxy with the codec, but
`Release` compares serials only. The proxies in use are numbered (`Slot`): the one
in the hand of the output thread, that of the picture shown, those of the pictures
to show. `SerialKnown` ties the object serial to the life of the codec, with the
step between a flush and the new serial as exception; `Emptied` says that nothing
stands for a buffer at that step; `Owned` that a proxy with the serial of the
codec stands for a buffer that is out, in this life; `Apart` that no two proxies
stand for the same one. `MovedOn` is the lemma for every step that only moves,
forgets or releases proxies. For `NoBufferLost` the converse is needed: `Covered`,
every buffer that is out is in some proxy. It holds in `Calm` times, when nothing
is about to take the buffers back; with `Apart` the proxy is the only one. That
the decoder must work on the surface of the pipeline was found by this proof:
between the call that takes the surface away and the reconfiguration that answers
it, the output may learn of a codec on the surface before, whose buffers a second
call of `set_surface` forgets.

**Lifecycle.** What a thread has still to do is a stack on which calls put their
steps, so that a property of "every step" has to survive steps put in front. The
proof numbers a stack from the bottom (`Deep`): what is below stays where it is
(`Fronted`). `StacksOk` says that each step on a player is on one whose reference
the same thread gives up below (`Held`), or which it destroys below (`Dying`).
`Counted` says what a reference count is: the places of the stacks where a
reference is given up (`Owned`), and one for the object. Whoever brings it to zero
is therefore the only one left, and `Ends` says that a player is destroyed at one
place, when nobody refers to it; `PlayersUsed` and `ClosedByOne` follow. For a
reset they need `UiSteps`: between `takeWeak` and `setup` the object lets go of its
player, so that `setup` overwrites no reference. `ReleasedIsQuiet` adds `Whole`
(until it lets go, the object's global reference is the one the player has),
`HandsOn` (a reset hands it on) and `Quiet`, where `ClosesAbove` is the heart:
above a step that lets go of the player or of the reference there is one that
closes the stream and waits for its threads.

Model-checked only:

- What is said of `MsgQueueList`, whose traversals are recursive operators, which the
  prover cannot take in.
- `CompletedPlayedAll`: it needs that a finished serial leaves the codec empty,
  with the exceptions of the switches.
- `MarkFalls`, `ResumesInPlace`, `ReadsContinue`, `ReadsTrue` and the conjunctions
  `PlayerSound`, `StreamsSound`, `CacheSound`, `PositionsAgree`,
  `AndroidSound` and `PlaybackSound` of the components without a proof module.
  Next would be the order of the tasks in `ThreadPool` and the entries of
  `IoCache`.
- All liveness: the prover treats neither fairness nor ENABLED. Induction is
  available for recursive functions on numbers (`CommonLemmas`), not for recursive
  operators.

## 5. What is left out, and why

Components:

- iOS: Objective-C on UIKit, AVFoundation and VideoToolbox, whose callbacks decide
  most of what happens; the player beneath them is the one modelled here.
- Other protocols and demuxers: adapters that hand each call to one inner object,
  sequentially, without a retry or shared state.
- The renderers of iOS and the dummy output, and in `Display` the aspect ratio,
  gravity and arithmetic of the vertices; what a shader draws.
- Metadata: a locked dictionary of strings; each operation is one critical section
  that copies. cJSON and the JNI bindings are vendored and generated code.
- The manager of the content keys in Java and Objective-C: requests to the
  platform. `CodecObject` takes it as a session that is there, comes later, or has
  no crypto to give.
- Bandwidth meters: a weighted percentile; `Abr` takes any bandwidth.

Within the modules:

- `MsgQueue` takes the memory for an object (`msg_queue_put_simple4`) to be there;
  that for a node may be missing. `IoCache` looks up the tree in one step: a tree that
  is freed during the search is not modelled.
- `IjkPlayer` has one stream; several are in `Streams`. `seek_at_start` and
  attached pictures are not modelled. Opening is one step with an outcome there,
  and is modelled in `Opening`. Messages that only inform the application are
  left out.
- `AudioPath` leaves out SoundTouch, `Clocks` `check_external_clock_speed` (real-
  time sources with an external master only), `Streams` the marker of a
  discontinuity (`ff_ffplay.c:4388`).
- `Las` leaves out the parsing of the manifest and the formulas of the speed
  estimate; a connection has the speed that the model chooses.
- `MediaCodecNode` and `SyncDecoder` leave out adaptive playback without a new
  codec; changes of the resolution and DRM are in `CodecObject`, where a packet is
  converted without an error and memory is never short. MediaCodec, AudioTrack, OpenSL ES and
  FFmpeg are modelled by what they may answer.
- The byte ring of `IjkUtil` is modelled although the player does not use it at present.
