------------------------------ MODULE Display ------------------------------
(***************************************************************************)
(* How a picture gets from the decoder to the screen of Android: the       *)
(* overlays in the slots of the picture queue (alloc_picture,              *)
(* ijksdl_vout_overlay_ffmpeg.c and ..._overlay_android_mediacodec.c), the *)
(* video output (ijksdl_vout_android_nativewindow.c), which draws with     *)
(* OpenGL (ijksdl_egl.c, gles2/) or copies into the buffer of the window   *)
(* (android_nativewindow.c), and the application that changes the window.  *)
(*                                                                         *)
(* The decoder fills overlays without the mutex of the video output; the   *)
(* render thread holds it for as long as it displays one, and the          *)
(* application takes it to change the window.  Windows, their buffers, EGL *)
(* and OpenGL are external: a context is a number, what a picture shows is *)
(* the number of its frame, a plane is the component that it holds.        *)
(***************************************************************************)
EXTENDS Integers, Sequences, FiniteSets

CONSTANTS
  Windows, NoWindow,
  Geometries,   \* the buffers that a window may have when it is new
  RingSize,     \* the size of the picture queue
  Plays         \* what is played: overlay_format, the frames, and how often
                \* the window changes (moves) and a call fails (faults)

VARIABLES
  play,      \* one of Plays, with what is left of its budgets
  window,    \* SDL_Vout_Opaque.native_window
  refs,      \* references to each window that the native code holds
  geometry,  \* the buffers that each window gives
  egl,       \* IJK_EGL and its renderer
  gl,        \* of the driver: contexts made, the current one, its objects
  slots,     \* the overlays of the picture queue
  ring,      \* rindex, windex, size, rindex_shown
  dec, render, app,   \* the threads
  returned,  \* how often the proxy of each frame went back
  shown      \* the last picture that reached the screen

vars == <<play, window, refs, geometry, egl, gl, slots, ring, dec, render, app,
          returned, shown>>

Min2(a, b)  == IF a < b THEN a ELSE b
Align(n, a) == ((n + a - 1) \div a) * a

-----------------------------------------------------------------------------
\* Overlays.

NoOverlay == [format |-> "none"]
Slots     == 0..(RingSize - 1)
Frame(i)  == play.frames[i]

Planar   == {"YV12", "I420", "I444"}
YUV      == <<"Y", "U", "V">>
Swap(s)  == <<s[1], s[3], s[2]>>
Planes(format) == IF format \in Planar THEN 3 ELSE 1

\* The format that SDL_VoutFFmpeg_CreateOverlay and func_create_overlay_l
\* choose for frames of a kind.
OverlayFormat(pix) ==
  CASE pix = "mediacodec"                        -> "AMC"
    [] pix = "yuv444p10" /\ play.format = "GLES2" -> "I444"
    [] pix # "yuv444p10" /\ play.format = "GLES2" -> "YV12"
    [] OTHER                                     -> play.format

BytesPerPixel(format) ==
  CASE format \in {"YV12", "I420"} -> 1 [] format \in {"I444", "RV16"} -> 2
    [] format = "RV24" -> 3             [] format = "RV32" -> 4

\* av_image_fill_arrays for the width that SDL_VoutFFmpeg_CreateOverlay aligns.
Pitch(format, w) ==
  BytesPerPixel(format)
    * Align(w, CASE format = "RV16" -> 8 [] format = "RV32" -> 4 [] OTHER -> 16)
Pitches(format, w) ==
  CASE format \in {"YV12", "I420"} ->
         <<Pitch(format, w), Pitch(format, w) \div 2, Pitch(format, w) \div 2>>
    [] format = "I444" -> [i \in 1..3 |-> Pitch(format, w)]
    [] OTHER           -> <<Pitch(format, w)>>

\* SDL_VoutFFmpeg_CreateOverlay, SDL_VoutAMediaCodec_CreateOverlay: the pixels
\* of a new overlay are NULL (buffer "none").
CreateOverlay(f) ==
  LET format == OverlayFormat(f.pix)
  IN  [format |-> format, w |-> f.w, h |-> f.h, pix |-> f.pix,
       buffer |-> "none", frame |-> 0, planes |-> <<>>, proxy |-> 0,
       pitches |-> IF format = "AMC" THEN <<>> ELSE Pitches(format, f.w)]

\* func_fill_frame links the frame of the decoder if its format is that of the
\* overlay, otherwise it converts into a buffer of its own.
Linked(o, pix) ==
  \/ o.format \in {"YV12", "I420"} /\ pix \in {"yuv420p", "yuvj420p"}
  \/ o.format = "I444" /\ pix = "yuv444p10"

\* Mutant: the planes of a converted picture are not swapped.
FilledPlanesUnswapped(o, pix) ==
  IF o.format \notin Planar THEN <<"RGB">>
  ELSE IF o.format = "YV12" /\ Linked(o, pix) THEN Swap(YUV) ELSE YUV

\* What each of overlay->pixels holds: a link swaps the pointers; a conversion
\* is given them swapped, and writes U where the third one points.
FilledPlanes(o, pix) ==
  LET data == IF o.format = "YV12" THEN Swap(<<1, 2, 3>>) ELSE <<1, 2, 3>>
  IN  IF o.format \notin Planar THEN <<"RGB">>
      ELSE IF Linked(o, pix)
      THEN IF o.format = "YV12" THEN Swap(YUV) ELSE YUV
      ELSE [i \in 1..3 |-> YUV[CHOOSE j \in 1..3 : data[j] = i]]

Filled(o, i) ==
  IF o.format = "AMC"
  THEN [o EXCEPT !.proxy = i, !.frame = i, !.w = Frame(i).w, !.h = Frame(i).h]
  ELSE [o EXCEPT !.frame  = i,
                 !.buffer = IF Linked(o, Frame(i).pix) THEN "linked" ELSE "managed",
                 !.planes = FilledPlanes(o, Frame(i).pix)]

-----------------------------------------------------------------------------
\* The context and its renderer.

NoRenderer == [format |-> "none"]
NewRenderer(format) ==
  [format |-> format, context |-> gl.current, w |-> 0, h |-> 0, buffer |-> 0,
   visible |-> 0, crop |-> 0]

Init ==
  /\ play \in Plays
  /\ window = NoWindow /\ refs = [w \in Windows |-> 0]
  /\ geometry \in [Windows -> Geometries]
  /\ egl = [window |-> NoWindow, context |-> 0, renderer |-> NoRenderer]
  /\ gl = [made |-> 0, current |-> 0, objects |-> 0, failed |-> FALSE]
  /\ slots = [i \in Slots |-> NoOverlay]
  /\ ring = [rindex |-> 0, windex |-> 0, size |-> 0, shown |-> 0]
  /\ dec = [pc |-> "take", frame |-> 1]
  /\ render = [pc |-> "idle", hal |-> "none", lost |-> 0, of |-> <<>>]
  /\ app = [pc |-> "idle", window |-> NoWindow]
  /\ returned = [i \in DOMAIN play.frames |-> 0]
  /\ shown = [frame |-> 0]

\* Nobody has the mutex of the video output: only a display holds it for more
\* than one step.
Unlocked == render.pc = "idle"
RenderTo(pc) == render' = [render EXCEPT !.pc = pc]

Faulty == play.faults > 0
Fault  == play' = [play EXCEPT !.faults = @ - 1]

\* IJK_EGL_isValid: display, surface and context come and go together.
Valid == egl.window # NoWindow /\ egl.context # 0

\* IJK_EGL_terminate; the window that it forgets nothing of is only compared.
\* The objects of a context, deleted or not, end with it.
Terminated(e) ==
  IF Valid THEN [e EXCEPT !.context = 0, !.renderer = NoRenderer] ELSE e
WithoutContext ==
  IF Valid THEN [gl EXCEPT !.current = 0, !.objects = 0, !.failed = FALSE] ELSE gl
Terminate == egl' = Terminated(egl) /\ gl' = WithoutContext

-----------------------------------------------------------------------------
\* The decoder, queue_picture.

\* SDL_VoutAndroid_releaseBufferProxy: a proxy that is there goes back.
GivesBack(o) ==
  returned' = IF o.format = "AMC" /\ o.proxy # 0
              THEN [returned EXCEPT ![o.proxy] = @ + 1] ELSE returned

Suits(o, f) == o.format # "none" /\ o.w = f.w /\ o.h = f.h /\ o.pix = f.pix

\* frame_queue_peek_writable
Take ==
  /\ dec.pc = "take" /\ dec.frame <= Len(play.frames) /\ ring.size < RingSize
  /\ dec' = [dec EXCEPT !.pc = IF Suits(slots[ring.windex], Frame(dec.frame))
                               THEN "fill" ELSE "alloc"]
  /\ UNCHANGED <<play, window, refs, geometry, egl, gl, slots, ring, render, app,
                 returned, shown>>

\* alloc_picture: the old overlay is freed, a new one made.
AllocPicture ==
  /\ dec.pc = "alloc" /\ Unlocked
  /\ GivesBack(slots[ring.windex])
  /\ slots' = [slots EXCEPT ![ring.windex] = CreateOverlay(Frame(dec.frame))]
  /\ dec' = [dec EXCEPT !.pc = "fill"]
  /\ UNCHANGED <<play, window, refs, geometry, egl, gl, ring, render, app, shown>>

\* func_fill_frame begins: the frame that was linked is let go, so that the
\* pixels point nowhere; a proxy that is still there goes back.
FillBegins ==
  /\ dec.pc = "fill"
  /\ LET o == slots[ring.windex]
     IN  /\ o.format = "AMC" => Unlocked
         /\ GivesBack(o)
         /\ slots' = [slots EXCEPT ![ring.windex] =
              IF o.format = "AMC" THEN [o EXCEPT !.proxy = 0]
              ELSE [o EXCEPT !.buffer = "none", !.frame = 0]]
  /\ dec' = [dec EXCEPT !.pc = "push"]
  /\ UNCHANGED <<play, window, refs, geometry, egl, gl, ring, render, app, shown>>

\* The rest of it, and frame_queue_push.
FillEnds ==
  /\ dec.pc = "push"
  /\ slots' = [slots EXCEPT ![ring.windex] = Filled(@, dec.frame)]
  /\ ring' = [ring EXCEPT !.windex = (@ + 1) % RingSize, !.size = @ + 1]
  /\ dec' = [pc |-> "take", frame |-> dec.frame + 1]
  /\ UNCHANGED <<play, window, refs, geometry, egl, gl, render, app, returned, shown>>

-----------------------------------------------------------------------------
\* The render thread.

Overlay == slots[ring.rindex]   \* frame_queue_peek_last

\* Mutant: the picture shown is let go before the next one is there.
CanAdvanceEarly == ring.size > 0

\* frame_queue_nb_remaining
CanAdvance == ring.size - ring.shown > 0

\* frame_queue_next: the first picture is only marked.
Advance ==
  /\ Unlocked /\ CanAdvance
  /\ IF ring.shown = 0
     THEN ring' = [ring EXCEPT !.shown = 1] /\ UNCHANGED <<slots, returned>>
     ELSE /\ GivesBack(Overlay)
          /\ slots' = [slots EXCEPT ![ring.rindex] =
                         IF @.format = "AMC" THEN [@ EXCEPT !.proxy = 0] ELSE @]
          /\ ring' = [ring EXCEPT !.rindex = (@ + 1) % RingSize, !.size = @ - 1]
  /\ UNCHANGED <<play, window, refs, geometry, egl, gl, dec, render, app, shown>>

\* func_display_overlay_l, as long as it chooses; video_refresh calls it for
\* every new picture and whenever force_refresh is set.
Drawable == ring.shown = 1 /\ Overlay.format # "none" /\ window # NoWindow
OnlyGles == {"RV24", "I420", "I444"}
UsesGles(o) ==
  o.format # "AMC" /\ (o.format \in OnlyGles \/ play.format = "GLES2")

\* A buffer of MediaCodec: the codec draws on the window, if the buffer is
\* still its own (SDL_VoutAndroid_releaseBufferProxy_l; CodecObject says when).
DisplayBuffer ==
  /\ Unlocked /\ Drawable /\ Overlay.format = "AMC"
  /\ Terminate
  /\ GivesBack(Overlay)
  /\ slots' = [slots EXCEPT ![ring.rindex].proxy = 0]
  /\ \/ UNCHANGED shown
     \/ /\ Overlay.proxy # 0
        /\ shown' = [frame |-> Overlay.frame, by |-> "codec", window |-> window,
                      context |-> egl'.context]
  /\ UNCHANGED <<play, window, refs, geometry, ring, dec, render, app>>

DisplayBegins ==
  /\ Unlocked /\ Drawable /\ Overlay.format # "AMC"
  /\ IF UsesGles(Overlay)
     THEN RenderTo("current") /\ UNCHANGED <<egl, gl>>
     ELSE RenderTo("geometry") /\ Terminate
  /\ UNCHANGED <<play, window, refs, geometry, slots, ring, dec, app, returned, shown>>

\* IJK_EGL_makeCurrent of the context that is there,
Cached == Valid /\ egl.window = window
MakeCurrent ==
  /\ render.pc = "current" /\ Cached
  /\ RenderTo("renderer")
  /\ gl' = [gl EXCEPT !.current = egl.context]
  /\ UNCHANGED <<play, window, refs, geometry, egl, slots, ring, dec, app, returned, shown>>

\* or of a new one, for the window.  Its height is taken to be its width.
NewGeometry ==
  [geometry EXCEPT ![window] = [hal |-> "8888", w |-> geometry[window].w,
                                h |-> geometry[window].w]]
MakeContext ==
  /\ render.pc = "current" /\ ~Cached
  /\ RenderTo("renderer")
  /\ geometry' = NewGeometry
  /\ egl' = [window |-> window, context |-> gl.made + 1, renderer |-> NoRenderer]
  /\ gl' = [made |-> gl.made + 1, current |-> gl.made + 1, objects |-> 0, failed |-> FALSE]
  /\ UNCHANGED <<play, window, refs, slots, ring, dec, app, returned, shown>>

\* A call of EGL fails: what was made so far is destroyed, the window is noted;
\* nothing becomes current.
CurrentFails ==
  /\ render.pc = "current" /\ Faulty /\ Fault
  /\ RenderTo("idle")
  /\ IF Cached THEN UNCHANGED <<egl, gl, geometry>>
     ELSE /\ egl' = [Terminated(egl) EXCEPT !.window = window]
          /\ gl' = WithoutContext
          /\ geometry' \in {geometry, NewGeometry}
  /\ UNCHANGED <<window, refs, slots, ring, dec, app, returned, shown>>

\* IJK_GLES2_Renderer_isValid and _isFormat
RightRenderer(format) == egl.renderer.format = format

\* Mutant: the old renderer is freed, but not what it has in the context.
ObjectsWithKept == gl.objects + 1

\* IJK_GLES2_Renderer_reset deletes the objects of the old renderer.
ObjectsWith == (IF egl.renderer = NoRenderer THEN gl.objects ELSE gl.objects - 1) + 1

\* IJK_EGL_prepareRenderer with the renderer of the format, its program and
\* its textures, and the buffers of the window as large as the picture.
Sized(o) == [geometry EXCEPT ![window].w = o.w, ![window].h = o.h]
RendererMade ==
  IF RightRenderer(Overlay.format) THEN UNCHANGED <<egl, gl>>
  ELSE /\ egl' = [egl EXCEPT !.renderer = NewRenderer(Overlay.format)]
       /\ gl' = [gl EXCEPT !.objects = ObjectsWith]
Prepare ==
  /\ render.pc = "renderer"
  /\ RenderTo("draw")
  /\ RendererMade
  /\ geometry' = Sized(Overlay)
  /\ UNCHANGED <<play, window, refs, slots, ring, dec, app, returned, shown>>

\* A shader or the program cannot be made, and those that could stay behind;
\* or the window refuses the size, which it is asked for again next time.
PrepareFails ==
  /\ render.pc = "renderer" /\ Faulty /\ Fault
  /\ RenderTo("leave")
  /\ \/ /\ ~RightRenderer(Overlay.format)
        /\ egl' = [egl EXCEPT !.renderer = NoRenderer]
        /\ gl' = [gl EXCEPT !.objects = ObjectsWith, !.failed = TRUE]
     \/ RendererMade
  /\ UNCHANGED <<window, refs, geometry, slots, ring, dec, app, returned, shown>>

\* func_uploadTexture: the first texture gets Y, the second U, the third V.
Textures(o) ==
  CASE o.format = "YV12" -> Swap(o.planes) [] OTHER -> o.planes

\* Mutant: the vertices are not loaded again when only the size has changed.
ReloadsOnce(r, o) == r.w = 0

\* IJK_GLES2_Renderer_renderOverlay: the vertices and the crop at the right
\* are loaded again when the picture has another size or its buffer another
\* width.
BufferWidth(o) == o.pitches[1] \div BytesPerPixel(o.format)
Reloads(r, o) ==
  \/ r.w # o.w \/ r.h # o.h
  \/ BufferWidth(o) > o.w /\ BufferWidth(o) # r.buffer /\ o.w # r.visible
Rendered(r, o) ==
  LET sized == [r EXCEPT !.w = o.w, !.h = o.h]
  IN  IF ~Reloads(r, o) THEN sized
      ELSE [sized EXCEPT !.buffer = BufferWidth(o), !.visible = o.w,
                         !.crop = BufferWidth(o) - o.w]

\* IJK_EGL_display_internal: the texture upload refuses an overlay of another
\* format than the renderer's.
Uploads(r, o) == r.format = o.format
Draw ==
  /\ render.pc = "draw"
  /\ RenderTo("leave")
  /\ IF Uploads(egl.renderer, Overlay)
     THEN LET r == Rendered(egl.renderer, Overlay)
          IN  /\ egl' = [egl EXCEPT !.renderer = r]
              /\ shown' = [frame |-> Overlay.frame, by |-> "gles", window |-> egl.window,
                           colours |-> Textures(Overlay), crop |-> r.crop]
     ELSE UNCHANGED <<egl, shown>>
  /\ UNCHANGED <<play, window, refs, geometry, gl, slots, ring, dec, app, returned>>

\* The end of IJK_EGL_display: no thread keeps the context.
Leave ==
  /\ render.pc = "leave"
  /\ RenderTo("idle") /\ gl' = [gl EXCEPT !.current = 0]
  /\ UNCHANGED <<play, window, refs, geometry, egl, slots, ring, dec, app, returned, shown>>

-----------------------------------------------------------------------------
\* SDL_Android_NativeWindow_display_l.

\* g_hal_fcc_map
Hal(format)   == CASE format = "YV12" -> "YV12" [] format = "RV16" -> "565"
                   [] format = "RV32" -> "8888"
Known(hal)    == hal \in {"YV12", "565", "8888"}
BufferOf(o)   == [hal |-> Hal(o.format), w |-> Align(o.w, 2), h |-> Align(o.h, 2)]

\* Pictures for the same buffers of the same window that were lost in a row.
Kind == <<window, Overlay.format, Overlay.w, Overlay.h>>
Lose == IF render.of = Kind THEN render.lost + 1 ELSE 1

\* The buffers get the format of the overlay; if the window had a format that
\* the table does not know, the picture is lost.
SetGeometry ==
  /\ render.pc = "geometry"
  /\ LET hal == geometry[window].hal
     IN  /\ geometry' = IF hal = Hal(Overlay.format) THEN geometry
                        ELSE [geometry EXCEPT ![window] = BufferOf(Overlay)]
         /\ render' = IF Known(hal) THEN [render EXCEPT !.pc = "copy", !.hal = hal]
                      ELSE [render EXCEPT !.pc = "idle", !.of = Kind, !.lost = Lose]
  /\ UNCHANGED <<play, window, refs, egl, gl, slots, ring, dec, app, returned, shown>>

\* ANativeWindow_setBuffersGeometry, ANativeWindow_lock or
\* ANativeWindow_unlockAndPost fails.
CopyFails ==
  /\ render.pc \in {"geometry", "copy"} /\ Faulty /\ Fault
  /\ RenderTo("idle")
  /\ UNCHANGED <<window, refs, geometry, egl, gl, slots, ring, dec, app, returned, shown>>

\* The buffer is locked, filled by the function for the format that the window
\* had before, and posted.  That function does nothing for other overlays.
SameBuffer(o) == geometry[window].w = BufferOf(o).w /\ geometry[window].h = BufferOf(o).h
Copies(o)     == SameBuffer(o) /\ render.hal = Hal(o.format)
Copy ==
  /\ render.pc = "copy"
  /\ geometry' = IF SameBuffer(Overlay) THEN geometry
                 ELSE [geometry EXCEPT ![window] = BufferOf(Overlay)]
  /\ IF Copies(Overlay)
     THEN /\ render' = [render EXCEPT !.pc = "idle", !.of = Kind, !.lost = 0]
          /\ shown' = [frame |-> Overlay.frame, by |-> "copy", window |-> window,
                       colours |-> Overlay.planes, crop |-> 0]
     ELSE /\ render' = [render EXCEPT !.pc = "idle", !.of = Kind, !.lost = Lose]
          /\ UNCHANGED shown
  /\ UNCHANGED <<play, window, refs, egl, gl, slots, ring, dec, app, returned>>

\* Where android_render_yv12_on_yv12 and android_render_rgb_on_rgb read and
\* write: for each plane its offset, length of a line, lines and bytes.
Plane(offset, line, lines) == [offset |-> offset, line |-> line, lines |-> lines]
Stride(buffer) == Align(buffer.w, 16)
BufferPlanes(o, buffer) ==
  LET s == Stride(buffer)  c == Align(s \div 2, 16)
      lines == Min2(buffer.h, o.h)
  IN  IF o.format = "YV12"
      THEN <<Plane(0, s, lines), Plane(s * buffer.h, c, lines \div 2),
             Plane(s * buffer.h + (c * buffer.h) \div 2, c, lines \div 2)>>
      ELSE <<Plane(0, s * BytesPerPixel(o.format), lines)>>
BufferSize(o, buffer) ==
  LET s == Stride(buffer)
  IN  IF o.format = "YV12"
      THEN s * buffer.h + Align(s \div 2, 16) * buffer.h
      ELSE s * buffer.h * BytesPerPixel(o.format)
PlaneLines(o, i) == IF o.format = "YV12" /\ i > 1 THEN (o.h + 1) \div 2 ELSE o.h
Last(plane, bytes) ==
  IF plane.lines = 0 THEN plane.offset
  ELSE plane.offset + (plane.lines - 1) * plane.line + bytes

-----------------------------------------------------------------------------
\* The application.

\* SDL_VoutAndroid_SetAndroidSurface: ANativeWindow_fromSurface refers to the
\* window, or fails.
SetSurface(w) ==
  /\ app.pc = "idle" /\ play.moves > 0
  /\ play' = [play EXCEPT !.moves = @ - 1]
  /\ app' = [pc |-> "set", window |-> w]
  /\ refs' = IF w = NoWindow THEN refs ELSE [refs EXCEPT ![w] = @ + 1]
  /\ UNCHANGED <<window, geometry, egl, gl, slots, ring, dec, render, returned, shown>>

\* ANativeWindow_release of the old window, ANativeWindow_acquire of the new.
Traded(w) ==
  [x \in Windows |-> refs[x] + (IF x = w THEN 1 ELSE 0) - (IF x = window THEN 1 ELSE 0)]

\* Mutant: the context outlives its window.
LeavesWindowOpen == UNCHANGED <<egl, gl>>

LeavesWindow == Terminate

\* SDL_VoutAndroid_SetNativeWindow_l; that it invalidates the proxies is left
\* to DisplayBuffer.
SetNativeWindow ==
  /\ app.pc = "set" /\ Unlocked
  /\ app' = [app EXCEPT !.pc = "release"]
  /\ IF window = app.window THEN UNCHANGED <<window, refs, egl, gl>>
     ELSE LeavesWindow /\ refs' = Traded(app.window) /\ window' = app.window
  /\ UNCHANGED <<play, geometry, slots, ring, dec, render, returned, shown>>

ReleaseLocal ==
  /\ app.pc = "release"
  /\ app' = [pc |-> "idle", window |-> NoWindow]
  /\ refs' = IF app.window = NoWindow THEN refs ELSE [refs EXCEPT ![app.window] = @ - 1]
  /\ UNCHANGED <<play, window, geometry, egl, gl, slots, ring, dec, render, returned, shown>>

\* stream_close, whose threads have ended, frees the pictures; func_free_l
\* then the window and the context.
Free ==
  /\ dec.pc = "take" /\ Unlocked /\ app.pc = "idle"
  /\ returned' = [i \in DOMAIN returned |->
       returned[i] + Cardinality({s \in Slots : slots[s].format = "AMC" /\ slots[s].proxy = i})]
  /\ slots' = [i \in Slots |-> NoOverlay]
  /\ refs' = Traded(NoWindow) /\ window' = NoWindow
  /\ Terminate
  /\ dec' = [dec EXCEPT !.pc = "freed"] /\ app' = [app EXCEPT !.pc = "freed"]
  /\ RenderTo("freed")
  /\ UNCHANGED <<play, geometry, ring, shown>>

Next ==
  \/ Take \/ AllocPicture \/ FillBegins \/ FillEnds
  \/ Advance \/ DisplayBuffer \/ DisplayBegins
  \/ MakeCurrent \/ MakeContext \/ CurrentFails \/ Prepare \/ PrepareFails \/ Draw \/ Leave
  \/ SetGeometry \/ Copy \/ CopyFails
  \/ \E w \in Windows \cup {NoWindow} : SetSurface(w)
  \/ SetNativeWindow \/ ReleaseLocal \/ Free

Spec == Init /\ [][Next]_vars

-----------------------------------------------------------------------------
\* The type of the state.
TypeOK ==
  /\ window \in Windows \cup {NoWindow} /\ refs \in [Windows -> 0..3]
  /\ egl.window \in Windows \cup {NoWindow} /\ egl.context \in 0..gl.made
  /\ gl.current \in 0..gl.made /\ gl.objects \in Nat
  /\ ring.size \in 0..RingSize /\ ring.shown \in 0..1
  /\ DOMAIN slots = Slots

\* IJK_EGL (ijksdl_egl.c) draws on the window that the video output has, with
\* objects of the context that is current on the render thread: a surface and
\* its context end before the window is let go (SetNativeWindow_l), and no
\* thread keeps a context when the mutex is free, so that another may destroy
\* it (IJK_EGL_display).
ContextSound ==
  /\ egl.context # 0 => egl.window = window
  /\ egl.renderer # NoRenderer => egl.context # 0 /\ egl.renderer.context = egl.context
  /\ gl.current \in {0, egl.context}
  /\ render.pc \in {"idle", "current", "geometry", "copy", "freed"} => gl.current = 0
  /\ render.pc \in {"renderer", "draw", "leave"} => gl.current # 0
  /\ render.pc = "draw" => Uploads(egl.renderer, Overlay)

\* A context holds the shaders, the program and the textures of its one
\* renderer (IJK_EGL_prepareRenderer), unless one could not be made.
ObjectsCounted ==
  ~gl.failed => gl.objects = IF egl.renderer = NoRenderer THEN 0 ELSE 1

\* While the buffers of a window are locked by the CPU, or a codec draws on
\* it, EGL has no surface of it (func_display_overlay_l).
OneProducer ==
  /\ render.pc \in {"geometry", "copy"} => egl.context = 0
  /\ shown.frame # 0 /\ shown.by = "codec" => shown.context = 0

\* The window that the video output uses is referred to, once, and by the
\* application while it sets it (SDL_VoutAndroid_SetAndroidSurface).
WindowsCounted ==
  \A w \in Windows :
    refs[w] = (IF window = w THEN 1 ELSE 0)
              + (IF app.window = w /\ app.pc \in {"set", "release"} THEN 1 ELSE 0)

\* The overlay that is displayed, which takes no lock of the overlay, is not
\* the one that is freed or filled, and its pixels point to a buffer.
ReadsWhatIsFilled ==
  render.pc \notin {"idle", "freed"} =>
    /\ Overlay.format # "none" /\ Overlay.frame # 0
    /\ Overlay.buffer # "none"
    /\ dec.pc \in {"fill", "push", "alloc"} => ring.windex # ring.rindex

\* What is on the screen has its colours in their places and shows no padding.
ShownRight ==
  shown.frame # 0 /\ shown.by # "codec" =>
    LET f == Frame(shown.frame)  o == CreateOverlay(f)
    IN  /\ shown.colours = IF o.format \notin Planar THEN <<"RGB">>
                           ELSE IF shown.by = "gles" THEN YUV ELSE Swap(YUV)
        /\ shown.by = "gles" => shown.crop = BufferWidth(o) - f.w

\* The copy into the buffer of a window stays inside both, and has the whole of
\* the picture, but for the last line of the chroma of an odd height.
CopyInside ==
  render.pc = "copy" /\ Copies(Overlay) =>
    LET buffer == geometry[window]  to == BufferPlanes(Overlay, buffer)
    IN  /\ buffer.hal = Hal(Overlay.format)
        /\ \A i \in 1..Planes(Overlay.format) :
             LET bytes == Min2(to[i].line, Overlay.pitches[i])
             IN  /\ Last(to[i], bytes) <= IF i = Planes(Overlay.format)
                                          THEN BufferSize(Overlay, buffer)
                                          ELSE to[i + 1].offset
                 /\ to[i].lines \in (Overlay.h \div (IF i = 1 THEN 1 ELSE 2))..PlaneLines(Overlay, i)
                 /\ i = 1 => bytes >= Overlay.w * BytesPerPixel(Overlay.format)

\* A window that must change its buffers loses one picture, not two.
SettlesAtOnce == render.lost <= 1

\* Each proxy of a buffer of the codec that a picture had goes back once.
BuffersBack ==
  \A i \in DOMAIN play.frames :
    /\ returned[i] + Cardinality({s \in Slots : slots[s].format = "AMC" /\ slots[s].proxy = i})
         = IF Frame(i).pix = "mediacodec" /\ i < dec.frame THEN 1 ELSE 0

\* Nothing is left when the player is freed.
NothingLeft ==
  render.pc = "freed" => egl.context = 0 /\ \A w \in Windows : refs[w] = 0

DisplaySound ==
  /\ TypeOK /\ ContextSound /\ ObjectsCounted /\ OneProducer /\ WindowsCounted
  /\ ReadsWhatIsFilled /\ ShownRight /\ CopyInside /\ SettlesAtOnce /\ BuffersBack
  /\ NothingLeft
=============================================================================
