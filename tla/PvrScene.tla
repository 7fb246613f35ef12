------------------------------ MODULE PvrScene ------------------------------
(***************************************************************************)
(* libpvr on /dev/pvr: a program opens the device, lays out the video       *)
(* memory, loads textures, and draws scene after scene.  A scene's          *)
(* parameters are gathered in submit_buf, written to the tile accelerator   *)
(* at its end, and rendered from there; the program waits for the interrupt *)
(* at the end of the render.                                               *)
(*                                                                         *)
(* Lengths are in units of 32 bytes.  The program has one thread and is the *)
(* only one to draw; a signal may come while it sleeps.                     *)
(***************************************************************************)
EXTENDS PvrHeader, FiniteSetsExt, Sequences, SequencesExt

CONSTANTS
  Modes,      \* what pvr2fb may have programmed: FB_R_SIZE and FB_R_CTRL
  Textures,   \* textures a program may want: width, height, format
  Probes,     \* addresses at which the kernel may find room for a mapping
  MaxHeaders, \* bound: headers compiled
  DrawWith,   \* bound: headers compiled when a scene is drawn
  SubmitMax,  \* SUBMIT_MAX, 512 KB
  VertBuf,    \* SZ_VERTBUF, 1 MB
  Fallback    \* 0x8000 bytes into the vertex buffer

\* What is submitted at most fits the vertex buffer, with the background plane.
ASSUME PvrAssumption ==
  /\ SubmitMax \in Nat /\ VertBuf \in Nat /\ Fallback \in Nat
  /\ SubmitMax + 2 < VertBuf

VARIABLES
  abi,     \* the driver's struct pvr2_dc_info: "six" fields, or "eight" as here
  lib,     \* pvr_init: "off", "ready", "failed"; "dead" after a null pointer
  mode,    \* the display mode
  width,   \* pvr_screen_w
  height,  \* pvr_screen_h
  heap,    \* heap_ptr
  headers, \* compiled headers, with what they were compiled from
  pc,      \* where the program stands in a scene
  open,    \* g_lists_open
  closed,  \* g_lists_closed
  submit,  \* submit_buf: parameters, submit_len, and whether one was dropped
  ta,      \* what the tile accelerator took since it was last rewound
  bkg,     \* TA_VERTBUF_POS, and then where the background plane was put
  gpu,     \* "idle" or "busy" rendering
  ended,   \* in WAIT_RENDER: render_count differs from what was read
  vsync,   \* in WAIT_VSYNC: vsync_count differs from what was read
  missed,  \* history: WAIT_RENDER was called when the render was over
  intr     \* history: a signal ended the wait for the render that is running

deviceVars == <<abi, mode>>
libVars == <<lib, width, height>>
heapVars == <<heap, headers>>
listVars == <<open, closed, submit>>
gpuVars == <<ta, bkg, gpu>>
waitVars == <<ended, vsync, missed, intr>>
sceneVars == <<deviceVars, libVars, heapVars, pc, listVars, gpuVars, waitVars>>

\* The layout of the video memory, in bytes.
OFF_VERTBUF == 1024 * 1024
SZ_VERTBUF == 1024 * 1024
OFF_OPB == 2 * 1024 * 1024
OFF_REGION == OFF_OPB + 38 * 4096
TILEMAT_HDR == 72
OFF_TEXHEAP == 5 * 1024 * 1024
OPB_SIZE_OP == 64
OPB_OVERFLOW == 3

Lists == {OP_POLY, TR_POLY}
LISTS_ENABLED == {OP_POLY}

NoSubmit == [params |-> <<>>, len |-> 0, lost |-> FALSE]

SceneInit ==
  /\ abi \in {"six", "eight"} /\ mode \in Modes
  /\ lib = "off" /\ width = 640 /\ height = 480
  /\ heap = OFF_TEXHEAP /\ headers = <<>>
  /\ pc = "idle" /\ open = {} /\ closed = {} /\ submit = NoSubmit
  /\ ta = <<>> /\ bkg = 0 /\ gpu = "idle"
  /\ ended = FALSE /\ vsync = FALSE /\ missed = FALSE /\ intr = FALSE

-----------------------------------------------------------------------------
(* pvr_init and the memory.                                                *)

Screen(m) ==
  LET bpp == m.depth + 1
      w == ((m.x + 1) * 4) \div bpp
      h == m.y + 1
  IN  [w |-> IF w > 2048 THEN 640 ELSE w, h |-> IF h > 2048 THEN 480 ELSE h]

\* ta_reg_setup: the tile accelerator starts its buffers afresh.
TaRegSetup == ta' = <<>>

\* The ioctl numbers hold the size of the structure: a driver that has another
\* does not know INFO.  InitGPU does not look at the result.
PvrInit ==
  /\ lib = "off" /\ pc = "idle"
  /\ \/ abi = "six" /\ lib' = "failed" /\ UNCHANGED <<width, height, heapVars, ta, gpu>>
     \/ /\ abi = "eight" /\ lib' = "ready"
        /\ width' = Screen(mode).w /\ height' = Screen(mode).h
        /\ heap' = OFF_TEXHEAP /\ headers' = <<>>
        /\ gpu' = "idle"
        /\ TaRegSetup
  /\ UNCHANGED <<deviceVars, pc, listVars, bkg, waitVars>>

\* The program ends, by itself or as it stumbled.
PvrShutdown ==
  /\ lib \in {"ready", "dead"} /\ pc = "idle"
  /\ lib' = "off"
  /\ UNCHANGED <<deviceVars, width, height, heapVars, pc, listVars, gpuVars, waitVars>>

\* The bytes from a on, n of them.
Span(a, n) == [from |-> a, to |-> a + n]
Apart(s, t) == s.to <= t.from \/ t.to <= s.from

\* pvr_mem_malloc: the heap only grows, and nothing says when it ends.
Malloc(size) == heap' = heap + 32 * ((size + 31) \div 32)

MemAvailable == IF VramSize > heap THEN VramSize - heap ELSE 0

Mb16 == 16 * 1024 * 1024

\* The CPU's pointer to an offset of the heap: the memory is mapped at the first
\* multiple of 16 MB in the space that was found.
VramPtr(off, probe) == Mb16 * ((probe + Mb16 - 1) \div Mb16) + off

\* A texture is allocated and loaded, and the header for it compiled.
LoadTexture(t, list) ==
  /\ lib = "ready" /\ pc = "idle" /\ Len(headers) < MaxHeaders
  /\ Malloc(2 * t.width * t.height)
  /\ LET cxt == CxtTxr(list, t.format, t.width, t.height, heap, t.filter)
     IN  headers' = Append(headers,
           [cxt |-> cxt, hdr |-> PolyCompile(cxt), size |-> 2 * t.width * t.height,
            fits |-> 2 * t.width * t.height <= MemAvailable])
  /\ UNCHANGED <<deviceVars, libVars, pc, listVars, gpuVars, waitVars>>

\* A header for polygons in plain colours.
PlainHeader(list) ==
  /\ lib = "ready" /\ pc = "idle" /\ Len(headers) < MaxHeaders
  /\ headers' = Append(headers, [cxt |-> CxtCol(list), hdr |-> PolyCompile(CxtCol(list)),
                                 size |-> 0, fits |-> TRUE])
  /\ UNCHANGED <<deviceVars, libVars, heap, pc, listVars, gpuVars, waitVars>>

\* The object pointer blocks and the region array follow from the tiles.
Tiles == (width \div 32) * ((height + 31) \div 32)
OpbTotal == OPB_SIZE_OP * Tiles

FrameBuffer == Span(0, 2 * width * height)
VertexBuffer == Span(OFF_VERTBUF, SZ_VERTBUF)
ObjectBlocks == Span(OFF_OPB, OpbTotal * (1 + OPB_OVERFLOW))
RegionArray == Span(OFF_REGION, TILEMAT_HDR + 24 * (Tiles + 1))
Buffers == {FrameBuffer, VertexBuffer, ObjectBlocks, RegionArray}

\* pvr2fb's modes are of 640 by 512 pixels at most; textures are of the sizes, the
\* filters and the formats that a header can say.
Sides == {2^k : k \in 3..10}
ASSUME MemoryAssumption ==
  /\ \A m \in Modes : Screen(m).w \in 0..640 /\ Screen(m).h \in 0..512
  /\ \A t \in Textures : /\ t.width \in Sides /\ t.height \in Sides
                         /\ t.filter \in 0..3 /\ t.format \subseteq 26..30
  /\ Probes \subseteq Nat

-----------------------------------------------------------------------------
(* A scene.                                                                *)

\* The parameters: the end of a list and a header take one unit, a vertex with
\* its colours as floats two.
Size(p) == IF p.kind \in {"vertex", "eol"} THEN 2 ELSE 1
EndOfList == [kind |-> "end"]
Blank(list) == [kind |-> "header", list |-> list]

\* pvr_prim: what does not fit is dropped.
Prim(s, p) ==
  IF s.len + Size(p) > SubmitMax THEN [s EXCEPT !.lost = TRUE]
  ELSE [s EXCEPT !.params = Append(@, p), !.len = @ + Size(p)]

Prims(s, ps) ==
  LET sent[n \in 0..Len(ps)] == IF n = 0 THEN s ELSE Prim(sent[n - 1], ps[n])
  IN  sent[Len(ps)]

\* pvr_wait_ready, the first call of a frame: the counter is read.
WaitReady ==
  /\ lib \in {"ready", "failed"} /\ pc = "idle" /\ Len(headers) <= DrawWith
  /\ pc' = "vsync" /\ vsync' = FALSE
  /\ UNCHANGED <<deviceVars, libVars, heapVars, listVars, gpuVars, ended, missed, intr>>

\* The wait is over, by the interrupt or a signal: pvr_scene_begin.  Without the
\* registers mapped it is the program's end.
SceneBegin ==
  /\ pc = "vsync"
  /\ \/ /\ lib = "ready"
        /\ open' = {} /\ closed' = {} /\ submit' = NoSubmit
        /\ TaRegSetup
        /\ pc' = "scene" /\ UNCHANGED lib
     \/ lib = "failed" /\ lib' = "dead" /\ pc' = "idle" /\ UNCHANGED <<listVars, ta>>
  /\ vsync' = FALSE
  /\ UNCHANGED <<deviceVars, width, height, heapVars, bkg, gpu, ended, missed, intr>>

\* A program draws its lists in their order, each once.
ListBegin(list) ==
  /\ pc = "scene" /\ \A l \in closed : l < list
  /\ open' = {list} /\ pc' = "list"
  /\ UNCHANGED <<deviceVars, libVars, heapVars, closed, submit, gpuVars, waitVars>>

ListFinish ==
  /\ pc = "submitted"
  /\ submit' = Prim(submit, EndOfList)
  /\ closed' = closed \cup open /\ open' = {}
  /\ pc' = "scene"
  /\ UNCHANGED <<deviceVars, libVars, heapVars, gpuVars, waitVars>>

\* Fault: the list that was drawn is taken for one that was not.
BlanksOpen == LISTS_ENABLED \ open

\* The enabled lists that were not drawn.
Blanks == LISTS_ENABLED \ closed

\* pvr_scene_finish, first part: the blank lists, and the write of everything.
SceneFinish ==
  /\ pc = "scene"
  /\ LET s == IF Blanks = {} THEN submit
              ELSE Prims(submit, <<Blank(OP_POLY), EndOfList>>)
     IN  /\ ta' = ta \o s.params
         /\ submit' = [s EXCEPT !.params = <<>>, !.len = 0]
         /\ bkg' = s.len
  /\ pc' = "flushed"
  /\ UNCHANGED <<deviceVars, libVars, heapVars, open, closed, gpu, waitVars>>

\* setup_background_and_render: the plane goes where the tile accelerator
\* stopped writing, and the render is started.
Render ==
  /\ pc = "flushed"
  /\ bkg' = IF bkg <= VertBuf - 2 THEN bkg ELSE Fallback
  /\ gpu' = "busy"
  /\ intr' = (intr /\ gpu = "busy")
  /\ pc' = "started"
  /\ UNCHANGED <<deviceVars, libVars, heapVars, listVars, ta, ended, vsync, missed>>

\* The ioctl reads the counter, and sleeps until it differs.
WaitRender ==
  /\ pc = "started"
  /\ pc' = "wait" /\ ended' = FALSE
  /\ missed' = (gpu = "idle")
  /\ UNCHANGED <<deviceVars, libVars, heapVars, listVars, gpuVars, vsync, intr>>

\* The counter differs, and pvr_scene_finish returns.
WaitEnds ==
  /\ pc = "wait" /\ ended
  /\ pc' = "idle" /\ missed' = FALSE /\ ended' = FALSE
  /\ UNCHANGED <<deviceVars, libVars, heapVars, listVars, gpuVars, vsync, intr>>

\* A signal ends the sleep: the call is restarted, or returns an error that
\* libpvr ignores.
Signal ==
  \/ /\ pc = "wait" /\ ~ended
     /\ \/ pc' = "started" /\ UNCHANGED intr
        \/ pc' = "idle" /\ intr' = (gpu = "busy")
     /\ missed' = FALSE
     /\ UNCHANGED <<deviceVars, libVars, heapVars, listVars, gpuVars, ended, vsync>>
  \/ pc = "vsync" /\ ~vsync /\ SceneBegin

\* The wait for the vertical blank ends.
ReadyEnds == vsync /\ SceneBegin

-----------------------------------------------------------------------------
(* The hardware, and the driver's interrupt handlers.                      *)

\* Fault: the end of the render is not counted.
RenderEndUncounted ==
  /\ gpu = "busy"
  /\ gpu' = "idle" /\ intr' = FALSE
  /\ UNCHANGED <<deviceVars, libVars, heapVars, pc, listVars, ta, bkg, ended, vsync, missed>>

\* The end of the render is counted, and whoever waits wakes.
RenderEnd ==
  /\ gpu = "busy"
  /\ gpu' = "idle" /\ ended' = (pc = "wait") /\ intr' = FALSE
  /\ UNCHANGED <<deviceVars, libVars, heapVars, pc, listVars, ta, bkg, vsync, missed>>

\* So is the vertical blank.
Vsync ==
  /\ pc = "vsync" /\ ~vsync
  /\ vsync' = TRUE
  /\ UNCHANGED <<deviceVars, libVars, heapVars, pc, listVars, gpuVars, ended, missed, intr>>

\* What the program calls, but for ListFinish, which goes with the vertices' end.
LibStep == \/ PvrInit \/ PvrShutdown
           \/ \E t \in Textures, l \in Lists : LoadTexture(t, l)
           \/ \E l \in Lists : PlainHeader(l)
           \/ \E l \in Lists : ListBegin(l)
           \/ WaitReady \/ ReadyEnds \/ SceneFinish \/ Render
           \/ WaitRender \/ WaitEnds \/ Signal
Hardware == RenderEnd \/ Vsync

-----------------------------------------------------------------------------
(* Properties.                                                             *)

\* A texture that pvr_mem_available had room for.  The heap is in the 64-bit view:
\* every bank of the 32-bit view holds half of the texture.
InMemory(h) == h.cxt.textured /\ h.fits
Halves(h) == {Span(h.cxt.txr.base \div 2 + bank * (VramSize \div 2), h.size \div 2)
                : bank \in {0, 1}}

\* A header says to the hardware what its context says, and the low bits of the
\* CPU's pointer say the same address, as GLdc takes them to; the bytes of a texture
\* are its own: no other texture has them, nor the frame buffer, nor any of the
\* buffers of the tile accelerator and the renderer, which are apart as well.
TexturesIntact ==
  lib = "ready" =>
    /\ \A i \in DOMAIN headers : LET h == headers[i] IN
         /\ IsHeader(h.hdr)
         /\ ~h.cxt.textured \/ InMemory(h) => HeaderRead(h.hdr) = h.cxt
         /\ InMemory(h) =>
              /\ \A probe \in Probes :
                   VramPtr(h.cxt.txr.base, probe) % Mb16 = TextureRead(h.hdr).base
              /\ \A half \in Halves(h), b \in Buffers : Apart(half, b)
              /\ \A j \in DOMAIN headers \ {i} :
                   headers[j].cxt.textured =>
                     Apart(Span(h.cxt.txr.base, h.size),
                           Span(headers[j].cxt.txr.base, headers[j].size))
    /\ \A a, b \in Buffers : a # b => Apart(a, b)

\* The list that the k-th parameter belongs to.
ListAt(s, k) ==
  LET before == {j \in 1..k : s[j].kind = "header"}
  IN  IF before = {} THEN {} ELSE {s[Max(before)].list}

\* A scene that can be rendered: every list is closed, none twice, and the
\* opaque list, which is enabled, is there.
Whole(s) ==
  LET ends == {k \in DOMAIN s : s[k].kind = "end"}
  IN  /\ Len(s) \in ends
      /\ \A j, k \in ends : ListAt(s, j) = ListAt(s, k) => j = k
      /\ \E k \in ends : ListAt(s, k) = {OP_POLY}

\* The length of parameters.
Units(s) ==
  LET upto[n \in 0..Len(s)] == IF n = 0 THEN 0 ELSE upto[n - 1] + Size(s[n])
  IN  upto[Len(s)]

\* What a render reads, from its start to its end, is a whole scene, with the
\* background behind its last parameter; unless a parameter was dropped, or a
\* signal let the program go on before the render was over.
RenderReadsScene ==
  gpu = "busy" /\ ~intr /\ ~submit.lost =>
    /\ Whole(ta)
    /\ bkg >= Units(ta)

\* pvr_scene_finish returns, unless the render was over before the driver had
\* read the counter: then it waits for a render nobody has started.
FinishReturns == (pc = "wait") ~> (pc # "wait" \/ missed)
=============================================================================
