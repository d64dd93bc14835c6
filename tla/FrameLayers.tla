---- MODULE FrameLayers ----
(***************************************************************************)
(* FrameBufferLayer (fbl.cpp): a dispmanx layer with two GPU resources,    *)
(* shown either directly or, when the layer uses the shader, through an    *)
(* OpenGL surface.  The methods are operators from the record of a layer   *)
(* to its next record; the kernel's circle_*_fbl calls apply them to its   *)
(* layers, always from the core that runs the emulator.  A picture, a      *)
(* palette and a geometry are small numbers, 0 standing for "none";        *)
(* "fault" records a failed assertion, or a call on a GPU object that does *)
(* not exist.  Only indexed layers are modelled.                           *)
(***************************************************************************)
EXTENDS Integers

CONSTANTS Pictures, Palettes, Geometries

ASSUME NumbersAssumption ==
  /\ Pictures \subseteq Nat \ {0} /\ Pictures # {}
  /\ Palettes \subseteq Nat \ {0} /\ 1 \in Palettes
  /\ Geometries \subseteq Nat \ {0} /\ 1 \in Geometries

None == 0

FrameBufferLayer ==
  [allocated : BOOLEAN, showing : BOOLEAN, fault : BOOLEAN,
   pixels : Pictures \cup {None},                    \* what the owner has drawn
   pal : Palettes,
   src : Geometries, stretch : Geometries, dst : Geometries,
   rnum : 0 .. 1,                                    \* the visible resource
   resource : [0 .. 1 -> Pictures \cup {None}],
   committed : Palettes \cup {None},                 \* palette of both resources
   shader : BOOLEAN, init : BOOLEAN, crop : BOOLEAN,
   surface : BOOLEAN,
   back : Pictures \cup {None}, front : Pictures \cup {None},
   texture : Geometries \cup {None, -1},             \* what it is sized for
   texPal : Palettes \cup {None},
   quad : Geometries \cup {None}]                    \* where the shader draws

\* The constructor.
NewLayer ==
  [allocated |-> FALSE, showing |-> FALSE, fault |-> FALSE, pixels |-> None,
   pal |-> 1, src |-> 1, stretch |-> 1, dst |-> 1, rnum |-> 0,
   resource |-> [i \in 0 .. 1 |-> None], committed |-> None,
   shader |-> FALSE, init |-> FALSE, crop |-> TRUE, surface |-> FALSE,
   back |-> None, front |-> None, texture |-> None, texPal |-> None,
   quad |-> None]

Assert(f, condition) == IF condition THEN f ELSE [f EXCEPT !.fault = TRUE]

\* The size of the texture: the cut-out if the processor crops, else -1, the
\* whole buffer.
TextureSize(f) == IF f.crop THEN f.src ELSE -1

CreateTexture(f) == [f EXCEPT !.texture = TextureSize(f)]

ShaderInit(f) ==
  IF f.init THEN f
  ELSE [CreateTexture(f) EXCEPT !.init = TRUE, !.texPal = f.pal]

\* The vertices follow the destination at every Show.
ShaderUpdate(f) == [f EXCEPT !.quad = f.dst]

ShaderDestroy(f) ==
  [f EXCEPT !.init = FALSE, !.texture = None, !.texPal = None,
            !.quad = None]

\* Draws the pixels, if they fit the texture, into the back buffer.  A layer
\* that has no surface draws nowhere, with or without a program.
RenderGL(f) ==
  [Assert(f, f.init \/ ~f.surface) EXCEPT
     !.back = IF f.texture = TextureSize(f) THEN f.pixels ELSE None]

\* Swapping the buffers does nothing when there is no surface.
SwapGL(f) ==
  IF f.surface THEN [f EXCEPT !.front = f.back, !.back = None] ELSE f

Swap(f) == IF f.shader \/ ~f.showing THEN f ELSE [f EXCEPT !.rnum = 1 - @]

\* Mutant: the picture goes to the visible resource when the next swap hides it.
FrameReadyOnScreen(f, offscreen) ==
  IF f.shader THEN RenderGL(f)
  ELSE [Assert(f, f.allocated) EXCEPT !.resource[f.rnum] = f.pixels]

FrameReady(f, offscreen) ==
  LET rnum == IF offscreen THEN 1 - f.rnum ELSE f.rnum
  IN  IF f.shader THEN RenderGL(f)
      ELSE [Assert(f, f.allocated) EXCEPT !.resource[rnum] = f.pixels]

UpdatePalette(f) ==
  LET g == [f EXCEPT !.committed = f.pal]
  IN  CASE ~f.allocated -> f
        [] f.allocated /\ f.shader /\ f.init ->
             SwapGL(RenderGL([g EXCEPT !.texPal = f.pal]))
        [] OTHER -> g

SetPalette(f, p) == [f EXCEPT !.pal = p]

Hide(f) ==
  IF f.showing
  THEN [f EXCEPT !.showing = FALSE, !.surface = FALSE, !.front = None]
  ELSE f

\* Show places the layer by the geometry set since it was last shown, adds the
\* element with resource 0 and fills that resource.  The source rectangle, the
\* clamping and the alignments are folded into "stretch".
Show(f) ==
  LET placed  == [Assert(f, f.allocated) EXCEPT !.dst = f.stretch, !.rnum = 0]
      surface == [ShaderUpdate(ShaderInit(placed)) EXCEPT !.surface = TRUE, !.back = None]
      element == IF f.shader THEN surface ELSE placed
      filled  == FrameReady(UpdatePalette(element), FALSE)
  IN  IF f.showing THEN f ELSE SwapGL([filled EXCEPT !.showing = TRUE])

Allocate(f, newPixels) ==
  LET g == [Assert(f, ~f.allocated) EXCEPT
              !.allocated = TRUE, !.resource = [i \in 0 .. 1 |-> None],
              !.committed = None]
  IN  IF newPixels THEN [g EXCEPT !.pixels = None, !.src = 1, !.dst = 1] ELSE g

FreeInternal(f, keepPixels) ==
  LET g == Hide(IF f.shader THEN ShaderDestroy(f) ELSE f)
      h == [g EXCEPT !.allocated = FALSE, !.committed = None,
                     !.resource = [i \in 0 .. 1 |-> None]]
  IN  IF ~f.allocated THEN f
      ELSE IF keepPixels THEN h ELSE [h EXCEPT !.pixels = None]

SetUsesShader(f, enabled) == [Assert(f, ~f.allocated) EXCEPT !.shader = enabled]

\* Mutant: the flag is changed without freeing the layer's resources.
ReAllocateInPlace(f, enable) ==
  IF f.shader = enable THEN Assert(f, f.allocated) ELSE SetUsesShader(f, enable)

ReAllocate(f, enable) ==
  LET g == Assert(f, f.allocated)
  IN  IF f.shader = enable THEN g
      ELSE Allocate(SetUsesShader(FreeInternal(g, TRUE), enable), FALSE)

SetShaderParams(f, curvature) ==
  Hide([(IF f.shader THEN ShaderDestroy(f) ELSE f) EXCEPT !.crop = curvature])

\* Mutant: the texture keeps the size of the cut-out before.
SetSrcRectOnly(f, src) == [f EXCEPT !.src = src]

SetSrcRect(f, src) ==
  LET g == [f EXCEPT !.src = src]
  IN  IF src # f.src /\ f.crop /\ f.init THEN CreateTexture(g) ELSE g

SetStretch(f, stretch) == [f EXCEPT !.stretch = stretch]

\* SwapResources: the first layer's GL buffers are swapped always, the
\* resources of both only if the caller syncs.
WillSync(first, second) ==
  \A f \in {first} \cup second : ~f.shader /\ f.showing

\* The number of vertical blanks that the swap waits for.
\* Mutant: the dispmanx update is trusted to wait always.
WaitsForDispmanx(first, second, sync) ==
  IF sync /\ \E f \in {first} \cup second : Swap(f) # f THEN 1 ELSE 0

Waits(first, second, sync) ==
  IF ~sync THEN 0
  ELSE (IF ~WillSync(first, second) /\ first.surface THEN 1 ELSE 0)
       + (IF \E f \in {first} \cup second : Swap(f) # f THEN 1 ELSE 0)

\* circle_frames_ready_fbl for one of its layers.
Present(f, isFirst, sync) ==
  LET g == FrameReady(f, sync)
      h == IF isFirst THEN SwapGL(g) ELSE g
  IN  IF sync THEN Swap(h) ELSE h

\* What a viewer sees of a layer.
Visible(f) ==
  CASE ~f.showing -> None
    [] f.showing /\ f.shader -> f.front
    [] OTHER -> f.resource[f.rnum]
VisiblePalette(f) == IF f.shader THEN f.texPal ELSE f.committed
====
