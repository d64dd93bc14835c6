---- MODULE FrameClientsProofs ----
(***************************************************************************)
(* Proofs about FrameClients: whatever order the frame, the menu, the      *)
(* quick functions and the overlay call the layers in, no call is illegal, *)
(* the clients' flags agree with the layers, and a viewer sees what was    *)
(* drawn last of exactly what is enabled.  The argument goes bottom up:    *)
(* each method of a layer (FrameLayers) keeps a layer "Good"; each         *)
(* operation of a client keeps "video" "Sound"; each step keeps Invariant. *)
(***************************************************************************)
EXTENDS FrameClients, TLAPS

\* The fields of FrameBufferLayer.
Fields == {"allocated", "showing", "fault", "pixels", "pal", "src", "stretch", "dst", "rnum",
           "resource", "committed", "shader", "init", "crop", "surface", "back", "front",
           "texture", "texPal", "quad"}

\* A record with the fields of a layer.
Shape(f) ==
  /\ DOMAIN f = Fields
  /\ f.rnum \in 0 .. 1
  /\ DOMAIN f.resource = 0 .. 1
  /\ f.allocated \in BOOLEAN /\ f.showing \in BOOLEAN /\ f.fault \in BOOLEAN
  /\ f.shader \in BOOLEAN /\ f.init \in BOOLEAN /\ f.crop \in BOOLEAN /\ f.surface \in BOOLEAN

\* Drawing into the back buffer fails no assertion where it is legal.
LEMMA RenderHolds ==
  ASSUME NEW f, Shape(f), ~f.fault, f.init \/ ~f.surface
  PROVE  RenderGL(f) = [f EXCEPT !.back = IF f.texture = TextureSize(f) THEN f.pixels ELSE None]
  BY DEF RenderGL, Assert

\* What each method of a layer preserves: no failed assertion; what is shown is
\* allocated; the surface exists exactly while a layer that uses the shader is
\* shown, and then its program is compiled, placed where the layer is and loaded
\* with its palette; a compiled program has the texture the pixels need.
Good(f) ==
  /\ Shape(f)
  /\ ~f.fault
  /\ f.showing => f.allocated
  /\ f.surface <=> f.showing /\ f.shader
  /\ f.init => f.allocated /\ f.shader /\ f.texture = TextureSize(f)
  /\ f.surface => f.init /\ f.quad = f.dst /\ f.texPal = f.pal
  /\ f.showing /\ ~f.shader => f.committed = f.pal

\* Hide.
LEMMA HideGood ==
  ASSUME NEW f, Good(f)
  PROVE  /\ Good(Hide(f)) /\ ~Hide(f).showing /\ Hide(f).allocated = f.allocated
         /\ Hide(f).shader = f.shader
  BY DEF Good, Shape, Fields, Hide, TextureSize

\* Swapping the buffers puts the back buffer on the screen.
LEMMA SwapGLGood ==
  ASSUME NEW f, Good(f)
  PROVE  LET g == SwapGL(f) IN
         /\ Good(g) /\ g.showing = f.showing /\ g.allocated = f.allocated
            /\ g.shader = f.shader
         /\ g.pixels = f.pixels
         /\ f.surface => g.front = f.back
<1> DEFINE g == [f EXCEPT !.front = f.back]
           h == [g EXCEPT !.back = None]
<1>1. Good(g) /\ g.showing = f.showing /\ g.allocated = f.allocated /\ g.shader = f.shader
      /\ g.pixels = f.pixels /\ g.front = f.back
  BY DEF Good, Shape, Fields, TextureSize
<1>2. SwapGL(f) = IF f.surface THEN h ELSE f
  BY DEF SwapGL
<1> HIDE DEF g
<1>3. Good(h) /\ h.showing = g.showing /\ h.allocated = g.allocated /\ h.shader = g.shader
      /\ h.pixels = g.pixels /\ h.front = g.front
  BY <1>1 DEF Good, Shape, Fields, TextureSize
<1> HIDE DEF h
<1>4. QED
  BY <1>1, <1>2, <1>3

\* SetPalette followed by UpdatePalette.
LEMMA SetPaletteGood ==
  ASSUME NEW f, Good(f), NEW p
  PROVE  LET g == UpdatePalette(SetPalette(f, p)) IN
         Good(g) /\ g.showing = f.showing /\ g.allocated = f.allocated /\ g.shader = f.shader
<1> DEFINE s == [f EXCEPT !.pal = p]
           t == [[s EXCEPT !.committed = s.pal] EXCEPT !.texPal = s.pal]
           g == UpdatePalette(s)
<1>1. CASE ~s.allocated
  BY <1>1 DEF Good, Shape, Fields, UpdatePalette, SetPalette, TextureSize
<1>2. CASE s.allocated /\ ~(s.shader /\ s.init)
  <2>1. g = [s EXCEPT !.committed = s.pal]
    BY <1>2 DEF UpdatePalette
  <2>2. QED
    BY <1>2, <2>1 DEF Good, Shape, Fields, SetPalette, TextureSize
<1>3. CASE s.allocated /\ s.shader /\ s.init
  <2>1. g = SwapGL(RenderGL(t))
    BY <1>3 DEF UpdatePalette
  <2>2. Good(t) /\ t.init /\ t.showing = f.showing /\ t.allocated = f.allocated
        /\ t.shader = f.shader
    BY <1>3 DEF Good, Shape, Fields, TextureSize
  <2> HIDE DEF t, s
  <2>3. RenderGL(t) = [t EXCEPT !.back = t.pixels]
    BY <2>2, RenderHolds DEF Good
  <2>4. Good(g) /\ g.showing = t.showing /\ g.allocated = t.allocated /\ g.shader = t.shader
    <3> DEFINE b == [t EXCEPT !.back = t.pixels]
    <3>1. Good(b) /\ b.showing = t.showing /\ b.allocated = t.allocated /\ b.shader = t.shader
      BY <2>2 DEF Good, Shape, Fields, TextureSize
    <3>2. g = SwapGL(b)
      BY <2>1, <2>3
    <3> HIDE DEF b, g
    <3>3. QED
      BY <3>1, <3>2, SwapGLGood
  <2>5. QED
    BY <2>2, <2>4 DEF SetPalette, s
<1>4. QED
  BY <1>1, <1>2, <1>3 DEF Good, Shape

\* SetSrcRect and SetStretch: the texture follows the cut-out.
LEMMA SetSrcRectGood ==
  ASSUME NEW f, Good(f), NEW s, NEW t
  PROVE  LET g == SetSrcRect(SetStretch(f, t), s) IN
         Good(g) /\ g.showing = f.showing /\ g.allocated = f.allocated /\ g.shader = f.shader
  BY DEF Good, Shape, Fields, SetSrcRect, SetStretch, CreateTexture, TextureSize

\* Show: a layer that was hidden shows what its owner has drawn.
LEMMA ShowGood ==
  ASSUME NEW f, Good(f), f.allocated
  PROVE  LET g == Show(f) IN
         /\ Good(g) /\ g.showing /\ g.allocated = f.allocated /\ g.shader = f.shader
         /\ g.pixels = f.pixels
         /\ ~f.showing => Visible(g) = g.pixels
<1> DEFINE placed  == [Assert(f, f.allocated) EXCEPT !.dst = f.stretch, !.rnum = 0]
      surface == [ShaderUpdate(ShaderInit(placed)) EXCEPT !.surface = TRUE, !.back = None]
      element == IF f.shader THEN surface ELSE placed
      filled  == FrameReady(UpdatePalette(element), FALSE)
<1> SUFFICES ASSUME ~f.showing
             PROVE  LET g == SwapGL([filled EXCEPT !.showing = TRUE]) IN
                    /\ Good(g) /\ g.showing /\ g.allocated = f.allocated
                       /\ g.shader = f.shader
                    /\ g.pixels = f.pixels /\ Visible(g) = g.pixels
  BY DEF Show, Good
<1>0. Assert(f, f.allocated) = f
  BY DEF Assert
<1>1. /\ Shape(placed) /\ ~placed.fault /\ placed.allocated /\ ~placed.showing
         /\ ~placed.surface
      /\ placed.rnum = 0 /\ placed.shader = f.shader /\ placed.pixels = f.pixels
      /\ placed.init => placed.shader /\ placed.texture = TextureSize(placed)
  <2> DEFINE p == [f EXCEPT !.dst = f.stretch]
  <2>1. /\ Shape(p) /\ ~p.fault /\ p.allocated /\ ~p.showing /\ ~p.surface
        /\ p.shader = f.shader /\ p.pixels = f.pixels
        /\ p.init => p.shader /\ p.texture = TextureSize(p)
    BY DEF Good, Shape, Fields, TextureSize
  <2>2. placed = [p EXCEPT !.rnum = 0]
    BY <1>0
  <2> HIDE DEF p, placed
  <2>3. DOMAIN placed = Fields /\ placed.rnum = 0 /\ DOMAIN placed.resource = 0 .. 1
    BY <2>1, <2>2 DEF Shape, Fields
  <2>4. /\ placed.allocated = p.allocated /\ placed.showing = p.showing
           /\ placed.fault = p.fault
        /\ placed.shader = p.shader /\ placed.init = p.init /\ placed.crop = p.crop
        /\ placed.surface = p.surface /\ placed.pixels = p.pixels
        /\ placed.texture = p.texture /\ placed.src = p.src
    BY <2>1, <2>2 DEF Shape, Fields
  <2>5. Shape(placed)
    BY <2>1, <2>3, <2>4 DEF Shape
  <2>6. placed.init => placed.shader /\ placed.texture = TextureSize(placed)
    BY <2>1, <2>4 DEF TextureSize
  <2>7. QED
    BY <2>1, <2>3, <2>4, <2>5, <2>6
<1> HIDE DEF placed
<1>2. CASE ~f.shader
  <2>1. element = placed
    BY <1>2
  <2>2. UpdatePalette(placed) = [placed EXCEPT !.committed = placed.pal]
    BY <1>1, <1>2 DEF UpdatePalette
  <2> DEFINE g == [placed EXCEPT !.committed = placed.pal]
  <2>3. Shape(g) /\ ~g.fault /\ g.allocated /\ ~g.showing /\ ~g.surface /\ ~g.shader
        /\ ~g.init /\ g.rnum = 0 /\ g.committed = g.pal
       /\ g.pixels = f.pixels
    BY <1>1, <1>2 DEF Shape, Fields
  <2> HIDE DEF g
  <2>4. filled = [g EXCEPT !.resource[0] = g.pixels]
    <3>1. Assert(g, g.allocated) = g
      BY <2>3 DEF Assert
    <3>2. QED
      BY <2>1, <2>2, <2>3, <3>1 DEF FrameReady, g
  <2> DEFINE h == [filled EXCEPT !.showing = TRUE]
  <2>5. /\ Shape(h) /\ ~h.fault /\ h.allocated /\ h.showing /\ ~h.surface /\ ~h.shader
           /\ ~h.init /\ h.rnum = 0 /\ h.committed = h.pal
        /\ h.pixels = f.pixels /\ h.resource[0] = h.pixels
    <3> DEFINE r == [g.resource EXCEPT ![0] = g.pixels]
    <3>1. DOMAIN r = 0 .. 1 /\ r[0] = g.pixels
      BY <2>3 DEF Shape
    <3> HIDE DEF r, filled
    <3>2. filled = [g EXCEPT !.resource = r]
      BY <2>4 DEF r
    <3>3. Shape(filled) /\ ~filled.fault /\ filled.allocated /\ ~filled.surface
          /\ ~filled.shader
          /\ ~filled.init /\ filled.rnum = 0 /\ filled.committed = filled.pal
          /\ filled.pixels = f.pixels /\ filled.resource[0] = filled.pixels
      BY <2>3, <3>1, <3>2 DEF Shape, Fields
    <3>4. QED
      BY <3>3 DEF Shape, Fields
  <2> HIDE DEF h, filled
  <2>6. SwapGL(h) = h
    BY <2>5 DEF SwapGL
  <2>7. QED
    BY <1>2, <2>5, <2>6 DEF Good, Shape, Visible, h
<1>3. CASE f.shader
  <2> DEFINE g == surface
  <2>0. g = [[ShaderInit(placed) EXCEPT !.quad = ShaderInit(placed).dst] EXCEPT !.surface = TRUE, !.back = None]
    BY DEF ShaderUpdate
  <2>1. /\ Shape(g) /\ ~g.fault /\ g.allocated /\ ~g.showing /\ g.surface /\ g.shader
           /\ g.init
        /\ g.pixels = f.pixels /\ g.quad = g.dst /\ g.texture = TextureSize(g)
    <3> DEFINE i == ShaderInit(placed)
    <3>1. /\ Shape(i) /\ ~i.fault /\ i.allocated /\ ~i.showing /\ i.shader /\ i.init
          /\ i.pixels = f.pixels /\ i.texture = TextureSize(i)
      BY <1>1, <1>3 DEF Shape, Fields, ShaderInit, CreateTexture, TextureSize
    <3> HIDE DEF i
    <3>2. g = [[i EXCEPT !.quad = i.dst] EXCEPT !.surface = TRUE, !.back = None]
      BY <2>0 DEF i
    <3> HIDE DEF g
    <3>3. QED
      BY <3>1, <3>2 DEF Shape, Fields, TextureSize
  <2> HIDE DEF g
  <2> DEFINE r == [[g EXCEPT !.committed = g.pal] EXCEPT !.texPal = g.pal]
             u == UpdatePalette(g)
  <2>2. u = SwapGL(RenderGL(r))
    BY <2>1 DEF UpdatePalette
  <2>3. /\ Shape(r) /\ ~r.fault /\ r.allocated /\ ~r.showing /\ r.surface /\ r.shader
           /\ r.init
        /\ r.pixels = f.pixels /\ r.quad = r.dst /\ r.texture = TextureSize(r)
           /\ r.texPal = r.pal
    BY <2>1 DEF Shape, Fields, TextureSize
  <2> HIDE DEF r, u
  <2>4. RenderGL(r) = [r EXCEPT !.back = r.pixels]
    BY <2>3, RenderHolds
  <2>5. /\ Shape(u) /\ ~u.fault /\ u.allocated /\ ~u.showing /\ u.surface /\ u.shader
           /\ u.init
        /\ u.pixels = f.pixels /\ u.quad = u.dst /\ u.texture = TextureSize(u)
           /\ u.texPal = u.pal
    BY <2>2, <2>3, <2>4 DEF Shape, Fields, SwapGL, TextureSize
  <2>6. filled = [u EXCEPT !.back = u.pixels]
    <3>1. filled = RenderGL(u)
      BY <1>3, <2>5 DEF FrameReady, g, u
    <3>2. QED
      BY <2>5, <3>1, RenderHolds
  <2> DEFINE h == [filled EXCEPT !.showing = TRUE]
  <2>7. /\ Shape(h) /\ ~h.fault /\ h.allocated /\ h.showing /\ h.surface /\ h.shader /\ h.init
        /\ h.pixels = f.pixels /\ h.quad = h.dst /\ h.texture = TextureSize(h)
           /\ h.texPal = h.pal
        /\ h.back = h.pixels
    BY <2>5, <2>6 DEF Shape, Fields, TextureSize
  <2> HIDE DEF h, filled
  <2>8. /\ Good(SwapGL(h)) /\ SwapGL(h).showing /\ SwapGL(h).allocated /\ SwapGL(h).shader
           /\ SwapGL(h).pixels = f.pixels
        /\ SwapGL(h).front = f.pixels
    BY <2>7 DEF SwapGL, Good, Shape, Fields, TextureSize
  <2>9. QED
    BY <1>3, <2>8 DEF Visible, h, Good, Shape
<1>4. QED
  BY <1>1, <1>2, <1>3 DEF Good, Shape

\* FrameReady with the swaps after it: a layer on the screen shows what its owner
\* has drawn, in whichever resource or buffer.  A layer with the shader has to
\* be the first of circle_frames_ready_fbl.
LEMMA PresentGood ==
  ASSUME NEW f, Good(f), f.allocated, NEW first \in BOOLEAN, f.shader => first,
         NEW sync \in BOOLEAN
  PROVE  LET g == Present(f, first, sync) IN
         /\ Good(g) /\ g.showing = f.showing /\ g.allocated = f.allocated
            /\ g.shader = f.shader
         /\ g.pixels = f.pixels
         /\ f.showing => Visible(g) = g.pixels
<1>1. CASE ~f.shader
  <2> DEFINE n == IF sync THEN 1 - f.rnum ELSE f.rnum
             g == [f EXCEPT !.resource[n] = f.pixels]
  <2>0. Assert(f, f.allocated) = f
    BY DEF Assert
  <2>1. FrameReady(f, sync) = g
    BY <1>1, <2>0 DEF FrameReady
  <2>2. Good(g) /\ g.showing = f.showing /\ g.allocated = f.allocated /\ g.shader = f.shader
         /\ g.pixels = f.pixels /\ g.rnum = f.rnum /\ g.resource[n] = f.pixels
            /\ n \in 0 .. 1 /\ ~g.surface
    <3> DEFINE r == [f.resource EXCEPT ![n] = f.pixels]
    <3>1. n \in 0 .. 1 /\ DOMAIN r = 0 .. 1 /\ r[n] = f.pixels
      BY DEF Good, Shape
    <3> HIDE DEF r, n
    <3>2. g = [f EXCEPT !.resource = r]
      BY DEF r
    <3> HIDE DEF g
    <3>3. QED
      BY <1>1, <3>1, <3>2 DEF Good, Shape, Fields, TextureSize
  <2> HIDE DEF g
  <2>3. Present(f, first, sync) = IF sync THEN Swap(g) ELSE g
    BY <2>1, <2>2 DEF Present, SwapGL
  <2> HIDE DEF n
  <2>4. CASE ~sync \/ ~f.showing
    <3>1. Present(f, first, sync) = g
      BY <2>2, <2>3, <2>4 DEF Swap
    <3>2. QED
      BY <1>1, <2>2, <2>4, <3>1 DEF Good, Visible, n
  <2>5. CASE sync /\ f.showing
    <3> DEFINE k == [g EXCEPT !.rnum = 1 - @]
    <3>1. Present(f, first, sync) = k
      BY <1>1, <2>2, <2>3, <2>5 DEF Swap
    <3>2. Good(k) /\ k.showing = f.showing /\ k.allocated = f.allocated /\ k.shader = f.shader
         /\ k.pixels = f.pixels /\ k.rnum = 1 - f.rnum /\ k.resource[n] = f.pixels
      <4> DEFINE m == 1 - g.rnum
      <4>1. m \in 0 .. 1 /\ m = 1 - f.rnum
        BY <2>2 DEF Good, Shape
      <4> HIDE DEF m
      <4>2. k = [g EXCEPT !.rnum = m]
        BY DEF m
      <4> HIDE DEF k
      <4>3. QED
        BY <1>1, <2>2, <4>1, <4>2 DEF Good, Shape, Fields, TextureSize
    <3> HIDE DEF k
    <3>3. n = 1 - f.rnum
      BY <2>5 DEF n
    <3>4. QED
      BY <1>1, <3>1, <3>2, <3>3 DEF Visible
  <2>6. QED
    BY <2>4, <2>5 DEF Good, Shape
<1>2. CASE f.shader
  <2>1. CASE ~f.init
    <3> DEFINE g == RenderGL(f)
    <3>1. g = [f EXCEPT !.back = IF f.texture = TextureSize(f) THEN f.pixels ELSE None]
      BY <1>2, <2>1, RenderHolds DEF Good
    <3> DEFINE b == IF f.texture = TextureSize(f) THEN f.pixels ELSE None
    <3> HIDE DEF b
    <3>2. /\ Good(g) /\ ~g.showing /\ g.allocated = f.allocated /\ g.shader = f.shader
          /\ g.pixels = f.pixels /\ ~g.surface /\ ~f.showing
      BY <1>2, <2>1, <3>1 DEF Good, Shape, Fields, TextureSize, b
    <3>3. Present(f, first, sync) = g
      BY <1>2, <3>2 DEF Present, Swap, FrameReady, SwapGL
    <3>4. QED
      BY <3>2, <3>3 DEF Good, Shape
  <2>2. CASE f.init
    <3> DEFINE g == [f EXCEPT !.back = f.pixels]
    <3>1. FrameReady(f, sync) = g
      BY <1>2, <2>2, RenderHolds DEF FrameReady, Good
    <3>2. /\ Good(g) /\ g.showing = f.showing /\ g.allocated = f.allocated
             /\ g.shader = f.shader
          /\ g.pixels = f.pixels /\ g.back = f.pixels
      BY <1>2 DEF Good, Shape, Fields, TextureSize
    <3> HIDE DEF g
    <3> DEFINE h == SwapGL(g)
    <3>3. /\ Good(h) /\ h.showing = f.showing /\ h.allocated = f.allocated
             /\ h.shader = f.shader
          /\ h.pixels = f.pixels /\ (f.showing => h.front = f.pixels)
      BY <1>2, <3>2 DEF Good, Shape, Fields, SwapGL, TextureSize
    <3> HIDE DEF h
    <3>4. Present(f, first, sync) = h
      BY <1>2, <3>1, <3>3 DEF Present, Swap, h
    <3>5. QED
      BY <1>2, <3>3, <3>4 DEF Visible
  <2>3. QED
    BY <2>1, <2>2 DEF Good, Shape
<1>3. QED
  BY <1>1, <1>2 DEF Good, Shape

\* The constructor.
LEMMA NewLayerGood ==
  Good(NewLayer) /\ ~NewLayer.showing /\ ~NewLayer.allocated /\ ~NewLayer.shader
<1>1. DOMAIN NewLayer = Fields /\ NewLayer.rnum \in 0 .. 1
      /\ DOMAIN NewLayer.resource = 0 .. 1
  BY DEF NewLayer, Fields
<1>2. ~NewLayer.allocated /\ ~NewLayer.showing /\ ~NewLayer.fault /\ ~NewLayer.shader
      /\ ~NewLayer.init /\ NewLayer.crop /\ ~NewLayer.surface
  BY DEF NewLayer
<1>3. /\ NewLayer.allocated \in BOOLEAN /\ NewLayer.showing \in BOOLEAN
         /\ NewLayer.fault \in BOOLEAN
      /\ NewLayer.shader \in BOOLEAN /\ NewLayer.init \in BOOLEAN /\ NewLayer.crop \in BOOLEAN
      /\ NewLayer.surface \in BOOLEAN
  BY DEF NewLayer
<1>4. QED
  BY <1>1, <1>2, <1>3 DEF Good, Shape

\* Allocate.
LEMMA AllocateGood ==
  ASSUME NEW f, Good(f), ~f.allocated, NEW newPixels \in BOOLEAN
  PROVE  LET g == Allocate(f, newPixels) IN
         Good(g) /\ ~g.showing /\ ~g.init /\ g.allocated /\ g.shader = f.shader
<1> DEFINE a == [f EXCEPT !.allocated = TRUE]
           b == [a EXCEPT !.resource = [i \in 0 .. 1 |-> None]]
           c == [b EXCEPT !.committed = None]
           d == [c EXCEPT !.pixels = None]
           e == [[d EXCEPT !.src = 1] EXCEPT !.dst = 1]
           Allocated(g) == Good(g) /\ ~g.showing /\ g.allocated /\ g.shader = f.shader
           /\ ~g.init
<1>1. Allocated(a)
  BY DEF Good, Shape, Fields, TextureSize
<1>2. Allocate(f, newPixels) = IF newPixels THEN e ELSE c
  BY DEF Allocate, Assert
<1> HIDE DEF a
<1>3. Allocated(b)
  BY <1>1 DEF Good, Shape, Fields, TextureSize
<1> HIDE DEF b
<1>4. Allocated(c)
  BY <1>3 DEF Good, Shape, Fields, TextureSize
<1> HIDE DEF c
<1>5. Allocated(d)
  BY <1>4 DEF Good, Shape, Fields, TextureSize
<1> HIDE DEF d
<1>6. Allocated(e)
  BY <1>5 DEF Good, Shape, Fields, TextureSize
<1> HIDE DEF e
<1>7. QED
  BY <1>2, <1>4, <1>6

\* ShaderDestroy of a layer that may be on the screen: between it and the Hide
\* that follows, Good does not hold.
LEMMA DestroyShape ==
  ASSUME NEW f, Good(f)
  PROVE  LET g == IF f.shader THEN ShaderDestroy(f) ELSE f IN
         /\ Shape(g) /\ ~g.fault /\ ~g.init
         /\ g.allocated = f.allocated /\ g.shader = f.shader /\ g.showing = f.showing
         /\ g.surface = f.surface
<1> DEFINE a == [f EXCEPT !.init = FALSE]
           b == [a EXCEPT !.texture = None]
           c == [b EXCEPT !.texPal = None]
           d == [c EXCEPT !.quad = None]
           Destroyed(g) ==
             /\ Shape(g) /\ ~g.fault /\ ~g.init
             /\ g.allocated = f.allocated /\ g.shader = f.shader /\ g.showing = f.showing
             /\ g.surface = f.surface
<1>1. Destroyed(a)
  BY DEF Good, Shape, Fields
<1>2. ShaderDestroy(f) = d
  BY DEF ShaderDestroy
<1>3. ~f.shader => Destroyed(f)
  BY DEF Good, Shape
<1> HIDE DEF a
<1>4. Destroyed(b)
  BY <1>1 DEF Shape, Fields
<1> HIDE DEF b
<1>5. Destroyed(c)
  BY <1>4 DEF Shape, Fields
<1> HIDE DEF c
<1>6. Destroyed(d)
  BY <1>5 DEF Shape, Fields
<1> HIDE DEF d
<1>7. QED
  BY <1>2, <1>3, <1>6

\* Hide after ShaderDestroy.
LEMMA HideShape ==
  ASSUME NEW f, Shape(f), ~f.fault, ~f.init, f.surface => f.showing
  PROVE  LET g == Hide(f) IN
         /\ Good(g) /\ ~g.init /\ ~g.showing /\ g.allocated = f.allocated
            /\ g.shader = f.shader
<1> DEFINE a == [f EXCEPT !.showing = FALSE]
           b == [a EXCEPT !.surface = FALSE]
           c == [b EXCEPT !.front = None]
<1>1. Hide(f) = IF f.showing THEN c ELSE f
  BY DEF Hide
<1>2. Shape(a) /\ ~a.fault /\ ~a.init /\ ~a.showing /\ a.allocated = f.allocated
      /\ a.shader = f.shader
  BY DEF Shape, Fields
<1> HIDE DEF a
<1>3. Good(b) /\ ~b.init /\ ~b.showing /\ b.allocated = f.allocated /\ b.shader = f.shader
  BY <1>2 DEF Good, Shape, Fields
<1> HIDE DEF b
<1>4. Good(c) /\ ~c.init /\ ~c.showing /\ c.allocated = f.allocated /\ c.shader = f.shader
  BY <1>3 DEF Good, Shape, Fields, TextureSize
<1> HIDE DEF c
<1>5. ~f.showing => Good(f)
  BY DEF Good, Shape
<1>6. QED
  BY <1>1, <1>4, <1>5

\* SetShaderParams.
LEMMA SetShaderParamsGood ==
  ASSUME NEW f, Good(f), NEW curvature \in BOOLEAN
  PROVE  LET g == SetShaderParams(f, curvature) IN
         Good(g) /\ ~g.showing /\ g.allocated = f.allocated /\ g.shader = f.shader
<1> DEFINE d == IF f.shader THEN ShaderDestroy(f) ELSE f
           e == [d EXCEPT !.crop = curvature]
<1>1. /\ Shape(d) /\ ~d.fault /\ ~d.init
      /\ d.allocated = f.allocated /\ d.shader = f.shader /\ d.showing = f.showing
      /\ d.surface = f.surface
  BY DestroyShape
<1>2. SetShaderParams(f, curvature) = Hide(e)
  BY DEF SetShaderParams
<1> HIDE DEF d
<1>3. /\ Shape(e) /\ ~e.fault /\ ~e.init
      /\ e.allocated = f.allocated /\ e.shader = f.shader /\ e.showing = f.showing
      /\ e.surface = f.surface
  BY <1>1 DEF Shape, Fields
<1> HIDE DEF e
<1>4. e.surface => e.showing
  BY <1>3 DEF Good
<1>5. QED
  BY <1>2, <1>3, <1>4, HideShape

\* ReAllocate: free, change, allocate.
LEMMA ReAllocateGood ==
  ASSUME NEW f, Good(f), f.allocated, NEW enable \in BOOLEAN
  PROVE  LET g == ReAllocate(f, enable) IN
         Good(g) /\ g.allocated /\ (g.shader = enable)
<1> DEFINE d == IF f.shader THEN ShaderDestroy(f) ELSE f
           h == Hide(d)
           i == [h EXCEPT !.allocated = FALSE]
           j == [i EXCEPT !.committed = None]
           k == [j EXCEPT !.resource = [n \in 0 .. 1 |-> None]]
           s == [k EXCEPT !.shader = enable]
<1>1. Shape(d) /\ ~d.fault /\ ~d.init /\ (d.surface => d.showing)
  BY DestroyShape DEF Good
<1>2. Assert(f, f.allocated) = f
  BY DEF Assert
<1>3. FreeInternal(f, TRUE) = k
  BY DEF FreeInternal
<1> HIDE DEF d
<1>4. Good(h) /\ ~h.init /\ ~h.showing
  BY <1>1, HideShape
<1> HIDE DEF h
<1>5. Good(i) /\ ~i.init /\ ~i.showing /\ ~i.allocated
  BY <1>4 DEF Good, Shape, Fields
<1> HIDE DEF i
<1>6. Good(j) /\ ~j.init /\ ~j.showing /\ ~j.allocated
  BY <1>5 DEF Good, Shape, Fields
<1> HIDE DEF j
<1>7. Good(k) /\ ~k.init /\ ~k.showing /\ ~k.allocated
  BY <1>6 DEF Good, Shape, Fields
<1> HIDE DEF k
<1>8. Good(s) /\ ~s.allocated /\ (s.shader = enable)
  BY <1>7 DEF Good, Shape, Fields
<1>9. SetUsesShader(k, enable) = s
  BY <1>7 DEF SetUsesShader, Assert
<1> HIDE DEF s
<1>10. Good(Allocate(s, FALSE)) /\ Allocate(s, FALSE).allocated
       /\ Allocate(s, FALSE).shader = enable
  BY <1>8, AllocateGood
<1>11. ReAllocate(f, enable) = IF f.shader = enable THEN f ELSE Allocate(s, FALSE)
  BY <1>2, <1>3, <1>9 DEF ReAllocate
<1>12. QED
  BY <1>10, <1>11

----------------------------------------------------------------------------

\* The fields of "video".
VideoFields == {"fb", "enabled", "flag", "display", "setup"}

\* The flags of emux_api.c agree with the layers, shared or not.
FlagsMatch(v) ==
  /\ \A l \in {"vic", "vdc"} : v.fb[l].showing <=> v.flag[l]
  /\ v.fb["status"].showing <=> v.flag["bar"] \/ v.flag["vkbd"]
  /\ v.enabled["vdc"] => v.setup.c128

\* The menu's flag is set and never cleared when Hide is called directly (ui.c),
\* so it agrees only in part; while the menu is being closed it does not.
MenuMatches(v) ==
  /\ v.fb["ui"].showing => v.enabled["ui"]
  /\ v.enabled["ui"] /\ v.flag["ui"] => v.fb["ui"].showing

\* What every operation on "video" preserves.
Sound(v) ==
  /\ DOMAIN v = VideoFields /\ DOMAIN v.fb = Layers
  /\ v.enabled \in [Users -> BOOLEAN] /\ v.flag \in [Users -> BOOLEAN]
  /\ v.setup \in Setup
  /\ \A l \in Layers : Good(v.fb[l]) /\ (l # "vic" => ~v.fb[l].shader)
  /\ FlagsMatch(v)

\* The layers that have their buffers.
Allocated(v) == {l \in Layers : v.fb[l].allocated}
\* What most operations leave alone.
Kept(v, w) == w.setup = v.setup /\ Allocated(w) = Allocated(v)

\* Changing one layer changes no other field and no other layer.
LEMMA OnLayer ==
  ASSUME NEW v, Sound(v), NEW l \in Layers, NEW f
  PROVE  LET w == On(v, l, f) IN
         /\ DOMAIN w = VideoFields /\ DOMAIN w.fb = Layers
         /\ w.enabled = v.enabled /\ w.flag = v.flag /\ w.setup = v.setup
            /\ w.display = v.display
         /\ w.fb[l] = f
         /\ \A k \in Layers \ {l} : w.fb[k] = v.fb[k]
  BY DEF Sound, On, VideoFields

\* A layer that stays shown, or stays hidden.
LEMMA OnSound ==
  ASSUME NEW v, Sound(v), NEW l \in Layers, NEW f, Good(f), l # "vic" => ~f.shader,
         f.showing = v.fb[l].showing, f.allocated = v.fb[l].allocated
  PROVE  LET w == On(v, l, f) IN
         Sound(w) /\ Kept(v, w) /\ (MenuMatches(v) => MenuMatches(w)) /\ w.enabled = v.enabled
<1> DEFINE w == On(v, l, f)
<1>1. /\ DOMAIN w = VideoFields /\ DOMAIN w.fb = Layers
      /\ w.enabled = v.enabled /\ w.flag = v.flag /\ w.setup = v.setup
      /\ w.fb[l] = f /\ \A k \in Layers \ {l} : w.fb[k] = v.fb[k]
  BY OnLayer
<1> HIDE DEF w
<1>2. \A k \in Layers : w.fb[k].showing = v.fb[k].showing
      /\ w.fb[k].allocated = v.fb[k].allocated
  BY <1>1
<1>3. \A k \in Layers : Good(w.fb[k]) /\ (k # "vic" => ~w.fb[k].shader)
  BY <1>1 DEF Sound
<1>4. FlagsMatch(w)
  BY <1>1, <1>2 DEF FlagsMatch, Layers, Sound
<1>5. MenuMatches(v) => MenuMatches(w)
  BY <1>1, <1>2 DEF MenuMatches, Layers
<1>6. Kept(v, w)
  BY <1>1, <1>2 DEF Kept, Allocated
<1>7. Sound(w)
  BY <1>1, <1>3, <1>4 DEF Sound
<1>8. QED
  BY <1>1, <1>5, <1>6, <1>7 DEF w

\* A layer that is hidden together with its flag.
LEMMA HiddenSound ==
  ASSUME NEW v, Sound(v), NEW l \in {"vic", "vdc", "ui"}, NEW f, Good(f),
         l # "vic" => ~f.shader,
         ~f.showing, f.allocated = v.fb[l].allocated
  PROVE  LET w == [On(v, l, f) EXCEPT !.flag[l] = FALSE] IN
         /\ Sound(w) /\ Kept(v, w) /\ (MenuMatches(v) => MenuMatches(w))
            /\ w.enabled = v.enabled
         /\ w.fb[l] = f /\ w.display = v.display
<1> DEFINE u == On(v, l, f)
           w == [u EXCEPT !.flag[l] = FALSE]
<1>1. /\ DOMAIN u = VideoFields /\ DOMAIN u.fb = Layers
      /\ u.enabled = v.enabled /\ u.flag = v.flag /\ u.setup = v.setup
         /\ u.display = v.display
      /\ u.fb[l] = f /\ \A k \in Layers \ {l} : u.fb[k] = v.fb[k]
  BY OnLayer DEF Layers
<1> HIDE DEF u
<1>2. /\ DOMAIN w = VideoFields /\ w.fb = u.fb
      /\ w.enabled = u.enabled /\ w.flag = [u.flag EXCEPT ![l] = FALSE]
         /\ w.setup = u.setup /\ w.display = u.display
  BY <1>1 DEF VideoFields
<1> HIDE DEF w
<1>3. \A k \in Layers : /\ w.fb[k].allocated = v.fb[k].allocated
                        /\ Good(w.fb[k]) /\ (k # "vic" => ~w.fb[k].shader)
  BY <1>1, <1>2 DEF Sound
<1>4. /\ w.flag \in [Users -> BOOLEAN] /\ ~w.flag[l] /\ ~w.fb[l].showing
      /\ \A x \in Users \ {l} : w.flag[x] = v.flag[x]
      /\ \A k \in Layers \ {l} : w.fb[k] = v.fb[k]
  BY <1>1, <1>2 DEF Sound, Users
<1>5. FlagsMatch(w)
  BY <1>1, <1>2, <1>4 DEF FlagsMatch, Layers, Users, Sound
<1>6. MenuMatches(v) => MenuMatches(w)
  BY <1>1, <1>2, <1>4 DEF MenuMatches, Layers, Users
<1>7. Kept(v, w)
  BY <1>1, <1>2, <1>3 DEF Kept, Allocated
<1>8. Sound(w)
  BY <1>1, <1>2, <1>3, <1>4, <1>5 DEF Sound
<1>9. QED
  BY <1>1, <1>2, <1>6, <1>7, <1>8 DEF u, w

\* A user that is turned on or off.
LEMMA EnableSound ==
  ASSUME NEW v, Sound(v), NEW x \in Users, NEW on \in BOOLEAN, x = "vdc" /\ on => v.setup.c128
  PROVE  LET w == Enable(v, x, on) IN
         /\ Sound(w) /\ Kept(v, w) /\ w.fb = v.fb
            /\ (x # "ui" /\ MenuMatches(v) => MenuMatches(w))
         /\ w.enabled = [v.enabled EXCEPT ![x] = on]
<1> DEFINE w == Enable(v, x, on)
<1>1. /\ DOMAIN w = VideoFields /\ w.fb = v.fb /\ w.flag = v.flag /\ w.setup = v.setup
      /\ w.enabled = [v.enabled EXCEPT ![x] = on]
  BY DEF Sound, VideoFields, Enable
<1> HIDE DEF w
<1>2. /\ w.enabled \in [Users -> BOOLEAN] /\ (x # "ui" => w.enabled["ui"] = v.enabled["ui"])
      /\ w.enabled["vdc"] => w.setup.c128
  BY <1>1 DEF Sound, FlagsMatch, Users
<1>3. FlagsMatch(w) /\ (x # "ui" /\ MenuMatches(v) => MenuMatches(w))
  BY <1>1, <1>2 DEF Sound, FlagsMatch, MenuMatches
<1>4. QED
  BY <1>1, <1>2, <1>3 DEF Sound, Kept, Allocated, w

\* Hide, of a layer of "video".
LEMMA HiddenLayer ==
  ASSUME NEW v, Sound(v), NEW l \in Layers
  PROVE  /\ Good(Hide(v.fb[l])) /\ ~Hide(v.fb[l]).showing
            /\ Hide(v.fb[l]).allocated = v.fb[l].allocated
         /\ Hide(v.fb[l]).shader = v.fb[l].shader
  BY HideGood DEF Sound

\* emux_apply_video_adjustments, which may give the menu its buffer.
LEMMA AdjustSound ==
  ASSUME NEW v, Sound(v), NEW l \in {"vic", "vdc", "ui"}, NEW src, NEW stretch
  PROVE  LET w == Adjust(v, l, src, stretch) IN
         /\ Sound(w) /\ w.setup = v.setup /\ w.enabled = v.enabled /\ w.display = v.display
         /\ MenuMatches(v) => MenuMatches(w)
         /\ Allocated(w) = Allocated(v) \union IF l = "vic" THEN {"ui"} ELSE {}
<1> DEFINE hidden == [On(v, l, Hide(v.fb[l])) EXCEPT !.flag[l] = FALSE]
           rect == SetSrcRect(SetStretch(hidden.fb[l], stretch), src)
           placed == On(hidden, l, rect)
           ui == placed.fb["ui"]
           new == [Allocate(ui, TRUE) EXCEPT !.pixels = None]
<1>0. l \in Layers
  BY DEF Layers
<1>1. /\ Good(Hide(v.fb[l])) /\ ~Hide(v.fb[l]).showing
         /\ Hide(v.fb[l]).allocated = v.fb[l].allocated
      /\ (l # "vic" => ~Hide(v.fb[l]).shader)
  BY <1>0, HiddenLayer DEF Sound
<1>2. /\ Sound(hidden) /\ Kept(v, hidden) /\ (MenuMatches(v) => MenuMatches(hidden))
      /\ hidden.enabled = v.enabled /\ hidden.display = v.display
  BY <1>1, HiddenSound
<1> HIDE DEF hidden
<1>3. /\ Good(rect) /\ rect.showing = hidden.fb[l].showing
         /\ rect.allocated = hidden.fb[l].allocated
      /\ rect.shader = hidden.fb[l].shader
  BY <1>0, <1>2, SetSrcRectGood DEF Sound
<1> HIDE DEF rect
<1>4. /\ Sound(placed) /\ Kept(hidden, placed) /\ (MenuMatches(hidden) => MenuMatches(placed))
      /\ placed.enabled = hidden.enabled /\ placed.display = hidden.display
  BY <1>0, <1>2, <1>3, OnSound, OnLayer DEF Sound
<1> HIDE DEF placed
<1>5. CASE ~(l = "vic" /\ ~ui.allocated)
  <2>1. Adjust(v, l, src, stretch) = placed
    BY <1>5 DEF Adjust, hidden, rect, placed
  <2>2. l = "vic" => "ui" \in Allocated(placed)
    BY <1>5 DEF Allocated, Layers
  <2>3. QED
    BY <1>2, <1>4, <2>1, <2>2 DEF Kept
<1>6. CASE l = "vic" /\ ~ui.allocated
  <2>1. Adjust(v, l, src, stretch) = On(placed, "ui", new)
    BY <1>6 DEF Adjust, hidden, rect, placed
  <2>2. Good(ui) /\ ~ui.shader /\ ~ui.showing /\ "ui" \in Layers
    BY <1>4, <1>6 DEF Sound, Good, Layers
  <2>3. Good(Allocate(ui, TRUE)) /\ ~Allocate(ui, TRUE).showing
        /\ Allocate(ui, TRUE).allocated
        /\ ~Allocate(ui, TRUE).shader
    BY <1>6, <2>2, AllocateGood
  <2>4. Good(new) /\ ~new.showing /\ new.allocated /\ ~new.shader
    BY <2>3 DEF Good, Shape, Fields, TextureSize
  <2> HIDE DEF new
  <2> DEFINE w == On(placed, "ui", new)
  <2>5. /\ DOMAIN w = VideoFields /\ DOMAIN w.fb = Layers
        /\ w.enabled = placed.enabled /\ w.flag = placed.flag /\ w.setup = placed.setup
           /\ w.display = placed.display
        /\ w.fb["ui"] = new /\ \A k \in Layers \ {"ui"} : w.fb[k] = placed.fb[k]
    BY <1>4, <2>2, OnLayer
  <2> HIDE DEF w
  <2>6. FlagsMatch(w) /\ (MenuMatches(placed) => MenuMatches(w))
    BY <1>4, <2>2, <2>4, <2>5 DEF FlagsMatch, MenuMatches, Layers, Sound
  <2>7. Sound(w)
    BY <1>4, <2>4, <2>5, <2>6 DEF Sound
  <2>8. Allocated(w) = Allocated(placed) \union {"ui"}
    BY <2>2, <2>4, <2>5 DEF Allocated
  <2>9. QED
    BY <1>2, <1>4, <1>6, <2>1, <2>5, <2>6, <2>7, <2>8 DEF Kept, w
<1>7. QED
  BY <1>5, <1>6

\* What holds of every change of the settings, and of a frame.
Steady(v, w) ==
  /\ Sound(w) /\ w.setup = v.setup /\ w.enabled["ui"] = v.enabled["ui"]
  /\ MenuMatches(v) => MenuMatches(w)
  /\ Allocated(v) \subseteq Allocated(w) /\ Allocated(w) \subseteq Allocated(v) \union {"ui"}

\* Changes of the settings compose.
LEMMA SteadyTrans ==
  ASSUME NEW u, NEW v, NEW w, Steady(u, v), Steady(v, w)
  PROVE  Steady(u, w)
  BY DEF Steady

\* do_video_settings.
LEMMA SettingsSteady ==
  ASSUME NEW v, Sound(v), NEW l \in {"vic", "vdc"}, NEW src, NEW stretch
  PROVE  LET w == VideoSettings(v, l, src, stretch) IN
         /\ Steady(v, w) /\ w.display = v.display /\ w.enabled = v.enabled
         /\ l = "vic" /\ v.display = "vic" => "ui" \in Allocated(w)
<1> DEFINE own == Adjust(v, l, src, stretch)
           menu == Adjust(own, "ui", src, stretch)
<1>1. /\ Sound(own) /\ own.setup = v.setup /\ own.enabled = v.enabled
         /\ own.display = v.display
      /\ MenuMatches(v) => MenuMatches(own)
      /\ Allocated(own) = Allocated(v) \union IF l = "vic" THEN {"ui"} ELSE {}
  BY AdjustSound
<1>2. VideoSettings(v, l, src, stretch) \in {v, own, menu}
      /\ (l = "vic" /\ v.display = "vic" => VideoSettings(v, l, src, stretch) = menu)
      /\ (VideoSettings(v, l, src, stretch) = menu => l = "vic" \/ menu = own \/ menu = v)
  BY DEF VideoSettings
<1> HIDE DEF own
<1>3. /\ Sound(menu) /\ menu.setup = own.setup /\ menu.enabled = own.enabled
         /\ menu.display = own.display
      /\ MenuMatches(own) => MenuMatches(menu)
      /\ Allocated(menu) = Allocated(own)
  BY <1>1, AdjustSound
<1> HIDE DEF menu
<1>4. QED
  BY <1>1, <1>2, <1>3 DEF Steady

\* The emulated displays that are enabled change.
LEMMA ActiveSteady ==
  ASSUME NEW v, Sound(v), NEW d, NEW a \in BOOLEAN, NEW b \in BOOLEAN, b => v.setup.c128
  PROVE  Steady(v, [v EXCEPT !.display = d, !.enabled["vic"] = a, !.enabled["vdc"] = b])
<1> DEFINE w == [v EXCEPT !.display = d, !.enabled["vic"] = a, !.enabled["vdc"] = b]
           e == [[v.enabled EXCEPT !["vic"] = a] EXCEPT !["vdc"] = b]
<1>1. /\ DOMAIN w = VideoFields /\ w.fb = v.fb /\ w.flag = v.flag /\ w.setup = v.setup
      /\ w.enabled = e
  BY DEF Sound, VideoFields
<1> HIDE DEF w
<1>2. e \in [Users -> BOOLEAN] /\ e["ui"] = v.enabled["ui"] /\ e["vdc"] = b
  BY DEF Sound, Users
<1> HIDE DEF e
<1>3. FlagsMatch(w) /\ (MenuMatches(v) => MenuMatches(w))
  BY <1>1, <1>2 DEF Sound, FlagsMatch, MenuMatches
<1>4. Sound(w)
  BY <1>1, <1>2, <1>3 DEF Sound
<1>5. Steady(v, w)
  BY <1>1, <1>2, <1>3, <1>4 DEF Steady, Allocated
<1>6. QED
  BY <1>5 DEF w

\* The active display.
LEMMA DisplaySteady ==
  ASSUME NEW v, Sound(v), NEW d \in {"vic", "vdc", "both"}, v.setup.c128
  PROVE  Steady(v, SetDisplay(v, d))
<1> DEFINE a == (d # "vdc")
           b == (d # "vic")
           w == [v EXCEPT !.display = d, !.enabled["vic"] = a, !.enabled["vdc"] = b]
           x == VideoSettings(w, "vic", w.fb["vic"].src, w.fb["vic"].stretch)
           y == VideoSettings(x, "vdc", x.fb["vdc"].src, x.fb["vdc"].stretch)
<1>1. SetDisplay(v, d) = y
  BY DEF SetDisplay
<1>2. a \in BOOLEAN /\ b \in BOOLEAN
  OBVIOUS
<1> HIDE DEF a, b
<1>3. Steady(v, w)
  BY <1>2, ActiveSteady
<1> HIDE DEF w
<1>4. Steady(w, x)
  BY <1>3, SettingsSteady DEF Steady
<1> HIDE DEF x
<1>5. Steady(x, y)
  BY <1>4, SettingsSteady DEF Steady
<1> HIDE DEF y
<1>6. QED
  BY <1>1, <1>3, <1>4, <1>5, SteadyTrans

\* The VIC's layer hidden, with its flag.
LEMMA HiddenSteady ==
  ASSUME NEW v, Sound(v), NEW f, Good(f), ~f.showing, f.allocated = v.fb["vic"].allocated
  PROVE  Steady(v, [On(v, "vic", f) EXCEPT !.flag["vic"] = FALSE])
<1> DEFINE w == [On(v, "vic", f) EXCEPT !.flag["vic"] = FALSE]
<1>1. Sound(w) /\ Kept(v, w) /\ (MenuMatches(v) => MenuMatches(w)) /\ w.enabled = v.enabled
  BY HiddenSound
<1> HIDE DEF w
<1>2. Steady(v, w)
  BY <1>1 DEF Steady, Kept
<1>3. QED
  BY <1>2 DEF w

\* circle_set_shader_params.
LEMMA ParamsSteady ==
  ASSUME NEW v, Sound(v), NEW curvature \in BOOLEAN
  PROVE  Steady(v, ShaderParams(v, curvature))
<1> DEFINE g == SetShaderParams(v.fb["vic"], curvature)
<1>1. Good(v.fb["vic"])
  BY DEF Sound, Layers
<1>2. Good(g) /\ ~g.showing /\ g.allocated = v.fb["vic"].allocated
  BY <1>1, SetShaderParamsGood
<1> HIDE DEF g
<1>3. QED
  BY <1>2, HiddenSteady DEF ShaderParams, g

\* Turning the shader on or off.
LEMMA ShaderSteady ==
  ASSUME NEW v, Sound(v), "vic" \in Allocated(v), NEW enable \in BOOLEAN,
         NEW curvature \in BOOLEAN
  PROVE  Steady(v, EnableShader(v, enable, curvature))
<1> DEFINE f == ReAllocate(v.fb["vic"], enable)
           g == SetShaderParams(f, curvature)
           u == On(v, "vic", f)
           x == On(u, "vic", SetShaderParams(u.fb["vic"], curvature))
           y == On(v, "vic", g)
<1>1. Good(f) /\ f.allocated
  BY ReAllocateGood DEF Sound, Allocated, Layers
<1>2. Good(g) /\ ~g.showing /\ g.allocated
  BY <1>1, SetShaderParamsGood
<1>3. u.fb["vic"] = f
  BY OnLayer DEF Layers
<1>4. x = y
  BY <1>3 DEF On, Sound, VideoFields
<1>5. EnableShader(v, enable, curvature) = [y EXCEPT !.flag["vic"] = FALSE]
  BY <1>4 DEF EnableShader, ShaderParams
<1> HIDE DEF g
<1>6. g.allocated = v.fb["vic"].allocated
  BY <1>2 DEF Allocated, Sound, Good, Shape, Layers
<1>7. QED
  BY <1>2, <1>5, <1>6, HiddenSteady

\* video_canvas_set_palette.
LEMMA PaletteSteady ==
  ASSUME NEW v, Sound(v), NEW l \in {"vic", "vdc"}, NEW p
  PROVE  Steady(v, CanvasPalette(v, l, p))
<1> DEFINE g == UpdatePalette(SetPalette(v.fb[l], p))
<1>1. Good(v.fb[l]) /\ l \in Layers
  BY DEF Sound, Layers
<1>2. /\ Good(g) /\ g.showing = v.fb[l].showing /\ g.allocated = v.fb[l].allocated
      /\ g.shader = v.fb[l].shader
  BY <1>1, SetPaletteGood
<1> HIDE DEF g
<1>3. QED
  BY <1>1, <1>2, OnSound DEF CanvasPalette, Steady, Kept, Sound, g

\* overlay_change_padding.
LEMMA PaddingSteady ==
  ASSUME NEW v, Sound(v)
  PROVE  Steady(v, StatusPadding(v))
<1> DEFINE f == Hide(v.fb["status"])
           u == On(v, "status", f)
           w == [u EXCEPT !.flag["bar"] = FALSE, !.flag["vkbd"] = FALSE]
           flag == [[u.flag EXCEPT !["bar"] = FALSE] EXCEPT !["vkbd"] = FALSE]
<1>0. "status" \in Layers
  BY DEF Layers
<1>1. Good(f) /\ ~f.showing /\ f.allocated = v.fb["status"].allocated
      /\ f.shader = v.fb["status"].shader
  BY <1>0, HiddenLayer
<1> HIDE DEF f
<1>2. /\ DOMAIN u = VideoFields /\ DOMAIN u.fb = Layers
      /\ u.enabled = v.enabled /\ u.flag = v.flag /\ u.setup = v.setup
      /\ u.fb["status"] = f /\ \A k \in Layers \ {"status"} : u.fb[k] = v.fb[k]
  BY <1>0, OnLayer
<1> HIDE DEF u
<1>3. /\ DOMAIN w = VideoFields /\ w.fb = u.fb /\ w.enabled = u.enabled /\ w.setup = u.setup
      /\ w.flag = flag
  BY <1>2 DEF VideoFields
<1>4. /\ flag \in [Users -> BOOLEAN] /\ ~flag["bar"] /\ ~flag["vkbd"]
      /\ \A x \in Users \ Overlays : flag[x] = v.flag[x]
  BY <1>2 DEF Sound, Users, Overlays
<1> HIDE DEF flag, w
<1>5. FlagsMatch(w) /\ (MenuMatches(v) => MenuMatches(w))
  BY <1>1, <1>2, <1>3, <1>4 DEF FlagsMatch, MenuMatches, Layers, Users, Overlays, Sound
<1>6. \A k \in Layers : w.fb[k].allocated = v.fb[k].allocated /\ Good(w.fb[k])
      /\ (k # "vic" => ~w.fb[k].shader)
  BY <1>1, <1>2, <1>3 DEF Sound
<1>7. Sound(w)
  BY <1>2, <1>3, <1>4, <1>5, <1>6 DEF Sound
<1>8. StatusPadding(v) = w
  BY DEF StatusPadding, w, u, f
<1>9. QED
  BY <1>2, <1>3, <1>5, <1>6, <1>7, <1>8 DEF Steady, Allocated

\* The owner of a layer draws.
LEMMA DrawSteady ==
  ASSUME NEW v, Sound(v), NEW l \in Layers, NEW p
  PROVE  /\ Steady(v, Draw(v, l, p)) /\ Kept(v, Draw(v, l, p))
            /\ Draw(v, l, p).enabled = v.enabled
<1> DEFINE f == [v.fb[l] EXCEPT !.pixels = p]
<1>1. Good(v.fb[l]) /\ (l # "vic" => ~v.fb[l].shader)
  BY DEF Sound
<1>2. Good(f) /\ f.showing = v.fb[l].showing /\ f.allocated = v.fb[l].allocated
      /\ f.shader = v.fb[l].shader
  BY <1>1 DEF Good, Shape, Fields, TextureSize
<1> HIDE DEF f
<1>3. Steady(v, On(v, l, f)) /\ Kept(v, On(v, l, f)) /\ On(v, l, f).enabled = v.enabled
  BY <1>1, <1>2, OnSound DEF Steady, Kept
<1>4. Steady(v, v) /\ Kept(v, v)
  BY DEF Steady, Kept
<1>5. QED
  BY <1>3, <1>4 DEF Draw, f

\* circle_frames_ready_fbl, for one of its layers.
LEMMA PresentSteady ==
  ASSUME NEW v, Sound(v), NEW l \in Allocated(v), NEW first \in BOOLEAN,
         NEW sync \in BOOLEAN, l = "vic" => first
  PROVE  LET w == On(v, l, Present(v.fb[l], first, sync)) IN
         /\ Steady(v, w) /\ Kept(v, w) /\ w.enabled = v.enabled /\ w.flag = v.flag
         /\ w.fb[l].showing = v.fb[l].showing /\ w.fb[l].pixels = v.fb[l].pixels
         /\ v.fb[l].showing => Visible(w.fb[l]) = w.fb[l].pixels
         /\ \A k \in Layers \ {l} : w.fb[k] = v.fb[k]
<1> DEFINE f == v.fb[l]
           g == Present(f, first, sync)
           w == On(v, l, g)
<1>1. l \in Layers /\ Good(f) /\ (l # "vic" => ~f.shader) /\ f.allocated
  BY DEF Sound, Allocated
<1>2. /\ Good(g) /\ g.showing = f.showing /\ g.allocated = f.allocated /\ g.shader = f.shader
      /\ g.pixels = f.pixels /\ (f.showing => Visible(g) = g.pixels)
  BY <1>1, PresentGood
<1> HIDE DEF g
<1>3. Steady(v, w) /\ Kept(v, w)
  BY <1>1, <1>2, OnSound DEF Steady, Kept
<1>4. w.enabled = v.enabled /\ w.flag = v.flag /\ w.fb[l] = g
      /\ \A k \in Layers \ {l} : w.fb[k] = v.fb[k]
  BY <1>1, OnLayer
<1> HIDE DEF w
<1>5. QED
  BY <1>2, <1>3, <1>4 DEF w, g

\* The layers that the machine has.
Canvas(v) == {"vic", "ui"} \union IF v.setup.c128 THEN {"vdc"} ELSE {}

\* emux_ensure_video shows exactly what is enabled, and what it shows anew shows
\* what its owner has drawn.  The status bar and the virtual keyboard share a
\* layer: it is shown as long as either is enabled.
LEMMA EnsureSteady ==
  ASSUME NEW v, Sound(v), Canvas(v) \union {"status"} \subseteq Allocated(v)
  PROVE  LET w == EnsureVideo(v) IN
         /\ Steady(v, w) /\ Kept(v, w) /\ w.enabled = v.enabled
         /\ \A l \in {"vic", "vdc"} : w.fb[l].showing <=> v.enabled[l]
         /\ w.fb["status"].showing <=> v.enabled["bar"] \/ v.enabled["vkbd"]
         /\ MenuMatches(v) => (w.fb["ui"].showing <=> v.enabled["ui"])
         /\ w.fb["ui"].showing =>
              IF v.fb["ui"].showing THEN w.fb["ui"] = v.fb["ui"]
              ELSE Visible(w.fb["ui"]) = w.fb["ui"].pixels
<1> DEFINE flag == [u \in Users |-> NextFlag(v, u)]
           Opened(l) == \/ \E u \in Users \ Overlays : LayerOf(u) = l /\ flag[u] /\ ~v.flag[u]
                        \/ l = "status" /\ OpenStatus(v)
           Closed(l) == \/ l \in {"vic", "vdc"} /\ v.flag[l] /\ ~flag[l]
                        \/ /\ l = "status" /\ ~OpenStatus(v) /\ CloseStatus(v)
                           /\ ~flag["bar"] /\ ~flag["vkbd"]
           fb == [l \in Layers |-> CASE Opened(l) -> Show(v.fb[l])
                                     [] Closed(l) -> Hide(v.fb[l])
                                     [] OTHER -> v.fb[l]]
           w == EnsureVideo(v)
<1>0. /\ v.enabled \in [Users -> BOOLEAN] /\ v.flag \in [Users -> BOOLEAN]
      /\ DOMAIN v = VideoFields
  BY DEF Sound
<1>1. /\ DOMAIN w = VideoFields /\ w.fb = fb /\ w.flag = flag
      /\ w.enabled = v.enabled /\ w.setup = v.setup
  <2> DEFINE x == [v EXCEPT !.flag = flag, !.fb = fb]
  <2>1. w = x
    BY DEF EnsureVideo
  <2> HIDE DEF flag, fb, w
  <2>2. QED
    BY <1>0, <2>1 DEF VideoFields
<1> HIDE DEF w
<1>2. /\ flag["vic"] = v.enabled["vic"] /\ flag["vdc"] = v.enabled["vdc"]
      /\ flag["ui"] <=> v.flag["ui"] \/ v.enabled["ui"]
      /\ OpenStatus(v) => \A u \in Overlays : flag[u] <=> v.flag[u] \/ v.enabled[u]
      /\ ~OpenStatus(v) => \A u \in Overlays : flag[u] <=> v.flag[u] /\ v.enabled[u]
  <2>1. flag["vic"] = v.enabled["vic"] /\ flag["vdc"] = v.enabled["vdc"]
    <3>1. NextFlag(v, "vic") = v.enabled["vic"] /\ NextFlag(v, "vdc") = v.enabled["vdc"]
      BY DEF NextFlag
    <3>2. QED
      BY <3>1 DEF Users
  <2>2. flag["ui"] = (v.flag["ui"] \/ v.enabled["ui"])
    BY DEF NextFlag, Users
  <2>3. ASSUME NEW u \in Overlays, OpenStatus(v)
        PROVE  flag[u] = (v.flag[u] \/ v.enabled[u])
    BY <2>3 DEF NextFlag, Users, Overlays
  <2>4. ASSUME NEW u \in Overlays, ~OpenStatus(v)
        PROVE  flag[u] = (v.flag[u] /\ v.enabled[u])
    BY <2>4 DEF NextFlag, Users, Overlays
  <2> HIDE DEF flag
  <2>5. QED
    BY <2>1, <2>2, <2>3, <2>4
<1>3. flag \in [Users -> BOOLEAN]
  <2>1. \A u \in Users : NextFlag(v, u) \in BOOLEAN
    BY <1>0 DEF NextFlag, Users
  <2>2. QED
    BY <2>1
<1> HIDE DEF flag
<1>4. /\ Opened("vic") <=> v.enabled["vic"] /\ ~v.flag["vic"]
      /\ Opened("vdc") <=> v.enabled["vdc"] /\ ~v.flag["vdc"]
      /\ Opened("ui") <=> v.enabled["ui"] /\ ~v.flag["ui"]
      /\ Opened("status") <=> OpenStatus(v)
  BY <1>2 DEF Users, Overlays, LayerOf
<1>5. /\ Closed("vic") <=> v.flag["vic"] /\ ~v.enabled["vic"]
      /\ Closed("vdc") <=> v.flag["vdc"] /\ ~v.enabled["vdc"]
      /\ ~Closed("ui")
      /\ Closed("status") <=> ~OpenStatus(v) /\ CloseStatus(v) /\ ~flag["bar"]
         /\ ~flag["vkbd"]
  BY <1>2
<1> HIDE DEF Opened, Closed
<1>6. ASSUME NEW l \in Layers
      PROVE  /\ Opened(l) => l \in Allocated(v) /\ w.fb[l] = Show(v.fb[l])
             /\ ~Opened(l) /\ Closed(l) => w.fb[l] = Hide(v.fb[l])
             /\ ~Opened(l) /\ ~Closed(l) => w.fb[l] = v.fb[l]
  <2>1. w.fb[l] = CASE Opened(l) -> Show(v.fb[l])
                    [] Closed(l) -> Hide(v.fb[l])
                    [] OTHER -> v.fb[l]
    BY <1>1
  <2>2. Opened(l) => l \in Allocated(v)
    <3>1. l = "vdc" /\ Opened(l) => v.setup.c128
      BY <1>4 DEF Sound, FlagsMatch
    <3>2. {"vic", "ui", "status"} \subseteq Allocated(v)
          /\ (v.setup.c128 => "vdc" \in Allocated(v))
      BY DEF Canvas
    <3>3. QED
      BY <3>1, <3>2 DEF Layers
  <2>3. ~(Opened(l) /\ Closed(l))
    BY <1>4, <1>5 DEF Layers
  <2>4. QED
    BY <2>1, <2>2, <2>3
<1>7. ASSUME NEW l \in Layers
      PROVE  /\ Good(w.fb[l]) /\ (l # "vic" => ~w.fb[l].shader)
                /\ w.fb[l].allocated = v.fb[l].allocated
             /\ w.fb[l].showing <=> Opened(l) \/ (v.fb[l].showing /\ ~Closed(l))
             /\ w.fb[l].showing => IF v.fb[l].showing THEN w.fb[l] = v.fb[l]
                                   ELSE Visible(w.fb[l]) = w.fb[l].pixels
  <2>1. Good(v.fb[l]) /\ (l # "vic" => ~v.fb[l].shader)
    BY DEF Sound
  <2>2. CASE Opened(l)
    <3>1. v.fb[l].allocated /\ w.fb[l] = Show(v.fb[l])
      BY <1>6, <2>2 DEF Allocated
    <3>2. LET g == Show(v.fb[l]) IN
          /\ Good(g) /\ g.showing /\ g.allocated = v.fb[l].allocated
             /\ g.shader = v.fb[l].shader
          /\ ~v.fb[l].showing => Visible(g) = g.pixels
      BY <2>1, <3>1, ShowGood
    <3>3. v.fb[l].showing => Show(v.fb[l]) = v.fb[l]
      BY DEF Show
    <3> DEFINE g == Show(v.fb[l])
    <3> HIDE DEF g
    <3>4. /\ Good(g) /\ g.showing /\ g.allocated = v.fb[l].allocated
             /\ g.shader = v.fb[l].shader
          /\ v.fb[l].showing => g = v.fb[l]
          /\ ~v.fb[l].showing => Visible(g) = g.pixels
      BY <3>2, <3>3 DEF g
    <3>5. w.fb[l] = g
      BY <3>1 DEF g
    <3>6. Good(w.fb[l]) /\ (l # "vic" => ~w.fb[l].shader)
          /\ w.fb[l].allocated = v.fb[l].allocated
      BY <2>1, <3>4, <3>5
    <3>7. w.fb[l].showing
      BY <3>4, <3>5
    <3>8. IF v.fb[l].showing THEN w.fb[l] = v.fb[l] ELSE Visible(w.fb[l]) = w.fb[l].pixels
      BY <3>4, <3>5
    <3>9. QED
      BY <2>2, <3>6, <3>7, <3>8
  <2>3. CASE ~Opened(l) /\ Closed(l)
    BY <1>6, <2>1, <2>3, HideGood
  <2>4. CASE ~Opened(l) /\ ~Closed(l)
    BY <1>6, <2>1, <2>4
  <2>5. QED
    BY <2>2, <2>3, <2>4
<1>8. \A l \in {"vic", "vdc"} : w.fb[l].showing <=> v.enabled[l]
  BY <1>4, <1>5, <1>7 DEF Sound, FlagsMatch, Layers
<1>9. w.fb["status"].showing <=> v.enabled["bar"] \/ v.enabled["vkbd"]
  BY <1>0, <1>2, <1>4, <1>5, <1>7 DEF Sound, FlagsMatch, Layers, OpenStatus, CloseStatus, Overlays
<1>10. w.fb["status"].showing <=> flag["bar"] \/ flag["vkbd"]
  BY <1>0, <1>2, <1>4, <1>5, <1>7 DEF Sound, FlagsMatch, Layers, OpenStatus, CloseStatus, Overlays
<1>11. MenuMatches(v) => (w.fb["ui"].showing <=> v.enabled["ui"])
  BY <1>4, <1>5, <1>7 DEF MenuMatches, Layers
<1>12. MenuMatches(v) => MenuMatches(w)
  BY <1>1, <1>11 DEF MenuMatches
<1>13. FlagsMatch(w)
  BY <1>1, <1>2, <1>8, <1>10 DEF Sound, FlagsMatch
<1>14. Sound(w)
  <2>1. DOMAIN w.fb = Layers
    BY <1>1
  <2>2. QED
    BY <1>0, <1>1, <1>3, <1>7, <1>13, <2>1 DEF Sound
<1>15. Allocated(w) = Allocated(v)
  BY <1>7 DEF Allocated
<1>16. "ui" \in Layers
  BY DEF Layers
<1>17. QED
  BY <1>1, <1>7, <1>8, <1>9, <1>11, <1>12, <1>14, <1>15, <1>16 DEF Steady, Kept, w

----------------------------------------------------------------------------

\* Which layers have their buffers as the machine starts.
Stage ==
  /\ phase \in {"canvas", "menu", "run", "trap"}
  /\ phase = "canvas" => Allocated(video) = {} /\ video.display = "vic"
  /\ phase = "menu" => Allocated(video) = Canvas(video)
  /\ phase \in {"run", "trap"} => Allocated(video) = Canvas(video) \union {"status"}

\* The inductive invariant.
Invariant == Sound(video) /\ MenuMatches(video) /\ Stage

\* The menu's layer, shown or hidden with its user.
LEMMA MenuLayer ==
  ASSUME NEW v, Sound(v), NEW f, Good(f), ~f.shader, f.allocated = v.fb["ui"].allocated,
         f.showing <=> v.enabled["ui"]
  PROVE  LET w == On(v, "ui", f) IN
         Sound(w) /\ Kept(v, w) /\ MenuMatches(w)
<1> DEFINE w == On(v, "ui", f)
<1>1. /\ DOMAIN w = VideoFields /\ DOMAIN w.fb = Layers
      /\ w.enabled = v.enabled /\ w.flag = v.flag /\ w.setup = v.setup
      /\ w.fb["ui"] = f /\ \A k \in Layers \ {"ui"} : w.fb[k] = v.fb[k]
  BY OnLayer DEF Layers
<1> HIDE DEF w
<1>2. \A k \in Layers : /\ w.fb[k].allocated = v.fb[k].allocated
                        /\ Good(w.fb[k]) /\ (k # "vic" => ~w.fb[k].shader)
  BY <1>1 DEF Sound
<1>3. FlagsMatch(w) /\ MenuMatches(w)
  BY <1>1 DEF FlagsMatch, MenuMatches, Layers, Sound
<1>4. Sound(w)
  BY <1>1, <1>2, <1>3 DEF Sound
<1>5. QED
  BY <1>1, <1>2, <1>3, <1>4 DEF Kept, Allocated, w

\* Showing the menu when it is enabled.
LEMMA MenuShown ==
  ASSUME NEW v, Sound(v), v.enabled["ui"], "ui" \in Allocated(v)
  PROVE  LET w == On(v, "ui", Show(v.fb["ui"])) IN Sound(w) /\ Kept(v, w) /\ MenuMatches(w)
<1> DEFINE f == v.fb["ui"]
           g == Show(f)
<1>1. Good(f) /\ f.allocated /\ ~f.shader
  BY DEF Sound, Allocated, Layers
<1>2. Good(g) /\ g.showing /\ g.allocated = f.allocated /\ g.shader = f.shader
  BY <1>1, ShowGood
<1> HIDE DEF g
<1>3. LET w == On(v, "ui", g) IN Sound(w) /\ Kept(v, w) /\ MenuMatches(w)
  BY <1>1, <1>2, MenuLayer
<1>4. QED
  BY <1>3 DEF g

\* Hiding the menu when it is not.
LEMMA MenuHidden ==
  ASSUME NEW v, Sound(v), ~v.enabled["ui"]
  PROVE  LET w == On(v, "ui", Hide(v.fb["ui"])) IN Sound(w) /\ Kept(v, w) /\ MenuMatches(w)
<1> DEFINE f == v.fb["ui"]
           g == Hide(f)
<1>1. Good(f) /\ ~f.shader
  BY DEF Sound, Layers
<1>2. Good(g) /\ ~g.showing /\ g.allocated = f.allocated /\ g.shader = f.shader
  BY <1>1, HideGood
<1> HIDE DEF g
<1>3. LET w == On(v, "ui", g) IN Sound(w) /\ Kept(v, w) /\ MenuMatches(w)
  BY <1>1, <1>2, MenuLayer
<1>4. QED
  BY <1>3 DEF g

\* A layer that gets its buffer.
LEMMA AllocateLayer ==
  ASSUME NEW v, Sound(v), NEW l \in Layers, NEW f, Good(f), ~f.showing, f.allocated,
         ~v.fb[l].showing, l # "vic" => ~f.shader
  PROVE  LET w == On(v, l, f) IN
         /\ Sound(w) /\ (MenuMatches(v) => MenuMatches(w))
            /\ Allocated(w) = Allocated(v) \union {l}
         /\ w.setup = v.setup /\ w.display = v.display
<1> DEFINE w == On(v, l, f)
<1>1. /\ DOMAIN w = VideoFields /\ DOMAIN w.fb = Layers
      /\ w.enabled = v.enabled /\ w.flag = v.flag /\ w.setup = v.setup
         /\ w.display = v.display
      /\ w.fb[l] = f /\ \A k \in Layers \ {l} : w.fb[k] = v.fb[k]
  BY OnLayer
<1> HIDE DEF w
<1>2. /\ \A k \in Layers : Good(w.fb[k]) /\ (k # "vic" => ~w.fb[k].shader)
      /\ \A k \in Layers : w.fb[k].showing <=> v.fb[k].showing
  BY <1>1 DEF Sound
<1>3. FlagsMatch(w) /\ (MenuMatches(v) => MenuMatches(w))
  BY <1>1, <1>2 DEF FlagsMatch, MenuMatches, Layers, Sound
<1>4. Sound(w)
  BY <1>1, <1>2, <1>3 DEF Sound
<1>5. Allocated(w) = Allocated(v) \union {l}
  BY <1>1 DEF Allocated
<1>6. QED
  BY <1>1, <1>3, <1>4, <1>5 DEF w

\* A layer's first buffer.
LEMMA NewBuffer ==
  ASSUME NEW v, Sound(v), NEW l \in Layers, l \notin Allocated(v)
  PROVE  LET w == On(v, l, Allocate(v.fb[l], TRUE)) IN
         /\ Sound(w) /\ (MenuMatches(v) => MenuMatches(w))
            /\ Allocated(w) = Allocated(v) \union {l}
         /\ w.setup = v.setup /\ w.display = v.display
<1> DEFINE f == v.fb[l]
           g == Allocate(f, TRUE)
<1>1. Good(f) /\ (l # "vic" => ~f.shader) /\ ~f.allocated /\ ~f.showing
  BY DEF Sound, Allocated, Good
<1>2. Good(g) /\ ~g.showing /\ g.allocated /\ g.shader = f.shader
  BY <1>1, AllocateGood
<1> HIDE DEF g
<1>3. LET w == On(v, l, g) IN
         /\ Sound(w) /\ (MenuMatches(v) => MenuMatches(w))
            /\ Allocated(w) = Allocated(v) \union {l}
         /\ w.setup = v.setup /\ w.display = v.display
  BY <1>1, <1>2, AllocateLayer
<1>4. QED
  BY <1>3 DEF g

\* The overlay's buffer, with its palette.
LEMMA NewStatus ==
  ASSUME NEW v, Sound(v), "status" \notin Allocated(v)
  PROVE  LET w == On(v, "status", UpdatePalette(Allocate(v.fb["status"], TRUE))) IN
         /\ Sound(w) /\ (MenuMatches(v) => MenuMatches(w))
            /\ Allocated(w) = Allocated(v) \union {"status"}
         /\ w.setup = v.setup
<1> DEFINE f == v.fb["status"]
           g == Allocate(f, TRUE)
           h == [g EXCEPT !.committed = g.pal]
<1>0. "status" \in Layers
  BY DEF Layers
<1>1. Good(f) /\ ~f.shader /\ ~f.allocated /\ ~f.showing
  BY <1>0 DEF Sound, Allocated, Good
<1>2. Good(g) /\ ~g.showing /\ g.allocated /\ ~g.shader /\ ~g.init
  BY <1>1, AllocateGood
<1> HIDE DEF g
<1>3. UpdatePalette(g) = h
  BY <1>2 DEF UpdatePalette
<1>4. Good(h) /\ ~h.showing /\ h.allocated /\ ~h.shader
  BY <1>2 DEF Good, Shape, Fields, TextureSize
<1> HIDE DEF h
<1>5. LET w == On(v, "status", h) IN
         /\ Sound(w) /\ (MenuMatches(v) => MenuMatches(w))
            /\ Allocated(w) = Allocated(v) \union {"status"}
         /\ w.setup = v.setup
  BY <1>0, <1>1, <1>4, AllocateLayer
<1>6. QED
  BY <1>3, <1>5 DEF g

\* The invariant holds at the start.
LEMMA InvariantStart == Init => Invariant
<1> SUFFICES ASSUME Init PROVE Invariant
  OBVIOUS
<1>1. PICK s \in Setups :
         video = [fb |-> [l \in Layers |-> NewLayer], enabled |-> [u \in Users |-> u = "vic"],
                  flag |-> [u \in Users |-> FALSE], display |-> "vic", setup |-> s]
  BY DEF Init
<1>2. /\ DOMAIN video = VideoFields /\ video.fb = [l \in Layers |-> NewLayer]
      /\ video.enabled = [u \in Users |-> u = "vic"] /\ video.flag = [u \in Users |-> FALSE]
      /\ video.display = "vic" /\ video.setup = s
  BY <1>1 DEF VideoFields
<1>3. /\ video.enabled \in [Users -> BOOLEAN] /\ video.flag \in [Users -> BOOLEAN]
      /\ ~video.enabled["vdc"] /\ \A u \in Users : ~video.flag[u]
  BY <1>2 DEF Users
<1>4. \A l \in Layers : video.fb[l] = NewLayer
  BY <1>2
<1>5. \A l \in Layers : /\ Good(video.fb[l]) /\ ~video.fb[l].shader
                        /\ ~video.fb[l].showing /\ ~video.fb[l].allocated
  BY <1>4, NewLayerGood
<1>6. FlagsMatch(video) /\ MenuMatches(video)
  BY <1>3, <1>5 DEF FlagsMatch, MenuMatches, Layers, Users
<1>7. video.setup \in Setup
  BY <1>2, SetupsAssumption
<1>8. Sound(video)
  BY <1>2, <1>3, <1>5, <1>6, <1>7 DEF Sound
<1>9. Stage
  BY <1>2, <1>5 DEF Init, Stage, Allocated
<1>10. QED
  BY <1>6, <1>8, <1>9 DEF Invariant

\* The canvases get their buffers.
LEMMA CanvasesStep == Invariant /\ CreateCanvases => Invariant'
<1> SUFFICES ASSUME Invariant, CreateCanvases PROVE Invariant'
  OBVIOUS
<1> DEFINE vic == On(video, "vic", Allocate(video.fb["vic"], TRUE))
           vdc == On(vic, "vdc", Allocate(vic.fb["vdc"], TRUE))
           both == IF setup.c128 THEN vdc ELSE vic
<1>0. Sound(video) /\ MenuMatches(video) /\ Allocated(video) = {} /\ video.display = "vic"
  BY DEF Invariant, Stage, CreateCanvases
<1>1. /\ Sound(vic) /\ MenuMatches(vic) /\ Allocated(vic) = {"vic"}
      /\ vic.setup = video.setup /\ vic.display = "vic"
  BY <1>0, NewBuffer DEF Layers
<1> HIDE DEF vic
<1>2. /\ Sound(vdc) /\ MenuMatches(vdc) /\ Allocated(vdc) = Allocated(vic) \union {"vdc"}
      /\ vdc.setup = video.setup /\ vdc.display = "vic"
  BY <1>1, NewBuffer DEF Layers
<1> HIDE DEF vdc
<1>3. /\ Sound(both) /\ MenuMatches(both) /\ both.setup = video.setup /\ both.display = "vic"
      /\ Allocated(both) = {"vic"} \union IF video.setup.c128 THEN {"vdc"} ELSE {}
  BY <1>1, <1>2 DEF setup
<1>4. video' = VideoSettings(both, "vic", 1, 1) /\ phase' = "menu"
  BY DEF CreateCanvases, vic, vdc
<1> HIDE DEF both
<1>5. Steady(both, video') /\ "ui" \in Allocated(video')
  BY <1>3, <1>4, SettingsSteady
<1>6. Allocated(video') = Canvas(video')
  BY <1>3, <1>5 DEF Steady, Canvas
<1>7. QED
  BY <1>3, <1>4, <1>5, <1>6 DEF Invariant, Stage, Steady, Allocated, Canvas

\* build_menu.
LEMMA BuildStep == Invariant /\ BuildMenu => Invariant'
<1> SUFFICES ASSUME Invariant, BuildMenu PROVE Invariant'
  OBVIOUS
<1>1. PICK e \in BOOLEAN, c \in BOOLEAN, d \in ActiveDisplays \cup {"vic"} :
        phase = "menu" /\ phase' = "run" /\ video' = MenuBuilt(video, e, c, d)
  BY DEF BuildMenu
<1> DEFINE shaded == EnableShader(video, e, c)
           placed == VideoSettings(shaded, "vic", 1, 1)
           vdc == [placed EXCEPT !.display = d, !.enabled["vic"] = FALSE, !.enabled["vdc"] = TRUE]
           active == IF d = "vdc" THEN vdc ELSE placed
           second == IF video.setup.c128 THEN VideoSettings(active, "vdc", 1, 1) ELSE active
<1>2. Sound(video) /\ MenuMatches(video) /\ Allocated(video) = Canvas(video)
  BY <1>1 DEF Invariant, Stage
<1>3. Steady(video, shaded)
  BY <1>2, ShaderSteady DEF Canvas
<1>4. video' = On(second, "status", UpdatePalette(Allocate(second.fb["status"], TRUE)))
  BY <1>1 DEF MenuBuilt
<1> HIDE DEF shaded
<1>5. Steady(video, placed)
  BY <1>3, SettingsSteady, SteadyTrans DEF Steady
<1> HIDE DEF placed
<1>6. d = "vdc" => Steady(placed, vdc)
  BY <1>5, ActiveSteady DEF ActiveDisplays, setup, Steady
<1> HIDE DEF vdc
<1>7. Steady(video, active)
  BY <1>5, <1>6, SteadyTrans
<1> HIDE DEF active
<1>8. Steady(video, second)
  BY <1>7, SettingsSteady, SteadyTrans DEF Steady
<1> HIDE DEF second
<1>9. Sound(second) /\ MenuMatches(second) /\ Allocated(second) = Canvas(video)
      /\ second.setup = video.setup
  BY <1>2, <1>8 DEF Steady, Canvas
<1>10. /\ Sound(video') /\ MenuMatches(video')
          /\ Allocated(video') = Canvas(video) \union {"status"}
       /\ video'.setup = video.setup
  BY <1>4, <1>9, NewStatus DEF Canvas
<1>11. Canvas(video') = Canvas(video)
  BY <1>10 DEF Canvas
<1>12. QED
  BY <1>1, <1>10, <1>11 DEF Invariant, Stage, Allocated

\* "video" once the machine runs, between two operations.
Ready(v) == Sound(v) /\ MenuMatches(v) /\ Allocated(v) = Canvas(v) \union {"status"}

\* A change of the settings leaves it so.
LEMMA ReadySteady ==
  ASSUME NEW v, Ready(v), NEW w, Steady(v, w)
  PROVE  Ready(w)
  BY DEF Ready, Steady, Canvas

\* A viewer sees what the owner of the layer has drawn.
Seen(f) == f.showing => Visible(f) = f.pixels

\* Presenting a layer.
LEMMA PresentReady ==
  ASSUME NEW v, Ready(v), NEW l \in Allocated(v), NEW first \in BOOLEAN, first \/ l # "vic",
         NEW sync \in BOOLEAN
  PROVE  LET w == On(v, l, Present(v.fb[l], first, sync)) IN
         /\ Ready(w) /\ w.setup = v.setup /\ w.enabled = v.enabled /\ w.flag = v.flag
         /\ \A k \in Layers : w.fb[k].showing <=> v.fb[k].showing
         /\ Seen(w.fb[l])
         /\ \A k \in Layers \ {l} : w.fb[k] = v.fb[k]
<1> DEFINE w == On(v, l, Present(v.fb[l], first, sync))
<1>1. /\ Steady(v, w) /\ Kept(v, w) /\ w.enabled = v.enabled /\ w.flag = v.flag
      /\ w.fb[l].showing = v.fb[l].showing /\ w.fb[l].pixels = v.fb[l].pixels
      /\ v.fb[l].showing => Visible(w.fb[l]) = w.fb[l].pixels
      /\ \A k \in Layers \ {l} : w.fb[k] = v.fb[k]
  BY PresentSteady DEF Ready
<1> HIDE DEF w
<1>2. Ready(w) /\ w.setup = v.setup
  BY <1>1, ReadySteady DEF Steady
<1>3. \A k \in Layers : w.fb[k].showing <=> v.fb[k].showing
  BY <1>1
<1>4. Seen(w.fb[l])
  BY <1>1 DEF Seen
<1>5. QED
  BY <1>1, <1>2, <1>3, <1>4 DEF w

\* A user other than the menu is turned on or off.
LEMMA EnableReady ==
  ASSUME NEW v, Ready(v), NEW x \in Users \ {"ui"}, NEW on \in BOOLEAN,
         x = "vdc" /\ on => v.setup.c128
  PROVE  Ready(Enable(v, x, on)) /\ Enable(v, x, on).setup = v.setup
         /\ Enable(v, x, on).fb = v.fb
<1> DEFINE w == Enable(v, x, on)
<1>1. Sound(w) /\ Kept(v, w) /\ w.fb = v.fb /\ MenuMatches(w)
  BY EnableSound DEF Ready
<1> HIDE DEF w
<1>2. QED
  BY <1>1 DEF Ready, Kept, Canvas, w

\* Before a frame is presented, the enabled displays, overlays and dialogs are on
\* the screen, and nothing else; an overlay whose delay has just expired is
\* hidden by the next frame.
LEMMA BeforeShown ==
  ASSUME NEW v, Ready(v), NEW expired \in BOOLEAN, NEW dirty \in BOOLEAN
  PROVE  LET w == BeforeFrame(v, expired, dirty) IN
         /\ Ready(w) /\ w.setup = v.setup
         /\ \A l \in {"vic", "vdc"} : w.fb[l].showing <=> v.enabled[l]
         /\ w.fb["status"].showing <=> v.enabled["bar"] \/ v.enabled["vkbd"]
         /\ w.fb["ui"].showing <=> v.enabled["ui"]
<1> DEFINE shown == EnsureVideo(v)
           menu == PresentOne(shown, "ui", FALSE)
           dialog == IF shown.enabled["ui"] THEN menu ELSE shown
           overlay == dialog.flag["bar"] \/ dialog.flag["vkbd"]
           off == Enable(dialog, "bar", FALSE)
           checked == IF overlay /\ expired THEN off ELSE dialog
           status == PresentOne(checked, "status", FALSE)
           w == BeforeFrame(v, expired, dirty)
           Same(x) == \A l \in Layers : x.fb[l].showing <=> shown.fb[l].showing
<1>1. /\ Steady(v, shown)
      /\ \A l \in {"vic", "vdc"} : shown.fb[l].showing <=> v.enabled[l]
      /\ shown.fb["status"].showing <=> v.enabled["bar"] \/ v.enabled["vkbd"]
      /\ shown.fb["ui"].showing <=> v.enabled["ui"]
  BY EnsureSteady DEF Ready
<1>2. w \in {checked, status}
  BY DEF BeforeFrame
<1> HIDE DEF w
<1>3. Ready(shown) /\ shown.setup = v.setup
  BY <1>1, ReadySteady DEF Steady
<1> HIDE DEF shown
<1>4. Ready(menu) /\ menu.setup = v.setup /\ Same(menu)
  <2>1. "ui" \in Allocated(shown)
    BY <1>3 DEF Ready, Canvas
  <2>2. QED
    BY <1>3, <2>1, PresentReady DEF PresentOne
<1> HIDE DEF menu
<1>5. Ready(dialog) /\ dialog.setup = v.setup /\ Same(dialog)
  BY <1>3, <1>4
<1> HIDE DEF dialog
<1>6. Ready(off) /\ off.setup = v.setup /\ off.fb = dialog.fb
  BY <1>5, EnableReady DEF Users
<1> HIDE DEF off
<1>7. Ready(checked) /\ checked.setup = v.setup /\ Same(checked)
  BY <1>5, <1>6
<1> HIDE DEF checked
<1>8. Ready(status) /\ status.setup = v.setup /\ Same(status)
  <2>1. "status" \in Allocated(checked)
    BY <1>7 DEF Ready
  <2>2. QED
    BY <1>7, <2>1, PresentReady DEF PresentOne
<1> HIDE DEF status
<1>9. Ready(w) /\ w.setup = v.setup /\ Same(w)
  BY <1>2, <1>7, <1>8
<1>10. QED
  BY <1>1, <1>9 DEF w, Layers

\* After a frame both displays show their pictures.
LEMMA FramesSeen ==
  ASSUME NEW v, Ready(v), NEW sync \in BOOLEAN
  PROVE  LET w == FramesReady(v, sync) IN
         /\ Ready(w) /\ w.setup = v.setup
         /\ Seen(w.fb["vic"]) /\ Seen(w.fb["vdc"])
<1> DEFINE vic == PresentOne(v, "vic", sync)
           vdc == On(vic, "vdc", Present(vic.fb["vdc"], FALSE, sync))
           w == FramesReady(v, sync)
<1>1. w = IF v.setup.c128 THEN vdc ELSE vic
  BY DEF FramesReady
<1> HIDE DEF w
<1>2. Seen(vic.fb["vic"]) /\ Ready(vic) /\ vic.setup = v.setup
  <2>1. "vic" \in Allocated(v)
    BY DEF Ready, Canvas
  <2>2. LET x == On(v, "vic", Present(v.fb["vic"], TRUE, sync)) IN
        Ready(x) /\ x.setup = v.setup /\ Seen(x.fb["vic"])
    BY <2>1, PresentReady
  <2>3. QED
    BY <2>2 DEF PresentOne
<1> HIDE DEF vic
<1>3. Ready(vic) /\ vic.setup = v.setup
  BY <1>2
<1>4. CASE v.setup.c128
  <2>1. "vdc" \in Allocated(vic)
    BY <1>3, <1>4 DEF Ready, Canvas
  <2>2. /\ Ready(vdc) /\ vdc.setup = v.setup /\ Seen(vdc.fb["vdc"])
        /\ vdc.fb["vic"] = vic.fb["vic"]
    <3>1. \A first \in BOOLEAN :
            LET x == On(vic, "vdc", Present(vic.fb["vdc"], first, sync)) IN
            /\ Ready(x) /\ x.setup = vic.setup /\ Seen(x.fb["vdc"])
            /\ \A k \in Layers \ {"vdc"} : x.fb[k] = vic.fb[k]
      BY <1>3, <2>1, PresentReady
    <3>2. QED
      BY <1>3, <3>1 DEF Layers
  <2> HIDE DEF vdc
  <2>3. QED
    BY <1>1, <1>2, <1>4, <2>2 DEF w
<1>5. CASE ~v.setup.c128
  <2>1. Seen(vic.fb["vdc"])
    BY <1>3, <1>5 DEF Seen, Ready, Canvas, Allocated, Sound, Good, Layers
  <2>2. QED
    BY <1>1, <1>2, <1>3, <1>5, <2>1 DEF w
<1>6. QED
  BY <1>4, <1>5 DEF Ready, Sound, Setup

\* Swapping a layer that is shown directly changes its element.
LEMMA SwapChanges ==
  ASSUME NEW f, Good(f), f.showing, ~f.shader
  PROVE  Swap(f) # f
  BY DEF Good, Shape, Fields, Swap

\* A synchronised swap with a display on the screen waits for a blank: either an
\* element changes, or the GL swap waits.
LEMMA WaitsWhenShown ==
  ASSUME NEW v, Ready(v), "vic" \in Shown(v) \/ "vdc" \in Shown(v),
         NEW second, second = {v.fb[l] : l \in (IF v.setup.c128 THEN {"vdc"} ELSE {})}
  PROVE  Waits(v.fb["vic"], second, TRUE) >= 1
<1> DEFINE first == v.fb["vic"]
           waits == Waits(first, second, TRUE)
           gl == ~WillSync(first, second) /\ first.surface
           changes == \E f \in {first} \cup second : Swap(f) # f
<1>1. gl \/ changes => waits >= 1
  <2> DEFINE a == IF gl THEN 1 ELSE 0
             b == IF changes THEN 1 ELSE 0
  <2>1. waits = a + b
    BY DEF Waits
  <2>2. a \in {0, 1} /\ b \in {0, 1} /\ (gl => a = 1) /\ (changes => b = 1)
    OBVIOUS
  <2> HIDE DEF a, b, gl, changes, waits
  <2>3. QED
    BY <2>1, <2>2
<1>2. CASE v.fb["vdc"].showing
  <2>1. Good(v.fb["vdc"]) /\ ~v.fb["vdc"].shader /\ v.setup.c128
    BY <1>2 DEF Ready, Canvas, Allocated, Sound, Good, Layers
  <2>2. v.fb["vdc"] \in second /\ Swap(v.fb["vdc"]) # v.fb["vdc"]
    BY <1>2, <2>1, SwapChanges
  <2>3. changes
    BY <2>2
  <2>4. QED
    BY <1>1, <2>3
<1>3. CASE first.showing /\ ~first.shader
  <2>1. Swap(first) # first
    BY <1>3, SwapChanges DEF Ready, Sound, Layers
  <2>2. changes
    BY <2>1
  <2>3. QED
    BY <1>1, <2>2
<1>4. CASE first.showing /\ first.shader
  <2>1. first.surface
    BY <1>4 DEF Ready, Sound, Layers, Good
  <2>2. ~WillSync(first, second)
    BY <1>4 DEF WillSync
  <2>3. gl
    BY <2>1, <2>2
  <2>4. QED
    BY <1>1, <2>3
<1>5. first.showing \/ v.fb["vdc"].showing
  BY DEF Shown
<1>6. QED
  BY <1>2, <1>3, <1>4, <1>5 DEF Ready, Sound, Layers, Good, Shape

\* What is said of the last step.
Held == FrameIsSeen /\ EnabledIsShown /\ PacedByVblank

\* Nothing is said of a step that is neither a frame nor a round of the menu.
LEMMA OtherHeld == last = Other => Held
  BY DEF Held, FrameIsSeen, EnabledIsShown, PacedByVblank, Other, Step

\* The same of the next state.
LEMMA OtherHeldNext == last' = Other => Held'
  BY DEF Held, FrameIsSeen, EnabledIsShown, PacedByVblank, Other, Step

\* The invariant of the running machine, and back.
LEMMA RunningReady == Invariant /\ phase \in {"run", "trap"} => Ready(video)
  BY DEF Invariant, Stage, Ready

\* The invariant of the next state.
LEMMA ReadyNext == Ready(video') /\ phase' \in {"run", "trap"} => Invariant'
  BY DEF Invariant, Stage, Ready, Sound, MenuMatches, FlagsMatch, Allocated, Canvas

\* video_canvas_refresh.
LEMMA RefreshStep == Invariant /\ Refresh => Invariant' /\ Held'
<1> SUFFICES ASSUME Invariant, Refresh PROVE Invariant' /\ Held'
  OBVIOUS
<1>1. PICK l \in Canvases \cap setup.drawn, p \in Pictures : video' = Draw(video, l, p)
  BY DEF Refresh
<1>2. phase = "run" /\ phase' = "run" /\ last' = Other
  BY DEF Refresh
<1>3. l \in Layers
  BY DEF Canvases, Layers
<1>4. Ready(video)
  BY <1>2, RunningReady
<1>5. Ready(video')
  BY <1>1, <1>3, <1>4, DrawSteady, ReadySteady DEF Ready
<1>6. QED
  BY <1>2, <1>5, ReadyNext, OtherHeldNext

\* A quick function, or the machine itself.
LEMMA QuickStep == Invariant /\ QuickFunction => Invariant' /\ Held'
<1> SUFFICES ASSUME Invariant, QuickFunction PROVE Invariant' /\ Held'
  OBVIOUS
<1>1. phase = "run" /\ phase' = "run" /\ last' = Other
  BY DEF QuickFunction
<1>2. Ready(video)
  BY <1>1, RunningReady
<1>3. CASE \E u \in setup.overlays, on \in BOOLEAN : video' = Enable(video, u, on)
  <2>1. PICK u \in setup.overlays, on \in BOOLEAN : video' = Enable(video, u, on)
    BY <1>3
  <2>2. u \in Users \ {"ui", "vdc"}
    BY <1>2 DEF setup, Ready, Sound, Setup, Overlays, Users
  <2>3. Ready(video')
    BY <1>2, <2>1, <2>2, EnableReady
  <2>4. QED
    BY <1>1, <2>3, ReadyNext, OtherHeldNext
<1>4. CASE \E d \in ActiveDisplays : video' = SetDisplay(video, d)
  <2>1. PICK d \in ActiveDisplays : video' = SetDisplay(video, d)
    BY <1>4
  <2>2. video.setup.c128 /\ d \in {"vic", "vdc", "both"}
    BY DEF ActiveDisplays, setup
  <2>3. Ready(video')
    BY <1>2, <2>1, <2>2, DisplaySteady, ReadySteady DEF Ready
  <2>4. QED
    BY <1>1, <2>3, ReadyNext, OtherHeldNext
<1>5. QED
  BY <1>3, <1>4 DEF QuickFunction

\* The menu's layer shown or hidden with its user.
LEMMA ToggleReady ==
  ASSUME NEW v, Sound(v), Allocated(v) = Canvas(v) \union {"status"}
  PROVE  /\ v.enabled["ui"] => Ready(On(v, "ui", Show(v.fb["ui"])))
         /\ ~v.enabled["ui"] => Ready(On(v, "ui", Hide(v.fb["ui"])))
<1> DEFINE shown == On(v, "ui", Show(v.fb["ui"]))
           hidden == On(v, "ui", Hide(v.fb["ui"]))
<1>1. ASSUME v.enabled["ui"] PROVE Sound(shown) /\ Kept(v, shown) /\ MenuMatches(shown)
  BY <1>1, MenuShown DEF Canvas
<1>2. ASSUME ~v.enabled["ui"] PROVE Sound(hidden) /\ Kept(v, hidden) /\ MenuMatches(hidden)
  BY <1>2, MenuHidden
<1> HIDE DEF shown, hidden
<1>3. ASSUME NEW w, Sound(w), Kept(v, w), MenuMatches(w) PROVE Ready(w)
  BY <1>3 DEF Kept, Ready, Canvas
<1>4. QED
  BY <1>1, <1>2, <1>3 DEF shown, hidden

\* The menu enabled or not, its layer as before: MenuMatches may not hold.
LEMMA MenuEnabled ==
  ASSUME NEW v, Ready(v), NEW on \in BOOLEAN
  PROVE  LET w == Enable(v, "ui", on) IN
         /\ Sound(w) /\ Allocated(w) = Canvas(w) \union {"status"}
         /\ (w.enabled["ui"] <=> on) /\ w.fb = v.fb
<1> DEFINE w == Enable(v, "ui", on)
<1>1. Sound(w) /\ Kept(v, w) /\ w.fb = v.fb /\ w.enabled = [v.enabled EXCEPT !["ui"] = on]
  BY EnableSound DEF Ready, Users
<1> HIDE DEF w
<1>2. (w.enabled["ui"] <=> on)
  BY <1>1 DEF Ready, Sound, Users
<1>3. QED
  BY <1>1, <1>2 DEF Kept, Ready, Canvas, w

\* The trap starts.
LEMMA EnterStep == Invariant /\ EnterTrap => Invariant' /\ Held'
<1> SUFFICES ASSUME Invariant, EnterTrap PROVE Invariant' /\ Held'
  OBVIOUS
<1> DEFINE enabled == Enable(video, "ui", TRUE)
<1>1. /\ phase = "run" /\ phase' = "trap" /\ last' = Other
      /\ video' = On(enabled, "ui", Show(enabled.fb["ui"]))
  BY DEF EnterTrap
<1>2. Ready(video)
  BY <1>1, RunningReady
<1>3. Sound(enabled) /\ Allocated(enabled) = Canvas(enabled) \union {"status"}
      /\ enabled.enabled["ui"]
  BY <1>2, MenuEnabled
<1> HIDE DEF enabled
<1>4. Ready(video')
  BY <1>1, <1>3, ToggleReady
<1>5. QED
  BY <1>1, <1>4, ReadyNext, OtherHeldNext

\* An on-screen dialog opens or closes.
LEMMA DialogStep == Invariant /\ Dialog => Invariant' /\ Held'
<1> SUFFICES ASSUME Invariant, Dialog PROVE Invariant' /\ Held'
  OBVIOUS
<1> DEFINE on == Enable(video, "ui", TRUE)
           enabled == PresentOne(on, "ui", FALSE)
           closed == Enable(video, "ui", FALSE)
<1>1. /\ phase = "run" /\ phase' = "run" /\ last' = Other
      /\ video' = IF video.enabled["ui"] THEN On(closed, "ui", Hide(closed.fb["ui"]))
                  ELSE On(enabled, "ui", Show(enabled.fb["ui"]))
  BY DEF Dialog
<1>2. Ready(video)
  BY <1>1, RunningReady
<1>3. Sound(closed) /\ Allocated(closed) = Canvas(closed) \union {"status"}
      /\ ~closed.enabled["ui"]
  BY <1>2, MenuEnabled
<1>4. Sound(on) /\ Allocated(on) = Canvas(on) \union {"status"} /\ on.enabled["ui"]
  BY <1>2, MenuEnabled
<1> HIDE DEF on, closed
<1>5. Sound(enabled) /\ Allocated(enabled) = Canvas(enabled) \union {"status"}
      /\ enabled.enabled["ui"]
  <2>1. "ui" \in Allocated(on)
    BY <1>4 DEF Canvas
  <2>2. LET w == On(on, "ui", Present(on.fb["ui"], TRUE, FALSE)) IN
        Steady(on, w) /\ Kept(on, w) /\ w.enabled = on.enabled
    BY <1>4, <2>1, PresentSteady
  <2>3. Steady(on, enabled) /\ Kept(on, enabled) /\ enabled.enabled = on.enabled
    BY <2>2 DEF PresentOne
  <2> HIDE DEF enabled
  <2>4. QED
    BY <1>4, <2>3 DEF Steady, Kept, Canvas
<1> HIDE DEF enabled
<1>6. Ready(video')
  BY <1>1, <1>3, <1>5, ToggleReady
<1>7. QED
  BY <1>1, <1>6, ReadyNext, OtherHeldNext

\* "video" of the running machine, while the menu may be closing.
Whole(v) == Sound(v) /\ Allocated(v) = Canvas(v) \union {"status"}

\* A round of the trap shows the menu's last picture.
LEMMA AfterKeySeen ==
  ASSUME NEW v, Whole(v), NEW p
  PROVE  LET w == AfterKey(v, p) IN
         /\ Whole(w) /\ (MenuMatches(v) => MenuMatches(w))
         /\ (w.enabled["ui"] <=> v.enabled["ui"]) /\ Seen(w.fb["ui"])
<1> DEFINE drawn == Draw(v, "ui", p)
           put == PresentOne(drawn, "ui", TRUE)
           w == EnsureVideo(put)
           After(x) == Whole(x) /\ (MenuMatches(v) => MenuMatches(x))
           /\ (x.enabled["ui"] <=> v.enabled["ui"])
<1>0. \A x, y : After(x) /\ Steady(x, y) => After(y)
  BY DEF Whole, Steady, Canvas
<1>1. After(v)
  OBVIOUS
<1>2. Steady(v, drawn)
  BY DrawSteady DEF Whole, Layers
<1> HIDE DEF drawn
<1> HIDE DEF After
<1>3. After(drawn)
  BY <1>0, <1>1, <1>2
<1>4. Steady(drawn, put) /\ Seen(put.fb["ui"])
  <2>1. "ui" \in Allocated(drawn) /\ Sound(drawn)
    BY <1>3 DEF After, Whole, Canvas
  <2>2. LET x == On(drawn, "ui", Present(drawn.fb["ui"], TRUE, TRUE)) IN
        /\ Steady(drawn, x) /\ x.fb["ui"].showing = drawn.fb["ui"].showing
        /\ drawn.fb["ui"].showing => Visible(x.fb["ui"]) = x.fb["ui"].pixels
    BY <2>1, PresentSteady
  <2>3. QED
    BY <2>2 DEF PresentOne, Seen
<1> HIDE DEF put
<1>5. After(put)
  BY <1>0, <1>3, <1>4
<1>6. /\ Steady(put, w)
      /\ w.fb["ui"].showing => IF put.fb["ui"].showing THEN w.fb["ui"] = put.fb["ui"]
                               ELSE Visible(w.fb["ui"]) = w.fb["ui"].pixels
  <2>1. Sound(put) /\ Canvas(put) \union {"status"} \subseteq Allocated(put)
    BY <1>5 DEF After, Whole
  <2>2. QED
    BY <2>1, EnsureSteady
<1> HIDE DEF w
<1>7. After(w)
  BY <1>0, <1>5, <1>6
<1>8. Seen(w.fb["ui"])
  BY <1>4, <1>6 DEF Seen
<1>9. AfterKey(v, p) = w
  BY DEF AfterKey, w, put, drawn
<1>10. QED
  BY <1>7, <1>8, <1>9 DEF After

\* Whatever a key in the menu changes.
LEMMA MenuSteady ==
  ASSUME Ready(video), NEW v \in MenuChanges(video)
  PROVE  Ready(v)
<1>0. /\ Sound(video) /\ "vic" \in Allocated(video)
      /\ setup.overlays \subseteq Overlays /\ setup.c128 = video.setup.c128
      /\ \A l \in Canvases : l \in {"vic", "vdc"}
  BY DEF Ready, Canvas, Sound, Setup, setup, Canvases
<1>1. CASE v = video
  BY <1>1
<1>2. CASE \E e, c \in BOOLEAN : v = EnableShader(video, e, c)
  BY <1>0, <1>2, ShaderSteady, ReadySteady
<1>3. CASE \E c \in BOOLEAN : v = ShaderParams(video, c)
  BY <1>0, <1>3, ParamsSteady, ReadySteady
<1>4. CASE \E l \in Canvases, g \in setup.geometries : v = VideoSettings(video, l, g, g)
  BY <1>0, <1>4, SettingsSteady, ReadySteady
<1>5. CASE \E d \in ActiveDisplays : v = SetDisplay(video, d)
  <2>1. PICK d \in ActiveDisplays : v = SetDisplay(video, d)
    BY <1>5
  <2>2. video.setup.c128 /\ d \in {"vic", "vdc", "both"}
    BY DEF ActiveDisplays, setup
  <2>3. QED
    BY <1>0, <2>1, <2>2, DisplaySteady, ReadySteady
<1>6. CASE \E l \in Canvases, p \in setup.palettes : v = CanvasPalette(video, l, p)
  BY <1>0, <1>6, PaletteSteady, ReadySteady
<1>7. CASE v = StatusPadding(video)
  BY <1>0, <1>7, PaddingSteady, ReadySteady
<1>8. CASE \E u \in setup.overlays, on \in BOOLEAN : v = Enable(video, u, on)
  <2>1. PICK u \in setup.overlays, on \in BOOLEAN : v = Enable(video, u, on)
    BY <1>8
  <2>2. u \in Users \ {"ui", "vdc"}
    BY <1>0 DEF Overlays, Users
  <2>3. QED
    BY <2>1, <2>2, EnableReady
<1>9. QED
  BY <1>1, <1>2, <1>3, <1>4, <1>5, <1>6, <1>7, <1>8 DEF MenuChanges

\* A round of the trap.
LEMMA RoundStep == Invariant /\ TrapRound => Invariant' /\ Held'
<1> SUFFICES ASSUME Invariant, TrapRound PROVE Invariant' /\ Held'
  OBVIOUS
<1>1. PICK v \in MenuChanges(video), p \in MenuPictures : video' = AfterKey(v, p)
  BY DEF TrapRound
<1>2. phase = "trap" /\ phase' = "trap" /\ last' = [Other EXCEPT !.step = "round"]
  BY DEF TrapRound
<1>3. Ready(v)
  BY <1>2, MenuSteady, RunningReady
<1>4. Ready(video') /\ Seen(video'.fb["ui"])
  BY <1>1, <1>3, AfterKeySeen DEF Ready, Whole
<1>5. last'.step = "round" /\ ~last'.sync
  BY <1>2 DEF Other, Step
<1>6. FrameIsSeen'
  BY <1>4, <1>5 DEF FrameIsSeen, Seen
<1>7. Held'
  BY <1>5, <1>6 DEF Held, EnabledIsShown, PacedByVblank
<1>8. QED
  BY <1>2, <1>4, <1>7, ReadyNext

\* The trap ends.
LEMMA LeaveStep == Invariant /\ LeaveTrap => Invariant' /\ Held'
<1> SUFFICES ASSUME Invariant, LeaveTrap PROVE Invariant' /\ Held'
  OBVIOUS
<1> DEFINE off == Enable(video, "ui", FALSE)
           round(p) == AfterKey(off, p)
<1>1. PICK p \in MenuPictures : video' = On(round(p), "ui", Hide(round(p).fb["ui"]))
  BY DEF LeaveTrap
<1>2. phase = "trap" /\ phase' = "run" /\ last' = Other
  BY DEF LeaveTrap
<1>3. Whole(off) /\ ~off.enabled["ui"]
  BY <1>2, RunningReady, MenuEnabled DEF Whole
<1> HIDE DEF off
<1>4. Whole(round(p)) /\ ~round(p).enabled["ui"]
  BY <1>3, AfterKeySeen
<1> HIDE DEF round
<1>5. Ready(video')
  BY <1>1, <1>4, ToggleReady DEF Whole
<1>6. QED
  BY <1>2, <1>5, ReadyNext, OtherHeldNext

\* A frame.
LEMMA FrameStep ==
  ASSUME Invariant, NEW sync \in BOOLEAN, Frame(sync)
  PROVE  Invariant' /\ Held'
<1> DEFINE before(e, d) == BeforeFrame(video, e, d)
           Second(v) == {v.fb[l] : l \in Canvases \ {"vic"}}
<1>1. PICK e \in BOOLEAN, d \in BOOLEAN :
         /\ phase = "run" /\ phase' = "run"
         /\ video' = FramesReady(before(e, d), sync)
         /\ last' = Step("frame", sync, Waits(before(e, d).fb["vic"], Second(before(e, d)), sync),
                         Shown(before(e, d)), Wanted(video))
  BY DEF Frame
<1> DEFINE b == before(e, d)
<1>2. Ready(video)
  BY <1>1, RunningReady
<1>3. /\ Ready(b) /\ b.setup = video.setup
      /\ \A l \in {"vic", "vdc"} : b.fb[l].showing <=> video.enabled[l]
      /\ b.fb["status"].showing <=> video.enabled["bar"] \/ video.enabled["vkbd"]
      /\ b.fb["ui"].showing <=> video.enabled["ui"]
  BY <1>2, BeforeShown
<1>4. /\ video' = FramesReady(b, sync)
      /\ last' = Step("frame", sync, Waits(b.fb["vic"], Second(b), sync), Shown(b), Wanted(video))
  BY <1>1
<1> HIDE DEF b
<1>5. Ready(video') /\ Seen(video'.fb["vic"]) /\ Seen(video'.fb["vdc"])
  BY <1>3, <1>4, FramesSeen
<1>6. /\ last'.step = "frame" /\ last'.sync = sync /\ last'.on = Shown(b)
      /\ last'.wanted = Wanted(video) /\ last'.waits = Waits(b.fb["vic"], Second(b), sync)
  BY <1>4 DEF Step
<1>7. FrameIsSeen'
  BY <1>5, <1>6 DEF FrameIsSeen, Seen
<1>8. EnabledIsShown'
  <2>1. \A l \in Layers : l \in Shown(b) <=> l \in Wanted(video)
    BY <1>3 DEF Shown, Wanted, LayerOf, Overlays, Users, Layers
  <2>2. Shown(b) \subseteq Layers /\ Wanted(video) \subseteq Layers
    BY DEF Shown, Wanted, LayerOf, Overlays, Users, Layers
  <2>3. Shown(b) = Wanted(video)
    BY <2>1, <2>2
  <2>4. QED
    BY <1>6, <2>3 DEF EnabledIsShown
<1>9. PacedByVblank'
  <2>1. CASE ~(sync /\ Shown(b) \cap {"vic", "vdc"} # {})
    BY <1>6, <2>1 DEF PacedByVblank
  <2>2. CASE sync /\ Shown(b) \cap {"vic", "vdc"} # {}
    <3>1. Canvases \ {"vic"} = IF b.setup.c128 THEN {"vdc"} ELSE {}
      BY <1>3 DEF Canvases, setup
    <3>2. Second(b) = {b.fb[l] : l \in (IF b.setup.c128 THEN {"vdc"} ELSE {})}
      BY <3>1
    <3> HIDE DEF Second
    <3>3. Waits(b.fb["vic"], Second(b), TRUE) >= 1
      BY <1>3, <2>2, <3>2, WaitsWhenShown
    <3>4. QED
      BY <1>6, <2>2, <3>3 DEF PacedByVblank
  <2>3. QED
    BY <2>1, <2>2
<1>10. QED
  BY <1>1, <1>5, <1>7, <1>8, <1>9, ReadyNext DEF Held

----------------------------------------------------------------------------

\* The layers and the flags of their clients stay in step in every behaviour,
\* for any machine, any pictures, palettes and geometries.
THEOREM FrameInvariant == Spec => [](Invariant /\ Held)
<1>1. Init => Invariant /\ Held
  BY InvariantStart, OtherHeld DEF Init
<1>2. Invariant /\ Held /\ [Next]_vars => Invariant' /\ Held'
  <2> SUFFICES ASSUME Invariant, Held, [Next]_vars PROVE Invariant' /\ Held'
    OBVIOUS
  <2>1. CASE CreateCanvases
    BY <2>1, CanvasesStep, OtherHeldNext DEF CreateCanvases
  <2>2. CASE BuildMenu
    BY <2>2, BuildStep, OtherHeldNext DEF BuildMenu
  <2>3. CASE Refresh
    BY <2>3, RefreshStep
  <2>4. CASE \E sync \in BOOLEAN : Frame(sync)
    BY <2>4, FrameStep
  <2>5. CASE QuickFunction
    BY <2>5, QuickStep
  <2>6. CASE Dialog
    BY <2>6, DialogStep
  <2>7. CASE EnterTrap
    BY <2>7, EnterStep
  <2>8. CASE TrapRound
    BY <2>8, RoundStep
  <2>9. CASE LeaveTrap
    BY <2>9, LeaveStep
  <2>10. CASE UNCHANGED vars
    <3>1. video' = video /\ phase' = phase /\ last' = last
      BY <2>10 DEF vars
    <3>2. Invariant'
      BY <3>1 DEF Invariant, Stage
    <3>3. Held'
      BY <3>1 DEF Held, FrameIsSeen, EnabledIsShown, PacedByVblank
    <3>4. QED
      BY <3>2, <3>3
  <2>11. QED
    BY <2>1, <2>2, <2>3, <2>4, <2>5, <2>6, <2>7, <2>8, <2>9, <2>10 DEF Next
<1>3. QED
  BY <1>1, <1>2, PTL DEF Spec

\* No assertion of fbl.cpp fails, no layer is used that is not allocated and
\* nothing is drawn with a destroyed shader (Allocate, Show, ReAllocate,
\* FrameReady).
THEOREM CallsAlwaysLegal == Spec => []CallsLegal
<1>1. Invariant /\ Held => CallsLegal
  BY DEF Invariant, Sound, Good, CallsLegal
<1>2. QED
  BY <1>1, FrameInvariant, PTL

\* vic_showing, vdc_showing and the overlays' flags say what the layers show
\* (emux_ensure_video and all who hide a layer themselves).
THEOREM LayersAlwaysMatchFlags == Spec => []LayersMatchFlags
<1>1. Invariant /\ Held => LayersMatchFlags
  BY DEF Invariant, Sound, FlagsMatch, MenuMatches, LayersMatchFlags
<1>2. QED
  BY <1>1, FrameInvariant, PTL

\* A compiled shader has the texture, the place and the palette of its layer
\* (ShaderInit, ShaderUpdate, UpdatePalette, SetSrcRect).
THEOREM ShaderAlwaysCurrent == Spec => []ShaderCurrent
<1>1. Invariant /\ Held => ShaderCurrent
  BY DEF Invariant, Sound, Good, ShaderCurrent, VisiblePalette, Shape
<1>2. QED
  BY <1>1, FrameInvariant, PTL

\* After vsyncarch_postsync, and after a round of the menu, the picture on the
\* screen is the one drawn last (FrameReady, SwapResources).
THEOREM FrameAlwaysSeen == Spec => []FrameIsSeen
<1>1. Invariant /\ Held => FrameIsSeen
  BY DEF Held
<1>2. QED
  BY <1>1, FrameInvariant, PTL

\* A frame is presented with exactly what is enabled on the screen
\* (emux_ensure_video before circle_frames_ready_fbl).
THEOREM EnabledAlwaysShown == Spec => []EnabledIsShown
<1>1. Invariant /\ Held => EnabledIsShown
  BY DEF Held
<1>2. QED
  BY <1>1, FrameInvariant, PTL

\* A synchronised frame with a display on the screen waits for a vertical blank
\* (the prediction in SwapResources).
THEOREM AlwaysPacedByVblank == Spec => []PacedByVblank
<1>1. Invariant /\ Held => PacedByVblank
  BY DEF Held
<1>2. QED
  BY <1>1, FrameInvariant, PTL
====
