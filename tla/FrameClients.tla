---- MODULE FrameClients ----
(***************************************************************************)
(* Who uses the framebuffer layers: the emulator's frame (videoarch.c),    *)
(* the switch of what is shown (emux_api.c), the menu in the pause trap    *)
(* (menu.c, ui.c) and the status bar with the virtual keyboard             *)
(* (overlay.c).  All of them run on core 1, one after the other; what can  *)
(* go wrong is the order, since they keep flags of their own for what they *)
(* believe the layers show.                                                *)
(***************************************************************************)
EXTENDS FrameLayers, FiniteSets

CONSTANT Setups   \* the machines, and what is to change on each of them

Layers == {"vic", "vdc", "status", "ui"}
\* What is enabled and shown has a flag each; two of them share a layer.
Users == {"vic", "vdc", "bar", "vkbd", "ui"}
Overlays == {"bar", "vkbd"}
LayerOf(u) == IF u \in Overlays THEN "status" ELSE u

\* c128: whether there is a second display; drawn: the layers whose picture,
\* palette and geometry change; overlays: which are turned on and off.
Setup == [c128 : BOOLEAN, drawn : SUBSET Layers, overlays : SUBSET Overlays,
          palettes : SUBSET Palettes, geometries : SUBSET Geometries]

VARIABLES
  video,    \* the layers, the flags *_enabled and *_showing, the active display;
            \* the setup, which never changes
  phase,    \* "canvas", "menu" while starting, then "run" and "trap"
  last      \* the last step: what it was and, of a frame, whether it was
            \* synchronised, the vertical blanks waited for, the layers on the
            \* screen and the layers of what was enabled

vars == <<video, phase, last>>

ASSUME SetupsAssumption == Setups \subseteq Setup

setup == video.setup
ActiveDisplays == IF setup.c128 THEN {"vic", "vdc", "both"} ELSE {}
Canvases == IF setup.c128 THEN {"vic", "vdc"} ELSE {"vic"}

\* Operations on "video" are operators from one of its values to the next.
On(v, layer, f) == [v EXCEPT !.fb[layer] = f]
Shown(v) == {l \in Layers : v.fb[l].showing}

\* emux_ensure_video
OpenStatus(v)  == \E u \in Overlays : v.enabled[u] /\ ~v.flag[u]
CloseStatus(v) == \E u \in Overlays : ~v.enabled[u] /\ v.flag[u]

NextFlag(v, u) ==
  IF u \in {"vic", "vdc"} THEN v.enabled[u]
  ELSE IF u = "ui" \/ OpenStatus(v) THEN v.flag[u] \/ v.enabled[u]
  ELSE v.flag[u] /\ v.enabled[u]

EnsureVideo(v) ==
  LET flag == [u \in Users |-> NextFlag(v, u)]
      Opened(l) == \/ \E u \in Users \ Overlays : LayerOf(u) = l /\ flag[u] /\ ~v.flag[u]
                   \/ l = "status" /\ OpenStatus(v)
      Closed(l) == \/ l \in {"vic", "vdc"} /\ v.flag[l] /\ ~flag[l]
                   \/ /\ l = "status" /\ ~OpenStatus(v) /\ CloseStatus(v)
                      /\ ~flag["bar"] /\ ~flag["vkbd"]
  IN  [v EXCEPT !.flag = flag,
                !.fb = [l \in Layers |-> CASE Opened(l) -> Show(v.fb[l])
                                           [] Closed(l) -> Hide(v.fb[l])
                                           [] OTHER -> v.fb[l]]]

\* emux_apply_video_adjustments; a new size of the VIC's buffer gives the UI a
\* new one (ui_geometry_changed), which happens once, when the buffer appears.
\* Mutant: the flag is left set.
AdjustKeepsFlag(v, l, src, stretch) ==
  LET hidden == On(v, l, Hide(v.fb[l]))
      placed == On(hidden, l, SetSrcRect(SetStretch(hidden.fb[l], stretch), src))
      ui     == placed.fb["ui"]
  IN  IF l = "vic" /\ ~ui.allocated
      THEN On(placed, "ui", [Allocate(ui, TRUE) EXCEPT !.pixels = None])
      ELSE placed

Adjust(v, l, src, stretch) ==
  LET hidden == [On(v, l, Hide(v.fb[l])) EXCEPT !.flag[l] = FALSE]
      placed == On(hidden, l, SetSrcRect(SetStretch(hidden.fb[l], stretch), src))
      ui     == placed.fb["ui"]
  IN  IF l = "vic" /\ ~ui.allocated
      THEN On(placed, "ui", [Allocate(ui, TRUE) EXCEPT !.pixels = None])
      ELSE placed

\* do_video_settings: the UI follows the VIC, and a display that is not active
\* is left alone.
VideoSettings(v, l, src, stretch) ==
  LET own == Adjust(v, l, src, stretch)
  IN  IF v.display \notin {l, "both"} THEN v
      ELSE IF l = "vic" THEN Adjust(own, "ui", src, stretch) ELSE own

\* menu_value_changed for the active display and for the shader
SetDisplay(v, d) ==
  LET w == [v EXCEPT !.display = d, !.enabled["vic"] = d # "vdc",
                     !.enabled["vdc"] = d # "vic"]
      Same(x, l) == VideoSettings(x, l, x.fb[l].src, x.fb[l].stretch)
  IN  Same(Same(w, "vic"), "vdc")

\* Mutant: the flag is left set.
ShaderParamsKeepsFlag(v, curvature) ==
  On(v, "vic", SetShaderParams(v.fb["vic"], curvature))

ShaderParams(v, curvature) ==
  [On(v, "vic", SetShaderParams(v.fb["vic"], curvature)) EXCEPT !.flag["vic"] = FALSE]

EnableShader(v, enable, curvature) ==
  ShaderParams(On(v, "vic", ReAllocate(v.fb["vic"], enable)), curvature)

\* video_canvas_set_palette
CanvasPalette(v, l, p) == On(v, l, UpdatePalette(SetPalette(v.fb[l], p)))

\* overlay_change_padding
StatusPadding(v) ==
  [On(v, "status", Hide(v.fb["status"])) EXCEPT !.flag["bar"] = FALSE, !.flag["vkbd"] = FALSE]

Enable(v, u, on) == [v EXCEPT !.enabled[u] = on]

Step(step, sync, waits, on, wanted) ==
  [step |-> step, sync |-> sync, waits |-> waits, on |-> on, wanted |-> wanted]
Other == Step("other", FALSE, 0, {}, {})
Wanted(v) == {LayerOf(u) : u \in {x \in Users : v.enabled[x]}}

Init ==
  /\ \E s \in Setups : video = [fb |-> [l \in Layers |-> NewLayer],
              enabled |-> [u \in Users |-> u = "vic"],
              flag |-> [u \in Users |-> FALSE], display |-> "vic", setup |-> s]
  /\ phase = "canvas" /\ last = Other

\* The canvases get their buffers, the VIC's at its first refresh.
CreateCanvases ==
  LET vic == On(video, "vic", Allocate(video.fb["vic"], TRUE))
      both == IF setup.c128 THEN On(vic, "vdc", Allocate(vic.fb["vdc"], TRUE)) ELSE vic
  IN  /\ phase = "canvas" /\ phase' = "menu"
      /\ video' = VideoSettings(both, "vic", 1, 1)
      /\ last' = Other

\* build_menu applies the settings and creates the overlay.
MenuBuilt(v, enable, curvature, d) ==
  LET shaded == EnableShader(v, enable, curvature)
      placed == VideoSettings(shaded, "vic", 1, 1)
      active == IF d = "vdc" THEN [placed EXCEPT !.display = d, !.enabled["vic"] = FALSE,
                                                 !.enabled["vdc"] = TRUE]
                ELSE placed
      second == IF v.setup.c128 THEN VideoSettings(active, "vdc", 1, 1) ELSE active
  IN  On(second, "status", UpdatePalette(Allocate(second.fb["status"], TRUE)))

BuildMenu ==
  \E enable, curvature \in BOOLEAN, d \in ActiveDisplays \cup {"vic"} :
    /\ phase = "menu" /\ phase' = "run"
    /\ video' = MenuBuilt(video, enable, curvature, d)
    /\ last' = Other

Draw(v, l, p) == IF l \in setup.drawn THEN On(v, l, [v.fb[l] EXCEPT !.pixels = p]) ELSE v

\* video_canvas_refresh
Refresh ==
  \E l \in Canvases \cap setup.drawn, p \in Pictures :
    /\ phase = "run"
    /\ video' = Draw(video, l, p)
    /\ last' = Other /\ UNCHANGED phase

PresentOne(v, l, sync) == On(v, l, Present(v.fb[l], TRUE, sync))

\* vsyncarch_postsync: show what is enabled, then an on-screen dialog, the
\* overlay (whose delay may have expired), and the frame.
BeforeFrame(v, expired, dirty) ==
  LET shown   == EnsureVideo(v)
      dialog  == IF shown.enabled["ui"] THEN PresentOne(shown, "ui", FALSE) ELSE shown
      overlay == dialog.flag["bar"] \/ dialog.flag["vkbd"]
      checked == IF overlay /\ expired THEN Enable(dialog, "bar", FALSE) ELSE dialog
  IN  IF overlay /\ dirty THEN PresentOne(checked, "status", FALSE) ELSE checked

FramesReady(v, sync) ==
  LET vic == PresentOne(v, "vic", sync)
  IN  IF v.setup.c128 THEN On(vic, "vdc", Present(vic.fb["vdc"], FALSE, sync)) ELSE vic

Frame(sync) ==
  \E expired, dirty \in BOOLEAN :
    LET before == BeforeFrame(video, expired, dirty)
    IN  /\ phase = "run"
        /\ video' = FramesReady(before, sync)
        /\ last' = Step("frame", sync,
                        Waits(before.fb["vic"], {before.fb[l] : l \in Canvases \ {"vic"}}, sync),
                        Shown(before), Wanted(video))
        /\ UNCHANGED phase

\* Quick functions and the machine itself (a drive's light, the 40/80 key) act
\* between two frames.
QuickFunction ==
  /\ phase = "run"
  /\ \/ \E u \in setup.overlays, on \in BOOLEAN : video' = Enable(video, u, on)
     \/ \E d \in ActiveDisplays : video' = SetDisplay(video, d)
  /\ last' = Other /\ UNCHANGED phase

\* ui_enable_osd, and ui_dismiss_osd_if_active with ui_pop_all_and_toggle
Dialog ==
  LET enabled == PresentOne(Enable(video, "ui", TRUE), "ui", FALSE)
      closed  == Enable(video, "ui", FALSE)
  IN  /\ phase = "run"
      /\ video' = IF video.enabled["ui"] THEN On(closed, "ui", Hide(closed.fb["ui"]))
                  ELSE On(enabled, "ui", Show(enabled.fb["ui"]))
      /\ last' = Other /\ UNCHANGED phase

\* emu_pause_trap
EnterTrap ==
  LET enabled == Enable(video, "ui", TRUE)
  IN  /\ phase = "run" /\ ~video.enabled["ui"] /\ phase' = "trap"
      /\ video' = On(enabled, "ui", Show(enabled.fb["ui"]))
      /\ last' = Other

\* What a key in the menu may do.
MenuChanges(v) ==
  {v} \cup {EnableShader(v, e, c) : e, c \in BOOLEAN}
      \cup {ShaderParams(v, c) : c \in BOOLEAN}
      \cup {VideoSettings(v, l, g, g) : l \in Canvases \cap setup.drawn, g \in setup.geometries}
      \cup {SetDisplay(v, d) : d \in ActiveDisplays}
      \cup {CanvasPalette(v, l, p) : l \in Canvases \cap setup.drawn, p \in setup.palettes}
      \cup {StatusPadding(v)}
      \cup {Enable(v, u, on) : u \in setup.overlays, on \in BOOLEAN}

\* A round of the trap's loop after a key: the menu's picture, the layers.
AfterKey(v, p) == EnsureVideo(PresentOne(Draw(v, "ui", p), "ui", TRUE))
MenuPictures == IF "ui" \in setup.drawn THEN Pictures ELSE {CHOOSE p \in Pictures : TRUE}

TrapRound ==
  \E v \in MenuChanges(video), p \in MenuPictures :
    /\ phase = "trap"
    /\ video' = AfterKey(v, p)
    /\ last' = [Other EXCEPT !.step = "round"] /\ UNCHANGED phase

\* The key that leaves the menu ends the loop after its round.
LeaveTrap ==
  \E p \in MenuPictures :
    LET round == AfterKey(Enable(video, "ui", FALSE), p)
    IN  /\ phase = "trap" /\ phase' = "run"
        /\ video' = On(round, "ui", Hide(round.fb["ui"]))
        /\ last' = Other

Next ==
  \/ CreateCanvases \/ BuildMenu \/ Refresh \/ \E sync \in BOOLEAN : Frame(sync)
  \/ QuickFunction \/ Dialog \/ EnterTrap \/ TrapRound \/ LeaveTrap

Spec == Init /\ [][Next]_vars

----------------------------------------------------------------------------
\* No assertion of fbl.cpp fails, no resource is written and no layer is shown
\* that is not allocated, and nothing is drawn with a shader that has been
\* destroyed, whatever order the clients' calls come in (Allocate, Show,
\* ReAllocate, FrameReady).
CallsLegal == \A l \in Layers : ~video.fb[l].fault

\* The clients' flags agree with the layers: each of vic_showing and
\* vdc_showing with its layer, the status bar's and the virtual keyboard's
\* together with the one they share; the menu is on the screen only if enabled.
LayersMatchFlags ==
  phase \in {"run", "trap"} =>
    /\ \A l \in {"vic", "vdc"} : video.fb[l].showing <=> video.flag[l]
    /\ video.fb["status"].showing <=> video.flag["bar"] \/ video.flag["vkbd"]
    /\ video.fb["ui"].showing => video.enabled["ui"]

\* A compiled shader's texture has the size the pixels are uploaded with, it
\* draws where the layer was placed last, and what is shown uses the palette
\* that was set last, through the shader or not, however the shader was turned
\* on, off or changed in between (ShaderInit, ShaderUpdate, UpdatePalette).
ShaderCurrent ==
  \A l \in Layers : LET f == video.fb[l] IN
    /\ f.init => f.texture = TextureSize(f)
    /\ f.showing /\ f.shader => f.quad = f.dst
    /\ f.showing => VisiblePalette(f) = f.pal

\* After a frame, and after a round of the menu, a viewer sees in each layer
\* the picture its owner had drawn, not the one before, whether the frame was
\* synchronised, in the first or the second resource, or through the shader.
FrameIsSeen ==
  \A l \in Layers :
    /\ video.fb[l].showing
    /\ \/ last.step = "frame" /\ l \in {"vic", "vdc"}
       \/ last.step = "round" /\ l = "ui"
    => Visible(video.fb[l]) = video.fb[l].pixels

\* Every frame is presented with exactly the enabled displays, overlays and
\* dialogs on the screen, whatever hid them since the frame before.
EnabledIsShown == last.step = "frame" => last.on = last.wanted

\* A synchronised frame with one of the displays on the screen waits for a
\* vertical blank: the prediction of SwapResources never misses one.
PacedByVblank == last.sync /\ last.on \cap {"vic", "vdc"} # {} => last.waits >= 1
====
