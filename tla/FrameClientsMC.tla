---- MODULE FrameClientsMC ----
(***************************************************************************)
(* Two machines: a C64 whose picture, palette and geometry change together *)
(* with the menu's and both overlays, and a C128 with two displays, where  *)
(* the second one is drawn.                                                *)
(***************************************************************************)
EXTENDS FrameClients

MCSetups ==
  {[c128 |-> FALSE, drawn |-> {"vic", "ui"}, overlays |-> {"bar", "vkbd"},
    palettes |-> {1, 2}, geometries |-> {1, 2}],
   [c128 |-> TRUE, drawn |-> {"vdc"}, overlays |-> {"bar"},
    palettes |-> {1}, geometries |-> {1}]}
====
