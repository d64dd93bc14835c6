------------------------------- MODULE BootMC -------------------------------
(***************************************************************************)
(* Values of Boot's constants.                                             *)
(***************************************************************************)
EXTENDS Boot, SequencesExt

Tok(opt, val) == [opt |-> opt, val |-> val]

\* Words and tokens that reach every branch of the parser.
MCNumeral == "0" :> 0 @@ "50" :> 50 @@ "-1" :> -1
MCQuad == "384,240,3,3" :> << 384, 240, 3, 3 >>
Tokens ==
  {Tok("machine_timing", v) : v \in {"ntsc", "ntsc-dpi", "ntsc-custom", "pal-composite",
                                     "pal-dpi", "pal-custom", "secam"}}
  \union {Tok(o, v) : o \in {"enable_dpi", "enable_serial"}, v \in {"true", "no"}}
  \union {Tok("enable_gpio_outputs", "1"), Tok("enable_dpi", NoValue),
          Tok("cycles_per_refresh", "50"), Tok("cycles_per_second", "x"),
          Tok("disk_partition", "-1"), Tok("audio_out", "analog"),
          Tok("scaling_params2", "384,240,3,3"), Tok("scaling_params", "384"),
          Tok("raster_skip", "true"), Tok("raster_skip2", "1"), Tok("keymap", "US")}
MCCmdLines == BoundedSeq(Tokens, 3)
MCBootLines == {<< >>, << Tok("machine_timing", "ntsc-dpi"), Tok("enable_dpi", "1") >>}

\* A bootstat.txt with a line of every kind, and longer than the list may be.
Stat(what, file, size) == [what |-> what, file |-> file, size |-> size]
MCBootStat ==
  << Stat("stat", "d1541II", "1"), Stat("stat", "kernal", "8192"), Stat("#", NoValue, NoValue),
     Stat("fail", "rpi_pos.vkm", "0"), Stat("fail", "vicerc", "0"), Stat("size", "a", "1"),
     Stat("stat", "basic", NoValue), Stat("stat", "chargen", "4096") >>

\* The safe image is the shorter one.
MCImages == [old |-> << "n1", "n2", "n3" >>, safe |-> << "s1", "s2" >>]
=============================================================================
