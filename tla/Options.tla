------------------------------ MODULE Options -------------------------------
(***************************************************************************)
(* ViceOptions: what the boot command line (cmdline.txt) makes of the      *)
(* options, and what the rest of the program derives from the timing.      *)
(*                                                                         *)
(* The line is a sequence of tokens [opt, val]: GetToken splits it at the  *)
(* blanks and GetOptionValue each token at the first `='.  A token without *)
(* `=' has the value NoValue.  Values are words; atoi gives a number for   *)
(* those in Numeral and 0 for the others.                                  *)
(***************************************************************************)
EXTENDS Integers, Sequences

CONSTANTS NoValue,   \* what GetOptionValue returns for a token without `='
          Numeral,   \* the numbers of the words that are numbers
          Quad       \* the four numbers of the words that strtok splits in four

Defaults ==
  [timing |-> "pal-hdmi", cycles |-> 0, audio |-> "auto", partition |-> 0,
   demo |-> FALSE, serial |-> FALSE, gpioOut |-> FALSE, dpi |-> FALSE,
   skip |-> FALSE, skip2 |-> FALSE, scaling |-> << <<0, 0, 0, 0>>, <<0, 0, 0, 0>> >>]

\* The words for m_nMachineTiming and m_audioOut; other words change nothing.
TimingWord ==
  [w \in {"ntsc", "ntsc-hdmi", "ntsc-dpi", "ntsc-composite", "ntsc-custom",
          "pal", "pal-hdmi", "pal-dpi", "pal-composite", "pal-custom"} |->
     CASE w = "ntsc" -> "ntsc-hdmi" [] w = "pal" -> "pal-hdmi"
       [] w = "ntsc-custom" -> "ntsc-custom-hdmi"
       [] w = "pal-custom" -> "pal-custom-hdmi"
       [] OTHER -> w]
AudioWord == [w \in {"hdmi", "ntsc-hdmi", "analog", "auto"} |->
                IF w = "ntsc-hdmi" THEN "hdmi" ELSE w]

\* The options that are true for "true" and "1" and false for any other word.
Switch == [enable_demo |-> "demo", enable_serial |-> "serial",
           enable_gpio_outputs |-> "gpioOut", enable_dpi |-> "dpi",
           raster_skip |-> "skip", raster_skip2 |-> "skip2"]

Translate(word, table, old) == IF word \in DOMAIN table THEN table[word] ELSE old
Atoi(word) == Translate(word, Numeral, 0)
NonNegative(n) == IF n < 0 THEN 0 ELSE n

\* One turn of the loop over the tokens.
Token(o, t) ==
  IF t.val = NoValue THEN o ELSE
  CASE t.opt = "machine_timing" -> [o EXCEPT !.timing = Translate(t.val, TimingWord, @)]
    [] t.opt = "audio_out" -> [o EXCEPT !.audio = Translate(t.val, AudioWord, @)]
    [] t.opt = "disk_partition" -> [o EXCEPT !.partition = NonNegative(Atoi(t.val))]
    [] t.opt \in {"cycles_per_refresh", "cycles_per_second"} ->
         [o EXCEPT !.cycles = Atoi(t.val)]
    [] t.opt = "scaling_params" -> [o EXCEPT !.scaling = [@ EXCEPT ![1] = Translate(t.val, Quad, @)]]
    [] t.opt = "scaling_params2" -> [o EXCEPT !.scaling = [@ EXCEPT ![2] = Translate(t.val, Quad, @)]]
    [] t.opt \in DOMAIN Switch -> [o EXCEPT ![Switch[t.opt]] = t.val \in {"true", "1"}]
    [] OTHER -> o

\* After the loop: a custom timing takes its DPI constant when DPI is enabled,
\* and falls back when no clock was given.  The last two tests of the code name
\* the same constant, so the PAL custom DPI timing never falls back.
WithDPI(o) ==
  [o EXCEPT !.timing = IF ~o.dpi THEN @
                       ELSE CASE @ = "pal-custom-hdmi" -> "pal-custom-dpi"
                              [] @ = "ntsc-custom-hdmi" -> "ntsc-custom-dpi"
                              [] OTHER -> @]
WithClock(o) ==
  [o EXCEPT !.timing = IF o.cycles # 0 THEN @
                       ELSE CASE @ = "pal-custom-hdmi" -> "pal-hdmi"
                              [] @ = "ntsc-custom-hdmi" -> "ntsc-hdmi"
                              [] @ = "ntsc-custom-dpi" -> "ntsc-dpi"
                              [] OTHER -> @]
WithoutSerial(o) == [o EXCEPT !.serial = @ /\ ~o.dpi]

\* The constructor.
ViceOptions(line) ==
  LET read[i \in 0 .. Len(line)] == IF i = 0 THEN Defaults ELSE Token(read[i - 1], line[i])
  IN  WithoutSerial(WithClock(WithDPI(read[Len(line)])))

-----------------------------------------------------------------------------
Ntsc == {"ntsc-hdmi", "ntsc-composite", "ntsc-dpi", "ntsc-custom-hdmi", "ntsc-custom-dpi"}
Custom == {"ntsc-custom-hdmi", "ntsc-custom-dpi", "pal-custom-hdmi", "pal-custom-dpi"}

\* Mutant: without the DPI constants.
TimingOptionNoDPI(timing) ==
  IF timing \in Ntsc \ {"ntsc-dpi", "ntsc-custom-dpi"} THEN "-ntsc" ELSE "-pal"
\* mTimingOption, which the emulator gets as an argument.
TimingOption(timing) == IF timing \in Ntsc THEN "-ntsc" ELSE "-pal"

\* circle_cycles_per_second.  The chains name the HDMI, composite and custom
\* timings; the chain of the Plus/4 names ntsc-dpi too.  What a chain does not
\* name gets its last branch.
Named == [plus4 |-> [ntsc |-> 1792080, ntscComposite |-> 1793672, pal |-> 1778400,
                     palComposite |-> 1781245, other |-> 1778400],
          vic20 |-> [ntsc |-> 1017900, ntscComposite |-> 1018804, pal |-> 1107600,
                     palComposite |-> 1109372, other |-> 1017900],
          c64   |-> [ntsc |-> 1025700, ntscComposite |-> 1026611, pal |-> 982800,
                     palComposite |-> 984404, other |-> 982800],
          pet   |-> [ntsc |-> 1013760, ntscComposite |-> 1014661, pal |-> 1001600,
                     palComposite |-> 1003202, other |-> 1000000]]
CyclesPerSecond(family, o) ==
  LET t == o.timing  rate == Named[family] IN
  CASE t = "ntsc-hdmi" \/ (t = "ntsc-dpi" /\ family = "plus4") -> rate.ntsc
    [] t = "ntsc-composite" -> rate.ntscComposite
    [] t \in Custom -> o.cycles
    [] t = "pal-hdmi" -> rate.pal
    [] t = "pal-composite" -> rate.palComposite
    [] OTHER -> rate.other

-----------------------------------------------------------------------------
(* What the command line asks for, said without its order of evaluation.   *)

\* The word of the last of some tokens.
LastWord(line, tokens, default) ==
  IF tokens = {} THEN default ELSE line[CHOOSE i \in tokens : \A j \in tokens : j <= i].val
Given(line, opts) == {i \in DOMAIN line : line[i].opt \in opts /\ line[i].val # NoValue}
LastGiven(line, opts, default) == LastWord(line, Given(line, opts), default)
AsksTiming(line) ==
  LastWord(line, {i \in Given(line, {"machine_timing"}) : line[i].val \in DOMAIN TimingWord}, "pal-hdmi")
AsksFor(line, opt) == LastGiven(line, {opt}, "false") \in {"true", "1"}
AsksNtsc(line) == AsksTiming(line) \in Ntsc \union {"ntsc", "ntsc-custom"}
Clock(line) ==
  LET given == Given(line, {"cycles_per_second", "cycles_per_refresh"})
  IN  IF given = {} THEN 0 ELSE Atoi(LastWord(line, given, "none"))
=============================================================================
