SPECIFICATION Spec
CONSTANTS
  NoValue = NoValue
  Numeral <- MCNumeral
  Quad <- MCQuad
  CmdLines <- MCCmdLines
  BootLines <- MCBootLines
  Machines = {"vice", "plus4emu"}
  BootStat <- MCBootStat
  MaxList = 2
  Images <- MCImages
  Faults = {"serial", "interrupt", "logger", "cores", "timer", "gpio", "vchiq", "emmc", "sd", "usb", "f_open", "f_read", "f_write", "f_close"}
  Sticks = {1, 2, 3}
  NoFat = {2}
  MaxPower = 3
  MaxKeys = 2
INVARIANTS
  EmulatorFindsAll
  OneSoundAfterTables
  RestoredIsSafe
  OptionsMeanWhatTheySay
  CardIsListedAsCard
PROPERTIES
  BootEnds
CHECK_DEADLOCK FALSE
