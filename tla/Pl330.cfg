\* The guest may have nothing more to do.
SPECIFICATION FairSpec
CONSTANTS
  NChan = 2
  Periph = {"i2s"}
  Events = {"e0", "e1"}
  ReadSize = 4
  WriteSize = 4
  WatchdogLimit = 1024
  Programs <- ProgramsOf
  Want <- WantOf
  Regs <- RegsOf
  NoProgram = NoProgram
  Setups <- MCSetups
CHECK_DEADLOCK FALSE
INVARIANTS CopyRight AtRest
PROPERTIES EndComplete Ends
