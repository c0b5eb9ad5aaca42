\* One controller from reset, every register written by the guest.
SPECIFICATION Spec
CONSTANTS
  NVic = 1
  NSrc = 2
  PrioLevels = 2
  Addrs = {0, 1}
  Boot <- ResetBoot
  GuestRegs <- SingleRegs
  StackTest = 2
  MaxNest = 2
\* hw_error() ends the emulator.
CHECK_DEADLOCK FALSE
INVARIANTS TypeOK NoPhantomIrq StackDiscipline
