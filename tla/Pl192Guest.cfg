SPECIFICATION GSpec
CONSTANTS
  NVic = 3
  NSrc = 1
  PrioLevels = 2
  Addrs <- GuestAddrs
  Boot <- GuestBoot
  GuestRegs = {"INTSELECT", "ADDRESS"}
  StackTest = 4
  MaxNest = 2
  AnyNest = 1
  Nesting = TRUE
CHECK_DEADLOCK FALSE
INVARIANTS KernelServed NoPhantomFiq LinkCoherent FreshHighest
PROPERTIES IrqDropsOnlyWhenQuiet
