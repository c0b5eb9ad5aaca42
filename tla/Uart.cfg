\* The UART with a driver, and with a guest that does anything.
SPECIFICATION GuestSpec
CONSTANTS
  Bytes = {b1, b2}
  Nothing = Nothing
  QUEUE_SIZE = 4
  Size = 3
  UfconWrites <- SomeUfcon
  IntWrites <- SomeInts
INVARIANTS StatusShown RoomStays
PROPERTIES FifoIsChannel HeadIsRead
