------------------------------- MODULE MCUart -------------------------------
(***************************************************************************)
(* A small instance of UartGuest.                                          *)
(***************************************************************************)
EXTENDS UartGuest

\* FIFO off, on, on with a flush, and a flush that leaves it off.
SomeUfcon == {{}, {"fifo"}, {"fifo", "rxreset", "level"}, {"rxreset"}}
SomeInts == {{}, {"RXD", "TXD"}}
=============================================================================
