----------------------------- MODULE UartGuest -----------------------------
(***************************************************************************)
(* The UART under two guests.  "driver" is an interrupt-driven reader: it  *)
(* enables the FIFO, leaves only RXD unmasked, and on an interrupt clears  *)
(* UINTP before it drains the FIFO by UFSTAT; between interrupts it may    *)
(* flush the FIFO.  "any" writes and reads the registers as it likes.      *)
(* Bytes arrive at every point.                                            *)
(***************************************************************************)
EXTENDS Uart

VARIABLES
  guest,
  gpc

gvars == <<vars, guest, gpc>>

GuestInit == Init /\ guest \in {"driver", "any"} /\ gpc = "reset"

Reset == gpc = "reset" /\ gpc' = "mask" /\ WriteUfcon({"fifo", "rxreset"})
Mask == gpc = "mask" /\ gpc' = "idle" /\ WriteUintm(Ints \ {"RXD"})
Interrupt == gpc = "idle" /\ irq /\ gpc' = "ack" /\ UNCHANGED vars
Ack == gpc = "ack" /\ gpc' = "drain" /\ WriteUintp({"RXD"})
Drain ==
  /\ gpc = "drain"
  /\ IF queue_elem_count # 0 THEN ReadUrxh /\ UNCHANGED gpc
                             ELSE gpc' = "idle" /\ UNCHANGED vars
Flush == gpc = "idle" /\ WriteUfcon({"fifo", "rxreset", "level"}) /\ UNCHANGED gpc

Driver == guest = "driver" /\ (Reset \/ Mask \/ Interrupt \/ Ack \/ Drain)

GuestNext ==
  /\ \/ Driver
     \/ guest = "driver" /\ Flush
     \/ guest = "driver" /\ Host /\ UNCHANGED gpc
     \/ guest = "any" /\ Next /\ UNCHANGED gpc
  /\ UNCHANGED guest

\* The virtual CPU keeps running; nothing is assumed of the other end of the
\* character device.
GuestSpec == GuestInit /\ [][GuestNext]_gvars /\ WF_gvars(Driver /\ UNCHANGED guest)

\* Bytes in the FIFO are announced by DATA_READY, which a reader that polls
\* UTRSTAT waits for, as long as the FIFO is not switched off and on again.
DataReadyShown == guest = "driver" /\ "fifo" \in ufcon /\ qs # qt => ready

\* The oldest byte in the FIFO is read or flushed: the driver misses no
\* interrupt, although RXD is set only when bytes arrive and is cleared while
\* they do.  (Bytes that come before the FIFO is on are not in it.)
HeadIsRead ==
  guest = "driver" =>
    \A i \in 0..QUEUE_SIZE - 1 : (qs = i /\ qs # qt) ~> (qs # i \/ qs = qt)

\* What the guest is shown is true: the line follows the interrupt registers,
\* and DATA_READY the FIFO (s5pc1xx_uart_update, s5pc1xx_uart_mm_read).
StatusShown == TypeOK /\ LineFollowsStatus /\ DataReadyShown
=============================================================================
