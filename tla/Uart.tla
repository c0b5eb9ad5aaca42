------------------------------- MODULE Uart -------------------------------
(***************************************************************************)
(* The S5PC1xx UART (hw/s5pc1xx_uart.c) between the guest, which reads and *)
(* writes its registers, and a character device on a file descriptor       *)
(* (qemu-char.c).  The main loop asks can_receive before select, lets go   *)
(* of the iothread mutex, and delivers after select: the guest runs        *)
(* between the question and the delivery.                                  *)
(***************************************************************************)
EXTENDS Integers, Sequences, SequencesExt

CONSTANTS
  Bytes,
  Nothing,
  QUEUE_SIZE,   \* length of the array
  Size,         \* rx.size, the property "queue-size" of the board
  UfconWrites,  \* what the guest writes to UFCON
  IntWrites     \* what it writes to UINTP, UINTSP and UINTM

Ints == {"RXD", "ERROR", "TXD", "MODEM"}
\* Bits of UFCON: FIFO enable, receive FIFO reset, trigger levels.
UfconBits == {"fifo", "rxreset", "level"}

ASSUME UartAssumption ==
  /\ Nothing \notin Bytes
  /\ QUEUE_SIZE \in Nat /\ Size \in 2..QUEUE_SIZE
  /\ UfconWrites \subseteq SUBSET UfconBits
  /\ IntWrites \subseteq SUBSET Ints

VARIABLES
  queue, qs, qt,       \* rx: the array, s and t
  ufcon, ready, urxh,  \* ready: TRSTATUS_DATA_READY
  uintsp, uintp, uintm,
  irq,
  max_size,            \* what can_receive last told the character device
  polled,              \* the descriptor is in the fd_set of a select
  buf,                 \* what the character device last read from it
  got                  \* what the guest last read from URXH

rx == <<queue, qs, qt>>
ints == <<uintsp, uintp, uintm, irq>>
chr == <<max_size, polled, buf>>
vars == <<rx, ufcon, ready, urxh, ints, chr, got>>

QI(x) == (x + 1) % QUEUE_SIZE

ElemCount(s, t) == IF t >= s THEN t - s ELSE QUEUE_SIZE - s + t
queue_elem_count == ElemCount(qs, qt)

queue_empty_count == Size - queue_elem_count - 1

\* The bytes in the queue, oldest first.
Contents == [i \in 1..queue_elem_count |-> queue[(qs + i - 1) % QUEUE_SIZE]]

\* Mutant: the first byte of the buffer is pushed every time.
PushedSame(bs) ==
  /\ queue' = [i \in 0..QUEUE_SIZE - 1 |->
                IF \E k \in DOMAIN bs : (qt + k - 1) % QUEUE_SIZE = i
                THEN bs[1] ELSE queue[i]]
  /\ qt' = (qt + Len(bs)) % QUEUE_SIZE
  /\ UNCHANGED qs

\* queue_push of the bytes bs.
Pushed(bs) ==
  /\ queue' = [i \in 0..QUEUE_SIZE - 1 |->
                IF \E k \in DOMAIN bs : (qt + k - 1) % QUEUE_SIZE = i
                THEN bs[CHOOSE k \in DOMAIN bs : (qt + k - 1) % QUEUE_SIZE = i]
                ELSE queue[i]]
  /\ qt' = (qt + Len(bs)) % QUEUE_SIZE
  /\ UNCHANGED qs

\* s5pc1xx_uart_update, with UFCON, pending and mask bits as a handler left
\* them.  Its tests use && for &, so TXD is set whenever UFCON is not zero.
Update(fc, sp, m) ==
  /\ uintsp' = sp \cup (IF fc # {} THEN {"TXD"} ELSE {})
  /\ uintm' = m
  /\ uintp' = uintsp' \ m
  /\ irq' = (uintp' # {})

-----------------------------------------------------------------------------
(***************************************************************************)
(* The guest: s5pc1xx_uart_mm_read and s5pc1xx_uart_mm_write.  Registers   *)
(* that only hold what was written to them are left out.                   *)
(***************************************************************************)

\* Mutant: the flag is cleared whatever is left in the FIFO.
ReadUrxhClears ==
  /\ IF "fifo" \in ufcon /\ qs # qt
     THEN got' = queue[qs] /\ qs' = QI(qs) /\ ready' = FALSE /\ UNCHANGED ints
     ELSE got' = Nothing /\ Update(ufcon, uintsp \cup {"ERROR"}, uintm) /\ UNCHANGED <<qs, ready>>
  /\ UNCHANGED <<queue, qt, ufcon, urxh, chr>>

ReadUrxh ==
  /\ CASE "fifo" \in ufcon /\ qs # qt ->
            /\ got' = queue[qs]
            /\ qs' = QI(qs)
            /\ ready' = (qs' # qt)
            /\ UNCHANGED ints
       [] "fifo" \in ufcon /\ qs = qt ->
            /\ got' = Nothing
            /\ Update(ufcon, uintsp \cup {"ERROR"}, uintm)
            /\ UNCHANGED <<qs, ready>>
       [] OTHER ->
            /\ got' = urxh
            /\ ready' = FALSE
            /\ UNCHANGED <<qs, ints>>
  /\ UNCHANGED <<queue, qt, ufcon, urxh, chr>>

WriteUfcon(val) ==
  /\ ufcon' = val \ {"rxreset"}
  /\ IF "rxreset" \in val THEN qs' = 0 /\ qt' = 0 ELSE UNCHANGED <<qs, qt>>
  /\ Update(ufcon', uintsp, uintm)
  /\ UNCHANGED <<queue, ready, urxh, chr, got>>

\* A write of UTXH, transmitted at once.
WriteUtxh ==
  /\ Update(ufcon, uintsp \cup {"TXD"}, uintm)
  /\ UNCHANGED <<rx, ufcon, ready, urxh, chr, got>>

WriteUintp(val) ==
  /\ Update(ufcon, uintsp \ val, uintm)
  /\ UNCHANGED <<rx, ufcon, ready, urxh, chr, got>>

WriteUintsp(val) ==
  /\ Update(ufcon, val, uintm)
  /\ UNCHANGED <<rx, ufcon, ready, urxh, chr, got>>

WriteUintm(val) ==
  /\ Update(ufcon, uintsp, val)
  /\ UNCHANGED <<rx, ufcon, ready, urxh, chr, got>>

-----------------------------------------------------------------------------
(***************************************************************************)
(* The main loop: fd_chr_read_poll before select, fd_chr_read after it.    *)
(***************************************************************************)

\* Mutant: the answer does not depend on what is in the queue.
PollAnswersSize ==
  /\ ~polled
  /\ max_size' = Size - 1
  /\ polled' = TRUE
  /\ UNCHANGED <<rx, ufcon, ready, urxh, ints, buf, got>>

fd_chr_read_poll ==
  /\ ~polled
  /\ max_size' = queue_empty_count
  /\ polled' = (max_size' > 0)
  /\ UNCHANGED <<rx, ufcon, ready, urxh, ints, buf, got>>

\* select finds nothing to read.
SelectTimeout ==
  /\ polled /\ polled' = FALSE
  /\ UNCHANGED <<rx, ufcon, ready, urxh, ints, max_size, buf, got>>

\* Mutant: the interrupt waits for a full FIFO.
TriggerFull == IF queue_empty_count' = 0 THEN {"RXD"} ELSE {}

s5pc1xx_uart_trigger_level == IF qs' # qt' THEN {"RXD"} ELSE {}

\* Bytes the overflow branch stores: its bound falls as its index rises.
Half(n) == (n + 1) \div 2

s5pc1xx_uart_receive(bs) ==
  /\ ready' = TRUE
  /\ IF "fifo" \in ufcon
     THEN /\ IF queue_empty_count < Len(bs)
             THEN Pushed(SubSeq(bs, 1, Half(queue_empty_count)))
             ELSE Pushed(bs)
          /\ Update(ufcon, uintsp \cup s5pc1xx_uart_trigger_level, uintm)
          /\ UNCHANGED urxh
     ELSE /\ urxh' = bs[1]
          /\ Update(ufcon, uintsp \cup {"RXD"}, uintm)
          /\ UNCHANGED rx

fd_chr_read ==
  /\ polled /\ polled' = FALSE
  /\ \E bs \in BoundedSeq(Bytes, Size) :
       Len(bs) \in 1..max_size /\ buf' = bs /\ s5pc1xx_uart_receive(bs)
  /\ UNCHANGED <<ufcon, max_size, got>>

-----------------------------------------------------------------------------
Init ==
  /\ queue = [i \in 0..QUEUE_SIZE - 1 |-> Nothing] /\ qs = 0 /\ qt = 0
  /\ ufcon = {} /\ ready = FALSE /\ urxh = Nothing
  /\ uintsp = {} /\ uintp = {} /\ uintm = {}
  /\ irq = FALSE
  /\ max_size = 0 /\ polled = FALSE /\ buf = <<>>
  /\ got = Nothing

Host == fd_chr_read_poll \/ SelectTimeout \/ fd_chr_read

Next ==
  \/ Host
  \/ ReadUrxh \/ WriteUtxh
  \/ \E val \in UfconWrites : WriteUfcon(val)
  \/ \E val \in IntWrites : WriteUintp(val) \/ WriteUintsp(val) \/ WriteUintm(val)

Spec == Init /\ [][Next]_vars

-----------------------------------------------------------------------------
(***************************************************************************)
(* Properties.                                                             *)
(***************************************************************************)

\* Types; the queue never holds more than rx.size - 1 bytes, and never wraps
\* into looking empty.
TypeOK ==
  /\ queue \in [0..QUEUE_SIZE - 1 -> Bytes \cup {Nothing}]
  /\ qs \in 0..QUEUE_SIZE - 1 /\ qt \in 0..QUEUE_SIZE - 1
  /\ queue_elem_count < Size
  /\ ufcon \subseteq UfconBits /\ uintsp \subseteq Ints /\ uintm \subseteq Ints
  /\ max_size \in 0..Size

\* Room promised to the character device before select is still there after
\* it, whatever the guest did in between; so the overflow branch of
\* s5pc1xx_uart_receive is never taken.
RoomStays == polled => max_size <= queue_empty_count

\* The line, UINTP and the pending and mask bits agree after every handler.
LineFollowsStatus ==
  /\ uintp = uintsp \ uintm
  /\ irq = (uintp # {})

\* With the FIFO on, the receiver is a byte channel: every byte the character
\* device reads from its descriptor is read by the guest once and in order,
\* unless the guest resets the FIFO.
Channel == INSTANCE ByteChannel WITH
             open <- "fifo" \in ufcon, sent <- buf, chan <- Contents, Capacity <- Size - 1
FifoIsChannel == Channel!Spec
=============================================================================
