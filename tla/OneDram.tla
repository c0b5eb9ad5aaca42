------------------------------ MODULE OneDram ------------------------------
(***************************************************************************)
(* The OneDRAM controller (hw/s5pc1xx_onedram.c): memory shared by the     *)
(* application processor (AP, the guest) and the modem (CP, played by the  *)
(* device on behalf of a program behind a socket), a semaphore that says   *)
(* who may touch it, and a mailbox in each direction.  Two rings in the    *)
(* shared memory carry the data.  Bytes are numbered in the order they are *)
(* produced.                                                               *)
(***************************************************************************)
EXTENDS Integers, Sequences, FiniteSets

CONSTANTS
  FmtSize,    \* bytes of a ring (FMT_BUF_SIZE)
  SocketMax,  \* SOCKET_BUFFER_MAX_SIZE
  Burst,      \* bound: bytes the AP leaves in its ring
  MaxOut,     \* bound: bytes the AP writes
  MaxIn,      \* bound: bytes that come from the socket
  Retry       \* tries for the semaphore (sem_retry)

ASSUME OneDramAssumption ==
  /\ FmtSize \in Nat \ {0, 1} /\ SocketMax \in Nat \ {0} /\ Burst \in Nat
  /\ MaxOut \in Nat /\ MaxIn \in Nat /\ Retry \in Nat \ {0}

VARIABLES
  promptAp,     \* the AP reads a word before the modem or a timer acts again
  sem,          \* 1: the AP has the authority, 0: the CP may use the memory
  mbx_ab,       \* last word sent to the AP
  check_ab,     \* it has not been read; the AP's interrupt is up then
  inbuf, ih, it,     \* ring to the AP
  outbuf, oh, ot,    \* ring to the CP
  sem_timer, sem_retry,
  bootup_timer, connected, bootup,
  \* The AP: how far its driver has come, whether it has read a word that
  \* announces data and not looked yet, the bytes it produced and received.
  ap, apTold, apSent, apGot,
  \* The program behind the socket: bytes it produced and received; those of
  \* them the controller wrote to the ring, and those a reset dropped there.
  cpSent, cpGot, written, lost

mail == <<mbx_ab, check_ab>>
inring == <<inbuf, ih, it>>
outring == <<outbuf, oh, ot>>
boot == <<bootup_timer, connected, bootup>>
wait == <<sem_timer, sem_retry>>
ends == <<ap, apTold, apSent, apGot, cpSent, cpGot, written, lost>>
odvars == <<sem, mail, inring, outring, boot, wait, ends>>

Index == 0..FmtSize - 1
Words == {"NONE", "READY_FOR_LOADING", "READY", "PHONE_START", "SMP_REP", "RES_ACTIVE",
          "VALID", "SEND", "REQ_ACK", "SEND+REQ_ACK"}
DataWords == {"SEND", "SEND+REQ_ACK"}

Ring(buf, h, t) == [i \in 1..((h - t + FmtSize) % FmtSize) |-> buf[(t + i - 1) % FmtSize]]
InRing == Ring(inbuf, ih, it)
OutRing == Ring(outbuf, oh, ot)

\* The controller writes the bytes bs to buf from index h on.
Put(buf, h, bs) ==
  [i \in Index |-> IF ((i - h + FmtSize) % FmtSize) < Len(bs)
                   THEN bs[((i - h + FmtSize) % FmtSize) + 1] ELSE buf[i]]

-----------------------------------------------------------------------------
(***************************************************************************)
(* Words to the AP.                                                        *)
(***************************************************************************)

\* onedram_io_writel of MBX_AB: the old word is overwritten.
WriteMbxAb(w) == mbx_ab' = w /\ check_ab' = TRUE

\* onedram_send_cmd_to_pda: the word is dropped if the last one is unread.
onedram_send_cmd_to_pda(w) == IF check_ab THEN UNCHANGED mail ELSE WriteMbxAb(w)

-----------------------------------------------------------------------------
(***************************************************************************)
(* Data from the AP to the modem: onedram_fmt_send_cmd.                    *)
(***************************************************************************)

\* What onedram_read_fmt returns: up to the head, or up to the end of the ring.
Chunk(h, t) == IF h >= t THEN h - t ELSE FmtSize - t

\* n: bytes that go to the socket, rest: bytes the tail advances by.  The
\* socket buffer takes less than SocketMax; what does not fit is lost.
Taken ==
  LET c1 == Chunk(oh, ot)
      c2 == Chunk(oh, (ot + c1) % FmtSize)
  IN CASE c1 >= SocketMax -> [n |-> SocketMax, rest |-> c1]
       [] c1 < SocketMax /\ c1 + c2 >= SocketMax -> [n |-> SocketMax, rest |-> c1 + c2]
       [] OTHER -> [n |-> c1 + c2, rest |-> c1 + c2]

onedram_fmt_send_cmd ==
  /\ cpGot' = cpGot \o SubSeq(OutRing, 1, Taken.n)
  /\ ot' = (ot + Taken.rest) % FmtSize

NothingSent == UNCHANGED <<cpGot, ot>>

onedram_fmt_try_send_cmd ==
  IF sem = 1 THEN sem_timer' = TRUE /\ NothingSent /\ UNCHANGED sem_retry
             ELSE onedram_fmt_send_cmd /\ UNCHANGED wait

NotTried == NothingSent /\ UNCHANGED wait

\* The modem or a timer may act, or the AP have the mailbox overwritten.
CpTurn == promptAp => ~check_ab

onedram_wait_semaphore ==
  /\ CpTurn /\ sem_timer
  /\ CASE sem_retry = 0 -> sem_timer' = FALSE /\ sem_retry' = 2 * Retry /\ NothingSent
       [] sem_retry > 0 /\ sem = 1 ->
            sem_retry' = sem_retry - 1 /\ NothingSent /\ UNCHANGED sem_timer
       [] OTHER -> sem_timer' = FALSE /\ sem_retry' = 2 * Retry /\ onedram_fmt_send_cmd
  /\ UNCHANGED <<sem, mail, inring, outbuf, oh, boot, ap, apTold, apSent, apGot, cpSent,
                 written, lost>>

-----------------------------------------------------------------------------
(***************************************************************************)
(* Words from the AP: onedram_irq_cp_raise_16 and _32.                     *)
(***************************************************************************)

\* onedram_data_handler_fmt_autonomous looks at the ring to the AP and, when
\* that is not empty, sends what is in the ring from the AP.
Autonomous == IF sem = 0 /\ ih # it THEN onedram_fmt_try_send_cmd ELSE NotTried

ApSendFmt ==
  /\ ap = "up" /\ OutRing # <<>>
  /\ onedram_fmt_try_send_cmd
  /\ UNCHANGED <<sem, mail, inring, outbuf, oh, boot, ap, apTold, apSent, apGot, cpSent,
                 written, lost>>

ApSmpReq ==
  /\ ap = "up"
  /\ Autonomous
  /\ sem' = 1
  /\ onedram_send_cmd_to_pda("SMP_REP")
  /\ UNCHANGED <<inring, outbuf, oh, boot, ap, apTold, apSent, apGot, cpSent,
                 written, lost>>

ApReqActive ==
  /\ ap = "up"
  /\ Autonomous
  /\ onedram_send_cmd_to_pda("RES_ACTIVE")
  /\ UNCHANGED <<sem, inring, outbuf, oh, boot, ap, apTold, apSent, apGot, cpSent,
                 written, lost>>

\* IPC_CP_IMG_LOADED, written as a 32-bit word.
ApImageLoaded ==
  /\ CpTurn
  /\ ap = "loading" /\ ap' = "loaded"
  /\ WriteMbxAb("READY")
  /\ bootup_timer' = TRUE
  /\ UNCHANGED <<sem, inring, outring, connected, bootup, wait, apTold, apSent, apGot, cpSent,
                 cpGot, written, lost>>

-----------------------------------------------------------------------------
(***************************************************************************)
(* Data from the modem: onedram_tcp_read.                                  *)
(***************************************************************************)
TcpConnect ==
  /\ ~connected /\ connected' = TRUE
  /\ sem' = 1
  /\ bootup_timer' = TRUE
  /\ UNCHANGED <<mail, inring, outring, bootup, wait, ends>>

\* Room in the ring to the AP, as onedram_write_fmt computes it from the head
\* and tail it read: zeros when the AP has the semaphore.
InHead == IF sem = 1 THEN 0 ELSE ih
InTail == IF sem = 1 THEN 0 ELSE it

\* Mutant: the last free byte is used.
RoomAll == IF InHead < InTail THEN InTail - InHead ELSE FmtSize - InHead + InTail

Room ==
  CASE InHead < InTail -> InTail - InHead - 1
    [] InHead >= InTail /\ InTail = 0 -> FmtSize - InHead - 1
    [] OTHER -> FmtSize - InHead + InTail - 1

Least(m, n) == IF m < n THEN m ELSE n

DataWord(ret, len) ==
  CASE ret > 0 /\ len > ret -> "SEND+REQ_ACK"
    [] ret > 0 /\ len <= ret -> "SEND"
    [] ret = 0 /\ len > 0 -> "REQ_ACK"
    [] OTHER -> "VALID"

\* onedram_write_fmt of bytes the modem sends; the memory is not written when
\* the AP has the semaphore, but the count, the word and the authority are
\* what they would be.
onedram_write_fmt(len) ==
  LET ret == Least(len, Room)
      bs == [i \in 1..ret |-> cpSent + i]
  IN /\ IF sem = 0
        THEN /\ inbuf' = Put(inbuf, ih, bs)
             /\ ih' = (ih + ret) % FmtSize
             /\ written' = written \o bs
        ELSE UNCHANGED <<inbuf, ih, written>>
     /\ sem' = 1
     /\ onedram_send_cmd_to_pda(DataWord(ret, len))

onedram_tcp_read(len) ==
  /\ CpTurn /\ connected
  /\ cpSent + len <= MaxIn
  /\ onedram_write_fmt(len)
  /\ cpSent' = cpSent + len
  /\ UNCHANGED <<it, outring, boot, wait, ap, apTold, apSent, apGot, cpGot, lost>>

\* Mutant: the flag of the first time is not set.
BootupAgain ==
  /\ CpTurn /\ bootup_timer /\ bootup_timer' = FALSE
  /\ WriteMbxAb("READY_FOR_LOADING")
  /\ UNCHANGED <<sem, inring, outring, bootup, connected, wait, ends>>

\* onedram_bootup: the first time, and after the image has been loaded.  The
\* reset drops what the modem has written to the ring by then.
onedram_bootup ==
  /\ CpTurn /\ bootup_timer /\ bootup_timer' = FALSE
  /\ IF ~bootup
     THEN /\ bootup' = TRUE
          /\ WriteMbxAb("READY_FOR_LOADING")
          /\ UNCHANGED <<sem, ih, it, oh, ot, lost>>
     ELSE /\ IF sem = 0
             THEN ih' = 0 /\ it' = 0 /\ oh' = 0 /\ ot' = 0 /\ lost' = lost \o InRing
             ELSE UNCHANGED <<ih, it, oh, ot, lost>>
          /\ sem' = 1
          /\ onedram_send_cmd_to_pda("PHONE_START")
          /\ UNCHANGED bootup
  /\ UNCHANGED <<inbuf, outbuf, connected, wait, ap, apTold, apSent, apGot, cpSent, cpGot,
                 written>>

-----------------------------------------------------------------------------
(***************************************************************************)
(* The AP's driver.                                                        *)
(***************************************************************************)

\* It reads a word, which lowers its interrupt.
ApRead ==
  /\ check_ab /\ check_ab' = FALSE
  /\ ap' = CASE mbx_ab = "READY_FOR_LOADING" /\ ap = "off" -> "loading"
             [] mbx_ab = "PHONE_START" /\ ap = "loaded" -> "up"
             [] OTHER -> ap
  /\ apTold' = (apTold \/ mbx_ab \in DataWords)
  /\ UNCHANGED <<sem, mbx_ab, inring, outring, boot, wait, apSent, apGot, cpSent, cpGot,
                 written, lost>>

\* It gives the semaphore away, to let the CP see the image or its data.
ApYield ==
  /\ ap \in {"loading", "up"} /\ sem = 1 /\ sem' = 0
  /\ UNCHANGED <<mail, inring, outring, boot, wait, ends>>

\* With the semaphore it writes a byte, or takes all there is after a word has
\* told it to look.
ApWrite ==
  /\ ap = "up" /\ sem = 1 /\ apSent < MaxOut
  /\ Len(OutRing) < Least(Burst, FmtSize - 1)
  /\ apSent' = apSent + 1
  /\ outbuf' = [outbuf EXCEPT ![oh] = apSent + 1]
  /\ oh' = (oh + 1) % FmtSize
  /\ UNCHANGED <<sem, mail, inring, ot, boot, wait, ap, apTold, apGot, cpSent, cpGot,
                 written, lost>>

ApTake ==
  /\ ap = "up" /\ sem = 1 /\ apTold
  /\ apTold' = FALSE
  /\ apGot' = apGot \o InRing
  /\ it' = ih
  /\ UNCHANGED <<sem, mail, inbuf, ih, outring, boot, wait, ap, apSent, cpSent, cpGot,
                 written, lost>>

-----------------------------------------------------------------------------
OneDramInit ==
  /\ promptAp \in BOOLEAN
  /\ sem = 0 /\ mbx_ab = "NONE" /\ check_ab = FALSE
  /\ inbuf = [i \in Index |-> 0] /\ ih = 0 /\ it = 0
  /\ outbuf = [i \in Index |-> 0] /\ oh = 0 /\ ot = 0
  /\ sem_timer = FALSE /\ sem_retry = Retry
  /\ bootup_timer = FALSE /\ connected = FALSE /\ bootup = FALSE
  /\ ap = "off" /\ apTold = FALSE /\ apSent = 0 /\ apGot = <<>>
  /\ cpSent = 0 /\ cpGot = <<>> /\ written = <<>> /\ lost = <<>>

OneDramNext ==
  \/ onedram_wait_semaphore \/ onedram_bootup
  \/ TcpConnect \/ \E len \in 1..MaxIn : onedram_tcp_read(len)
  \/ ApSendFmt \/ ApSmpReq \/ ApReqActive \/ ApImageLoaded
  \/ ApRead \/ ApYield \/ ApWrite \/ ApTake

OneDramSpec == OneDramInit /\ [][OneDramNext /\ UNCHANGED promptAp]_<<odvars, promptAp>>

\* Timers expire, the modem program connects, and the AP reads its words and
\* loads the image.
OneDramFairSpec ==
  /\ OneDramSpec
  /\ WF_odvars(onedram_wait_semaphore) /\ WF_odvars(onedram_bootup)
  /\ WF_odvars(TcpConnect) /\ WF_odvars(ApRead) /\ WF_odvars(ApImageLoaded)

-----------------------------------------------------------------------------
(***************************************************************************)
(* Properties.                                                             *)
(***************************************************************************)

OneDramTypeOK ==
  /\ sem \in {0, 1} /\ mbx_ab \in Words /\ check_ab \in BOOLEAN
  /\ inbuf \in [Index -> 0..MaxIn] /\ outbuf \in [Index -> 0..MaxOut]
  /\ ih \in Index /\ it \in Index /\ oh \in Index /\ ot \in Index
  /\ sem_timer \in BOOLEAN /\ sem_retry \in 0..2 * Retry
  /\ bootup_timer \in BOOLEAN /\ connected \in BOOLEAN /\ bootup \in BOOLEAN
  /\ ap \in {"off", "loading", "loaded", "up"} /\ apTold \in BOOLEAN

\* What the AP writes reaches the socket once and in order, over wrapped
\* rings, waits for the semaphore and words that are dropped, as long as it
\* leaves less in the ring than the socket buffer takes.
OutStream == cpGot \o OutRing = [i \in 1..apSent |-> i]

\* What has left the ring to the AP: dropped by the reset, or taken.
Gone == lost \o apGot

\* What the controller writes to the other ring is dropped by the reset, if it
\* came before the phone has started, or reaches the AP, once and in order.
\* Bytes that find no room or no authority never get there (see `written').
InStream == Gone \o InRing = written

\* Bytes in the ring have been announced to an AP that reads its words in time:
\* a word sent to it is neither dropped nor overwritten, so it has been told
\* to look or is about to be (onedram_send_cmd_to_pda after onedram_write_fmt).
Announced ==
  promptAp /\ InRing # <<>> => apTold \/ (check_ab /\ mbx_ab \in DataWords)

\* The phone starts: after the modem program has connected, the AP's driver
\* gets from the loading of the image to PHONE_START, if it reads every word
\* before the next one.  (PHONE_START is dropped while READY is unread.)
BootCompletes == promptAp => (connected ~> (ap = "up"))

\* Each byte in a ring is delivered once and in order, but for the reset, and
\* the AP knows of it (onedram_fmt_send_cmd, onedram_write_fmt).
StreamsKept == OneDramTypeOK /\ OutStream /\ InStream /\ Announced
=============================================================================
