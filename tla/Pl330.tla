------------------------------- MODULE Pl330 -------------------------------
(***************************************************************************)
(* The PL330 DMA controller (hw/pl330.c).  The guest starts and kills      *)
(* channels through the debug registers; every such write, and the timer   *)
(* that a change of a peripheral's busy line arms, runs pl330_exec until   *)
(* no channel and no queue makes progress.  Channels execute programs from *)
(* guest memory; loads and stores go through two queues and a common ring  *)
(* of tagged bytes.                                                        *)
(*                                                                         *)
(* A byte of memory is named by its address: that is the value a load      *)
(* finds there.  Security checks never fail on this board and are left     *)
(* out.                                                                    *)
(***************************************************************************)
EXTENDS Integers, Sequences, SequencesExt, FiniteSetsExt, TLC

CONSTANTS
  NChan,          \* chan_num
  Periph, Events,
  ReadSize, WriteSize,
  WatchdogLimit,  \* PL330_WATCHDOG_LIMIT
  Programs,       \* the programs in guest memory, by name
  Want,           \* the bytes each of them stores, in order
  Regs,           \* the data registers of the peripherals
  NoProgram,
  Setups          \* the machines to look at, see setup

Chan == 0..NChan - 1
Manager == NChan
Who == 0..NChan
UNTAGGED == NChan + 1
Zero == -1
NoOne == -1

ASSUME Pl330Assumption ==
  /\ NChan \in 1..8
  /\ {ReadSize, WriteSize, WatchdogLimit} \subseteq Nat \ {0}
  /\ DOMAIN Want = DOMAIN Programs
  /\ NoProgram \notin DOMAIN Programs
  /\ Regs \in [Periph -> Nat]
  /\ \A m \in Setups : /\ m.fifo \in Nat \ {0} /\ m.limit \in Nat
                       /\ {m.careful, m.resets} \subseteq BOOLEAN /\ m.events \subseteq Events

VARIABLES
  setup,                      \* the machine and its guest, chosen once
  chan,                       \* the channels and the manager
  num_faulting, irq_abort,
  buf, s, t,                  \* the ring: bytes with tags, first, last
  read_queue, write_queue,
  inten, int_status, ev_status, irq,
  debug_status,
  periph_busy, timer,
  paused,                     \* the guest has paused the peripheral
  who, phase,                 \* the channel in pl330_exec_channel, the part of the cycle
  num_exec,                   \* the cycle has executed something
  insr_exec,                  \* this round of pl330_exec has
  out,                        \* what a channel's program has stored so far
  left

aborts == <<num_faulting, irq_abort>>
fifo == <<buf, s, t>>
queues == <<read_queue, write_queue>>
ints == <<inten, int_status, ev_status, irq>>
wires == <<periph_busy, timer>>
loop == <<who, phase, num_exec, insr_exec>>
vars == <<chan, aborts, fifo, queues, ints, debug_status, wires, paused, loop, out, left>>

FifoSize == setup.fifo
Commands == setup.commands  \* the debug instructions of the guest
Careful == setup.careful    \* it sends nothing but DMAKILL to a thread in a fault
Resets == setup.resets      \* the machine may be reset
Limit == setup.limit        \* bound on register writes and resets

\* The guest lets its programs end, and these store what they have loaded
\* before they wait for a peripheral.
Tidy ==
  \A d \in Commands :
    \/ d.ins = "sev"
    \/ /\ d.ins = "go"
       /\ LET p == Programs[d.prog]
          IN  \A i, j \in DOMAIN p : i < j /\ p[i].op = "ld" /\ p[j].op = "wfp"
                => \E k \in i..j : p[k].op = "st"

-----------------------------------------------------------------------------
(***************************************************************************)
(* The ring.                                                               *)
(***************************************************************************)

\* pl330_fifo_inc, n times.
Advance(x, n) == (x + n) % FifoSize

pl330_fifo_num_free == IF t < s THEN s - t ELSE FifoSize - t + s

pl330_fifo_num_used == IF t >= s THEN t - s ELSE FifoSize - s + t

\* The bytes in the ring, oldest first.
Bytes == [k \in 1..pl330_fifo_num_used |-> buf[(s + k - 1) % FifoSize]]

pl330_fifo_tag == IF s = t THEN UNTAGGED ELSE buf[s].tag

pl330_fifo_has_tag(c) == \E k \in DOMAIN Bytes : Bytes[k].tag = c

\* pl330_fifo_push succeeds: it never lets the ends meet.
HasRoom(n) == pl330_fifo_num_used + n < FifoSize

\* pl330_fifo_get succeeds: the first n bytes are there and are c's.
Holds(n, c) ==
  /\ n <= pl330_fifo_num_used
  /\ \A k \in 1..n : Bytes[k].tag = c

pl330_fifo_push(vs, c) ==
  /\ buf' = [i \in 0..FifoSize - 1 |->
              LET k == ((i - t) % FifoSize) + 1
              IN  IF k \in DOMAIN vs THEN [tag |-> c, v |-> vs[k]] ELSE buf[i]]
  /\ t' = Advance(t, Len(vs))
  /\ UNCHANGED s

\* Mutant: the bytes stay.
BytesStay(c) == UNCHANGED <<buf, s, t>>

\* The bytes of other tags move up; the index they are moved to is not
\* brought round at the end of the array.
pl330_fifo_tagged_remove(c) ==
  LET Others(b) == b.tag # c
      kept == SelectSeq(Bytes, Others)
  IN  /\ buf' = [i \in 0..FifoSize - 1 |->
                  IF i - s + 1 \in DOMAIN kept THEN kept[i - s + 1] ELSE buf[i]]
      /\ t' = s + Len(kept)
      /\ UNCHANGED s

-----------------------------------------------------------------------------
(***************************************************************************)
(* The queues.  A slot holds one load or store with n bursts to go.        *)
(***************************************************************************)
FirstOf(S) == IF S = {} THEN 0 ELSE Min(S)

Free == [tag |-> UNTAGGED, addr |-> 0, len |-> 0, n |-> 0,
         inc |-> FALSE, z |-> FALSE, seqn |-> 0]

pl330_queue_find_empty(q) ==
  FirstOf({i \in DOMAIN q.slot : q.slot[i].tag = UNTAGGED})

pl330_queue_find_insn(q, c) ==
  FirstOf({i \in DOMAIN q.slot :
            /\ q.slot[i].tag # UNTAGGED
            /\ q.slot[i].seqn = q.lo[q.slot[i].tag]
            /\ q.slot[i].tag = c \/ c = UNTAGGED \/ q.slot[i].z})

\* pl330_insn_to_queue of an instruction; a full queue stays as it is.
pl330_insn_to_queue(q, e) ==
  LET i == pl330_queue_find_empty(q)
  IN  IF i = 0 THEN q
      ELSE [q EXCEPT !.slot[i] = [seqn |-> q.hi[e.tag]] @@ e,
                     !.hi[e.tag] = (@ + 1) % 256]

\* Mutant: the address stays from burst to burst.
BurstStays(q, i) ==
  LET e == q.slot[i]
  IN  IF e.n = 1
      THEN [q EXCEPT !.slot[i] = Free, !.lo[e.tag] = (@ + 1) % 256]
      ELSE [q EXCEPT !.slot[i].n = @ - 1]

\* One burst of slot i is done; after the last pl330_insn_from_queue.
BurstDone(q, i) ==
  LET e == q.slot[i]
  IN  IF e.n = 1
      THEN [q EXCEPT !.slot[i] = Free, !.lo[e.tag] = (@ + 1) % 256]
      ELSE [q EXCEPT !.slot[i] =
              [e EXCEPT !.n = @ - 1, !.addr = IF e.inc THEN @ + e.len ELSE @]]

pl330_tag_from_queue(q, c) ==
  [q EXCEPT !.slot = [i \in DOMAIN @ |-> IF @[i].tag = c THEN Free ELSE @[i]]]

-----------------------------------------------------------------------------
(***************************************************************************)
(* Instructions.  Each is what one call of pl330_chan_exec does for it.    *)
(***************************************************************************)
Insn(c) == Programs[chan[c].prog][chan[c].pc]

\* pl330_fault, in the channel and in the controller.
Faulted(ch, f) == [ch EXCEPT !.fault = @ \cup {f}, !.state = "fault"]

RaiseAbort ==
  /\ num_faulting' = (num_faulting + 1) % 256
  /\ irq_abort' = (irq_abort \/ num_faulting' = 1)

LowerAbort ==
  /\ num_faulting' = (num_faulting - 1) % 256
  /\ irq_abort' = (irq_abort /\ num_faulting' # 0)

FaultInsn(c, f) ==
  /\ chan' = [chan EXCEPT ![c] = Faulted(@, f)]
  /\ num_exec' = FALSE
  /\ RaiseAbort

\* The end of pl330_chan_exec: the instruction left the channel as ch.
Retire(c, ch, stall) ==
  CASE ch.state = "executing" /\ ~stall ->
         /\ chan' = [chan EXCEPT ![c] = [ch EXCEPT !.pc = @ + 1, !.watch = 0]]
         /\ num_exec' = TRUE
         /\ UNCHANGED aborts
    [] stall /\ ch.watch + 1 >= WatchdogLimit ->
         /\ chan' = [chan EXCEPT ![c] = Faulted([ch EXCEPT !.watch = @ + 1], "lockup")]
         /\ num_exec' = FALSE
         /\ RaiseAbort
    [] OTHER ->
         /\ chan' = [chan EXCEPT ![c] = IF stall THEN [ch EXCEPT !.watch = @ + 1] ELSE ch]
         /\ num_exec' = FALSE
         /\ UNCHANGED aborts

\* A conditional instruction whose condition does not hold is a NOP.
Skipped(c) == Insn(c).bs # "any" /\ Insn(c).bs # chan[c].request_flag

DropTag(c) ==
  /\ pl330_fifo_tagged_remove(c)
  /\ read_queue' = pl330_tag_from_queue(read_queue, c)
  /\ write_queue' = pl330_tag_from_queue(write_queue, c)

\* Mutant: only the ring is looked at.
InFlightBytes(c) == pl330_fifo_has_tag(c)

InFlight(c) ==
  \/ pl330_fifo_has_tag(c)
  \/ pl330_queue_find_insn(read_queue, c) # 0
  \/ pl330_queue_find_insn(write_queue, c) # 0

pl330_dmaend(c) ==
  /\ Insn(c).op = "end"
  /\ IF chan[c].state = "executing" /\ InFlight(c)
     THEN Retire(c, chan[c], TRUE) /\ UNCHANGED <<fifo, queues>>
     ELSE Retire(c, [chan[c] EXCEPT !.state = "stopped"], FALSE) /\ DropTag(c)
  /\ UNCHANGED ints

\* pl330_dmakill in a program: the channel is not in a fault.
pl330_dmakill(c) ==
  /\ Insn(c).op = "kill"
  /\ Retire(c, [chan[c] EXCEPT !.state = "stopped"], FALSE)
  /\ DropTag(c)
  /\ UNCHANGED ints

\* To the source, destination or control register.
pl330_dmamov(c) ==
  /\ Insn(c).op = "mov"
  /\ Retire(c, [chan[c] EXCEPT ![Insn(c).r] = Insn(c).v], FALSE)
  /\ UNCHANGED <<fifo, queues, ints>>

pl330_dmalp(c) ==
  /\ Insn(c).op = "lp"
  /\ Retire(c, [chan[c] EXCEPT ![Insn(c).r] = Insn(c).v], FALSE)
  /\ UNCHANGED <<fifo, queues, ints>>

pl330_dmaaddh(c) ==
  /\ Insn(c).op = "add"
  /\ Retire(c, [chan[c] EXCEPT ![Insn(c).r] = @ + Insn(c).v], FALSE)
  /\ UNCHANGED <<fifo, queues, ints>>

\* The jump is taken back by the size of the instruction and the end of
\* pl330_chan_exec adds it again.
pl330_dmalpend(c) ==
  LET i == Insn(c)
      again == ~i.nf \/ chan[c][i.r] # 0
      back == [chan[c] EXCEPT !.pc = @ - i.back - 1]
      count == IF i.nf THEN [back EXCEPT ![i.r] = @ - 1] ELSE back
  IN  /\ i.op = "lpend"
      /\ Retire(c, IF ~Skipped(c) /\ again THEN count ELSE chan[c], FALSE)
      /\ UNCHANGED <<fifo, queues, ints>>

\* pl330_dmald and pl330_dmaldp.  The address moves on even when the queue
\* is full and the instruction will be executed again.
pl330_dmald(c) ==
  LET ch == chan[c]
      cc == ch.control
      e == [tag |-> c, addr |-> ch.src, len |-> cc.slen, n |-> cc.sn,
            inc |-> cc.sinc, z |-> FALSE]
      moved == IF cc.sinc THEN [ch EXCEPT !.src = @ + cc.slen * cc.sn] ELSE ch
  IN  /\ Insn(c).op = "ld"
      /\ IF Skipped(c)
         THEN Retire(c, ch, FALSE) /\ UNCHANGED read_queue
         ELSE /\ Retire(c, moved, pl330_queue_find_empty(read_queue) = 0)
              /\ read_queue' = pl330_insn_to_queue(read_queue, e)
      /\ UNCHANGED <<fifo, write_queue, ints>>

\* A store of c, of zeroes or of bytes from the ring.
Store(c, z) ==
  LET ch == chan[c]
      cc == ch.control
      e == [tag |-> c, addr |-> ch.dst, len |-> cc.dlen, n |-> cc.dn,
            inc |-> cc.dinc, z |-> z]
      moved == IF cc.dinc THEN [ch EXCEPT !.dst = @ + cc.dlen * cc.dn] ELSE ch
  IN  /\ Retire(c, moved, pl330_queue_find_empty(write_queue) = 0)
      /\ write_queue' = pl330_insn_to_queue(write_queue, e)

\* pl330_dmast and pl330_dmastp.
pl330_dmast(c) ==
  /\ Insn(c).op = "st"
  /\ IF Skipped(c)
     THEN Retire(c, chan[c], FALSE) /\ UNCHANGED write_queue
     ELSE Store(c, FALSE)
  /\ UNCHANGED <<fifo, read_queue, ints>>

pl330_dmastz(c) ==
  /\ Insn(c).op = "stz"
  /\ Store(c, TRUE)
  /\ UNCHANGED <<fifo, read_queue, ints>>

\* pl330_dmasev, also as a debug instruction.
Signal(e) ==
  /\ IF e \in inten
     THEN /\ int_status' = int_status \cup {e}
          /\ irq' = irq \cup {e}
          /\ UNCHANGED ev_status
     ELSE /\ ev_status' = ev_status \cup {e}
          /\ UNCHANGED <<int_status, irq>>
  /\ UNCHANGED inten

pl330_dmasev(c) ==
  /\ Insn(c).op = "sev"
  /\ Retire(c, chan[c], FALSE)
  /\ Signal(Insn(c).e)
  /\ UNCHANGED <<fifo, queues>>

\* Mutant: a channel that waits stays in that state.
WfpStays(c) ==
  LET ch == [chan[c] EXCEPT !.request_flag = Insn(c).bs]
  IN  /\ Insn(c).op = "wfp"
      /\ Retire(c, IF periph_busy[Insn(c).p] THEN [ch EXCEPT !.state = "waiting_periph"] ELSE ch,
                FALSE)
      /\ UNCHANGED <<fifo, queues, ints>>

pl330_dmawfp(c) ==
  LET ch == [chan[c] EXCEPT !.request_flag = Insn(c).bs]
  IN  /\ Insn(c).op = "wfp"
      /\ Retire(c, [ch EXCEPT !.state = IF periph_busy[Insn(c).p] THEN "waiting_periph"
                                        ELSE "executing"], FALSE)
      /\ UNCHANGED <<fifo, queues, ints>>

\* pl330_dmanop, pl330_dmarmb, pl330_dmawmb, pl330_dmaflushp, pl330_dmawfe.
pl330_dmanop(c) ==
  /\ Insn(c).op = "nop"
  /\ Retire(c, chan[c], FALSE)
  /\ UNCHANGED <<fifo, queues, ints>>

\* An unknown opcode, an operand that is out of range, or DMAGO outside the
\* manager.
BadInsn(c) ==
  /\ Insn(c).op = "bad"
  /\ FaultInsn(c, "undef")
  /\ UNCHANGED <<fifo, queues, ints>>

Execute(c) ==
  \/ pl330_dmaend(c) \/ pl330_dmakill(c) \/ pl330_dmamov(c) \/ pl330_dmaaddh(c)
  \/ pl330_dmalp(c) \/ pl330_dmalpend(c) \/ pl330_dmald(c) \/ pl330_dmast(c)
  \/ pl330_dmastz(c) \/ pl330_dmasev(c) \/ pl330_dmawfp(c) \/ pl330_dmanop(c) \/ BadInsn(c)

-----------------------------------------------------------------------------
(***************************************************************************)
(* pl330_exec.  It runs to its end in the call that started it; the guest  *)
(* and the main loop wait.                                                 *)
(***************************************************************************)
Begin ==
  /\ who' = Manager
  /\ phase' = "chan"
  /\ num_exec' = FALSE
  /\ insr_exec' = FALSE

\* pl330_chan_exec.
ChanExec ==
  /\ phase = "chan"
  /\ phase' = "read"
  /\ IF chan[who].state \in {"executing", "waiting_periph"}
     THEN Execute(who)
     ELSE num_exec' = FALSE /\ UNCHANGED <<chan, aborts, fifo, queues, ints>>
  /\ UNCHANGED <<debug_status, wires, paused, who, insr_exec, out, left>>

\* cpu_physical_memory_read of a burst.
Read(e) == [k \in 1..e.len |-> e.addr + k - 1]

\* One burst from the read queue.
ReadCycle ==
  /\ phase = "read"
  /\ phase' = "write"
  /\ LET i == pl330_queue_find_insn(read_queue, UNTAGGED)
         e == read_queue.slot[i]
     IN  IF i # 0 /\ e.len <= pl330_fifo_num_free /\ HasRoom(e.len)
         THEN /\ pl330_fifo_push(Read(e), e.tag)
              /\ read_queue' = BurstDone(read_queue, i)
              /\ num_exec' = TRUE
         ELSE UNCHANGED <<fifo, read_queue, num_exec>>
  /\ UNCHANGED <<chan, aborts, write_queue, ints, debug_status, wires, paused, who, insr_exec, out,
                 left>>

pl330_dma_stop_irq(p, level) ==
  /\ periph_busy' = [periph_busy EXCEPT ![p] = level]
  /\ timer' = (timer \/ periph_busy[p] # level)

\* cpu_physical_memory_write of a burst.  A peripheral may become busy by
\* what is written to it.
Write(e, vs) ==
  /\ out' = [out EXCEPT ![e.tag] = @ \o [k \in 1..e.len |-> [a |-> e.addr + k - 1, v |-> vs[k]]]]
  /\ \/ UNCHANGED wires
     \/ \E p \in Periph : Regs[p] = e.addr /\ pl330_dma_stop_irq(p, TRUE)

\* The slot of the write queue that can be written, 0 if there is none.
Writable ==
  LET i == pl330_queue_find_insn(write_queue, pl330_fifo_tag)
      e == write_queue.slot[i]
  IN  IF i # 0 /\ (e.z \/ Holds(e.len, e.tag)) THEN i ELSE 0

\* One burst from the write queue.
WriteCycle ==
  /\ phase = "write"
  /\ LET e == write_queue.slot[Writable]
     IN  IF Writable # 0
         THEN /\ Write(e, [k \in 1..e.len |-> IF e.z THEN Zero ELSE Bytes[k].v])
              /\ s' = IF e.z THEN s ELSE Advance(s, e.len)
              /\ write_queue' = BurstDone(write_queue, Writable)
         ELSE UNCHANGED <<wires, s, write_queue, out>>
  /\ num_exec' = (num_exec \/ Writable # 0)
  /\ phase' = IF num_exec' THEN "chan" ELSE "detect"
  /\ insr_exec' = (insr_exec \/ num_exec')
  /\ UNCHANGED <<chan, aborts, buf, t, read_queue, ints, debug_status, paused, who, left>>

\* The end of pl330_exec_channel, and the next turn of the loops of
\* pl330_exec.
Detect ==
  /\ phase = "detect"
  /\ IF chan[who].state = "executing"
     THEN chan' = [chan EXCEPT ![who] = Faulted(@, "lockup")] /\ RaiseAbort
     ELSE UNCHANGED <<chan, aborts>>
  /\ LET last == who = NChan - 1
     IN  /\ who' = CASE who = Manager -> 0
                     [] last /\ insr_exec -> Manager
                     [] last /\ ~insr_exec -> NoOne
                     [] OTHER -> who + 1
         /\ phase' = IF who' = NoOne THEN "idle" ELSE "chan"
         /\ insr_exec' = (insr_exec /\ ~last)
  /\ num_exec' = FALSE
  /\ UNCHANGED <<fifo, queues, ints, debug_status, wires, paused, out, left>>

pl330_exec_cycle_timer ==
  /\ phase = "idle"
  /\ timer
  /\ timer' = FALSE
  /\ Begin
  /\ UNCHANGED <<chan, aborts, fifo, queues, ints, debug_status, periph_busy, paused, out,
                 left>>

-----------------------------------------------------------------------------
(***************************************************************************)
(* The guest and the peripherals.                                          *)
(***************************************************************************)
Guest == phase = "idle" /\ left > 0 /\ left' = left - 1

\* DMAGO in the manager.
pl330_dmago(c, prog) ==
  /\ IF chan[c].state # "stopped"
     THEN chan' = [chan EXCEPT ![Manager] = Faulted(@, "undef")] /\ RaiseAbort /\ UNCHANGED out
     ELSE /\ chan' = [chan EXCEPT ![c] = [@ EXCEPT !.prog = prog, !.pc = 1, !.state = "executing"]]
          /\ out' = [out EXCEPT ![c] = <<>>]
          /\ UNCHANGED aborts
  /\ UNCHANGED <<fifo, queues, ints>>

\* DMAKILL as a debug instruction, in a channel or the manager.
DebugKill(c) ==
  /\ chan' = [chan EXCEPT ![c] = [@ EXCEPT !.fault = {}, !.state = "stopped"]]
  /\ IF chan[c].state = "fault" THEN LowerAbort ELSE UNCHANGED aborts
  /\ DropTag(c)
  /\ UNCHANGED <<ints, out>>

DebugSev(e) ==
  /\ Signal(e)
  /\ UNCHANGED <<chan, aborts, fifo, queues, out>>

\* An instruction that cannot be issued, and one with a bad operand.
DebugBad(c) ==
  /\ chan' = [chan EXCEPT ![c] = Faulted(@, "undef")]
  /\ RaiseAbort
  /\ UNCHANGED <<fifo, queues, ints, out>>

\* A write to DBGCMD: pl330_debug_exec and pl330_exec.
WriteDbgcmd(d) ==
  LET target == IF d.ins \in {"kill", "undef", "bad"} THEN d.c ELSE Manager
  IN  /\ Guest
      /\ Careful /\ chan[target].state = "fault" => d.ins = "kill"
      /\ CASE d.ins = "go" -> pl330_dmago(d.c, d.prog)
           [] d.ins = "kill" -> DebugKill(d.c)
           [] d.ins = "sev" -> DebugSev(d.e)
           [] OTHER -> DebugBad(d.c)
      /\ debug_status' = (d.ins = "undef")
      /\ Begin
      /\ UNCHANGED <<wires, paused>>

\* Drivers only add to the events that interrupt.
WriteInten(S) ==
  /\ Guest
  /\ inten \subseteq S
  /\ inten' = S
  /\ UNCHANGED <<chan, aborts, fifo, queues, int_status, ev_status, irq, debug_status, wires,
                 paused, loop, out>>

WriteIntclr(S) ==
  /\ Guest
  /\ irq' = irq \ (int_status \cap inten \cap S)
  /\ int_status' = int_status \ S
  /\ UNCHANGED <<chan, aborts, fifo, queues, inten, ev_status, debug_status, wires, paused, loop,
                 out>>

\* The guest writes IISCON of the I2S interface, say: with TXCHPAUSE or
\* without, with I2SACTIVE or without, and after SWRESET or not.  The line goes
\* up or down when TXCHPAUSE changes and then down if the interface is not
\* active.
WriteIiscon(p, pause, active, reset) ==
  LET old == paused[p] /\ ~reset
      toggled == IF pause # old THEN pause ELSE periph_busy[p]
      busy == toggled /\ active
  IN  /\ Guest
      /\ paused' = [paused EXCEPT ![p] = pause]
      /\ periph_busy' = [periph_busy EXCEPT ![p] = busy]
      /\ timer' = (timer \/ toggled # periph_busy[p] \/ busy # toggled)
      /\ UNCHANGED <<chan, aborts, fifo, queues, ints, debug_status, loop, out>>

\* s5pc1xx_i2s_audio_callback: a peripheral has room again, unless the guest
\* has paused it.
Resume(p) ==
  /\ phase = "idle"
  /\ periph_busy[p] /\ ~paused[p]
  /\ pl330_dma_stop_irq(p, FALSE)
  /\ UNCHANGED <<chan, aborts, fifo, queues, ints, debug_status, paused, loop, out, left>>

\* CCR = 0: one burst of one byte, the addresses stay.
ZeroControl == [slen |-> 1, sn |-> 1, sinc |-> FALSE, dlen |-> 1, dn |-> 1, dinc |-> FALSE]

ResetChannel(ch) ==
  [ch EXCEPT !.src = 0, !.dst = 0, !.pc = 0, !.state = "stopped", !.watch = 0,
             !.control = ZeroControl, !.fault = {}]

EmptyQueue(q) == [q EXCEPT !.slot = [i \in DOMAIN @ |-> Free]]

\* The manager, the interrupt lines, the timer and the sequence numbers keep
\* what they have.
pl330_reset ==
  /\ Guest
  /\ Resets
  /\ inten' = {} /\ int_status' = {} /\ ev_status' = {}
  /\ debug_status' = FALSE
  /\ num_faulting' = 0
  /\ s' = 0 /\ t' = 0
  /\ read_queue' = EmptyQueue(read_queue)
  /\ write_queue' = EmptyQueue(write_queue)
  /\ chan' = [c \in Who |-> IF c = Manager THEN chan[c] ELSE ResetChannel(chan[c])]
  /\ periph_busy' = [p \in Periph |-> FALSE]
  /\ UNCHANGED <<irq_abort, buf, irq, timer, paused, loop, out>>

Init ==
  /\ setup \in Setups
  /\ chan = [c \in Who |->
              [src |-> 0, dst |-> 0, pc |-> 0, prog |-> NoProgram, control |-> ZeroControl,
               lc0 |-> 0, lc1 |-> 0, request_flag |-> "single", state |-> "stopped",
               fault |-> {}, watch |-> 0]]
  /\ num_faulting = 0 /\ irq_abort = FALSE
  /\ buf = [i \in 0..FifoSize - 1 |-> [tag |-> 0, v |-> 0]]
  /\ s = 0 /\ t = 0
  /\ read_queue = [slot |-> [i \in 1..ReadSize |-> Free],
                   lo |-> [c \in Chan |-> 0], hi |-> [c \in Chan |-> 0]]
  /\ write_queue = [slot |-> [i \in 1..WriteSize |-> Free],
                    lo |-> [c \in Chan |-> 0], hi |-> [c \in Chan |-> 0]]
  /\ inten = {} /\ int_status = {} /\ ev_status = {} /\ irq = {}
  /\ debug_status = FALSE
  /\ periph_busy = [p \in Periph |-> FALSE] /\ timer = FALSE
  /\ paused = [p \in Periph |-> FALSE]
  /\ who = NoOne /\ phase = "idle" /\ num_exec = FALSE /\ insr_exec = FALSE
  /\ out = [c \in Chan |-> <<>>]
  /\ left = Limit

Exec == ChanExec \/ ReadCycle \/ WriteCycle \/ Detect

Next ==
  \/ Exec
  \/ pl330_exec_cycle_timer
  \/ \E d \in Commands : WriteDbgcmd(d)
  \/ \E S \in SUBSET setup.events : WriteInten(S) \/ WriteIntclr(S)
  \/ \E p \in Periph : Resume(p)
  \/ \E p \in Periph, pause, active, reset \in BOOLEAN : WriteIiscon(p, pause, active, reset)
  \/ pl330_reset

Spec == Init /\ [][Next /\ UNCHANGED setup]_<<vars, setup>>

\* pl330_exec is a loop, timers that are due fire, and the audio subsystem
\* calls back as long as it plays.  Nothing is assumed of the guest: what it
\* has paused may stay paused.
FairSpec ==
  /\ Spec
  /\ WF_vars(Exec)
  /\ WF_vars(pl330_exec_cycle_timer)
  /\ \A p \in Periph : WF_vars(Resume(p))

-----------------------------------------------------------------------------
Entries(q) == {q.slot[i] : i \in DOMAIN q.slot} \ {Free}
Entry == [tag : Chan, addr : Nat, len : Nat, n : Nat, inc : BOOLEAN, z : BOOLEAN, seqn : 0..255]

\* The state is well formed; the guest and the main loop only ever see the
\* controller between two runs of pl330_exec.
TypeOK ==
  /\ \A c \in Who :
       /\ chan[c].state \in {"stopped", "executing", "waiting_periph", "fault"}
       /\ chan[c].prog \in DOMAIN Programs \cup {NoProgram}
       /\ chan[c].pc \in Nat /\ chan[c].watch \in Nat
  /\ num_faulting \in 0..255
  /\ \A q \in {read_queue, write_queue} : Entries(q) \subseteq Entry
  /\ \A i \in DOMAIN buf : buf[i].tag \in Chan
  /\ (phase = "idle") = (who = NoOne)
  /\ who \in Who \cup {NoOne}
  /\ phase = "idle" => \A c \in Who : chan[c].state # "executing"
  /\ left \in 0..Limit

\* Both ends of the ring are indices of its array ("cyclic buffer of
\* BUF_SIZE size").
InBounds == s \in 0..FifoSize - 1 /\ t \in 0..FifoSize - 1

\* What a channel has stored so far are the bytes its program says, in the
\* order and at the addresses it says, whatever other channels do with the
\* queues and the ring.
CopyRight ==
  \A c \in Chan : chan[c].prog # NoProgram => IsPrefix(out[c], Want[chan[c].prog])

\* The numbers the queues have given to c's instructions are those they expect
\* next: no instruction has been dropped by a kill or a reset.
InStep(c) ==
  \A q \in {read_queue, write_queue} :
    (q.lo[c] + Quantify(DOMAIN q.slot, LAMBDA i : q.slot[i].tag = c)) % 256 = q.hi[c]

\* A channel ends its program only when everything has been stored ("Wait
\* for all transfers to complete"), unless a kill before that has left its
\* sequence numbers behind: its instructions are not found any more then.
EndComplete ==
  [][\A c \in Chan :
       chan[c].state = "executing" /\ chan'[c].state = "stopped" /\ Insn(c).op = "end"
         => out[c] = Want[chan[c].prog] \/ ~InStep(c)]_vars

\* What c needs cannot move: the first byte of the ring is another channel's,
\* which waits for a peripheral or is in a fault, or its instructions are not
\* found in the queues.
HeldUp(c) ==
  \/ /\ Bytes # <<>> /\ Bytes[1].tag # c
     /\ chan[Bytes[1].tag].state \in {"waiting_periph", "fault"}
  \/ ~InStep(c)

\* A channel is declared dead for these reasons only, and with a tidy guest
\* never: what it waits for comes.
NoLockup ==
  phase = "detect" /\ chan[who].state = "executing" => who \in Chan /\ HeldUp(who) /\ ~Tidy

\* A channel that waits for a peripheral that is ready will be run.
NoLostRestart ==
  \A c \in Chan :
    phase = "idle" /\ chan[c].state = "waiting_periph" /\ ~periph_busy[Insn(c).p] => timer

\* A channel that has stopped has nothing in the queues or in the ring.
Owned ==
  phase = "idle" =>
    /\ \A q \in {read_queue, write_queue} : \A e \in Entries(q) : chan[e.tag].state # "stopped"
    /\ \A k \in DOMAIN Bytes : chan[Bytes[k].tag].state # "stopped"

\* The abort interrupt is raised while, and only while, some thread is in a
\* fault.
AbortFollows ==
  Careful /\ ~Resets => irq_abort = (\E c \in Who : chan[c].state = "fault")

\* An event's line is raised while, and only while, its status bit is set.
LineIsStatus == ~Resets => irq = int_status

\* Every program that is started comes to an end or to a fault, unless it waits
\* for a peripheral that the guest has paused.
Ends ==
  \A c \in Chan :
    chan[c].state # "stopped"
      ~> \/ chan[c].state \in {"stopped", "fault"}
         \/ chan[c].state = "waiting_periph" /\ paused[Insn(c).p]

\* Between two runs of pl330_exec the controller is in order: the ring's ends
\* are in its array, nothing of a stopped channel is left, no ready channel is
\* forgotten, none is declared dead without cause, and the lines show the state (pl330_exec_cycle,
\* pl330_dmakill, pl330_iomem_write).
AtRest ==
  TypeOK /\ InBounds /\ Owned /\ NoLostRestart /\ NoLockup /\ AbortFollows /\ LineIsStatus
=============================================================================
