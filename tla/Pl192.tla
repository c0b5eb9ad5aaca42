------------------------------- MODULE Pl192 -------------------------------
(***************************************************************************)
(* The PL192 vectored interrupt controller (hw/pl192.c) and the daisy      *)
(* chain the S5PC110 board builds from four of them (hw/s5pc1xx.c).        *)
(* Controller 0 drives the IRQ and FIQ inputs of the CPU; controller k > 0 *)
(* has no output lines of its own and reports to controller k - 1.         *)
(*                                                                         *)
(* The C code runs to completion inside one device callback or one guest   *)
(* register access, so every such call is one step.  pl192_update calls    *)
(* itself through pl192_raise and pl192_lower, once per controller on the  *)
(* way to the CPU: Emit is one such call, and Chain makes as many as a     *)
(* chain of four needs.                                                    *)
(***************************************************************************)
EXTENDS Naturals, Sequences, FiniteSetsExt

CONSTANTS
  NVic,        \* controllers in the chain; S5PC1XX_VIC_N = 4 on the board
  NSrc,        \* inputs of one controller; PL192_INT_SOURCES = 32
  PrioLevels,  \* priority levels; PL192_PRIO_LEVELS = 16
  Addrs,       \* values of a vector address register; 0 at power-up
  Boot,        \* register contents the guest's boot code may leave behind
  GuestRegs,   \* names of the registers the guest goes on writing
  StackTest,   \* depth pl192_mask_priority refuses; PL192_INT_SOURCES = 32
  MaxNest      \* bound on stack_i: interrupts in service at the same time

Vics  == 0 .. NVic - 1
Src   == 0 .. NSrc - 1
Prio  == 0 .. PrioLevels - 1
Daisy == NSrc                 \* PL192_DAISY_IRQ
NoIrq == NSrc + 1             \* PL192_NO_IRQ

Registers == {"INTSELECT", "INTENABLE", "INTENCLEAR", "SOFTINT",
              "SOFTINTCLEAR", "SWPRIORITYMASK", "PRIORITYDAISY",
              "VECTPRIORITY", "VECTADDR", "ADDRESS"}

BootType == [intenable: SUBSET Src, intselect: SUBSET Src,
             sw_priority_mask: SUBSET Prio, daisy_priority: Prio,
             vect_priority: [Src -> Prio], vect_addr: [Src -> Addrs]]

\* A chain is no longer than the board's, and the "no interrupt" number is not
\* a priority level, as 33 >= 16 says.  The stacks hold PrioLevels + 1 entries,
\* fewer than StackTest allows on the board: an acknowledge that would write
\* past their end is not modelled.
ASSUME ChainAssumption ==
  /\ 0 \in Addrs
  /\ NVic \in 1 .. 4
  /\ NSrc \in Nat \ {0}
  /\ PrioLevels \in Nat \ {0}
  /\ NSrc + 1 >= PrioLevels
  /\ StackTest \in Nat
  /\ MaxNest \in 1 .. PrioLevels /\ MaxNest <= StackTest
  /\ Boot \subseteq [Vics -> BootType]
  /\ GuestRegs \subseteq Registers

VARIABLES
  vic,      \* the pl192_state of every controller
  irq,      \* CPU_INTERRUPT_HARD, the level of the CPU's IRQ input
  fiq,      \* CPU_INTERRUPT_FIQ, the level of the CPU's FIQ input
  aborted   \* hw_error() has ended the emulator

vars == <<vic, irq, fiq, aborted>>

-----------------------------------------------------------------------------
(***************************************************************************)
(* One controller.                                                         *)
(***************************************************************************)

\* The interrupt the sorter files under priority level p: the pending input
\* with the smallest number, else the daisy input.
PrioIrq(v, p) ==
  LET at == {i \in v.irq_status : v.vect_priority[i] = p} IN
  IF at # {} THEN Min(at)
  ELSE IF v.daisy_input /\ v.daisy_priority = p THEN Daisy
  ELSE NoIrq

pl192_priority_sorter(v) ==
  LET used == {p \in v.sw_priority_mask : PrioIrq(v, p) # NoIrq} IN
  IF used = {} THEN NoIrq ELSE PrioIrq(v, Min(used))

\* The head of pl192_update: the two status registers.
Latch(v) ==
  LET req == (v.rawintr \cup v.softint) \cap v.intenable IN
  [v EXCEPT !.irq_status = req \ v.intselect,
            !.fiq_status = req \cap v.intselect]

Requesting(v) == v.irq_status # {} \/ v.daisy_input

\* The middle of pl192_update: current_highest and address.
Settle(v) ==
  IF ~Requesting(v)
  THEN [v EXCEPT !.current_highest = NoIrq]
  ELSE LET h == pl192_priority_sorter(v) IN
       [v EXCEPT !.current_highest = h,
                 !.address = IF h \in Src THEN v.vect_addr[h]
                                          ELSE v.daisy_vectaddr]

\* Mutants: no pl192_lower when the last request goes away; pl192_lower where
\* a request is not urgent enough to raise the output.
OutputNeverLowered(v) ==
  IF ~Requesting(v) \/ v.current_highest = v.current THEN "none"
  ELSE IF v.current_highest = NoIrq THEN "lower" ELSE "raise"

OutputLoweredWhenMasked(v) ==
  LET h == v.current_highest IN
  IF ~Requesting(v) \/ h = NoIrq THEN "lower"
  ELSE IF h = v.current THEN "none"
  ELSE IF (IF h = Daisy THEN v.daisy_priority ELSE v.vect_priority[h]) < v.priority
       THEN "raise" ELSE "lower"

\* The tail of pl192_update: raise or lower the output, or return without
\* touching it.
OutputOf(v) ==
  LET h == v.current_highest IN
  CASE ~Requesting(v)                                   -> "lower"
    [] Requesting(v) /\ h = v.current                   -> "none"
    [] Requesting(v) /\ h # v.current /\ h = NoIrq      -> "lower"
    [] Requesting(v) /\ h # v.current /\ h \in Src      ->
         IF v.vect_priority[h] >= v.priority THEN "none" ELSE "raise"
    [] Requesting(v) /\ h # v.current /\ h = Daisy      ->
         IF v.daisy_priority >= v.priority THEN "none" ELSE "raise"

-----------------------------------------------------------------------------
(***************************************************************************)
(* The chain.  A call in progress is a record: the controllers, the two    *)
(* CPU inputs, and the controller `at' whose output change `sig' has still *)
(* to be passed on.                                                        *)
(***************************************************************************)

\* Mutant: the FIQ output is raised and never lowered.
UpdateOneFiqSticks(c, k) ==
  LET v == Settle(Latch(c.vic[k])) IN
  [vic |-> [c.vic EXCEPT ![k] = v], irq |-> c.irq,
   fiq |-> c.fiq \/ v.fiq_status # {}, at |-> k, sig |-> OutputOf(v)]

\* pl192_update on controller k up to its call of pl192_raise(s, 0) or
\* pl192_lower(s, 0).  Both FIQ calls go straight through to the CPU input.
UpdateOne(c, k) ==
  LET v == Settle(Latch(c.vic[k])) IN
  [vic |-> [c.vic EXCEPT ![k] = v], irq |-> c.irq,
   fiq |-> v.fiq_status # {}, at |-> k, sig |-> OutputOf(v)]

\* Mutant: daisy_input not cleared.
DaisyNotLowered(p) == p

\* What pl192_raise and pl192_lower write into the next controller, before
\* they call pl192_update on it.
DaisyRaised(p, v) == [p EXCEPT !.daisy_vectaddr = v.address,
                               !.daisy_callback = TRUE,
                               !.daisy_input = TRUE]
DaisyLowered(p)   == [p EXCEPT !.daisy_input = FALSE]

\* Mutant: the next controller's daisy input is set without updating it.
EmitNoUpdate(c) ==
  IF c.sig = "none" \/ c.at = 0
  THEN [c EXCEPT !.irq = IF c.sig = "none" THEN @ ELSE c.sig = "raise",
                 !.sig = "none"]
  ELSE [c EXCEPT !.vic[c.at - 1] = IF c.sig = "raise"
                                   THEN DaisyRaised(@, c.vic[c.at])
                                   ELSE DaisyLowered(@), !.sig = "none"]

\* pl192_raise(s, 0) and pl192_lower(s, 0) for s = controller c.at.
Emit(c) ==
  CASE c.sig = "none" -> c
    [] c.sig # "none" /\ c.at = 0 ->
         [c EXCEPT !.irq = (c.sig = "raise"), !.sig = "none"]
    [] c.sig # "none" /\ c.at # 0 ->
         LET p == c.at - 1
             w == IF c.sig = "raise"
                  THEN DaisyRaised(c.vic[p], c.vic[c.at])
                  ELSE DaisyLowered(c.vic[p])
         IN  UpdateOne([c EXCEPT !.vic[p] = w], p)

Chain(c) == Emit(Emit(Emit(Emit(c))))

pl192_update(c, k) == Chain(UpdateOne(c, k))

pl192_lower(c, k) == Chain([c EXCEPT !.at = k, !.sig = "lower"])

Now == [vic |-> vic, irq |-> irq, fiq |-> fiq, at |-> 0, sig |-> "none"]

\* The state a call leaves behind.
Becomes(c) == vic' = c.vic /\ irq' = c.irq /\ fiq' = c.fiq

-----------------------------------------------------------------------------
(***************************************************************************)
(* Acknowledge and end of interrupt.                                       *)
(***************************************************************************)

\* The level that goes with v.current.  With no current interrupt the code
\* reads vect_priority[33], two words past the end of the array; that word
\* of pl192_state is the field `current' itself, which then holds 33.
ServiceLevel(v) ==
  IF v.current = Daisy THEN v.daisy_priority
  ELSE IF v.current \in Src THEN v.vect_priority[v.current]
  ELSE NoIrq

pl192_mask_priority(v) ==
  [v EXCEPT !.priority = ServiceLevel(v),
            !.stack = Append(@, [priority |-> ServiceLevel(v),
                                 irq |-> v.current])]

stack_i(v) == Len(v.stack) - 1

\* Mutant: current is not restored.
UnmaskKeepsCurrent(v) ==
  [v EXCEPT !.stack = SubSeq(@, 1, Len(@) - 1),
            !.priority = v.stack[Len(v.stack) - 1].priority]

pl192_unmask_priority(v) ==
  LET below == v.stack[Len(v.stack) - 1] IN
  [v EXCEPT !.stack = SubSeq(@, 1, Len(@) - 1),
            !.priority = below.priority, !.current = below.irq]

\* Mutant: the controller behind the daisy input is not masked.
AckSetOwn(k) == {k}

\* The controllers pl192_irq_ack masks and pl192_irq_fin unmasks: controller
\* k and, when it is the daisy input that is served, the one behind it.
AckSet(k) == {k} \cup (IF vic[k].current_highest = Daisy THEN {k + 1} ELSE {})
FinSet(k) == {k} \cup (IF vic[k].current = Daisy THEN {k + 1} ELSE {})

\* The value a read of PL192_VECTADDR returns.
AckVector(k) == vic[k].address

\* hw_error("pl192: internal error") in pl192_mask_priority.
Overflow(k) == \E j \in AckSet(k) : stack_i(vic[j]) >= StackTest

pl192_irq_ack(k) ==
  LET taken == [vic EXCEPT ![k].current = vic[k].current_highest]
      acked == [j \in Vics |-> IF j \in AckSet(k)
                               THEN pl192_mask_priority(taken[j])
                               ELSE taken[j]]
  IN  /\ ~aborted
      /\ \/ /\ Overflow(k)
            /\ aborted' = TRUE
            /\ UNCHANGED <<vic, irq, fiq>>
         \/ /\ ~Overflow(k)
            /\ \A j \in AckSet(k) : stack_i(vic[j]) < MaxNest
            /\ Becomes(pl192_update([Now EXCEPT !.vic = acked], k))
            /\ UNCHANGED aborted

\* The other one, in pl192_unmask_priority.
Underflow(k) == \E j \in FinSet(k) : stack_i(vic[j]) < 1

pl192_irq_fin(k) ==
  LET popped == [j \in Vics |-> IF j \in FinSet(k)
                                THEN pl192_unmask_priority(vic[j])
                                ELSE vic[j]]
      settled == pl192_update([Now EXCEPT !.vic = popped], k)
  IN  /\ ~aborted
      /\ \/ /\ Underflow(k)
            /\ aborted' = TRUE
            /\ UNCHANGED <<vic, irq, fiq>>
         \/ /\ ~Underflow(k)
            /\ Becomes(IF settled.vic[k].current = NoIrq
                       THEN pl192_lower(settled, k) ELSE settled)
            /\ UNCHANGED aborted

-----------------------------------------------------------------------------
(***************************************************************************)
(* Device inputs and guest register accesses.                              *)
(***************************************************************************)

\* A register assignment followed by pl192_update, as in pl192_write.
Write(k, v) == /\ ~aborted
               /\ Becomes(pl192_update([Now EXCEPT !.vic[k] = v], k))
               /\ UNCHANGED aborted

\* A device drives input i of controller k.
pl192_irq_handler(k, i, level) ==
  Write(k, [vic[k] EXCEPT !.rawintr = IF level THEN @ \cup {i} ELSE @ \ {i}])

\* Guest writes to the registers that hold one bit per input or per level.
WriteMask(k, reg, bits) ==
  /\ reg \in GuestRegs
  /\ \/ /\ reg = "INTSELECT"
        /\ Write(k, [vic[k] EXCEPT !.intselect = bits])
     \/ /\ reg = "INTENABLE"
        /\ Write(k, [vic[k] EXCEPT !.intenable = @ \cup bits])
     \/ /\ reg = "INTENCLEAR"
        /\ Write(k, [vic[k] EXCEPT !.intenable = @ \ bits])
     \/ /\ reg = "SOFTINT"
        /\ Write(k, [vic[k] EXCEPT !.softint = @ \cup bits])
     \/ /\ reg = "SOFTINTCLEAR"
        /\ Write(k, [vic[k] EXCEPT !.softint = @ \ bits])

WriteSwPriorityMask(k, levels) ==
  /\ "SWPRIORITYMASK" \in GuestRegs
  /\ Write(k, [vic[k] EXCEPT !.sw_priority_mask = levels])

WritePriorityDaisy(k, p) ==
  /\ "PRIORITYDAISY" \in GuestRegs
  /\ Write(k, [vic[k] EXCEPT !.daisy_priority = p])

\* Mutant: the value is not cut to the four bits of a level.
WriteVectPriorityWide(k, i, p) ==
  /\ "VECTPRIORITY" \in GuestRegs
  /\ Write(k, [vic[k] EXCEPT !.vect_priority[i] = p + PrioLevels])

WriteVectPriority(k, i, p) ==
  /\ "VECTPRIORITY" \in GuestRegs
  /\ Write(k, [vic[k] EXCEPT !.vect_priority[i] = p])

WriteVectAddr(k, i, a) ==
  /\ "VECTADDR" \in GuestRegs
  /\ Write(k, [vic[k] EXCEPT !.vect_addr[i] = a])

\* The guest reads PL192_VECTADDR (acknowledge) or writes it (finish).
ReadAddress(k)  == "ADDRESS" \in GuestRegs /\ pl192_irq_ack(k)
WriteAddress(k) == "ADDRESS" \in GuestRegs /\ pl192_irq_fin(k)

-----------------------------------------------------------------------------
\* pl192_init1 and pl192_reset, then the boot configuration b: no input is
\* asserted yet, so the writes that load it change nothing else.
PoweredUp(b) ==
  [rawintr |-> {}, softint |-> {}, irq_status |-> {}, fiq_status |-> {},
   intenable |-> b.intenable, intselect |-> b.intselect,
   sw_priority_mask |-> b.sw_priority_mask,
   vect_priority |-> b.vect_priority, vect_addr |-> b.vect_addr, address |-> 0,
   current |-> NoIrq, current_highest |-> NoIrq, priority |-> PrioLevels,
   stack |-> <<[priority |-> PrioLevels, irq |-> NoIrq]>>,
   daisy_vectaddr |-> 0, daisy_priority |-> b.daisy_priority,
   daisy_input |-> FALSE, daisy_callback |-> FALSE]

Init == /\ \E b \in Boot : vic = [k \in Vics |-> PoweredUp(b[k])]
        /\ irq = FALSE /\ fiq = FALSE /\ aborted = FALSE

\* The devices, and a guest that writes any of GuestRegs on any controller.
Next ==
  \E k \in Vics :
    \/ \E i \in Src, level \in BOOLEAN : pl192_irq_handler(k, i, level)
    \/ \E reg \in GuestRegs, bits \in SUBSET Src : WriteMask(k, reg, bits)
    \/ \E levels \in SUBSET Prio : WriteSwPriorityMask(k, levels)
    \/ \E p \in Prio : WritePriorityDaisy(k, p)
    \/ \E i \in Src, p \in Prio : WriteVectPriority(k, i, p)
    \/ \E i \in Src, a \in Addrs : WriteVectAddr(k, i, a)
    \/ ReadAddress(k)
    \/ WriteAddress(k)

Spec == Init /\ [][Next]_vars

-----------------------------------------------------------------------------
(***************************************************************************)
(* Properties.                                                             *)
(***************************************************************************)
Irqs   == 0 .. NoIrq
Levels == 0 .. PrioLevels + NoIrq
Vic192 ==
  [rawintr: SUBSET Src, softint: SUBSET Src, intenable: SUBSET Src,
   intselect: SUBSET Src, irq_status: SUBSET Src, fiq_status: SUBSET Src,
   sw_priority_mask: SUBSET Prio, vect_priority: [Src -> Prio],
   vect_addr: [Src -> Addrs], address: Addrs, current: Irqs,
   current_highest: Irqs, priority: Levels,
   stack: Seq([priority: Levels, irq: Irqs]), daisy_vectaddr: Addrs,
   daisy_priority: Prio, daisy_input: BOOLEAN, daisy_callback: BOOLEAN]

\* The controllers' registers hold values of their widths.
TypeOK == /\ vic \in [Vics -> Vic192]
          /\ irq \in BOOLEAN /\ fiq \in BOOLEAN /\ aborted \in BOOLEAN

\* What the devices and the guest ask for, from the registers they set.
Pending(k) == ((vic[k].rawintr \cup vic[k].softint) \cap vic[k].intenable)
                \ vic[k].intselect

\* A controller's daisy input is held only while the controller behind it
\* really requests, so a request withdrawn at the far end of the chain has
\* been withdrawn from every controller in between (pl192_lower reaches all).
LinkCoherent == \A k \in Vics : vic[k].daisy_input =>
                  k + 1 \in Vics /\ Requesting(vic[k + 1])

\* The CPU's IRQ input is never high with no enabled, asserted IRQ anywhere
\* in the chain: no sequence of device edges, enables, acknowledges and
\* finishes leaves a phantom interrupt behind.
NoPhantomIrq == irq => \E k \in Vics : Pending(k) # {}

\* The same for FIQ, whose level is rewritten by the update of any controller.
NoPhantomFiq == fiq => \E k \in Vics :
  (vic[k].rawintr \cup vic[k].softint) \cap vic[k].intenable \cap vic[k].intselect # {}

\* What a controller could serve now, straight from its registers.
Candidates(k) ==
  {i \in Pending(k) : vic[k].vect_priority[i] \in vic[k].sw_priority_mask}
  \cup (IF vic[k].daisy_input /\ vic[k].daisy_priority \in vic[k].sw_priority_mask
        THEN {Daisy} ELSE {})

LevelOf(k, i) == IF i = Daisy THEN vic[k].daisy_priority ELSE vic[k].vect_priority[i]

\* i is served before j: the more urgent level, on a tie the lower number,
\* which puts the daisy input last.
Before(k, i, j) == \/ LevelOf(k, i) < LevelOf(k, j)
                   \/ LevelOf(k, i) = LevelOf(k, j) /\ i <= j

\* The cached winner that the next acknowledge will hand to the CPU is never
\* stale: it is the best of what the registers ask for now, and the cached
\* vector is that input's, whichever register was last written and however
\* the update was reached (directly or through the chain).
FreshHighest ==
  \A k \in Vics :
    LET h == vic[k].current_highest IN
    IF Candidates(k) = {} THEN h = NoIrq
    ELSE /\ h \in Candidates(k)
         /\ \A j \in Candidates(k) : Before(k, h, j)
         /\ h \in Src => vic[k].address = vic[k].vect_addr[h]

\* Acknowledge and finish nest: current and priority are always what the top
\* of the stack will restore, and the bottom entry is never popped.  Without
\* this a finish would return to the wrong interrupt or the wrong level.  (A
\* controller acknowledged through its daisy output keeps its own `current'.)
StackDiscipline ==
  \A k \in Vics :
    LET s == vic[k].stack  top == s[Len(s)] IN
    /\ s[1] = [priority |-> PrioLevels, irq |-> NoIrq]
    /\ vic[k].priority = top.priority /\ vic[k].current = top.irq

\* An interrupt taken through the daisy input names a controller to mask and
\* unmask: pl192_irq_ack and pl192_irq_fin never follow a null daisy_callback.
NoNullCallback ==
  \A k \in Vics :
    \/ vic[k].daisy_callback /\ k + 1 \in Vics
    \/ /\ vic[k].current_highest # Daisy
       /\ \A n \in DOMAIN vic[k].stack : vic[k].stack[n].irq # Daisy
=============================================================================
