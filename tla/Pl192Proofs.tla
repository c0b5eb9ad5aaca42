---------------------------- MODULE Pl192Proofs ----------------------------
(***************************************************************************)
(* Theorems about Pl192 and Pl192Guest.                                    *)
(***************************************************************************)
EXTENDS Pl192Guest, FiniteSetTheorems, SequenceTheorems, WellFoundedInduction, TLAPS

\* Constants: the sets the typing of the model is built from.
LEMMA Constants ==
  /\ NVic \in Nat /\ NVic >= 1 /\ NVic <= 4
  /\ NSrc \in Nat /\ PrioLevels \in Nat /\ PrioLevels >= 1
  /\ Daisy \in Irqs /\ NoIrq \in Irqs /\ Src \subseteq Irqs
  /\ Daisy \notin Src /\ NoIrq \notin Src /\ Daisy # NoIrq
  /\ NoIrq \in Levels /\ PrioLevels \in Levels /\ Prio \subseteq Levels
  /\ 0 \in Vics /\ 0 \in Addrs /\ Vics \subseteq Nat
BY ChainAssumption DEF Daisy, NoIrq, Irqs, Levels, Prio, Src, Vics

\* A non-empty set of natural numbers has a least element, which Min returns.
LEMMA MinIsLeast ==
  ASSUME NEW S \in SUBSET Nat, S # {}
  PROVE  Min(S) \in S /\ \A y \in S : Min(S) <= y
<1> DEFINE R == {ss \in Nat \X Nat : ss[1] < ss[2]}
<1>1. IsWellFoundedOn(R, Nat)
  BY NatLessThanWellFounded, Zenon DEF OpToRel
<1> HIDE DEF R
<1>2. PICK x \in S : \A y \in S : <<y, x>> \notin R
  BY <1>1, WFMin
<1>3. \A y \in S : x <= y
  <2> SUFFICES ASSUME NEW y \in S, y < x PROVE FALSE
    BY SMT
  <2>1. <<y, x>> \in Nat \X Nat /\ <<y, x>>[1] < <<y, x>>[2]
    BY SMT
  <2>2. <<y, x>> \in R
    BY <2>1, Zenon DEF R
  <2>3. QED BY <1>2, <2>2, Zenon
<1>4. QED BY <1>3 DEF Min

-----------------------------------------------------------------------------
(***************************************************************************)
(* Typing: one controller.                                                 *)
(***************************************************************************)

\* An entry of the service stack.
Saved == [priority: Levels, irq: Irqs]

\* The sorter returns an input number, the daisy input or "no interrupt".
LEMMA SorterType ==
  ASSUME NEW v \in Vic192
  PROVE  pl192_priority_sorter(v) \in Irqs
<1>1. ASSUME NEW p PROVE PrioIrq(v, p) \in Irqs
  <2> DEFINE at == {i \in v.irq_status : v.vect_priority[i] = p}
  <2>1. at \in SUBSET Nat /\ at \subseteq Src
    BY Constants DEF Vic192, Src
  <2>2. at # {} => Min(at) \in Src
    BY <2>1, MinIsLeast
  <2>3. QED BY <2>2, Constants DEF PrioIrq
<1>2. QED BY <1>1, Constants DEF pl192_priority_sorter

\* The first half of pl192_update, the status registers: well typed.
LEMMA LatchType ==
  ASSUME NEW v \in Vic192
  PROVE  Latch(v) \in Vic192
BY DEF Latch, Vic192

\* The priority sorter's results, stored in the controller: well typed.
LEMMA SettleType ==
  ASSUME NEW v \in Vic192
  PROVE  Settle(v) \in Vic192
BY SorterType, Constants DEF Settle, Vic192

\* What an update sends towards the CPU is raise, lower or nothing.
LEMMA OutputType ==
  ASSUME NEW v
  PROVE  v \in Vic192 => OutputOf(v) \in {"raise", "lower", "none"}
BY Constants DEF OutputOf, Vic192, Irqs, Src, Daisy, NoIrq

\* pl192_mask_priority pushes a well-typed entry on the service stack.
LEMMA MaskType ==
  ASSUME NEW v \in Vic192
  PROVE  pl192_mask_priority(v) \in Vic192
<1>1. ServiceLevel(v) \in Levels
  BY Constants DEF ServiceLevel, Vic192
<1>2. [priority |-> ServiceLevel(v), irq |-> v.current] \in Saved
  BY <1>1 DEF Vic192, Saved
<1>3. Append(v.stack, [priority |-> ServiceLevel(v), irq |-> v.current]) \in Seq(Saved)
  <2>1. v.stack \in Seq(Saved) BY DEF Vic192, Saved
  <2>2. QED BY <1>2, <2>1
<1>4. QED BY <1>1, <1>3 DEF pl192_mask_priority, Vic192, Saved

\* pl192_unmask_priority, past its test for underflow, is well typed.
LEMMA UnmaskType ==
  ASSUME NEW v \in Vic192, ~(stack_i(v) < 1)
  PROVE  pl192_unmask_priority(v) \in Vic192
<1>1. v.stack \in Seq(Saved) BY DEF Vic192, Saved
<1>2. Len(v.stack) \in Nat /\ Len(v.stack) - 1 \in 1 .. Len(v.stack)
  BY <1>1 DEF stack_i
<1>3. v.stack[Len(v.stack) - 1] \in Saved
  BY <1>1, <1>2
<1>4. SubSeq(v.stack, 1, Len(v.stack) - 1) \in Seq(Saved)
  BY <1>1, <1>2
<1>5. QED BY <1>3, <1>4 DEF pl192_unmask_priority, Vic192, Saved

-----------------------------------------------------------------------------
(***************************************************************************)
(* Typing: the chain.                                                      *)
(***************************************************************************)

\* A call in progress.
Calls == [vic: [Vics -> Vic192], irq: BOOLEAN, fiq: BOOLEAN, at: Vics,
          sig: {"raise", "lower", "none"}]

\* The update of one controller leaves a well-typed call at that controller.
LEMMA UpdateOneType ==
  ASSUME NEW c \in Calls, NEW k \in Vics
  PROVE  /\ UpdateOne(c, k) \in Calls
         /\ UpdateOne(c, k).at = k
<1>1. Settle(Latch(c.vic[k])) \in Vic192
  BY LatchType, SettleType DEF Calls
<1>2. QED BY <1>1, OutputType DEF UpdateOne, Calls

\* Raising and lowering a daisy input keep the receiving controller typed.
LEMMA DaisyType ==
  ASSUME NEW p \in Vic192, NEW v \in Vic192
  PROVE  DaisyRaised(p, v) \in Vic192 /\ DaisyLowered(p) \in Vic192
BY DEF DaisyRaised, DaisyLowered, Vic192

\* One call of pl192_raise or pl192_lower: well typed, and one controller
\* nearer to the CPU unless it is the last.
LEMMA EmitType ==
  ASSUME NEW c \in Calls
  PROVE  /\ Emit(c) \in Calls
         /\ Emit(c).sig = "none" \/ (c.at # 0 /\ Emit(c).at = c.at - 1)
<1>1. CASE c.sig = "none"
  BY <1>1 DEF Emit
<1>2. CASE c.sig # "none" /\ c.at = 0
  BY <1>2 DEF Emit, Calls
<1>3. CASE c.sig # "none" /\ c.at # 0
  <2> DEFINE p == c.at - 1
             w == IF c.sig = "raise" THEN DaisyRaised(c.vic[p], c.vic[c.at])
                                     ELSE DaisyLowered(c.vic[p])
             d == [c EXCEPT !.vic[p] = w]
  <2>1. p \in Vics /\ c.at \in Vics
    BY <1>3, ChainAssumption DEF Calls, Vics
  <2>2. w \in Vic192
    BY <2>1, DaisyType DEF Calls
  <2>3. d \in Calls
    BY <2>1, <2>2 DEF Calls
  <2>4. Emit(c) = UpdateOne(d, p)
    BY <1>3 DEF Emit
  <2>5. QED BY <1>3, <2>1, <2>3, <2>4, UpdateOneType
<1>4. QED BY <1>1, <1>2, <1>3

\* Four calls reach the CPU from any controller.
LEMMA ChainType ==
  ASSUME NEW c \in Calls
  PROVE  Chain(c) \in Calls /\ Chain(c).sig = "none"
<1> DEFINE c1 == Emit(c)  c2 == Emit(c1)  c3 == Emit(c2)  c4 == Emit(c3)
<1>0. Chain(c) = c4 BY DEF Chain
<1>1. c1 \in Calls /\ (c1.sig = "none" \/ c1.at <= 2)
  <2>1. c.at \in Nat /\ c.at <= 3 BY ChainAssumption DEF Calls, Vics
  <2>2. QED BY <2>1, EmitType
<1>n. \A d \in Calls : d.sig = "none" => Emit(d) = d
  BY DEF Emit
<1>nat. \A d \in Calls : d.at \in Nat
  BY Constants DEF Calls
<1> HIDE DEF c1
<1>2. c2 \in Calls /\ (c2.sig = "none" \/ c2.at <= 1)
  BY <1>1, <1>n, <1>nat, EmitType
<1> HIDE DEF c2
<1>3. c3 \in Calls /\ (c3.sig = "none" \/ c3.at <= 0)
  BY <1>2, <1>n, <1>nat, EmitType
<1> HIDE DEF c3
<1>4. c4 \in Calls /\ c4.sig = "none"
  BY <1>3, <1>n, <1>nat, EmitType
<1>5. QED BY <1>0, <1>4

\* The state between two operations is a call with nothing on its way.
LEMMA NowType == TypeOK => Now \in Calls
BY Constants DEF TypeOK, Now, Calls

\* The state after a call, from a well-typed call.
LEMMA BecomesType ==
  ASSUME NEW c \in Calls, Becomes(c), aborted' \in BOOLEAN
  PROVE  TypeOK'
BY DEF Becomes, Calls, TypeOK

\* The configuration left by the boot code.
LEMMA PoweredUpType ==
  ASSUME NEW b \in BootType
  PROVE  PoweredUp(b) \in Vic192
<1>1. [priority |-> PrioLevels, irq |-> NoIrq] \in Saved
  BY Constants DEF Saved
<1>2. <<[priority |-> PrioLevels, irq |-> NoIrq]>> \in Seq(Saved)
  BY <1>1
<1>3. QED BY <1>2, Constants DEF PoweredUp, BootType, Vic192, Saved

\* A register write or an input change keeps the types.
LEMMA WriteType ==
  ASSUME TypeOK, NEW k \in Vics, NEW v \in Vic192, Write(k, v)
  PROVE  TypeOK'
<1>1. [Now EXCEPT !.vic[k] = v] \in Calls
  BY NowType DEF Calls
<1>2. pl192_update([Now EXCEPT !.vic[k] = v], k) \in Calls
  BY <1>1, UpdateOneType, ChainType DEF pl192_update
<1>3. QED BY <1>2, BecomesType DEF Write, TypeOK

\* An acknowledge (a read of VICADDRESS) keeps the types.
LEMMA AckType ==
  ASSUME TypeOK, NEW k \in Vics, pl192_irq_ack(k)
  PROVE  TypeOK'
<1>o. ASSUME Overflow(k) PROVE TypeOK'
  BY <1>o DEF pl192_irq_ack, TypeOK
<1> SUFFICES ASSUME ~Overflow(k) PROVE TypeOK'
  BY <1>o
<1> DEFINE taken == [vic EXCEPT ![k].current = vic[k].current_highest]
           acked == [j \in Vics |-> IF j \in AckSet(k)
                                    THEN pl192_mask_priority(taken[j])
                                    ELSE taken[j]]
<1>1. taken \in [Vics -> Vic192]
  <2>1. vic \in [Vics -> Vic192] /\ vic[k] \in Vic192
    BY DEF TypeOK
  <2>2. [vic[k] EXCEPT !.current = vic[k].current_highest] \in Vic192
    BY <2>1 DEF Vic192
  <2>3. taken = [vic EXCEPT ![k] = [vic[k] EXCEPT !.current = vic[k].current_highest]]
    BY <2>1
  <2>4. QED BY <2>1, <2>2, <2>3
<1>2. acked \in [Vics -> Vic192]
  BY <1>1, MaskType
<1> HIDE DEF acked, taken
<1>3. [Now EXCEPT !.vic = acked] \in Calls
  BY <1>2, NowType DEF Calls
<1>4. pl192_update([Now EXCEPT !.vic = acked], k) \in Calls
  BY <1>3, UpdateOneType, ChainType DEF pl192_update
<1>5. QED BY <1>4, BecomesType DEF pl192_irq_ack, TypeOK, acked, taken

\* An end of interrupt (a write of VICADDRESS) keeps the types.
LEMMA FinType ==
  ASSUME TypeOK, NEW k \in Vics, pl192_irq_fin(k)
  PROVE  TypeOK'
<1> DEFINE popped == [j \in Vics |-> IF j \in FinSet(k)
                                     THEN pl192_unmask_priority(vic[j])
                                     ELSE vic[j]]
           settled == pl192_update([Now EXCEPT !.vic = popped], k)
           lowered == pl192_lower(settled, k)
<1>1. CASE Underflow(k)
  BY <1>1 DEF pl192_irq_fin, TypeOK
<1>2. CASE ~Underflow(k)
  <2>1. popped \in [Vics -> Vic192]
    BY <1>2, UnmaskType DEF Underflow, TypeOK
  <2>2. [Now EXCEPT !.vic = popped] \in Calls
    <3> HIDE DEF popped
    <3> QED BY <2>1, NowType DEF Calls
  <2>3. settled \in Calls
    BY <2>2, UpdateOneType, ChainType DEF pl192_update
  <2>4. lowered \in Calls
    <3> HIDE DEF settled
    <3>1. [settled EXCEPT !.at = k, !.sig = "lower"] \in Calls
      BY <2>3 DEF Calls
    <3>2. QED BY <3>1, ChainType DEF pl192_lower
  <2>5. \/ Becomes(settled) \/ Becomes(lowered)
    BY <1>2 DEF pl192_irq_fin
  <2>6. aborted' \in BOOLEAN
    BY <1>2 DEF pl192_irq_fin, TypeOK
  <2> HIDE DEF settled, lowered
  <2>7. QED BY <2>3, <2>4, <2>5, <2>6, BecomesType
<1>3. QED BY <1>1, <1>2

\* The service state of a controller.
SameService(v, w) == /\ w.stack = v.stack /\ w.priority = v.priority
                     /\ w.current = v.current

\* Every access is an acknowledge, an end of interrupt, or a register change
\* followed by pl192_update.
Kept(v, w) == /\ w \in Vic192
              /\ w.daisy_input = v.daisy_input /\ w.daisy_callback = v.daisy_callback
              /\ w.current_highest = v.current_highest
              /\ SameService(v, w)

\* Every step is a write that leaves the service state and the daisy input
\* of its controller alone, an acknowledge, or an end of interrupt.
LEMMA NextCases ==
  ASSUME TypeOK, Next
  PROVE  \E k \in Vics : \/ \E w : Kept(vic[k], w) /\ Write(k, w)
                         \/ pl192_irq_ack(k)
                         \/ pl192_irq_fin(k)
<1>1. PICK k \in Vics :
       \/ \E i \in Src, level \in BOOLEAN : pl192_irq_handler(k, i, level)
       \/ \E reg \in GuestRegs, bits \in SUBSET Src : WriteMask(k, reg, bits)
       \/ \E levels \in SUBSET Prio : WriteSwPriorityMask(k, levels)
       \/ \E p \in Prio : WritePriorityDaisy(k, p)
       \/ \E i \in Src, p \in Prio : WriteVectPriority(k, i, p)
       \/ \E i \in Src, a \in Addrs : WriteVectAddr(k, i, a)
       \/ ReadAddress(k)
       \/ WriteAddress(k)
  BY DEF Next
<1>v. vic[k] \in Vic192 BY DEF TypeOK
<1>2. CASE \E i \in Src, level \in BOOLEAN : pl192_irq_handler(k, i, level)
  <2>1. PICK i \in Src, level \in BOOLEAN : pl192_irq_handler(k, i, level)
    BY <1>2
  <2> DEFINE w == [vic[k] EXCEPT !.rawintr = IF level THEN @ \cup {i} ELSE @ \ {i}]
  <2>2. Kept(vic[k], w)
    BY <1>v DEF Vic192, Kept, SameService
  <2>3. Write(k, w)
    BY <2>1 DEF pl192_irq_handler
  <2> HIDE DEF w
  <2>4. QED BY <2>2, <2>3
<1>3. CASE \E reg \in GuestRegs, bits \in SUBSET Src : WriteMask(k, reg, bits)
  <2>1. PICK reg \in GuestRegs, bits \in SUBSET Src : WriteMask(k, reg, bits)
    BY <1>3
  <2>2. /\ Kept(vic[k], [vic[k] EXCEPT !.intselect = bits])
        /\ Kept(vic[k], [vic[k] EXCEPT !.intenable = @ \cup bits])
        /\ Kept(vic[k], [vic[k] EXCEPT !.intenable = @ \ bits])
        /\ Kept(vic[k], [vic[k] EXCEPT !.softint = @ \cup bits])
        /\ Kept(vic[k], [vic[k] EXCEPT !.softint = @ \ bits])
    BY <1>v DEF Vic192, Kept, SameService
  <2>3. QED BY <2>1, <2>2, Zenon DEF WriteMask
<1>4. CASE \E levels \in SUBSET Prio : WriteSwPriorityMask(k, levels)
  <2>1. PICK levels \in SUBSET Prio : WriteSwPriorityMask(k, levels)
    BY <1>4
  <2>2. Kept(vic[k], [vic[k] EXCEPT !.sw_priority_mask = levels])
    BY <1>v DEF Vic192, Kept, SameService
  <2>3. QED BY <2>1, <2>2, Zenon DEF WriteSwPriorityMask
<1>5. CASE \E p \in Prio : WritePriorityDaisy(k, p)
  <2>1. PICK p \in Prio : WritePriorityDaisy(k, p)
    BY <1>5
  <2>2. Kept(vic[k], [vic[k] EXCEPT !.daisy_priority = p])
    BY <1>v DEF Vic192, Kept, SameService
  <2>3. QED BY <2>1, <2>2, Zenon DEF WritePriorityDaisy
<1>6. CASE \E i \in Src, p \in Prio : WriteVectPriority(k, i, p)
  <2>1. PICK i \in Src, p \in Prio : WriteVectPriority(k, i, p)
    BY <1>6
  <2>2. Kept(vic[k], [vic[k] EXCEPT !.vect_priority[i] = p])
    BY <1>v DEF Vic192, Kept, SameService
  <2>3. QED BY <2>1, <2>2, Zenon DEF WriteVectPriority
<1>7. CASE \E i \in Src, a \in Addrs : WriteVectAddr(k, i, a)
  <2>1. PICK i \in Src, a \in Addrs : WriteVectAddr(k, i, a)
    BY <1>7
  <2>2. Kept(vic[k], [vic[k] EXCEPT !.vect_addr[i] = a])
    BY <1>v DEF Vic192, Kept, SameService
  <2>3. QED BY <2>1, <2>2, Zenon DEF WriteVectAddr
<1>8. CASE ReadAddress(k)
  BY <1>8 DEF ReadAddress
<1>9. CASE WriteAddress(k)
  BY <1>9 DEF WriteAddress
<1>10. QED BY <1>1, <1>2, <1>3, <1>4, <1>5, <1>6, <1>7, <1>8, <1>9

\* Every register of every controller keeps its width, for any number of
\* inputs, levels and vectors, and for chains as long as the board's.
THEOREM TypeCorrect == Spec => []TypeOK
<1>1. Init => TypeOK
  <2> SUFFICES ASSUME Init PROVE TypeOK
    OBVIOUS
  <2>1. PICK b \in Boot : vic = [k \in Vics |-> PoweredUp(b[k])]
    BY DEF Init
  <2>2. \A k \in Vics : b[k] \in BootType
    BY ChainAssumption
  <2>3. QED BY <2>1, <2>2, PoweredUpType DEF Init, TypeOK
<1>2. TypeOK /\ [Next]_vars => TypeOK'
  <2> SUFFICES ASSUME TypeOK, [Next]_vars PROVE TypeOK'
    OBVIOUS
  <2>1. CASE Next
    BY <2>1, NextCases, WriteType, AckType, FinType DEF Kept
  <2>2. CASE UNCHANGED vars
    BY <2>2 DEF vars, TypeOK
  <2>3. QED BY <2>1, <2>2
<1>3. QED BY <1>1, <1>2, PTL DEF Spec

-----------------------------------------------------------------------------
(***************************************************************************)
(* No phantom interrupts.  The inductive invariant is Coherent(Now): the   *)
(* status registers match the inputs, every daisy input is held by a       *)
(* controller that requests, and so is the CPU's IRQ line.  Inside a call  *)
(* the link whose "lower" is still on its way is exempt; AllBut is what    *)
(* holds between the change of controller k and its update.                *)
(***************************************************************************)
Latched(v) ==
  LET req == (v.rawintr \cup v.softint) \cap v.intenable IN
  v.irq_status = req \ v.intselect /\ v.fiq_status = req \cap v.intselect

Lowering(c, k) == c.sig = "lower" /\ c.at = k

Coherent(c) ==
  /\ \A j \in Vics : Latched(c.vic[j])
  /\ \A j \in Vics : c.vic[j].daisy_input =>
       j + 1 \in Vics /\ (Requesting(c.vic[j + 1]) \/ Lowering(c, j + 1))
  /\ c.irq => Requesting(c.vic[0]) \/ Lowering(c, 0)
  /\ c.fiq => \E j \in Vics : c.vic[j].fiq_status # {}
  /\ c.sig = "raise" => Requesting(c.vic[c.at])

AllBut(c, k) ==
  /\ \A j \in Vics \ {k} : Latched(c.vic[j])
  /\ \A j \in Vics : c.vic[j].daisy_input =>
       j + 1 \in Vics /\ (Requesting(c.vic[j + 1]) \/ j + 1 = k)
  /\ c.irq => Requesting(c.vic[0]) \/ k = 0

\* After its update a controller's status registers are up to date, its daisy
\* input is as before, and it sends lower when it has nothing to request.
LEMMA SettleFacts ==
  ASSUME NEW u \in Vic192
  PROVE  LET v == Settle(Latch(u)) IN
         /\ Latched(v)
         /\ v.daisy_input = u.daisy_input
         /\ ~Requesting(v) => OutputOf(v) = "lower"
         /\ OutputOf(v) = "raise" => Requesting(v)
<1> DEFINE v == Settle(Latch(u))
<1>1. Latch(u) \in Vic192 /\ Latched(Latch(u)) /\ Latch(u).daisy_input = u.daisy_input
  BY LatchType DEF Latch, Latched, Vic192
<1>2. Latched(v) /\ v.daisy_input = u.daisy_input
  BY <1>1 DEF Settle, Latched, Vic192
<1>3. v \in Vic192
  BY <1>1, SettleType
<1> HIDE DEF v
<1>4. ~Requesting(v) => OutputOf(v) = "lower"
  BY DEF OutputOf
<1>5. OutputOf(v) = "raise" => Requesting(v)
  BY <1>4
<1>6. QED BY <1>2, <1>4, <1>5 DEF v

\* pl192_update restores coherence at the controller it is called for.
LEMMA UpdateOneCoherent ==
  ASSUME NEW c \in Calls, NEW k \in Vics, AllBut(c, k)
  PROVE  Coherent(UpdateOne(c, k))
<1> DEFINE v == Settle(Latch(c.vic[k]))
           d == UpdateOne(c, k)
<1>1. c.vic \in [Vics -> Vic192] /\ c.vic[k] \in Vic192
  BY DEF Calls
<1>2. /\ Latched(v) /\ v.daisy_input = c.vic[k].daisy_input
      /\ ~Requesting(v) => OutputOf(v) = "lower"
      /\ OutputOf(v) = "raise" => Requesting(v)
  BY <1>1, SettleFacts
<1> HIDE DEF v
<1>3. /\ d.vic = [c.vic EXCEPT ![k] = v] /\ d.irq = c.irq
      /\ d.fiq = (v.fiq_status # {}) /\ d.at = k /\ d.sig = OutputOf(v)
  BY DEF UpdateOne, v
<1>4. d.vic[k] = v /\ \A j \in Vics \ {k} : d.vic[j] = c.vic[j]
  BY <1>1, <1>3
<1> HIDE DEF d
<1>5. \A j \in Vics : Latched(d.vic[j])
  BY <1>2, <1>4 DEF AllBut
<1>6. ASSUME NEW j \in Vics, d.vic[j].daisy_input
      PROVE  j + 1 \in Vics /\ (Requesting(d.vic[j + 1]) \/ Lowering(d, j + 1))
  <2>1. c.vic[j].daisy_input
    BY <1>2, <1>4, <1>6
  <2>2. j + 1 \in Vics /\ (Requesting(c.vic[j + 1]) \/ j + 1 = k)
    BY <2>1 DEF AllBut
  <2>3. QED BY <1>2, <1>3, <1>4, <2>2 DEF Lowering
<1>7. d.irq => Requesting(d.vic[0]) \/ Lowering(d, 0)
  BY <1>2, <1>3, <1>4, Constants DEF AllBut, Lowering
<1>8. d.fiq => \E j \in Vics : d.vic[j].fiq_status # {}
  BY <1>3, <1>4
<1>9. d.sig = "raise" => Requesting(d.vic[d.at])
  BY <1>2, <1>3, <1>4
<1>10. QED BY <1>5, <1>6, <1>7, <1>8, <1>9 DEF Coherent, d

\* Passing a change on to the next controller keeps the chain coherent.
LEMMA EmitCoherent ==
  ASSUME NEW c \in Calls, Coherent(c)
  PROVE  Coherent(Emit(c))
<1>1. CASE c.sig = "none"
  BY <1>1 DEF Emit
<1>2. CASE c.sig # "none" /\ c.at = 0
  <2>1. /\ Emit(c).vic = c.vic /\ Emit(c).fiq = c.fiq /\ Emit(c).sig = "none"
        /\ Emit(c).irq = (c.sig = "raise")
    BY <1>2 DEF Emit, Calls
  <2>2. \A j \in Vics : j + 1 # 0
    BY Constants
  <2>3. QED BY <1>2, <2>1, <2>2 DEF Coherent, Lowering
<1>3. CASE c.sig # "none" /\ c.at # 0
  <2> DEFINE p == c.at - 1
             w == IF c.sig = "raise" THEN DaisyRaised(c.vic[p], c.vic[c.at])
                                     ELSE DaisyLowered(c.vic[p])
             d == [c EXCEPT !.vic[p] = w]
  <2>1. p \in Vics /\ c.at \in Vics /\ p + 1 = c.at /\ p # c.at
    BY <1>3, ChainAssumption DEF Calls, Vics
  <2>2. w \in Vic192
    BY <2>1, DaisyType DEF Calls
  <2>3. w.daisy_input => c.sig = "raise"
    <3>1. c.vic[p] \in Vic192 BY <2>1 DEF Calls
    <3>2. DaisyLowered(c.vic[p]).daisy_input = FALSE
      BY <3>1 DEF DaisyLowered, Vic192
    <3>3. QED BY <3>2
  <2>4. d \in Calls /\ d.vic[p] = w /\ d.irq = c.irq
        /\ \A j \in Vics \ {p} : d.vic[j] = c.vic[j]
    <3> HIDE DEF w
    <3> QED BY <2>1, <2>2 DEF Calls
  <2>5. Emit(c) = UpdateOne(d, p)
    BY <1>3 DEF Emit
  <2> HIDE DEF w, d
  <2>6. \A j \in Vics \ {p} : Latched(d.vic[j])
    BY <2>4 DEF Coherent
  <2>7. ASSUME NEW j \in Vics, d.vic[j].daisy_input
        PROVE  j + 1 \in Vics /\ (Requesting(d.vic[j + 1]) \/ j + 1 = p)
    <3>1. CASE j = p
      <4>1. c.sig = "raise" BY <2>3, <2>4, <2>7, <3>1
      <4>2. Requesting(c.vic[c.at]) BY <4>1 DEF Coherent
      <4>3. QED BY <2>1, <2>4, <3>1, <4>2
    <3>2. CASE j # p
      <4>1. j + 1 \in Vics /\ (Requesting(c.vic[j + 1]) \/ Lowering(c, j + 1))
        BY <2>4, <2>7, <3>2 DEF Coherent
      <4>2. j + 1 # c.at
        BY <2>1, <3>2, Constants
      <4>3. QED BY <2>4, <4>1, <4>2 DEF Lowering
    <3>3. QED BY <3>1, <3>2
  <2>8. d.irq => Requesting(d.vic[0]) \/ p = 0
    BY <1>3, <2>4, Constants DEF Coherent, Lowering
  <2>9. AllBut(d, p)
    BY <2>6, <2>7, <2>8 DEF AllBut
  <2>10. QED BY <2>1, <2>4, <2>5, <2>9, UpdateOneCoherent
<1>4. QED BY <1>1, <1>2, <1>3

\* The walk to the CPU preserves coherence and leaves nothing on its way.
LEMMA ChainCoherent ==
  ASSUME NEW c \in Calls, Coherent(c)
  PROVE  Chain(c) \in Calls /\ Chain(c).sig = "none" /\ Coherent(Chain(c))
<1>1. Emit(c) \in Calls /\ Coherent(Emit(c))
  BY EmitType, EmitCoherent
<1>2. Emit(Emit(c)) \in Calls /\ Coherent(Emit(Emit(c)))
  BY <1>1, EmitType, EmitCoherent
<1>3. Emit(Emit(Emit(c))) \in Calls /\ Coherent(Emit(Emit(Emit(c))))
  BY <1>2, EmitType, EmitCoherent
<1>4. Coherent(Chain(c))
  BY <1>3, EmitType, EmitCoherent DEF Chain
<1>5. QED BY <1>4, ChainType

\* pl192_update restores coherence when only its own controller lacks it.
LEMMA UpdateCoherent ==
  ASSUME NEW c \in Calls, NEW k \in Vics, AllBut(c, k)
  PROVE  LET d == pl192_update(c, k) IN
         d \in Calls /\ d.sig = "none" /\ Coherent(d)
BY UpdateOneType, UpdateOneCoherent, ChainCoherent DEF pl192_update

\* The state after a call, from a coherent call.
LEMMA BecomesCoherent ==
  ASSUME NEW c \in Calls, c.sig = "none", Coherent(c), Becomes(c)
  PROVE  Coherent(Now)'
<1>1. /\ Now'.vic = c.vic /\ Now'.irq = c.irq /\ Now'.fiq = c.fiq
      /\ Now'.sig = "none"
  BY DEF Becomes, Now
<1> DEFINE n == Now'
<1>2. n.vic = c.vic /\ n.irq = c.irq /\ n.fiq = c.fiq /\ n.sig = "none"
  BY <1>1
<1> HIDE DEF n
<1>3. Coherent(n)
  BY <1>2 DEF Coherent, Lowering
<1>4. QED BY <1>3 DEF n

\* A register write or an input change preserves coherence.
LEMMA WriteCoherent ==
  ASSUME TypeOK, Coherent(Now), NEW k \in Vics, NEW w, Kept(vic[k], w), Write(k, w)
  PROVE  Coherent(Now)'
<1> DEFINE c == [Now EXCEPT !.vic[k] = w]
<1>1. /\ c \in Calls /\ c.irq = Now.irq /\ c.vic[k] = w
      /\ \A j \in Vics \ {k} : c.vic[j] = Now.vic[j]
  BY NowType DEF Calls, Kept
<1>2. Now.sig = "none" /\ Now.vic = vic
  BY DEF Now
<1>3. AllBut(c, k)
  <2> HIDE DEF c
  <2>1. \A j \in Vics \ {k} : Latched(c.vic[j])
    BY <1>1 DEF Coherent
  <2>2. ASSUME NEW j \in Vics, c.vic[j].daisy_input
        PROVE  j + 1 \in Vics /\ (Requesting(c.vic[j + 1]) \/ j + 1 = k)
    <3>1. Now.vic[j].daisy_input
      BY <1>1, <1>2, <2>2 DEF Kept
    <3>2. j + 1 \in Vics /\ Requesting(Now.vic[j + 1])
      BY <1>2, <3>1 DEF Coherent, Lowering
    <3>3. QED BY <1>1, <3>2
  <2>3. c.irq => Requesting(c.vic[0]) \/ k = 0
    BY <1>1, <1>2, Constants DEF Coherent, Lowering
  <2>4. QED BY <2>1, <2>2, <2>3 DEF AllBut
<1>4. QED BY <1>1, <1>3, UpdateCoherent, BecomesCoherent DEF Write

\* Masking and unmasking touch nothing the request lines depend on.
SameLines(v, w) ==
  /\ w.irq_status = v.irq_status /\ w.fiq_status = v.fiq_status
  /\ w.rawintr = v.rawintr /\ w.softint = v.softint
  /\ w.intenable = v.intenable /\ w.intselect = v.intselect
  /\ w.daisy_input = v.daisy_input

\* Pushing and popping the service stack touch no register that the chain's
\* lines are computed from.
LEMMA MaskLines ==
  ASSUME NEW v \in Vic192
  PROVE  /\ SameLines(v, pl192_mask_priority(v))
         /\ SameLines(v, pl192_unmask_priority(v))
         /\ SameLines(v, [v EXCEPT !.current = v.current_highest])
         /\ SameLines(v, pl192_mask_priority([v EXCEPT !.current = v.current_highest]))
BY DEF SameLines, pl192_mask_priority, pl192_unmask_priority, Vic192

\* Coherence depends on the registers behind the lines only.
LEMMA SameLinesCoherent ==
  ASSUME TypeOK, Coherent(Now), NEW k \in Vics, NEW f \in [Vics -> Vic192],
         \A j \in Vics : SameLines(vic[j], f[j])
  PROVE  LET c == [Now EXCEPT !.vic = f] IN
         c \in Calls /\ AllBut(c, k)
<1> DEFINE c == [Now EXCEPT !.vic = f]
<1>1. c \in Calls /\ c.irq = Now.irq /\ c.vic = f
  BY NowType DEF Calls
<1>2. Now.sig = "none" /\ Now.vic = vic
  BY DEF Now
<1> HIDE DEF c
<1>3. \A j \in Vics : Latched(vic[j]) => Latched(f[j])
  BY DEF Latched, SameLines
<1>4. \A j \in Vics : Requesting(vic[j]) => Requesting(f[j])
  BY DEF Requesting, SameLines
<1>5. \A j \in Vics : f[j].daisy_input => vic[j].daisy_input
  BY DEF SameLines
<1>6. AllBut(c, k)
  <2>1. \A j \in Vics \ {k} : Latched(c.vic[j])
    BY <1>1, <1>2, <1>3 DEF Coherent
  <2>2. ASSUME NEW j \in Vics, c.vic[j].daisy_input
        PROVE  j + 1 \in Vics /\ Requesting(c.vic[j + 1])
    <3>1. j + 1 \in Vics /\ Requesting(vic[j + 1])
      BY <1>1, <1>2, <1>5, <2>2 DEF Coherent, Lowering
    <3>2. QED BY <1>1, <1>4, <3>1
  <2>3. c.irq => Requesting(c.vic[0])
    BY <1>1, <1>2, <1>4, Constants DEF Coherent, Lowering
  <2>4. QED BY <2>1, <2>2, <2>3 DEF AllBut
<1>7. QED BY <1>1, <1>6 DEF c

\* An acknowledge preserves coherence.
LEMMA AckCoherent ==
  ASSUME TypeOK, Coherent(Now), NEW k \in Vics, pl192_irq_ack(k)
  PROVE  Coherent(Now)'
<1>o. ASSUME Overflow(k) PROVE Coherent(Now)'
  <2>1. Now' = Now
    BY <1>o DEF pl192_irq_ack, Now
  <2>2. QED BY <2>1 DEF Coherent, Latched, Requesting, Lowering
<1> SUFFICES ASSUME ~Overflow(k) PROVE Coherent(Now)'
  BY <1>o
<1> DEFINE taken == [vic EXCEPT ![k].current = vic[k].current_highest]
           acked == [j \in Vics |-> IF j \in AckSet(k)
                                    THEN pl192_mask_priority(taken[j])
                                    ELSE taken[j]]
<1>0. vic \in [Vics -> Vic192]
  BY DEF TypeOK
<1>1. \A j \in Vics : taken[j] = IF j = k
        THEN [vic[j] EXCEPT !.current = vic[j].current_highest] ELSE vic[j]
  BY <1>0
<1>2. \A j \in Vics : taken[j] \in Vic192
  <2>1. \A v \in Vic192 : [v EXCEPT !.current = v.current_highest] \in Vic192
    BY DEF Vic192
  <2> HIDE DEF taken
  <2>2. QED BY <1>0, <1>1, <2>1
<1>3. acked \in [Vics -> Vic192]
  <2> HIDE DEF taken
  <2> QED BY <1>2, MaskType
<1>4. \A j \in Vics : SameLines(vic[j], acked[j])
  <2> HIDE DEF taken
  <2>1. \A v \in Vic192 : SameLines(v, v)
    BY DEF SameLines
  <2>2. QED BY <1>0, <1>1, <2>1, MaskLines
<1>5. Becomes(pl192_update([Now EXCEPT !.vic = acked], k))
  BY DEF pl192_irq_ack
<1> HIDE DEF acked, taken
<1>6. QED BY <1>3, <1>4, <1>5, SameLinesCoherent, UpdateCoherent, BecomesCoherent

\* An end of interrupt preserves coherence.
LEMMA FinCoherent ==
  ASSUME TypeOK, Coherent(Now), NEW k \in Vics, pl192_irq_fin(k)
  PROVE  Coherent(Now)'
<1> DEFINE popped == [j \in Vics |-> IF j \in FinSet(k)
                                     THEN pl192_unmask_priority(vic[j])
                                     ELSE vic[j]]
           settled == pl192_update([Now EXCEPT !.vic = popped], k)
           lowered == pl192_lower(settled, k)
<1>1. CASE Underflow(k)
  <2>1. Now' = Now
    BY <1>1 DEF pl192_irq_fin, Now
  <2>2. QED BY <2>1 DEF Coherent, Latched, Requesting, Lowering
<1>2. CASE ~Underflow(k)
  <2>1. popped \in [Vics -> Vic192]
    BY <1>2, UnmaskType DEF Underflow, TypeOK
  <2>2. \A j \in Vics : SameLines(vic[j], popped[j])
    <3>1. \A v \in Vic192 : SameLines(v, v)
      BY DEF SameLines
    <3>2. QED BY <3>1, MaskLines DEF TypeOK
  <2>3. settled \in Calls /\ settled.sig = "none" /\ Coherent(settled)
    <3> HIDE DEF popped
    <3> QED BY <2>1, <2>2, SameLinesCoherent, UpdateCoherent
  <2>4. lowered \in Calls /\ lowered.sig = "none" /\ Coherent(lowered)
    <3> HIDE DEF settled
    <3> DEFINE d == [settled EXCEPT !.at = k, !.sig = "lower"]
    <3>1. /\ d \in Calls /\ d.sig = "lower" /\ d.vic = settled.vic
          /\ d.irq = settled.irq /\ d.fiq = settled.fiq
      BY <2>3 DEF Calls
    <3>2. lowered = Chain(d)
      BY DEF pl192_lower
    <3> HIDE DEF d, lowered
    <3>3. Coherent(d)
      BY <2>3, <3>1 DEF Coherent, Lowering
    <3>4. QED BY <3>1, <3>2, <3>3, ChainCoherent
  <2>5. \/ Becomes(settled) \/ Becomes(lowered)
    BY <1>2 DEF pl192_irq_fin
  <2> HIDE DEF settled, lowered
  <2>6. QED BY <2>3, <2>4, <2>5, BecomesCoherent
<1>3. QED BY <1>1, <1>2

\* The inductive invariant of the three theorems below.
LEMMA CoherentInvariant == Spec => []Coherent(Now)
<1>1. Init => Coherent(Now)
  <2> SUFFICES ASSUME Init PROVE Coherent(Now)
    OBVIOUS
  <2>1. PICK b \in Boot : vic = [k \in Vics |-> PoweredUp(b[k])]
    BY DEF Init
  <2>2. \A k \in Vics : /\ Latched(vic[k]) /\ vic[k].daisy_input = FALSE
    BY <2>1 DEF PoweredUp, Latched
  <2>3. Now.vic = vic /\ Now.irq = FALSE /\ Now.fiq = FALSE /\ Now.sig = "none"
    BY DEF Now, Init
  <2>4. QED BY <2>2, <2>3 DEF Coherent
<1>2. TypeOK /\ Coherent(Now) /\ [Next]_vars => Coherent(Now)'
  <2> SUFFICES ASSUME TypeOK, Coherent(Now), [Next]_vars PROVE Coherent(Now)'
    OBVIOUS
  <2>1. CASE Next
    BY <2>1, NextCases, WriteCoherent, AckCoherent, FinCoherent
  <2>2. CASE UNCHANGED vars
    <3>1. Now' = Now
      BY <2>2 DEF vars, Now
    <3>2. QED BY <3>1 DEF Coherent, Latched, Requesting, Lowering
  <2>3. QED BY <2>1, <2>2
<1>3. QED BY <1>1, <1>2, TypeCorrect, PTL DEF Spec

\* A daisy input is held only by a controller that requests.
THEOREM LinksCoherent == Spec => []LinkCoherent
<1>1. Coherent(Now) => LinkCoherent
  BY DEF Coherent, Lowering, LinkCoherent, Now
<1>2. QED BY <1>1, CoherentInvariant, PTL

\* The CPU's IRQ line is high only while some controller of the chain has an
\* asserted, enabled interrupt routed to IRQ, for any guest and any chain.
THEOREM NoPhantomIrqs == Spec => []NoPhantomIrq
<1>1. Coherent(Now) => NoPhantomIrq
  <2> SUFFICES ASSUME Coherent(Now), irq PROVE \E k \in Vics : Pending(k) # {}
    BY DEF NoPhantomIrq
  <2>1. \A j \in Vics : vic[j].irq_status = Pending(j)
    BY DEF Coherent, Now, Latched, Pending
  <2>2. \A j \in Vics : Requesting(vic[j]) =>
          Pending(j) # {} \/ (j + 1 \in Vics /\ Requesting(vic[j + 1]))
    BY <2>1 DEF Coherent, Now, Lowering, Requesting
  <2>3. Requesting(vic[0]) /\ 0 \in Vics
    BY Constants DEF Coherent, Now, Lowering
  <2>4. 4 \notin Vics
    BY ChainAssumption DEF Vics
  <2> HIDE DEF Pending
  <2>5. QED BY <2>2, <2>3, <2>4
<1>2. QED BY <1>1, CoherentInvariant, PTL

\* The CPU's FIQ line is high only while some controller has an asserted,
\* enabled interrupt routed to FIQ.
THEOREM NoPhantomFiqs == Spec => []NoPhantomFiq
<1>1. Coherent(Now) => NoPhantomFiq
  BY DEF Coherent, Now, Latched, NoPhantomFiq
<1>2. QED BY <1>1, CoherentInvariant, PTL

-----------------------------------------------------------------------------
(***************************************************************************)
(* The service stacks.  pl192_update and its walk along the chain leave    *)
(* the service state of every controller alone, so only acknowledge and    *)
(* end of interrupt matter; Stacked adds to StackDiscipline that the stack *)
(* is not empty, which keeps its top defined.                              *)
(***************************************************************************)
Bottom == [priority |-> PrioLevels, irq |-> NoIrq]

Stacked(v) ==
  /\ Len(v.stack) >= 1 /\ v.stack[1] = Bottom
  /\ v.stack[Len(v.stack)] = [priority |-> v.priority, irq |-> v.current]

\* Stacked depends on the service state only.
LEMMA StackedSame ==
  ASSUME NEW v, NEW w, SameService(v, w), Stacked(v)
  PROVE  Stacked(w)
BY DEF SameService, Stacked

\* The update of one controller leaves every service state alone.
LEMMA UpdateOneService ==
  ASSUME NEW c \in Calls, NEW k \in Vics, NEW j \in Vics
  PROVE  SameService(c.vic[j], UpdateOne(c, k).vic[j])
<1> DEFINE v == Settle(Latch(c.vic[k]))
<1>0. c.vic \in [Vics -> Vic192]
  BY DEF Calls
<1>1. SameService(c.vic[k], v)
  <2>1. Latch(c.vic[k]) \in Vic192 /\ SameService(c.vic[k], Latch(c.vic[k]))
    BY <1>0, LatchType DEF Latch, SameService, Vic192
  <2>2. \A u \in Vic192 : SameService(u, Settle(u))
    BY DEF Settle, SameService, Vic192
  <2>3. QED BY <2>1, <2>2 DEF SameService
<1>2. UpdateOne(c, k).vic = [c.vic EXCEPT ![k] = v]
  BY DEF UpdateOne
<1> HIDE DEF v
<1>3. UpdateOne(c, k).vic[j] = IF j = k THEN v ELSE c.vic[j]
  BY <1>0, <1>2
<1>4. QED BY <1>1, <1>3 DEF SameService

\* One call of pl192_raise or pl192_lower leaves every service state alone.
LEMMA EmitService ==
  ASSUME NEW c \in Calls, NEW j \in Vics
  PROVE  SameService(c.vic[j], Emit(c).vic[j])
<1>1. CASE c.sig = "none"
  BY <1>1 DEF Emit, SameService
<1>2. CASE c.sig # "none" /\ c.at = 0
  <2>1. Emit(c).vic = c.vic
    BY <1>2 DEF Emit, Calls
  <2>2. QED BY <2>1 DEF SameService
<1>3. CASE c.sig # "none" /\ c.at # 0
  <2> DEFINE p == c.at - 1
             w == IF c.sig = "raise" THEN DaisyRaised(c.vic[p], c.vic[c.at])
                                     ELSE DaisyLowered(c.vic[p])
             d == [c EXCEPT !.vic[p] = w]
  <2>1. p \in Vics /\ c.at \in Vics
    BY <1>3, ChainAssumption DEF Calls, Vics
  <2>2. c.vic[p] \in Vic192 /\ c.vic[c.at] \in Vic192
    BY <2>1 DEF Calls
  <2>3. w \in Vic192
    BY <2>2, DaisyType
  <2>4. SameService(c.vic[p], w)
    BY <2>2 DEF DaisyRaised, DaisyLowered, SameService, Vic192
  <2>5. Emit(c) = UpdateOne(d, p)
    BY <1>3 DEF Emit
  <2>6. d \in Calls /\ d.vic[j] = IF j = p THEN w ELSE c.vic[j]
    <3> HIDE DEF w
    <3> QED BY <2>1, <2>3 DEF Calls
  <2> HIDE DEF w, d
  <2>7. SameService(c.vic[j], d.vic[j])
    BY <2>4, <2>6 DEF SameService
  <2>8. SameService(d.vic[j], Emit(c).vic[j])
    BY <2>1, <2>5, <2>6, UpdateOneService
  <2>9. QED BY <2>7, <2>8 DEF SameService
<1>4. QED BY <1>1, <1>2, <1>3

\* So does the whole walk to the CPU.
LEMMA ChainService ==
  ASSUME NEW c \in Calls, NEW j \in Vics
  PROVE  SameService(c.vic[j], Chain(c).vic[j])
<1> DEFINE c1 == Emit(c)  c2 == Emit(c1)  c3 == Emit(c2)  c4 == Emit(c3)
<1>0. Chain(c) = c4
  BY DEF Chain
<1>1. c1 \in Calls /\ SameService(c.vic[j], c1.vic[j])
  BY EmitType, EmitService
<1> HIDE DEF c1
<1>2. c2 \in Calls /\ SameService(c1.vic[j], c2.vic[j])
  BY <1>1, EmitType, EmitService
<1> HIDE DEF c2
<1>3. c3 \in Calls /\ SameService(c2.vic[j], c3.vic[j])
  BY <1>2, EmitType, EmitService
<1> HIDE DEF c3
<1>4. SameService(c3.vic[j], c4.vic[j])
  BY <1>3, EmitService
<1>5. QED BY <1>0, <1>1, <1>2, <1>3, <1>4 DEF SameService

\* So does pl192_update.
LEMMA UpdateService ==
  ASSUME NEW c \in Calls, NEW k \in Vics, NEW j \in Vics
  PROVE  SameService(c.vic[j], pl192_update(c, k).vic[j])
<1>1. UpdateOne(c, k) \in Calls
  BY UpdateOneType
<1>2. QED BY <1>1, UpdateOneService, ChainService DEF pl192_update, SameService

\* After a call that leaves well stacked controllers behind.
LEMMA UpdateStacked ==
  ASSUME TypeOK, NEW f \in [Vics -> Vic192], NEW k \in Vics,
         \A j \in Vics : Stacked(f[j])
  PROVE  LET d == pl192_update([Now EXCEPT !.vic = f], k) IN
         d \in Calls /\ \A j \in Vics : Stacked(d.vic[j])
<1> DEFINE c == [Now EXCEPT !.vic = f]
<1>1. c \in Calls /\ c.vic = f
  BY NowType DEF Calls
<1> HIDE DEF c
<1>2. pl192_update(c, k) \in Calls
  BY <1>1, UpdateOneType, ChainType DEF pl192_update
<1>3. \A j \in Vics : Stacked(pl192_update(c, k).vic[j])
  BY <1>1, UpdateService, StackedSame
<1>4. QED BY <1>2, <1>3 DEF c

\* pl192_mask_priority leaves the level and interrupt in service on top.
LEMMA MaskStacked ==
  ASSUME NEW v \in Vic192, Len(v.stack) >= 1, v.stack[1] = Bottom
  PROVE  Stacked(pl192_mask_priority(v))
<1> DEFINE e == [priority |-> ServiceLevel(v), irq |-> v.current]
           w == pl192_mask_priority(v)
<1>1. w.stack = Append(v.stack, e) /\ w.priority = ServiceLevel(v)
      /\ w.current = v.current
  BY DEF pl192_mask_priority, Vic192
<1>2. v.stack \in Seq(Saved) /\ e \in Saved
  BY Constants DEF Vic192, Saved, ServiceLevel
<1> HIDE DEF e, w
<1>3. /\ Len(Append(v.stack, e)) = Len(v.stack) + 1
      /\ Append(v.stack, e)[1] = v.stack[1]
      /\ Append(v.stack, e)[Len(v.stack) + 1] = e
  BY <1>2
<1>4. Len(v.stack) \in Nat
  BY <1>2
<1>5. QED BY <1>1, <1>3, <1>4 DEF Stacked, e, w

\* pl192_unmask_priority restores what the entry below the top holds.
LEMMA UnmaskStacked ==
  ASSUME NEW v \in Vic192, Stacked(v), ~(stack_i(v) < 1)
  PROVE  Stacked(pl192_unmask_priority(v))
<1> DEFINE n == Len(v.stack) - 1
           s == SubSeq(v.stack, 1, n)
           w == pl192_unmask_priority(v)
<1>1. v.stack \in Seq(Saved)
  BY DEF Vic192, Saved
<1>2. n \in Nat /\ n >= 1 /\ n <= Len(v.stack) /\ Len(v.stack) \in Nat
  BY <1>1 DEF stack_i
<1>3. Len(s) = n /\ \A m \in 1 .. n : s[m] = v.stack[m]
  BY <1>1, <1>2
<1>4. w.stack = s /\ w.priority = v.stack[n].priority /\ w.current = v.stack[n].irq
  BY DEF pl192_unmask_priority, Vic192
<1>5. v.stack[n] = [priority |-> v.stack[n].priority, irq |-> v.stack[n].irq]
  <2>1. v.stack[n] \in Saved BY <1>1, <1>2
  <2>2. QED BY <2>1 DEF Saved
<1> HIDE DEF n, s, w
<1>6. QED BY <1>2, <1>3, <1>4, <1>5 DEF Stacked, w

\* An acknowledge keeps every stack of the chain in order.
LEMMA AckStacked ==
  ASSUME TypeOK, NEW k \in Vics, pl192_irq_ack(k), \A j \in Vics : Stacked(vic[j])
  PROVE  \A j \in Vics : Stacked(vic'[j])
<1>o. ASSUME Overflow(k) PROVE \A j \in Vics : Stacked(vic'[j])
  BY <1>o DEF pl192_irq_ack
<1> SUFFICES ASSUME ~Overflow(k) PROVE \A j \in Vics : Stacked(vic'[j])
  BY <1>o
<1> DEFINE taken == [vic EXCEPT ![k].current = vic[k].current_highest]
           acked == [j \in Vics |-> IF j \in AckSet(k)
                                    THEN pl192_mask_priority(taken[j])
                                    ELSE taken[j]]
<1>0. vic \in [Vics -> Vic192]
  BY DEF TypeOK
<1>1. \A j \in Vics : taken[j] = IF j = k
        THEN [vic[j] EXCEPT !.current = vic[j].current_highest] ELSE vic[j]
  BY <1>0
<1>2. \A v \in Vic192 : LET u == [v EXCEPT !.current = v.current_highest] IN
        u \in Vic192 /\ u.stack = v.stack
  BY DEF Vic192
<1>3. k \in AckSet(k)
  BY DEF AckSet
<1>4. Becomes(pl192_update([Now EXCEPT !.vic = acked], k))
  BY DEF pl192_irq_ack
<1> HIDE DEF taken
<1>5. \A j \in Vics : /\ taken[j] \in Vic192 /\ taken[j].stack = vic[j].stack
                      /\ j # k => taken[j] = vic[j]
  BY <1>0, <1>1, <1>2
<1>6. acked \in [Vics -> Vic192]
  BY <1>5, MaskType
<1>7. \A j \in Vics : Stacked(acked[j])
  <2> TAKE j \in Vics
  <2>1. CASE j \in AckSet(k)
    <3>1. Stacked(pl192_mask_priority(taken[j]))
      BY <1>5, MaskStacked DEF Stacked
    <3>2. QED BY <2>1, <3>1
  <2>2. CASE j \notin AckSet(k)
    BY <1>3, <1>5, <2>2
  <2>3. QED BY <2>1, <2>2
<1> HIDE DEF acked
<1>8. QED BY <1>4, <1>6, <1>7, UpdateStacked DEF Becomes

\* An end of interrupt keeps every stack of the chain in order.
LEMMA FinStacked ==
  ASSUME TypeOK, NEW k \in Vics, pl192_irq_fin(k), \A j \in Vics : Stacked(vic[j])
  PROVE  \A j \in Vics : Stacked(vic'[j])
<1> DEFINE popped == [j \in Vics |-> IF j \in FinSet(k)
                                     THEN pl192_unmask_priority(vic[j])
                                     ELSE vic[j]]
           settled == pl192_update([Now EXCEPT !.vic = popped], k)
           lowered == pl192_lower(settled, k)
<1>0. \A j \in Vics : vic[j] \in Vic192
  BY DEF TypeOK
<1>1. CASE Underflow(k)
  BY <1>1 DEF pl192_irq_fin
<1>2. CASE ~Underflow(k)
  <2>1. popped \in [Vics -> Vic192]
    BY <1>0, <1>2, UnmaskType DEF Underflow
  <2>2. \A j \in Vics : Stacked(popped[j])
    BY <1>0, <1>2, UnmaskStacked DEF Underflow
  <2>3. settled \in Calls /\ \A j \in Vics : Stacked(settled.vic[j])
    <3> HIDE DEF popped
    <3> QED BY <2>1, <2>2, UpdateStacked
  <2>4. \A j \in Vics : Stacked(lowered.vic[j])
    <3> HIDE DEF settled
    <3> DEFINE d == [settled EXCEPT !.at = k, !.sig = "lower"]
    <3>1. d \in Calls /\ d.vic = settled.vic
      BY <2>3 DEF Calls
    <3>2. lowered = Chain(d)
      BY DEF pl192_lower
    <3> HIDE DEF d, lowered
    <3>3. QED BY <2>3, <3>1, <3>2, ChainService, StackedSame
  <2>5. \/ Becomes(settled) \/ Becomes(lowered)
    BY <1>2 DEF pl192_irq_fin
  <2> HIDE DEF settled, lowered
  <2>6. QED BY <2>3, <2>4, <2>5 DEF Becomes
<1>3. QED BY <1>1, <1>2

\* A register write or an input change keeps every stack in order.
LEMMA WriteStacked ==
  ASSUME TypeOK, NEW k \in Vics, NEW w, Kept(vic[k], w), Write(k, w),
         \A j \in Vics : Stacked(vic[j])
  PROVE  \A j \in Vics : Stacked(vic'[j])
<1> DEFINE f == [vic EXCEPT ![k] = w]
<1>1. f \in [Vics -> Vic192] /\ \A j \in Vics : f[j] = IF j = k THEN w ELSE vic[j]
  BY DEF TypeOK, Kept
<1>2. [Now EXCEPT !.vic[k] = w] = [Now EXCEPT !.vic = f]
  BY DEF Now
<1>3. Becomes(pl192_update([Now EXCEPT !.vic = f], k))
  BY <1>2 DEF Write
<1> HIDE DEF f
<1>4. \A j \in Vics : Stacked(f[j])
  BY <1>1, StackedSame DEF Kept
<1>5. QED BY <1>1, <1>3, <1>4, UpdateStacked DEF Becomes

\* Every stack of the chain is in order.
AllStacked == \A j \in Vics : Stacked(vic[j])

\* Every stack of the chain is always in order.
LEMMA StackedInvariant == Spec => []AllStacked
<1>1. Init => AllStacked
  <2> SUFFICES ASSUME Init, NEW j \in Vics PROVE Stacked(vic[j])
    BY DEF AllStacked
  <2>1. PICK b \in Boot : vic = [k \in Vics |-> PoweredUp(b[k])]
    BY DEF Init
  <2>2. /\ vic[j].stack = <<Bottom>> /\ vic[j].priority = PrioLevels
        /\ vic[j].current = NoIrq
    BY <2>1 DEF PoweredUp, Bottom
  <2>3. QED BY <2>2 DEF Stacked, Bottom
<1>2. TypeOK /\ AllStacked /\ [Next]_vars => AllStacked'
  <2> SUFFICES ASSUME TypeOK, AllStacked, [Next]_vars PROVE AllStacked'
    OBVIOUS
  <2>1. CASE Next
    <3>1. \A j \in Vics : Stacked(vic'[j])
      BY <2>1, NextCases, WriteStacked, AckStacked, FinStacked DEF AllStacked
    <3>2. QED BY <3>1 DEF Stacked, AllStacked
  <2>2. CASE UNCHANGED vars
    BY <2>2 DEF vars, Stacked, AllStacked
  <2>3. QED BY <2>1, <2>2
<1>3. QED BY <1>1, <1>2, TypeCorrect, PTL DEF Spec

\* Acknowledge and end of interrupt nest on every controller: what an end of
\* interrupt will restore is what was current, whatever happened in between.
THEOREM StacksNest == Spec => []StackDiscipline
<1>1. AllStacked => StackDiscipline
  <2> SUFFICES ASSUME AllStacked, NEW k \in Vics
               PROVE  LET s == vic[k].stack  top == s[Len(s)] IN
                      /\ s[1] = [priority |-> PrioLevels, irq |-> NoIrq]
                      /\ vic[k].priority = top.priority /\ vic[k].current = top.irq
    BY DEF StackDiscipline
  <2>1. Stacked(vic[k])
    BY DEF AllStacked
  <2> DEFINE top == vic[k].stack[Len(vic[k].stack)]
  <2>2. top = [priority |-> vic[k].priority, irq |-> vic[k].current]
    BY <2>1 DEF Stacked
  <2>3. top.priority = vic[k].priority /\ top.irq = vic[k].current
    BY <2>2
  <2>4. vic[k].stack[1] = [priority |-> PrioLevels, irq |-> NoIrq]
    BY <2>1 DEF Stacked, Bottom
  <2>5. QED BY <2>3, <2>4
<1>2. QED BY <1>1, StackedInvariant, PTL

-----------------------------------------------------------------------------
(***************************************************************************)
(* The cached winner.  Settled is what an update leaves behind in its      *)
(* controller; every change of a register the sorter reads is followed by  *)
(* an update of that controller, in the same call or by the walk along the *)
(* chain, and acknowledges change none of them.                            *)
(***************************************************************************)
Settled(v) ==
  /\ Latched(v)
  /\ v.current_highest = IF Requesting(v) THEN pl192_priority_sorter(v) ELSE NoIrq
  /\ v.current_highest \in Src => v.address = v.vect_addr[v.current_highest]
  /\ v.current_highest = Daisy => v.address = v.daisy_vectaddr

\* An update settles its controller.
LEMMA SettleSettled ==
  ASSUME NEW u \in Vic192
  PROVE  Settled(Settle(Latch(u)))
<1> DEFINE l == Latch(u)
           v == Settle(l)
<1>1. l \in Vic192 /\ Latched(v)
  BY LatchType, SettleFacts
<1> HIDE DEF l
<1>2. /\ v.irq_status = l.irq_status /\ v.vect_priority = l.vect_priority
      /\ v.daisy_input = l.daisy_input /\ v.daisy_priority = l.daisy_priority
      /\ v.sw_priority_mask = l.sw_priority_mask /\ v.vect_addr = l.vect_addr
      /\ v.daisy_vectaddr = l.daisy_vectaddr
  BY <1>1 DEF Settle, Vic192
<1>3. Requesting(v) = Requesting(l) /\ pl192_priority_sorter(v) = pl192_priority_sorter(l)
  BY <1>2 DEF Requesting, pl192_priority_sorter, PrioIrq
<1>4. /\ v.current_highest = IF Requesting(l) THEN pl192_priority_sorter(l) ELSE NoIrq
      /\ v.current_highest \in Src => v.address = l.vect_addr[v.current_highest]
      /\ v.current_highest = Daisy => v.address = l.daisy_vectaddr
  BY <1>1, Constants DEF Settle, Vic192
<1> HIDE DEF v
<1>5. Settled(v)
  BY <1>1, <1>2, <1>3, <1>4 DEF Settled
<1>6. QED BY <1>5 DEF v, l

\* What the sorter reads and what it left.
SameChoice(v, w) ==
  /\ SameLines(v, w)
  /\ w.vect_priority = v.vect_priority /\ w.daisy_priority = v.daisy_priority
  /\ w.sw_priority_mask = v.sw_priority_mask /\ w.vect_addr = v.vect_addr
  /\ w.current_highest = v.current_highest /\ w.address = v.address
  /\ w.daisy_vectaddr = v.daisy_vectaddr

\* Settled depends on what SameChoice compares only.
LEMMA SettledSame ==
  ASSUME NEW v, NEW w, SameChoice(v, w), Settled(v)
  PROVE  Settled(w)
<1>1. Requesting(w) = Requesting(v) /\ pl192_priority_sorter(w) = pl192_priority_sorter(v)
  BY DEF SameChoice, SameLines, Requesting, pl192_priority_sorter, PrioIrq
<1>2. Latched(w)
  BY DEF SameChoice, SameLines, Settled, Latched
<1>3. QED BY <1>1, <1>2 DEF SameChoice, Settled

\* Pushing and popping the service stack change nothing of the choice.
LEMMA MaskChoice ==
  ASSUME NEW v \in Vic192
  PROVE  /\ SameChoice(v, v)
         /\ SameChoice(v, pl192_mask_priority(v))
         /\ SameChoice(v, pl192_unmask_priority(v))
         /\ SameChoice(v, pl192_mask_priority([v EXCEPT !.current = v.current_highest]))
BY DEF SameChoice, SameLines, pl192_mask_priority, pl192_unmask_priority, Vic192

\* All are settled, or all but controller k.
AllSettled(c) == \A j \in Vics : Settled(c.vic[j])

\* The update of controller k settles it and leaves the others settled.
LEMMA UpdateOneSettled ==
  ASSUME NEW c \in Calls, NEW k \in Vics, \A j \in Vics \ {k} : Settled(c.vic[j])
  PROVE  AllSettled(UpdateOne(c, k))
<1> DEFINE v == Settle(Latch(c.vic[k]))
<1>1. c.vic \in [Vics -> Vic192]
  BY DEF Calls
<1>2. Settled(v)
  BY <1>1, SettleSettled
<1>3. UpdateOne(c, k).vic = [c.vic EXCEPT ![k] = v]
  BY DEF UpdateOne
<1> HIDE DEF v
<1>4. \A j \in Vics : UpdateOne(c, k).vic[j] = IF j = k THEN v ELSE c.vic[j]
  BY <1>1, <1>3
<1>5. QED BY <1>2, <1>4 DEF AllSettled

\* The next controller is updated after its daisy input has changed.
LEMMA EmitSettled ==
  ASSUME NEW c \in Calls, AllSettled(c)
  PROVE  AllSettled(Emit(c))
<1>1. CASE c.sig = "none"
  BY <1>1 DEF Emit
<1>2. CASE c.sig # "none" /\ c.at = 0
  <2>1. Emit(c).vic = c.vic
    BY <1>2 DEF Emit, Calls
  <2>2. QED BY <2>1 DEF AllSettled
<1>3. CASE c.sig # "none" /\ c.at # 0
  <2> DEFINE p == c.at - 1
             w == IF c.sig = "raise" THEN DaisyRaised(c.vic[p], c.vic[c.at])
                                     ELSE DaisyLowered(c.vic[p])
             d == [c EXCEPT !.vic[p] = w]
  <2>1. p \in Vics /\ c.at \in Vics
    BY <1>3, ChainAssumption DEF Calls, Vics
  <2>2. w \in Vic192
    BY <2>1, DaisyType DEF Calls
  <2>3. Emit(c) = UpdateOne(d, p)
    BY <1>3 DEF Emit
  <2>4. d \in Calls /\ \A j \in Vics \ {p} : d.vic[j] = c.vic[j]
    <3> HIDE DEF w
    <3> QED BY <2>1, <2>2 DEF Calls
  <2> HIDE DEF w, d, p
  <2>5. QED BY <2>1, <2>3, <2>4, UpdateOneSettled DEF AllSettled
<1>4. QED BY <1>1, <1>2, <1>3

\* So the whole walk leaves every controller settled.
LEMMA ChainSettled ==
  ASSUME NEW c \in Calls, AllSettled(c)
  PROVE  AllSettled(Chain(c))
<1>1. Emit(c) \in Calls /\ AllSettled(Emit(c))
  BY EmitType, EmitSettled
<1>2. Emit(Emit(c)) \in Calls /\ AllSettled(Emit(Emit(c)))
  BY <1>1, EmitType, EmitSettled
<1>3. Emit(Emit(Emit(c))) \in Calls /\ AllSettled(Emit(Emit(Emit(c))))
  BY <1>2, EmitType, EmitSettled
<1>4. QED BY <1>3, EmitType, EmitSettled DEF Chain

\* After pl192_update on the controller that was changed.
LEMMA UpdateSettled ==
  ASSUME TypeOK, NEW f \in [Vics -> Vic192], NEW k \in Vics,
         \A j \in Vics \ {k} : Settled(f[j])
  PROVE  LET d == pl192_update([Now EXCEPT !.vic = f], k) IN
         d \in Calls /\ AllSettled(d)
<1> DEFINE c == [Now EXCEPT !.vic = f]
<1>1. c \in Calls /\ c.vic = f
  BY NowType DEF Calls
<1> HIDE DEF c
<1>2. UpdateOne(c, k) \in Calls /\ AllSettled(UpdateOne(c, k))
  BY <1>1, UpdateOneType, UpdateOneSettled
<1>3. pl192_update(c, k) \in Calls /\ AllSettled(pl192_update(c, k))
  BY <1>2, ChainType, ChainSettled DEF pl192_update
<1>4. QED BY <1>3 DEF c

\* A register write or an input change is followed by the update of its controller.
LEMMA WriteSettled ==
  ASSUME TypeOK, NEW k \in Vics, NEW w, Kept(vic[k], w), Write(k, w), AllSettled(Now)
  PROVE  \A j \in Vics : Settled(vic'[j])
<1> DEFINE f == [vic EXCEPT ![k] = w]
<1>1. f \in [Vics -> Vic192] /\ \A j \in Vics \ {k} : f[j] = vic[j]
  BY DEF TypeOK, Kept
<1>2. [Now EXCEPT !.vic[k] = w] = [Now EXCEPT !.vic = f]
  BY DEF Now
<1>3. Becomes(pl192_update([Now EXCEPT !.vic = f], k))
  BY <1>2 DEF Write
<1> HIDE DEF f
<1>4. \A j \in Vics \ {k} : Settled(f[j])
  BY <1>1 DEF AllSettled, Now
<1>5. QED BY <1>1, <1>3, <1>4, UpdateSettled DEF Becomes, AllSettled

\* An acknowledge changes nothing the sorter reads.
LEMMA AckSettled ==
  ASSUME TypeOK, NEW k \in Vics, pl192_irq_ack(k), AllSettled(Now)
  PROVE  \A j \in Vics : Settled(vic'[j])
<1>o. ASSUME Overflow(k) PROVE \A j \in Vics : Settled(vic'[j])
  BY <1>o DEF pl192_irq_ack, AllSettled, Now
<1> SUFFICES ASSUME ~Overflow(k) PROVE \A j \in Vics : Settled(vic'[j])
  BY <1>o
<1> DEFINE taken == [vic EXCEPT ![k].current = vic[k].current_highest]
           acked == [j \in Vics |-> IF j \in AckSet(k)
                                    THEN pl192_mask_priority(taken[j])
                                    ELSE taken[j]]
<1>0. vic \in [Vics -> Vic192]
  BY DEF TypeOK
<1>1. \A j \in Vics : taken[j] = IF j = k
        THEN [vic[j] EXCEPT !.current = vic[j].current_highest] ELSE vic[j]
  BY <1>0
<1>2. \A v \in Vic192 : [v EXCEPT !.current = v.current_highest] \in Vic192
  BY DEF Vic192
<1>3. Becomes(pl192_update([Now EXCEPT !.vic = acked], k))
  BY DEF pl192_irq_ack
<1> HIDE DEF taken
<1>4. \A j \in Vics : taken[j] \in Vic192 /\ (j # k => taken[j] = vic[j])
  BY <1>0, <1>1, <1>2
<1>5. acked \in [Vics -> Vic192]
  BY <1>4, MaskType
<1>6. \A j \in Vics \ {k} : SameChoice(vic[j], acked[j])
  BY <1>0, <1>4, MaskChoice
<1> HIDE DEF acked
<1>7. \A j \in Vics \ {k} : Settled(acked[j])
  BY <1>6, SettledSame DEF AllSettled, Now
<1>8. QED BY <1>3, <1>5, <1>7, UpdateSettled DEF Becomes, AllSettled

\* Nor does an end of interrupt.
LEMMA FinSettled ==
  ASSUME TypeOK, NEW k \in Vics, pl192_irq_fin(k), AllSettled(Now)
  PROVE  \A j \in Vics : Settled(vic'[j])
<1> DEFINE popped == [j \in Vics |-> IF j \in FinSet(k)
                                     THEN pl192_unmask_priority(vic[j])
                                     ELSE vic[j]]
           settled == pl192_update([Now EXCEPT !.vic = popped], k)
           lowered == pl192_lower(settled, k)
<1>0. \A j \in Vics : vic[j] \in Vic192 /\ Settled(vic[j])
  BY DEF TypeOK, AllSettled, Now
<1>1. CASE Underflow(k)
  BY <1>0, <1>1 DEF pl192_irq_fin
<1>2. CASE ~Underflow(k)
  <2>1. popped \in [Vics -> Vic192]
    BY <1>0, <1>2, UnmaskType DEF Underflow
  <2>2. \A j \in Vics : SameChoice(vic[j], popped[j])
    BY <1>0, MaskChoice
  <2>3. settled \in Calls /\ AllSettled(settled)
    <3> HIDE DEF popped
    <3>1. \A j \in Vics : Settled(popped[j])
      BY <1>0, <2>2, SettledSame
    <3> QED BY <2>1, <3>1, UpdateSettled
  <2>4. AllSettled(lowered)
    <3> HIDE DEF settled
    <3> DEFINE d == [settled EXCEPT !.at = k, !.sig = "lower"]
    <3>1. d \in Calls /\ d.vic = settled.vic
      BY <2>3 DEF Calls
    <3>2. lowered = Chain(d)
      BY DEF pl192_lower
    <3> HIDE DEF d, lowered
    <3>3. QED BY <2>3, <3>1, <3>2, ChainSettled DEF AllSettled
  <2>5. \/ Becomes(settled) \/ Becomes(lowered)
    BY <1>2 DEF pl192_irq_fin
  <2> HIDE DEF settled, lowered
  <2>6. QED BY <2>3, <2>4, <2>5 DEF Becomes, AllSettled
<1>3. QED BY <1>1, <1>2

\* The sorter finds the best of the candidates.
LEMMA SorterBest ==
  ASSUME NEW v \in Vic192
  PROVE  LET h == pl192_priority_sorter(v)
             C == {i \in v.irq_status : v.vect_priority[i] \in v.sw_priority_mask}
                  \cup (IF v.daisy_input /\ v.daisy_priority \in v.sw_priority_mask
                        THEN {Daisy} ELSE {})
             L(i) == IF i = Daisy THEN v.daisy_priority ELSE v.vect_priority[i]
         IN  IF C = {} THEN h = NoIrq
             ELSE h \in C /\ \A j \in C : L(h) < L(j) \/ (L(h) = L(j) /\ h <= j)
<1> DEFINE at(p) == {i \in v.irq_status : v.vect_priority[i] = p}
           C == {i \in v.irq_status : v.vect_priority[i] \in v.sw_priority_mask}
                \cup (IF v.daisy_input /\ v.daisy_priority \in v.sw_priority_mask
                      THEN {Daisy} ELSE {})
           L(i) == IF i = Daisy THEN v.daisy_priority ELSE v.vect_priority[i]
           used == {p \in v.sw_priority_mask : PrioIrq(v, p) # NoIrq}
           h == pl192_priority_sorter(v)
<1>1. /\ v.irq_status \subseteq Src /\ v.sw_priority_mask \subseteq Prio
      /\ v.vect_priority \in [Src -> Prio] /\ v.daisy_priority \in Prio
      /\ v.daisy_input \in BOOLEAN
  BY DEF Vic192
<1>2. /\ Src \subseteq Nat /\ Prio \subseteq Nat /\ Daisy \in Nat
      /\ \A i \in Src : i < Daisy /\ i # NoIrq
      /\ Daisy # NoIrq /\ Daisy \notin Src
  BY Constants DEF Src, Prio, Daisy, NoIrq
<1>3. ASSUME NEW p \in Prio
      PROVE  /\ at(p) # {} => /\ PrioIrq(v, p) \in at(p)
                              /\ \A i \in at(p) : PrioIrq(v, p) <= i
             /\ at(p) = {} => PrioIrq(v, p) = IF v.daisy_input /\ v.daisy_priority = p
                                              THEN Daisy ELSE NoIrq
  <2>1. at(p) \in SUBSET Nat
    BY <1>1, <1>2
  <2>2. at(p) # {} => Min(at(p)) \in at(p) /\ \A i \in at(p) : Min(at(p)) <= i
    BY <2>1, MinIsLeast
  <2>3. QED BY <2>2 DEF PrioIrq
<1>4. \A j \in C : L(j) \in v.sw_priority_mask /\ L(j) \in Prio
  BY <1>1, <1>2
<1>5. \A p \in used : PrioIrq(v, p) \in C /\ L(PrioIrq(v, p)) = p
  BY <1>1, <1>2, <1>3
<1>6. ASSUME NEW j \in C
      PROVE  L(j) \in used /\ PrioIrq(v, L(j)) <= j
  <2>1. CASE j \in Src
    <3>1. j \in at(L(j))
      BY <1>1, <1>2, <2>1
    <3>2. PrioIrq(v, L(j)) \in at(L(j)) /\ PrioIrq(v, L(j)) <= j
      BY <1>3, <1>4, <3>1
    <3>3. QED BY <1>1, <1>2, <1>4, <3>2
  <2>2. CASE j = Daisy
    <3>1. v.daisy_input /\ v.daisy_priority \in v.sw_priority_mask /\ L(j) = v.daisy_priority
      BY <1>1, <1>2, <2>2
    <3> DEFINE q == L(j)
    <3>2. q \in v.sw_priority_mask /\ q \in Prio /\ q = v.daisy_priority
      BY <1>4, <3>1
    <3>3. /\ at(q) # {} => PrioIrq(v, q) \in at(q)
          /\ at(q) = {} => PrioIrq(v, q) = Daisy
      BY <1>3, <3>1, <3>2
    <3>4. \A i \in at(q) : i \in Src
      BY <1>1
    <3> HIDE DEF q, at
    <3>5. PrioIrq(v, q) \in Src \/ PrioIrq(v, q) = Daisy
      BY <3>3, <3>4
    <3>6. PrioIrq(v, q) # NoIrq /\ PrioIrq(v, q) <= Daisy
      <4>1. \A i \in Src : i # NoIrq /\ i <= Daisy
        BY Constants DEF Src, NoIrq, Daisy
      <4>2. Daisy # NoIrq /\ Daisy <= Daisy
        BY Constants DEF NoIrq, Daisy
      <4>3. QED BY <3>5, <4>1, <4>2
    <3>7. q \in used
      BY <3>2, <3>6
    <3>8. QED BY <2>2, <3>6, <3>7 DEF q
  <2>3. QED BY <1>1, <2>1, <2>2
<1>7. h = IF used = {} THEN NoIrq ELSE PrioIrq(v, Min(used))
  BY DEF pl192_priority_sorter
<1>8. used # {} => Min(used) \in used /\ \A p \in used : Min(used) <= p
  <2>1. used \in SUBSET Nat
    BY <1>1, <1>2
  <2>2. QED BY <2>1, MinIsLeast
<1>9. used \subseteq Nat
  BY <1>1, <1>2
<1> HIDE DEF used, C, h, L, at
<1>10. CASE used = {}
  BY <1>6, <1>7, <1>10 DEF C, h, L
<1>11. CASE used # {}
  <2> DEFINE m == Min(used)
  <2>1. m \in used /\ h = PrioIrq(v, m) /\ \A p \in used : m <= p
    BY <1>7, <1>8, <1>11
  <2> HIDE DEF m
  <2>2. h \in C /\ L(h) = m
    BY <1>5, <2>1
  <2>3. ASSUME NEW j \in C PROVE L(h) < L(j) \/ (L(h) = L(j) /\ h <= j)
    <3>1. L(j) \in used /\ PrioIrq(v, L(j)) <= j
      BY <1>6
    <3>2. m <= L(j) /\ m \in Nat /\ L(j) \in Nat
      BY <1>9, <2>1, <3>1
    <3>3. CASE m < L(j)
      BY <2>2, <3>3
    <3>4. CASE m = L(j)
      BY <2>1, <2>2, <3>1, <3>4
    <3>5. QED BY <3>2, <3>3, <3>4
  <2>4. QED BY <2>2, <2>3 DEF C, h, L
<1>12. QED BY <1>10, <1>11

\* From the controllers to the state after a step.
LEMMA SettledNow ==
  ASSUME \A j \in Vics : Settled(vic'[j])
  PROVE  AllSettled(Now)'
<1> DEFINE n == Now'
<1>1. n.vic = vic'
  BY DEF Now
<1> HIDE DEF n
<1>2. AllSettled(n)
  BY <1>1 DEF AllSettled
<1>3. QED BY <1>2 DEF n

\* Every controller is settled between two operations.
LEMMA SettledInvariant == Spec => []AllSettled(Now)
<1>1. Init => AllSettled(Now)
  <2> SUFFICES ASSUME Init, NEW j \in Vics PROVE Settled(vic[j])
    BY DEF AllSettled, Now
  <2>1. PICK b \in Boot : vic = [k \in Vics |-> PoweredUp(b[k])]
    BY DEF Init
  <2>2. /\ Latched(vic[j]) /\ ~Requesting(vic[j]) /\ vic[j].current_highest = NoIrq
    BY <2>1 DEF PoweredUp, Latched, Requesting
  <2>3. QED BY <2>2, Constants DEF Settled
<1>2. TypeOK /\ AllSettled(Now) /\ [Next]_vars => AllSettled(Now)'
  <2> SUFFICES ASSUME TypeOK, AllSettled(Now), [Next]_vars PROVE AllSettled(Now)'
    OBVIOUS
  <2>1. CASE Next
    <3>1. \A j \in Vics : Settled(vic'[j])
      BY <2>1, NextCases, WriteSettled, AckSettled, FinSettled
    <3>2. QED BY <3>1, SettledNow
  <2>2. CASE UNCHANGED vars
    <3>1. \A j \in Vics : Settled(vic'[j])
      BY <2>2 DEF vars, AllSettled, Now
    <3>2. QED BY <3>1, SettledNow
  <2>3. QED BY <2>1, <2>2
<1>3. QED BY <1>1, <1>2, TypeCorrect, PTL DEF Spec

\* The cached winner is never stale: for any guest, chain and configuration
\* current_highest is the best of what the registers ask for, and the cached
\* vector belongs to it (pl192_update, pl192_priority_sorter).
THEOREM WinnerFresh == Spec => []FreshHighest
<1>1. TypeOK /\ AllSettled(Now) => FreshHighest
  <2> SUFFICES ASSUME TypeOK, AllSettled(Now), NEW k \in Vics
               PROVE  LET h == vic[k].current_highest IN
                      IF Candidates(k) = {} THEN h = NoIrq
                      ELSE /\ h \in Candidates(k)
                           /\ \A j \in Candidates(k) : Before(k, h, j)
                           /\ h \in Src => vic[k].address = vic[k].vect_addr[h]
    BY DEF FreshHighest
  <2> DEFINE v == vic[k]
  <2>1. v \in Vic192 /\ Settled(v)
    BY DEF TypeOK, AllSettled, Now
  <2>2. v.irq_status = Pending(k)
    BY <2>1 DEF Settled, Latched, Pending
  <2>3. Candidates(k) = {i \in v.irq_status : v.vect_priority[i] \in v.sw_priority_mask}
                        \cup (IF v.daisy_input /\ v.daisy_priority \in v.sw_priority_mask
                              THEN {Daisy} ELSE {})
    BY <2>2 DEF Candidates
  <2>4. \A i, j : Before(k, i, j) <=>
          LET L(n) == IF n = Daisy THEN v.daisy_priority ELSE v.vect_priority[n]
          IN  L(i) < L(j) \/ (L(i) = L(j) /\ i <= j)
    BY DEF Before, LevelOf
  <2>5. CASE Requesting(v)
    <3>1. v.current_highest = pl192_priority_sorter(v)
      BY <2>1, <2>5 DEF Settled
    <3> HIDE DEF v
    <3>2. IF Candidates(k) = {} THEN pl192_priority_sorter(v) = NoIrq
          ELSE /\ pl192_priority_sorter(v) \in Candidates(k)
               /\ \A j \in Candidates(k) : Before(k, pl192_priority_sorter(v), j)
      BY <2>1, <2>3, <2>4, SorterBest
    <3>3. QED BY <2>1, <3>1, <3>2 DEF Settled, v
  <2>6. CASE ~Requesting(v)
    <3>1. Candidates(k) = {}
      BY <2>3, <2>6 DEF Requesting
    <3>2. QED BY <2>1, <2>6, <3>1 DEF Settled
  <2>7. QED BY <2>5, <2>6
<1>2. QED BY <1>1, TypeCorrect, SettledInvariant, PTL

-----------------------------------------------------------------------------
(***************************************************************************)
(* Callbacks.  A controller that has a daisy input, serves one or has one  *)
(* on its stack was given its callback when the input was first raised:    *)
(* daisy_callback is never cleared.                                        *)
(***************************************************************************)
Guarded(v, k) ==
  \/ v.daisy_callback /\ k + 1 \in Vics
  \/ /\ ~v.daisy_input /\ v.current_highest # Daisy /\ v.current # Daisy
     /\ \A n \in DOMAIN v.stack : v.stack[n].irq # Daisy

\* The sorter does not choose a daisy input that is not there.
LEMMA SorterNotDaisy ==
  ASSUME NEW v \in Vic192, ~v.daisy_input
  PROVE  pl192_priority_sorter(v) # Daisy
<1> DEFINE C == {i \in v.irq_status : v.vect_priority[i] \in v.sw_priority_mask}
                \cup (IF v.daisy_input /\ v.daisy_priority \in v.sw_priority_mask
                      THEN {Daisy} ELSE {})
<1>1. C \subseteq Src
  BY DEF Vic192
<1>2. IF C = {} THEN pl192_priority_sorter(v) = NoIrq ELSE pl192_priority_sorter(v) \in C
  BY SorterBest
<1> HIDE DEF C
<1>3. QED BY <1>1, <1>2, Constants

\* An update chooses the daisy input only where there is one.
LEMMA SettleGuarded ==
  ASSUME NEW u \in Vic192, NEW k, Guarded(u, k)
  PROVE  Guarded(Settle(Latch(u)), k)
<1> DEFINE l == Latch(u)
<1>1. /\ l \in Vic192 /\ l.daisy_callback = u.daisy_callback /\ l.stack = u.stack
      /\ l.daisy_input = u.daisy_input /\ l.current = u.current
  BY LatchType DEF Latch, Vic192
<1> HIDE DEF l
<1> DEFINE v == Settle(l)
<1>2. /\ v.daisy_callback = u.daisy_callback /\ v.stack = u.stack
      /\ v.daisy_input = u.daisy_input /\ v.current = u.current
  BY <1>1 DEF Settle, Vic192
<1>3. v.current_highest \in {NoIrq, pl192_priority_sorter(l)}
  BY <1>1 DEF Settle, Vic192
<1> HIDE DEF v
<1>4. ~u.daisy_input => v.current_highest # Daisy
  BY <1>1, <1>3, SorterNotDaisy, Constants
<1>5. Guarded(v, k)
  BY <1>2, <1>4 DEF Guarded
<1>6. QED BY <1>5 DEF v, l

AllGuarded(c) == \A j \in Vics : Guarded(c.vic[j], j)

\* The update of one controller keeps all guarded.
LEMMA UpdateOneGuarded ==
  ASSUME NEW c \in Calls, NEW k \in Vics, AllGuarded(c)
  PROVE  AllGuarded(UpdateOne(c, k))
<1> DEFINE v == Settle(Latch(c.vic[k]))
<1>1. c.vic \in [Vics -> Vic192]
  BY DEF Calls
<1>2. Guarded(v, k)
  BY <1>1, SettleGuarded DEF AllGuarded
<1>3. UpdateOne(c, k).vic = [c.vic EXCEPT ![k] = v]
  BY DEF UpdateOne
<1> HIDE DEF v
<1>4. \A j \in Vics : UpdateOne(c, k).vic[j] = IF j = k THEN v ELSE c.vic[j]
  BY <1>1, <1>3
<1>5. QED BY <1>2, <1>4 DEF AllGuarded

\* Raising a daisy input sets its callback, lowering it clears none.
LEMMA EmitGuarded ==
  ASSUME NEW c \in Calls, AllGuarded(c)
  PROVE  AllGuarded(Emit(c))
<1>1. CASE c.sig = "none"
  BY <1>1 DEF Emit
<1>2. CASE c.sig # "none" /\ c.at = 0
  <2>1. Emit(c).vic = c.vic
    BY <1>2 DEF Emit, Calls
  <2>2. QED BY <2>1 DEF AllGuarded
<1>3. CASE c.sig # "none" /\ c.at # 0
  <2> DEFINE p == c.at - 1
             w == IF c.sig = "raise" THEN DaisyRaised(c.vic[p], c.vic[c.at])
                                     ELSE DaisyLowered(c.vic[p])
             d == [c EXCEPT !.vic[p] = w]
  <2>1. p \in Vics /\ c.at \in Vics /\ p + 1 = c.at
    BY <1>3, ChainAssumption DEF Calls, Vics
  <2>2. w \in Vic192
    BY <2>1, DaisyType DEF Calls
  <2>3. Emit(c) = UpdateOne(d, p)
    BY <1>3 DEF Emit
  <2>4. Guarded(w, p)
    <3>0. c.vic[p] \in Vic192 /\ Guarded(c.vic[p], p)
      BY <2>1 DEF Calls, AllGuarded
    <3>1. CASE c.sig = "raise"
      <4>1. w.daisy_callback
        BY <3>0, <3>1 DEF DaisyRaised, Vic192
      <4> HIDE DEF w, p
      <4>2. QED BY <2>1, <4>1 DEF Guarded
    <3>2. CASE c.sig # "raise"
      <4>1. /\ ~w.daisy_input /\ w.daisy_callback = c.vic[p].daisy_callback
            /\ w.stack = c.vic[p].stack /\ w.current = c.vic[p].current
            /\ w.current_highest = c.vic[p].current_highest
        BY <3>0, <3>2 DEF DaisyLowered, Vic192
      <4> HIDE DEF w, p
      <4>2. QED BY <3>0, <4>1 DEF Guarded
    <3>3. QED BY <3>1, <3>2
  <2>5. d \in Calls /\ \A j \in Vics : d.vic[j] = IF j = p THEN w ELSE c.vic[j]
    <3> HIDE DEF w
    <3> QED BY <2>1, <2>2 DEF Calls
  <2> HIDE DEF w, d, p
  <2>6. AllGuarded(d)
    BY <2>4, <2>5 DEF AllGuarded
  <2>7. QED BY <2>1, <2>3, <2>5, <2>6, UpdateOneGuarded
<1>4. QED BY <1>1, <1>2, <1>3

\* So does the whole walk.
LEMMA ChainGuarded ==
  ASSUME NEW c \in Calls, AllGuarded(c)
  PROVE  AllGuarded(Chain(c))
<1>1. Emit(c) \in Calls /\ AllGuarded(Emit(c))
  BY EmitType, EmitGuarded
<1>2. Emit(Emit(c)) \in Calls /\ AllGuarded(Emit(Emit(c)))
  BY <1>1, EmitType, EmitGuarded
<1>3. Emit(Emit(Emit(c))) \in Calls /\ AllGuarded(Emit(Emit(Emit(c))))
  BY <1>2, EmitType, EmitGuarded
<1>4. QED BY <1>3, EmitType, EmitGuarded DEF Chain

\* A write is pl192_update after the change of one controller.
LEMMA WriteCall ==
  ASSUME TypeOK, NEW k \in Vics, NEW w, Kept(vic[k], w), Write(k, w)
  PROVE  \E f \in [Vics -> Vic192] :
           /\ \A j \in Vics : f[j] = IF j = k THEN w ELSE vic[j]
           /\ Becomes(pl192_update([Now EXCEPT !.vic = f], k))
<1> DEFINE f == [vic EXCEPT ![k] = w]
<1>1. f \in [Vics -> Vic192] /\ \A j \in Vics : f[j] = IF j = k THEN w ELSE vic[j]
  BY DEF TypeOK, Kept
<1>2. [Now EXCEPT !.vic[k] = w] = [Now EXCEPT !.vic = f]
  BY DEF Now
<1>3. Becomes(pl192_update([Now EXCEPT !.vic = f], k))
  BY <1>2 DEF Write
<1> HIDE DEF f
<1>4. QED BY <1>1, <1>3

\* What an acknowledge of controller k makes of a controller before the update.
Taken(v) == [v EXCEPT !.current = v.current_highest]

\* An acknowledge that does not overflow is pl192_update after pushing on one
\* or two stacks.
LEMMA AckCall ==
  ASSUME TypeOK, NEW k \in Vics, pl192_irq_ack(k), ~Overflow(k)
  PROVE  \E f \in [Vics -> Vic192] :
           /\ f[k] = pl192_mask_priority(Taken(vic[k]))
           /\ \A j \in Vics \ {k} : f[j] = IF j \in AckSet(k)
                                           THEN pl192_mask_priority(vic[j])
                                           ELSE vic[j]
           /\ Becomes(pl192_update([Now EXCEPT !.vic = f], k))
<1> DEFINE taken == [vic EXCEPT ![k].current = vic[k].current_highest]
           f == [j \in Vics |-> IF j \in AckSet(k)
                                THEN pl192_mask_priority(taken[j])
                                ELSE taken[j]]
<1>0. vic \in [Vics -> Vic192]
  BY DEF TypeOK
<1>1. \A j \in Vics : taken[j] = IF j = k THEN Taken(vic[k]) ELSE vic[j]
  BY <1>0 DEF Taken
<1>2. Taken(vic[k]) \in Vic192
  <2>1. \A v \in Vic192 : Taken(v) \in Vic192
    BY DEF Taken, Vic192
  <2>2. QED BY <1>0, <2>1
<1>3. k \in AckSet(k)
  BY DEF AckSet
<1>4. Becomes(pl192_update([Now EXCEPT !.vic = f], k))
  BY DEF pl192_irq_ack
<1> HIDE DEF taken
<1>5. f \in [Vics -> Vic192]
  BY <1>0, <1>1, <1>2, MaskType
<1>6. /\ f[k] = pl192_mask_priority(Taken(vic[k]))
      /\ \A j \in Vics \ {k} : f[j] = IF j \in AckSet(k)
                                      THEN pl192_mask_priority(vic[j])
                                      ELSE vic[j]
  BY <1>1, <1>3
<1> HIDE DEF f
<1>7. QED BY <1>4, <1>5, <1>6

\* An end of interrupt that does not underflow.
LEMMA FinCall ==
  ASSUME TypeOK, NEW k \in Vics, pl192_irq_fin(k), ~Underflow(k)
  PROVE  \E f \in [Vics -> Vic192] :
           /\ \A j \in Vics : f[j] = IF j \in FinSet(k)
                                     THEN pl192_unmask_priority(vic[j])
                                     ELSE vic[j]
           /\ LET d == pl192_update([Now EXCEPT !.vic = f], k) IN
              \/ Becomes(d)
              \/ Becomes(Chain([d EXCEPT !.at = k, !.sig = "lower"]))
<1> DEFINE f == [j \in Vics |-> IF j \in FinSet(k)
                                THEN pl192_unmask_priority(vic[j])
                                ELSE vic[j]]
           d == pl192_update([Now EXCEPT !.vic = f], k)
<1>0. vic \in [Vics -> Vic192]
  BY DEF TypeOK
<1>1. f \in [Vics -> Vic192]
  BY <1>0, UnmaskType DEF Underflow
<1>2. Becomes(d) \/ Becomes(pl192_lower(d, k))
  BY DEF pl192_irq_fin
<1>3. Becomes(d) \/ Becomes(Chain([d EXCEPT !.at = k, !.sig = "lower"]))
  BY <1>2 DEF pl192_lower
<1>4. \A j \in Vics : f[j] = IF j \in FinSet(k) THEN pl192_unmask_priority(vic[j])
                                                ELSE vic[j]
  OBVIOUS
<1> HIDE DEF f
<1>5. QED BY <1>1, <1>3, <1>4

\* After pl192_update, and after pl192_lower that follows it.
LEMMA UpdateGuarded ==
  ASSUME TypeOK, NEW f \in [Vics -> Vic192], NEW k \in Vics,
         \A j \in Vics : Guarded(f[j], j),
         LET d == pl192_update([Now EXCEPT !.vic = f], k) IN
           \/ Becomes(d) \/ Becomes(Chain([d EXCEPT !.at = k, !.sig = "lower"]))
  PROVE  \A j \in Vics : Guarded(vic'[j], j)
<1> DEFINE c == [Now EXCEPT !.vic = f]
           d == pl192_update(c, k)
           e == [d EXCEPT !.at = k, !.sig = "lower"]
<1>1. c \in Calls /\ c.vic = f
  BY NowType DEF Calls
<1>2. Becomes(d) \/ Becomes(Chain(e))
  OBVIOUS
<1> HIDE DEF c
<1>3. UpdateOne(c, k) \in Calls /\ AllGuarded(UpdateOne(c, k))
  BY <1>1, UpdateOneType, UpdateOneGuarded DEF AllGuarded
<1>4. d \in Calls /\ AllGuarded(d)
  BY <1>3, ChainType, ChainGuarded DEF pl192_update
<1> HIDE DEF d
<1>5. e \in Calls /\ e.vic = d.vic
  BY <1>4 DEF Calls
<1> HIDE DEF e
<1>6. AllGuarded(Chain(e))
  BY <1>4, <1>5, ChainGuarded DEF AllGuarded
<1>7. QED BY <1>2, <1>4, <1>6 DEF Becomes, AllGuarded

\* Pushing and popping the service stack.
LEMMA MaskGuarded ==
  ASSUME NEW v \in Vic192, NEW k, Guarded(v, k)
  PROVE  /\ Guarded(pl192_mask_priority(v), k)
         /\ Guarded(pl192_mask_priority(Taken(v)), k)
<1>1. ASSUME NEW u \in Vic192, Guarded(u, k)
      PROVE  Guarded(pl192_mask_priority(u), k)
  <2> DEFINE e == [priority |-> ServiceLevel(u), irq |-> u.current]
             w == pl192_mask_priority(u)
  <2>1. /\ w.stack = Append(u.stack, e) /\ w.daisy_callback = u.daisy_callback
        /\ w.daisy_input = u.daisy_input /\ w.current = u.current
        /\ w.current_highest = u.current_highest
    BY DEF pl192_mask_priority, Vic192
  <2>2. u.stack \in Seq(Saved) /\ e \in Saved /\ e.irq = u.current
    BY Constants DEF Vic192, Saved, ServiceLevel
  <2> HIDE DEF e, w
  <2>3. \A n \in DOMAIN Append(u.stack, e) :
          \/ n \in DOMAIN u.stack /\ Append(u.stack, e)[n] = u.stack[n]
          \/ Append(u.stack, e)[n] = e
    BY <2>2
  <2>4. QED BY <1>1, <2>1, <2>2, <2>3 DEF Guarded, w
<1>2. Taken(v) \in Vic192 /\ Guarded(Taken(v), k)
  BY DEF Taken, Vic192, Guarded
<1>3. QED BY <1>1, <1>2

\* Popping restores an entry that was guarded.
LEMMA UnmaskGuarded ==
  ASSUME NEW v \in Vic192, NEW k, Guarded(v, k), ~(stack_i(v) < 1)
  PROVE  Guarded(pl192_unmask_priority(v), k)
<1> DEFINE n == Len(v.stack) - 1
           s == SubSeq(v.stack, 1, n)
           w == pl192_unmask_priority(v)
<1>1. v.stack \in Seq(Saved)
  BY DEF Vic192, Saved
<1>2. n \in Nat /\ n >= 1 /\ n <= Len(v.stack) /\ Len(v.stack) \in Nat
  BY <1>1 DEF stack_i
<1>3. n \in DOMAIN v.stack /\ \A m \in DOMAIN s : m \in DOMAIN v.stack /\ s[m] = v.stack[m]
  BY <1>1, <1>2
<1>4. /\ w.stack = s /\ w.current = v.stack[n].irq /\ w.daisy_callback = v.daisy_callback
      /\ w.daisy_input = v.daisy_input /\ w.current_highest = v.current_highest
  BY DEF pl192_unmask_priority, Vic192
<1> HIDE DEF n, s, w
<1>5. QED BY <1>3, <1>4 DEF Guarded, w

\* Every step keeps every controller guarded.
LEMMA StepGuarded ==
  ASSUME TypeOK, Next, \A j \in Vics : Guarded(vic[j], j)
  PROVE  \A j \in Vics : Guarded(vic'[j], j)
<1>0. \A j \in Vics : vic[j] \in Vic192
  BY DEF TypeOK
<1>1. PICK k \in Vics : \/ \E w : Kept(vic[k], w) /\ Write(k, w)
                        \/ pl192_irq_ack(k)
                        \/ pl192_irq_fin(k)
  BY NextCases
<1>2. CASE \E w : Kept(vic[k], w) /\ Write(k, w)
  <2>1. PICK w : Kept(vic[k], w) /\ Write(k, w)
    BY <1>2
  <2>2. Guarded(w, k)
    BY <2>1 DEF Kept, SameService, Guarded
  <2>3. PICK f \in [Vics -> Vic192] :
          /\ \A j \in Vics : f[j] = IF j = k THEN w ELSE vic[j]
          /\ Becomes(pl192_update([Now EXCEPT !.vic = f], k))
    BY <2>1, WriteCall
  <2>4. \A j \in Vics : Guarded(f[j], j)
    BY <2>2, <2>3
  <2>5. QED BY <2>3, <2>4, UpdateGuarded
<1>3. CASE pl192_irq_ack(k) /\ ~Overflow(k)
  <2>1. PICK f \in [Vics -> Vic192] :
           /\ f[k] = pl192_mask_priority(Taken(vic[k]))
           /\ \A j \in Vics \ {k} : f[j] = IF j \in AckSet(k)
                                           THEN pl192_mask_priority(vic[j])
                                           ELSE vic[j]
           /\ Becomes(pl192_update([Now EXCEPT !.vic = f], k))
    BY <1>3, AckCall
  <2>2. \A j \in Vics : Guarded(f[j], j)
    BY <1>0, <2>1, MaskGuarded
  <2>3. QED BY <2>1, <2>2, UpdateGuarded
<1>4. CASE pl192_irq_fin(k) /\ ~Underflow(k)
  <2>1. PICK f \in [Vics -> Vic192] :
           /\ \A j \in Vics : f[j] = IF j \in FinSet(k)
                                     THEN pl192_unmask_priority(vic[j])
                                     ELSE vic[j]
           /\ LET d == pl192_update([Now EXCEPT !.vic = f], k) IN
              \/ Becomes(d)
              \/ Becomes(Chain([d EXCEPT !.at = k, !.sig = "lower"]))
    BY <1>4, FinCall
  <2>2. \A j \in Vics : Guarded(f[j], j)
    BY <1>0, <1>4, <2>1, UnmaskGuarded DEF Underflow
  <2>3. QED BY <2>1, <2>2, UpdateGuarded
<1>5. CASE pl192_irq_fin(k) /\ Underflow(k)
  <2>1. vic' = vic
    BY <1>5 DEF pl192_irq_fin
  <2>2. QED BY <2>1
<1>6. CASE pl192_irq_ack(k) /\ Overflow(k)
  <2>1. vic' = vic
    BY <1>6 DEF pl192_irq_ack
  <2>2. QED BY <2>1
<1>7. QED BY <1>1, <1>2, <1>3, <1>4, <1>5, <1>6

\* Every controller is always guarded.
LEMMA GuardedInvariant == Spec => [](\A j \in Vics : Guarded(vic[j], j))
<1>1. Init => \A j \in Vics : Guarded(vic[j], j)
  <2> SUFFICES ASSUME Init, NEW j \in Vics PROVE Guarded(vic[j], j)
    OBVIOUS
  <2>1. PICK b \in Boot : vic = [k \in Vics |-> PoweredUp(b[k])]
    BY DEF Init
  <2>2. /\ vic[j].stack = <<Bottom>> /\ ~vic[j].daisy_input
        /\ vic[j].current = NoIrq /\ vic[j].current_highest = NoIrq
    BY <2>1 DEF PoweredUp, Bottom
  <2>3. \A n \in DOMAIN <<Bottom>> : <<Bottom>>[n].irq = NoIrq
    BY DEF Bottom
  <2>4. QED BY <2>2, <2>3, Constants DEF Guarded
<1>2. TypeOK /\ (\A j \in Vics : Guarded(vic[j], j)) /\ [Next]_vars
        => (\A j \in Vics : Guarded(vic[j], j))'
  <2> SUFFICES ASSUME TypeOK, \A j \in Vics : Guarded(vic[j], j), [Next]_vars,
                      NEW j \in Vics
               PROVE  Guarded(vic[j], j)'
    OBVIOUS
  <2>1. Guarded(vic'[j], j)
    <3>1. CASE Next BY <3>1, StepGuarded
    <3>2. CASE UNCHANGED vars BY <3>2 DEF vars
    <3>3. QED BY <3>1, <3>2
  <2>2. QED BY <2>1 DEF Guarded
<1>3. QED BY <1>1, <1>2, TypeCorrect, PTL DEF Spec

\* pl192_irq_ack and pl192_irq_fin never follow a null daisy_callback, for
\* any guest, chain and configuration.
THEOREM CallbacksSet == Spec => []NoNullCallback
<1>1. (\A j \in Vics : Guarded(vic[j], j)) => NoNullCallback
  BY DEF Guarded, NoNullCallback
<1>2. QED BY <1>1, GuardedInvariant, PTL

\* A step of the composition is a step of the controllers or leaves them alone.
LEMMA GuestImplements == GSpec => Spec
<1>1. GInit => Init
  BY DEF GInit
<1>2. [GNext]_gvars => [Next]_vars
  <2> SUFFICES ASSUME [GNext]_gvars PROVE [Next]_vars
    OBVIOUS
  <2>0. 0 \in Vics /\ FALSE \in BOOLEAN
    BY Constants
  <2>1. CASE Kernel
    <3>1. CASE AcceptIrq BY <3>1 DEF AcceptIrq
    <3>2. CASE Acknowledge BY <2>0, <3>2 DEF Acknowledge, Next
    <3>3. CASE EnableNested BY <3>3 DEF EnableNested
    <3>4. CASE Serve BY <2>0, <3>4 DEF Serve, Next
    <3>5. CASE Finish BY <2>0, <3>5 DEF Finish, Next
    <3>6. CASE Return BY <3>6 DEF Return
    <3>7. CASE \E k \in Vics, i \in Src, level \in BOOLEAN : DeviceLine(k, i, level)
      BY <3>7 DEF DeviceLine, Next
    <3>8. QED BY <2>1, <3>1, <3>2, <3>3, <3>4, <3>5, <3>6, <3>7 DEF Kernel
  <2>2. CASE Other
    BY <2>2 DEF Other
  <2>3. CASE UNCHANGED gvars
    BY <2>3 DEF gvars, vars
  <2>4. QED BY <2>1, <2>2, <2>3 DEF GNext
<1>3. QED BY <1>1, <1>2, PTL DEF GSpec, Spec

-----------------------------------------------------------------------------
(***************************************************************************)
(* A chain under the guest kernel.  The kernel acknowledges at controller  *)
(* 0 only, so a controller behind it never has an interrupt of its own in  *)
(* service and passes on every change of its request: Joined, which an     *)
(* arbitrary guest can break, then links each pair of controllers in both  *)
(* directions and makes the vector cached in the first that of the second. *)
(* Inside a call the link whose change is on its way is exempt.  Both need *)
(* every level unmasked in SWPRIORITYMASK, as pl192_reset leaves it.       *)
(***************************************************************************)
UnmaskedBoot == \A b \in Boot, k \in Vics : b[k].sw_priority_mask = Prio

Behind(v) == v.current = NoIrq /\ v.priority >= PrioLevels

Joined(u, v) == /\ u.daisy_input <=> Requesting(v)
                /\ u.daisy_input => u.daisy_vectaddr = v.address

Plain(c) == \A j \in Vics : /\ c.vic[j].sw_priority_mask = Prio
                            /\ j # 0 => Behind(c.vic[j])

Linked(c) ==
  /\ \A j \in Vics : j + 1 \in Vics =>
       Joined(c.vic[j], c.vic[j + 1]) \/ (c.at = j + 1 /\ c.sig # "none")
  /\ c.sig = "raise" => Requesting(c.vic[c.at])
  /\ c.sig = "lower" => ~Requesting(c.vic[c.at])

\* The IRQ input goes down only where controller 0 requests nothing.
Held(c) == irq /\ ~c.irq => ~Requesting(c.vic[0]) /\ c.sig = "none"

\* With every level unmasked the sorter finds a request that is there.
LEMMA UnmaskedChoice ==
  ASSUME NEW v \in Vic192, v.sw_priority_mask = Prio, Requesting(v)
  PROVE  pl192_priority_sorter(v) \in v.irq_status \cup {Daisy}
<1> DEFINE C == {i \in v.irq_status : v.vect_priority[i] \in v.sw_priority_mask}
                \cup (IF v.daisy_input /\ v.daisy_priority \in v.sw_priority_mask
                      THEN {Daisy} ELSE {})
<1>1. /\ v.irq_status \subseteq Src /\ v.vect_priority \in [Src -> Prio]
      /\ v.daisy_priority \in Prio
  BY DEF Vic192
<1>2. C # {} /\ C \subseteq v.irq_status \cup {Daisy}
  BY <1>1 DEF Requesting
<1>3. IF C = {} THEN pl192_priority_sorter(v) = NoIrq ELSE pl192_priority_sorter(v) \in C
  BY SorterBest
<1> HIDE DEF C
<1>4. QED BY <1>2, <1>3

\* What an update sends when every level is unmasked; a controller behind
\* another always sends something.
LEMMA UnmaskedOutput ==
  ASSUME NEW u \in Vic192, u.sw_priority_mask = Prio
  PROVE  LET v == Settle(Latch(u)) IN
         /\ v.sw_priority_mask = Prio /\ v.daisy_vectaddr = u.daisy_vectaddr
         /\ v.daisy_input = u.daisy_input
         /\ SameService(u, v)
         /\ OutputOf(v) = "raise" => Requesting(v)
         /\ OutputOf(v) = "lower" => ~Requesting(v)
         /\ Behind(u) => OutputOf(v) # "none"
<1> DEFINE l == Latch(u)
           v == Settle(l)
<1>1. /\ l \in Vic192 /\ l.sw_priority_mask = Prio /\ l.daisy_vectaddr = u.daisy_vectaddr
      /\ l.daisy_input = u.daisy_input /\ SameService(u, l)
  <2>1. l \in Vic192
    BY LatchType
  <2>2. l.sw_priority_mask = Prio /\ l.daisy_vectaddr = u.daisy_vectaddr
    BY DEF Latch, Vic192
  <2>3. l.daisy_input = u.daisy_input
    BY DEF Latch, Vic192
  <2>4. SameService(u, l)
    BY DEF Latch, Vic192, SameService
  <2>5. QED BY <2>1, <2>2, <2>3, <2>4
<1> HIDE DEF l
<1>2. /\ v \in Vic192 /\ v.sw_priority_mask = Prio /\ v.daisy_vectaddr = u.daisy_vectaddr
      /\ v.daisy_input = u.daisy_input /\ SameService(u, v)
      /\ v.irq_status = l.irq_status
  BY <1>1, SettleType DEF Settle, Vic192, SameService
<1>3. Requesting(v) = Requesting(l)
  BY <1>1, <1>2 DEF Requesting
<1>4. Requesting(v) => v.current_highest = pl192_priority_sorter(l)
  BY <1>1, <1>3 DEF Settle, Vic192
<1>5. Requesting(v) => v.current_highest \in Src \cup {Daisy}
  <2>1. l.irq_status \subseteq Src
    BY <1>1 DEF Vic192
  <2>2. QED BY <1>1, <1>3, <1>4, <2>1, UnmaskedChoice
<1> HIDE DEF v
<1>6. v.vect_priority \in [Src -> Prio] /\ v.daisy_priority \in Prio /\ v.priority \in Nat
  BY <1>2 DEF Vic192, Levels
<1>7. CASE ~Requesting(v)
  <2>1. OutputOf(v) = "lower"
    BY <1>7 DEF OutputOf
  <2>2. QED BY <1>2, <1>7, <2>1 DEF v, l
<1>8. CASE Requesting(v)
  <2> DEFINE h == v.current_highest
  <2>1. h \in Src \/ h = Daisy
    BY <1>5, <1>8
  <2>2. OutputOf(v) \in {"raise", "none"}
    BY <1>8, <2>1, Constants DEF OutputOf
  <2>3. ASSUME Behind(u) PROVE OutputOf(v) # "none"
    <3>1. v.current = NoIrq /\ v.priority >= PrioLevels
      BY <1>2, <2>3 DEF Behind, SameService
    <3>2. \A p \in Prio : ~(p >= v.priority)
      BY <1>6, <3>1, Constants DEF Prio
    <3>3. CASE h \in Src
      <4>1. OutputOf(v) = IF v.vect_priority[h] >= v.priority THEN "none" ELSE "raise"
        BY <1>8, <3>1, <3>3, Constants DEF OutputOf
      <4>2. QED BY <1>6, <3>2, <3>3, <4>1
    <3>4. CASE h = Daisy
      <4>1. OutputOf(v) = IF v.daisy_priority >= v.priority THEN "none" ELSE "raise"
        BY <1>8, <3>1, <3>4, Constants DEF OutputOf
      <4>2. QED BY <1>6, <3>2, <3>4, <4>1
    <3>5. QED BY <2>1, <3>3, <3>4
  <2>4. QED BY <1>2, <1>8, <2>2, <2>3 DEF v, l
<1>9. QED BY <1>7, <1>8

\* The update of a controller leaves at most the link in front of it open.
LEMMA UpdateOneLinked ==
  ASSUME NEW c \in Calls, NEW k \in Vics, Plain(c),
         \A j \in Vics : j + 1 \in Vics /\ j + 1 # k => Joined(c.vic[j], c.vic[j + 1])
  PROVE  Plain(UpdateOne(c, k)) /\ Linked(UpdateOne(c, k))
<1> DEFINE v == Settle(Latch(c.vic[k]))
           d == UpdateOne(c, k)
<1>1. c.vic \in [Vics -> Vic192] /\ c.vic[k] \in Vic192 /\ c.vic[k].sw_priority_mask = Prio
  BY DEF Calls, Plain
<1>2. /\ v.sw_priority_mask = Prio /\ v.daisy_vectaddr = c.vic[k].daisy_vectaddr
      /\ v.daisy_input = c.vic[k].daisy_input
      /\ SameService(c.vic[k], v)
      /\ OutputOf(v) = "raise" => Requesting(v)
      /\ OutputOf(v) = "lower" => ~Requesting(v)
      /\ Behind(c.vic[k]) => OutputOf(v) # "none"
  BY <1>1, UnmaskedOutput
<1> HIDE DEF v
<1>3. d.vic = [c.vic EXCEPT ![k] = v] /\ d.at = k /\ d.sig = OutputOf(v)
  BY DEF UpdateOne, v
<1>4. d.vic[k] = v /\ \A j \in Vics \ {k} : d.vic[j] = c.vic[j]
  BY <1>1, <1>3
<1> HIDE DEF d
<1>5. Plain(d)
  BY <1>2, <1>4 DEF Plain, SameService, Behind
<1>6. ASSUME NEW j \in Vics, j + 1 \in Vics
      PROVE  Joined(d.vic[j], d.vic[j + 1]) \/ (d.at = j + 1 /\ d.sig # "none")
  <2>0. j + 1 # 0 /\ j # j + 1
    BY Constants
  <2>1. CASE j + 1 = k
    BY <1>2, <1>3, <1>6, <2>0, <2>1 DEF Plain
  <2>2. CASE j + 1 # k
    <3>1. Joined(c.vic[j], c.vic[j + 1]) /\ d.vic[j + 1] = c.vic[j + 1]
      BY <1>4, <1>6, <2>2
    <3>2. /\ d.vic[j].daisy_input = c.vic[j].daisy_input
          /\ d.vic[j].daisy_vectaddr = c.vic[j].daisy_vectaddr
      BY <1>2, <1>4
    <3>3. QED BY <3>1, <3>2 DEF Joined
  <2>3. QED BY <2>1, <2>2
<1>7. Linked(d)
  BY <1>2, <1>3, <1>4, <1>6 DEF Linked
<1>8. QED BY <1>5, <1>7 DEF d

\* Passing a change on closes the link it was about.
LEMMA EmitLinked ==
  ASSUME NEW c \in Calls, Plain(c), Linked(c)
  PROVE  Plain(Emit(c)) /\ Linked(Emit(c))
<1>1. CASE c.sig = "none"
  BY <1>1 DEF Emit
<1>2. CASE c.sig # "none" /\ c.at = 0
  <2>1. Emit(c).vic = c.vic /\ Emit(c).sig = "none"
    BY <1>2 DEF Emit, Calls
  <2>2. \A j \in Vics : j + 1 # 0
    BY Constants
  <2>3. QED BY <1>2, <2>1, <2>2 DEF Plain, Linked
<1>3. CASE c.sig # "none" /\ c.at # 0
  <2> DEFINE p == c.at - 1
             w == IF c.sig = "raise" THEN DaisyRaised(c.vic[p], c.vic[c.at])
                                     ELSE DaisyLowered(c.vic[p])
             d == [c EXCEPT !.vic[p] = w]
  <2>1. p \in Vics /\ c.at \in Vics /\ p + 1 = c.at /\ p # c.at
    BY <1>3, ChainAssumption DEF Calls, Vics
  <2>2. c.vic[p] \in Vic192 /\ c.vic[c.at] \in Vic192 /\ w \in Vic192
    BY <2>1, DaisyType DEF Calls
  <2>3. Emit(c) = UpdateOne(d, p)
    BY <1>3 DEF Emit
  <2>4. /\ w.sw_priority_mask = c.vic[p].sw_priority_mask
        /\ w.current = c.vic[p].current /\ w.priority = c.vic[p].priority
    BY <2>2 DEF DaisyRaised, DaisyLowered, Vic192
  <2>5. w.daisy_input = (c.sig = "raise")
    BY <2>2 DEF DaisyRaised, DaisyLowered, Vic192
  <2>6. c.sig = "raise" => w.daisy_vectaddr = c.vic[c.at].address
    BY <2>2 DEF DaisyRaised, Vic192
  <2>7. d \in Calls /\ \A j \in Vics : d.vic[j] = IF j = p THEN w ELSE c.vic[j]
    <3> HIDE DEF w
    <3> QED BY <2>1, <2>2 DEF Calls
  <2>8. c.sig = "raise" \/ c.sig = "lower"
    BY <1>3 DEF Calls
  <2> HIDE DEF w, d, p
  <2>9. Joined(w, c.vic[c.at])
    <3>1. CASE c.sig = "raise"
      BY <2>5, <2>6, <3>1 DEF Linked, Joined
    <3>2. CASE c.sig = "lower"
      BY <2>5, <3>2 DEF Linked, Joined
    <3>3. QED BY <2>8, <3>1, <3>2
  <2>10. Plain(d)
    BY <2>4, <2>7 DEF Plain, Behind
  <2>11. ASSUME NEW j \in Vics, j + 1 \in Vics, j + 1 # p
         PROVE  Joined(d.vic[j], d.vic[j + 1])
    <3>1. CASE j = p
      BY <2>1, <2>7, <2>9, <3>1
    <3>2. CASE j # p
      <4>1. j + 1 # c.at
        BY <2>1, <3>2, Constants
      <4>2. QED BY <2>7, <2>11, <3>2, <4>1 DEF Linked
    <3>3. QED BY <3>1, <3>2
  <2>12. QED BY <2>1, <2>3, <2>7, <2>10, <2>11, UpdateOneLinked
<1>4. QED BY <1>1, <1>2, <1>3

\* The CPU's input is lowered only by a controller 0 that requests nothing.
LEMMA EmitHeld ==
  ASSUME NEW c \in Calls, Linked(c), Held(c)
  PROVE  Held(Emit(c))
<1>1. CASE c.sig = "none"
  BY <1>1 DEF Emit
<1>2. CASE c.sig # "none" /\ c.at = 0
  <2>1. /\ Emit(c).vic = c.vic /\ Emit(c).sig = "none"
        /\ Emit(c).irq = (c.sig = "raise")
    BY <1>2 DEF Emit, Calls
  <2>2. c.sig = "raise" \/ c.sig = "lower"
    BY <1>2 DEF Calls
  <2>3. QED BY <1>2, <2>1, <2>2 DEF Linked, Held
<1>3. CASE c.sig # "none" /\ c.at # 0
  <2> DEFINE p == c.at - 1
             w == IF c.sig = "raise" THEN DaisyRaised(c.vic[p], c.vic[c.at])
                                     ELSE DaisyLowered(c.vic[p])
             d == [c EXCEPT !.vic[p] = w]
  <2>1. Emit(c) = UpdateOne(d, p)
    BY <1>3 DEF Emit
  <2>2. d.irq = c.irq
    <3> HIDE DEF w, p
    <3> QED BY DEF Calls
  <2> HIDE DEF d
  <2>3. Emit(c).irq = c.irq
    BY <2>1, <2>2 DEF UpdateOne
  <2>4. QED BY <1>3, <2>3 DEF Held
<1>4. QED BY <1>1, <1>2, <1>3

\* The whole walk.
LEMMA ChainLinked ==
  ASSUME NEW c \in Calls, Plain(c), Linked(c), Held(c)
  PROVE  Plain(Chain(c)) /\ Linked(Chain(c)) /\ Held(Chain(c))
<1> DEFINE c1 == Emit(c)  c2 == Emit(c1)  c3 == Emit(c2)  c4 == Emit(c3)
<1>0. Chain(c) = c4
  BY DEF Chain
<1>1. c1 \in Calls /\ Plain(c1) /\ Linked(c1) /\ Held(c1)
  BY EmitType, EmitLinked, EmitHeld
<1> HIDE DEF c1
<1>2. c2 \in Calls /\ Plain(c2) /\ Linked(c2) /\ Held(c2)
  BY <1>1, EmitType, EmitLinked, EmitHeld
<1> HIDE DEF c2
<1>3. c3 \in Calls /\ Plain(c3) /\ Linked(c3) /\ Held(c3)
  BY <1>2, EmitType, EmitLinked, EmitHeld
<1> HIDE DEF c3
<1>4. Plain(c4) /\ Linked(c4) /\ Held(c4)
  BY <1>3, EmitLinked, EmitHeld
<1>5. QED BY <1>0, <1>4

\* After pl192_update every link is closed again.
AllJoined(f) == \A j \in Vics : j + 1 \in Vics => Joined(f[j], f[j + 1])

\* A call on a chain joined everywhere but in front of controller k.
LEMMA UpdateLinked ==
  ASSUME TypeOK, NEW f \in [Vics -> Vic192], NEW k \in Vics,
         \A j \in Vics : f[j].sw_priority_mask = Prio /\ (j # 0 => Behind(f[j])),
         \A j \in Vics : j + 1 \in Vics /\ j + 1 # k => Joined(f[j], f[j + 1])
  PROVE  LET d == pl192_update([Now EXCEPT !.vic = f], k) IN
         /\ d \in Calls /\ Plain(d) /\ AllJoined(d.vic) /\ Held(d)
<1> DEFINE c == [Now EXCEPT !.vic = f]
           e == UpdateOne(c, k)
<1>1. c \in Calls /\ c.vic = f /\ c.irq = irq
  BY NowType DEF Calls, Now
<1> HIDE DEF c
<1>2. e \in Calls /\ e.irq = irq
  BY <1>1, UpdateOneType DEF UpdateOne
<1>3. Plain(e) /\ Linked(e)
  BY <1>1, UpdateOneLinked DEF Plain
<1>4. Held(e)
  BY <1>2 DEF Held
<1> HIDE DEF e
<1> DEFINE d == Chain(e)
<1>5. d \in Calls /\ d.sig = "none" /\ Plain(d) /\ Linked(d) /\ Held(d)
  BY <1>2, <1>3, <1>4, ChainType, ChainLinked
<1>6. pl192_update(c, k) = d
  BY DEF pl192_update, e
<1> HIDE DEF d
<1>7. AllJoined(d.vic)
  BY <1>5 DEF Linked, AllJoined
<1>8. QED BY <1>5, <1>6, <1>7 DEF c

\* A call that starts at controller 0 changes the CPU's input only.
LEMMA ChainAtCpu ==
  ASSUME NEW c \in Calls, c.at = 0
  PROVE  Chain(c).vic = c.vic
<1>1. ASSUME NEW d \in Calls, d.at = 0
      PROVE  Emit(d) \in Calls /\ Emit(d).vic = d.vic /\ Emit(d).at = 0
  <2>1. Emit(d) \in Calls
    BY EmitType
  <2>2. CASE d.sig = "none"
    BY <1>1, <2>1, <2>2 DEF Emit
  <2>3. CASE d.sig # "none"
    BY <1>1, <2>1, <2>3 DEF Emit, Calls
  <2>4. QED BY <2>2, <2>3
<1> DEFINE c1 == Emit(c)  c2 == Emit(c1)  c3 == Emit(c2)  c4 == Emit(c3)
<1>2. c1 \in Calls /\ c1.vic = c.vic /\ c1.at = 0
  BY <1>1
<1> HIDE DEF c1
<1>3. c2 \in Calls /\ c2.vic = c.vic /\ c2.at = 0
  BY <1>1, <1>2
<1> HIDE DEF c2
<1>4. c3 \in Calls /\ c3.vic = c.vic /\ c3.at = 0
  BY <1>1, <1>3
<1> HIDE DEF c3
<1>5. c4.vic = c.vic
  BY <1>1, <1>4
<1>6. QED BY <1>5 DEF Chain, c1, c2, c3

\* The stacks after a call are those before it.
LEMMA UpdateStacks ==
  ASSUME TypeOK, NEW f \in [Vics -> Vic192], NEW k \in Vics,
         LET d == pl192_update([Now EXCEPT !.vic = f], k) IN
           \/ Becomes(d) \/ Becomes(Chain([d EXCEPT !.at = k, !.sig = "lower"]))
  PROVE  \A j \in Vics : vic'[j].stack = f[j].stack
<1> DEFINE c == [Now EXCEPT !.vic = f]
           d == pl192_update(c, k)
           e == [d EXCEPT !.at = k, !.sig = "lower"]
<1>1. c \in Calls /\ c.vic = f
  BY NowType DEF Calls
<1>2. Becomes(d) \/ Becomes(Chain(e))
  OBVIOUS
<1> HIDE DEF c
<1>3. d \in Calls /\ \A j \in Vics : d.vic[j].stack = f[j].stack
  <2>1. d \in Calls
    BY <1>1, UpdateOneType, ChainType DEF pl192_update
  <2>2. QED BY <1>1, <2>1, UpdateService DEF SameService
<1> HIDE DEF d
<1>4. e \in Calls /\ e.vic = d.vic
  BY <1>3 DEF Calls
<1> HIDE DEF e
<1>5. \A j \in Vics : Chain(e).vic[j].stack = f[j].stack
  BY <1>3, <1>4, ChainService DEF SameService
<1>6. QED BY <1>2, <1>3, <1>5 DEF Becomes

\* A device line leaves the stacks alone.
LEMMA LineCall ==
  ASSUME TypeOK, NEW k \in Vics, NEW i \in Src, NEW level \in BOOLEAN,
         pl192_irq_handler(k, i, level)
  PROVE  \E f \in [Vics -> Vic192] :
           /\ \A j \in Vics : /\ SameService(vic[j], f[j])
                              /\ f[j].sw_priority_mask = vic[j].sw_priority_mask
                              /\ f[j].daisy_input = vic[j].daisy_input
                              /\ f[j].daisy_vectaddr = vic[j].daisy_vectaddr
                              /\ j # k => f[j] = vic[j]
           /\ Becomes(pl192_update([Now EXCEPT !.vic = f], k))
<1> DEFINE w == [vic[k] EXCEPT !.rawintr = IF level THEN @ \cup {i} ELSE @ \ {i}]
<1>0. vic[k] \in Vic192
  BY DEF TypeOK
<1>1. Kept(vic[k], w)
  BY <1>0 DEF Vic192, Kept, SameService
<1>2. /\ w.sw_priority_mask = vic[k].sw_priority_mask
      /\ w.daisy_vectaddr = vic[k].daisy_vectaddr
  BY <1>0 DEF Vic192
<1>3. Write(k, w)
  BY DEF pl192_irq_handler
<1> HIDE DEF w
<1>4. PICK f \in [Vics -> Vic192] :
        /\ \A j \in Vics : f[j] = IF j = k THEN w ELSE vic[j]
        /\ Becomes(pl192_update([Now EXCEPT !.vic = f], k))
  BY <1>1, <1>3, WriteCall
<1>5. \A j \in Vics : /\ SameService(vic[j], f[j])
                      /\ f[j].sw_priority_mask = vic[j].sw_priority_mask
                      /\ f[j].daisy_input = vic[j].daisy_input
                      /\ f[j].daisy_vectaddr = vic[j].daisy_vectaddr
                      /\ j # k => f[j] = vic[j]
  BY <1>1, <1>2, <1>4 DEF Kept, SameService
<1>6. QED BY <1>4, <1>5

-----------------------------------------------------------------------------
(***************************************************************************)
(* The stacks against what the kernel has in service.                      *)
(***************************************************************************)
Frames == [at: {"entry", "serve", "finish", "return"}, vector: Addrs]

\* The entries of a stack that came through the daisy input.
Through(s) == {n \in DOMAIN s : s[n].irq = Daisy}

\* A push counts one more entry if it is for the daisy input.
LEMMA PushThrough ==
  ASSUME NEW s \in Seq(Saved), NEW e \in Saved
  PROVE  /\ IsFiniteSet(Through(s))
         /\ Cardinality(Through(Append(s, e))) =
              Cardinality(Through(s)) + (IF e.irq = Daisy THEN 1 ELSE 0)
         /\ Len(Append(s, e)) = Len(s) + 1
<1>1. IsFiniteSet(1 .. Len(s))
  BY FS_Interval
<1>2. IsFiniteSet(Through(s)) /\ Len(s) + 1 \notin Through(s)
  BY <1>1, FS_Subset DEF Through
<1>3. Through(Append(s, e)) = IF e.irq = Daisy THEN Through(s) \cup {Len(s) + 1} ELSE Through(s)
  <2>1. /\ DOMAIN Append(s, e) = 1 .. Len(s) + 1 /\ DOMAIN s = 1 .. Len(s) /\ Len(s) \in Nat
        /\ \A n \in 1 .. Len(s) : Append(s, e)[n] = s[n]
        /\ Append(s, e)[Len(s) + 1] = e
    OBVIOUS
  <2>2. \A n : n \in 1 .. Len(s) + 1 <=> n \in 1 .. Len(s) \/ n = Len(s) + 1
    BY <2>1
  <2> DEFINE t == Append(s, e)  m == Len(s) + 1
  <2>3. m \notin 1 .. Len(s)
    BY <2>1
  <2>4. \A n : n \in Through(t) <=> \/ n \in 1 .. Len(s) /\ s[n].irq = Daisy
                                    \/ n = m /\ e.irq = Daisy
    BY <2>1, <2>2, <2>3 DEF Through
  <2> HIDE DEF t, m
  <2>5. \A n : n \in Through(s) <=> n \in 1 .. Len(s) /\ s[n].irq = Daisy
    BY <2>1 DEF Through
  <2>6. Through(t) = IF e.irq = Daisy THEN Through(s) \cup {m} ELSE Through(s)
    BY <2>4, <2>5
  <2>7. QED BY <2>6 DEF t, m
<1>4. Cardinality(Through(s)) \in Nat
  BY <1>2, FS_CardinalityType
<1>5. Cardinality(Through(s) \cup {Len(s) + 1}) = Cardinality(Through(s)) + 1
  BY <1>2, FS_AddElement
<1>6. QED BY <1>2, <1>3, <1>4, <1>5

\* A pop takes it back.
LEMMA PopThrough ==
  ASSUME NEW s \in Seq(Saved), Len(s) >= 1
  PROVE  LET t == SubSeq(s, 1, Len(s) - 1) IN
         /\ t \in Seq(Saved) /\ Len(t) = Len(s) - 1
         /\ Cardinality(Through(t)) =
              Cardinality(Through(s)) - (IF s[Len(s)].irq = Daisy THEN 1 ELSE 0)
<1> DEFINE t == SubSeq(s, 1, Len(s) - 1)
           e == s[Len(s)]
<1>1. t \in Seq(Saved) /\ Len(t) = Len(s) - 1 /\ e \in Saved /\ Append(t, e) = s
  <2>1. /\ t \in Seq(Saved) /\ Len(t) = Len(s) - 1 /\ Len(s) \in Nat
        /\ \A n \in 1 .. Len(s) - 1 : t[n] = s[n]
    <3> DEFINE m == Len(s) - 1
    <3>1. Len(s) \in Nat /\ m \in Nat /\ m \in 0 .. Len(s)
      OBVIOUS
    <3> HIDE DEF m
    <3>2. SubSeq(s, 1, m) \in Seq(Saved)
      BY <3>1
    <3>3. Len(SubSeq(s, 1, m)) = m
      BY <3>1
    <3>4. \A n \in 1 .. m : SubSeq(s, 1, m)[n] = s[n]
      BY <3>1
    <3>5. QED BY <3>1, <3>2, <3>3, <3>4 DEF m
  <2>2. e \in Saved
    OBVIOUS
  <2> HIDE DEF t, e
  <2>3. Append(t, e) \in Seq(Saved) /\ Len(Append(t, e)) = Len(s)
    BY <2>1, <2>2
  <2>4. \A n \in 1 .. Len(s) : Append(t, e)[n] = s[n]
    BY <2>1, <2>2 DEF e
  <2>5. Append(t, e) = s
    BY <2>3, <2>4, SeqEqual
  <2>6. QED BY <2>1, <2>2, <2>5
<1> HIDE DEF t, e
<1>2. IsFiniteSet(Through(t)) /\ Cardinality(Through(s)) =
        Cardinality(Through(t)) + (IF e.irq = Daisy THEN 1 ELSE 0)
  BY <1>1, PushThrough
<1>3. Cardinality(Through(t)) \in Nat
  BY <1>2, FS_CardinalityType
<1>4. QED BY <1>1, <1>2, <1>3 DEF t, e

\* The stacks of controllers 0 and 1 after an acknowledge at controller 0.
LEMMA AckStacks ==
  ASSUME TypeOK, pl192_irq_ack(0), ~Overflow(0),
         NEW m, m = IF vic[0].current_highest = Daisy THEN 1 ELSE 0
  PROVE  /\ Len(vic'[0].stack) = Len(vic[0].stack) + 1
         /\ Cardinality(Through(vic'[0].stack)) = Cardinality(Through(vic[0].stack)) + m
         /\ 1 \in Vics => Len(vic'[1].stack) = Len(vic[1].stack) + m
         /\ \A j \in Vics \ {0, 1} : vic'[j].stack = vic[j].stack
<1>0. 0 \in Vics /\ \A j \in Vics : vic[j] \in Vic192
  BY Constants DEF TypeOK
<1>1. PICK f \in [Vics -> Vic192] :
        /\ f[0] = pl192_mask_priority(Taken(vic[0]))
        /\ \A j \in Vics \ {0} : f[j] = IF j \in AckSet(0) THEN pl192_mask_priority(vic[j])
                                                           ELSE vic[j]
        /\ Becomes(pl192_update([Now EXCEPT !.vic = f], 0))
  BY <1>0, AckCall
<1>2. \A j \in Vics : vic'[j].stack = f[j].stack
  BY <1>0, <1>1, UpdateStacks
<1>3. ASSUME NEW v \in Vic192
      PROVE  /\ v.stack \in Seq(Saved)
             /\ \E e \in Saved : /\ pl192_mask_priority(v).stack = Append(v.stack, e)
                                 /\ e.irq = v.current
  <2> DEFINE e == [priority |-> ServiceLevel(v), irq |-> v.current]
  <2>1. v.stack \in Seq(Saved) /\ e \in Saved /\ e.irq = v.current
    BY Constants DEF Vic192, Saved, ServiceLevel
  <2>2. pl192_mask_priority(v).stack = Append(v.stack, e)
    BY DEF pl192_mask_priority, Vic192
  <2> HIDE DEF e
  <2>3. QED BY <2>1, <2>2
<1>4. /\ Taken(vic[0]) \in Vic192 /\ Taken(vic[0]).stack = vic[0].stack
      /\ Taken(vic[0]).current = vic[0].current_highest
  <2>1. \A v \in Vic192 : Taken(v) \in Vic192
    BY DEF Taken, Vic192
  <2>2. \A v \in Vic192 : Taken(v).stack = v.stack /\ Taken(v).current = v.current_highest
    BY DEF Taken, Vic192
  <2>3. QED BY <1>0, <2>1, <2>2
<1>5. PICK e \in Saved : vic'[0].stack = Append(vic[0].stack, e) /\ e.irq = vic[0].current_highest
  BY <1>0, <1>1, <1>2, <1>3, <1>4
<1>6. vic[0].stack \in Seq(Saved)
  BY <1>0, <1>3
<1>7. /\ Len(vic'[0].stack) = Len(vic[0].stack) + 1
      /\ Cardinality(Through(vic'[0].stack)) = Cardinality(Through(vic[0].stack)) + m
  BY <1>5, <1>6, PushThrough
<1>8. AckSet(0) = IF vic[0].current_highest = Daisy THEN {0, 1} ELSE {0}
  <2>1. 0 + 1 = 1
    OBVIOUS
  <2>2. QED BY <2>1 DEF AckSet
<1>9. ASSUME 1 \in Vics PROVE Len(vic'[1].stack) = Len(vic[1].stack) + m
  <2>0. vic[1] \in Vic192 /\ vic[1].stack \in Seq(Saved) /\ Len(vic[1].stack) \in Nat
    BY <1>0, <1>3, <1>9
  <2>1. f[1] = IF vic[0].current_highest = Daisy THEN pl192_mask_priority(vic[1]) ELSE vic[1]
    BY <1>1, <1>8, <1>9
  <2>2. CASE vic[0].current_highest = Daisy
    <3>1. PICK d \in Saved : vic'[1].stack = Append(vic[1].stack, d)
      BY <1>2, <1>3, <1>9, <2>0, <2>1, <2>2
    <3>2. QED BY <2>0, <2>2, <3>1
  <2>3. CASE vic[0].current_highest # Daisy
    BY <1>2, <1>9, <2>0, <2>1, <2>3
  <2>4. QED BY <2>2, <2>3
<1>10. \A j \in Vics \ {0, 1} : vic'[j].stack = vic[j].stack
  BY <1>1, <1>2, <1>8
<1>11. QED BY <1>7, <1>9, <1>10

\* The stacks of controllers 0 and 1 after an end of interrupt at controller 0.
LEMMA FinStacks ==
  ASSUME TypeOK, pl192_irq_fin(0), ~Underflow(0), Stacked(vic[0]),
         NEW m, m = IF vic[0].current = Daisy THEN 1 ELSE 0
  PROVE  /\ Len(vic'[0].stack) = Len(vic[0].stack) - 1
         /\ Cardinality(Through(vic'[0].stack)) = Cardinality(Through(vic[0].stack)) - m
         /\ 1 \in Vics => Len(vic'[1].stack) = Len(vic[1].stack) - m
         /\ \A j \in Vics \ {0, 1} : vic'[j].stack = vic[j].stack
<1>0. 0 \in Vics /\ \A j \in Vics : vic[j] \in Vic192 /\ vic[j].stack \in Seq(Saved)
  BY Constants DEF TypeOK, Vic192, Saved
<1>1. PICK f \in [Vics -> Vic192] :
        /\ \A j \in Vics : f[j] = IF j \in FinSet(0) THEN pl192_unmask_priority(vic[j])
                                                     ELSE vic[j]
        /\ LET d == pl192_update([Now EXCEPT !.vic = f], 0) IN
           \/ Becomes(d) \/ Becomes(Chain([d EXCEPT !.at = 0, !.sig = "lower"]))
  BY <1>0, FinCall
<1>2. \A j \in Vics : vic'[j].stack = f[j].stack
  BY <1>0, <1>1, UpdateStacks
<1>3. \A v \in Vic192 : pl192_unmask_priority(v).stack = SubSeq(v.stack, 1, Len(v.stack) - 1)
  BY DEF pl192_unmask_priority, Vic192
<1>4. FinSet(0) = IF vic[0].current = Daisy THEN {0, 1} ELSE {0}
  <2>1. 0 + 1 = 1
    OBVIOUS
  <2>2. QED BY <2>1 DEF FinSet
<1>5. \A j \in Vics : j \in FinSet(0) =>
        /\ vic'[j].stack = SubSeq(vic[j].stack, 1, Len(vic[j].stack) - 1)
        /\ Len(vic[j].stack) >= 1
  <2>1. \A j \in FinSet(0) : ~(Len(vic[j].stack) - 1 < 1)
    BY DEF Underflow, stack_i
  <2>2. \A j \in Vics : Len(vic[j].stack) \in Nat
    BY <1>0
  <2>3. \A n \in Nat : ~(n - 1 < 1) => n >= 1
    OBVIOUS
  <2>4. \A j \in Vics : j \in FinSet(0) => Len(vic[j].stack) >= 1
    BY <2>1, <2>2, <2>3
  <2>5. \A j \in Vics : j \in FinSet(0) => vic'[j].stack = pl192_unmask_priority(vic[j]).stack
    BY <1>1, <1>2
  <2>6. QED BY <1>0, <1>3, <2>4, <2>5
<1>6. vic[0].stack[Len(vic[0].stack)].irq = vic[0].current
  BY DEF Stacked
<1>7. /\ Len(vic'[0].stack) = Len(vic[0].stack) - 1
      /\ Cardinality(Through(vic'[0].stack)) = Cardinality(Through(vic[0].stack)) - m
  BY <1>0, <1>4, <1>5, <1>6, PopThrough
<1>8. ASSUME 1 \in Vics PROVE Len(vic'[1].stack) = Len(vic[1].stack) - m
  <2>0. Len(vic[1].stack) \in Nat
    BY <1>0, <1>8
  <2>1. CASE vic[0].current = Daisy
    BY <1>0, <1>4, <1>5, <1>8, <2>1, PopThrough
  <2>2. CASE vic[0].current # Daisy
    BY <1>1, <1>2, <1>4, <1>8, <2>0, <2>2
  <2>3. QED BY <2>1, <2>2
<1>9. \A j \in Vics \ {0, 1} : vic'[j].stack = vic[j].stack
  BY <1>1, <1>2, <1>4
<1>10. QED BY <1>7, <1>8, <1>9

\* The handler activations in service, of any stack of activations.
Serving(f) == {n \in DOMAIN f : f[n].at \in {"serve", "finish"}}

\* A handler that has just been entered is not in service.
LEMMA ServingPush ==
  ASSUME NEW f \in Seq(Frames), NEW e \in Frames, e.at = "entry"
  PROVE  /\ Append(f, e) \in Seq(Frames) /\ Len(Append(f, e)) = Len(f) + 1
         /\ Serving(Append(f, e)) = Serving(f)
<1>1. /\ DOMAIN Append(f, e) = 1 .. Len(f) + 1 /\ DOMAIN f = 1 .. Len(f) /\ Len(f) \in Nat
      /\ \A n \in 1 .. Len(f) : Append(f, e)[n] = f[n]
      /\ Append(f, e)[Len(f) + 1] = e
  OBVIOUS
<1>2. \A n : n \in 1 .. Len(f) + 1 <=> n \in 1 .. Len(f) \/ n = Len(f) + 1
  BY <1>1
<1>3. \A n : n \in Serving(Append(f, e)) <=> n \in Serving(f)
  BY <1>1, <1>2 DEF Serving
<1>4. QED BY <1>3

\* Nor is one that returns.
LEMMA ServingPop ==
  ASSUME NEW f \in Seq(Frames), f # <<>>, f[Len(f)].at = "return"
  PROVE  LET g == SubSeq(f, 1, Len(f) - 1) IN
         g \in Seq(Frames) /\ Len(g) = Len(f) - 1 /\ Serving(g) = Serving(f)
<1> DEFINE m == Len(f) - 1
           g == SubSeq(f, 1, m)
<1>1. Len(f) \in Nat /\ m \in Nat /\ m \in 0 .. Len(f) /\ Len(f) = m + 1
  OBVIOUS
<1> HIDE DEF m
<1>2. g \in Seq(Frames)
  BY <1>1
<1>3. Len(g) = m
  BY <1>1
<1>4. \A n \in 1 .. m : g[n] = f[n]
  BY <1>1
<1> HIDE DEF g
<1>5. DOMAIN g = 1 .. m /\ DOMAIN f = 1 .. m + 1
  BY <1>1, <1>2, <1>3
<1>6. \A n : n \in 1 .. m + 1 <=> n \in 1 .. m \/ n = m + 1
  BY <1>1
<1>7. \A n : n \in Serving(g) <=> n \in Serving(f)
  BY <1>1, <1>4, <1>5, <1>6 DEF Serving
<1>8. QED BY <1>1, <1>2, <1>3, <1>7 DEF g, m

\* The innermost handler moves on.
LEMMA ServingTop ==
  ASSUME NEW f \in Seq(Frames), f # <<>>, NEW e \in Frames
  PROVE  LET g == [f EXCEPT ![Len(f)] = e] IN
         /\ g \in Seq(Frames) /\ Len(g) = Len(f)
         /\ IsFiniteSet(Serving(f)) /\ Len(f) \in DOMAIN f
         /\ Serving(g) = IF e.at \in {"serve", "finish"} THEN Serving(f) \cup {Len(f)}
                         ELSE Serving(f) \ {Len(f)}
<1> DEFINE g == [f EXCEPT ![Len(f)] = e]
<1>1. /\ g \in Seq(Frames) /\ Len(g) = Len(f)
      /\ DOMAIN f = 1 .. Len(f) /\ Len(f) \in DOMAIN f /\ DOMAIN g = DOMAIN f
  OBVIOUS
<1>2. \A n \in DOMAIN f : g[n] = IF n = Len(f) THEN e ELSE f[n]
  OBVIOUS
<1>3. IsFiniteSet(Serving(f))
  <2>1. IsFiniteSet(1 .. Len(f))
    BY FS_Interval
  <2>2. QED BY <1>1, <2>1, FS_Subset DEF Serving
<1> HIDE DEF g
<1>4. Serving(g) = IF e.at \in {"serve", "finish"} THEN Serving(f) \cup {Len(f)}
                   ELSE Serving(f) \ {Len(f)}
  BY <1>1, <1>2 DEF Serving
<1>5. QED BY <1>1, <1>3, <1>4 DEF g

\* Controller 0 has an entry per activation in service above the one of
\* reset, controller 1 one per entry of controller 0 for its daisy input; the
\* kernel keeps to its number of handlers.
Serves(f, g, a) ==
  /\ f \in Seq(Frames) /\ Len(f) <= MaxNest /\ ~a
  /\ Len(g[0].stack) = Cardinality(Serving(f)) + 1
  /\ 1 \in Vics => Len(g[1].stack) = Cardinality(Through(g[0].stack)) + 1

ServiceInv == guest = "kernel" => Serves(frames, vic, aborted)

\* A step that leaves the stacks and what is in service alone.
LEMMA ServesKept ==
  ASSUME NEW f, NEW g, NEW a, NEW f2 \in Seq(Frames), NEW g2, NEW a2, Serves(f, g, a),
         Len(f2) <= MaxNest, Serving(f2) = Serving(f), ~a2, \A j \in Vics : g2[j].stack = g[j].stack
  PROVE  Serves(f2, g2, a2)
BY Constants DEF Serves

\* A device line.
LEMMA LineServes ==
  ASSUME TypeOK, NEW k \in Vics, NEW i \in Src, NEW level \in BOOLEAN,
         pl192_irq_handler(k, i, level)
  PROVE  (\A j \in Vics : vic'[j].stack = vic[j].stack) /\ aborted' = aborted
<1>1. PICK f \in [Vics -> Vic192] :
         /\ \A j \in Vics : SameService(vic[j], f[j])
         /\ Becomes(pl192_update([Now EXCEPT !.vic = f], k))
  BY LineCall
<1>2. \A j \in Vics : vic'[j].stack = f[j].stack
  BY <1>1, UpdateStacks
<1>3. aborted' = aborted
  BY DEF pl192_irq_handler, Write
<1>4. QED BY <1>1, <1>2, <1>3 DEF SameService

\* An acknowledge at the entry of a handler finds room on the stacks it pushes
\* on: the handler itself is not in service yet.
LEMMA AcknowledgeInOrder ==
  ASSUME TypeOK, Serves(frames, vic, aborted), Acknowledge, Stacked(vic[0]), Guarded(vic[0], 0)
  PROVE  ~Overflow(0)
<1> DEFINE n == Len(frames)
           s == vic[0].stack
<1>1. /\ frames \in Seq(Frames) /\ frames # <<>> /\ frames[n].at = "entry"
      /\ n \in Nat \ {0} /\ n <= MaxNest /\ DOMAIN frames = 1 .. n
  BY DEF Serves, Acknowledge, InHandler, Top
<1>2. MaxNest \in Nat /\ StackTest \in Nat /\ MaxNest <= StackTest
  BY ChainAssumption
<1> HIDE DEF n
<1>3. Cardinality(Serving(frames)) \in Nat /\ Cardinality(Serving(frames)) <= n - 1
  <2>1. Serving(frames) \subseteq 1 .. n - 1
    BY <1>1 DEF Serving
  <2>2. n - 1 \in Nat
    BY <1>1
  <2>3. IsFiniteSet(1 .. n - 1) /\ Cardinality(1 .. n - 1) = n - 1
    <3> DEFINE q == n - 1
    <3>1. q \in Nat
      BY <2>2
    <3> HIDE DEF q
    <3>2. IsFiniteSet(1 .. q) /\ Cardinality(1 .. q) = IF 1 > q THEN 0 ELSE q - 1 + 1
      BY <3>1, FS_Interval
    <3>3. QED BY <3>1, <3>2 DEF q
  <2>4. QED BY <2>1, <2>3, FS_Subset, FS_CardinalityType
<1>4. stack_i(vic[0]) < StackTest
  BY <1>1, <1>2, <1>3 DEF Serves, stack_i
<1>5. ASSUME 1 \in Vics PROVE stack_i(vic[1]) < StackTest
  <2>1. s \in Seq(Saved) /\ s[1] = Bottom /\ Len(s) \in Nat /\ DOMAIN s = 1 .. Len(s)
    <3>1. s \in Seq(Saved)
      BY Constants DEF TypeOK, Vic192, Saved
    <3>2. s[1] = Bottom
      BY DEF Stacked
    <3> HIDE DEF s
    <3>3. QED BY <3>1, <3>2
  <2>2. Len(s) = Cardinality(Serving(frames)) + 1
    BY DEF Serves
  <2> HIDE DEF s
  <2>3. 1 \notin Through(s)
    BY <2>1, Constants DEF Through, Bottom
  <2>4. Through(s) \subseteq 2 .. Len(s)
    BY <2>1, <2>3 DEF Through
  <2>5. IsFiniteSet(2 .. Len(s)) /\ Cardinality(2 .. Len(s)) = Len(s) - 1
    <3>1. IsFiniteSet(2 .. Len(s)) /\ Cardinality(2 .. Len(s)) = IF 2 > Len(s) THEN 0 ELSE Len(s) - 2 + 1
      BY <2>1, FS_Interval
    <3>2. Len(s) >= 1
      BY <2>2, <1>3
    <3>3. QED BY <2>1, <3>1, <3>2
  <2>6. Cardinality(Through(s)) \in Nat /\ Cardinality(Through(s)) <= Len(s) - 1
    BY <2>4, <2>5, FS_Subset, FS_CardinalityType
  <2>7. Len(vic[1].stack) = Cardinality(Through(s)) + 1
    BY <1>5 DEF Serves, s
  <2>8. QED BY <1>1, <1>2, <1>3, <2>1, <2>2, <2>6, <2>7 DEF stack_i
<1>6. vic[0].current_highest = Daisy => 1 \in Vics
  <2>1. vic[0].current_highest = Daisy => 0 + 1 \in Vics
    BY DEF Guarded
  <2>2. QED BY <2>1
<1>7. AckSet(0) = IF vic[0].current_highest = Daisy THEN {0, 1} ELSE {0}
  <2>1. 0 + 1 = 1
    OBVIOUS
  <2>2. QED BY <2>1 DEF AckSet
<1>8. stack_i(vic[0]) \in Int /\ (1 \in Vics => stack_i(vic[1]) \in Int)
  <2>1. \A j \in Vics : vic[j].stack \in Seq(Saved)
    BY DEF TypeOK, Vic192, Saved
  <2>2. QED BY <2>1, Constants DEF stack_i
<1>9. QED BY <1>2, <1>4, <1>5, <1>6, <1>7, <1>8 DEF Overflow

\* It pushes one entry for the handler.
LEMMA AcknowledgeServes ==
  ASSUME TypeOK, Serves(frames, vic, aborted), Acknowledge, Stacked(vic[0]), Guarded(vic[0], 0)
  PROVE  Serves(frames', vic', aborted')
<1>0. ~Overflow(0)
  BY AcknowledgeInOrder
<1> DEFINE n == Len(frames)
           e == [at |-> "serve", vector |-> AckVector(0)]
           m == IF vic[0].current_highest = Daisy THEN 1 ELSE 0
<1>1. frames \in Seq(Frames) /\ frames # <<>> /\ frames[n].at = "entry"
  BY DEF Serves, Acknowledge, InHandler, Top
<1>2. pl192_irq_ack(0) /\ aborted' = aborted /\ frames' = [frames EXCEPT ![n] = e]
  BY <1>0 DEF Acknowledge, ReadAddress, pl192_irq_ack, SetTop
<1>3. e \in Frames /\ e.at = "serve"
  <2>1. vic[0] \in Vic192
    BY Constants DEF TypeOK
  <2>2. QED BY <2>1 DEF Frames, AckVector, Vic192
<1> HIDE DEF e
<1>4. /\ frames' \in Seq(Frames) /\ Len(frames') = Len(frames)
      /\ IsFiniteSet(Serving(frames)) /\ Serving(frames') = Serving(frames) \cup {n}
  BY <1>1, <1>2, <1>3, ServingTop
<1>5. n \notin Serving(frames)
  BY <1>1 DEF Serving
<1>6. /\ Cardinality(Serving(frames')) = Cardinality(Serving(frames)) + 1
      /\ Cardinality(Serving(frames)) \in Nat
  BY <1>4, <1>5, FS_AddElement, FS_CardinalityType
<1> HIDE DEF n
<1>7. m \in Nat
  OBVIOUS
<1>8. /\ Len(vic'[0].stack) = Len(vic[0].stack) + 1
      /\ Cardinality(Through(vic'[0].stack)) = Cardinality(Through(vic[0].stack)) + m
      /\ 1 \in Vics => Len(vic'[1].stack) = Len(vic[1].stack) + m
  BY <1>0, <1>2, AckStacks
<1> HIDE DEF m
<1>9. Cardinality(Through(vic[0].stack)) \in Nat
  <2>1. vic[0].stack \in Seq(Saved) /\ Bottom \in Saved
    BY Constants DEF TypeOK, Vic192, Saved, Bottom
  <2>2. IsFiniteSet(Through(vic[0].stack))
    BY <2>1, PushThrough
  <2>3. QED BY <2>2, FS_CardinalityType
<1>10. ~aborted'
  BY <1>2 DEF Serves
<1>11. Len(vic'[0].stack) = Cardinality(Serving(frames')) + 1
  BY <1>6, <1>8 DEF Serves
<1>12. 1 \in Vics => Len(vic'[1].stack) = Cardinality(Through(vic'[0].stack)) + 1
  <2>1. 1 \in Vics => Len(vic[1].stack) = Cardinality(Through(vic[0].stack)) + 1
    BY DEF Serves
  <2>2. QED BY <1>7, <1>8, <1>9, <2>1
<1>13. QED BY <1>4, <1>10, <1>11, <1>12 DEF Serves

\* The end of an interrupt finds an entry on every stack it pops.
LEMMA FinishInOrder ==
  ASSUME TypeOK, Serves(frames, vic, aborted), Finish, Stacked(vic[0]), Guarded(vic[0], 0)
  PROVE  ~Underflow(0)
<1> DEFINE n == Len(frames)
<1>1. frames \in Seq(Frames) /\ frames # <<>> /\ frames[n].at = "finish"
  BY DEF Serves, Finish, InHandler, Top
<1>2. n \in Serving(frames) /\ IsFiniteSet(Serving(frames))
  <2>1. n \in DOMAIN frames /\ frames[n] \in Frames
    BY <1>1
  <2>2. QED BY <1>1, <2>1, ServingTop DEF Serving
<1>3. Cardinality(Serving(frames)) \in Nat /\ Cardinality(Serving(frames)) # 0
  BY <1>2, FS_CardinalityType, FS_EmptySet
<1>4. ~(stack_i(vic[0]) < 1)
  BY <1>3 DEF Serves, stack_i
<1>5. ASSUME vic[0].current = Daisy PROVE ~(stack_i(vic[1]) < 1)
  <2> DEFINE s == vic[0].stack
  <2>1. s \in Seq(Saved) /\ Bottom \in Saved
    BY Constants DEF TypeOK, Vic192, Saved, Bottom
  <2>2. Len(s) \in DOMAIN s /\ s[Len(s)].irq = Daisy
    BY <1>5, <2>1 DEF Stacked
  <2> HIDE DEF s
  <2>3. Len(s) \in Through(s) /\ IsFiniteSet(Through(s))
    BY <2>1, <2>2, PushThrough DEF Through
  <2>4. Cardinality(Through(s)) \in Nat /\ Cardinality(Through(s)) # 0
    BY <2>3, FS_CardinalityType, FS_EmptySet
  <2>5. 1 \in Vics
    <3>1. 0 + 1 \in Vics
      BY <1>5 DEF Guarded
    <3>2. QED BY <3>1
  <2>6. QED BY <2>4, <2>5 DEF Serves, stack_i, s
<1>6. FinSet(0) = IF vic[0].current = Daisy THEN {0, 1} ELSE {0}
  <2>1. 0 + 1 = 1
    OBVIOUS
  <2>2. QED BY <2>1 DEF FinSet
<1>7. QED BY <1>4, <1>5, <1>6 DEF Underflow

\* The end of an interrupt pops what its acknowledge pushed.
LEMMA FinishServes ==
  ASSUME TypeOK, Serves(frames, vic, aborted), Finish, Stacked(vic[0]), Guarded(vic[0], 0)
  PROVE  Serves(frames', vic', aborted')
<1> DEFINE n == Len(frames)
           e == [frames[n] EXCEPT !.at = "return"]
           m == IF vic[0].current = Daisy THEN 1 ELSE 0
<1>0. ~Underflow(0)
  BY FinishInOrder
<1>1. frames \in Seq(Frames) /\ frames # <<>> /\ frames[n].at = "finish"
  BY DEF Serves, Finish, InHandler, Top
<1>2. /\ pl192_irq_fin(0) /\ aborted' = aborted
      /\ frames' = [frames EXCEPT ![n] = e]
  BY <1>0 DEF Finish, WriteAddress, pl192_irq_fin, SetTop, Top
<1>3. e \in Frames /\ e.at = "return" /\ n \in DOMAIN frames
  <2>1. n \in DOMAIN frames /\ frames[n] \in Frames
    BY <1>1
  <2>2. QED BY <2>1 DEF Frames
<1> HIDE DEF e
<1>4. /\ frames' \in Seq(Frames) /\ Len(frames') = Len(frames)
      /\ IsFiniteSet(Serving(frames)) /\ Serving(frames') = Serving(frames) \ {n}
  BY <1>1, <1>2, <1>3, ServingTop
<1>5. n \in Serving(frames)
  BY <1>1, <1>3 DEF Serving
<1>6. /\ Cardinality(Serving(frames')) = Cardinality(Serving(frames)) - 1
      /\ Cardinality(Serving(frames)) \in Nat
  BY <1>4, <1>5, FS_RemoveElement, FS_CardinalityType
<1> HIDE DEF n
<1>7. m \in Nat
  OBVIOUS
<1>8. /\ Len(vic'[0].stack) = Len(vic[0].stack) - 1
      /\ Cardinality(Through(vic'[0].stack)) = Cardinality(Through(vic[0].stack)) - m
      /\ 1 \in Vics => Len(vic'[1].stack) = Len(vic[1].stack) - m
  BY <1>0, <1>2, FinStacks
<1> HIDE DEF m
<1>9. Cardinality(Through(vic[0].stack)) \in Nat
  <2>1. vic[0].stack \in Seq(Saved) /\ Bottom \in Saved
    BY Constants DEF TypeOK, Vic192, Saved, Bottom
  <2>2. IsFiniteSet(Through(vic[0].stack))
    BY <2>1, PushThrough
  <2>3. QED BY <2>2, FS_CardinalityType
<1>10. ~aborted'
  BY <1>2 DEF Serves
<1>11. Len(vic'[0].stack) = Cardinality(Serving(frames')) + 1
  BY <1>6, <1>8 DEF Serves
<1>12. 1 \in Vics => Len(vic'[1].stack) = Cardinality(Through(vic'[0].stack)) + 1
  BY <1>7, <1>8, <1>9 DEF Serves
<1>13. QED BY <1>4, <1>10, <1>11, <1>12 DEF Serves

\* Every step of the kernel and of the devices.
LEMMA KernelServes ==
  ASSUME TypeOK, Serves(frames, vic, aborted), Kernel, Stacked(vic[0]), Guarded(vic[0], 0)
  PROVE  Serves(frames', vic', aborted')
<1>0. frames \in Seq(Frames) /\ ~aborted /\ Len(frames) <= MaxNest
  BY DEF Serves
<1>1. CASE AcceptIrq
  <2> DEFINE e == [at |-> "entry", vector |-> 0]
  <2>1. e \in Frames /\ e.at = "entry"
    BY Constants DEF Frames
  <2>2. frames' = Append(frames, e) /\ vic' = vic /\ aborted' = aborted
    BY <1>1 DEF AcceptIrq, vars
  <2> HIDE DEF e
  <2>3. /\ frames' \in Seq(Frames) /\ Serving(frames') = Serving(frames)
        /\ Len(frames') = Len(frames) + 1
    BY <1>0, <2>1, <2>2, ServingPush
  <2>31. Len(frames') <= MaxNest
    <3>1. Len(frames) < MaxNest /\ Len(frames) \in Nat /\ MaxNest \in Nat
      BY <1>0, <1>1, ChainAssumption DEF AcceptIrq
    <3>2. QED BY <2>3, <3>1
  <2>4. QED BY <1>0, <2>2, <2>3, <2>31, ServesKept
<1>2. CASE Acknowledge
  BY <1>2, AcknowledgeServes
<1>3. CASE EnableNested
  <2>1. frames' = frames /\ vic' = vic /\ aborted' = aborted
    BY <1>3 DEF EnableNested, vars
  <2>2. QED BY <1>0, <2>1, ServesKept
<1>4. CASE Serve
  <2> DEFINE n == Len(frames)
             e == [frames[n] EXCEPT !.at = "finish"]
  <2>1. frames # <<>> /\ frames[n].at = "serve" /\ frames' = [frames EXCEPT ![n] = e]
    BY <1>4 DEF Serve, InHandler, SetTop, Top
  <2>2. n \in DOMAIN frames /\ frames[n] \in Frames
    BY <1>0, <2>1
  <2>3. e \in Frames /\ e.at = "finish"
    BY <2>2 DEF Frames
  <2> HIDE DEF e
  <2>4. /\ frames' \in Seq(Frames) /\ Len(frames') = Len(frames)
        /\ Serving(frames') = Serving(frames) \cup {n}
    BY <1>0, <2>1, <2>3, ServingTop
  <2>5. n \in Serving(frames)
    BY <2>1, <2>2 DEF Serving
  <2>6. Serving(frames') = Serving(frames)
    BY <2>4, <2>5
  <2>7. (\A j \in Vics : vic'[j].stack = vic[j].stack) /\ aborted' = aborted
    <3>1. CASE \E k \in Vics, i \in Src : pl192_irq_handler(k, i, FALSE)
      BY <3>1, LineServes
    <3>2. CASE UNCHANGED vars
      BY <3>2 DEF vars
    <3>3. QED BY <1>4, <3>1, <3>2 DEF Serve
  <2>8. QED BY <1>0, <2>4, <2>6, <2>7, ServesKept
<1>5. CASE Finish
  BY <1>5, FinishServes
<1>6. CASE Return
  <2>1. frames # <<>> /\ frames[Len(frames)].at = "return"
    BY <1>6 DEF Return, InHandler, Top
  <2>2. /\ frames' = SubSeq(frames, 1, Len(frames) - 1)
        /\ vic' = vic /\ aborted' = aborted
    BY <1>6 DEF Return, vars
  <2>3. /\ frames' \in Seq(Frames) /\ Serving(frames') = Serving(frames)
        /\ Len(frames') = Len(frames) - 1
    BY <1>0, <2>1, <2>2, ServingPop
  <2>31. Len(frames') <= MaxNest
    <3>1. Len(frames) \in Nat /\ MaxNest \in Nat
      BY <1>0, ChainAssumption
    <3>2. QED BY <1>0, <2>3, <3>1
  <2>4. ~aborted' /\ \A j \in Vics : vic'[j].stack = vic[j].stack
    BY <1>0, <2>2
  <2>5. QED BY <2>3, <2>31, <2>4, ServesKept
<1>7. CASE \E k \in Vics, i \in Src, level \in BOOLEAN : DeviceLine(k, i, level)
  <2>1. PICK k \in Vics, i \in Src, level \in BOOLEAN : DeviceLine(k, i, level)
    BY <1>7
  <2>2. pl192_irq_handler(k, i, level) /\ frames' = frames
    BY <2>1 DEF DeviceLine
  <2>3. (\A j \in Vics : vic'[j].stack = vic[j].stack) /\ aborted' = aborted
    BY <2>2, LineServes
  <2>4. QED BY <1>0, <2>2, <2>3, ServesKept
<1>8. QED BY <1>1, <1>2, <1>3, <1>4, <1>5, <1>6, <1>7 DEF Kernel

\* The stacks always match what the kernel has in service.
LEMMA ServiceInvariant == GSpec => []ServiceInv
<1> DEFINE G == \A j \in Vics : Guarded(vic[j], j)
<1>1. GInit => ServiceInv
  <2> SUFFICES ASSUME GInit PROVE Serves(frames, vic, aborted)
    BY DEF ServiceInv
  <2>1. PICK b \in Boot : vic = [k \in Vics |-> PoweredUp(b[k])]
    BY DEF GInit, Init
  <2>2. \A j \in Vics : vic[j].stack = <<Bottom>>
    BY <2>1 DEF PoweredUp, Bottom
  <2>3. frames = <<>> /\ ~aborted
    BY DEF GInit, Init
  <2>4. Serving(<<>>) = {} /\ Through(<<Bottom>>) = {} /\ Len(<<Bottom>>) = 1
    BY Constants DEF Serving, Through, Bottom
  <2>5. Cardinality({}) = 0
    BY FS_EmptySet
  <2>51. Serving(frames) = {} /\ Through(vic[0].stack) = {}
    BY <2>2, <2>3, <2>4, Constants, Zenon
  <2>52. Cardinality(Serving(frames)) = 0 /\ Cardinality(Through(vic[0].stack)) = 0
    BY <2>5, <2>51, Zenon
  <2>53. Len(vic[0].stack) = 1 /\ (1 \in Vics => Len(vic[1].stack) = 1)
    BY <2>2, Constants
  <2>6. Len(vic[0].stack) = Cardinality(Serving(frames)) + 1
    BY <2>52, <2>53
  <2>7. 1 \in Vics => Len(vic[1].stack) = Cardinality(Through(vic[0].stack)) + 1
    BY <2>52, <2>53
  <2>8. frames \in Seq(Frames) /\ Len(frames) <= MaxNest
    <3>1. Len(<<>>) = 0 /\ MaxNest \in Nat
      BY ChainAssumption
    <3>2. QED BY <2>3, <3>1
  <2>9. QED BY <2>3, <2>6, <2>7, <2>8 DEF Serves
<1>2. TypeOK /\ AllStacked /\ G /\ ServiceInv /\ [GNext]_gvars => ServiceInv'
  <2> SUFFICES ASSUME TypeOK, AllStacked, G, ServiceInv, [GNext]_gvars, guest' = "kernel"
               PROVE  Serves(frames', vic', aborted')
    BY DEF ServiceInv
  <2>1. guest = "kernel"
    BY DEF GNext, gvars
  <2>2. Serves(frames, vic, aborted) /\ Stacked(vic[0]) /\ Guarded(vic[0], 0)
    BY <2>1, Constants DEF ServiceInv, AllStacked
  <2>3. CASE Kernel
    BY <2>2, <2>3, KernelServes
  <2>4. CASE UNCHANGED gvars
    BY <2>2, <2>4 DEF gvars
  <2>5. QED BY <2>1, <2>3, <2>4 DEF GNext
<1>3. QED BY <1>1, <1>2, GuestImplements, TypeCorrect, StackedInvariant, GuardedInvariant, PTL
          DEF GSpec

\* For a kernel that follows the protocol and nests no more handlers than the
\* stacks of the controllers hold, with requests coming and going in between:
\* acknowledge and end of interrupt push and pop the same controllers, and
\* neither the hw_error of pl192_mask_priority nor the one of
\* pl192_unmask_priority is reached.
THEOREM KernelBalanced == GSpec => [](Balanced /\ NeverAborts)
<1>1. TypeOK /\ ServiceInv => Balanced /\ NeverAborts
  <2> SUFFICES ASSUME TypeOK, ServiceInv, guest = "kernel"
               PROVE  /\ stack_i(vic[0]) = Cardinality(InService)
                      /\ 1 \in Vics => stack_i(vic[1]) =
                           Cardinality({n \in DOMAIN vic[0].stack : vic[0].stack[n].irq = Daisy})
                      /\ ~aborted
    BY DEF Balanced, NeverAborts
  <2>1. Serves(frames, vic, aborted)
    BY DEF ServiceInv
  <2>2. Cardinality(Serving(frames)) \in Nat
    <3>1. frames \in Seq(Frames)
      BY <2>1 DEF Serves
    <3>2. IsFiniteSet(1 .. Len(frames)) /\ Serving(frames) \subseteq 1 .. Len(frames)
      BY <3>1, FS_Interval DEF Serving
    <3>3. QED BY <3>2, FS_Subset, FS_CardinalityType
  <2>3. Cardinality(Through(vic[0].stack)) \in Nat
    <3>1. vic[0].stack \in Seq(Saved) /\ Bottom \in Saved
      BY Constants DEF TypeOK, Vic192, Saved, Bottom
    <3>2. IsFiniteSet(Through(vic[0].stack))
      BY <3>1, PushThrough
    <3>3. QED BY <3>2, FS_CardinalityType
  <2>4. InService = Serving(frames)
    BY DEF InService, Serving
  <2>5. stack_i(vic[0]) = Cardinality(InService)
    BY <2>1, <2>2, <2>4 DEF Serves, stack_i
  <2>6. 1 \in Vics => stack_i(vic[1]) = Cardinality(Through(vic[0].stack))
    BY <2>1, <2>3 DEF Serves, stack_i
  <2>7. QED BY <2>1, <2>5, <2>6 DEF Through, Serves
<1>2. QED BY <1>1, ServiceInvariant, GuestImplements, TypeCorrect, PTL

-----------------------------------------------------------------------------
(***************************************************************************)
(* The vector the kernel reads.                                            *)
(***************************************************************************)

\* Nothing of this controller's own has ever been taken into service: its
\* entries are those pushed for the controller in front of it.
Steady(v) == \A n \in DOMAIN v.stack :
               v.stack[n].irq = NoIrq /\ v.stack[n].priority >= PrioLevels

ChainOk(g) ==
  /\ \A j \in Vics : g[j].sw_priority_mask = Prio /\ (j # 0 => Steady(g[j]))
  /\ AllJoined(g)

ChainInv == guest = "kernel" => ChainOk(vic)

\* The service state is the top of the stack.
LEMMA SteadyBehind ==
  ASSUME NEW v \in Vic192, Steady(v), Stacked(v)
  PROVE  Behind(v)
<1>1. v.stack \in Seq(Saved)
  BY DEF Vic192, Saved
<1>2. Len(v.stack) \in DOMAIN v.stack
  BY <1>1 DEF Stacked
<1>3. QED BY <1>2 DEF Stacked, Steady, Behind

\* A push for the controller in front records level 33, below every level.
LEMMA MaskSteady ==
  ASSUME NEW v \in Vic192, Steady(v), Behind(v)
  PROVE  Steady(pl192_mask_priority(v)) /\ Behind(pl192_mask_priority(v))
<1> DEFINE e == [priority |-> ServiceLevel(v), irq |-> v.current]
           w == pl192_mask_priority(v)
<1>1. w.stack = Append(v.stack, e) /\ w.priority = ServiceLevel(v) /\ w.current = v.current
  BY DEF pl192_mask_priority, Vic192
<1>2. v.stack \in Seq(Saved) /\ e \in Saved
  BY Constants DEF Vic192, Saved, ServiceLevel
<1>3. ServiceLevel(v) = NoIrq /\ v.current = NoIrq /\ NoIrq >= PrioLevels
  BY Constants, ChainAssumption DEF Behind, ServiceLevel, NoIrq
<1>4. e.irq = NoIrq /\ e.priority >= PrioLevels
  BY <1>3
<1> HIDE DEF e, w
<1>5. \A n \in DOMAIN Append(v.stack, e) :
        \/ n \in DOMAIN v.stack /\ Append(v.stack, e)[n] = v.stack[n]
        \/ Append(v.stack, e)[n] = e
  BY <1>2
<1>6. Steady(w)
  BY <1>1, <1>4, <1>5 DEF Steady
<1>7. QED BY <1>1, <1>3, <1>6 DEF Behind, w

\* A pop restores an entry of the same kind.
LEMMA UnmaskSteady ==
  ASSUME NEW v \in Vic192, Steady(v), ~(stack_i(v) < 1)
  PROVE  Steady(pl192_unmask_priority(v)) /\ Behind(pl192_unmask_priority(v))
<1> DEFINE n == Len(v.stack) - 1
           s == SubSeq(v.stack, 1, n)
           w == pl192_unmask_priority(v)
<1>1. v.stack \in Seq(Saved)
  BY DEF Vic192, Saved
<1>2. n \in Nat /\ n >= 1 /\ n <= Len(v.stack) /\ Len(v.stack) \in Nat
  BY <1>1 DEF stack_i
<1>3. n \in DOMAIN v.stack /\ \A m \in DOMAIN s : m \in DOMAIN v.stack /\ s[m] = v.stack[m]
  BY <1>1, <1>2
<1>4. w.stack = s /\ w.priority = v.stack[n].priority /\ w.current = v.stack[n].irq
  BY DEF pl192_unmask_priority, Vic192
<1> HIDE DEF n, s, w
<1>5. QED BY <1>3, <1>4 DEF Steady, Behind, w

\* Joined reads nothing that pushing and popping the stack change.
LEMMA JoinedSame ==
  ASSUME NEW u, NEW v, NEW u2, NEW v2, SameChoice(u, u2), SameChoice(v, v2), Joined(u, v)
  PROVE  Joined(u2, v2)
BY DEF SameChoice, SameLines, Joined, Requesting

\* After a call: the chain is joined again, and the CPU's IRQ input has gone
\* down only if controller 0 requests nothing.
LEMMA UpdateChainOk ==
  ASSUME TypeOK, NEW f \in [Vics -> Vic192], NEW k \in Vics,
         \A j \in Vics : /\ f[j].sw_priority_mask = Prio
                         /\ j # 0 => Steady(f[j]) /\ Behind(f[j]),
         \A j \in Vics : j + 1 \in Vics /\ j + 1 # k => Joined(f[j], f[j + 1]),
         Becomes(pl192_update([Now EXCEPT !.vic = f], k))
  PROVE  ChainOk(vic') /\ (irq /\ ~irq' => ~Requesting(vic'[0]))
<1> DEFINE d == pl192_update([Now EXCEPT !.vic = f], k)
<1>1. d \in Calls /\ Plain(d) /\ AllJoined(d.vic) /\ Held(d)
  BY UpdateLinked
<1>2. vic' = d.vic /\ irq' = d.irq
  BY DEF Becomes
<1> HIDE DEF d
<1>3. \A j \in Vics : vic'[j].stack = f[j].stack
  BY UpdateStacks
<1>4. \A j \in Vics : j # 0 => Steady(vic'[j])
  BY <1>3 DEF Steady
<1>5. ChainOk(vic')
  BY <1>1, <1>2, <1>4 DEF Plain, ChainOk
<1>6. irq /\ ~irq' => ~Requesting(vic'[0])
  BY <1>1, <1>2 DEF Held
<1>7. QED BY <1>5, <1>6

\* A device line changes one controller, which is then updated.
LEMMA LineChainOk ==
  ASSUME TypeOK, AllStacked, ChainOk(vic), NEW k \in Vics, NEW i \in Src,
         NEW level \in BOOLEAN, pl192_irq_handler(k, i, level)
  PROVE  ChainOk(vic') /\ (irq /\ ~irq' => ~Requesting(vic'[0]))
<1>0. \A j \in Vics : vic[j] \in Vic192
  BY DEF TypeOK
<1>1. PICK f \in [Vics -> Vic192] :
           /\ \A j \in Vics : /\ SameService(vic[j], f[j])
                              /\ f[j].sw_priority_mask = vic[j].sw_priority_mask
                              /\ f[j].daisy_input = vic[j].daisy_input
                              /\ f[j].daisy_vectaddr = vic[j].daisy_vectaddr
                              /\ j # k => f[j] = vic[j]
           /\ Becomes(pl192_update([Now EXCEPT !.vic = f], k))
  BY LineCall
<1>2. \A j \in Vics : j # 0 => Steady(vic[j]) /\ Behind(vic[j])
  BY <1>0, SteadyBehind DEF ChainOk, AllStacked
<1>3. \A j \in Vics : /\ f[j].sw_priority_mask = Prio
                      /\ j # 0 => Steady(f[j]) /\ Behind(f[j])
  BY <1>1, <1>2 DEF ChainOk, SameService, Steady, Behind
<1>4. \A j \in Vics : j + 1 \in Vics /\ j + 1 # k => Joined(f[j], f[j + 1])
  <2> SUFFICES ASSUME NEW j \in Vics, j + 1 \in Vics, j + 1 # k
               PROVE  Joined(f[j], f[j + 1])
    OBVIOUS
  <2>1. Joined(vic[j], vic[j + 1]) /\ f[j + 1] = vic[j + 1]
    BY <1>1 DEF ChainOk, AllJoined
  <2>2. f[j].daisy_input = vic[j].daisy_input /\ f[j].daisy_vectaddr = vic[j].daisy_vectaddr
    BY <1>1
  <2>3. QED BY <2>1, <2>2 DEF Joined
<1>5. QED BY <1>1, <1>3, <1>4, UpdateChainOk

\* An acknowledge at controller 0 pushes on controllers 0 and 1.
LEMMA AckChainOk ==
  ASSUME TypeOK, AllStacked, ChainOk(vic), pl192_irq_ack(0), ~Overflow(0)
  PROVE  ChainOk(vic') /\ (irq /\ ~irq' => ~Requesting(vic'[0]))
<1>0. 0 \in Vics /\ \A j \in Vics : vic[j] \in Vic192
  BY Constants DEF TypeOK
<1>1. PICK f \in [Vics -> Vic192] :
        /\ f[0] = pl192_mask_priority(Taken(vic[0]))
        /\ \A j \in Vics \ {0} : f[j] = IF j \in AckSet(0) THEN pl192_mask_priority(vic[j])
                                                           ELSE vic[j]
        /\ Becomes(pl192_update([Now EXCEPT !.vic = f], 0))
  BY <1>0, AckCall
<1>2. \A j \in Vics : j # 0 => Steady(vic[j]) /\ Behind(vic[j])
  BY <1>0, SteadyBehind DEF ChainOk, AllStacked
<1>3. \A j \in Vics : j # 0 => Steady(f[j]) /\ Behind(f[j])
  BY <1>0, <1>1, <1>2, MaskSteady
<1>4. \A j \in Vics : SameChoice(vic[j], f[j])
  BY <1>0, <1>1, MaskChoice DEF Taken
<1>5. \A j \in Vics : f[j].sw_priority_mask = Prio
  BY <1>4 DEF SameChoice, ChainOk
<1>6. \A j \in Vics : j + 1 \in Vics => Joined(f[j], f[j + 1])
  BY <1>4, JoinedSame DEF ChainOk, AllJoined
<1>7. QED BY <1>0, <1>1, <1>3, <1>5, <1>6, UpdateChainOk

\* An end of interrupt pops them; its pl192_lower reaches the CPU only.
LEMMA FinChainOk ==
  ASSUME TypeOK, AllStacked, ChainOk(vic), pl192_irq_fin(0), ~Underflow(0)
  PROVE  ChainOk(vic')
<1>0. 0 \in Vics /\ \A j \in Vics : vic[j] \in Vic192
  BY Constants DEF TypeOK
<1>1. PICK f \in [Vics -> Vic192] :
        /\ \A j \in Vics : f[j] = IF j \in FinSet(0) THEN pl192_unmask_priority(vic[j])
                                                     ELSE vic[j]
        /\ LET d == pl192_update([Now EXCEPT !.vic = f], 0) IN
           \/ Becomes(d) \/ Becomes(Chain([d EXCEPT !.at = 0, !.sig = "lower"]))
  BY <1>0, FinCall
<1>2. \A j \in Vics : j # 0 => Steady(vic[j]) /\ Behind(vic[j])
  BY <1>0, SteadyBehind DEF ChainOk, AllStacked
<1>3. \A j \in Vics : j # 0 => Steady(f[j]) /\ Behind(f[j])
  BY <1>0, <1>1, <1>2, UnmaskSteady DEF Underflow
<1>4. \A j \in Vics : SameChoice(vic[j], f[j])
  BY <1>0, <1>1, MaskChoice
<1>5. \A j \in Vics : f[j].sw_priority_mask = Prio
  BY <1>4 DEF SameChoice, ChainOk
<1>6. \A j \in Vics : j + 1 \in Vics => Joined(f[j], f[j + 1])
  BY <1>4, JoinedSame DEF ChainOk, AllJoined
<1>7. \A j \in Vics : vic'[j].stack = f[j].stack
  BY <1>0, <1>1, UpdateStacks
<1> DEFINE d == pl192_update([Now EXCEPT !.vic = f], 0)
           e == [d EXCEPT !.at = 0, !.sig = "lower"]
<1>8. d \in Calls /\ Plain(d) /\ AllJoined(d.vic)
  BY <1>0, <1>3, <1>5, <1>6, UpdateLinked
<1>9. Becomes(d) \/ Becomes(Chain(e))
  BY <1>1
<1> HIDE DEF d
<1>10. Chain(e).vic = d.vic
  <2>1. e \in Calls /\ e.at = 0 /\ e.vic = d.vic
    BY <1>0, <1>8 DEF Calls
  <2> HIDE DEF e
  <2>2. QED BY <2>1, ChainAtCpu
<1> HIDE DEF e
<1>11. vic' = d.vic
  BY <1>9, <1>10 DEF Becomes
<1>12. \A j \in Vics : j # 0 => Steady(vic'[j])
  BY <1>3, <1>7 DEF Steady
<1>13. QED BY <1>8, <1>11, <1>12 DEF Plain, ChainOk

\* Every step of the kernel and of the devices.
LEMMA KernelChainOk ==
  ASSUME TypeOK, AllStacked, Guarded(vic[0], 0), Serves(frames, vic, aborted),
         ChainOk(vic), Kernel
  PROVE  /\ ChainOk(vic')
         /\ irq /\ ~irq' => ~Requesting(vic'[0]) \/ stack_i(vic'[0]) < stack_i(vic[0])
<1>1. CASE vic' = vic /\ irq' = irq
  BY <1>1
<1>2. CASE \E k \in Vics, i \in Src, level \in BOOLEAN : pl192_irq_handler(k, i, level)
  BY <1>2, LineChainOk
<1>3. CASE Acknowledge
  <2>1. pl192_irq_ack(0) /\ ~Overflow(0)
    BY <1>3, Constants, AcknowledgeInOrder DEF Acknowledge, ReadAddress, AllStacked
  <2>2. QED BY <2>1, AckChainOk
<1>4. CASE Finish
  <2>0. Stacked(vic[0])
    BY Constants DEF AllStacked
  <2>1. pl192_irq_fin(0) /\ ~Underflow(0)
    BY <1>4, <2>0, FinishInOrder DEF Finish, WriteAddress
  <2>2. ChainOk(vic')
    BY <2>1, FinChainOk
  <2>3. Len(vic'[0].stack) = Len(vic[0].stack) - 1
    BY <2>0, <2>1, FinStacks
  <2>4. Len(vic[0].stack) \in Nat
    <3>1. vic[0].stack \in Seq(Saved)
      BY Constants DEF TypeOK, Vic192, Saved
    <3>2. QED BY <3>1
  <2>5. stack_i(vic'[0]) < stack_i(vic[0])
    BY <2>3, <2>4 DEF stack_i
  <2>6. QED BY <2>2, <2>5
<1>5. CASE AcceptIrq \/ EnableNested \/ Return
  BY <1>1, <1>5 DEF AcceptIrq, EnableNested, Return, vars
<1>6. CASE Serve
  <2>1. CASE \E k \in Vics, i \in Src : pl192_irq_handler(k, i, FALSE)
    BY <1>2, <2>1
  <2>2. CASE UNCHANGED vars
    BY <1>1, <2>2 DEF vars
  <2>3. QED BY <1>6, <2>1, <2>2 DEF Serve
<1>7. CASE \E k \in Vics, i \in Src, level \in BOOLEAN : DeviceLine(k, i, level)
  BY <1>2, <1>7 DEF DeviceLine
<1>8. QED BY <1>3, <1>4, <1>5, <1>6, <1>7 DEF Kernel

\* With every level unmasked the chain stays joined under the kernel.
LEMMA ChainInvariant == UnmaskedBoot => (GSpec => []ChainInv)
<1> SUFFICES ASSUME UnmaskedBoot PROVE GSpec => []ChainInv
  OBVIOUS
<1> DEFINE G == \A j \in Vics : Guarded(vic[j], j)
<1>1. GInit => ChainInv
  <2> SUFFICES ASSUME GInit PROVE ChainOk(vic)
    BY DEF ChainInv
  <2>1. PICK b \in Boot : vic = [k \in Vics |-> PoweredUp(b[k])]
    BY DEF GInit, Init
  <2>2. \A j \in Vics : /\ vic[j].stack = <<Bottom>> /\ vic[j].sw_priority_mask = Prio
                        /\ ~vic[j].daisy_input /\ vic[j].irq_status = {}
    BY <2>1 DEF PoweredUp, Bottom, UnmaskedBoot
  <2>3. /\ DOMAIN <<Bottom>> = {1} /\ <<Bottom>>[1].irq = NoIrq
        /\ <<Bottom>>[1].priority >= PrioLevels
    BY Constants DEF Bottom
  <2>4. \A j \in Vics : Steady(vic[j])
    BY <2>2, <2>3 DEF Steady
  <2>5. AllJoined(vic)
    BY <2>2 DEF AllJoined, Joined, Requesting
  <2>6. QED BY <2>2, <2>4, <2>5 DEF ChainOk
<1>2. TypeOK /\ AllStacked /\ G /\ ServiceInv /\ ChainInv /\ [GNext]_gvars => ChainInv'
  <2> SUFFICES ASSUME TypeOK, AllStacked, G, ServiceInv, ChainInv, [GNext]_gvars,
                      guest' = "kernel"
               PROVE  ChainOk(vic')
    BY DEF ChainInv
  <2>1. guest = "kernel"
    BY DEF GNext, gvars
  <2>2. Serves(frames, vic, aborted) /\ Guarded(vic[0], 0) /\ ChainOk(vic)
    BY <2>1, Constants DEF ServiceInv, ChainInv
  <2>3. CASE Kernel
    BY <2>2, <2>3, KernelChainOk
  <2>4. CASE UNCHANGED gvars
    BY <2>2, <2>4 DEF gvars
  <2>5. QED BY <2>1, <2>3, <2>4 DEF GNext
<1>3. QED BY <1>1, <1>2, ServiceInvariant, GuestImplements, TypeCorrect, StackedInvariant,
             GuardedInvariant, PTL DEF GSpec

\* The cached vector, followed to the controller it came from.
Live(j) == vic[j].current_highest # NoIrq =>
             \E k \in Vics : \E i \in Pending(k) : vic[j].address = vic[k].vect_addr[i]

\* A controller's vector is its own input's or that of the one behind it.
LEMMA LiveStep ==
  ASSUME TypeOK, AllSettled(Now), LinkCoherent, ChainOk(vic), NEW j \in Vics,
         j + 1 \in Vics => Live(j + 1)
  PROVE  Live(j)
<1> SUFFICES ASSUME vic[j].current_highest # NoIrq
             PROVE  \E k \in Vics : \E i \in Pending(k) : vic[j].address = vic[k].vect_addr[i]
  BY DEF Live
<1>0. \A k \in Vics : /\ vic[k] \in Vic192 /\ Settled(vic[k])
                      /\ vic[k].sw_priority_mask = Prio
                      /\ vic[k].irq_status = Pending(k) /\ vic[k].irq_status \subseteq Src
  <2>1. \A k \in Vics : vic[k] \in Vic192 /\ Settled(vic[k]) /\ vic[k].sw_priority_mask = Prio
    BY DEF TypeOK, AllSettled, Now, ChainOk
  <2>2. \A k \in Vics : vic[k].irq_status = Pending(k)
    BY <2>1 DEF Settled, Latched, Pending
  <2>3. QED BY <2>1, <2>2 DEF Vic192
<1>1. \A k \in Vics : Requesting(vic[k]) =>
        /\ vic[k].current_highest = pl192_priority_sorter(vic[k])
        /\ vic[k].current_highest \in vic[k].irq_status \cup {Daisy}
  BY <1>0, UnmaskedChoice DEF Settled
<1>2. Requesting(vic[j])
  BY <1>0 DEF Settled
<1>3. CASE vic[j].current_highest \in vic[j].irq_status
  <2>1. vic[j].address = vic[j].vect_addr[vic[j].current_highest]
    BY <1>0, <1>3 DEF Settled
  <2>2. QED BY <1>0, <1>3, <2>1
<1>4. CASE vic[j].current_highest = Daisy
  <2>1. vic[j].daisy_input
    BY <1>0, <1>1, <1>2, <1>4, SorterNotDaisy
  <2>2. j + 1 \in Vics /\ Requesting(vic[j + 1])
    BY <2>1 DEF LinkCoherent
  <2>3. vic[j].address = vic[j].daisy_vectaddr
    BY <1>0, <1>4 DEF Settled
  <2>4. vic[j].daisy_vectaddr = vic[j + 1].address
    BY <2>1, <2>2 DEF ChainOk, AllJoined, Joined
  <2>5. vic[j + 1].current_highest # NoIrq
    BY <1>0, <1>1, <2>2, Constants
  <2>6. QED BY <2>2, <2>3, <2>4, <2>5 DEF Live
<1>5. QED BY <1>1, <1>2, <1>3, <1>4

\* A chain whose controller 0 requests nothing is quiet.
LEMMA QuietChain ==
  ASSUME NEW g, AllJoined(g), ~Requesting(g[0])
  PROVE  \A j \in Vics : ~Requesting(g[j])
<1>0. \A j \in Vics : j \in {0, 1, 2, 3}
  BY ChainAssumption DEF Vics
<1>1. \A j \in Vics : j + 1 \in Vics /\ ~Requesting(g[j]) => ~Requesting(g[j + 1])
  BY DEF AllJoined, Joined, Requesting
<1>2. /\ 1 \in Vics => ~Requesting(g[1])
      /\ 2 \in Vics => 1 \in Vics
      /\ 3 \in Vics => 2 \in Vics
      /\ 0 \in Vics /\ 0 + 1 = 1 /\ 1 + 1 = 2 /\ 2 + 1 = 3
  <2>1. /\ 2 \in Vics => 1 \in Vics
        /\ 3 \in Vics => 2 \in Vics
        /\ 0 \in Vics /\ 0 + 1 = 1 /\ 1 + 1 = 2 /\ 2 + 1 = 3
    BY ChainAssumption DEF Vics
  <2>2. QED BY <1>1, <2>1
<1>3. 2 \in Vics => ~Requesting(g[2])
  BY <1>1, <1>2
<1>4. 3 \in Vics => ~Requesting(g[3])
  BY <1>1, <1>2, <1>3
<1>5. QED BY <1>0, <1>2, <1>3, <1>4

\* With every level unmasked (the reset value) a kernel that follows the
\* protocol is served, whatever the length of the chain, the levels and the
\* order in which devices raise and withdraw their requests.
THEOREM KernelIsServed == UnmaskedBoot => (GSpec => []KernelServed)
<1> SUFFICES ASSUME UnmaskedBoot PROVE GSpec => []KernelServed
  OBVIOUS
<1>1. TypeOK /\ AllSettled(Now) /\ LinkCoherent /\ ChainInv => AckVectorLive
  <2> SUFFICES ASSUME TypeOK, AllSettled(Now), LinkCoherent, ChainOk(vic)
               PROVE  Live(0)
    BY DEF AckVectorLive, ChainInv, Live
  <2>1. /\ \A j \in Vics : j \in {0, 1, 2, 3}
        /\ 0 \in Vics /\ 4 \notin Vics
        /\ 0 + 1 = 1 /\ 1 + 1 = 2 /\ 2 + 1 = 3 /\ 3 + 1 = 4
    BY ChainAssumption DEF Vics
  <2>2. 3 \in Vics => Live(3)
    BY <2>1, LiveStep
  <2>3. 2 \in Vics => Live(2)
    BY <2>1, <2>2, LiveStep
  <2>4. 1 \in Vics => Live(1)
    BY <2>1, <2>3, LiveStep
  <2>5. QED BY <2>1, <2>4, LiveStep
<1>2. Balanced /\ NeverAborts /\ AckVectorLive /\ NoNullCallback => KernelServed
  BY DEF KernelServed
<1>3. GSpec => []ChainInv
  BY ChainInvariant
<1>4. QED BY <1>1, <1>2, <1>3, KernelBalanced, CallbacksSet, LinksCoherent, SettledInvariant,
             TypeCorrect, GuestImplements, PTL

\* Under the same kernel the IRQ line goes down only when the last request
\* of the chain has gone or an interrupt has ended (pl192_lower, pl192_update).
THEOREM IrqKept == UnmaskedBoot => (GSpec => IrqDropsOnlyWhenQuiet)
<1> SUFFICES ASSUME UnmaskedBoot PROVE GSpec => IrqDropsOnlyWhenQuiet
  OBVIOUS
<1> DEFINE G == \A j \in Vics : Guarded(vic[j], j)
           Drop == guest = "kernel" /\ irq /\ ~irq' =>
                     \/ \A k \in Vics : Pending(k)' = {}
                     \/ stack_i(vic[0])' < stack_i(vic[0])
<1>1. TypeOK /\ AllStacked /\ G /\ ServiceInv /\ ChainInv /\ [GNext]_gvars /\ AllSettled(Now)'
        => [Drop]_gvars
  <2> SUFFICES ASSUME TypeOK, AllStacked, G, ServiceInv, ChainInv, [GNext]_gvars,
                      AllSettled(Now)', guest = "kernel", irq, ~irq'
               PROVE  \/ \A k \in Vics : Pending(k)' = {}
                      \/ stack_i(vic[0])' < stack_i(vic[0])
    OBVIOUS
  <2>1. Serves(frames, vic, aborted) /\ Guarded(vic[0], 0) /\ ChainOk(vic)
    BY Constants DEF ServiceInv, ChainInv
  <2>2. CASE Kernel
    <3>1. /\ ChainOk(vic')
          /\ ~Requesting(vic'[0]) \/ stack_i(vic'[0]) < stack_i(vic[0])
      BY <2>1, <2>2, KernelChainOk
    <3>2. ASSUME ~Requesting(vic'[0]), NEW k \in Vics PROVE Pending(k)' = {}
      <4>1. ~Requesting(vic'[k])
        BY <3>1, <3>2, QuietChain DEF ChainOk
      <4>2. Latched(vic'[k])
        BY DEF AllSettled, Now, Settled, Latched
      <4>3. QED BY <4>1, <4>2 DEF Requesting, Latched, Pending
    <3>3. QED BY <3>1, <3>2 DEF stack_i
  <2>3. CASE UNCHANGED gvars
    BY <2>3 DEF gvars
  <2>4. QED BY <2>2, <2>3 DEF GNext
<1>2. GSpec => []ChainInv
  BY ChainInvariant
<1>3. QED BY <1>1, <1>2, ServiceInvariant, StackedInvariant, GuardedInvariant,
             SettledInvariant, TypeCorrect, GuestImplements, PTL
          DEF GSpec, IrqDropsOnlyWhenQuiet
=============================================================================
