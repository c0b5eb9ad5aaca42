----------------------------- MODULE Pl192Guest -----------------------------
(***************************************************************************)
(* The interrupt controllers together with the CPU that takes their IRQ    *)
(* (cpu-exec.c, hw/arm_pic.c) and a guest kernel that follows the PL192    *)
(* protocol: it talks to controller 0 only, reads VECTADDR once on entry   *)
(* to a handler, quiets the device the vector belongs to, and writes       *)
(* VECTADDR once before it returns.  A handler may allow nesting by        *)
(* clearing the CPSR I bit after the acknowledge.  The guest is external   *)
(* to the emulator; it may also be any other, one that uses the registers  *)
(* of every controller in any order with IRQs masked in the CPU.           *)
(***************************************************************************)
EXTENDS Pl192

CONSTANTS
  Nesting,   \* whether handlers clear the I bit while they run
  AnyNest    \* bound: interrupts another guest leaves in service

ASSUME GuestAssumption == Nesting \in BOOLEAN /\ AnyNest \in Nat

VARIABLES
  guest,    \* "kernel" or "any"
  cpsr_i,   \* the CPSR I bit: IRQs masked in the CPU
  frames    \* the guest's handler activations, innermost last

gvars == <<vic, irq, fiq, aborted, guest, cpsr_i, frames>>

Top == frames[Len(frames)]
SetTop(f) == frames' = [frames EXCEPT ![Len(frames)] = f]
InHandler(at) == frames # <<>> /\ Top.at = at

\* cpu_exec takes the IRQ exception: CPU_INTERRUPT_HARD and the I bit clear.
\* The kernel stacks up at most MaxNest handlers, so that the controllers'
\* stacks suffice; priorities alone do not keep it to that, because a
\* spurious acknowledge pushes a level that masks nothing.
AcceptIrq ==
  /\ ~aborted /\ irq /\ ~cpsr_i
  /\ Len(frames) < MaxNest
  /\ cpsr_i' = TRUE
  /\ frames' = Append(frames, [at |-> "entry", vector |-> 0])
  /\ UNCHANGED vars

\* The handler reads VECTADDR of controller 0.
Acknowledge ==
  /\ InHandler("entry")
  /\ ReadAddress(0)
  /\ SetTop([at |-> "serve", vector |-> AckVector(0)])
  /\ UNCHANGED cpsr_i

EnableNested ==
  /\ ~aborted /\ Nesting
  /\ InHandler("serve") \/ InHandler("finish")
  /\ cpsr_i
  /\ cpsr_i' = FALSE
  /\ UNCHANGED <<vars, frames>>

\* The handler quiets the device its vector names, and the device drops its
\* line; a spurious vector names none.
Serve ==
  /\ InHandler("serve")
  /\ \/ \E k \in Vics, i \in Src :
          /\ vic[k].vect_addr[i] = Top.vector
          /\ pl192_irq_handler(k, i, FALSE)
     \/ /\ \A k \in Vics, i \in Src : vic[k].vect_addr[i] # Top.vector
        /\ ~aborted /\ UNCHANGED vars
  /\ SetTop([Top EXCEPT !.at = "finish"])
  /\ UNCHANGED cpsr_i

\* The handler masks IRQs again and writes VECTADDR of controller 0.
Finish ==
  /\ InHandler("finish")
  /\ WriteAddress(0)
  /\ SetTop([Top EXCEPT !.at = "return"])
  /\ cpsr_i' = TRUE

\* Exception return: the I bit was clear when the exception was taken.
Return ==
  /\ ~aborted /\ InHandler("return")
  /\ frames' = SubSeq(frames, 1, Len(frames) - 1)
  /\ cpsr_i' = FALSE
  /\ UNCHANGED vars

\* A device raises its line, or withdraws the request by itself.
DeviceLine(k, i, level) ==
  /\ pl192_irq_handler(k, i, level)
  /\ UNCHANGED <<cpsr_i, frames>>

Kernel ==
  \/ AcceptIrq \/ Acknowledge \/ EnableNested \/ Serve \/ Finish \/ Return
  \/ \E k \in Vics, i \in Src, level \in BOOLEAN : DeviceLine(k, i, level)

\* Another guest, and the devices.
Other ==
  /\ Next
  /\ \A k \in Vics : stack_i(vic'[k]) <= AnyNest
  /\ UNCHANGED <<cpsr_i, frames>>

GInit == Init /\ guest \in {"kernel", "any"} /\ cpsr_i = FALSE /\ frames = <<>>

GNext ==
  /\ \/ guest = "kernel" /\ Kernel
     \/ guest = "any" /\ Other
  /\ UNCHANGED guest

GSpec == GInit /\ [][GNext]_gvars

-----------------------------------------------------------------------------
(***************************************************************************)
(* Properties.                                                             *)
(***************************************************************************)

\* The guest's own handler activations that have been acknowledged and not
\* finished.
InService == {n \in DOMAIN frames : frames[n].at \in {"serve", "finish"}}

\* Controller 0 has one stack entry per interrupt in service, the controller
\* behind it one per interrupt that came through its daisy output: the
\* masking done by pl192_irq_ack is undone by pl192_irq_fin on the same
\* controllers even when the daisy input has changed in between.
Balanced == guest = "kernel" =>
  /\ stack_i(vic[0]) = Cardinality(InService)
  /\ 1 \in Vics => stack_i(vic[1]) =
       Cardinality({n \in DOMAIN vic[0].stack : vic[0].stack[n].irq = Daisy})

\* A guest that follows the protocol, with no more handlers than the stacks
\* have room for, never meets hw_error("internal error"), neither the one of
\* pl192_mask_priority nor the one of pl192_unmask_priority.
NeverAborts == guest = "kernel" => ~aborted

\* The vector an acknowledge would return belongs to an input that is
\* asserted and enabled now, however many controllers away: the address
\* cached along the chain is never that of a request since withdrawn.
AckVectorLive ==
  guest = "kernel" /\ vic[0].current_highest # NoIrq =>
    \E k \in Vics : \E i \in Pending(k) : vic[0].address = vic[k].vect_addr[i]

\* The IRQ line goes down only when the last request has gone, or at the end
\* of an interrupt: no device edge and no acknowledge hides a request.
IrqDropsOnlyWhenQuiet ==
  [][guest = "kernel" /\ irq /\ ~irq' => \/ \A k \in Vics : Pending(k)' = {}
                                         \/ stack_i(vic[0])' < stack_i(vic[0])]_gvars

\* A kernel that follows the protocol is served: the stacks match what it has in
\* service, hw_error is not reached, and what the next acknowledge would follow
\* along the chain, callback and vector, is live (pl192_irq_ack, pl192_irq_fin).
KernelServed == Balanced /\ NeverAborts /\ AckVectorLive /\ NoNullCallback
=============================================================================
