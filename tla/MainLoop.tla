------------------------------ MODULE MainLoop ------------------------------
(***************************************************************************)
(* The main loop without an I/O thread (vl.c): tcg_cpu_exec runs guest     *)
(* code until it is asked to stop, main_loop_wait sleeps in select and     *)
(* runs the expired timers.  The only thing that gets the thread out of    *)
(* guest code, or out of select, is the host's alarm signal, so a timer    *)
(* whose alarm is forgotten never fires.  host_alarm_handler may interrupt *)
(* the thread between any two steps of the others, in the middle of        *)
(* qemu_mod_timer too.                                                     *)
(*                                                                         *)
(* Time is relative: exp[t] ticks are left until t is due.                 *)
(***************************************************************************)
EXTENDS Integers, Sequences, FiniteSets, Lists

CONSTANTS
  VmTimers,   \* timers on vm_clock, which stops with the VM
  RtTimers,   \* timers on the clocks that do not stop
  MaxDelay    \* bound: how far ahead a timer is set

ASSUME MainLoopAssumption ==
  /\ VmTimers \cap RtTimers = {} /\ IsFiniteSet(VmTimers \cup RtTimers)
  /\ MaxDelay \in Nat \ {0}

VARIABLES
  dynticks,         \* the host timer found at start is one-shot and rearmed,
                    \* or else periodic
  active_timers, exp,
  alarm,            \* ticks until the host timer expires, or Off
  signal,           \* SIGALRM is pending
  expired,          \* ALARM_FLAG_EXPIRED
  event,            \* the notification pipe is not empty
  timer_alarm_pending,
  next_cpu,         \* next_cpu is not null
  exit_request, current_tb, halted,
  vm_running,
  pc,               \* where the thread is
  op,               \* the call of qemu_mod_timer or rearm in progress
  due               \* timers that expire by run_timers' current_time

timers == <<active_timers, exp>>
host == <<alarm, signal>>
notes == <<expired, event, timer_alarm_pending>>
cpu == <<next_cpu, exit_request, current_tb, halted>>
thread == <<pc, op, due>>
vars == <<timers, host, notes, cpu, vm_running, thread>>

Clocks == {"vm", "rt"}
Timers == VmTimers \cup RtTimers
ClockOf(t) == IF t \in VmTimers THEN "vm" ELSE "rt"
Off == -1

Active(t) == t \in Elements(active_timers[ClockOf(t)])
Heads == {Head(active_timers[c]) : c \in {d \in Clocks : active_timers[d] # <<>>}}

\* qemu_next_deadline_dyntick: at least MIN_TIMER_REARM_US, here a tick.
Deadline ==
  CHOOSE d \in 1..MaxDelay + 1 :
    /\ \E t \in Heads : d = IF exp[t] < 1 THEN 1 ELSE exp[t]
    /\ \A t \in Heads : d <= IF exp[t] < 1 THEN 1 ELSE exp[t]

\* Where device models, timer callbacks and the monitor may call the timer
\* functions: inside a translation block, an I/O handler, a timer callback.
\* A visit makes a bounded number of calls.
Code == {"tb", "io", "cb_vm", "cb_rt"}
NoOp == [k |-> "none", t |-> "none", e |-> 0, left |-> 0]
Finished(o) == [NoOp EXCEPT !.left = o.left]
Idle == op.k = "none"
MayCall == pc \in Code /\ Idle /\ op.left > 0

-----------------------------------------------------------------------------
(***************************************************************************)
(* qemu_del_timer and qemu_mod_timer.                                      *)
(***************************************************************************)
Deleted(t) == [active_timers EXCEPT ![ClockOf(t)] = Without(@, t)]

\* Guest code reaches the timers of its devices only.
Reachable == IF pc = "tb" THEN VmTimers ELSE Timers

qemu_del_timer(t) ==
  /\ MayCall /\ t \in Reachable
  /\ active_timers' = Deleted(t)
  /\ due' = due \ {t}
  /\ op' = [op EXCEPT !.left = @ - 1]
  /\ UNCHANGED <<exp, host, notes, cpu, vm_running, pc>>

\* Assumed of callbacks: a timer they set to now is for later than the time the pass
\* began with, so run_timers leaves it to the next pass.
qemu_mod_timer(t, e) ==
  /\ MayCall /\ t \in Reachable
  /\ active_timers' = Deleted(t)
  /\ due' = due \ {t}
  /\ op' = [k |-> "insert", t |-> t, e |-> e, left |-> op.left - 1]
  /\ UNCHANGED <<exp, host, notes, cpu, vm_running, pc>>

\* How many timers of the list s are passed over to find the place of one that
\* expires at e: up to the first that expires later, or all of them.
Place(s, e) ==
  CHOOSE n \in 0 .. Len(s) :
    /\ \A i \in 1 .. n : exp[s[i]] <= e
    /\ n < Len(s) => exp[s[n + 1]] > e

InsertTimer ==
  /\ op.k = "insert"
  /\ LET c == ClockOf(op.t)
         s == active_timers[c]
         n == Place(s, op.e)
     IN /\ active_timers' = [active_timers EXCEPT ![c] = Inserted(s, n, op.t)]
        /\ op' = IF n = 0 THEN [op EXCEPT !.k = "check"] ELSE Finished(op)
  /\ exp' = [exp EXCEPT ![op.t] = op.e]
  /\ UNCHANGED <<host, notes, cpu, vm_running, pc, due>>

\* The timer is the first of its list: rearm, unless the main loop will.
CheckExpired ==
  /\ op.k = "check"
  /\ op' = IF expired THEN Finished(op) ELSE [op EXCEPT !.k = "rearm"]
  /\ UNCHANGED <<timers, host, notes, cpu, vm_running, pc, due>>

(***************************************************************************)
(* dynticks_rearm_timer: timer_gettime, then timer_settime.                *)
(***************************************************************************)
RearmGettime ==
  /\ op.k = "rearm"
  /\ op' = IF ~dynticks \/ Heads = {} \/ (alarm # Off /\ alarm <= Deadline)
           THEN Finished(op) ELSE [op EXCEPT !.k = "settime", !.e = Deadline]
  /\ UNCHANGED <<timers, host, notes, cpu, vm_running, pc, due>>

RearmSettime ==
  /\ op.k = "settime"
  /\ alarm' = op.e
  /\ op' = Finished(op)
  /\ UNCHANGED <<timers, signal, notes, cpu, vm_running, pc, due>>

-----------------------------------------------------------------------------
(***************************************************************************)
(* Time passes; the host's timer expires; the signal handler runs.         *)
(***************************************************************************)
Down(n) == IF n > 0 THEN n - 1 ELSE n

Stopped(t) == t \in VmTimers /\ ~vm_running

\* The two system calls of the rearming take less than a tick; a deadline that
\* qemu_mod_timer has been given comes nearer while it works.
Tick ==
  /\ op.k # "settime"
  /\ exp' = [t \in Timers |-> IF Stopped(t) THEN exp[t] ELSE Down(exp[t])]
  /\ op' = IF op.k = "insert" /\ ~Stopped(op.t) THEN [op EXCEPT !.e = Down(@)] ELSE op
  /\ IF dynticks
     THEN /\ alarm' = IF alarm = 1 THEN Off ELSE Down(alarm)
          /\ signal' = (signal \/ alarm = 1)
     ELSE signal' = TRUE /\ UNCHANGED alarm
  /\ UNCHANGED <<active_timers, notes, cpu, vm_running, pc, due>>

host_alarm_handler ==
  /\ signal /\ signal' = FALSE
  /\ IF dynticks \/ \E t \in Heads : exp[t] = 0
     THEN /\ expired' = TRUE /\ event' = TRUE /\ timer_alarm_pending' = TRUE
          /\ IF next_cpu
             THEN exit_request' = TRUE /\ current_tb' = FALSE
             ELSE UNCHANGED <<exit_request, current_tb>>
          /\ UNCHANGED <<next_cpu, halted>>
     ELSE UNCHANGED <<notes, cpu>>
  /\ UNCHANGED <<timers, alarm, vm_running, thread>>

-----------------------------------------------------------------------------
(***************************************************************************)
(* tcg_cpu_exec and the loop of cpu_exec.                                  *)
(***************************************************************************)
At(l) == pc = l /\ Idle
Enter(l) == pc' = l /\ op' = [op EXCEPT !.left = IF l \in Code THEN 1 ELSE 0]

tcg_cpu_exec ==
  /\ At("exec")
  /\ next_cpu' = TRUE
  /\ Enter("turn")
  /\ UNCHANGED <<timers, host, notes, exit_request, current_tb, halted, vm_running, due>>

CpuTurn ==
  /\ At("turn")
  /\ CASE timer_alarm_pending ->
            timer_alarm_pending' = FALSE /\ Enter("wait") /\ UNCHANGED next_cpu
       [] ~timer_alarm_pending /\ vm_running /\ ~halted ->
            Enter("top") /\ UNCHANGED <<timer_alarm_pending, next_cpu>>
       [] OTHER ->
            Enter("wait") /\ next_cpu' = FALSE /\ UNCHANGED timer_alarm_pending
  /\ UNCHANGED <<timers, host, expired, event, exit_request, current_tb, halted, vm_running, due>>

\* The top of the loop, where exit_request is looked at.
LoopTop ==
  /\ At("top")
  /\ IF exit_request THEN exit_request' = FALSE /\ next_cpu' = FALSE /\ Enter("wait")
                     ELSE Enter("found") /\ UNCHANGED <<exit_request, next_cpu>>
  /\ UNCHANGED <<timers, host, notes, current_tb, halted, vm_running, due>>

\* The block is found, chained and becomes current_tb.
TbFound ==
  /\ At("found")
  /\ current_tb' = TRUE
  /\ Enter("recheck")
  /\ UNCHANGED <<timers, host, notes, next_cpu, exit_request, halted, vm_running, due>>

\* Mutant: exit_request is not looked at again.
RecheckSkipped ==
  /\ At("recheck")
  /\ Enter("while")
  /\ UNCHANGED <<timers, host, notes, cpu, vm_running, due>>

TbRecheck ==
  /\ At("recheck")
  /\ current_tb' = (current_tb /\ ~exit_request)
  /\ Enter("while")
  /\ UNCHANGED <<timers, host, notes, next_cpu, exit_request, halted, vm_running, due>>

TbWhile ==
  /\ At("while")
  /\ IF current_tb THEN Enter("tb") ELSE Enter("top")
  /\ UNCHANGED <<timers, host, notes, cpu, vm_running, due>>

\* A chain of blocks goes round for as long as it is not unlinked.
TbChained ==
  /\ At("tb") /\ current_tb /\ Enter("tb")
  /\ UNCHANGED <<timers, host, notes, cpu, vm_running, due>>

TbReturns ==
  /\ At("tb")
  /\ current_tb' = FALSE
  /\ Enter("top")
  /\ UNCHANGED <<timers, host, notes, next_cpu, exit_request, halted, vm_running, due>>

\* The guest waits for an interrupt: cpu_exec returns EXCP_HLT.
TbHalts ==
  /\ At("tb")
  /\ current_tb' = FALSE /\ halted' = TRUE /\ next_cpu' = FALSE
  /\ Enter("wait")
  /\ UNCHANGED <<timers, host, notes, exit_request, vm_running, due>>

-----------------------------------------------------------------------------
(***************************************************************************)
(* main_loop_wait.                                                         *)
(***************************************************************************)

\* select returns: at once if there is work for the CPU, by the notification
\* pipe, which is drained, or because a descriptor is ready.
HasWork == vm_running /\ ~halted

Select ==
  /\ At("wait") /\ (HasWork \/ event)
  /\ event' = FALSE
  /\ Enter("flags")
  /\ UNCHANGED <<timers, host, expired, timer_alarm_pending, cpu, vm_running, due>>

SelectIo ==
  /\ At("wait")
  /\ event' = FALSE
  /\ Enter("io")
  /\ UNCHANGED <<timers, host, expired, timer_alarm_pending, cpu, vm_running, due>>

IoReturns ==
  /\ At("io")
  /\ Enter("flags")
  /\ UNCHANGED <<timers, host, notes, cpu, vm_running, due>>

\* Mutant: a flag set while the timer was being set is cleared too.
AfterFlagsClears ==
  /\ At("rearmed")
  /\ expired' = FALSE
  /\ Enter("start_vm")
  /\ UNCHANGED <<timers, host, event, timer_alarm_pending, cpu, vm_running, due>>

Flags ==
  /\ At("flags")
  /\ pc' = "rearmed"
  /\ expired' = FALSE
  /\ op' = [op EXCEPT !.k = IF expired THEN "rearm" ELSE "none"]
  /\ UNCHANGED <<timers, host, event, timer_alarm_pending, cpu, vm_running, due>>

AfterFlags ==
  /\ At("rearmed")
  /\ Enter("start_vm")
  /\ UNCHANGED <<timers, host, notes, cpu, vm_running, due>>

RunOf(c) == IF c = "vm" THEN "run_vm" ELSE "run_rt"
CbOf(c) == IF c = "vm" THEN "cb_vm" ELSE "cb_rt"
StartOf(c) == IF c = "vm" THEN "start_vm" ELSE "start_rt"
Then(c) == IF c = "vm" THEN "start_rt" ELSE "exec"

\* qemu_run_timers is called with the time of its clock.
StartTimers(c) ==
  /\ At(StartOf(c))
  /\ IF c = "vm" /\ ~vm_running THEN Enter(Then(c)) /\ UNCHANGED due
     ELSE /\ due' = {t \in Timers : ClockOf(t) = c /\ exp[t] = 0 /\ Active(t)}
          /\ Enter(RunOf(c))
  /\ UNCHANGED <<timers, host, notes, cpu, vm_running>>

qemu_run_timers(c) ==
  /\ At(RunOf(c))
  /\ IF active_timers[c] # <<>> /\ Head(active_timers[c]) \in due
     THEN /\ active_timers' = [active_timers EXCEPT ![c] = Tail(@)]
          /\ due' = due \ {Head(active_timers[c])}
          /\ Enter(CbOf(c))
     ELSE Enter(Then(c)) /\ due' = {} /\ UNCHANGED active_timers
  /\ UNCHANGED <<exp, host, notes, cpu, vm_running>>

\* A callback returns, perhaps having raised an interrupt.
CallbackReturns(c) ==
  /\ At(CbOf(c))
  /\ halted' \in {halted, FALSE}
  /\ Enter(RunOf(c))
  /\ UNCHANGED <<timers, host, notes, next_cpu, exit_request, current_tb, vm_running, due>>

\* The monitor stops and continues the VM.
vm_stop ==
  /\ MayCall /\ pc \in {"io", "cb_rt"} /\ vm_running
  /\ vm_running' = FALSE
  /\ op' = [op EXCEPT !.left = @ - 1]
  /\ UNCHANGED <<timers, host, notes, cpu, pc, due>>

vm_start ==
  /\ MayCall /\ pc \in {"io", "cb_rt"} /\ ~vm_running
  /\ vm_running' = TRUE
  /\ op' = [op EXCEPT !.k = "rearm", !.left = @ - 1]
  /\ UNCHANGED <<timers, host, notes, cpu, pc, due>>

-----------------------------------------------------------------------------
Init ==
  /\ dynticks \in BOOLEAN
  /\ active_timers = [c \in Clocks |-> <<>>]
  /\ exp = [t \in Timers |-> 0]
  /\ alarm = Off /\ signal = FALSE
  /\ expired = FALSE /\ event = FALSE /\ timer_alarm_pending = TRUE
  /\ next_cpu = FALSE /\ exit_request = FALSE /\ current_tb = FALSE /\ halted = FALSE
  /\ vm_running = TRUE
  /\ pc = "exec" /\ op = NoOp /\ due = {}

\* What the thread does next; guest code, select and calls of the timer
\* functions apart.
Step ==
  \/ InsertTimer \/ CheckExpired \/ RearmGettime \/ RearmSettime
  \/ tcg_cpu_exec \/ CpuTurn \/ LoopTop \/ TbFound \/ TbRecheck \/ TbWhile
  \/ (~current_tb /\ TbReturns)
  \/ Select \/ IoReturns \/ Flags \/ AfterFlags
  \/ \E c \in Clocks : StartTimers(c) \/ qemu_run_timers(c) \/ CallbackReturns(c)

Calls ==
  \/ \E t \in Timers : qemu_del_timer(t)
  \/ \E t \in Timers, e \in 0..MaxDelay : qemu_mod_timer(t, e)
  \/ vm_stop \/ vm_start

Next ==
  \/ Step \/ Calls \/ SelectIo
  \/ TbChained \/ (current_tb /\ TbReturns) \/ TbHalts
  \/ Tick \/ host_alarm_handler

Spec == Init /\ [][Next /\ UNCHANGED dynticks]_<<vars, dynticks>>

\* The host keeps time, delivers its signals and runs the thread; nothing is
\* assumed of the guest, which may loop for ever, nor of other descriptors.
FairSpec == Spec /\ WF_vars(Step) /\ WF_vars(Tick) /\ WF_vars(host_alarm_handler)

-----------------------------------------------------------------------------
(***************************************************************************)
(* Properties.                                                             *)
(***************************************************************************)

\* Types; every timer is on the list of its clock at most once.
TypeOK ==
  /\ \A c \in Clocks :
       /\ active_timers[c] \in Seq({t \in Timers : ClockOf(t) = c})
       /\ NoRepeat(active_timers[c])
  /\ exp \in [Timers -> 0..MaxDelay]
  /\ alarm \in {Off} \cup 1..MaxDelay
  /\ due \subseteq Timers

\* Lists stay sorted as timers are added from interrupted and nested code and
\* as time passes for some clocks and not for others.
Sorted ==
  \A c \in Clocks : \A i, j \in DOMAIN active_timers[c] :
    i < j => exp[active_timers[c][i]] <= exp[active_timers[c][j]]

\* The alarm is not forgotten: whenever a timer is active, the host timer is
\* set for it, or its signal is on the way, or the thread has yet to see the
\* flag by which it will set it (or is setting it).
AlarmKept ==
  dynticks /\ Heads # {} /\ op.k = "none" =>
    expired \/ signal \/ (alarm # Off /\ alarm <= Deadline)

\* The thread does not sleep over an expired timer: unless a signal is
\* pending or due, the flag comes with a byte in the pipe.
NoSleepOverFlag ==
  pc = "wait" /\ expired /\ ~HasWork => event

\* A due timer fires, is deleted or is set anew, or the VM stops: whatever
\* the guest does.
TimersFire ==
  \A t \in Timers :
    (Active(t) /\ exp[t] = 0 /\ (t \in RtTimers \/ vm_running))
      ~> (~Active(t) \/ exp[t] > 0 \/ (t \in VmTimers /\ ~vm_running))

\* No alarm is forgotten: the lists are sorted, the host timer or a flag stands
\* for the first timer, and the thread does not sleep over a flag
\* (qemu_mod_timer, host_alarm_handler, qemu_run_timers).
NothingForgotten == TypeOK /\ Sorted /\ AlarmKept /\ NoSleepOverFlag
=============================================================================
