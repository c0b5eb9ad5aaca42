---------------------------- MODULE TimerProofs ----------------------------
(***************************************************************************)
(* Theorems about the timers.  No alarm of the main loop is forgotten, for *)
(* any number of timers and any delay: the timer lists stay sorted, and    *)
(* the host's timer, its signal or the flag stands for the first timers of *)
(* the lists (MainLoop).  The countdown timers show their count and do not *)
(* drift (Ptimer).                                                         *)
(***************************************************************************)
EXTENDS MainLoop, Ptimer, ListProofs, FiniteSetTheorems, WellFoundedInduction,
        SequenceTheorems, TLAPS

Kinds == {"none", "insert", "check", "rearm", "settime"}
Ops == [k : Kinds, t : Timers \cup {"none"}, e : 0 .. MaxDelay, left : {0, 1}]
OnClock(c) == {t \in Timers : ClockOf(t) = c}

\* At least a tick: what the host's timer is set to for a timer due in n ticks.
AtLeast1(n) == IF n < 1 THEN 1 ELSE n

\* The lists, the due times, the alarm and the call in progress have their
\* types; a timer that is being set is on no list.
ListsTyped ==
  /\ active_timers \in [Clocks -> Seq(Timers)]
  /\ \A c \in Clocks : active_timers[c] \in Seq(OnClock(c)) /\ NoRepeat(active_timers[c])
OpTyped ==
  /\ op \in Ops
  /\ op.k = "insert" => op.t \in Timers /\ op.t \notin Elements(active_timers[ClockOf(op.t)])
Typed ==
  /\ exp \in [Timers -> 0 .. MaxDelay]
  /\ alarm \in {Off} \cup 1 .. MaxDelay
  /\ due \subseteq Timers

ListsSorted == \A c \in Clocks : InOrder(active_timers[c], exp)

\* The first timers of the lists al, of which x tells the due times, are no
\* earlier than n ticks from now.
NoEarlier(al, x, n) ==
  \A c \in Clocks : al[c] # <<>> => n <= AtLeast1(x[al[c][1]])

\* The host's timer is set for the first timers.
Set == alarm # Off /\ NoEarlier(active_timers, exp, alarm)

\* While qemu_mod_timer takes a timer off its list and looks for its new
\* place, what stood for the others stands for them still; from the moment a
\* timer is first until timer_settime only the call in progress does.
Covered ==
  /\ dynticks /\ op.k \in {"none", "insert"} /\ (\E c \in Clocks : active_timers[c] # <<>>) =>
       expired \/ signal \/ Set
  /\ op.k = "settime" => op.e >= 1 /\ NoEarlier(active_timers, exp, op.e)

\* The flag comes with a byte in the pipe until the thread reaches the place
\* where it looks at the flag.
FlagSeen == expired => event \/ pc \in {"io", "flags"}

LoopInv == ListsTyped /\ OpTyped /\ Typed /\ ListsSorted /\ Covered /\ FlagSeen

-----------------------------------------------------------------------------
LEMMA MaxDelayType == MaxDelay \in Nat /\ MaxDelay >= 1
BY MainLoopAssumption

LEMMA OnClockInt ==
  ASSUME NEW c, NEW x \in [Timers -> 0 .. MaxDelay]
  PROVE  /\ OnClock(c) \subseteq Timers
         /\ \A b \in OnClock(c) : x[b] \in Int /\ x[b] \in 0 .. MaxDelay
BY MaxDelayType DEF OnClock

\* What the fields of the call in progress are.
LEMMA OpFields ==
  ASSUME NEW o \in Ops
  PROVE  /\ o.k \in Kinds /\ o.t \in Timers \cup {"none"} /\ o.e \in 0 .. MaxDelay
         /\ o.left \in {0, 1}
         /\ \A l \in {0, 1} : [o EXCEPT !.left = l] \in Ops /\ [o EXCEPT !.left = l].k = o.k
         /\ \A k \in Kinds : [o EXCEPT !.k = k] \in Ops /\ [o EXCEPT !.k = k].k = k
         /\ \A e \in 0 .. MaxDelay : /\ [o EXCEPT !.e = e] \in Ops
                                     /\ [o EXCEPT !.e = e].k = o.k /\ [o EXCEPT !.e = e].t = o.t
         /\ Finished(o) \in Ops /\ Finished(o).k = "none"
<1>1. /\ o.k \in Kinds /\ o.t \in Timers \cup {"none"} /\ o.e \in 0 .. MaxDelay
      /\ o.left \in {0, 1}
  BY DEF Ops
<1>2. \A l \in {0, 1} : [o EXCEPT !.left = l] \in Ops /\ [o EXCEPT !.left = l].k = o.k
  BY DEF Ops
<1>3. \A k \in Kinds : [o EXCEPT !.k = k] \in Ops /\ [o EXCEPT !.k = k].k = k
  BY DEF Ops
<1>4. \A e \in 0 .. MaxDelay : /\ [o EXCEPT !.e = e] \in Ops
                               /\ [o EXCEPT !.e = e].k = o.k /\ [o EXCEPT !.e = e].t = o.t
  BY DEF Ops
<1>5. Finished(o) \in Ops /\ Finished(o).k = "none"
  <2>1. "none" \in Kinds /\ 0 \in 0 .. MaxDelay
    BY MaxDelayType DEF Kinds
  <2>2. QED BY <2>1, <1>1 DEF Ops, Finished, NoOp
<1>6. QED BY <1>1, <1>2, <1>3, <1>4, <1>5

\* Steps that touch neither the lists, nor the alarm, nor the flag.
LEMMA Quiet ==
  ASSUME LoopInv, dynticks' = dynticks,
         active_timers' = active_timers, exp' = exp, alarm' = alarm, signal' = signal,
         expired' = expired, due' \subseteq Timers,
         op.k = "none", op' \in Ops, op'.k = "none",
         FlagSeen'
  PROVE  LoopInv'
<1>1. ListsTyped' /\ Typed' /\ ListsSorted'
  BY DEF LoopInv, ListsTyped, Typed, ListsSorted
<1>2. OpTyped'
  BY DEF OpTyped
<1>3. Set' <=> Set
  BY DEF Set, NoEarlier
<1>4. Covered'
  BY <1>3 DEF LoopInv, Covered
<1>5. QED BY <1>1, <1>2, <1>4 DEF LoopInv

LEMMA Entered ==
  ASSUME LoopInv, NEW l, Enter(l), op.k = "none"
  PROVE  op' \in Ops /\ op'.k = "none" /\ pc' = l
<1>1. op \in Ops
  BY DEF LoopInv, OpTyped
<1>2. QED BY <1>1, OpFields DEF Enter

\* qemu_mod_timer and run_timers take a timer off a list: the list stays
\* sorted, and the first timer is no earlier than it was.
LEMMA TakenOff ==
  ASSUME LoopInv, NEW c \in Clocks, NEW t \in Seq(OnClock(c)), NoRepeat(t),
         Sublist(t, active_timers[c]),
         active_timers' = [active_timers EXCEPT ![c] = t],
         exp' = exp, alarm' = alarm
  PROVE  /\ ListsTyped' /\ ListsSorted'
         /\ (\E d \in Clocks : active_timers'[d] # <<>>) => \E d \in Clocks : active_timers[d] # <<>>
         /\ Set => Set'
<1> DEFINE s == active_timers[c]
<1>1. /\ active_timers \in [Clocks -> Seq(Timers)] /\ exp \in [Timers -> 0 .. MaxDelay]
      /\ \A d \in Clocks : active_timers[d] \in Seq(OnClock(d)) /\ NoRepeat(active_timers[d])
      /\ \A d \in Clocks : InOrder(active_timers[d], exp)
  BY DEF LoopInv, ListsTyped, Typed, ListsSorted
<1>2. \A d : OnClock(d) \subseteq Timers /\ \A b \in OnClock(d) : exp[b] \in Int
  BY OnClockInt, <1>1
<1>3. InOrder(t, exp) /\ (t # <<>> => s # <<>> /\ exp[s[1]] <= exp[t[1]])
  BY <1>1, <1>2, SublistInOrder
<1>4. t \in Seq(Timers)
  <2>1. \A S, T : S \subseteq T => Seq(S) \subseteq Seq(T)
    OBVIOUS
  <2>2. QED BY <1>2, <2>1
<1>5. /\ active_timers' \in [Clocks -> Seq(Timers)] /\ active_timers'[c] = t
      /\ \A d \in Clocks : d # c => active_timers'[d] = active_timers[d]
  BY <1>1, <1>4
<1>6. ListsTyped' /\ ListsSorted'
  BY <1>1, <1>3, <1>5 DEF ListsTyped, ListsSorted
<1>7. ASSUME NEW d \in Clocks, active_timers'[d] # <<>>
      PROVE  /\ active_timers[d] # <<>>
             /\ exp[active_timers[d][1]] <= exp[active_timers'[d][1]]
             /\ exp[active_timers[d][1]] \in Int /\ exp[active_timers'[d][1]] \in Int
  <2>1. active_timers'[d] \in Seq(OnClock(d)) /\ active_timers[d] \in Seq(OnClock(d))
    BY <1>1, <1>5
  <2>2. active_timers[d] # <<>>
    BY <1>3, <1>5, <1>7
  <2>3. active_timers[d][1] \in OnClock(d) /\ active_timers'[d][1] \in OnClock(d)
    <3>1. \A r \in Seq(OnClock(d)) : r # <<>> => r[1] \in OnClock(d)
      BY ListType
    <3>2. QED BY <2>1, <2>2, <3>1, <1>7
  <2>4. QED BY <2>2, <2>3, <1>2, <1>3, <1>5, <1>7
<1>8. ASSUME Set PROVE Set'
  <2>1. alarm \in Int
    BY MaxDelayType DEF LoopInv, Typed, Off
  <2>2. ASSUME NEW d \in Clocks, active_timers'[d] # <<>>
        PROVE  alarm <= AtLeast1(exp[active_timers'[d][1]])
    BY <2>1, <2>2, <1>7, <1>8 DEF Set, NoEarlier, AtLeast1
  <2>3. QED BY <2>2, <1>8 DEF Set, NoEarlier
<1>9. QED BY <1>6, <1>7, <1>8

-----------------------------------------------------------------------------
(***************************************************************************)
(* The steps of the loop that only move on.                                *)
(***************************************************************************)

\* A step from a place where the flag is not looked at, with the pipe kept.
LEMMA Onward ==
  ASSUME LoopInv, dynticks' = dynticks,
         active_timers' = active_timers, exp' = exp, alarm' = alarm, signal' = signal,
         expired' = expired, event' = event, due' \subseteq Timers,
         op.k = "none", NEW l, Enter(l), pc \notin {"io", "flags"} \/ l = "flags"
  PROVE  LoopInv'
<1>1. op' \in Ops /\ op'.k = "none" /\ pc' = l
  BY Entered
<1>2. expired => event \/ pc \in {"io", "flags"}
  BY DEF LoopInv, FlagSeen
<1>3. FlagSeen'
  BY <1>1, <1>2, Zenon DEF FlagSeen
<1>4. QED BY <1>1, <1>3, Quiet

LEMMA CpuSteps ==
  ASSUME LoopInv, dynticks' = dynticks,
         \/ tcg_cpu_exec \/ CpuTurn \/ LoopTop \/ TbFound \/ TbRecheck \/ TbWhile
         \/ TbReturns \/ TbChained \/ TbHalts
  PROVE  LoopInv'
<1>1. due \subseteq Timers
  BY DEF LoopInv, Typed
<1> USE <1>1
<1>2. CASE tcg_cpu_exec
  BY <1>2, Onward DEF tcg_cpu_exec, At, Idle, timers, host, notes
<1>3. CASE CpuTurn
  <2>1. pc = "turn" /\ op.k = "none"
    BY <1>3 DEF CpuTurn, At, Idle
  <2>2. Enter("wait") \/ Enter("top")
    BY <1>3 DEF CpuTurn
  <2>3. /\ active_timers' = active_timers /\ exp' = exp /\ alarm' = alarm /\ signal' = signal
        /\ expired' = expired /\ event' = event /\ due' = due
    BY <1>3 DEF CpuTurn, timers, host
  <2>4. QED BY <2>1, <2>2, <2>3, Onward
<1>4. CASE LoopTop
  <2>1. pc = "top" /\ op.k = "none"
    BY <1>4 DEF LoopTop, At, Idle
  <2>2. Enter("wait") \/ Enter("found")
    BY <1>4 DEF LoopTop
  <2>3. /\ active_timers' = active_timers /\ exp' = exp /\ alarm' = alarm /\ signal' = signal
        /\ expired' = expired /\ event' = event /\ due' = due
    BY <1>4 DEF LoopTop, timers, host, notes
  <2>4. QED BY <2>1, <2>2, <2>3, Onward
<1>5. CASE TbFound
  BY <1>5, Onward DEF TbFound, At, Idle, timers, host, notes
<1>6. CASE TbRecheck
  BY <1>6, Onward DEF TbRecheck, At, Idle, timers, host, notes
<1>7. CASE TbWhile
  <2>1. pc = "while" /\ op.k = "none"
    BY <1>7 DEF TbWhile, At, Idle
  <2>2. Enter("tb") \/ Enter("top")
    BY <1>7 DEF TbWhile
  <2>3. /\ active_timers' = active_timers /\ exp' = exp /\ alarm' = alarm /\ signal' = signal
        /\ expired' = expired /\ event' = event /\ due' = due
    BY <1>7 DEF TbWhile, timers, host, notes
  <2>4. QED BY <2>1, <2>2, <2>3, Onward
<1>8. CASE TbReturns
  BY <1>8, Onward DEF TbReturns, At, Idle, timers, host, notes
<1>9. CASE TbChained
  BY <1>9, Onward DEF TbChained, At, Idle, timers, host, notes
<1>10. CASE TbHalts
  BY <1>10, Onward DEF TbHalts, At, Idle, timers, host, notes
<1>11. QED BY <1>2, <1>3, <1>4, <1>5, <1>6, <1>7, <1>8, <1>9, <1>10

LEMMA WaitSteps ==
  ASSUME LoopInv, dynticks' = dynticks,
         \/ Select \/ SelectIo \/ IoReturns \/ AfterFlags \/ vm_stop
         \/ \E c \in Clocks : StartTimers(c) \/ CallbackReturns(c)
  PROVE  LoopInv'
<1>1. due \subseteq Timers
  BY DEF LoopInv, Typed
<1>2. CASE Select \/ SelectIo
  <2>1. op.k = "none" /\ (Enter("flags") \/ Enter("io"))
    BY <1>2 DEF Select, SelectIo, At, Idle
  <2>2. op' \in Ops /\ op'.k = "none" /\ pc' \in {"io", "flags"}
    BY <2>1, Entered
  <2>3. FlagSeen'
    BY <2>2 DEF FlagSeen
  <2>4. /\ active_timers' = active_timers /\ exp' = exp /\ alarm' = alarm /\ signal' = signal
        /\ expired' = expired /\ due' = due
    BY <1>2 DEF Select, SelectIo, timers, host
  <2>5. QED BY <2>1, <2>2, <2>3, <2>4, <1>1, Quiet
<1>3. CASE IoReturns
  BY <1>1, <1>3, Onward DEF IoReturns, At, Idle, timers, host, notes
<1>4. CASE AfterFlags
  BY <1>1, <1>4, Onward DEF AfterFlags, At, Idle, timers, host, notes
<1>5. CASE vm_stop
  <2>1. op.k = "none" /\ op' = [op EXCEPT !.left = @ - 1] /\ op.left > 0
    BY <1>5 DEF vm_stop, MayCall, Idle
  <2>2. op \in Ops
    BY DEF LoopInv, OpTyped
  <2>3. op.left \in {0, 1}
    BY <2>2, OpFields
  <2>4. op.left - 1 \in {0, 1}
    BY <2>1, <2>3
  <2>5. op' \in Ops /\ op'.k = "none"
    BY <2>1, <2>2, <2>4, OpFields
  <2>6. /\ active_timers' = active_timers /\ exp' = exp /\ alarm' = alarm /\ signal' = signal
        /\ expired' = expired /\ event' = event /\ pc' = pc /\ due' = due
    BY <1>5 DEF vm_stop, timers, host, notes
  <2>7. FlagSeen'
    BY <2>6 DEF FlagSeen, LoopInv
  <2>8. QED BY <2>1, <2>5, <2>6, <2>7, <1>1, Quiet
<1>6. ASSUME NEW c \in Clocks, StartTimers(c)
      PROVE  LoopInv'
  <2>1. op.k = "none" /\ pc \notin {"io", "flags"}
    BY <1>6 DEF StartTimers, At, Idle, StartOf
  <2>2. \E l : Enter(l)
    BY <1>6 DEF StartTimers
  <2>3. /\ active_timers' = active_timers /\ exp' = exp /\ alarm' = alarm /\ signal' = signal
        /\ expired' = expired /\ event' = event
    BY <1>6 DEF StartTimers, timers, host, notes
  <2>4. due' \subseteq Timers
    BY <1>1, <1>6 DEF StartTimers
  <2>5. QED BY <2>1, <2>2, <2>3, <2>4, Onward
<1>7. ASSUME NEW c \in Clocks, CallbackReturns(c)
      PROVE  LoopInv'
  <2>1. op.k = "none" /\ pc \notin {"io", "flags"} /\ Enter(RunOf(c))
    BY <1>7 DEF CallbackReturns, At, Idle, CbOf
  <2>2. /\ active_timers' = active_timers /\ exp' = exp /\ alarm' = alarm /\ signal' = signal
        /\ expired' = expired /\ event' = event /\ due' = due
    BY <1>7 DEF CallbackReturns, timers, host, notes
  <2>3. QED BY <2>1, <2>2, <1>1, Onward
<1>8. QED BY <1>2, <1>3, <1>4, <1>5, <1>6, <1>7

-----------------------------------------------------------------------------
(***************************************************************************)
(* Timers are taken off their lists.                                       *)
(***************************************************************************)

\* What stood for the timers left on the lists stands for them still.
LEMMA CoveredStill ==
  ASSUME LoopInv, dynticks' = dynticks, signal' = signal, expired' = expired,
         op.k \in {"none", "insert"}, op'.k \in {"none", "insert"},
         (\E d \in Clocks : active_timers'[d] # <<>>) => \E d \in Clocks : active_timers[d] # <<>>,
         Set => Set'
  PROVE  Covered'
<1>1. op'.k # "settime"
  OBVIOUS
<1>2. ASSUME dynticks', \E d \in Clocks : active_timers'[d] # <<>>
      PROVE  expired' \/ signal' \/ Set'
  <2>1. dynticks /\ \E d \in Clocks : active_timers[d] # <<>>
    BY <1>2
  <2>2. expired \/ signal \/ Set
    BY <2>1 DEF LoopInv, Covered
  <2>3. QED BY <2>2
<1>3. QED BY <1>1, <1>2 DEF Covered

LEMMA ClockOfType == \A t \in Timers : ClockOf(t) \in Clocks /\ t \in OnClock(ClockOf(t))
BY DEF ClockOf, Clocks, OnClock

LEMMA TimerDeleted ==
  ASSUME LoopInv, NEW t \in Timers, active_timers' = Deleted(t), exp' = exp, alarm' = alarm
  PROVE  /\ ListsTyped' /\ ListsSorted'
         /\ (\E d \in Clocks : active_timers'[d] # <<>>) => \E d \in Clocks : active_timers[d] # <<>>
         /\ Set => Set'
         /\ t \notin Elements(active_timers'[ClockOf(t)])
<1> DEFINE c == ClockOf(t)
           s == active_timers[c]
           r == Without(s, t)
<1>1. c \in Clocks
  BY ClockOfType
<1>2. active_timers \in [Clocks -> Seq(Timers)] /\ s \in Seq(OnClock(c)) /\ NoRepeat(s)
  BY <1>1 DEF LoopInv, ListsTyped
<1>3. active_timers' = [active_timers EXCEPT ![c] = r]
  BY DEF Deleted
<1> HIDE DEF c
<1>4. r \in Seq(OnClock(c)) /\ NoRepeat(r) /\ Elements(r) = Elements(s) \ {t}
  BY <1>2, Removed
<1>5. Sublist(r, s)
  BY <1>2, WithoutIsSublist
<1>6. active_timers'[c] = r
  BY <1>1, <1>2, <1>3
<1> HIDE DEF r
<1>7. /\ ListsTyped' /\ ListsSorted'
      /\ (\E d \in Clocks : active_timers'[d] # <<>>) => \E d \in Clocks : active_timers[d] # <<>>
      /\ Set => Set'
  BY <1>1, <1>3, <1>4, <1>5, TakenOff
<1>8. QED BY <1>4, <1>6, <1>7 DEF c

LEMMA DelTimer ==
  ASSUME LoopInv, dynticks' = dynticks, NEW t \in Timers, qemu_del_timer(t)
  PROVE  LoopInv'
<1>1. /\ op.k = "none" /\ op' = [op EXCEPT !.left = @ - 1] /\ op.left > 0
      /\ active_timers' = Deleted(t) /\ exp' = exp /\ alarm' = alarm /\ signal' = signal
      /\ expired' = expired /\ event' = event /\ pc' = pc /\ due' = due \ {t}
  BY DEF qemu_del_timer, MayCall, Idle, host, notes
<1>2. /\ ListsTyped' /\ ListsSorted'
      /\ (\E d \in Clocks : active_timers'[d] # <<>>) => \E d \in Clocks : active_timers[d] # <<>>
      /\ Set => Set'
  BY <1>1, TimerDeleted
<1>3. op' \in Ops /\ op'.k = "none"
  <2>1. op \in Ops
    BY DEF LoopInv, OpTyped
  <2>2. op.left \in {0, 1}
    BY <2>1, OpFields
  <2>3. op.left - 1 \in {0, 1}
    BY <2>2, <1>1
  <2>4. QED BY <2>1, <2>3, <1>1, OpFields
<1>4. OpTyped'
  BY <1>3 DEF OpTyped
<1>5. Covered'
  BY <1>1, <1>2, <1>3, CoveredStill
<1>6. Typed' /\ FlagSeen'
  BY <1>1 DEF LoopInv, Typed, FlagSeen
<1>7. QED BY <1>2, <1>4, <1>5, <1>6 DEF LoopInv

LEMMA ModTimer ==
  ASSUME LoopInv, dynticks' = dynticks, NEW t \in Timers, NEW e \in 0 .. MaxDelay,
         qemu_mod_timer(t, e)
  PROVE  LoopInv'
<1>1. /\ op.k = "none" /\ op' = [k |-> "insert", t |-> t, e |-> e, left |-> op.left - 1] /\ op.left > 0
      /\ active_timers' = Deleted(t) /\ exp' = exp /\ alarm' = alarm /\ signal' = signal
      /\ expired' = expired /\ event' = event /\ pc' = pc /\ due' = due \ {t}
  BY DEF qemu_mod_timer, MayCall, Idle, host, notes
<1>2. /\ ListsTyped' /\ ListsSorted'
      /\ (\E d \in Clocks : active_timers'[d] # <<>>) => \E d \in Clocks : active_timers[d] # <<>>
      /\ Set => Set'
      /\ t \notin Elements(active_timers'[ClockOf(t)])
  BY <1>1, TimerDeleted
<1>3. op' \in Ops /\ op'.k = "insert" /\ op'.t = t
  <2>1. op \in Ops
    BY DEF LoopInv, OpTyped
  <2>2. op.left \in {0, 1}
    BY <2>1, OpFields
  <2>3. op.left - 1 \in {0, 1} /\ "insert" \in Kinds
    BY <2>2, <1>1 DEF Kinds
  <2>4. QED BY <2>3, <1>1 DEF Ops
<1>4. OpTyped'
  BY <1>2, <1>3 DEF OpTyped
<1>5. Covered'
  BY <1>1, <1>2, <1>3, CoveredStill
<1>6. Typed' /\ FlagSeen'
  BY <1>1 DEF LoopInv, Typed, FlagSeen
<1>7. QED BY <1>2, <1>4, <1>5, <1>6 DEF LoopInv

LEMMA RunTimers ==
  ASSUME LoopInv, dynticks' = dynticks, NEW c \in Clocks, qemu_run_timers(c)
  PROVE  LoopInv'
<1>1. /\ op.k = "none" /\ pc \notin {"io", "flags"}
      /\ exp' = exp /\ alarm' = alarm /\ signal' = signal
      /\ expired' = expired /\ event' = event
  BY DEF qemu_run_timers, At, Idle, RunOf, host, notes
<1>2. due \subseteq Timers
  BY DEF LoopInv, Typed
<1>3. CASE ~(active_timers[c] # <<>> /\ Head(active_timers[c]) \in due)
  <2>1. Enter(Then(c)) /\ due' = {} /\ active_timers' = active_timers
    BY <1>3 DEF qemu_run_timers
  <2>2. QED BY <2>1, <1>1, Onward
<1>4. CASE active_timers[c] # <<>> /\ Head(active_timers[c]) \in due
  <2> DEFINE s == active_timers[c]
             r == Tail(s)
  <2>1. /\ active_timers' = [active_timers EXCEPT ![c] = r] /\ due' = due \ {Head(s)}
        /\ Enter(CbOf(c))
    BY <1>4 DEF qemu_run_timers
  <2>2. s \in Seq(OnClock(c)) /\ NoRepeat(s)
    BY DEF LoopInv, ListsTyped
  <2>3. r \in Seq(OnClock(c)) /\ NoRepeat(r)
    BY <2>2, <1>4, Tails
  <2>4. Sublist(r, s)
    BY <2>2, <1>4, TailIsSublist
  <2> HIDE DEF r
  <2>5. /\ ListsTyped' /\ ListsSorted'
        /\ (\E d \in Clocks : active_timers'[d] # <<>>) => \E d \in Clocks : active_timers[d] # <<>>
        /\ Set => Set'
    BY <2>1, <2>3, <2>4, <1>1, TakenOff
  <2>6. op' \in Ops /\ op'.k = "none"
    BY <2>1, <1>1, Entered
  <2>7. OpTyped'
    BY <2>6 DEF OpTyped
  <2>8. Covered'
    BY <2>5, <2>6, <1>1, CoveredStill
  <2>9. FlagSeen'
    <3>1. expired => event
      BY <1>1 DEF LoopInv, FlagSeen
    <3>2. QED BY <3>1, <1>1, Zenon DEF FlagSeen
  <2>10. Typed'
    BY <2>1, <1>1 DEF LoopInv, Typed
  <2>11. QED BY <2>5, <2>7, <2>8, <2>9, <2>10 DEF LoopInv
<1>5. QED BY <1>3, <1>4

-----------------------------------------------------------------------------
(***************************************************************************)
(* A timer takes its place; the host's timer is set.                       *)
(***************************************************************************)
LEMMA InsertKeeps ==
  ASSUME LoopInv, dynticks' = dynticks, InsertTimer
  PROVE  LoopInv'
<1> DEFINE t == op.t
           e == op.e
           c == ClockOf(t)
           s == active_timers[c]
           n == Place(s, e)
           r == Inserted(s, n, t)
<1>1. op.k = "insert" /\ op \in Ops /\ t \in Timers /\ t \notin Elements(s)
  BY DEF LoopInv, OpTyped, InsertTimer
<1>2. e \in 0 .. MaxDelay /\ e \in Int
  <2>1. op.e \in 0 .. MaxDelay
    BY <1>1, OpFields
  <2>2. QED BY <2>1, MaxDelayType
<1>3. c \in Clocks /\ t \in OnClock(c)
  BY <1>1, ClockOfType
<1>4. /\ active_timers \in [Clocks -> Seq(Timers)] /\ exp \in [Timers -> 0 .. MaxDelay]
      /\ \A d \in Clocks : active_timers[d] \in Seq(OnClock(d)) /\ NoRepeat(active_timers[d])
      /\ \A d \in Clocks : InOrder(active_timers[d], exp)
  BY DEF LoopInv, ListsTyped, Typed, ListsSorted
<1>5. \A d : OnClock(d) \subseteq Timers /\ \A b \in OnClock(d) : exp[b] \in Int
  BY OnClockInt, <1>4
<1>6. /\ active_timers' = [active_timers EXCEPT ![c] = r]
      /\ op' = IF n = 0 THEN [op EXCEPT !.k = "check"] ELSE Finished(op)
      /\ exp' = [exp EXCEPT ![t] = e]
      /\ alarm' = alarm /\ signal' = signal /\ expired' = expired /\ event' = event
      /\ pc' = pc /\ due' = due
  BY DEF InsertTimer, host, notes
<1>7. s \in Seq(OnClock(c)) /\ NoRepeat(s) /\ InOrder(s, exp)
  BY <1>3, <1>4
<1>8. n \in 0 .. Len(s) /\ (\A i \in 1 .. n : exp[s[i]] <= e) /\ (n < Len(s) => exp[s[n + 1]] > e)
  <2> HIDE DEF s, e
  <2>1. \E m \in 0 .. Len(s) : (\A i \in 1 .. m : exp[s[i]] <= e) /\ (m < Len(s) => exp[s[m + 1]] > e)
    BY <1>2, <1>5, <1>7, PlaceFound
  <2>2. QED BY <2>1 DEF Place
<1> HIDE DEF n, s, c, t, e
<1>9. /\ exp' \in [Timers -> 0 .. MaxDelay] /\ exp'[t] = e
      /\ \A b \in Timers \ {t} : exp'[b] = exp[b]
  BY <1>1, <1>2, <1>4, <1>6
<1>10. /\ r \in Seq(OnClock(c)) /\ NoRepeat(r) /\ InOrder(r, exp')
       /\ r # <<>> /\ (n # 0 => s # <<>> /\ r[1] = s[1])
  <2>1. \A b \in OnClock(c) \ {t} : exp'[b] = exp[b]
    BY <1>5, <1>9
  <2>2. t \in OnClock(c) /\ t \notin Elements(s) /\ \A b \in OnClock(c) : exp[b] \in Int
    BY <1>1, <1>3, <1>5
  <2> DEFINE A == OnClock(c)
             y == exp'
  <2> HIDE DEF A, y
  <2>3. /\ s \in Seq(A) /\ NoRepeat(s) /\ t \in A /\ t \notin Elements(s)
        /\ (\A b \in A : exp[b] \in Int) /\ InOrder(s, exp)
        /\ e \in Int /\ y[t] = e /\ (\A b \in A \ {t} : y[b] = exp[b])
        /\ n \in 0 .. Len(s) /\ (\A i \in 1 .. n : exp[s[i]] <= e)
        /\ (n < Len(s) => exp[s[n + 1]] > e)
    BY <2>1, <2>2, <1>2, <1>7, <1>8, <1>9 DEF A, y
  <2>4. Inserted(s, n, t) \in Seq(A) /\ NoRepeat(Inserted(s, n, t))
    BY <2>3, InsertedInOrder
  <2>5. InOrder(Inserted(s, n, t), y)
    BY <2>3, InsertedInOrder
  <2>6. Inserted(s, n, t) # <<>> /\ (n # 0 => s # <<>> /\ Inserted(s, n, t)[1] = s[1])
    BY <2>3, InsertedInOrder
  <2>7. QED BY <2>4, <2>5, <2>6 DEF A, y
<1> HIDE DEF r
<1>11. /\ active_timers' \in [Clocks -> Seq(Timers)] /\ active_timers'[c] = r
       /\ \A d \in Clocks : d # c => active_timers'[d] = active_timers[d]
  <2>1. \A S, T : S \subseteq T => Seq(S) \subseteq Seq(T)
    OBVIOUS
  <2>2. r \in Seq(Timers)
    BY <2>1, <1>5, <1>10
  <2>3. QED BY <2>2, <1>3, <1>4, <1>6
<1>12. \A d \in Clocks : d # c => t \notin OnClock(d)
  BY <1>3 DEF OnClock
<1>13. ListsTyped'
  BY <1>4, <1>10, <1>11 DEF ListsTyped
<1>14. ASSUME NEW d \in Clocks, d # c
       PROVE  /\ \A i \in DOMAIN active_timers[d] : exp'[active_timers[d][i]] = exp[active_timers[d][i]]
              /\ active_timers[d] # <<>> => 1 \in DOMAIN active_timers[d]
  <2>1. active_timers[d] \in Seq(OnClock(d))
    BY <1>4
  <2>2. \A i \in DOMAIN active_timers[d] : active_timers[d][i] \in OnClock(d)
    BY <2>1, ListType
  <2>3. \A i \in DOMAIN active_timers[d] : active_timers[d][i] \in Timers \ {t}
    BY <2>2, <1>5, <1>12, <1>14
  <2>4. active_timers[d] # <<>> => 1 \in DOMAIN active_timers[d]
    BY <2>1, ListType
  <2>5. QED BY <2>3, <2>4, <1>9
<1>15. ListsSorted'
  <2> SUFFICES ASSUME NEW d \in Clocks PROVE InOrder(active_timers'[d], exp')
    BY DEF ListsSorted
  <2>1. CASE d = c
    BY <2>1, <1>10, <1>11
  <2>2. CASE d # c
    BY <2>2, <1>4, <1>11, <1>14 DEF InOrder
  <2>3. QED BY <2>1, <2>2
<1>16. Typed' /\ FlagSeen'
  BY <1>6, <1>9 DEF LoopInv, Typed, FlagSeen
<1>17. op' \in Ops /\ (n = 0 => op'.k = "check") /\ (n # 0 => op'.k = "none")
  <2>1. "check" \in Kinds
    BY DEF Kinds
  <2>2. QED BY <2>1, <1>1, <1>6, OpFields
<1>18. OpTyped'
  BY <1>17 DEF OpTyped
<1>19. ASSUME n # 0 PROVE Covered'
  <2>1. s # <<>> /\ r[1] = s[1] /\ s = active_timers[c]
    BY <1>10, <1>19 DEF s
  <2>2. s[1] \in Timers \ {t}
    <3>1. 1 \in DOMAIN s /\ s[1] \in OnClock(c)
      BY <2>1, <1>7, ListType
    <3>2. s[1] \in Elements(s)
      BY <3>1 DEF Elements
    <3>3. QED BY <3>1, <3>2, <1>1, <1>5
  <2>3. Set => Set'
    <3>1. ASSUME NEW d \in Clocks
          PROVE  /\ active_timers'[d] # <<>> => active_timers[d] # <<>>
                 /\ active_timers[d] # <<>> => exp'[active_timers'[d][1]] = exp[active_timers[d][1]]
      <4>1. CASE d = c
        BY <4>1, <2>1, <2>2, <1>9, <1>11
      <4>2. CASE d # c
        BY <4>2, <1>11, <1>14
      <4>3. QED BY <4>1, <4>2
    <3>2. ASSUME Set PROVE Set'
      <4>1. alarm' # Off
        BY <3>2, <1>6 DEF Set
      <4>2. ASSUME NEW d \in Clocks, active_timers'[d] # <<>>
            PROVE  alarm' <= AtLeast1(exp'[active_timers'[d][1]])
        BY <3>1, <3>2, <4>2, <1>6 DEF Set, NoEarlier
      <4>3. QED BY <4>1, <4>2 DEF Set, NoEarlier
    <3>3. QED BY <3>2
  <2>4. \E d \in Clocks : active_timers[d] # <<>>
    BY <2>1, <1>3
  <2>5. QED BY <2>3, <2>4, <1>1, <1>6, <1>17, <1>19, CoveredStill
<1>20. n = 0 => Covered'
  BY <1>17 DEF Covered
<1>21. QED BY <1>13, <1>15, <1>16, <1>18, <1>19, <1>20 DEF LoopInv

LEMMA HeadsFirst ==
  ASSUME LoopInv
  PROVE  /\ Heads = {active_timers[c][1] : c \in {d \in Clocks : active_timers[d] # <<>>}}
         /\ \A t \in Heads : t \in Timers
<1>1. active_timers \in [Clocks -> Seq(Timers)]
  BY DEF LoopInv, ListsTyped
<1>2. \A r \in Seq(Timers) : r # <<>> => Head(r) = r[1] /\ r[1] \in Timers
  BY ListType
<1>3. \A c \in Clocks : active_timers[c] # <<>> =>
        /\ Head(active_timers[c]) = active_timers[c][1]
        /\ active_timers[c][1] \in Timers
  BY <1>1, <1>2
<1>4. QED BY <1>3 DEF Heads

\* The deadline is that of the earliest of the first timers.
LEMMA DeadlineRight ==
  ASSUME LoopInv, Heads # {}
  PROVE  /\ Deadline \in 1 .. MaxDelay
         /\ \E t \in Heads : Deadline = AtLeast1(exp[t])
         /\ NoEarlier(active_timers, exp, Deadline)
         /\ \A n \in Int : n <= Deadline => NoEarlier(active_timers, exp, n)
<1> DEFINE P(d) == /\ \E t \in Heads : d = IF exp[t] < 1 THEN 1 ELSE exp[t]
                   /\ \A t \in Heads : d <= IF exp[t] < 1 THEN 1 ELSE exp[t]
<1>1. /\ active_timers \in [Clocks -> Seq(Timers)] /\ exp \in [Timers -> 0 .. MaxDelay]
      /\ \A d \in Clocks : active_timers[d] \in Seq(OnClock(d))
  BY DEF LoopInv, ListsTyped, Typed
<1>2. /\ Heads = {active_timers[c][1] : c \in {d \in Clocks : active_timers[d] # <<>>}}
      /\ \A t \in Heads : t \in Timers
  BY HeadsFirst
<1>4. \A t \in Heads : t \in Timers /\ AtLeast1(exp[t]) \in 1 .. MaxDelay
  <2>1. \A n \in 0 .. MaxDelay : AtLeast1(n) \in 1 .. MaxDelay
    BY MaxDelayType DEF AtLeast1
  <2>2. QED BY <2>1, <1>1, <1>2
<1>5. \E t \in Heads : \A u \in Heads : AtLeast1(exp[t]) <= AtLeast1(exp[u])
  <2> DEFINE S == {AtLeast1(exp[t]) : t \in Heads}
  <2>1. S \in SUBSET Nat /\ S # {}
    BY <1>4, MaxDelayType
  <2>2. PICK x \in S : \A y \in S : x <= y
    BY <2>1, LeastOf
  <2>3. QED BY <2>2
<1>6. PICK t \in Heads : \A u \in Heads : AtLeast1(exp[t]) <= AtLeast1(exp[u])
  BY <1>5
<1>7. P(AtLeast1(exp[t])) /\ AtLeast1(exp[t]) \in 1 .. MaxDelay + 1
  BY <1>4, <1>6, MaxDelayType DEF AtLeast1
<1>8. P(Deadline) /\ Deadline \in 1 .. MaxDelay + 1
  <2> HIDE DEF P
  <2>1. Deadline = CHOOSE d \in 1 .. MaxDelay + 1 : P(d)
    BY DEF Deadline, P
  <2>2. QED BY <2>1, <1>7
<1> DEFINE D == Deadline
<1> HIDE DEF D
<1>9. /\ \E u \in Heads : D = AtLeast1(exp[u])
      /\ \A u \in Heads : D <= AtLeast1(exp[u])
  BY <1>8 DEF AtLeast1, D
<1>10. D \in 1 .. MaxDelay
  BY <1>4, <1>9
<1>11. ASSUME NEW n \in Int, n <= D PROVE NoEarlier(active_timers, exp, n)
  <2> SUFFICES ASSUME NEW c \in Clocks, active_timers[c] # <<>>
               PROVE  n <= AtLeast1(exp[active_timers[c][1]])
    BY DEF NoEarlier
  <2>1. active_timers[c][1] \in Heads
    BY <1>2
  <2>2. D <= AtLeast1(exp[active_timers[c][1]]) /\ AtLeast1(exp[active_timers[c][1]]) \in 1 .. MaxDelay
    BY <2>1, <1>4, <1>9
  <2>3. QED BY <2>2, <1>10, <1>11, MaxDelayType
<1>12. D \in Int /\ D <= D
  BY <1>10, MaxDelayType
<1>13. QED BY <1>9, <1>10, <1>11, <1>12 DEF D

LEMMA CheckKeeps ==
  ASSUME LoopInv, dynticks' = dynticks, CheckExpired
  PROVE  LoopInv'
<1>1. /\ op.k = "check" /\ op' = IF expired THEN Finished(op) ELSE [op EXCEPT !.k = "rearm"]
      /\ active_timers' = active_timers /\ exp' = exp /\ alarm' = alarm /\ signal' = signal
      /\ expired' = expired /\ event' = event /\ pc' = pc /\ due' = due
  BY DEF CheckExpired, timers, host, notes
<1>2. ListsTyped' /\ Typed' /\ ListsSorted' /\ FlagSeen'
  BY <1>1 DEF LoopInv, ListsTyped, Typed, ListsSorted, FlagSeen
<1>3. op \in Ops /\ "rearm" \in Kinds
  BY DEF LoopInv, OpTyped, Kinds
<1>4. op' \in Ops /\ (op'.k = "rearm" \/ (op'.k = "none" /\ expired))
  BY <1>1, <1>3, OpFields
<1>5. OpTyped'
  BY <1>4 DEF OpTyped
<1>6. Covered'
  BY <1>1, <1>4 DEF Covered
<1>7. QED BY <1>2, <1>5, <1>6 DEF LoopInv

LEMMA HeadsEmpty == Heads = {} <=> \A c \in Clocks : active_timers[c] = <<>>
BY DEF Heads

LEMMA GettimeKeeps ==
  ASSUME LoopInv, dynticks' = dynticks, RearmGettime
  PROVE  LoopInv'
<1> DEFINE done == ~dynticks \/ Heads = {} \/ (alarm # Off /\ alarm <= Deadline)
<1>1. /\ op.k = "rearm"
      /\ op' = IF done THEN Finished(op) ELSE [op EXCEPT !.k = "settime", !.e = Deadline]
      /\ active_timers' = active_timers /\ exp' = exp /\ alarm' = alarm /\ signal' = signal
      /\ expired' = expired /\ event' = event /\ pc' = pc /\ due' = due
  BY DEF RearmGettime, timers, host, notes
<1>2. ListsTyped' /\ Typed' /\ ListsSorted' /\ FlagSeen'
  BY <1>1 DEF LoopInv, ListsTyped, Typed, ListsSorted, FlagSeen
<1>3. op \in Ops /\ "settime" \in Kinds
  BY DEF LoopInv, OpTyped, Kinds
<1>4. CASE done
  <2>1. op' \in Ops /\ op'.k = "none"
    BY <1>1, <1>3, <1>4, OpFields
  <2>2. OpTyped'
    BY <2>1 DEF OpTyped
  <2>3. ASSUME dynticks, Heads # {} PROVE Set
    <3>1. alarm # Off /\ alarm <= Deadline
      BY <2>3, <1>4
    <3>2. alarm \in Int
      BY <3>1, MaxDelayType DEF LoopInv, Typed
    <3>3. QED BY <2>3, <3>1, <3>2, DeadlineRight DEF Set
  <2>4. Set => Set'
    BY <1>1 DEF Set, NoEarlier
  <2>5. (\E c \in Clocks : active_timers'[c] # <<>>) => Heads # {}
    BY <1>1, HeadsEmpty
  <2>6. Covered'
    BY <2>1, <2>3, <2>4, <2>5 DEF Covered
  <2>7. QED BY <1>2, <2>2, <2>6 DEF LoopInv
<1>5. CASE ~done
  <2> DEFINE D == Deadline
  <2>1. D \in 1 .. MaxDelay /\ NoEarlier(active_timers, exp, D)
    BY <1>5, DeadlineRight
  <2>2. op' = [op EXCEPT !.k = "settime", !.e = D]
    BY <1>1, <1>5
  <2> HIDE DEF D
  <2>3. D \in 0 .. MaxDelay /\ D >= 1
    BY <2>1, MaxDelayType
  <2>4. op' \in Ops /\ op'.k = "settime" /\ op'.e = D
    BY <2>2, <2>3, <1>3 DEF Ops
  <2>5. OpTyped'
    BY <2>4 DEF OpTyped
  <2>6. NoEarlier(active_timers', exp', op'.e)
    BY <2>1, <2>4, <1>1
  <2>7. Covered'
    BY <2>3, <2>4, <2>6 DEF Covered
  <2>8. QED BY <1>2, <2>5, <2>7 DEF LoopInv
<1>6. QED BY <1>4, <1>5

LEMMA SettimeKeeps ==
  ASSUME LoopInv, dynticks' = dynticks, RearmSettime
  PROVE  LoopInv'
<1>1. /\ op.k = "settime" /\ alarm' = op.e /\ op' = Finished(op)
      /\ active_timers' = active_timers /\ exp' = exp /\ signal' = signal
      /\ expired' = expired /\ event' = event /\ pc' = pc /\ due' = due
  BY DEF RearmSettime, timers, notes
<1>2. op \in Ops
  BY DEF LoopInv, OpTyped
<1>3. op' \in Ops /\ op'.k = "none" /\ op.e \in 0 .. MaxDelay
  BY <1>1, <1>2, OpFields
<1>4. ListsTyped' /\ ListsSorted' /\ FlagSeen'
  BY <1>1 DEF LoopInv, ListsTyped, ListsSorted, FlagSeen
<1>5. OpTyped'
  BY <1>3 DEF OpTyped
<1>6. op.e >= 1 /\ NoEarlier(active_timers, exp, op.e)
  BY <1>1 DEF LoopInv, Covered
<1>7. Covered'
  <2>1. Set'
    <3>1. op.e # Off
      BY <1>3, <1>6, MaxDelayType DEF Off
    <3>2. NoEarlier(active_timers', exp', alarm')
      BY <1>1, <1>6
    <3>3. QED BY <3>1, <3>2, <1>1 DEF Set
  <2>2. QED BY <2>1, <1>3 DEF Covered
<1>8. Typed'
  <2>1. op.e \in 1 .. MaxDelay
    BY <1>3, <1>6, MaxDelayType
  <2>2. QED BY <2>1, <1>1 DEF LoopInv, Typed
<1>9. QED BY <1>4, <1>5, <1>7, <1>8 DEF LoopInv

-----------------------------------------------------------------------------
(***************************************************************************)
(* Time passes and the signal is handled.                                  *)
(***************************************************************************)
LEMMA DownFacts ==
  ASSUME NEW n \in 0 .. MaxDelay
  PROVE  /\ Down(n) \in 0 .. MaxDelay
         /\ Down(n) >= n - 1
         /\ \A m \in 0 .. MaxDelay : n <= m => Down(n) <= Down(m)
BY MaxDelayType DEF Down

\* The timers of a clock go down together.
LEMMA TickSorted ==
  ASSUME LoopInv, Tick
  PROVE  /\ exp' \in [Timers -> 0 .. MaxDelay]
         /\ ListsSorted'
         /\ \A t \in Timers : exp'[t] >= exp[t] - 1
<1>1. /\ active_timers' = active_timers
      /\ exp' = [t \in Timers |-> IF Stopped(t) THEN exp[t] ELSE Down(exp[t])]
  BY DEF Tick
<1>2. /\ exp \in [Timers -> 0 .. MaxDelay]
      /\ \A c \in Clocks : active_timers[c] \in Seq(OnClock(c)) /\ InOrder(active_timers[c], exp)
  BY DEF LoopInv, Typed, ListsTyped, ListsSorted
<1>3. \A t \in Timers : exp[t] \in 0 .. MaxDelay
  BY <1>2
<1>4. \A t \in Timers : exp'[t] = IF Stopped(t) THEN exp[t] ELSE Down(exp[t])
  BY <1>1
<1>5. \A t \in Timers : Down(exp[t]) \in 0 .. MaxDelay /\ Down(exp[t]) >= exp[t] - 1
  BY <1>3, DownFacts
<1>6. exp' \in [Timers -> 0 .. MaxDelay]
  BY <1>1, <1>3, <1>5
<1>7. \A t \in Timers : exp'[t] >= exp[t] - 1
  <2> SUFFICES ASSUME NEW t \in Timers PROVE exp'[t] >= exp[t] - 1
    OBVIOUS
  <2>1. exp[t] \in Int /\ exp[t] >= exp[t] - 1
    BY <1>3, MaxDelayType
  <2>2. QED BY <2>1, <1>4, <1>5
<1>8. ASSUME NEW c \in Clocks, NEW i \in DOMAIN active_timers[c], NEW j \in DOMAIN active_timers[c],
             i < j
      PROVE  exp'[active_timers[c][i]] <= exp'[active_timers[c][j]]
  <2> DEFINE t == active_timers[c][i]
             u == active_timers[c][j]
  <2>1. t \in OnClock(c) /\ u \in OnClock(c)
    BY <1>2, ListType
  <2>2. exp[t] <= exp[u]
    BY <1>2, <1>8 DEF InOrder
  <2> HIDE DEF t, u
  <2>3. t \in Timers /\ u \in Timers /\ ClockOf(t) = ClockOf(u)
    BY <2>1 DEF OnClock
  <2>4. Stopped(t) <=> Stopped(u)
    BY <2>3 DEF ClockOf, Stopped
  <2>5. Down(exp[t]) <= Down(exp[u])
    BY <2>2, <2>3, <1>3, DownFacts
  <2>6. exp'[t] <= exp'[u]
    BY <2>2, <2>3, <2>4, <2>5, <1>4
  <2>7. QED BY <2>6 DEF t, u
<1>9. ListsSorted'
  BY <1>1, <1>8 DEF ListsSorted, InOrder
<1>10. QED BY <1>6, <1>7, <1>9

\* The host's timer goes down with them, or expires.
LEMMA TickAlarm ==
  ASSUME LoopInv, Tick, dynticks, Set, alarm # 1
  PROVE  Set'
<1>1. active_timers' = active_timers
  BY DEF Tick
<1>2. alarm \in 1 .. MaxDelay /\ alarm >= 2
  BY MaxDelayType DEF LoopInv, Typed, Set
<1>3. alarm' = alarm - 1
  BY <1>2, MaxDelayType DEF Tick, Down
<1>4. alarm' # Off
  BY <1>2, <1>3 DEF Off
<1>5. ASSUME NEW c \in Clocks, active_timers[c] # <<>>
      PROVE  alarm' <= AtLeast1(exp'[active_timers[c][1]])
  <2> DEFINE t == active_timers[c][1]
  <2>1. t \in Timers
    <3>1. active_timers[c] \in Seq(OnClock(c))
      BY DEF LoopInv, ListsTyped
    <3>2. t \in OnClock(c)
      BY <3>1, <1>5, ListType
    <3>3. QED BY <3>2 DEF OnClock
  <2>2. alarm <= AtLeast1(exp[t])
    BY <1>5 DEF Set, NoEarlier
  <2> HIDE DEF t
  <2>3. exp[t] \in 0 .. MaxDelay /\ exp'[t] \in 0 .. MaxDelay /\ exp'[t] >= exp[t] - 1
    BY <2>1, TickSorted DEF LoopInv, Typed
  <2>4. alarm' <= AtLeast1(exp'[t])
    BY <2>2, <2>3, <1>2, <1>3, MaxDelayType DEF AtLeast1
  <2>5. QED BY <2>4 DEF t
<1>6. QED BY <1>1, <1>4, <1>5 DEF Set, NoEarlier

LEMMA TickKeeps ==
  ASSUME LoopInv, dynticks' = dynticks, Tick
  PROVE  LoopInv'
<1>1. /\ op.k # "settime" /\ active_timers' = active_timers
      /\ expired' = expired /\ event' = event /\ pc' = pc /\ due' = due
  BY DEF Tick, notes
<1>2. op' = IF op.k = "insert" /\ ~Stopped(op.t) THEN [op EXCEPT !.e = Down(@)] ELSE op
  BY DEF Tick
<1>3. ListsTyped' /\ FlagSeen'
  BY <1>1 DEF LoopInv, ListsTyped, FlagSeen
<1>4. op' \in Ops /\ op'.k = op.k /\ op'.t = op.t
  <2>1. op \in Ops
    BY DEF LoopInv, OpTyped
  <2>2. op.e \in 0 .. MaxDelay
    BY <2>1, OpFields
  <2>3. Down(op.e) \in 0 .. MaxDelay
    BY <2>2, DownFacts
  <2>4. QED BY <2>1, <2>3, <1>2, OpFields
<1>5. OpTyped'
  BY <1>1, <1>4 DEF LoopInv, OpTyped
<1>6. Typed' /\ ListsSorted'
  <2>1. alarm' \in {Off} \cup 1 .. MaxDelay
    <3>1. alarm \in {Off} \cup 1 .. MaxDelay
      BY DEF LoopInv, Typed
    <3>2. CASE dynticks
      <4>1. alarm' = IF alarm = 1 THEN Off ELSE Down(alarm)
        BY <3>2 DEF Tick
      <4>2. QED BY <3>1, <4>1, MaxDelayType DEF Down, Off
    <3>3. CASE ~dynticks
      BY <3>1, <3>3 DEF Tick
    <3>4. QED BY <3>2, <3>3
  <2>2. exp' \in [Timers -> 0 .. MaxDelay] /\ ListsSorted'
    BY TickSorted
  <2>3. QED BY <2>1, <2>2, <1>1 DEF LoopInv, Typed
<1>7. Covered'
  <2>1. ASSUME dynticks, op.k \in {"none", "insert"}, \E c \in Clocks : active_timers[c] # <<>>
        PROVE  expired' \/ signal' \/ Set'
    <3>1. expired \/ signal \/ Set
      BY <2>1 DEF LoopInv, Covered
    <3>2. signal \/ alarm = 1 => signal'
      BY <2>1 DEF Tick
    <3>3. CASE expired
      BY <3>3, <1>1
    <3>4. CASE signal \/ alarm = 1
      BY <3>2, <3>4
    <3>5. CASE Set /\ alarm # 1
      BY <3>5, <2>1, TickAlarm
    <3>6. QED BY <3>1, <3>3, <3>4, <3>5
  <2>2. QED BY <2>1, <1>1, <1>4 DEF Covered
<1>8. QED BY <1>3, <1>5, <1>6, <1>7 DEF LoopInv

LEMMA HandlerKeeps ==
  ASSUME LoopInv, dynticks' = dynticks, host_alarm_handler
  PROVE  LoopInv'
<1>1. /\ active_timers' = active_timers /\ exp' = exp /\ alarm' = alarm
      /\ pc' = pc /\ op' = op /\ due' = due
  BY DEF host_alarm_handler, timers, thread
<1>2. ListsTyped' /\ Typed' /\ ListsSorted' /\ OpTyped'
  BY <1>1 DEF LoopInv, ListsTyped, Typed, ListsSorted, OpTyped
<1>3. \/ expired' = TRUE /\ event' = TRUE
      \/ ~dynticks /\ expired' = expired /\ event' = event
  BY DEF host_alarm_handler, notes
<1>4. FlagSeen'
  BY <1>1, <1>3 DEF LoopInv, FlagSeen
<1>5. Covered'
  <2>1. op.k = "settime" => op.e >= 1 /\ NoEarlier(active_timers, exp, op.e)
    BY DEF LoopInv, Covered
  <2>2. dynticks => expired'
    BY <1>3
  <2>3. QED BY <2>1, <2>2, <1>1 DEF Covered
<1>6. QED BY <1>2, <1>4, <1>5 DEF LoopInv

\* main_loop_wait clears the flag and rearms; vm_start rearms.
LEMMA RearmBegins ==
  ASSUME LoopInv, dynticks' = dynticks, Flags \/ vm_start
  PROVE  LoopInv'
<1>1. /\ active_timers' = active_timers /\ exp' = exp /\ alarm' = alarm /\ signal' = signal
      /\ event' = event /\ due' = due
  BY DEF Flags, vm_start, timers, host, notes
<1>2. ListsTyped' /\ Typed' /\ ListsSorted'
  BY <1>1 DEF LoopInv, ListsTyped, Typed, ListsSorted
<1>3. op \in Ops /\ op.left \in {0, 1} /\ op.k = "none"
  <2>1. op \in Ops
    BY DEF LoopInv, OpTyped
  <2>2. QED BY <2>1, OpFields DEF Flags, vm_start, MayCall, At, Idle
<1>4. "rearm" \in Kinds /\ "none" \in Kinds
  BY DEF Kinds
<1>5. CASE Flags
  <2>1. op' = [op EXCEPT !.k = IF expired THEN "rearm" ELSE "none"] /\ expired' = FALSE
    BY <1>5 DEF Flags
  <2>2. op' \in Ops /\ (op'.k = "rearm" \/ (op'.k = "none" /\ ~expired))
    <3>1. CASE expired
      <4>1. op' = [op EXCEPT !.k = "rearm"]
        BY <2>1, <3>1
      <4>2. QED BY <4>1, <1>3, <1>4, OpFields
    <3>2. CASE ~expired
      <4>1. op' = [op EXCEPT !.k = "none"]
        BY <2>1, <3>2
      <4>2. QED BY <4>1, <3>2, <1>3, <1>4, OpFields
    <3>3. QED BY <3>1, <3>2
  <2>3. OpTyped' /\ FlagSeen'
    BY <2>1, <2>2 DEF OpTyped, FlagSeen
  <2>4. Set => Set'
    BY <1>1 DEF Set, NoEarlier
  <2>5. Covered'
    <3>1. CASE op'.k = "rearm"
      BY <3>1 DEF Covered
    <3>2. CASE op'.k = "none" /\ ~expired
      <4>1. dynticks /\ (\E c \in Clocks : active_timers[c] # <<>>) => signal \/ Set
        BY <3>2, <1>3 DEF LoopInv, Covered
      <4>2. dynticks' /\ (\E c \in Clocks : active_timers'[c] # <<>>) => signal' \/ Set'
        BY <4>1, <2>4, <1>1
      <4>3. QED BY <4>2, <3>2 DEF Covered
    <3>3. QED BY <2>2, <3>1, <3>2
  <2>6. QED BY <2>3, <2>5, <1>2 DEF LoopInv
<1>6. CASE vm_start
  <2>1. op' = [op EXCEPT !.k = "rearm", !.left = @ - 1] /\ op.left > 0
    BY <1>6 DEF vm_start, MayCall
  <2>2. op.left - 1 \in {0, 1}
    BY <2>1, <1>3
  <2>3. op' \in Ops /\ op'.k = "rearm"
    BY <2>1, <2>2, <1>3, <1>4 DEF Ops
  <2>4. OpTyped' /\ Covered'
    BY <2>3 DEF OpTyped, Covered
  <2>5. expired' = expired /\ pc' = pc
    BY <1>6 DEF vm_start, notes
  <2>6. FlagSeen'
    BY <2>5, <1>1 DEF LoopInv, FlagSeen
  <2>7. QED BY <2>4, <2>6, <1>2 DEF LoopInv
<1>7. QED BY <1>5, <1>6

-----------------------------------------------------------------------------
(***************************************************************************)
(* The theorems.                                                           *)
(***************************************************************************)
LEMMA InitInv == Init => LoopInv
<1> SUFFICES ASSUME Init PROVE LoopInv
  OBVIOUS
<1>1. active_timers = [c \in Clocks |-> <<>>] /\ op = NoOp
  BY DEF Init
<1>2. \A c \in Clocks : active_timers[c] = <<>>
  BY <1>1
<1>3. ListsTyped
  <2>1. \A A : <<>> \in Seq(A) /\ NoRepeat(<<>>)
    BY DEF NoRepeat
  <2>2. active_timers \in [Clocks -> Seq(Timers)]
    BY <1>1, <2>1
  <2>3. QED BY <1>2, <2>1, <2>2 DEF ListsTyped
<1>4. op \in Ops /\ op.k = "none"
  <2>1. "none" \in Kinds /\ 0 \in 0 .. MaxDelay
    BY MaxDelayType DEF Kinds
  <2>2. QED BY <2>1, <1>1 DEF Ops, NoOp
<1>5. OpTyped /\ Covered
  BY <1>2, <1>4 DEF OpTyped, Covered
<1>6. Typed
  BY MaxDelayType DEF Init, Typed
<1>7. ListsSorted /\ FlagSeen
  BY <1>2 DEF ListsSorted, InOrder, FlagSeen, Init
<1>8. QED BY <1>3, <1>5, <1>6, <1>7 DEF LoopInv

LEMMA StepInv ==
  ASSUME LoopInv, [Next /\ UNCHANGED dynticks]_<<vars, dynticks>>
  PROVE  LoopInv'
<1>1. CASE UNCHANGED <<vars, dynticks>>
  <2>1. /\ active_timers' = active_timers /\ exp' = exp /\ alarm' = alarm /\ signal' = signal
        /\ expired' = expired /\ event' = event /\ pc' = pc /\ op' = op /\ due' = due
        /\ dynticks' = dynticks
    BY <1>1 DEF vars, timers, host, notes, thread
  <2>2. QED BY <2>1 DEF LoopInv, ListsTyped, OpTyped, Typed, ListsSorted, Covered, Set, FlagSeen
<1>2. CASE Next /\ dynticks' = dynticks
  <2>1. CASE Step
    <3>1. \/ InsertTimer \/ CheckExpired \/ RearmGettime \/ RearmSettime
          \/ tcg_cpu_exec \/ CpuTurn \/ LoopTop \/ TbFound \/ TbRecheck \/ TbWhile
          \/ TbReturns
          \/ Select \/ IoReturns \/ Flags \/ AfterFlags
          \/ \E c \in Clocks : StartTimers(c) \/ qemu_run_timers(c) \/ CallbackReturns(c)
      BY <2>1 DEF Step
    <3>2. QED BY <3>1, <1>2, InsertKeeps, CheckKeeps, GettimeKeeps, SettimeKeeps, CpuSteps,
                 WaitSteps, RearmBegins, RunTimers
  <2>2. CASE Calls
    <3>1. \/ \E t \in Timers : qemu_del_timer(t)
          \/ \E t \in Timers, e \in 0 .. MaxDelay : qemu_mod_timer(t, e)
          \/ vm_stop \/ vm_start
      BY <2>2 DEF Calls
    <3>2. QED BY <3>1, <1>2, DelTimer, ModTimer, WaitSteps, RearmBegins
  <2>3. CASE SelectIo \/ TbChained \/ TbReturns \/ TbHalts \/ Tick \/ host_alarm_handler
    BY <2>3, <1>2, WaitSteps, CpuSteps, TickKeeps, HandlerKeeps
  <2>4. QED BY <1>2, <2>1, <2>2, <2>3 DEF Next
<1>3. QED BY <1>1, <1>2

\* The inductive invariant of the main loop holds.
THEOREM Invariance == Spec => []LoopInv
<1>1. LoopInv /\ [Next /\ UNCHANGED dynticks]_<<vars, dynticks>> => LoopInv'
  BY StepInv
<1>2. QED BY InitInv, <1>1, PTL DEF Spec

LEMMA InvImplies == LoopInv => NothingForgotten
<1> SUFFICES ASSUME LoopInv PROVE NothingForgotten
  OBVIOUS
<1>1. TypeOK
  BY DEF LoopInv, ListsTyped, Typed, TypeOK, OnClock
<1>2. Sorted
  BY DEF LoopInv, ListsSorted, InOrder, Sorted
<1>3. ASSUME dynticks, Heads # {}, op.k = "none"
      PROVE  expired \/ signal \/ (alarm # Off /\ alarm <= Deadline)
  <2>1. expired \/ signal \/ Set
    BY <1>3, HeadsEmpty DEF LoopInv, Covered
  <2>2. ASSUME Set PROVE alarm # Off /\ alarm <= Deadline
    <3> DEFINE D == Deadline
    <3>1. PICK t \in Heads : D = AtLeast1(exp[t])
      BY <1>3, DeadlineRight
    <3>2. PICK c \in Clocks : active_timers[c] # <<>> /\ t = active_timers[c][1]
      BY <3>1, HeadsFirst
    <3>3. alarm <= AtLeast1(exp[t])
      BY <2>2, <3>2 DEF Set, NoEarlier
    <3>4. QED BY <2>2, <3>1, <3>3 DEF Set
  <2>3. QED BY <2>1, <2>2
<1>4. AlarmKept
  BY <1>3 DEF AlarmKept
<1>5. NoSleepOverFlag
  BY DEF LoopInv, FlagSeen, NoSleepOverFlag
<1>6. QED BY <1>1, <1>2, <1>4, <1>5 DEF NothingForgotten

\* No alarm is forgotten, for any timers and any delay: the lists stay sorted
\* through interrupted and nested calls of qemu_mod_timer, something stands for
\* the first timer (host_alarm_handler, dynticks_rearm_timer), and the thread
\* does not sleep over the flag.
THEOREM AlarmsKept == Spec => []NothingForgotten
BY Invariance, InvImplies, PTL

-----------------------------------------------------------------------------
(***************************************************************************)
(* The countdown timer.  Powers of two: every 2^n below is Pow2[n].        *)
(* Induction on n is the argument from a least counterexample (LeastOf).   *)
(***************************************************************************)

\* The first n powers, as a table.
PowTable(g, n) == g \in [0 .. n -> Nat] /\ g[0] = 1 /\ \A i \in 1 .. n : g[i] = 2 * g[i - 1]

LEMMA PowTableExists == \A n \in Nat : \E g : PowTable(g, n)
<1> DEFINE S == {n \in Nat : ~ \E g : PowTable(g, n)}
<1> SUFFICES ASSUME S # {} PROVE FALSE
  OBVIOUS
<1>1. PICK n \in S : \A m \in S : n <= m
  BY LeastOf
<1>2. n # 0
  <2>1. PowTable([i \in 0 .. 0 |-> 1], 0)
    BY DEF PowTable
  <2>2. QED BY <2>1
<1>3. n - 1 \in Nat /\ n - 1 \notin S
  BY <1>1, <1>2
<1>4. PICK g : PowTable(g, n - 1)
  BY <1>3
<1>5. PowTable([i \in 0 .. n |-> IF i = n THEN 2 * g[n - 1] ELSE g[i]], n)
  BY <1>2, <1>3, <1>4 DEF PowTable
<1>6. QED BY <1>5

LEMMA TablesAgree ==
  ASSUME NEW m \in Nat, NEW n \in Nat, NEW g, NEW h, PowTable(g, m), PowTable(h, n)
  PROVE  \A i \in Nat : i <= m /\ i <= n => g[i] = h[i]
<1> DEFINE S == {i \in Nat : i <= m /\ i <= n /\ g[i] # h[i]}
<1> SUFFICES ASSUME S # {} PROVE FALSE
  OBVIOUS
<1>1. PICK i \in S : \A j \in S : i <= j
  BY LeastOf
<1>2. i # 0
  BY DEF PowTable
<1>3. i - 1 \in Nat /\ g[i - 1] = h[i - 1]
  BY <1>1, <1>2
<1>4. i \in 1 .. m /\ i \in 1 .. n
  BY <1>2
<1>5. QED BY <1>3, <1>4 DEF PowTable

\* The definition of Pow2 defines it.
LEMMA Pow2Def == Pow2 = [n \in Nat |-> IF n = 0 THEN 1 ELSE 2 * Pow2[n - 1]]
<1> DEFINE tab(n) == CHOOSE g : PowTable(g, n)
           P == [n \in Nat |-> tab(n)[n]]
<1>1. \A n \in Nat : PowTable(tab(n), n)
  BY PowTableExists
<1> HIDE DEF tab
<1>2. \A n \in Nat : P[n] = IF n = 0 THEN 1 ELSE 2 * P[n - 1]
  <2> TAKE n \in Nat
  <2>1. CASE n = 0
    BY <1>1, <2>1 DEF PowTable
  <2>2. CASE n # 0
    <3>1. n - 1 \in Nat /\ n \in 1 .. n
      BY <2>2
    <3>2. tab(n)[n] = 2 * tab(n)[n - 1]
      BY <1>1, <3>1 DEF PowTable
    <3>3. tab(n)[n - 1] = tab(n - 1)[n - 1]
      BY <1>1, <3>1, TablesAgree
    <3>4. P[n] = tab(n)[n] /\ P[n - 1] = tab(n - 1)[n - 1]
      BY <3>1
    <3>5. QED BY <3>2, <3>3, <3>4, <2>2
  <2>3. QED BY <2>1, <2>2
<1>3. P = [n \in Nat |-> IF n = 0 THEN 1 ELSE 2 * P[n - 1]]
  BY <1>2
<1> HIDE DEF P
<1>4. QED BY <1>3, Zenon DEF Pow2

LEMMA Pow2Zero == Pow2[0] = 1
BY Pow2Def

LEMMA Pow2Step == \A n \in Nat : Pow2[n + 1] = 2 * Pow2[n]
<1> TAKE n \in Nat
<1>1. n + 1 \in Nat /\ n + 1 # 0 /\ (n + 1) - 1 = n
  OBVIOUS
<1> DEFINE m == n + 1
<1>2. Pow2[m] = IF m = 0 THEN 1 ELSE 2 * Pow2[m - 1]
  BY <1>1, Pow2Def
<1>3. QED BY <1>1, <1>2

LEMMA Pow2Type == \A n \in Nat : Pow2[n] \in Nat /\ Pow2[n] > 0
<1> DEFINE S == {n \in Nat : ~(Pow2[n] \in Nat /\ Pow2[n] > 0)}
<1> SUFFICES ASSUME S # {} PROVE FALSE
  OBVIOUS
<1>1. PICK n \in S : \A m \in S : n <= m
  BY LeastOf
<1>2. n # 0
  BY Pow2Zero
<1>3. n - 1 \in Nat /\ n - 1 \notin S
  BY <1>1, <1>2
<1>4. Pow2[n - 1] \in Nat /\ Pow2[n - 1] > 0
  BY <1>3
<1>5. Pow2[n] = 2 * Pow2[n - 1]
  <2>1. Pow2[(n - 1) + 1] = 2 * Pow2[n - 1]
    BY <1>3, Pow2Step
  <2>2. (n - 1) + 1 = n
    OBVIOUS
  <2>3. QED BY <2>1, <2>2
<1>6. QED BY <1>4, <1>5

LEMMA Pow2Sum ==
  ASSUME NEW a \in Nat
  PROVE  \A b \in Nat : Pow2[a + b] = Pow2[a] * Pow2[b]
<1> DEFINE S == {b \in Nat : Pow2[a + b] # Pow2[a] * Pow2[b]}
<1> SUFFICES ASSUME S # {} PROVE FALSE
  OBVIOUS
<1>1. PICK b \in S : \A m \in S : b <= m
  BY LeastOf
<1>2. b # 0
  <2>1. Pow2[a] \in Nat /\ a + 0 = a
    BY Pow2Type
  <2>2. Pow2[a + 0] = Pow2[a] * Pow2[0]
    BY <2>1, Pow2Zero
  <2>3. QED BY <2>2
<1>3. PICK c \in Nat : b = c + 1 /\ c \notin S
  <2>1. b - 1 \in Nat /\ b - 1 \notin S /\ b = (b - 1) + 1
    BY <1>1, <1>2
  <2>2. QED BY <2>1
<1>4. Pow2[a + c] = Pow2[a] * Pow2[c]
  BY <1>3
<1>5. Pow2[c + 1] = 2 * Pow2[c]
  BY Pow2Step
<1>6. Pow2[a + b] = 2 * Pow2[a + c]
  <2>1. a + b = (a + c) + 1 /\ a + c \in Nat
    BY <1>3
  <2>2. QED BY <2>1, Pow2Step
<1>7. Pow2[a] \in Nat /\ Pow2[c] \in Nat
  BY Pow2Type
<1>8. \A x, y \in Nat : 2 * (x * y) = x * (2 * y)
  OBVIOUS
<1>9. Pow2[a + b] = Pow2[a] * Pow2[b]
  BY <1>3, <1>4, <1>5, <1>6, <1>7, <1>8
<1>10. QED BY <1>9

-----------------------------------------------------------------------------
(***************************************************************************)
(* Division.                                                               *)
(***************************************************************************)

LEMMA Division ==
  ASSUME NEW x \in Int, NEW n \in Nat, n > 0
  PROVE  /\ x \div n \in Int /\ x % n \in 0 .. n - 1
         /\ x = n * (x \div n) + (x % n)
         /\ x >= 0 => x \div n \in Nat
OBVIOUS

\* What is left over is a multiple of a power that divides both sides.
LEMMA ScaledRemainder ==
  ASSUME NEW x \in Nat, NEW m \in Nat, m > 0, NEW k \in Nat, k > 0
  PROVE  (x * k) % (m * k) # 0 <=> x % m # 0
<1> DEFINE q == x \div m
           r == x % m
<1>1. q \in Nat /\ r \in 0 .. m - 1 /\ x = m * q + r
  BY Division
<1> HIDE DEF q, r
<1>2. x * k = (m * k) * q + r * k
  BY <1>1
<1>3. r * k \in 0 .. (m * k) - 1 /\ m * k \in Nat /\ m * k > 0
  BY <1>1
<1>4. (x * k) % (m * k) = r * k
  BY <1>1, <1>2, <1>3
<1>5. r * k # 0 <=> r # 0
  BY <1>1
<1>6. QED BY <1>4, <1>5 DEF r

-----------------------------------------------------------------------------
(***************************************************************************)
(* ptimer_get_count rounds down.                                           *)
(***************************************************************************)

LEMMA Words == W \in Nat /\ F \in Nat /\ F >= 1 /\ Pow2[F] \in Nat /\ Pow2[F] > 0
BY PtimerAssumption, Pow2Type

LEMMA ClzType == \A x : Clz(x) \in Nat
<1> TAKE x
<1>1. IsFiniteSet(0 .. W - 1)
  BY Words, FS_Interval
<1>2. IsFiniteSet({b \in 0 .. W - 1 : x < Pow2[b]})
  BY <1>1, FS_Subset
<1>3. QED BY <1>2, FS_CardinalityType DEF Clz

\* The divisor is at least the period scaled by 2^shift, whether bits of the
\* fraction are kept or cut.
LEMMA DivisorCovers ==
  ASSUME NEW shift \in Nat, period \in Nat, period > 0, period_frac \in Nat
  PROVE  /\ Divisor(shift) \in Nat /\ Divisor(shift) > 0
         /\ Divisor(shift) * Pow2[F] >= (period * Pow2[F] + period_frac) * Pow2[shift]
<1> DEFINE p == period
           f == period_frac
           S == Pow2[shift]
<1>1. S \in Nat /\ S > 0
  BY Pow2Type
<1>2. p * S \in Nat /\ p * S > 0
  BY <1>1
<1>3. CASE shift >= F
  <2> DEFINE T == Pow2[shift - F]
  <2>1. T \in Nat /\ T > 0 /\ S = Pow2[F] * T
    <3>1. shift - F \in Nat /\ F + (shift - F) = shift
      BY <1>3, Words
    <3>2. Pow2[F + (shift - F)] = Pow2[F] * Pow2[shift - F]
      BY <3>1, Words, Pow2Sum
    <3>3. QED BY <3>1, <3>2, Pow2Type
  <2>2. Divisor(shift) = p * S + f * T
    BY <1>3 DEF Divisor
  <2> HIDE DEF S, T
  <2>3. f * T \in Nat /\ (f * T) * Pow2[F] = f * S
    BY <2>1, Words
  <2>4. (p * S + f * T) * Pow2[F] = (p * Pow2[F] + f) * S
    BY <2>3, <1>1, Words
  <2>5. QED BY <2>2, <2>3, <2>4, <1>1, <1>2, Words DEF S
<1>4. CASE shift < F
  <2> DEFINE M == Pow2[F - shift]
             q == f \div M
             r == f % M
             up == IF (f * S) % Pow2[F] # 0 THEN 1 ELSE 0
  <2>1. M \in Nat /\ M > 0 /\ Pow2[F] = M * S
    <3>1. F - shift \in Nat /\ (F - shift) + shift = F
      BY <1>4, Words
    <3>2. Pow2[(F - shift) + shift] = Pow2[F - shift] * Pow2[shift]
      BY <3>1, Pow2Sum
    <3>3. QED BY <3>1, <3>2, Pow2Type
  <2>2. Divisor(shift) = p * S + q + up
    BY <1>4, Words DEF Divisor
  <2>3. q \in Nat /\ r \in 0 .. M - 1 /\ f = M * q + r
    BY <2>1, Division
  <2>4. up \in {0, 1} /\ (r # 0 => up = 1)
    BY <2>1, <1>1, ScaledRemainder
  <2> HIDE DEF S, M, q, r, up
  <2>5. (q + up) * M >= f
    BY <2>1, <2>3, <2>4
  <2>6. (p * S + q + up) * M >= p * Pow2[F] + f
    <3>1. (p * S + q + up) * M = p * (M * S) + (q + up) * M
      BY <1>1, <2>1, <2>3, <2>4
    <3>2. QED BY <3>1, <2>5, <2>1, <2>3, <2>4, <1>1
  <2>7. ((p * S + q + up) * M) * S >= (p * Pow2[F] + f) * S
    <3> DEFINE x == (p * S + q + up) * M
               y == p * Pow2[F] + f
    <3>1. x \in Nat /\ y \in Nat /\ x >= y
      BY <2>1, <2>3, <2>4, <2>6, <1>1, Words
    <3> HIDE DEF x, y
    <3>2. x * S >= y * S
      BY <3>1, <1>1
    <3>3. QED BY <3>2 DEF x, y
  <2>8. ((p * S + q + up) * M) * S = (p * S + q + up) * Pow2[F]
    <3> DEFINE x == p * S + q + up
    <3>1. x \in Nat
      BY <2>3, <2>4, <1>1
    <3> HIDE DEF x
    <3>2. (x * M) * S = x * (M * S)
      BY <3>1, <2>1, <1>1
    <3>3. QED BY <3>2, <2>1 DEF x
  <2>9. p * S + q + up \in Nat /\ p * S + q + up > 0
    BY <1>1, <1>2, <2>3, <2>4
  <2>10. QED BY <2>2, <2>7, <2>8, <2>9 DEF S
<1>5. QED BY <1>3, <1>4, Words

\* A count read while the timer runs is at most the exact quotient.
LEMMA QuotientRounds ==
  ASSUME next_event \in Nat, period \in Nat, period > 0, period_frac \in Nat
  PROVE  /\ Quotient \in Nat
         /\ Quotient * (period * Pow2[F] + period_frac) <= next_event * Pow2[F]
<1> DEFINE shift == IF Clz(next_event) < Clz(period) THEN Clz(next_event) ELSE Clz(period)
           S == Pow2[shift]
           D == Divisor(shift)
           P == period * Pow2[F] + period_frac
           e == next_event
           q == Quotient
<1>1. shift \in Nat
  BY ClzType
<1> HIDE DEF shift
<1>2. S \in Nat /\ S > 0
  BY <1>1, Pow2Type
<1>3. D \in Nat /\ D > 0 /\ D * Pow2[F] >= P * S
  BY <1>1, DivisorCovers
<1>4. q = (e * S) \div D
  BY DEF Quotient, shift
<1> HIDE DEF S, D, q
<1>5. e * S \in Nat
  BY <1>2
<1>6. q \in Nat /\ q * D <= e * S
  <2> DEFINE x == e * S
  <2> HIDE DEF x
  <2>1. x \in Nat /\ q = x \div D
    BY <1>4, <1>5 DEF x
  <2>2. q \in Nat /\ x % D \in Nat /\ x = D * q + (x % D)
    BY <2>1, <1>3, Division
  <2>3. q * D = D * q
    BY <2>2, <1>3
  <2>4. D * q \in Nat
    BY <2>2, <1>3
  <2>5. q * D <= x
    BY <2>2, <2>3, <2>4
  <2>6. QED BY <2>2, <2>5 DEF x
<1>7. P \in Nat
  BY Words
<1> HIDE DEF P
<1>8. (q * P) * S <= (e * Pow2[F]) * S
  <2>1. q * (P * S) <= q * (D * Pow2[F])
    <3> DEFINE a == P * S
               b == D * Pow2[F]
    <3>1. a \in Nat /\ b \in Nat /\ a <= b
      BY <1>2, <1>3, <1>7, Words
    <3> HIDE DEF a, b
    <3>2. q * a <= q * b
      BY <3>1, <1>6
    <3>3. QED BY <3>2 DEF a, b
  <2>2. (q * D) * Pow2[F] <= (e * S) * Pow2[F]
    <3> DEFINE a == q * D
               b == e * S
    <3>1. a \in Nat /\ b \in Nat /\ a <= b
      BY <1>2, <1>3, <1>5, <1>6
    <3> HIDE DEF a, b
    <3>2. a * Pow2[F] <= b * Pow2[F]
      BY <3>1, Words
    <3>3. QED BY <3>2 DEF a, b
  <2>3. q * (P * S) = (q * P) * S /\ q * (D * Pow2[F]) = (q * D) * Pow2[F]
        /\ (e * S) * Pow2[F] = (e * Pow2[F]) * S
    BY <1>2, <1>3, <1>6, <1>7, Words
  <2>4. /\ q * (P * S) \in Int /\ q * (D * Pow2[F]) \in Int /\ (e * S) * Pow2[F] \in Int
    BY <1>2, <1>3, <1>6, <1>7, Words
  <2>5. QED BY <2>1, <2>2, <2>3, <2>4
<1>9. q * P <= e * Pow2[F]
  <2> DEFINE a == q * P
             b == e * Pow2[F]
  <2>1. a \in Nat /\ b \in Nat /\ a * S <= b * S
    BY <1>6, <1>7, <1>8, Words
  <2> HIDE DEF a, b
  <2>2. a <= b
    BY <2>1, <1>2
  <2>3. QED BY <2>2 DEF a, b
<1>10. QED BY <1>6, <1>9 DEF P, q

-----------------------------------------------------------------------------
(***************************************************************************)
(* The invariant.  PtimerTypeOK and EnabledArmed together are inductive, and     *)
(* they make RoundedDown a fact about the division.                        *)
(***************************************************************************)
Inv == PtimerTypeOK /\ EnabledArmed

\* Every reload leaves the timer either stopped or armed for its next event.
LEMMA ReloadRight ==
  ASSUME bh \in BOOLEAN, timer \in Int,
         NEW e \in 0 .. 2, NEW d \in Nat, NEW l \in Nat, NEW p \in Nat,
         NEW f \in Nat, NEW ev \in Int, NEW still \in BOOLEAN, NEW trig \in BOOLEAN,
         Reload(e, d, l, p, f, ev, still, trig)
  PROVE  /\ enabled' \in 0 .. 2 /\ delta' \in Nat /\ next_event' \in Int
         /\ armed' \in BOOLEAN /\ timer' \in Int /\ bh' \in BOOLEAN
         /\ enabled' # 0 => armed' /\ timer' = next_event' /\ p # 0 /\ delta' # 0
<1> DEFINE d1 == IF d = 0 THEN l ELSE d
           at == ev + d1 * p + ((f * d1) \div Pow2[F])
<1>1. d1 \in Nat /\ d1 * p \in Nat /\ f * d1 \in Nat
  OBVIOUS
<1>2. (f * d1) \div Pow2[F] \in Int
  BY <1>1, Words, Division
<1>3. at \in Int
  BY <1>1, <1>2
<1>4. bh' \in BOOLEAN
  BY DEF Reload
<1>5. /\ delta' = d1
      /\ IF d1 = 0 \/ p = 0
         THEN enabled' = 0 /\ next_event' = ev /\ armed' = still /\ UNCHANGED timer
         ELSE enabled' = e /\ next_event' = at /\ armed' = TRUE /\ timer' = at
  BY DEF Reload
<1> HIDE DEF d1, at
<1>6. armed' = TRUE \/ (armed' = still /\ enabled' = 0)
  BY <1>5
<1>7. armed' \in BOOLEAN /\ (enabled' # 0 => armed')
  BY <1>6, Zenon
<1>8. delta' \in Nat /\ enabled' \in 0 .. 2 /\ next_event' \in Int /\ timer' \in Int
      /\ (enabled' # 0 => timer' = next_event' /\ p # 0 /\ delta' # 0)
  BY <1>1, <1>3, <1>5
<1>9. QED BY <1>4, <1>7, <1>8, Zenon

LEMMA PtimerTickKeeps == Inv /\ ptimer_tick => Inv'
<1> SUFFICES ASSUME Inv, ptimer_tick PROVE Inv'
  OBVIOUS
<1>1. UNCHANGED <<limit, period, period_frac, ops>>
  BY DEF ptimer_tick, rate
<1>2. CASE enabled = 2
  <2>1. enabled' = 0 /\ delta' = 0 /\ bh' = TRUE /\ armed' = FALSE /\ UNCHANGED <<next_event, timer>>
    BY <1>2 DEF ptimer_tick
  <2>2. armed' \in BOOLEAN /\ bh' \in BOOLEAN
    BY <2>1
  <2>6. limit' = limit /\ period' = period /\ period_frac' = period_frac /\ ops' = ops
        /\ next_event' = next_event /\ timer' = timer
    BY <1>1, <2>1
  <2>3. enabled' \in 0 .. 2 /\ delta' \in Nat
    BY <2>1
  <2>4. PtimerTypeOK'
    BY <2>2, <2>3, <2>6, Zenon DEF Inv, PtimerTypeOK
  <2>5. QED BY <2>1, <2>4 DEF Inv, EnabledArmed
<1>3. CASE enabled # 2
  <2>1. Reload(enabled, 0, limit, period, period_frac, next_event, FALSE, TRUE)
    BY <1>3 DEF ptimer_tick
  <2>2. period_frac \in Nat
    BY Words DEF Inv, PtimerTypeOK
  <2>3. /\ enabled' \in 0 .. 2 /\ delta' \in Nat /\ next_event' \in Int
        /\ armed' \in BOOLEAN /\ timer' \in Int /\ bh' \in BOOLEAN
        /\ enabled' # 0 => armed' /\ timer' = next_event' /\ period # 0 /\ delta' # 0
    BY <2>1, <2>2, ReloadRight DEF Inv, PtimerTypeOK
  <2>4. QED BY <1>1, <2>3 DEF Inv, PtimerTypeOK, EnabledArmed
<1>4. QED BY <1>2, <1>3

\* A change of count, limit or rate.
LEMMA RestartKeeps ==
  ASSUME Inv, Call, NEW d \in Nat, NEW l \in Nat, NEW p \in Nat, NEW f \in 0 .. Pow2[F] - 1,
         Restart(d, l, p, f)
  PROVE  Inv'
<1>1. limit' = l /\ period' = p /\ period_frac' = f
  BY DEF Restart
<1>2. ops' \in 0 .. MaxOps
  BY PtimerAssumption DEF Call, Inv, PtimerTypeOK
<1>3. f \in Nat
  BY Words
<1>4. CASE enabled # 0
  <2>1. Reload(enabled, d, l, p, f, 0, armed, FALSE)
    BY <1>4 DEF Restart
  <2>2. /\ enabled' \in 0 .. 2 /\ delta' \in Nat /\ next_event' \in Int
        /\ armed' \in BOOLEAN /\ timer' \in Int /\ bh' \in BOOLEAN
        /\ enabled' # 0 => armed' /\ timer' = next_event' /\ p # 0 /\ delta' # 0
    <3>1. bh \in BOOLEAN /\ timer \in Int /\ enabled \in 0 .. 2 /\ armed \in BOOLEAN
          /\ FALSE \in BOOLEAN /\ 0 \in Int
      BY DEF Inv, PtimerTypeOK
    <3>2. QED BY <3>1, <2>1, <1>3, ReloadRight, Zenon
  <2>3. QED BY <1>1, <1>2, <2>2 DEF Inv, PtimerTypeOK, EnabledArmed
<1>5. CASE enabled = 0
  BY <1>1, <1>2, <1>5 DEF Restart, qtimer, Inv, PtimerTypeOK, EnabledArmed
<1>6. QED BY <1>4, <1>5

LEMMA RunKeeps ==
  ASSUME Inv, NEW o \in BOOLEAN, ptimer_run(o)
  PROVE  Inv'
<1> DEFINE e == IF o THEN 2 ELSE 1
<1>1. UNCHANGED <<limit, period, period_frac>> /\ e \in 0 .. 2 /\ period_frac \in Nat
  BY Words DEF ptimer_run, rate, Inv, PtimerTypeOK
<1>2. ops' \in 0 .. MaxOps
  BY PtimerAssumption DEF ptimer_run, Call, Inv, PtimerTypeOK
<1>3. Reload(e, delta, limit, period, period_frac, 0, armed, FALSE)
  BY DEF ptimer_run
<1> HIDE DEF e
<1>4. /\ enabled' \in 0 .. 2 /\ delta' \in Nat /\ next_event' \in Int
      /\ armed' \in BOOLEAN /\ timer' \in Int /\ bh' \in BOOLEAN
      /\ enabled' # 0 => armed' /\ timer' = next_event' /\ period # 0 /\ delta' # 0
  <2>1. bh \in BOOLEAN /\ timer \in Int /\ armed \in BOOLEAN /\ delta \in Nat
        /\ limit \in Nat /\ period \in Nat /\ FALSE \in BOOLEAN /\ 0 \in Int
    BY DEF Inv, PtimerTypeOK
  <2>2. QED BY <2>1, <1>1, <1>3, ReloadRight, Zenon
<1>5. QED BY <1>1, <1>2, <1>4 DEF Inv, PtimerTypeOK, EnabledArmed

LEMMA StopKeeps == Inv /\ ptimer_stop => Inv'
<1> SUFFICES ASSUME Inv, ptimer_stop PROVE Inv'
  OBVIOUS
<1>1. ops' \in 0 .. MaxOps
  BY PtimerAssumption DEF ptimer_stop, Call, Inv, PtimerTypeOK
<1>2. ptimer_get_count \in Nat
  <2>1. period_frac \in Nat
    BY Words DEF Inv, PtimerTypeOK
  <2>2. CASE enabled # 0 /\ next_event >= 0 /\ period # 0
    BY <2>1, <2>2, QuotientRounds DEF ptimer_get_count, Inv, PtimerTypeOK
  <2>3. CASE ~(enabled # 0 /\ next_event >= 0 /\ period # 0)
    BY <2>3 DEF ptimer_get_count, Inv, PtimerTypeOK
  <2>4. QED BY <2>2, <2>3
<1>3. /\ delta' = ptimer_get_count /\ armed' = FALSE /\ enabled' = 0
      /\ UNCHANGED <<limit, period, period_frac, next_event, timer, bh>>
  BY DEF ptimer_stop, rate
<1>4. PtimerTypeOK'
  <2>1. armed' \in BOOLEAN
    BY <1>3, Zenon
  <2>4. enabled' \in 0 .. 2
    BY <1>3
  <2>2. limit' = limit /\ period' = period /\ period_frac' = period_frac
        /\ next_event' = next_event /\ timer' = timer /\ bh' = bh
    BY <1>3
  <2>3. QED BY <2>1, <2>2, <2>4, <1>1, <1>2, <1>3, Zenon DEF Inv, PtimerTypeOK
<1>5. QED BY <1>3, <1>4 DEF Inv, EnabledArmed

LEMMA CallKeeps == Inv /\ DeviceCall => Inv'
<1> SUFFICES ASSUME Inv, DeviceCall PROVE Inv'
  OBVIOUS
<1>1. CASE \E c \in Limits : ptimer_set_count(c)
  BY <1>1, RestartKeeps, PtimerAssumption DEF ptimer_set_count, Inv, PtimerTypeOK
<1>2. CASE \E o \in BOOLEAN : ptimer_run(o)
  BY <1>2, RunKeeps
<1>3. CASE ptimer_stop
  BY <1>3, StopKeeps
<1>4. CASE \E p \in Periods : ptimer_set_period(p)
  <2>1. 0 \in 0 .. Pow2[F] - 1
    BY Words
  <2>2. QED BY <1>4, <2>1, RestartKeeps, PtimerAssumption DEF ptimer_set_period, Inv, PtimerTypeOK
<1>5. CASE \E f \in Freqs : ptimer_set_freq(f)
  <2>1. PICK freq \in Freqs : ptimer_set_freq(freq)
    BY <1>5
  <2>2. freq \in Nat /\ freq > 0 /\ G \in Nat
    BY PtimerAssumption
  <2>3. G \div freq \in Nat
    BY <2>2, Division
  <2>4. G * Pow2[F] \in Nat
    BY <2>2, Words
  <2>5. (G * Pow2[F]) \div freq \in Nat
    BY <2>2, <2>4, Division
  <2>6. ((G * Pow2[F]) \div freq) % Pow2[F] \in 0 .. Pow2[F] - 1
    BY <2>5, Words, Division
  <2>7. delta \in Nat /\ limit \in Nat
    BY DEF Inv, PtimerTypeOK
  <2>8. Call /\ Restart(delta, limit, G \div freq, ((G * Pow2[F]) \div freq) % Pow2[F])
    BY <2>1 DEF ptimer_set_freq
  <2>9. QED BY <2>3, <2>6, <2>7, <2>8, RestartKeeps
<1>6. CASE \E l \in Limits, r \in BOOLEAN : ptimer_set_limit(l, r)
  <2>1. PICK l \in Limits, r \in BOOLEAN : ptimer_set_limit(l, r)
    BY <1>6
  <2>2. CASE r
    BY <2>1, <2>2, RestartKeeps, PtimerAssumption DEF ptimer_set_limit, Inv, PtimerTypeOK
  <2>3. CASE ~r
    BY <2>1, <2>3, PtimerAssumption
       DEF ptimer_set_limit, Call, rate, qtimer, Inv, PtimerTypeOK, EnabledArmed
  <2>4. QED BY <2>2, <2>3
<1>7. QED BY <1>1, <1>2, <1>3, <1>4, <1>5, <1>6 DEF DeviceCall

LEMMA StepKeeps == Inv /\ [PtimerNext]_ptvars => Inv'
<1> SUFFICES ASSUME Inv, [PtimerNext]_ptvars PROVE Inv'
  OBVIOUS
<1>1. CASE ptimer_tick
  BY <1>1, PtimerTickKeeps
<1>2. CASE DeviceCall
  BY <1>2, CallKeeps
<1>3. CASE BottomHalf
  BY <1>3 DEF BottomHalf, rate, qtimer, Inv, PtimerTypeOK, EnabledArmed
<1>4. CASE Time
  BY <1>4, PtimerAssumption DEF Time, rate, Inv, PtimerTypeOK, EnabledArmed
<1>5. CASE UNCHANGED ptvars
  BY <1>5 DEF ptvars, Inv, PtimerTypeOK, EnabledArmed
<1>6. QED BY <1>1, <1>2, <1>3, <1>4, <1>5 DEF PtimerNext

LEMMA InitHolds == PtimerInit => Inv
<1> SUFFICES ASSUME PtimerInit PROVE PtimerTypeOK /\ EnabledArmed
  BY DEF Inv
<1>1. PtimerTypeOK
  <2>1. enabled \in 0 .. 2 /\ limit \in Nat /\ delta \in Nat /\ period \in Nat
        /\ next_event \in Int /\ timer \in Int
    BY DEF PtimerInit
  <2>2. period_frac \in 0 .. Pow2[F] - 1 /\ ops \in 0 .. MaxOps
    BY Words, PtimerAssumption DEF PtimerInit
  <2>3. armed \in BOOLEAN /\ bh \in BOOLEAN
    BY DEF PtimerInit
  <2>4. QED BY <2>1, <2>2, <2>3 DEF PtimerTypeOK
<1>2. EnabledArmed
  BY DEF PtimerInit, EnabledArmed
<1>3. QED BY <1>1, <1>2

\* A running timer is armed for its next event with a period and a count,
\* through every reload, late tick and change of rate, and a count read from it
\* is never more than the time left divided by the exact period, for every
\* width of the words and of the fraction (ptimer_reload, ptimer_get_count).
THEOREM CountCorrect == PtimerSpec => []CountRight
<1>1. Inv => CountRight
  <2> SUFFICES ASSUME Inv, enabled # 0, next_event >= 0
               PROVE  ptimer_get_count * (period * Pow2[F] + period_frac) <= next_event * Pow2[F]
    BY DEF Inv, CountRight, RoundedDown
  <2>1. period \in Nat /\ period > 0 /\ period_frac \in Nat /\ next_event \in Nat
    BY Words DEF Inv, PtimerTypeOK, EnabledArmed
  <2>2. ptimer_get_count = Quotient
    BY <2>1 DEF ptimer_get_count
  <2>3. QED BY <2>1, <2>2, QuotientRounds
<1>2. QED BY InitHolds, StepKeeps, <1>1, PTL DEF PtimerSpec

\* A periodic timer that is left alone moves its next event by whole periods:
\* a tick that runs late does not move the ones after it (ptimer_tick).
THEOREM EventsDoNotDrift == PtimerSpec => NoDrift
<1> DEFINE Rounds == enabled = 1 /\ enabled' = 1 /\ ops' = ops /\ timer' > timer
                     => timer' = timer + delta' * period + ((period_frac * delta') \div Pow2[F])
<1>1. Inv /\ [PtimerNext]_ptvars => [Rounds]_ptvars
  <2> SUFFICES ASSUME Inv, PtimerNext, enabled = 1, enabled' = 1, ops' = ops, timer' > timer
               PROVE  timer' = timer + delta' * period + ((period_frac * delta') \div Pow2[F])
    OBVIOUS
  <2>1. CASE ptimer_tick
    <3>0. enabled # 2
      OBVIOUS
    <3>1. Reload(enabled, 0, limit, period, period_frac, next_event, FALSE, TRUE)
      BY <2>1, <3>0, Zenon DEF ptimer_tick
    <3>2. timer' = next_event + delta' * period + ((period_frac * delta') \div Pow2[F])
      BY <3>1 DEF Reload
    <3>3. QED BY <3>2 DEF Inv, EnabledArmed
  <2>2. CASE DeviceCall
    <3>1. ops' = ops + 1 /\ ops \in Nat
      BY <2>2, PtimerAssumption
         DEF DeviceCall, ptimer_set_count, ptimer_run, ptimer_stop, ptimer_set_period,
             ptimer_set_freq, ptimer_set_limit, Call, Inv, PtimerTypeOK
    <3>2. QED BY <3>1
  <2>3. CASE BottomHalf \/ Time
    BY <2>3 DEF BottomHalf, Time, qtimer, Inv, PtimerTypeOK
  <2>4. QED BY <2>1, <2>2, <2>3 DEF PtimerNext
<1>2. QED BY InitHolds, StepKeeps, <1>1, PTL DEF PtimerSpec, NoDrift
=============================================================================
