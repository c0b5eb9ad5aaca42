------------------------------- MODULE Ptimer -------------------------------
(***************************************************************************)
(* The countdown timer library (hw/ptimer.c).  A counter of delta steps of *)
(* period + frac / 2^F nanoseconds is not counted down: the library keeps  *)
(* the time of its next event, arms a QEMUTimer for it, and divides when   *)
(* the counter is read.  Times are relative to the present.                *)
(***************************************************************************)
EXTENDS Integers, FiniteSets

CONSTANTS
  W,        \* bits of a word (64)
  F,        \* bits of period_frac (32)
  G,        \* nanoseconds in a second, for ptimer_set_freq
  Limits,   \* limits and counts a device may set
  Periods,  \* periods a device may set
  Freqs,    \* frequencies a device may set
  MaxLate,  \* bound: how late the main loop runs a timer
  MaxOps    \* bound: calls a device makes

ASSUME PtimerAssumption ==
  /\ W \in Nat /\ F \in 1..W /\ G \in Nat
  /\ Limits \subseteq Nat /\ Periods \subseteq Nat /\ Freqs \subseteq Nat \ {0}
  /\ MaxLate \in Nat /\ MaxOps \in Nat

VARIABLES
  enabled,      \* 0 disabled, 1 periodic, 2 one shot
  limit, delta, period, period_frac,
  next_event,   \* time to the next event
  armed, timer, \* the QEMUTimer is armed, and the time to its expiry
  bh,           \* the device's bottom half is scheduled
  ops           \* calls made by the device

ptvars == <<enabled, limit, delta, period, period_frac, next_event, armed, timer, bh, ops>>
rate == <<period, period_frac>>
qtimer == <<armed, timer>>

-----------------------------------------------------------------------------
(***************************************************************************)
(* ptimer_get_count: the 64-bit division by a 64.32 fixed-point period.    *)
(***************************************************************************)
Pow2[n \in Nat] == IF n = 0 THEN 1 ELSE 2 * Pow2[n - 1]

Clz(x) == Cardinality({b \in 0..W - 1 : x < Pow2[b]})

\* Mutant: the divisor is rounded down.
DivisorDown(shift) ==
  period * Pow2[shift] + (IF shift >= F THEN period_frac * Pow2[shift - F]
                                    ELSE period_frac \div Pow2[F - shift])

\* The period scaled by 2^shift, rounded up when bits of the fraction are cut.
Divisor(shift) ==
  IF shift >= F
  THEN period * Pow2[shift] + period_frac * Pow2[shift - F]
  ELSE period * Pow2[shift] + (period_frac \div Pow2[F - shift])
         + (IF (period_frac * Pow2[shift]) % Pow2[F] # 0 THEN 1 ELSE 0)

Quotient ==
  LET shift == IF Clz(next_event) < Clz(period) THEN Clz(next_event) ELSE Clz(period)
  IN (next_event * Pow2[shift]) \div Divisor(shift)

ptimer_get_count ==
  IF enabled = 0 THEN delta
  ELSE IF next_event < 0 \/ period = 0 THEN 0 ELSE Quotient

-----------------------------------------------------------------------------
(***************************************************************************)
(* Reloading.                                                              *)
(***************************************************************************)

\* ptimer_reload with count d, limit l, period p + f / 2^F, and the last event
\* at ev, for a timer that keeps or gets the mode e.  still: the QEMUTimer is
\* armed before; trig: the device has already been triggered.
Reload(e, d, l, p, f, ev, still, trig) ==
  LET d1 == IF d = 0 THEN l ELSE d
      at == ev + d1 * p + ((f * d1) \div Pow2[F])
  IN /\ delta' = d1
     /\ bh' = (bh \/ trig \/ d = 0)
     /\ IF d1 = 0 \/ p = 0
        THEN enabled' = 0 /\ next_event' = ev /\ armed' = still /\ UNCHANGED timer
        ELSE enabled' = e /\ next_event' = at /\ armed' = TRUE /\ timer' = at

\* Mutant: the next event is noted and the QEMUTimer not armed for it.
TickOnce ==
  /\ armed /\ timer <= 0 /\ armed' = FALSE
  /\ delta' = 0 /\ bh' = TRUE
  /\ enabled' = IF enabled = 2 THEN 0 ELSE enabled
  /\ UNCHANGED <<limit, rate, next_event, timer, ops>>

\* Mutant: the next period is counted from now, and not from the last event.
TickFromNow ==
  /\ armed /\ timer <= 0
  /\ IF enabled = 2
     THEN /\ enabled' = 0 /\ delta' = 0 /\ bh' = TRUE /\ armed' = FALSE
          /\ UNCHANGED <<next_event, timer>>
     ELSE Reload(enabled, 0, limit, period, period_frac, 0, FALSE, TRUE)
  /\ UNCHANGED <<limit, rate, ops>>

\* ptimer_tick, the callback of the QEMUTimer.
ptimer_tick ==
  /\ armed /\ timer <= 0
  /\ IF enabled = 2
     THEN /\ enabled' = 0 /\ delta' = 0 /\ bh' = TRUE /\ armed' = FALSE
          /\ UNCHANGED <<next_event, timer>>
     ELSE Reload(enabled, 0, limit, period, period_frac, next_event, FALSE, TRUE)
  /\ UNCHANGED <<limit, rate, ops>>

-----------------------------------------------------------------------------
(***************************************************************************)
(* The calls a device makes.                                               *)
(***************************************************************************)
Call == ops < MaxOps /\ ops' = ops + 1

\* The count is set to d, and the period and the limit to p, f and l: a timer
\* that runs starts again now.
Restart(d, l, p, f) ==
  /\ IF enabled # 0
     THEN Reload(enabled, d, l, p, f, 0, armed, FALSE)
     ELSE delta' = d /\ UNCHANGED <<enabled, next_event, qtimer, bh>>
  /\ limit' = l /\ period' = p /\ period_frac' = f

ptimer_set_count(count) == Call /\ Restart(count, limit, period, period_frac)

ptimer_run(oneshot) ==
  /\ Call /\ enabled = 0 /\ period # 0
  /\ Reload(IF oneshot THEN 2 ELSE 1, delta, limit, period, period_frac, 0, armed, FALSE)
  /\ UNCHANGED <<limit, rate>>

ptimer_stop ==
  /\ Call /\ enabled # 0
  /\ delta' = ptimer_get_count /\ armed' = FALSE /\ enabled' = 0
  /\ UNCHANGED <<limit, rate, next_event, timer, bh>>

ptimer_set_period(p) == Call /\ Restart(delta, limit, p, 0)

ptimer_set_freq(freq) ==
  Call /\ Restart(delta, limit, G \div freq, ((G * Pow2[F]) \div freq) % Pow2[F])

ptimer_set_limit(l, reload) ==
  IF reload THEN Call /\ Restart(l, l, period, period_frac)
  ELSE Call /\ limit' = l /\ UNCHANGED <<enabled, delta, rate, next_event, qtimer, bh>>

-----------------------------------------------------------------------------
(***************************************************************************)
(* The main loop: the bottom half runs, and the clock.                     *)
(***************************************************************************)
BottomHalf == bh /\ bh' = FALSE
              /\ UNCHANGED <<enabled, limit, delta, rate, next_event, qtimer, ops>>

\* A nanosecond passes.  Without the QEMUTimer nothing depends on the time.
Time ==
  /\ armed /\ timer > -MaxLate
  /\ timer' = timer - 1
  /\ next_event' = IF next_event < -MaxLate THEN next_event ELSE next_event - 1
  /\ UNCHANGED <<enabled, limit, delta, rate, armed, bh, ops>>

PtimerInit ==
  /\ enabled = 0 /\ limit = 0 /\ delta = 0 /\ period = 0 /\ period_frac = 0
  /\ next_event = 0 /\ armed = FALSE /\ timer = 0 /\ bh = FALSE /\ ops = 0

DeviceCall ==
  \/ \E c \in Limits : ptimer_set_count(c)
  \/ \E o \in BOOLEAN : ptimer_run(o)
  \/ ptimer_stop
  \/ \E p \in Periods : ptimer_set_period(p)
  \/ \E f \in Freqs : ptimer_set_freq(f)
  \/ \E l \in Limits, r \in BOOLEAN : ptimer_set_limit(l, r)

PtimerNext == ptimer_tick \/ DeviceCall \/ BottomHalf \/ Time

PtimerSpec == PtimerInit /\ [][PtimerNext]_ptvars

\* Time passes and the main loop runs timers and bottom halves.  Nothing is
\* assumed of the device.
PtimerFairSpec == PtimerSpec /\ WF_ptvars(Time) /\ WF_ptvars(ptimer_tick) /\ WF_ptvars(BottomHalf)

-----------------------------------------------------------------------------
(***************************************************************************)
(* Properties.                                                             *)
(***************************************************************************)

\* The types of the variables.
PtimerTypeOK ==
  /\ enabled \in 0..2 /\ limit \in Nat /\ delta \in Nat
  /\ period \in Nat /\ period_frac \in 0..Pow2[F] - 1
  /\ next_event \in Int /\ armed \in BOOLEAN /\ timer \in Int
  /\ bh \in BOOLEAN /\ ops \in 0..MaxOps

\* A timer that runs has its QEMUTimer armed for its next event, through every
\* reload, late tick and change of rate: it cannot stall, and what a reader of
\* the counter is told agrees with when the device will be triggered.
EnabledArmed == enabled # 0 => armed /\ timer = next_event /\ period # 0 /\ delta # 0

\* The counter read is not more than the exact quotient (the comment in
\* ptimer_get_count: the result is rounded down).
RoundedDown ==
  enabled # 0 /\ next_event >= 0
    => ptimer_get_count * (period * Pow2[F] + period_frac) <= next_event * Pow2[F]

\* A late tick does not move the events that follow: a periodic timer that is
\* left alone has its next event a whole number of rounds after the last.
NoDrift ==
  [][enabled = 1 /\ enabled' = 1 /\ ops' = ops /\ timer' > timer
       => timer' = timer + delta' * period + ((period_frac * delta') \div Pow2[F])]_ptvars

\* A periodic timer triggers its device again and again until it is stopped.
PeriodicFires == (enabled = 1) ~> (bh \/ enabled # 1)

\* What the counter says is what will happen: a running timer is armed for its
\* next event and its reading never exceeds the time left (ptimer_reload,
\* ptimer_get_count).
CountRight == PtimerTypeOK /\ EnabledArmed /\ RoundedDown
=============================================================================
