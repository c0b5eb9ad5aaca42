----------------------------- MODULE BottomHalf -----------------------------
(***************************************************************************)
(* Bottom halves and the stack of AsyncContexts (async.c): the list of     *)
(* bottom halves of each context, the walk of qemu_bh_poll with callbacks  *)
(* that change the list under it, and contexts pushed and popped by        *)
(* callbacks that perform synchronous I/O (bdrv_read_em).                  *)
(*                                                                         *)
(* A device owns its bottom half for ever and schedules it from anywhere.  *)
(* A request (bdrv_aio_rw_vector, qcow_schedule_bh, async_context_pop)     *)
(* makes one where it is submitted, schedules it, and deletes it when it   *)
(* runs.                                                                   *)
(***************************************************************************)
EXTENDS Naturals, Sequences, FiniteSets, Lists

CONSTANTS
  Devs,       \* bottom halves of devices, made before the machine runs
  IdleDevs,   \* those also scheduled with qemu_bh_schedule_idle (hw/dma.c)
  Reqs,       \* bottom halves of requests, memory that is used again
  NoBh,       \* a null pointer
  MaxDepth,   \* bound: contexts on top of the first
  MaxOps      \* bound: requests and synchronous calls in a behaviour

ASSUME BhAssumption ==
  /\ IdleDevs \subseteq Devs /\ Devs \cap Reqs = {} /\ IsFiniteSet(Devs)
  /\ NoBh \notin Devs \cup Reqs
  /\ MaxDepth \in Nat /\ MaxOps \in Nat
  /\ IsFiniteSet(Reqs) /\ Cardinality(Reqs) >= MaxOps   \* malloc succeeds

VARIABLES
  ctx,   \* the first_bh list of every context, the active one last
  bh,    \* the fields of every QEMUBH
  stk,   \* the calls in progress, innermost last
  ops    \* requests and synchronous calls so far

vars == <<ctx, bh, stk, ops>>

Bhs == Devs \cup Reqs

\* alive: allocated; ran: its callback has been called since it was made;
\* home: the context it was made in.  The last two are not in the code.
QEMUBH == [alive : BOOLEAN, scheduled : BOOLEAN, idle : BOOLEAN,
           deleted : BOOLEAN, early : BOOLEAN, ran : BOOLEAN,
           home : 0 .. MaxDepth + 1]

(***************************************************************************)
(* Frames of the stack:                                                    *)
(*   main    the main loop: devices, timers, fd handlers                   *)
(*   poll    qemu_bh_poll, bh the last one called, ret its result so far   *)
(*   cb      the callback of bh                                            *)
(*   aio     a completion callback, called by qemu_aio_process_queue       *)
(*   submit  bdrv_aio_rw_vector between qemu_bh_new and qemu_bh_schedule   *)
(*   sync    bdrv_read_em between push and pop                             *)
(*   pop     async_context_pop; ret: what its last qemu_bh_poll returned   *)
(***************************************************************************)
Kinds == {"main", "poll", "cb", "aio", "submit", "sync", "pop"}
Frame(k, b, r) == [k |-> k, bh |-> b, ret |-> r, lvl |-> Len(ctx)]
Top == stk[Len(stk)]
Below == SubSeq(stk, 1, Len(stk) - 1)
Call(f) == stk' = Append(stk, f)

\* C code that may use the interface: not the inside of a poll or a wait.
InCode == Top.k \in {"main", "cb", "aio"}
OnStack(b) == \E n \in DOMAIN stk : stk[n].k \in {"cb", "submit"} /\ stk[n].bh = b

Current == ctx[Len(ctx)]
Runnable(b) == ~bh[b].deleted /\ bh[b].scheduled

Fresh(early, lvl) ==
  [alive |-> TRUE, scheduled |-> FALSE, idle |-> FALSE, deleted |-> FALSE,
   early |-> early, ran |-> FALSE, home |-> lvl]
Freed(b) == [b EXCEPT !.alive = FALSE, !.scheduled = FALSE]
Scheduled(b, idle) == IF b.scheduled THEN b
                      ELSE [b EXCEPT !.scheduled = TRUE, !.idle = idle]
Deleted(b) == [b EXCEPT !.scheduled = FALSE, !.deleted = TRUE]

\* The list of the context a bottom half is linked into by qemu_bh_new.
Linked(c, b) == [c EXCEPT ![Len(c)] = <<b>> \o @]

-----------------------------------------------------------------------------
(***************************************************************************)
(* What devices and block drivers do, in the main loop or in a callback.   *)
(***************************************************************************)
qemu_bh_schedule(d) ==
  /\ InCode
  /\ bh' = [bh EXCEPT ![d] = Scheduled(@, FALSE)]
  /\ UNCHANGED <<ctx, stk, ops>>

qemu_bh_schedule_idle(d) ==
  /\ InCode /\ d \in IdleDevs
  /\ bh' = [bh EXCEPT ![d] = Scheduled(@, TRUE)]
  /\ UNCHANGED <<ctx, stk, ops>>

qemu_bh_cancel(d) ==
  /\ InCode
  /\ bh' = [bh EXCEPT ![d].scheduled = FALSE]
  /\ UNCHANGED <<ctx, stk, ops>>

\* A request: its bottom half is made now and scheduled at the end of the
\* submission, which may perform synchronous I/O in between.
qemu_bh_new(b, early) ==
  /\ InCode /\ ops < MaxOps /\ ~bh[b].alive
  /\ bh' = [bh EXCEPT ![b] = Fresh(early, Len(ctx))]
  /\ ctx' = Linked(ctx, b)
  /\ ops' = ops + 1
  /\ Call(Frame("submit", b, FALSE))

Submitted ==
  /\ Top.k = "submit"
  /\ bh' = [bh EXCEPT ![Top.bh] = Scheduled(@, FALSE)]
  /\ stk' = Below
  /\ UNCHANGED <<ctx, ops>>

\* bdrv_aio_cancel_em: the owner withdraws a request that has not been
\* called back.
qemu_bh_delete(b) ==
  /\ InCode /\ bh[b].alive /\ ~bh[b].deleted /\ ~OnStack(b)
  /\ bh' = [bh EXCEPT ![b] = Deleted(@)]
  /\ UNCHANGED <<ctx, stk, ops>>

\* bdrv_read_em, called from code or from bdrv_aio_rw_vector.
async_context_push ==
  /\ InCode \/ Top.k = "submit"
  /\ ops < MaxOps /\ Len(ctx) <= MaxDepth
  /\ ctx' = Append(ctx, <<>>)
  /\ ops' = ops + 1
  /\ stk' = Append(stk, [Frame("sync", NoBh, FALSE) EXCEPT !.lvl = Len(ctx) + 1])
  /\ UNCHANGED bh

\* A completion callback in qemu_aio_wait, from the AIO handlers.
AioCallback ==
  /\ Top.k \in {"sync", "main"}
  /\ Call(Frame("aio", NoBh, FALSE))
  /\ UNCHANGED <<ctx, bh, ops>>

\* Mutant: the bottom half is unlinked and freed by qemu_bh_delete itself.
ReturnFrees ==
  /\ Top.k \in {"cb", "aio"}
  /\ LET b == Top.bh  mine == Top.k = "cb" /\ b \in Reqs IN
     /\ bh' = IF mine THEN [bh EXCEPT ![b] = Freed(Deleted(@))] ELSE bh
     /\ ctx' = IF mine THEN [ctx EXCEPT ![Len(ctx)] = Without(@, b)]
               ELSE ctx
  /\ stk' = Below
  /\ UNCHANGED ops

\* The callback returns.  bdrv_aio_bh_cb deletes its bottom half at the end,
\* the others have done so at the start.
Return ==
  /\ Top.k \in {"cb", "aio"}
  /\ bh' = IF Top.k = "cb" /\ Top.bh \in Reqs
           THEN [bh EXCEPT ![Top.bh] = Deleted(@)] ELSE bh
  /\ stk' = Below
  /\ UNCHANGED <<ctx, ops>>

-----------------------------------------------------------------------------
(***************************************************************************)
(* qemu_bh_poll.                                                           *)
(***************************************************************************)
qemu_bh_poll ==
  /\ \/ Top.k \in {"main", "sync"}
     \/ Top.k = "pop" /\ Top.ret
  /\ Call(Frame("poll", NoBh, FALSE))
  /\ UNCHANGED <<ctx, bh, ops>>

\* The places of the list the walk has yet to visit, after the last bottom half
\* called (bh->next, read after the callback), that have one to call.
ToRun ==
  {i \in DOMAIN Current :
     /\ Runnable(Current[i])
     /\ Top.bh # NoBh => \E j \in 1 .. i - 1 : Current[j] = Top.bh}

\* The next scheduled bottom half of the walk is called.  One that deletes
\* itself first (bh_run_aio_completions, reschedule_dma) has done so when the
\* rest of its callback begins.
PollCall ==
  /\ Top.k = "poll"
  /\ \E i \in ToRun :
       LET b == Current[i]
           run == [bh[b] EXCEPT !.scheduled = FALSE, !.idle = FALSE, !.ran = TRUE]
       IN
       /\ \A j \in ToRun : i <= j
       /\ bh' = [bh EXCEPT ![b] = IF run.early THEN Deleted(run) ELSE run]
       /\ stk' = Append([stk EXCEPT ![Len(stk)].bh = b,
                                    ![Len(stk)].ret = @ \/ ~bh[b].idle],
                        Frame("cb", b, FALSE))
  /\ UNCHANGED <<ctx, ops>>

\* The end of the walk: deleted bottom halves are unlinked and freed, and
\* async_context_pop learns the result.
Kept(list) == Filtered(list, {b \in Bhs : ~bh[b].deleted})
Sweep(list) == [b \in Bhs |-> IF bh[b].deleted /\ b \in Elements(list)
                              THEN Freed(bh[b]) ELSE bh[b]]

PollDone ==
  /\ Top.k = "poll" /\ ToRun = {}
  /\ ctx' = [ctx EXCEPT ![Len(ctx)] = Kept(@)]
  /\ bh' = Sweep(Current)
  /\ stk' = IF stk[Len(stk) - 1].k = "pop"
            THEN [Below EXCEPT ![Len(stk) - 1].ret = Top.ret] ELSE Below
  /\ UNCHANGED ops

-----------------------------------------------------------------------------
(***************************************************************************)
(* async_context_pop: bottom halves are flushed until a poll does nothing; *)
(* then the context goes and the parent gets a bottom half that looks for  *)
(* queued completions (bh_run_aio_completions).                            *)
(***************************************************************************)
async_context_pop ==
  /\ Top.k = "sync"
  /\ stk' = [stk EXCEPT ![Len(stk)].k = "pop", ![Len(stk)].ret = TRUE]
  /\ UNCHANGED <<ctx, bh, ops>>

Popped ==
  /\ Top.k = "pop" /\ ~Top.ret
  /\ \E b \in Reqs :
       /\ ~bh[b].alive
       /\ ctx' = Linked(SubSeq(ctx, 1, Len(ctx) - 1), b)
       /\ bh' = [bh EXCEPT ![b] = Scheduled(Fresh(TRUE, Len(ctx) - 1), FALSE)]
  /\ stk' = Below
  /\ UNCHANGED ops

-----------------------------------------------------------------------------
(***************************************************************************)
(* How long main_loop_wait may sleep: 0, 10 ms, or "long" when no bottom   *)
(* half of the context asks for anything else.                             *)
(***************************************************************************)
\* Mutant: idle bottom halves do not shorten the sleep.
TimeoutIgnoresIdle ==
  IF \E i \in DOMAIN Current : Runnable(Current[i]) /\ ~bh[Current[i]].idle
  THEN "zero" ELSE "long"

qemu_bh_update_timeout ==
  LET due == {b \in Elements(Current) : Runnable(b)} IN
  CASE \E b \in due : ~bh[b].idle -> "zero"
    [] due # {} /\ \A b \in due : bh[b].idle -> "short"
    [] OTHER -> "long"

DevLists == {s \in [1 .. Cardinality(Devs) -> Devs] : NoRepeat(s)}

Init ==
  /\ \E s \in DevLists : Elements(s) = Devs /\ ctx = <<s>>
  /\ bh = [b \in Bhs |-> IF b \in Devs THEN Fresh(FALSE, 1)
                         ELSE Freed(Fresh(FALSE, 0))]
  /\ stk = <<[k |-> "main", bh |-> NoBh, ret |-> FALSE, lvl |-> 1]>>
  /\ ops = 0

Next ==
  \/ \E d \in Devs : qemu_bh_schedule(d) \/ qemu_bh_schedule_idle(d) \/ qemu_bh_cancel(d)
  \/ \E b \in Reqs : (\E e \in BOOLEAN : qemu_bh_new(b, e)) \/ qemu_bh_delete(b)
  \/ Submitted \/ async_context_push \/ AioCallback \/ Return
  \/ qemu_bh_poll \/ PollCall \/ PollDone
  \/ async_context_pop \/ Popped

Spec == Init /\ [][Next]_vars

(***************************************************************************)
(* The main thread goes on: calls return, synchronous I/O ends, polls end, *)
(* and the main loop comes back to its poll when it does not sleep long    *)
(* (the five seconds after which main_loop_wait returns in any case are    *)
(* not relied on).                                                         *)
(***************************************************************************)
Fairness ==
  /\ WF_vars(Submitted) /\ WF_vars(Return) /\ WF_vars(PollCall) /\ WF_vars(PollDone)
  /\ SF_vars(async_context_pop) /\ WF_vars(Popped)
  /\ WF_vars(qemu_bh_poll /\ Top.k = "pop")
  /\ SF_vars(qemu_bh_poll /\ Top.k = "main" /\ qemu_bh_update_timeout # "long")

FairSpec == Spec /\ Fairness

-----------------------------------------------------------------------------
(***************************************************************************)
(* Properties.                                                             *)
(***************************************************************************)

\* Types, with every context's list free of repetitions.
TypeOK ==
  /\ bh \in [Bhs -> QEMUBH]
  /\ ctx \in Seq(Seq(Bhs)) /\ Len(ctx) \in 1 .. MaxDepth + 1
  /\ \A c \in DOMAIN ctx : NoRepeat(ctx[c])
  /\ stk # <<>> /\ \A n \in DOMAIN stk : stk[n].k \in Kinds
  /\ ops \in 0 .. MaxOps

\* The walk of qemu_bh_poll never stands on freed memory: whatever callbacks
\* delete, and however deep they nest, the bottom half whose next pointer the
\* walk reads is still linked into the list it walks.
WalkOnLiveBh ==
  \A n \in DOMAIN stk :
    stk[n].k = "poll" /\ stk[n].bh # NoBh =>
      /\ bh[stk[n].bh].alive
      /\ stk[n].bh \in Elements(ctx[stk[n].lvl])

\* A callback is not entered again while it runs, and runs in the context it
\* was made in, as the comment on AsyncContext demands.
NoReentry ==
  \A n \in DOMAIN stk : stk[n].k = "cb" =>
    /\ bh[stk[n].bh].home = stk[n].lvl
    /\ \A m \in DOMAIN stk : stk[m].k = "cb" /\ stk[m].bh = stk[n].bh => m = n

\* Leaving a context loses nothing: whatever is scheduled, or made and about
\* to be, is in the list of a context that still exists.
NothingLost ==
  \A b \in Bhs : bh[b].alive =>
    bh[b].home \in DOMAIN ctx /\ b \in Elements(ctx[bh[b].home])

\* Scheduled work is done or withdrawn: that of a device also when a callback
\* in a nested context scheduled it, which cannot run it, and that of a
\* request also when its context is left first.
ScheduledRuns == \A b \in Bhs : bh[b].scheduled ~> ~bh[b].scheduled

\* Nested polls, deletions and pops are safe: the walk of qemu_bh_poll stands on
\* allocated memory, a callback is not entered twice, and leaving a context
\* loses no bottom half made in it (qemu_bh_poll, async_context_pop).
BhSafe == TypeOK /\ WalkOnLiveBh /\ NoReentry /\ NothingLost
=============================================================================
