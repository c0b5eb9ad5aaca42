------------------------------ MODULE PosixAio ------------------------------
(***************************************************************************)
(* Asynchronous disk I/O: the request lists and the worker thread pool of  *)
(* posix-aio-compat.c, the AsyncContexts of async.c, qemu_aio_wait and     *)
(* qemu_aio_flush of aio.c, and the synchronous bdrv_read_em/bdrv_write_em *)
(* of block.c that run a nested event loop on top of them.                 *)
(*                                                                         *)
(* One main thread and a pool of workers.  Whatever is done under `lock'   *)
(* is one step; the steps between two lock sections, pthread_cond_signal   *)
(* and kill() among them, are steps of their own.  The main thread's C     *)
(* call stack is the sequence stk.                                         *)
(***************************************************************************)
EXTENDS Naturals, Sequences, FiniteSets, Lists

CONSTANTS
  Acbs,        \* request blocks the pool can come to hold
  NoAcb,       \* a null pointer to one
  Threads,     \* identities for worker threads
  MaxDepth,    \* bound: AsyncContexts nested at the same time
  Setups       \* machines, with a bound on the requests of a behaviour

\* max_threads is positive, and there is an identity for every thread.
ASSUME PoolAssumption ==
  /\ NoAcb \notin Acbs
  /\ IsFiniteSet(Threads)
  /\ MaxDepth \in Nat
  /\ Setups \subseteq [max_threads : 1..Cardinality(Threads), submits : Nat, ioctls : BOOLEAN]

VARIABLES
  request_list,   \* requests no worker has taken yet, oldest first
  cur_threads, idle_threads,
  pc,             \* where each worker is in aio_thread
  job,            \* the aiocb in each worker's hands
  acb,            \* the fields of every request block
  first_aio,      \* requests not called back yet, newest first
  free_aiocb,     \* the pool's free list
  unused,         \* blocks not allocated so far
  sig,            \* SIGUSR2 is pending for the process
  pipe,           \* the signal pipe holds at least one byte
  bh,             \* bh_run_aio_completions scheduled, per AsyncContext
  stk,            \* the main thread's stack, innermost call last
  submitted,      \* requests submitted so far
  setup           \* one of Setups

\* 64 in the code.
MaxThreads == setup.max_threads
MaxSubmits == setup.submits
\* The machine has a device that uses paio_ioctl.
Ioctls == setup.ioctls

pool  == <<request_list, cur_threads, idle_threads, pc, job>>
alloc == <<free_aiocb, unused>>
vars  == <<request_list, cur_threads, idle_threads, pc, job, acb, first_aio,
           free_aiocb, unused, sig, pipe, bh, stk, submitted>>

-----------------------------------------------------------------------------
(***************************************************************************)
(* The main thread's stack.  A frame is a function call in progress:       *)
(*   run     the main loop and the guest's device models                   *)
(*   cb      a completion callback for block a; flag: it has submitted the *)
(*           next part of its operation                                    *)
(*   signal  qemu_paio_submit between its unlock and cond_signal           *)
(*   cancel  paio_cancel waiting for block a                               *)
(*   queue   posix_aio_process_queue at position pos; flag: its result     *)
(*   sync    bdrv_read_em or bdrv_write_em; flag: async_ret has been set   *)
(*   wait, select    qemu_aio_wait, before and after it polled the queue   *)
(*   flush, flushed  qemu_aio_flush, before and after its qemu_aio_wait    *)
(***************************************************************************)
Frame(k) == [k |-> k, a |-> NoAcb, pos |-> 1, flag |-> FALSE]
CbFrame(a) == [Frame("cb") EXCEPT !.a = a]

Top     == stk[Len(stk)]
Caller  == SubSeq(stk, 1, Len(stk) - 1)
At(k)   == Top.k = k
Push(k) == Append(stk, Frame(k))
Become(k) == Append(Caller, Frame(k))

\* get_async_context_id(): the contexts form a stack, one per sync call.
SyncFrames(s) == {n \in DOMAIN s : s[n].k = "sync"}
Depth == Cardinality(SyncFrames(stk))

\* Code that may call into the block layer: a device model, or a callback
\* that runs in the context its request was submitted in.
MayIssue == At("run") \/ (At("cb") /\ acb[Top.a].level = Depth)

\* A callback of a synchronous operation submits the next part at most once.
Continues == IF At("cb") /\ Depth > 0
             THEN Append(Caller, [Top EXCEPT !.flag = TRUE]) ELSE stk

-----------------------------------------------------------------------------
(***************************************************************************)
(* Submitting and cancelling.                                              *)
(***************************************************************************)

\* qemu_aio_get: the head of the free list, else a new block, of which it
\* does not matter which.
qemu_aio_get(a) ==
  /\ IF free_aiocb # <<>> THEN a = Head(free_aiocb)
     ELSE a \in unused /\ a = CHOOSE b \in unused : TRUE
  /\ free_aiocb' = IF free_aiocb # <<>> THEN Tail(free_aiocb) ELSE free_aiocb
  /\ unused' = unused \ {a}

\* spawn_thread, when there is no idle worker and room for one more.
spawn_thread ==
  IF idle_threads = 0 /\ cur_threads < MaxThreads
  THEN /\ pc' = [pc EXCEPT ![CHOOSE t \in Threads : pc[t] = "none"] = "ready"]
       /\ cur_threads' = cur_threads + 1
       /\ idle_threads' = idle_threads + 1
  ELSE UNCHANGED <<pc, cur_threads, idle_threads>>

\* The tail of paio_submit and paio_ioctl, with qemu_paio_submit up to its
\* unlock: context id, and `level', the context the caller is in (what the
\* callback's opaque pointer stands for).
qemu_paio_submit(a, id, level, s) ==
  /\ submitted < MaxSubmits
  /\ submitted' = submitted + 1
  /\ qemu_aio_get(a)
  /\ acb' = [acb EXCEPT ![a] = [ret |-> "EINPROGRESS", active |-> FALSE,
                                async_context_id |-> id, level |-> level]]
  /\ first_aio' = <<a>> \o first_aio
  /\ spawn_thread
  /\ request_list' = Append(request_list, a)
  /\ stk' = Append(s, Frame("signal"))
  /\ UNCHANGED <<job, sig, pipe, bh>>

paio_submit(a) ==
  /\ MayIssue
  /\ Depth > 0 => ~Top.flag
  /\ qemu_paio_submit(a, Depth, Depth, Continues)

\* paio_ioctl leaves async_context_id as the block's last user left it.
paio_ioctl(a) ==
  /\ Ioctls /\ At("run")
  /\ qemu_paio_submit(a, acb[a].async_context_id, Depth, stk)

\* Mutant: the condition is not signalled.
CondSignalMissing ==
  /\ At("signal") /\ stk' = Caller
  /\ UNCHANGED <<pool, acb, first_aio, alloc, sig, pipe, bh, submitted>>

\* pthread_cond_signal: wakes one waiter if there is one.
CondSignal ==
  /\ At("signal")
  /\ \/ \E t \in Threads : pc[t] = "wait" /\ pc' = [pc EXCEPT ![t] = "ready"]
     \/ (\A t \in Threads : pc[t] # "wait") /\ UNCHANGED pc
  /\ stk' = Caller
  /\ UNCHANGED <<request_list, cur_threads, idle_threads, job, acb, first_aio,
                 alloc, sig, pipe, bh, submitted>>

\* paio_remove and qemu_aio_release.
paio_remove(a) ==
  /\ first_aio' = Without(first_aio, a)
  /\ free_aiocb' = <<a>> \o free_aiocb

\* Mutant: a request is removed without waiting for the worker that has it.
CancelNoWait(a) ==
  /\ MayIssue /\ Depth = 0
  /\ a \in Elements(first_aio) /\ acb[a].level = 0
  /\ request_list' = Without(request_list, a)
  /\ acb' = [acb EXCEPT ![a].ret = IF acb[a].active THEN @ ELSE "ECANCELED"]
  /\ paio_remove(a)
  /\ UNCHANGED <<cur_threads, idle_threads, pc, job, unused, sig, pipe, bh,
                 stk, submitted>>

\* paio_cancel, for a device's own request: dequeued if no worker has it,
\* removed at once if it has completed, waited for otherwise.
paio_cancel(a) ==
  /\ MayIssue /\ Depth = 0
  /\ a \in Elements(first_aio) /\ acb[a].level = 0
  /\ \/ /\ ~acb[a].active
        /\ request_list' = Without(request_list, a)
        /\ acb' = [acb EXCEPT ![a].ret = "ECANCELED"]
        /\ paio_remove(a) /\ UNCHANGED stk
     \/ /\ acb[a].active /\ acb[a].ret # "EINPROGRESS"
        /\ paio_remove(a) /\ UNCHANGED <<request_list, acb, stk>>
     \/ /\ acb[a].active /\ acb[a].ret = "EINPROGRESS"
        /\ stk' = Append(stk, [Frame("cancel") EXCEPT !.a = a])
        /\ UNCHANGED <<request_list, acb, first_aio, free_aiocb>>
  /\ UNCHANGED <<cur_threads, idle_threads, pc, job, unused, sig, pipe, bh,
                 submitted>>

CancelWaited ==
  /\ At("cancel") /\ acb[Top.a].ret # "EINPROGRESS"
  /\ paio_remove(Top.a)
  /\ stk' = Caller
  /\ UNCHANGED <<pool, acb, unused, sig, pipe, bh, submitted>>

-----------------------------------------------------------------------------
(***************************************************************************)
(* aio_thread.                                                             *)
(***************************************************************************)
Main == <<first_aio, free_aiocb, unused, bh, stk, submitted>>

\* The worker takes the oldest request, after a timeout too.
TakeRequest(t) ==
  /\ pc[t] \in {"ready", "timedout"} /\ request_list # <<>>
  /\ request_list' = Tail(request_list)
  /\ job' = [job EXCEPT ![t] = Head(request_list)]
  /\ acb' = [acb EXCEPT ![Head(request_list)].active = TRUE]
  /\ idle_threads' = idle_threads - 1
  /\ pc' = [pc EXCEPT ![t] = "io"]
  /\ UNCHANGED <<cur_threads, sig, pipe, Main>>

\* cond_timedwait: it gives up the lock, and comes back when it is signalled,
\* when the ten seconds are over, or for no reason.
Wait(t) ==
  /\ pc[t] = "ready" /\ request_list = <<>>
  /\ pc' = [pc EXCEPT ![t] = "wait"]
  /\ UNCHANGED <<request_list, cur_threads, idle_threads, job, acb, sig, pipe, Main>>

WakeUp(t, how) ==
  /\ pc[t] = "wait"
  /\ pc' = [pc EXCEPT ![t] = how]
  /\ UNCHANGED <<request_list, cur_threads, idle_threads, job, acb, sig, pipe, Main>>

ExitThread(t) ==
  /\ pc[t] = "timedout" /\ request_list = <<>>
  /\ idle_threads' = idle_threads - 1
  /\ cur_threads' = cur_threads - 1
  /\ pc' = [pc EXCEPT ![t] = "none"]
  /\ UNCHANGED <<request_list, job, acb, sig, pipe, Main>>

\* What handle_aiocb_rw and its relatives return: a byte count or an errno.
\* Either ends the request and goes to the callback.
IoResult == "done"

\* The I/O ends and its result is stored; kill() follows the unlock.
Complete(t) ==
  /\ pc[t] = "io"
  /\ acb' = [acb EXCEPT ![job[t]].ret = IoResult]
  /\ idle_threads' = idle_threads + 1
  /\ pc' = [pc EXCEPT ![t] = "kill"]
  /\ UNCHANGED <<request_list, cur_threads, job, sig, pipe, Main>>

Kill(t) ==
  /\ pc[t] = "kill"
  /\ sig' = TRUE
  /\ pc' = [pc EXCEPT ![t] = "ready"]
  /\ UNCHANGED <<request_list, cur_threads, idle_threads, job, acb, pipe, Main>>

\* The signal is taken by the main thread, between any two of its steps.
aio_signal_handler ==
  /\ sig /\ sig' = FALSE /\ pipe' = TRUE
  /\ UNCHANGED <<pool, acb, Main>>

-----------------------------------------------------------------------------
(***************************************************************************)
(* Completions.                                                            *)
(***************************************************************************)

\* The block posix_aio_process_queue looks at.
Seen == first_aio[Top.pos]

\* Mutant: requests of every context are called back.
ReadyAnyContext == acb[Seen].ret # "EINPROGRESS"

\* It is called back: it belongs to the current context and has ended.
Ready == acb[Seen].async_context_id = Depth /\ acb[Seen].ret # "EINPROGRESS"

\* Mutant: the callback runs before the block leaves the list.
ProcessQueueKeeps ==
  /\ At("queue")
  /\ stk' = IF Top.pos > Len(first_aio) THEN Caller
            ELSE IF Ready THEN Caller \o <<Frame("queue"), CbFrame(Seen)>>
            ELSE Append(Caller, [Top EXCEPT !.pos = @ + 1])
  /\ UNCHANGED <<pool, acb, first_aio, alloc, sig, pipe, bh, submitted>>

\* One look of posix_aio_process_queue at a block: it goes on to the next one,
\* takes the block off the list and calls it back, after which it starts
\* again at the head, or returns.  Inside qemu_aio_wait a call that has
\* called something back ends the wait too.  The branch for ECANCELED is not
\* reached: paio_cancel takes the block off the list (BlockInOnePlace).
ProcessQueue ==
  /\ At("queue")
  /\ \/ /\ Top.pos <= Len(first_aio) /\ ~Ready
        /\ stk' = Append(Caller, [Top EXCEPT !.pos = @ + 1])
        /\ UNCHANGED first_aio
     \/ /\ Top.pos <= Len(first_aio) /\ Ready
        /\ first_aio' = Without(first_aio, Seen)
        /\ stk' = Caller \o <<[Frame("queue") EXCEPT !.flag = TRUE], CbFrame(Seen)>>
     \/ /\ Top.pos > Len(first_aio)
        /\ stk' = IF Top.flag /\ Caller[Len(Caller)].k = "select"
                  THEN SubSeq(Caller, 1, Len(Caller) - 1) ELSE Caller
        /\ UNCHANGED first_aio
  /\ UNCHANGED <<pool, acb, alloc, sig, pipe, bh, submitted>>

\* The stack with async_ret of the sync call at context depth d set.
SetAsyncRet(s, d) ==
  [n \in DOMAIN s |->
     IF s[n].k = "sync" /\ Cardinality({m \in SyncFrames(s) : m <= n}) = d
     THEN [s[n] EXCEPT !.flag = TRUE] ELSE s[n]]

\* A callback returns, having finished a synchronous operation or not, and
\* its block goes back to the pool.
CallbackReturns ==
  /\ At("cb")
  /\ stk' = IF Top.flag THEN Caller ELSE SetAsyncRet(Caller, acb[Top.a].level)
  /\ free_aiocb' = <<Top.a>> \o free_aiocb
  /\ UNCHANGED <<pool, acb, first_aio, unused, sig, pipe, bh, submitted>>

\* The main loop finds the pipe readable: posix_aio_read.
PipeReadable ==
  /\ At("run") /\ pipe
  /\ pipe' = FALSE
  /\ stk' = Push("queue")
  /\ UNCHANGED <<pool, acb, first_aio, alloc, sig, bh, submitted>>

\* The main loop's qemu_bh_poll runs bh_run_aio_completions.
BottomHalf ==
  /\ At("run") /\ bh[0]
  /\ bh' = [bh EXCEPT ![0] = FALSE]
  /\ stk' = Push("queue")
  /\ UNCHANGED <<pool, acb, first_aio, alloc, sig, pipe, submitted>>

-----------------------------------------------------------------------------
(***************************************************************************)
(* Nested event loops.                                                     *)
(***************************************************************************)

\* bdrv_read_em or bdrv_write_em: async_context_push and the request.
SyncSubmit(a) ==
  /\ MayIssue /\ Depth < MaxDepth
  /\ qemu_paio_submit(a, Depth + 1, Depth + 1, Push("sync"))

\* bdrv_aio_readv has refused the request: push and pop.
SyncFails ==
  /\ MayIssue
  /\ bh' = [bh EXCEPT ![Depth] = TRUE]
  /\ UNCHANGED <<pool, acb, first_aio, alloc, sig, pipe, stk, submitted>>

\* Mutant: async_context_pop does not schedule the bottom half.
SyncPopsQuietly ==
  /\ At("sync")
  /\ stk' = IF Top.flag /\ ~bh[Depth] THEN Caller
            ELSE Push(IF Top.flag THEN "queue" ELSE "wait")
  /\ bh' = [bh EXCEPT ![Depth] = bh[Depth] /\ ~Top.flag]
  /\ UNCHANGED <<pool, acb, first_aio, alloc, sig, pipe, submitted>>

\* The loop around qemu_aio_wait, then async_context_pop, which runs the old
\* context's bottom halves first and schedules one in the new context.
SyncLoop ==
  /\ At("sync")
  /\ \/ ~Top.flag /\ stk' = Push("wait") /\ UNCHANGED bh
     \/ /\ Top.flag /\ bh[Depth]
        /\ stk' = Push("queue") /\ bh' = [bh EXCEPT ![Depth] = FALSE]
     \/ /\ Top.flag /\ ~bh[Depth]
        /\ stk' = Caller /\ bh' = [bh EXCEPT ![Depth - 1] = TRUE]
  /\ UNCHANGED <<pool, acb, first_aio, alloc, sig, pipe, submitted>>

\* qemu_aio_wait: bottom halves, then queued completions, then select.
AioWait ==
  /\ At("wait")
  /\ \/ /\ bh[Depth]
        /\ bh' = [bh EXCEPT ![Depth] = FALSE] /\ stk' = Become("queue")
     \/ /\ ~bh[Depth]
        /\ stk' = Append(Become("select"), Frame("queue")) /\ UNCHANGED bh
  /\ UNCHANGED <<pool, acb, first_aio, alloc, sig, pipe, submitted>>

\* There is nothing to wait for, or select finds a byte in the pipe.  It
\* blocks otherwise.
Select ==
  /\ At("select")
  /\ \/ first_aio = <<>> /\ stk' = Caller /\ UNCHANGED pipe
     \/ first_aio # <<>> /\ pipe /\ stk' = Become("queue") /\ pipe' = FALSE
  /\ UNCHANGED <<pool, acb, first_aio, alloc, sig, bh, submitted>>

\* EINTR: SIGUSR2 itself, whose byte then stays in the pipe, or a signal that
\* has nothing to do with I/O, such as the host alarm timer's.  `continue'
\* leaves the loop, since ret is not 0.
Interrupted ==
  /\ At("select") /\ first_aio # <<>>
  /\ stk' = Caller
  /\ UNCHANGED <<pool, acb, first_aio, alloc, sig, pipe, bh, submitted>>

\* A device or the migration code calls qemu_aio_flush.
FlushCall ==
  /\ At("run")
  /\ stk' = Push("flush")
  /\ UNCHANGED <<pool, acb, first_aio, alloc, sig, pipe, bh, submitted>>

\* Mutant: the handlers' io_flush is not asked.
FlushIgnoresList ==
  /\ \/ At("flush") /\ stk' = Append(Become("flushed"), Frame("wait")) /\ UNCHANGED bh
     \/ /\ At("flushed") /\ bh[Depth]
        /\ stk' = Append(Become("flush"), Frame("queue"))
        /\ bh' = [bh EXCEPT ![Depth] = FALSE]
     \/ At("flushed") /\ ~bh[Depth] /\ stk' = Caller /\ UNCHANGED bh
  /\ UNCHANGED <<pool, acb, first_aio, alloc, sig, pipe, submitted>>

qemu_aio_flush ==
  /\ \/ At("flush") /\ stk' = Append(Become("flushed"), Frame("wait")) /\ UNCHANGED bh
     \/ /\ At("flushed") /\ bh[Depth]
        /\ stk' = Append(Become("flush"), Frame("queue"))
        /\ bh' = [bh EXCEPT ![Depth] = FALSE]
     \/ /\ At("flushed") /\ ~bh[Depth]
        /\ stk' = IF first_aio # <<>> THEN Become("flush") ELSE Caller
        /\ UNCHANGED bh
  /\ UNCHANGED <<pool, acb, first_aio, alloc, sig, pipe, submitted>>

-----------------------------------------------------------------------------
Init ==
  /\ request_list = <<>> /\ cur_threads = 0 /\ idle_threads = 0
  /\ pc = [t \in Threads |-> "none"] /\ job = [t \in Threads |-> NoAcb]
  /\ acb = [a \in Acbs |-> [ret |-> "done", active |-> FALSE,
                            async_context_id |-> 0, level |-> 0]]
  /\ first_aio = <<>> /\ free_aiocb = <<>> /\ unused = Acbs
  /\ sig = FALSE /\ pipe = FALSE
  /\ bh = [c \in 0 .. MaxDepth |-> FALSE]
  /\ stk = <<Frame("run")>> /\ submitted = 0
  /\ setup \in Setups

Worker(t) ==
  \/ TakeRequest(t) \/ Wait(t) \/ WakeUp(t, "ready") \/ WakeUp(t, "timedout")
  \/ ExitThread(t) \/ Complete(t) \/ Kill(t)

MainStep == \/ CondSignal \/ CancelWaited \/ ProcessQueue \/ CallbackReturns
            \/ SyncLoop \/ AioWait \/ Select \/ qemu_aio_flush
            \/ PipeReadable \/ BottomHalf

Next == \/ \E a \in Acbs : \/ paio_submit(a) \/ paio_ioctl(a)
                           \/ paio_cancel(a) \/ SyncSubmit(a)
        \/ SyncFails \/ FlushCall \/ Interrupted
        \/ MainStep \/ aio_signal_handler
        \/ \E t \in Threads : Worker(t)

\* The host runs every thread, delivers signals, and ends every I/O.  Neither
\* the time-out of an idle worker, nor a spurious wake-up, nor a signal that
\* happens to interrupt select is counted on.
Fairness ==
  /\ WF_vars(MainStep) /\ WF_vars(aio_signal_handler)
  /\ \A t \in Threads :
       WF_vars(TakeRequest(t) \/ Wait(t) \/ Complete(t) \/ Kill(t))

Spec == Init /\ [][Next /\ UNCHANGED setup]_<<vars, setup>>
FairSpec == Spec /\ Fairness

-----------------------------------------------------------------------------
(***************************************************************************)
(* Properties.                                                             *)
(***************************************************************************)
Contexts    == 0 .. MaxDepth
FrameKinds  == {"run", "cb", "signal", "cancel", "queue", "sync", "wait",
                "select", "flush", "flushed"}

\* The fields of struct qemu_paiocb, and the level of its submitter.
Paiocb == [ret: {"EINPROGRESS", "ECANCELED", "done"}, active: BOOLEAN,
           async_context_id: Contexts, level: Contexts]

\* The fields of the C structures hold values of their types.
TypeOK ==
  /\ request_list \in Seq(Acbs) /\ first_aio \in Seq(Acbs)
  /\ free_aiocb \in Seq(Acbs) /\ unused \subseteq Acbs
  /\ cur_threads \in Nat /\ idle_threads \in Nat
  /\ pc \in [Threads -> {"none", "ready", "wait", "timedout", "io", "kill"}]
  /\ job \in [Threads -> Acbs \cup {NoAcb}]
  /\ acb \in [Acbs -> Paiocb]
  /\ sig \in BOOLEAN /\ pipe \in BOOLEAN
  /\ bh \in [Contexts -> BOOLEAN]
  /\ stk \in Seq([k: FrameKinds, a: Acbs \cup {NoAcb}, pos: Nat, flag: BOOLEAN])
  /\ submitted \in 0 .. MaxSubmits

Alive     == {t \in Threads : pc[t] # "none"}
Idle      == {t \in Alive : pc[t] # "io"}
Sleeping  == {t \in Threads : pc[t] = "wait"}
Looking   == {t \in Threads : pc[t] \in {"ready", "timedout", "kill"}}
Signalling == stk # <<>> /\ At("signal")

\* The two counters agree with the threads there are, through spawns, time-
\* outs that race with new requests, and exits; the pool never outgrows
\* max_threads and the counters never go below zero.
PoolAccounting ==
  /\ cur_threads = Cardinality(Alive)
  /\ idle_threads = Cardinality(Idle)
  /\ cur_threads <= MaxThreads

\* No wake-up is lost: while a worker sleeps, every queued request has an
\* awake worker of its own on the way to the queue, or its signal is about
\* to be sent; and a queue that is not empty always has a worker.  The test
\* of idle_threads in qemu_paio_submit, which counts workers that are awake
\* already or about to time out, never leaves a request to the time-out.
NoLostWakeup ==
  /\ request_list # <<>> => Alive # {}
  /\ Sleeping # {} => Len(request_list) <= Cardinality(Looking)
                                           + (IF Signalling THEN 1 ELSE 0)

CbBlocks == {stk[n].a : n \in {m \in DOMAIN stk : stk[m].k = "cb"}}

\* A worker does I/O only for a request that is outstanding, not on a block
\* that has been cancelled, called back or reused, and never two for one.
IoOnLiveRequest ==
  \A t \in Threads : pc[t] = "io" =>
    /\ job[t] \in Elements(first_aio) \ Elements(request_list)
    /\ acb[job[t]].active /\ acb[job[t]].ret = "EINPROGRESS"
    /\ \A u \in Threads : pc[u] = "io" /\ job[u] = job[t] => u = t

\* A block is in one place: on the free list, outstanding, in a callback, or
\* not allocated.  No path releases one twice or loses one, and a request
\* the pool still has to start is outstanding and not cancelled.
BlockInOnePlace ==
  /\ NoRepeat(first_aio) /\ NoRepeat(free_aiocb) /\ NoRepeat(request_list)
  /\ Acbs = Elements(first_aio) \cup Elements(free_aiocb) \cup unused \cup CbBlocks
  /\ Elements(first_aio) \cap (Elements(free_aiocb) \cup unused \cup CbBlocks) = {}
  /\ Elements(free_aiocb) \cap (unused \cup CbBlocks) = {} /\ unused \cap CbBlocks = {}
  /\ Elements(request_list) \subseteq Elements(first_aio)
  /\ \A a \in Elements(first_aio) : acb[a].ret # "ECANCELED"

\* "Callbacks must only be run if they belong to the current AsyncContext."
CallbackInOwnContext == ~Ioctls =>
  \A n \in DOMAIN stk : stk[n].k = "cb" =>
    acb[stk[n].a].level = Cardinality(SyncFrames(SubSeq(stk, 1, n)))

\* No request is left in a context that has been popped, where nobody would
\* call it back until some unrelated call reuses the context's number.
NoOrphan == ~Ioctls => \A a \in Elements(first_aio) : acb[a].async_context_id <= Depth

\* When qemu_aio_flush returns nothing is queued and no worker does I/O, even
\* though its last look at the list comes before its last bottom half.
FlushDrains ==
  [][At("flushed") /\ Len(stk') < Len(stk) =>
       request_list' = <<>> /\ \A t \in Threads : pc'[t] # "io"]_vars

\* Every request is called back or cancelled in the end, although a nested
\* event loop eats the wake-up bytes of the contexts outside it.
Completion == \A a \in Acbs :
  ~Ioctls /\ a \in Elements(first_aio) ~> a \notin Elements(first_aio)

\* The main thread always comes back to its loop: no callback, cancel, flush
\* or synchronous read waits for ever.
MainReturns == []<>(Ioctls \/ Len(stk) = 1)

\* The requests as their callers see them (AioSpec).
state == [a \in Acbs |->
  CASE a \in CbBlocks -> "calling"
    [] a \notin CbBlocks \cup Elements(first_aio) -> "free"
    [] a \in Elements(first_aio) /\ a \in Elements(request_list) -> "issued"
    [] OTHER -> IF acb[a].ret = "EINPROGRESS" THEN "executing" ELSE "executed"]

Requests == INSTANCE AioSpec WITH Blocks <- Acbs

\* The pool implements the request life cycle its callers rely on.
ImplementsAioSpec == Requests!Spec

\* The pool's book-keeping: the counters agree with the threads, a block is in
\* one place only, and no worker touches one that was given back
\* (aio_thread, posix_aio_process_queue, paio_cancel).
PoolConsistent == TypeOK /\ PoolAccounting /\ BlockInOnePlace /\ IoOnLiveRequest

\* Callbacks run in the AsyncContext of their submitter, and none is left for a
\* context that has been popped (posix_aio_process_queue, async_context_pop).
OwnContext == CallbackInOwnContext /\ NoOrphan

\* Requests end, and so do the calls that wait for them (qemu_aio_wait).
Returns == Completion /\ MainReturns
=============================================================================
