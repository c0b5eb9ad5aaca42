----------------------------- MODULE VirtioBlk -----------------------------
(***************************************************************************)
(* The virtio block device (hw/virtio-blk.c) and the merging of writes in  *)
(* the block layer (bdrv_aio_multiwrite in block.c).  The device takes     *)
(* requests from the guest's queue, collects writes into a batch, and      *)
(* completes each request once; with the policy "stop" a failed request is *)
(* kept, the machine stopped, and the request issued again when it         *)
(* continues.                                                              *)
(*                                                                         *)
(* Handlers run in the main loop's thread.  The block layer below answers  *)
(* a request later, with or without an error; it may also refuse it (NULL) *)
(* or fail it with a callback before it returns, as qcow2 does.            *)
(***************************************************************************)
EXTENDS Integers, Sequences, SequencesExt, Functions, FiniteSets

CONSTANTS
  N,          \* bound: number of requests of the guest
  Sectors,
  Setups      \* the machines to look at, see setup

ASSUME VirtioBlkAssumption ==
  /\ N \in Nat \ {0} /\ Sectors \subseteq Nat
  /\ \A m \in Setups :
       /\ m.n \in 1..N /\ {m.batch, m.iov} \subseteq Nat \ {0}
       /\ m.shapes \subseteq [op : {"read", "write", "flush"}, first : Nat, n : Nat]
       /\ \A s \in m.shapes : s.op = "write" => s.first .. s.first + s.n - 1 \subseteq Sectors
       /\ m.policy \in {"ignore", "report", "stop"}
       /\ m.failures \subseteq {"later", "null", "sync"}
       /\ m.fails \in Nat
       /\ m.migrates \in BOOLEAN

VARIABLES
  setup,          \* the machine and its guest, chosen once
  shape,          \* the requests the guest has made
  before,         \* what was completed when it made them
  avail,          \* those the device has not taken
  used, status,   \* how often a request was completed, and how
  at,             \* what the main loop is in
  walk,           \* the list virtio_blk_dma_restart_bh walks
  mrb,            \* the batch
  sub,            \* the requests bdrv_aio_multiwrite is submitting
  mcbs,           \* the MultiwriteCBs
  flight,         \* what the block layer works on
  rq, bh,         \* the requests to be issued again, the bottom half
  running,
  disk,
  fails

guest == <<shape, before, avail>>
done == <<used, status>>
handler == <<at, walk, mrb, sub>>
device == <<rq, bh, running>>
vars == <<guest, done, handler, mcbs, flight, device, disk, fails>>

Shapes == setup.shapes      \* what they may be
BatchSize == setup.batch    \* length of MultiReqBuffer.blkreq
IovMax == setup.iov         \* IOV_MAX
Policy == setup.policy      \* what drive_get_on_error says
Failures == setup.failures  \* how the block layer fails: "later", "null", "sync"
MaxFails == setup.fails     \* bound on failures
Migrates == setup.migrates  \* the machine may be saved and loaded

Req == 1..N
Nobody == 0

Op(r) == shape[r].op
Covers(r) == shape[r].first .. shape[r].first + shape[r].n - 1
Made == DOMAIN shape

-----------------------------------------------------------------------------
(***************************************************************************)
(* Completion.                                                             *)
(***************************************************************************)
CompletedAs(rs, st) ==
  /\ used' = [r \in Req |-> used[r] + (IF Contains(rs, r) THEN 1 ELSE 0)]
  /\ status' = [r \in Req |-> IF Contains(rs, r) THEN st ELSE status[r]]

\* virtio_blk_rw_complete of each of rs, with virtio_blk_handle_rw_error.
virtio_blk_rw_complete(rs, ok) ==
  CASE ok \/ Policy = "ignore" ->
         CompletedAs(rs, "ok") /\ UNCHANGED <<rq, running>>
    [] ~ok /\ Policy = "report" ->
         CompletedAs(rs, "ioerr") /\ UNCHANGED <<rq, running>>
    [] ~ok /\ Policy = "stop" ->
         rq' = Reverse(rs) \o rq /\ running' = FALSE /\ UNCHANGED done

NothingCompleted == UNCHANGED <<done, rq, running>>

\* Mutant: a callback for every part.
McbEach(m, ok) ==
  LET mcb == mcbs[m]
      left == mcb.num - 1
  IN  /\ virtio_blk_rw_complete(mcb.cbs, ok)
      /\ mcbs' = [mcbs EXCEPT ![m] =
                    [mcb EXCEPT !.num = left, !.error = mcb.error \/ ~ok, !.freed = (left = 0)]]

\* multiwrite_cb: the callbacks of the batch are called at the first error,
\* or when the last part has succeeded.
multiwrite_cb(m, ok) ==
  LET mcb == mcbs[m]
      left == mcb.num - 1
      error == mcb.error \/ ~ok
  IN  /\ IF ~ok /\ ~mcb.error THEN virtio_blk_rw_complete(mcb.cbs, FALSE)
         ELSE IF left = 0 /\ ~error THEN virtio_blk_rw_complete(mcb.cbs, TRUE)
         ELSE NothingCompleted
      /\ mcbs' = [mcbs EXCEPT ![m] =
                    [mcb EXCEPT !.num = left, !.error = error, !.freed = (left = 0)]]

-----------------------------------------------------------------------------
(***************************************************************************)
(* bdrv_aio_multiwrite.                                                    *)
(***************************************************************************)

\* The iovecs of a merged write: one for each request that has sectors in it.
Iovs(w) == Cardinality(ToSet(w.vals))

\* The buffer of a request.
Vals(r) == [k \in 1..shape[r].n |-> r]

Touch(w, r) == shape[r].first <= w.first + Len(w.vals) /\ Iovs(w) + 2 <= IovMax

\* Mutant: one sector too many is dropped.
JoinedShort(w, r) == [w EXCEPT !.vals = SubSeq(@, 1, shape[r].first - w.first - 1) \o Vals(r)]

\* The first request up to the second, then the second.
Joined(w, r) == [w EXCEPT !.vals = SubSeq(@, 1, shape[r].first - w.first) \o Vals(r)]

\* Request r joins the last of the writes so far, or comes after them.
Merged(ws, r) ==
  IF ws # <<>> /\ Touch(Last(ws), r) THEN [ws EXCEPT ![Len(ws)] = Joined(@, r)]
  ELSE Append(ws, [first |-> shape[r].first, vals |-> Vals(r)])

\* multiwrite_merge of the sorted requests rs.
multiwrite_merge(rs) ==
  LET ws[k \in 0..Len(rs)] == IF k = 0 THEN <<>> ELSE Merged(ws[k - 1], rs[k])
  IN  ws[Len(rs)]

\* The orders in which qsort with multiwrite_req_compare may leave rs.
Sorted(rs) ==
  {q \in {[i \in DOMAIN rs |-> rs[p[i]]] : p \in Bijection(DOMAIN rs, DOMAIN rs)} :
     \A i, j \in DOMAIN q : i < j => shape[q[i]].first <= shape[q[j]].first}

\* The requests still to be handled by the loop the device is in.
Source == IF at = "restart" THEN walk ELSE avail

\* The batch is submitted: at the end of the loop, before a flush, and when
\* it is full.
StartMultiwrite ==
  /\ at \in {"output", "restart"}
  /\ mrb # <<>>
  /\ Source # <<>> =>
       Op(Head(Source)) = "flush" \/ (Op(Head(Source)) = "write" /\ Len(mrb) = BatchSize)
  /\ \E rs \in Sorted(mrb) :
       sub' = [reqs |-> multiwrite_merge(rs), sorted |-> rs, i |-> 1,
               mcb |-> Len(mcbs) + 1, from |-> at]
  /\ mcbs' = Append(mcbs, [error |-> FALSE, num |-> 0, cbs |-> mrb, freed |-> FALSE])
  /\ mrb' = <<>>
  /\ at' = "submit"
  /\ UNCHANGED <<guest, done, walk, flight, device, disk, fails>>

Fails(how) == how \in Failures /\ fails > 0 /\ fails' = fails - 1

AtPart == at = "submit" /\ sub.i <= Len(sub.reqs)

\* bdrv_aio_writev takes the part.
PartTaken ==
  /\ AtPart
  /\ flight' = flight \cup {[op |-> "write", mcb |-> sub.mcb, first |-> sub.reqs[sub.i].first,
                             vals |-> sub.reqs[sub.i].vals]}
  /\ mcbs' = [mcbs EXCEPT ![sub.mcb].num = @ + 1]
  /\ sub' = [sub EXCEPT !.i = @ + 1]
  /\ UNCHANGED <<guest, done, at, walk, mrb, device, disk, fails>>

\* It returns NULL with nothing in flight: the error is noted in one of the
\* requests, and do_multiwrite completes that one.
BatchRefused ==
  /\ AtPart
  /\ mcbs[sub.mcb].num = 0
  /\ Fails("null")
  /\ virtio_blk_rw_complete(<<sub.sorted[sub.i]>>, FALSE)
  /\ mcbs' = [mcbs EXCEPT ![sub.mcb].freed = TRUE]
  /\ at' = sub.from
  /\ UNCHANGED <<guest, walk, mrb, sub, flight, bh, disk>>

\* It returns NULL with other parts in flight: the rest is not submitted.
PartRefused ==
  /\ AtPart
  /\ mcbs[sub.mcb].num > 0
  /\ Fails("null")
  /\ IF mcbs[sub.mcb].error THEN NothingCompleted
     ELSE virtio_blk_rw_complete(mcbs[sub.mcb].cbs, FALSE)
  /\ mcbs' = [mcbs EXCEPT ![sub.mcb].error = TRUE]
  /\ at' = sub.from
  /\ UNCHANGED <<guest, walk, mrb, sub, flight, bh, disk>>

\* It calls multiwrite_cb before it returns, and the part is counted after
\* that.
PartFailsAtOnce ==
  /\ AtPart
  /\ Fails("sync")
  /\ LET mcb == mcbs[sub.mcb]
     IN  /\ IF mcb.error THEN NothingCompleted ELSE virtio_blk_rw_complete(mcb.cbs, FALSE)
         /\ mcbs' = [mcbs EXCEPT ![sub.mcb] =
                       [mcb EXCEPT !.error = TRUE, !.freed = @ \/ mcb.num = 1]]
  /\ sub' = [sub EXCEPT !.i = @ + 1]
  /\ UNCHANGED <<guest, at, walk, mrb, flight, bh, disk>>

AllSubmitted ==
  /\ at = "submit"
  /\ sub.i > Len(sub.reqs)
  /\ at' = sub.from
  /\ UNCHANGED <<guest, done, walk, mrb, sub, mcbs, flight, device, disk, fails>>

-----------------------------------------------------------------------------
(***************************************************************************)
(* virtio_blk_handle_output and virtio_blk_dma_restart_bh.                 *)
(***************************************************************************)

\* The guest makes a request.
Submit(sh) ==
  /\ running
  /\ Len(shape) < setup.n
  /\ shape' = Append(shape, sh)
  /\ before' = Append(before, {r \in Made : used[r] > 0})
  /\ avail' = Append(avail, Len(shape) + 1)
  /\ UNCHANGED <<done, handler, mcbs, flight, device, disk, fails>>

\* The guest notifies the device.
Notify ==
  /\ at = "idle"
  /\ running
  /\ avail # <<>>
  /\ at' = "output"
  /\ UNCHANGED <<guest, done, walk, mrb, sub, mcbs, flight, device, disk, fails>>

virtio_blk_dma_restart_bh ==
  /\ at = "idle"
  /\ bh
  /\ bh' = FALSE
  /\ walk' = rq
  /\ rq' = <<>>
  /\ at' = "restart"
  /\ UNCHANGED <<guest, done, mrb, sub, mcbs, flight, running, disk, fails>>

\* Request r is taken off the loop's source.
Taken(r) ==
  /\ at \in {"output", "restart"}
  /\ Source # <<>>
  /\ r = Head(Source)
  /\ IF at = "output"
     THEN avail' = Tail(avail) /\ UNCHANGED walk
     ELSE walk' = Tail(walk) /\ UNCHANGED avail

virtio_blk_handle_write(r) ==
  /\ Taken(r)
  /\ Op(r) = "write"
  /\ Len(mrb) < BatchSize
  /\ mrb' = Append(mrb, r)
  /\ UNCHANGED <<shape, before, done, at, sub, mcbs, flight, device, disk, fails>>

virtio_blk_handle_read(r) ==
  /\ Taken(r)
  /\ Op(r) = "read"
  /\ flight' = flight \cup {[op |-> "read", req |-> r]}
  /\ UNCHANGED <<shape, before, done, at, mrb, sub, mcbs, device, disk, fails>>

\* A read outside the disk.  In the restart loop the next request is found
\* through a link that parking r has changed.
ReadRefused(r) ==
  /\ at \in {"output", "restart"}
  /\ Source # <<>>
  /\ r = Head(Source)
  /\ Op(r) = "read"
  /\ Fails("null")
  /\ virtio_blk_rw_complete(<<r>>, FALSE)
  /\ CASE at = "output" -> avail' = Tail(avail) /\ UNCHANGED walk
       [] at = "restart" -> walk' = (IF Policy = "stop" THEN rq ELSE Tail(walk)) /\ UNCHANGED avail
  /\ UNCHANGED <<shape, before, at, mrb, sub, mcbs, flight, bh, disk>>

virtio_blk_handle_flush(r) ==
  /\ Taken(r)
  /\ Op(r) = "flush"
  /\ mrb = <<>>
  /\ flight' = flight \cup {[op |-> "flush", req |-> r]}
  /\ UNCHANGED <<shape, before, done, at, mrb, sub, mcbs, device, disk, fails>>

\* bdrv_aio_flush returns NULL: reported whatever the policy.
FlushRefused(r) ==
  /\ Taken(r)
  /\ Op(r) = "flush"
  /\ mrb = <<>>
  /\ Fails("null")
  /\ CompletedAs(<<r>>, "ioerr")
  /\ UNCHANGED <<shape, before, at, mrb, sub, mcbs, flight, device, disk>>

LoopEnds ==
  /\ at \in {"output", "restart"}
  /\ Source = <<>>
  /\ mrb = <<>>
  /\ at' = "idle"
  /\ UNCHANGED <<guest, done, walk, mrb, sub, mcbs, flight, device, disk, fails>>

-----------------------------------------------------------------------------
(***************************************************************************)
(* The block layer answers; the user lets the machine continue; the        *)
(* machine is moved.                                                       *)
(***************************************************************************)
WriteSucceeds(w) ==
  /\ at = "idle"
  /\ w.op = "write"
  /\ disk' = [x \in Sectors |->
               IF x - w.first + 1 \in DOMAIN w.vals THEN w.vals[x - w.first + 1] ELSE disk[x]]
  /\ flight' = flight \ {w}
  /\ multiwrite_cb(w.mcb, TRUE)
  /\ UNCHANGED <<guest, handler, bh, fails>>

WriteFails(w) ==
  /\ at = "idle"
  /\ w.op = "write"
  /\ Fails("later")
  /\ flight' = flight \ {w}
  /\ multiwrite_cb(w.mcb, FALSE)
  /\ UNCHANGED <<guest, handler, bh, disk>>

OtherSucceeds(w) ==
  /\ at = "idle"
  /\ w.op \in {"read", "flush"}
  /\ flight' = flight \ {w}
  /\ virtio_blk_rw_complete(<<w.req>>, TRUE)
  /\ UNCHANGED <<guest, handler, mcbs, bh, disk, fails>>

ReadFails(w) ==
  /\ at = "idle"
  /\ w.op = "read"
  /\ Fails("later")
  /\ flight' = flight \ {w}
  /\ virtio_blk_rw_complete(<<w.req>>, FALSE)
  /\ UNCHANGED <<guest, handler, mcbs, bh, disk>>

\* virtio_blk_flush_complete knows no policy.
FlushFails(w) ==
  /\ at = "idle"
  /\ w.op = "flush"
  /\ Fails("later")
  /\ flight' = flight \ {w}
  /\ CompletedAs(<<w.req>>, "ioerr")
  /\ UNCHANGED <<guest, handler, mcbs, device, disk>>

\* Mutant: the requests that were kept are forgotten.
ContForgets ==
  /\ at = "idle"
  /\ ~running
  /\ running' = TRUE
  /\ UNCHANGED <<guest, done, handler, mcbs, flight, rq, bh, disk, fails>>

\* The monitor's cont: virtio_blk_dma_restart_cb.
Cont ==
  /\ at = "idle"
  /\ ~running
  /\ running' = TRUE
  /\ bh' = TRUE
  /\ UNCHANGED <<guest, done, handler, mcbs, flight, rq, disk, fails>>

\* virtio_blk_save, and virtio_blk_load on the other side, which links each
\* request to the list and not the list to it.
Migrate ==
  /\ Migrates
  /\ at = "idle"
  /\ ~running
  /\ flight = {}
  /\ rq # <<>>
  /\ rq' = <<>>
  /\ UNCHANGED <<guest, done, handler, mcbs, flight, bh, running, disk, fails>>

Init ==
  /\ setup \in Setups
  /\ shape = <<>> /\ before = <<>> /\ avail = <<>>
  /\ used = [r \in Req |-> 0] /\ status = [r \in Req |-> "none"]
  /\ at = "idle" /\ walk = <<>> /\ mrb = <<>>
  /\ sub = [reqs |-> <<>>, sorted |-> <<>>, i |-> 1, mcb |-> 0, from |-> "output"]
  /\ mcbs = <<>> /\ flight = {}
  /\ rq = <<>> /\ bh = FALSE /\ running = TRUE
  /\ disk = [x \in Sectors |-> Nobody]
  /\ fails = MaxFails

\* The main loop's thread inside a handler.
Handler ==
  \/ StartMultiwrite \/ PartTaken \/ BatchRefused \/ PartRefused \/ PartFailsAtOnce
  \/ AllSubmitted \/ LoopEnds
  \/ \E r \in Req :
       \/ virtio_blk_handle_write(r) \/ virtio_blk_handle_read(r) \/ ReadRefused(r)
       \/ virtio_blk_handle_flush(r) \/ FlushRefused(r)

Answer(w) ==
  \/ WriteSucceeds(w) \/ WriteFails(w) \/ OtherSucceeds(w) \/ ReadFails(w) \/ FlushFails(w)

Next ==
  \/ \E sh \in Shapes : Submit(sh)
  \/ Notify
  \/ virtio_blk_dma_restart_bh
  \/ Handler
  \/ \E w \in flight : Answer(w)
  \/ Cont
  \/ Migrate

Spec == Init /\ [][Next /\ UNCHANGED setup]_<<vars, setup>>

\* The guest notifies the device of what it has queued, the main loop runs
\* its handlers and the block layer answers; and someone continues a machine
\* that has stopped.
FairSpec ==
  /\ Spec
  /\ WF_vars(Handler)
  /\ WF_vars(\E w \in flight : Answer(w))
  /\ SF_vars(virtio_blk_dma_restart_bh)
  /\ SF_vars(Notify)
  /\ WF_vars(Cont)

-----------------------------------------------------------------------------
\* The callbacks of a MultiwriteCB that are still to be called.
Pending(mcb) == IF mcb.error \/ mcb.freed THEN {} ELSE ToSet(mcb.cbs)

\* The requests the device has taken and not completed, by where they are.
Places(r) ==
  <<Contains(avail, r), Contains(walk, r), Contains(mrb, r), Contains(rq, r),
    [op |-> "read", req |-> r] \in flight \/ [op |-> "flush", req |-> r] \in flight>>
  \o [m \in DOMAIN mcbs |-> r \in Pending(mcbs[m])]

TypeOK ==
  /\ Len(shape) = Len(before)
  /\ \A r \in Made : shape[r] \in Shapes
  /\ at \in {"idle", "output", "restart", "submit"}
  /\ \A r \in Req : used[r] \in 0..1
  /\ Len(mrb) <= BatchSize
  /\ at # "restart" /\ sub.from # "restart" => walk = <<>>
  /\ \A w \in flight : w.op = "write" => w.mcb \in DOMAIN mcbs

\* Some of the guest's writes do not touch, so that batches have several parts.
Apart == \E v, w \in Shapes : v.op = "write" /\ w.op = "write" /\ v.first + v.n < w.first

\* Every batch is one part.
OnePart == BatchSize > 1 => ~Apart /\ BatchSize < IovMax

\* The failures the device copes with.  A part may fail once it is in flight,
\* with the others of its batch still there.  It may be refused only where it
\* is the only request of its batch and is not issued again (bdrv_aio_multiwrite
\* and the restart loop forget the others), and fail before bdrv_aio_writev
\* returns only where it is the only part (the MultiwriteCB is freed too soon).
Tolerated ==
  MaxFails > 0 => /\ "null" \in Failures => BatchSize = 1 /\ Policy # "stop"
                  /\ "sync" \in Failures => OnePart

\* A request is in exactly one place until it is completed, and in none
\* afterwards: none is forgotten, none completed twice, under the failures above
\* and as long as virtio_blk_load has not dropped those that wait.
Accounted ==
  Tolerated /\ ~Migrates => \A r \in Made :
    Cardinality({k \in DOMAIN Places(r) : Places(r)[k]}) = (IF used[r] = 0 THEN 1 ELSE 0)

\* The requests of batches that have failed: multiwrite_cb has given them up,
\* and parts of them may still be in flight.
FailedOnce == UNION {ToSet(mcbs[m].cbs) : m \in {k \in DOMAIN mcbs : mcbs[k].error}}

\* The data of a write reported as done is on the disk, unless another write
\* has replaced it: one not completed when this one was made, or one of a batch
\* that has failed, whose other parts land when they like.
Stored ==
  Tolerated => \A r \in Made : status[r] = "ok" /\ Op(r) = "write" =>
    \A x \in Covers(r) : disk[x] \notin {Nobody} \cup (before[r] \ FailedOnce)

\* A sector that no write covers keeps its contents.
OnlyWritten ==
  \A x \in Sectors : disk[x] # Nobody => Op(disk[x]) = "write" /\ x \in Covers(disk[x])

\* The MultiwriteCB of a part in flight has not been freed.
McbLive == \A w \in flight : w.op = "write" => ~mcbs[w.mcb].freed

\* A flush is issued only after the writes made before it have been given to
\* the block layer ("Make sure all outstanding writes are posted"); those that
\* failed and are issued again come later than that.
FlushAfterWrites ==
  at = "output" => \A w \in flight : w.op = "flush" =>
    \A r \in 1..w.req - 1 : Op(r) = "write" => ~Contains(mrb, r)

\* While a request waits to be issued again the machine stands still, or is
\* about to issue it.
ParkedStops == rq # <<>> => ~running \/ bh

\* Every request is completed.
Served == Tolerated /\ ~Migrates => \A r \in Req : (r \in Made) ~> (used[r] > 0)

\* Requests and their batches are kept track of: each is in one place and is
\* completed once, and the MultiwriteCB of a part in flight lives, also after
\* another part of the batch has failed (multiwrite_cb, virtio_blk_rw_complete).
RequestsKept == TypeOK /\ Accounted /\ ParkedStops /\ McbLive

\* The disk holds what was reported as written and nothing else, and a flush
\* comes after the writes before it (multiwrite_merge, virtio_blk_handle_flush).
DataRight == Stored /\ OnlyWritten /\ FlushAfterWrites
=============================================================================
