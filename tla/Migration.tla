------------------------------ MODULE Migration ------------------------------
(***************************************************************************)
(* Live migration, seen from the source: the migration state machine       *)
(* (migration.c, migration-tcp.c), the rate-limited stream below it        *)
(* (buffered_file.c), the QEMUFile buffer and the savevm stages between    *)
(* them (savevm.c), and RAM with its dirty bits (vl.c).  The stream's data *)
(* is the sequence of pages sent, each with the version of its contents,   *)
(* and a last item for the device state and the end of the stream.         *)
(*                                                                         *)
(* The main loop's thread runs one callback at a time, but a callback      *)
(* makes many writes and the peer reads, or dies, between any two of them: *)
(* pc says where in a callback the thread is.                              *)
(***************************************************************************)
EXTENDS Integers, Sequences, FiniteSets

CONSTANTS
  NPages,      \* pages of RAM
  MaxVersion,  \* bound: times the guest writes a page
  FBuf,        \* items that fill the QEMUFile buffer (IO_BUF_SIZE)
  SockRoom,    \* items the socket takes before it would block
  Limit,       \* items a tick may transfer (xfer_limit)
  MaxMig       \* bound: migrations started

ASSUME MigrationAssumption ==
  /\ NPages \in Nat \ {0} /\ MaxVersion \in Nat /\ FBuf \in Nat \ {0}
  /\ SockRoom \in Nat \ {0} /\ Limit \in Nat /\ MaxMig \in Nat

Pages == 0..NPages - 1
Device == [page |-> NPages, version |-> 0]

VARIABLES
  mem, dirty, current_addr,  \* RAM: version of each page, dirty bits, where the scan is
  vm,                        \* the source's guest runs
  state,                     \* of the migration (MIG_STATE_...)
  suspended,                 \* the monitor waits for the end of the migration
  stuck,                     \* it waits for one that there is not
  pc, result,                \* where the thread is, and the state a close will end in
  file, f_buf, f_err,        \* QEMUFile: open, its buffer and has_error
  ch,                        \* QEMUFileBuffered, the socket and its write handler
  timer,                     \* the stream's timer is armed
  dead, got, dst,            \* the peer: gone, its RAM, its guest runs
  migrations

ram == <<mem, dirty, current_addr>>
qfile == <<file, f_buf, f_err>>
peer == <<dead, got, dst>>
mig == <<state, suspended, result, migrations>>
vars == <<ram, vm, mig, pc, qfile, ch, timer, peer>>

Least(m, n) == IF m < n THEN m ELSE n

-----------------------------------------------------------------------------
(***************************************************************************)
(* buffered_file.c.  The operators take the stream and give the stream.    *)
(***************************************************************************)
NewStream == [err |-> FALSE, freeze |-> FALSE, xfer |-> 0, buffer |-> <<>>,
              sock |-> <<>>, handler |-> "none"]

\* migrate_fd_put_buffer until the socket would block: the write handler is
\* set then.
Write(c, x) ==
  LET n == Least(SockRoom - Len(c.sock), Len(x))
  IN [sent |-> n, rest |-> SubSeq(x, n + 1, Len(x)), sock |-> c.sock \o SubSeq(x, 1, n)]

Frozen(c) == [c EXCEPT !.freeze = TRUE, !.handler = "notify"]

\* Mutant: the handler is not set.
FlushForgets(c) ==
  LET w == Write(c, c.buffer)
      d == [c EXCEPT !.buffer = w.rest, !.sock = w.sock]
  IN IF c.err \/ c.buffer = <<>> THEN c
     ELSE IF dead THEN [c EXCEPT !.err = TRUE]
     ELSE IF w.rest = <<>> THEN d ELSE [d EXCEPT !.freeze = TRUE]

buffered_flush(c) ==
  LET w == Write(c, c.buffer)
      d == [c EXCEPT !.buffer = w.rest, !.sock = w.sock]
  IN IF c.err \/ c.buffer = <<>> THEN c
     ELSE IF dead THEN [c EXCEPT !.err = TRUE]
     ELSE IF w.rest = <<>> THEN d ELSE Frozen(d)

\* The loop of buffered_put_buffer: x is written, as far as the limit allows
\* another write, and the rest buffered.
PutLoop(c, x) ==
  LET w == Write(c, x)
      d == [c EXCEPT !.sock = w.sock, !.xfer = @ + w.sent, !.buffer = @ \o w.rest]
  IN IF c.freeze \/ x = <<>> \/ c.xfer > Limit
       THEN [ch |-> [c EXCEPT !.buffer = @ \o x], ok |-> TRUE]
     ELSE IF dead THEN [ch |-> [c EXCEPT !.err = TRUE], ok |-> FALSE]
     ELSE [ch |-> IF w.rest # <<>> /\ d.xfer <= Limit THEN Frozen(d) ELSE d, ok |-> TRUE]

buffered_put_buffer(c, x) ==
  IF c.err THEN [ch |-> c, ok |-> FALSE]
  ELSE PutLoop(buffered_flush([c EXCEPT !.freeze = FALSE]), x)

buffered_rate_limit == ~ch.err /\ (ch.freeze \/ ch.xfer > Limit)

-----------------------------------------------------------------------------
(***************************************************************************)
(* QEMUFile.                                                               *)
(***************************************************************************)
qemu_fflush(fb) ==
  LET r == buffered_put_buffer(ch, fb)
  IN /\ f_buf' = <<>>
     /\ IF fb = <<>> THEN UNCHANGED <<ch, f_err>>
        ELSE ch' = r.ch /\ f_err' = (f_err \/ ~r.ok)

\* An item is put in the file, which is flushed when full.
Put(item) ==
  LET fb == IF f_err THEN f_buf ELSE Append(f_buf, item)
  IN IF Len(fb) >= FBuf THEN qemu_fflush(fb)
     ELSE f_buf' = fb /\ UNCHANGED <<ch, f_err>>

-----------------------------------------------------------------------------
(***************************************************************************)
(* The end of a migration: migrate_fd_cleanup.                             *)
(***************************************************************************)

\* With the file open: qemu_fclose flushes it and buffered_close begins.
Cleanup(st) ==
  /\ qemu_fflush(f_buf)
  /\ pc' = "closing" /\ result' = st
  /\ UNCHANGED file

\* buffered_close.  wait_for_unfreeze is passed the stream in place of the
\* migration; what it takes for the state is not MIG_STATE_ACTIVE, and it
\* returns at once.
buffered_close ==
  /\ pc = "closing"
  /\ IF ~ch.err /\ ch.buffer # <<>>
     THEN ch' = buffered_flush(ch) /\ UNCHANGED <<pc, state, suspended, file, timer>>
     ELSE /\ pc' = "idle" /\ state' = result /\ suspended' = FALSE
          /\ ch' = [ch EXCEPT !.handler = "none"]
          /\ file' = FALSE /\ timer' = FALSE
  /\ UNCHANGED <<ram, vm, result, migrations, f_buf, f_err, peer>>

-----------------------------------------------------------------------------
(***************************************************************************)
(* The stages: qemu_savevm_state_begin, _iterate and _complete.            *)
(***************************************************************************)

\* The first dirty page from current_addr on.
NextDirty ==
  CHOOSE p \in dirty : \A q \in dirty :
    (p - current_addr + NPages) % NPages <= (q - current_addr + NPages) % NPages

\* ram_save_block, in the loops of ram_save_live; the last stage sends all.
ram_save_block ==
  /\ pc \in {"start", "part", "end"} /\ dirty # {}
  /\ pc = "end" \/ ~buffered_rate_limit
  /\ current_addr' = NextDirty /\ dirty' = dirty \ {NextDirty}
  /\ Put([page |-> NextDirty, version |-> mem[NextDirty]])
  /\ UNCHANGED <<mem, vm, mig, pc, file, timer, peer>>

LoopEnds == dirty = {} \/ (pc # "end" /\ buffered_rate_limit)

\* The first stage is over: migrate_fd_connect goes on with migrate_fd_put_ready.
BeginDone ==
  /\ pc = "start" /\ LoopEnds
  /\ IF f_err THEN Cleanup("error") /\ state' = "error"
     ELSE pc' = "part" /\ UNCHANGED <<state, result, qfile, ch>>
  /\ UNCHANGED <<ram, vm, suspended, migrations, timer, peer>>

\* An iteration is over.  The time to send the rest is estimated; with nothing
\* left it is zero.  When it is short enough the guest is stopped.
IterateDone ==
  /\ pc = "part" /\ LoopEnds
  /\ \E enough \in BOOLEAN :
       /\ dirty = {} => enough
       /\ pc' = IF enough THEN "end" ELSE "idle"
       /\ vm' = (vm /\ ~enough)
  /\ UNCHANGED <<ram, mig, qfile, ch, timer, peer>>

\* The device state and the end mark, after the last page.
SaveDevices ==
  /\ pc = "end" /\ LoopEnds
  /\ Put(Device)
  /\ pc' = "complete"
  /\ UNCHANGED <<ram, vm, mig, file, timer, peer>>

\* The end of migrate_fd_put_ready.
CompleteDone ==
  /\ pc = "complete"
  /\ vm' = f_err
  /\ Cleanup(IF f_err THEN "error" ELSE "completed")
  /\ UNCHANGED <<ram, state, suspended, migrations, timer, peer>>

-----------------------------------------------------------------------------
(***************************************************************************)
(* Callbacks of the main loop, and commands.                               *)
(***************************************************************************)
Idle == pc = "idle"

\* do_migrate and tcp_start_outgoing_migration; connect is in progress, or has
\* succeeded at once, which makes tcp_wait_for_connect the next step.  The
\* guest is running: it is the one vm_start brings back after an error.
do_migrate(detach) ==
  /\ Idle /\ vm /\ state # "active" /\ migrations < MaxMig
  /\ migrations' = migrations + 1
  /\ state' = "active" /\ suspended' = ~detach
  /\ ch' = [NewStream EXCEPT !.handler = "connect"]
  /\ dead' = FALSE /\ got' = [p \in Pages |-> 0] /\ dst' = FALSE
  /\ UNCHANGED <<ram, vm, pc, result, qfile, timer>>

\* connect fails at once.  The new migration is freed and the one before stays
\* current_migration; the monitor has been suspended by then, and nobody is
\* left to resume it.
ConnectFails(detach) ==
  /\ Idle /\ vm /\ state # "active" /\ migrations < MaxMig
  /\ migrations' = migrations + 1
  /\ stuck' = (stuck \/ ~detach)
  /\ UNCHANGED <<ram, vm, state, suspended, result, pc, qfile, ch, timer, peer>>

\* Mutant: only the pages dirty since the last migration are sent.
ConnectDirty ==
  /\ Idle /\ ch.handler = "connect"
  /\ IF dead
     THEN /\ state' = "error" /\ suspended' = FALSE /\ ch' = NewStream
          /\ UNCHANGED <<dirty, pc, qfile, timer>>
     ELSE /\ ch' = NewStream /\ file' = TRUE /\ f_buf' = <<>> /\ f_err' = FALSE
          /\ timer' = TRUE /\ pc' = "start"
          /\ UNCHANGED <<dirty, state, suspended>>
  /\ UNCHANGED <<mem, current_addr, vm, result, migrations, peer>>

\* tcp_wait_for_connect and migrate_fd_connect, as far as the first stage.
tcp_wait_for_connect ==
  /\ Idle /\ ch.handler = "connect"
  /\ IF dead
     THEN /\ state' = "error" /\ suspended' = FALSE /\ ch' = NewStream
          /\ UNCHANGED <<dirty, pc, qfile, timer>>
     ELSE /\ ch' = NewStream /\ file' = TRUE /\ f_buf' = <<>> /\ f_err' = FALSE
          /\ timer' = TRUE /\ pc' = "start" /\ dirty' = Pages
          /\ UNCHANGED <<state, suspended>>
  /\ UNCHANGED <<mem, current_addr, vm, result, migrations, peer>>

\* buffered_rate_tick; put_ready begins an iteration.
buffered_rate_tick ==
  /\ Idle /\ timer
  /\ CASE ch.err -> timer' = FALSE /\ UNCHANGED <<pc, ch>>
       [] ~ch.err /\ ch.freeze -> UNCHANGED <<pc, ch, timer>>
       [] OTHER -> /\ ch' = buffered_flush([ch EXCEPT !.xfer = 0])
                   /\ pc' = "part" /\ UNCHANGED timer
  /\ UNCHANGED <<ram, vm, mig, qfile, peer>>

\* The socket can be written, or has an error.
migrate_fd_put_notify ==
  /\ Idle /\ ch.handler = "notify" /\ (dead \/ Len(ch.sock) < SockRoom)
  /\ ch' = buffered_put_buffer([ch EXCEPT !.handler = "none"], <<>>).ch
  /\ UNCHANGED <<ram, vm, mig, pc, qfile, timer, peer>>

migrate_fd_cancel ==
  /\ Idle /\ state = "active" /\ state' = "cancelled"
  /\ IF file
     THEN Cleanup("cancelled") /\ UNCHANGED suspended
     ELSE /\ suspended' = FALSE /\ ch' = NewStream
          /\ UNCHANGED <<pc, result, qfile>>
  /\ UNCHANGED <<ram, vm, migrations, timer, peer>>

\* The guest runs between callbacks.
GuestWrite(p) ==
  /\ Idle /\ vm /\ mem[p] < MaxVersion
  /\ mem' = [mem EXCEPT ![p] = @ + 1]
  /\ dirty' = dirty \cup {p}
  /\ UNCHANGED <<current_addr, vm, mig, pc, qfile, ch, timer, peer>>

-----------------------------------------------------------------------------
(***************************************************************************)
(* The peer: ram_load and the end of tcp_accept_incoming_migration.        *)
(***************************************************************************)
PeerReads ==
  /\ ~dead /\ ch.sock # <<>>
  /\ ch' = [ch EXCEPT !.sock = Tail(@)]
  /\ IF Head(ch.sock) = Device
     THEN dst' = TRUE /\ UNCHANGED got
     ELSE got' = [got EXCEPT ![Head(ch.sock).page] = Head(ch.sock).version] /\ UNCHANGED dst
  /\ UNCHANGED <<ram, vm, mig, pc, qfile, timer, dead>>

PeerDies ==
  /\ ~dead /\ ~dst /\ dead' = TRUE
  /\ ch' = [ch EXCEPT !.sock = <<>>]
  /\ UNCHANGED <<ram, vm, mig, pc, qfile, timer, got, dst>>

Init ==
  /\ mem = [p \in Pages |-> 0] /\ dirty = Pages /\ current_addr = 0
  /\ vm = TRUE /\ state = "none" /\ suspended = FALSE
  /\ pc = "idle" /\ result = "none"
  /\ file = FALSE /\ f_buf = <<>> /\ f_err = FALSE
  /\ ch = NewStream /\ timer = FALSE
  /\ dead = FALSE /\ got = [p \in Pages |-> 0] /\ dst = FALSE
  /\ migrations = 0 /\ stuck = FALSE

Stages == ram_save_block \/ BeginDone \/ IterateDone \/ SaveDevices \/ CompleteDone \/ buffered_close

Steps ==
  \/ Stages \/ tcp_wait_for_connect \/ buffered_rate_tick \/ migrate_fd_put_notify
  \/ migrate_fd_cancel \/ \E d \in BOOLEAN : do_migrate(d)
  \/ \E p \in Pages : GuestWrite(p)
  \/ PeerReads \/ PeerDies

Next == (Steps /\ UNCHANGED stuck) \/ \E d \in BOOLEAN : ConnectFails(d)

Spec == Init /\ [][Next]_<<vars, stuck>>

\* The thread goes on, the main loop serves the socket and the timer, and a
\* peer that is there reads.  Nothing is assumed of the guest and the user.
FairSpec ==
  /\ Spec
  /\ WF_vars(Stages) /\ WF_vars(tcp_wait_for_connect) /\ SF_vars(buffered_rate_tick)
  /\ SF_vars(migrate_fd_put_notify) /\ WF_vars(PeerReads)

-----------------------------------------------------------------------------
(***************************************************************************)
(* Properties.                                                             *)
(***************************************************************************)

Items == [page : 0..NPages, version : 0..MaxVersion]

\* The types of the variables.
TypeOK ==
  /\ mem \in [Pages -> 0..MaxVersion] /\ dirty \subseteq Pages /\ current_addr \in Pages
  /\ vm \in BOOLEAN /\ suspended \in BOOLEAN /\ file \in BOOLEAN /\ f_err \in BOOLEAN
  /\ state \in {"none", "active", "error", "completed", "cancelled"}
  /\ pc \in {"idle", "start", "part", "end", "complete", "closing"}
  /\ f_buf \in Seq(Items) /\ Len(f_buf) < FBuf
  /\ ch.buffer \in Seq(Items) /\ ch.sock \in Seq(Items) /\ Len(ch.sock) <= SockRoom
  /\ timer \in BOOLEAN /\ dead \in BOOLEAN /\ dst \in BOOLEAN

\* The two guests never run at once, and the one that goes on has the memory
\* the other one stopped with: whatever is buffered, frozen, cancelled, tried
\* again or written by the guest in the meantime.
SafeHandover == dst => ~vm /\ got = mem

\* A migration that has not completed leaves the guest running at the source.
SourceSurvives == pc \in {"idle", "closing"} /\ result # "completed" => vm

\* A frozen stream has the write handler that will thaw it; without it the
\* ticks would be skipped for ever.
FrozenHasHandler == Idle /\ file /\ ch.freeze /\ ~ch.err => ch.handler = "notify"

\* A migration that is under way, the monitor waiting for it, ends, unless the
\* peer goes away: buffered_rate_tick then stops itself and nothing ends the
\* migration.  The guest writes each page at most MaxVersion times; one that
\* writes all the time can keep ram_save_live from ever expecting a short
\* enough stop.  It says nothing of a monitor that is `stuck'.
MonitorResumes == suspended ~> (~suspended \/ dead)

\* There are never two guests to go on with; the peer's has all of the memory
\* the source's stopped with, the source's goes on unless the migration has
\* completed, and a frozen stream has its handler (migrate_fd_put_ready,
\* buffered_flush).  A completed migration whose last flush fails leaves no
\* guest: the state is decided before qemu_fclose.
HandoverSafe == TypeOK /\ SafeHandover /\ SourceSurvives /\ FrozenHasHandler
=============================================================================
