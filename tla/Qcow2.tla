-------------------------------- MODULE Qcow2 --------------------------------
(***************************************************************************)
(* A qcow2 image: the reference counts, the L1 entry and its L2 table, the *)
(* asynchronous writes that allocate clusters and copy shared ones, the    *)
(* internal snapshots, and what a crash leaves on disk                     *)
(* (block/qcow2.c, qcow2-cluster.c, qcow2-refcount.c, qcow2-snapshot.c).   *)
(*                                                                         *)
(* The metadata code runs in the main thread with synchronous writes: no   *)
(* other request is called back meanwhile, but a write may fail, the host  *)
(* may stop and the data of other requests may reach the disk between any  *)
(* two of them.  thr says where in a callback the thread is.               *)
(*                                                                         *)
(* The image has one L2 table of GC entries; the clusters of the header,   *)
(* the L1 tables, the refcounts and the snapshot list are not counted.     *)
(***************************************************************************)
EXTENDS Integers, Sequences, FiniteSets, Lists

CONSTANTS
  Reqs,      \* guest writes, each made once: positive numbers, also the value written
  GC,        \* clusters of the guest's disk
  CS,        \* sectors of a cluster
  HC,        \* bound: clusters of the image file
  Ranges,    \* <<first sector, sectors>> the guest may write
  Layouts,   \* guest clusters mapped at first, in the images to start with
  Envs,      \* the surroundings to look at, see env
  MaxCmds,   \* bound: monitor commands
  MaxCrash   \* bound: crashes

G == 0..GC - 1
H == 1..HC
Sectors == 0..GC * CS - 1

ASSUME Qcow2Assumption ==
  /\ Reqs \subseteq Nat \ {0} /\ GC \in Nat \ {0} /\ CS \in Nat \ {0} /\ HC \in Nat
  /\ Ranges \subseteq Sectors \X Nat /\ \A rg \in Ranges : rg[2] \in 1..GC * CS - rg[1]
  /\ Layouts \subseteq SUBSET G /\ \A m \in Layouts : Cardinality(m) < HC
  /\ MaxCmds \in Nat /\ MaxCrash \in Nat
  /\ Envs \subseteq [writes : SUBSET Reqs, cmds : SUBSET {"savevm", "loadvm", "delvm"},
                     fails : SUBSET {"data", "copy", "link", "alloc", "l2", "l1"},
                     cancels : SUBSET {"io", "wait"}, crash : BOOLEAN, whole : BOOLEAN]

VARIABLES
  env,       \* the writes the guest makes, and whether only of whole clusters, the
             \* commands the user gives, the writes to the image that may fail, the
             \* writes devices cancel, and whether the host crashes
  refcount,  \* of every cluster
  blk,       \* contents of every cluster: as an L2 table, as data
  disk_l1,   \* the L1 entry on disk
  snap,      \* the snapshot's L1 entry, when there is one
  l1_table,  \* the L1 entry in memory
  l2_cache,  \* L2 tables in memory, by offset
  free_cluster_index,
  req,       \* the QCowAIOCBs and their l2meta
  cluster_allocs, dependent_requests,
  thr,       \* the main thread
  may,       \* values each sector may hold, by what the guest was told
  snapVal,   \* what the snapshot was taken of
  cmds, crashes

image == <<refcount, blk, disk_l1, snap>>
memory == <<l1_table, l2_cache, free_cluster_index>>
queues == <<cluster_allocs, dependent_requests>>
ghosts == <<may, snapVal>>
bounds == <<cmds, crashes>>
qvars == <<image, memory, req, queues, thr, ghosts, bounds>>

NoEntry == [off |-> 0, copied |-> FALSE]
NoTable == <<>>
NoL2Cache == [h \in H |-> NoTable]
NewTable == [g \in G |-> NoEntry]
NoSnap == [l1 |-> NoEntry, is |-> FALSE]
Junk == 99  \* what is read as data from an L2 table

Table(t) == [t |-> t, d |-> [i \in 0..CS - 1 |-> Junk]]

-----------------------------------------------------------------------------
(***************************************************************************)
(* Lookups.                                                                *)
(***************************************************************************)
L2Of(cache, h) == IF cache[h] # NoTable THEN cache[h] ELSE blk[h].t

\* The sector's value by an L1 entry and the tables of a cache.
ReadBy(l1, cache, sec) ==
  LET e == IF l1.off = 0 THEN NoEntry ELSE L2Of(cache, l1.off)[sec \div CS]
  IN IF e.off = 0 THEN 0 ELSE blk[e.off].d[sec % CS]

\* qcow_read: what the running guest reads.
qcow_read(sec) == ReadBy(l1_table, l2_cache, sec)

\* What a restart would find.
DiskRead(l1, sec) == ReadBy(l1, NoL2Cache, sec)

Outstanding(r) == req[r].st \in {"run", "wait", "io", "landed"}
Covers(r, sec) == sec >= req[r].rg[1] /\ sec < req[r].rg[1] + req[r].rg[2]

\* Host cluster and sector of the k-th sector of the part of r being written.
Place(r, k) == LET i == (req[r].pos % CS) + k
               IN <<req[r].off + i \div CS, i % CS>>

-----------------------------------------------------------------------------
(***************************************************************************)
(* qcow2-refcount.c.                                                       *)
(***************************************************************************)
update_refcount(ref, hs, addend) ==
  [h \in H |-> IF h \in hs THEN ref[h] + addend ELSE ref[h]]

\* A cluster that becomes free pulls the search for free ones back to it.
Lowered(ref) ==
  LET freed == {h \in H : ref[h] = 0 /\ refcount[h] # 0 /\ h < free_cluster_index}
  IN IF freed = {} THEN free_cluster_index ELSE CHOOSE h \in freed : \A k \in freed : h <= k

FreeRuns(n) == {h \in free_cluster_index..HC - n + 1 : \A k \in 0..n - 1 : refcount[h + k] = 0}

\* The first run of n free clusters from the index on.
alloc_clusters_noref(n, h) == h \in FreeRuns(n) /\ \A k \in FreeRuns(n) : h <= k

qcow2_alloc_clusters(n, h) ==
  /\ alloc_clusters_noref(n, h)
  /\ refcount' = update_refcount(refcount, h..h + n - 1, 1)
  /\ free_cluster_index' = h + n

\* It fails in update_refcount: the counts cannot be written, and stay in the cached
\* block, or there is no refcount block for them, and what was counted is undone.
CountingFails(n, h) ==
  \/ qcow2_alloc_clusters(n, h)
  \/ /\ alloc_clusters_noref(n, h)
     /\ free_cluster_index' \in {h, h + n}
     /\ UNCHANGED refcount

qcow2_free_clusters(hs) ==
  /\ refcount' = update_refcount(refcount, hs, -1)
  /\ free_cluster_index' = Lowered(refcount')

\* qcow2_update_snapshot_refcount, of the tables below an L1 entry: counts and
\* then the flags that say a count is 1.
Recount(img, l1, addend) ==
  IF l1.off = 0 THEN [img EXCEPT !.l1 = l1]
  ELSE LET t == img.blk[l1.off].t
           ref == update_refcount(img.ref, ({l1.off} \cup {t[g].off : g \in G}) \ {0}, addend)
           Flag(e) == IF e.off = 0 THEN e ELSE [e EXCEPT !.copied = ref[e.off] = 1]
       IN [ref |-> ref, l1 |-> Flag(l1),
           blk |-> [img.blk EXCEPT ![l1.off].t = [g \in G |-> Flag(t[g])]]]

-----------------------------------------------------------------------------
(***************************************************************************)
(* The start and the end of a callback.                                    *)
(***************************************************************************)
IdleThread == [st |-> "idle", r |-> 0, ok |-> TRUE, todo |-> <<>>, olds |-> {}, new |-> 0]

\* The next request this callback has to go on with, or back to the main loop.
Return == IF Len(thr.todo) = 1 THEN IdleThread
          ELSE [thr EXCEPT !.st = "cont", !.todo = Tail(@), !.new = 0]

\* The guest is told.
Finish(r, ok) ==
  /\ req' = [req EXCEPT ![r].st = "done"]
  /\ may' = [sec \in Sectors |-> IF ok /\ Covers(r, sec) THEN {r} ELSE may[sec]]
  /\ thr' = Return
  /\ UNCHANGED <<queues, snapVal, bounds>>

\* qcow_aio_writev.  Writes are numbered as they are made, and the guest does not
\* overlap its own outstanding ones.
qcow_aio_writev(r, rg) ==
  LET mine == rg[1]..rg[1] + rg[2] - 1
  IN /\ r \in env.writes /\ thr.st = "idle" /\ req[r].st = "new" /\ \A q \in Reqs : q < r => req[q].st # "new"
     /\ env.whole => rg[1] % CS = 0 /\ rg[2] % CS = 0
     /\ \A q \in Reqs : Outstanding(q) => \A sec \in mine : ~Covers(q, sec)
     /\ req' = [req EXCEPT ![r].st = "run", ![r].rg = rg, ![r].pos = rg[1], ![r].left = rg[2]]
     /\ may' = [sec \in Sectors |-> may[sec] \cup (IF sec \in mine THEN {r} ELSE {})]
     /\ thr' = [IdleThread EXCEPT !.st = "cont", !.r = r, !.todo = <<r>>]
     /\ UNCHANGED <<image, memory, queues, snapVal, bounds>>

\* A worker thread writes the data.
DataLands(r) ==
  /\ req[r].st = "io"
  /\ req' = [req EXCEPT ![r].st = "landed"]
  /\ LET at == {Place(r, k) : k \in 0..req[r].n - 1}
     IN blk' = [h \in H |-> IF \A p \in at : p[1] # h THEN blk[h]
                            ELSE [t |-> NewTable,
                                  d |-> [i \in 0..CS - 1 |-> IF <<h, i>> \in at THEN r ELSE blk[h].d[i]]]]
  /\ UNCHANGED <<refcount, disk_l1, snap, memory, queues, thr, ghosts, bounds>>

\* qcow_aio_write_cb, up to the metadata update.
WriteDone(r) ==
  /\ thr.st = "idle" /\ req[r].st = "landed"
  /\ thr' = [IdleThread EXCEPT !.st = IF req[r].nb = 0 THEN "deps" ELSE "copy", !.r = r]
  /\ UNCHANGED <<image, memory, req, queues, ghosts, bounds>>

WriteFailed(r) ==
  /\ "data" \in env.fails
  /\ thr.st = "idle" /\ req[r].st = "io"
  /\ thr' = [IdleThread EXCEPT !.st = "deps", !.r = r, !.ok = FALSE]
  /\ UNCHANGED <<image, memory, req, queues, ghosts, bounds>>

\* qcow_aio_cancel, of a write in the image file, whose allocation stays on the
\* list, or of one that waits, which stays with those to be restarted.
qcow_aio_cancel(r) ==
  /\ thr.st = "idle"
  /\ \/ /\ "io" \in env.cancels /\ req[r].st \in {"io", "landed"}
        /\ req' = [req EXCEPT ![r].st = "gone"]
     \/ /\ "wait" \in env.cancels /\ req[r].st = "wait"
        /\ req' = [req EXCEPT ![r].st = "dropped"]
  /\ UNCHANGED <<image, memory, queues, thr, ghosts, bounds>>

-----------------------------------------------------------------------------
(***************************************************************************)
(* qcow2_alloc_cluster_link_l2.                                            *)
(***************************************************************************)
\* Mutant: only what is before the data is copied.
CopyHead ==
  /\ thr.st = "copy"
  /\ LET q == req[thr.r]
     IN blk' = [blk EXCEPT ![q.off].d = [i \in 0..CS - 1 |->
                  IF i < q.aoff % CS THEN qcow_read(q.aoff - (q.aoff % CS) + i) ELSE @[i]]]
  /\ thr' = [thr EXCEPT !.st = "link"]
  /\ UNCHANGED <<refcount, disk_l1, snap, memory, req, queues, ghosts, bounds>>

\* Fill the new clusters around what was written.
CopySectors ==
  /\ thr.st = "copy"
  /\ LET q == req[thr.r]
         n_start == q.aoff % CS
         first == q.aoff - n_start
         Old(h, i) == LET p == (h - q.off) * CS + i
                      IN p < n_start \/ p >= n_start + q.n
     IN blk' = [h \in H |->
          IF h \notin q.off..q.off + q.nb - 1 THEN blk[h]
          ELSE [blk[h] EXCEPT !.d = [i \in 0..CS - 1 |->
                  IF Old(h, i) THEN qcow_read(first + (h - q.off) * CS + i) ELSE @[i]]]]
  /\ thr' = [thr EXCEPT !.st = "link"]
  /\ UNCHANGED <<refcount, disk_l1, snap, memory, req, queues, ghosts, bounds>>

\* Mutant: the table is changed in the cache only.
LinkCached ==
  /\ thr.st = "link" /\ l1_table.copied
  /\ LET q == req[thr.r]
         g0 == q.aoff \div CS
         gs == g0..g0 + q.nb - 1
         old == L2Of(l2_cache, l1_table.off)
     IN /\ l2_cache' = [l2_cache EXCEPT ![l1_table.off] =
             [g \in G |-> IF g \in gs THEN [off |-> q.off + g - g0, copied |-> TRUE] ELSE old[g]]]
        /\ thr' = [thr EXCEPT !.st = "free", !.olds = {old[g].off : g \in gs} \ {0}]
  /\ UNCHANGED <<image, l1_table, free_cluster_index, req, queues, ghosts, bounds>>

\* The L2 table is not shared: it was copied, if need be, when the clusters
\* were allocated.
WriteL2Entries ==
  /\ thr.st = "link" /\ l1_table.copied
  /\ LET q == req[thr.r]
         g0 == q.aoff \div CS
         gs == g0..g0 + q.nb - 1
         old == L2Of(l2_cache, l1_table.off)
         new == [g \in G |-> IF g \in gs THEN [off |-> q.off + g - g0, copied |-> TRUE] ELSE old[g]]
     IN /\ l2_cache' = [l2_cache EXCEPT ![l1_table.off] = new]
        /\ blk' = [blk EXCEPT ![l1_table.off] = Table(new)]
        /\ thr' = [thr EXCEPT !.st = "free", !.olds = {old[g].off : g \in gs} \ {0}]
  /\ UNCHANGED <<refcount, disk_l1, snap, l1_table, free_cluster_index, req, queues, ghosts, bounds>>

FreeOld ==
  /\ thr.st = "free"
  /\ IF thr.olds = {} THEN thr' = [thr EXCEPT !.st = "deps"] /\ UNCHANGED <<refcount, free_cluster_index>>
     ELSE \E h \in thr.olds : /\ qcow2_free_clusters({h})
                             /\ thr' = [thr EXCEPT !.olds = @ \ {h}]
  /\ UNCHANGED <<blk, disk_l1, snap, l1_table, l2_cache, req, queues, ghosts, bounds>>

\* One of the writes above fails; a failed table write empties the cache.
LinkFailed ==
  /\ thr.st \in {"copy", "link"} \cap env.fails
  /\ thr' = [thr EXCEPT !.st = "deps", !.ok = FALSE]
  /\ l2_cache' = IF thr.st = "link" THEN NoL2Cache ELSE l2_cache
  /\ UNCHANGED <<image, l1_table, free_cluster_index, req, queues, ghosts, bounds>>

\* Mutant: those that waited are not restarted.
DepsForgets ==
  /\ thr.st = "deps"
  /\ cluster_allocs' = IF req[thr.r].nb # 0 THEN Without(cluster_allocs, thr.r) ELSE cluster_allocs
  /\ thr' = [thr EXCEPT !.st = "cont", !.todo = <<thr.r>>]
  /\ dependent_requests' = [dependent_requests EXCEPT ![thr.r] = <<>>]
  /\ UNCHANGED <<image, memory, req, ghosts, bounds>>

\* run_dependent_requests: those that waited go on first.
run_dependent_requests ==
  /\ thr.st = "deps"
  /\ cluster_allocs' = IF req[thr.r].nb # 0 THEN Without(cluster_allocs, thr.r) ELSE cluster_allocs
  /\ thr' = [thr EXCEPT !.st = "cont", !.todo = Append(dependent_requests[thr.r], thr.r)]
  /\ dependent_requests' = [dependent_requests EXCEPT ![thr.r] = <<>>]
  /\ UNCHANGED <<image, memory, req, ghosts, bounds>>

-----------------------------------------------------------------------------
(***************************************************************************)
(* qcow_aio_write_cb, from the next part of the request on: thr.todo's     *)
(* first.                                                                  *)
(***************************************************************************)
Continue ==
  /\ thr.st = "cont"
  /\ LET r == Head(thr.todo)
         q == req[r]
         failed == r = thr.r /\ ~thr.ok
     IN IF failed \/ q.left = q.n THEN Finish(r, ~failed)
        ELSE /\ req' = [req EXCEPT ![r].st = "run", ![r].pos = @ + q.n, ![r].left = @ - q.n, ![r].n = 0]
             /\ thr' = [thr EXCEPT !.st = "table"]
             /\ UNCHANGED <<queues, ghosts, bounds>>
  /\ UNCHANGED <<image, memory>>

\* get_cluster_table, of a table that is not shared.
l2_load ==
  /\ thr.st = "table" /\ l1_table.copied
  /\ l2_cache' = [l2_cache EXCEPT ![l1_table.off] = L2Of(l2_cache, l1_table.off)]
  /\ thr' = [thr EXCEPT !.st = "alloc"]
  /\ UNCHANGED <<image, l1_table, free_cluster_index, req, queues, ghosts, bounds>>

\* get_cluster_table gives a shared table up before there is a copy of it.
FreeSharedL2 ==
  /\ thr.st = "table" /\ ~l1_table.copied /\ l1_table.off # 0
  /\ qcow2_free_clusters({l1_table.off})
  /\ thr' = [thr EXCEPT !.st = "l2"]
  /\ UNCHANGED <<blk, disk_l1, snap, l1_table, l2_cache, req, queues, ghosts, bounds>>

\* l2_allocate: its three writes.
NeedsL2 == thr.st = "l2" \/ (thr.st = "table" /\ l1_table.off = 0)

AllocL2 ==
  /\ NeedsL2
  /\ \E h \in H : /\ qcow2_alloc_clusters(1, h)
                 /\ thr' = [thr EXCEPT !.st = "l2write", !.new = h]
  /\ UNCHANGED <<blk, disk_l1, snap, l1_table, l2_cache, req, queues, ghosts, bounds>>

WriteL2 ==
  /\ thr.st = "l2write"
  /\ blk' = [blk EXCEPT ![thr.new] = Table(IF l1_table.off = 0 THEN NewTable ELSE blk[l1_table.off].t)]
  /\ thr' = [thr EXCEPT !.st = "l1write"]
  /\ UNCHANGED <<refcount, disk_l1, snap, memory, req, queues, ghosts, bounds>>

WriteL1 ==
  /\ thr.st = "l1write"
  /\ l1_table' = [off |-> thr.new, copied |-> TRUE]
  /\ disk_l1' = l1_table'
  /\ l2_cache' = [l2_cache EXCEPT ![thr.new] = blk[thr.new].t]
  /\ thr' = [thr EXCEPT !.st = "alloc"]
  /\ UNCHANGED <<refcount, blk, snap, free_cluster_index, req, queues, ghosts, bounds>>

\* The request fails; after a failed L1 write memory keeps the new entry.
L2AllocateFailed ==
  /\ \/ "l2" \in env.fails /\ thr.st = "l2write" /\ UNCHANGED l1_table
     \/ "l1" \in env.fails /\ thr.st = "l1write" /\ l1_table' = [off |-> thr.new, copied |-> TRUE]
  /\ l2_cache' = NoL2Cache
  /\ Finish(Head(thr.todo), FALSE)
  /\ UNCHANGED <<image, free_cluster_index>>

-----------------------------------------------------------------------------
(***************************************************************************)
(* qcow2_alloc_cluster_offset, with the table at hand.                     *)
(***************************************************************************)
\* How many clusters from g on can be treated alike: contiguous ones of this
\* disk alone, or free and contiguous shared ones that are to be replaced.
Alike(t, g, want) ==
  LET base == t[g]
      Same(j) == \/ base.off # 0 /\ t[g + j] = [base EXCEPT !.off = @ + j]
                 \/ ~base.copied /\ t[g + j] = NoEntry
      ns == {n \in 1..want : \A j \in 0..n - 1 : Same(j)}
  IN CHOOSE n \in ns : \A m \in ns : m <= n

\* Mutant: only a request for the same offset is seen.
SameStart(pos, nb0) ==
  LET same == {r \in Elements(cluster_allocs) : req[r].aoff = pos}
  IN [nb |-> nb0, on |-> IF same = {} THEN 0 ELSE CHOOSE r \in same : TRUE]

\* The allocation of r, if it intersects, cuts c.nb clusters at pos short.
CutShort(c, pos, r) ==
  LET o == req[r]
      nb == IF pos < o.aoff THEN (o.aoff - pos) \div CS ELSE 0
  IN IF c.nb = 0 \/ pos + c.nb * CS < o.aoff \/ pos > o.aoff + o.nb * CS THEN c
     ELSE [nb |-> nb, on |-> IF nb = 0 THEN r ELSE 0]

\* The allocations in flight, the last first, cut nb0 clusters at pos short, or
\* make the request wait for one of them.
Conflict(pos, nb0) ==
  LET Cut[i \in 0..Len(cluster_allocs)] ==
        IF i = 0 THEN [nb |-> nb0, on |-> 0] ELSE CutShort(Cut[i - 1], pos, cluster_allocs[i])
  IN Cut[Len(cluster_allocs)]

\* The clusters of what is left of q that can be treated alike.
Ahead(q) ==
  LET g == q.pos \div CS
      most == ((q.pos % CS) + q.left + CS - 1) \div CS
  IN Alike(l2_cache[l1_table.off], g, IF most > GC - g THEN GC - g ELSE most)

AllocClusters ==
  /\ thr.st = "alloc"
  /\ LET r == Head(thr.todo)
         q == req[r]
         n_start == q.pos % CS
         n_end == n_start + q.left
         g == q.pos \div CS
         t == l2_cache[l1_table.off]
         nb == Ahead(q)
         c == Conflict(q.pos, nb)
         Avail(k) == (IF k * CS < n_end THEN k * CS ELSE n_end) - n_start
     IN \/ /\ t[g].copied
           /\ req' = [req EXCEPT ![r].st = "io", ![r].n = Avail(nb), ![r].nb = 0, ![r].off = t[g].off]
           /\ UNCHANGED <<refcount, free_cluster_index, queues>>
        \/ /\ ~t[g].copied /\ c.on # 0
           /\ req' = [req EXCEPT ![r].st = "wait", ![r].n = 0, ![r].nb = 0]
           /\ dependent_requests' = [dependent_requests EXCEPT ![c.on] = <<r>> \o @]
           /\ UNCHANGED <<refcount, free_cluster_index, cluster_allocs>>
        \/ /\ ~t[g].copied /\ c.on = 0
           /\ \E h \in H :
                /\ qcow2_alloc_clusters(c.nb, h)
                /\ req' = [req EXCEPT ![r].st = "io", ![r].n = Avail(c.nb), ![r].nb = c.nb,
                                      ![r].off = h, ![r].aoff = q.pos]
           /\ cluster_allocs' = <<r>> \o cluster_allocs
           /\ UNCHANGED dependent_requests
  /\ thr' = Return
  /\ UNCHANGED <<blk, disk_l1, snap, l1_table, l2_cache, ghosts, bounds>>

\* There are no clusters for the data, or for an L2 table: the request fails.
AllocFailed ==
  /\ "alloc" \in env.fails
  /\ LET q == req[Head(thr.todo)]
         c == Conflict(q.pos, Ahead(q))
     IN \/ NeedsL2 /\ \E h \in H : CountingFails(1, h)
        \/ /\ thr.st = "alloc" /\ ~l2_cache[l1_table.off][q.pos \div CS].copied /\ c.on = 0
           /\ \E h \in H : CountingFails(c.nb, h)
  /\ Finish(Head(thr.todo), FALSE)
  /\ UNCHANGED <<blk, disk_l1, snap, l1_table, l2_cache>>

-----------------------------------------------------------------------------
(***************************************************************************)
(* Snapshots (qcow2-snapshot.c), as the monitor's commands use them: savevm *)
(* and loadvm wait for the outstanding writes, delvm does not.             *)
(***************************************************************************)
Image == [ref |-> refcount, blk |-> blk, l1 |-> l1_table]
Stored(d, old, new) == IF new = old THEN d ELSE new
Flushed == \A r \in Reqs : req[r].st \notin {"io", "landed"}

Command(c, img) ==
  /\ c \in env.cmds /\ cmds < MaxCmds /\ thr.st = "idle"
  /\ cmds' = cmds + 1
  /\ refcount' = img.ref /\ blk' = img.blk /\ l1_table' = img.l1
  /\ l2_cache' = NoL2Cache
  /\ free_cluster_index' = Lowered(img.ref)
  /\ UNCHANGED <<req, queues, thr, crashes>>

\* The image after qcow2_snapshot_delete, if there is a snapshot.
Deleted == IF snap.is THEN Recount(Recount(Image, snap.l1, -1), l1_table, 0) ELSE Image

\* An old snapshot of that name is deleted first.
savevm ==
  LET d == Deleted
      c == Recount(d, d.l1, 1)
  IN /\ Command("savevm", c) /\ Flushed
     /\ disk_l1' = Stored(Stored(disk_l1, l1_table, d.l1), d.l1, c.l1)
     /\ snap' = [l1 |-> c.l1, is |-> TRUE]
     /\ snapVal' = [sec \in Sectors |-> qcow_read(sec)]
     /\ UNCHANGED may

loadvm ==
  LET c == Recount(Recount(Image, l1_table, -1), snap.l1, 1)
  IN /\ Command("loadvm", c) /\ Flushed /\ snap.is
     /\ disk_l1' = c.l1
     /\ may' = [sec \in Sectors |-> {snapVal[sec]}]
     /\ UNCHANGED <<snap, snapVal>>

delvm ==
  /\ Command("delvm", Deleted) /\ snap.is
  /\ disk_l1' = Stored(disk_l1, l1_table, Deleted.l1)
  /\ snap' = NoSnap
  /\ UNCHANGED ghosts

-----------------------------------------------------------------------------
\* The host stops; the image is opened again as it is on disk (qcow_open).
Crash ==
  /\ env.crash /\ crashes < MaxCrash
  /\ crashes' = crashes + 1
  /\ l1_table' = disk_l1 /\ l2_cache' = NoL2Cache /\ free_cluster_index' = 1
  /\ req' = [r \in Reqs |-> IF Outstanding(r) THEN [req[r] EXCEPT !.st = "done"] ELSE req[r]]
  /\ cluster_allocs' = <<>> /\ dependent_requests' = [r \in Reqs |-> <<>>]
  /\ thr' = IdleThread
  /\ UNCHANGED <<image, ghosts, cmds>>

\* An image with some guest clusters mapped, each to a cluster of its own.
Qcow2Init ==
  /\ env \in Envs
  /\ \E m \in Layouts :
       /\ refcount = [h \in H |-> IF m # {} /\ h <= Cardinality(m) + 1 THEN 1 ELSE 0]
       /\ disk_l1 = IF m = {} THEN NoEntry ELSE [off |-> 1, copied |-> TRUE]
       /\ blk = [h \in H |-> [t |-> IF h # 1 THEN NewTable
                                     ELSE [g \in G |-> IF g \notin m THEN NoEntry
                                            ELSE [off |-> 2 + Cardinality({k \in m : k < g}), copied |-> TRUE]],
                              d |-> [i \in 0..CS - 1 |-> 0]]]
  /\ l1_table = disk_l1 /\ l2_cache = NoL2Cache /\ free_cluster_index = 1
  /\ snap = NoSnap
  /\ req = [r \in Reqs |-> [st |-> "new", rg |-> <<0, 0>>, pos |-> 0, left |-> 0, n |-> 0,
                            nb |-> 0, off |-> 0, aoff |-> 0]]
  /\ cluster_allocs = <<>> /\ dependent_requests = [r \in Reqs |-> <<>>]
  /\ thr = IdleThread
  /\ may = [sec \in Sectors |-> {0}] /\ snapVal = [sec \in Sectors |-> 0]
  /\ cmds = 0 /\ crashes = 0

Step == \/ CopySectors \/ WriteL2Entries \/ FreeOld \/ run_dependent_requests \/ Continue
        \/ l2_load \/ FreeSharedL2 \/ AllocL2 \/ WriteL2 \/ WriteL1 \/ AllocClusters

Qcow2Next == \/ \E r \in Reqs : \/ \E rg \in Ranges : qcow_aio_writev(r, rg)
                          \/ DataLands(r) \/ WriteDone(r) \/ WriteFailed(r) \/ qcow_aio_cancel(r)
        \/ Step \/ LinkFailed \/ AllocFailed \/ L2AllocateFailed
        \/ savevm \/ loadvm \/ delvm \/ Crash

Qcow2Spec == Qcow2Init /\ [][Qcow2Next /\ UNCHANGED env]_<<qvars, env>>

\* The thread goes on, the host's writes end and are reported.
Qcow2FairSpec == /\ Qcow2Spec /\ WF_qvars(Step)
                 /\ \A r \in Reqs : WF_qvars(DataLands(r)) /\ SF_qvars(WriteDone(r))

-----------------------------------------------------------------------------
Entries == [off : 0..HC, copied : BOOLEAN]

\* The types, with requests inside their ranges, and no count below zero: the
\* driver aborts on that (qcow2_free_clusters).
Qcow2TypeOK ==
  /\ refcount \in [H -> Nat]
  /\ disk_l1 \in Entries /\ l1_table \in Entries /\ snap \in [l1 : Entries, is : BOOLEAN]
  /\ \A h \in H : blk[h].t \in [G -> Entries] /\ l2_cache[h] \in [G -> Entries] \cup {NoTable}
  /\ \A r \in Reqs :
       /\ req[r].st \in {"new", "run", "wait", "io", "landed", "done", "gone", "dropped"}
       /\ req[r].n \in 0..req[r].left /\ req[r].pos + req[r].left = req[r].rg[1] + req[r].rg[2]
       /\ req[r].st = "io" => req[r].n > 0 /\ Place(r, req[r].n - 1)[1] \in H
  /\ \A i \in 1..Len(cluster_allocs) : req[cluster_allocs[i]].nb > 0

\* A cancelled write that waited is still made, when the guest may have written the
\* sectors again.
LateWrites == "wait" \in env.cancels

\* The guest reads what it was last told is written, or what an unfinished or
\* failed write wanted (qcow_read, qcow2_alloc_cluster_link_l2).
GuestReads == ~LateWrites => \A sec \in Sectors : qcow_read(sec) \in may[sec]

\* So does a guest that starts from the image as it is on disk now: a write is
\* reported only when its clusters can be found again (qcow_aio_write_cb), unless
\* the write of an L1 entry fails, which memory does not notice.
Durable == "l1" \notin env.fails /\ ~LateWrites => \A sec \in Sectors : DiskRead(disk_l1, sec) \in may[sec]

\* Nothing the guest writes afterwards changes a snapshot
\* (qcow2_update_snapshot_refcount, get_cluster_table).
SnapshotIntact == snap.is => \A sec \in Sectors : DiskRead(snap.l1, sec) = snapVal[sec]

\* How often a cluster is referred to on disk, the way qcow2_check_refcounts
\* counts it.
References(h) ==
  LET l1s == {<<"disk", disk_l1>>} \cup (IF snap.is THEN {<<"snap", snap.l1>>} ELSE {})
      used == {x \in l1s : x[2].off # 0}
  IN Cardinality({x \in used : x[2].off = h})
     + Cardinality({y \in used \X G : blk[y[1][2].off].t[y[2]].off = h})

\* At every moment, and so after a crash, no cluster has a lower count on disk
\* than references: none in use can be allocated again (update_refcount, and the
\* order of the writes in qcow2_alloc_cluster_link_l2).  Without snapshots, that
\* is: get_cluster_table gives a shared table up too early.
RefsCovered == env.cmds = {} => \A h \in H : refcount[h] >= References(h)

\* Clusters allocated for a write that is not linked yet.
Unlinked(h) == \E r \in Reqs : /\ r \in Elements(cluster_allocs)
                               /\ h \in req[r].off..req[r].off + req[r].nb - 1

\* Between callbacks nothing is leaked either, by writes that are not cut short
\* (qcow2_alloc_cluster_link_l2, qcow2_update_snapshot_refcount).
RefsExact ==
  thr.st = "idle" /\ env.fails = {} /\ env.cancels = {} /\ ~env.crash
    => \A h \in H : refcount[h] = References(h) + (IF Unlinked(h) THEN 1 ELSE 0)

\* No two writes in flight allocate for the same guest cluster
\* (qcow2_alloc_cluster_offset).
AllocsDisjoint ==
  \A i, j \in 1..Len(cluster_allocs) :
    LET Clusters(q) == q.aoff \div CS..(q.aoff \div CS) + q.nb - 1
    IN i # j => Clusters(req[cluster_allocs[i]]) \cap Clusters(req[cluster_allocs[j]]) = {}

\* A write that waits for another one is restarted and ends, unless writes are
\* cancelled, which leaves those that wait for them (run_dependent_requests).
WritesEnd == env.cancels = {} => \A r \in Reqs : Outstanding(r) ~> ~Outstanding(r)

\* What is on disk reads right, for a restart and for the snapshot
\* (qcow2_alloc_cluster_link_l2, qcow2_update_snapshot_refcount).
ImageReads == Durable /\ SnapshotIntact

\* Clusters are accounted for: the counts cover the references and, left alone,
\* equal them, and no two writes allocate for one cluster (update_refcount,
\* qcow2_alloc_cluster_offset).
RefsRight == Qcow2TypeOK /\ RefsCovered /\ RefsExact /\ AllocsDisjoint
==============================================================================
