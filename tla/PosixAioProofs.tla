-------------------------- MODULE PosixAioProofs --------------------------
(***************************************************************************)
(* Theorems about PosixAio.                                                *)
(***************************************************************************)
EXTENDS PosixAio, ListProofs, FiniteSetTheorems, SequenceTheorems, TLAPS

-----------------------------------------------------------------------------
(***************************************************************************)
(* The main thread's stack.                                                *)
(***************************************************************************)
Frames == [k: FrameKinds, a: Acbs \cup {NoAcb}, pos: Nat \ {0}, flag: BOOLEAN]
CoreKinds == {"sync", "cb"}

InnerOf(s) == s[Len(s)]
CallerOf(s) == SubSeq(s, 1, Len(s) - 1)
DepthAt(s, n) == Cardinality({m \in SyncFrames(s) : m <= n})
CbOf(s) == {s[n].a : n \in {m \in DOMAIN s : s[m].k = "cb"}}

\* The main loop is at the bottom and nowhere else; a call that waits for the
\* condition or for a worker is innermost; a block has one callback at most.
Shape(s) ==
  /\ s \in Seq(Frames) /\ Len(s) >= 1 /\ s[1].k = "run"
  /\ \A n \in 2 .. Len(s) : s[n].k # "run"
  /\ \A n \in 1 .. Len(s) - 1 : s[n].k \notin {"signal", "cancel"}
  /\ \A n \in 1 .. Len(s) : s[n].k \in {"cb", "cancel"} => s[n].a \in Acbs
  /\ \A m, n \in 1 .. Len(s) : s[m].k = "cb" /\ s[n].k = "cb" /\ s[m].a = s[n].a => m = n
  /\ Cardinality(SyncFrames(s)) <= MaxDepth

\* The same synchronous calls and callbacks are in progress.
SameCore(s, t) ==
  /\ \A n \in Nat \ {0} : n <= Len(s) /\ s[n].k \in CoreKinds
                            <=> n <= Len(t) /\ t[n].k \in CoreKinds
  /\ \A n \in Nat \ {0} : n <= Len(s) /\ s[n].k \in CoreKinds => t[n] = s[n]

LEMMA Appended ==
  ASSUME NEW s \in Seq(Frames), NEW f \in Frames
  PROVE  /\ Append(s, f) \in Seq(Frames) /\ Len(Append(s, f)) = Len(s) + 1
         /\ \A n \in 1 .. Len(s) : Append(s, f)[n] = s[n]
         /\ Append(s, f)[Len(s) + 1] = f
         /\ Len(s) \in Nat /\ \A n \in 1 .. Len(s) : s[n] \in Frames
BY AppendProperties, LenProperties

LEMMA Popped ==
  ASSUME NEW s \in Seq(Frames), Len(s) >= 1
  PROVE  /\ CallerOf(s) \in Seq(Frames) /\ Len(CallerOf(s)) = Len(s) - 1
         /\ \A n \in 1 .. Len(s) - 1 : CallerOf(s)[n] = s[n]
         /\ Len(s) \in Nat /\ \A n \in 1 .. Len(s) : s[n] \in Frames
<1>1. Len(s) \in Nat /\ \A n \in 1 .. Len(s) : s[n] \in Frames
  BY LenProperties
<1>2. Len(s) - 1 \in Int /\ 1 \in Int /\ \A n \in 1 .. Len(s) - 1 : s[n] \in Frames
  BY <1>1
<1> DEFINE r == SubSeq(s, 1, Len(s) - 1)
<1>3. /\ r \in Seq(Frames)
      /\ Len(r) = IF 1 <= Len(s) - 1 THEN (Len(s) - 1) - 1 + 1 ELSE 0
      /\ \A i \in 1 .. (Len(s) - 1) - 1 + 1 : r[i] = s[1 + i - 1]
  BY <1>2, SubSeqProperties
<1> HIDE DEF r
<1>4. r \in Seq(Frames) /\ Len(r) = Len(s) - 1 /\ \A n \in 1 .. Len(s) - 1 : r[n] = s[n]
  <2>1. Len(r) = Len(s) - 1
    <3> DEFINE n == Len(s)
               m == Len(r)
    <3>1. n \in Nat /\ n >= 1 /\ m = IF 1 <= n - 1 THEN (n - 1) - 1 + 1 ELSE 0
      BY <1>1, <1>3
    <3> HIDE DEF n, m
    <3>2. m = n - 1
      BY <3>1
    <3>3. QED BY <3>2 DEF m, n
  <2>2. ASSUME NEW n \in 1 .. Len(s) - 1 PROVE r[n] = s[n]
    <3>1. n \in 1 .. (Len(s) - 1) - 1 + 1 /\ 1 + n - 1 = n
      BY <1>1
    <3>2. QED BY <3>1, <1>3
  <2>3. QED BY <1>3, <2>1, <2>2
<1>5. QED BY <1>1, <1>4 DEF CallerOf, r

\* Synchronous calls in progress: a finite set of positions.
LEMMA SyncFinite ==
  ASSUME NEW s \in Seq(Frames)
  PROVE  /\ SyncFrames(s) = {n \in 1 .. Len(s) : s[n].k = "sync"}
         /\ IsFiniteSet(SyncFrames(s)) /\ Cardinality(SyncFrames(s)) \in Nat
<1>1. DOMAIN s = 1 .. Len(s) /\ Len(s) \in Nat
  BY LenProperties
<1>2. IsFiniteSet(1 .. Len(s))
  BY <1>1, FS_Interval
<1>3. SyncFrames(s) = {n \in 1 .. Len(s) : s[n].k = "sync"}
  BY <1>1 DEF SyncFrames
<1>4. IsFiniteSet(SyncFrames(s))
  BY <1>2, <1>3, FS_Subset
<1>5. QED BY <1>3, <1>4, FS_CardinalityType

LEMMA SameCoreSame ==
  ASSUME NEW s \in Seq(Frames), NEW t \in Seq(Frames), SameCore(s, t)
  PROVE  SyncFrames(t) = SyncFrames(s) /\ CbOf(t) = CbOf(s)
<1>1. DOMAIN s = 1 .. Len(s) /\ Len(s) \in Nat /\ DOMAIN t = 1 .. Len(t) /\ Len(t) \in Nat
  BY LenProperties
<1>2. \A n \in Nat \ {0} : n <= Len(s) /\ s[n].k = "sync" <=> n <= Len(t) /\ t[n].k = "sync"
  BY DEF SameCore, CoreKinds
<1>3. \A n \in Nat \ {0} : n <= Len(s) /\ s[n].k = "cb" <=> n <= Len(t) /\ t[n].k = "cb"
  BY DEF SameCore, CoreKinds
<1>4. \A n \in Nat \ {0} : n <= Len(s) /\ s[n].k = "cb" => t[n].a = s[n].a
  BY DEF SameCore, CoreKinds
<1>5. SyncFrames(t) = SyncFrames(s)
  <2>1. \A n : n \in SyncFrames(s) <=> n \in Nat \ {0} /\ n <= Len(s) /\ s[n].k = "sync"
    BY <1>1 DEF SyncFrames
  <2>2. \A n : n \in SyncFrames(t) <=> n \in Nat \ {0} /\ n <= Len(t) /\ t[n].k = "sync"
    BY <1>1 DEF SyncFrames
  <2>3. QED BY <2>1, <2>2, <1>2
<1>6. {m \in DOMAIN s : s[m].k = "cb"} = {m \in DOMAIN t : t[m].k = "cb"}
  <2>1. \A n : n \in DOMAIN s <=> n \in Nat \ {0} /\ n <= Len(s)
    BY <1>1
  <2>2. \A n : n \in DOMAIN t <=> n \in Nat \ {0} /\ n <= Len(t)
    BY <1>1
  <2>3. QED BY <2>1, <2>2, <1>3
<1>7. \A n \in {m \in DOMAIN s : s[m].k = "cb"} : t[n].a = s[n].a
  BY <1>1, <1>4
<1>8. CbOf(t) = CbOf(s)
  BY <1>6, <1>7 DEF CbOf
<1>9. QED BY <1>5, <1>8

\* A call returns.
LEMMA Pop ==
  ASSUME NEW s, Shape(s), InnerOf(s).k # "run"
  PROVE  /\ CallerOf(s) \in Seq(Frames) /\ Len(CallerOf(s)) = Len(s) - 1
         /\ \A n \in 1 .. Len(s) - 1 : CallerOf(s)[n] = s[n]
         /\ Shape(CallerOf(s))
         /\ InnerOf(CallerOf(s)).k \notin {"signal", "cancel"}
         /\ InnerOf(s).k \notin CoreKinds => SameCore(s, CallerOf(s))
<1> DEFINE r == CallerOf(s)
<1>1. /\ s \in Seq(Frames) /\ Len(s) \in Nat /\ Len(s) >= 2
      /\ r \in Seq(Frames) /\ Len(r) = Len(s) - 1 /\ \A n \in 1 .. Len(s) - 1 : r[n] = s[n]
  BY Popped, LenProperties DEF Shape, InnerOf
<1> HIDE DEF r
<1>2. SyncFrames(r) \subseteq SyncFrames(s)
  BY <1>1, SyncFinite
<1>3. Cardinality(SyncFrames(r)) <= MaxDepth
  <2>1. Cardinality(SyncFrames(r)) <= Cardinality(SyncFrames(s))
    BY <1>1, <1>2, SyncFinite, FS_Subset
  <2>2. QED BY <2>1, <1>1, SyncFinite, PoolAssumption DEF Shape
<1>4. Shape(r)
  BY <1>1, <1>3 DEF Shape
<1>5. InnerOf(r).k \notin {"signal", "cancel"}
  BY <1>1 DEF Shape, InnerOf
<1>6. InnerOf(s).k \notin CoreKinds => SameCore(s, r)
  BY <1>1 DEF SameCore, InnerOf
<1>7. QED BY <1>1, <1>4, <1>5, <1>6 DEF r

\* A call is made.
LEMMA Push1 ==
  ASSUME NEW s, Shape(s), InnerOf(s).k \notin {"signal", "cancel"},
         NEW f \in Frames, f.k # "run",
         f.k \in {"cb", "cancel"} => f.a \in Acbs,
         f.k = "cb" => f.a \notin CbOf(s),
         f.k = "sync" => Cardinality(SyncFrames(s)) < MaxDepth
  PROVE  /\ Append(s, f) \in Seq(Frames) /\ Len(Append(s, f)) = Len(s) + 1
         /\ \A n \in 1 .. Len(s) : Append(s, f)[n] = s[n]
         /\ Append(s, f)[Len(s) + 1] = f
         /\ Shape(Append(s, f)) /\ InnerOf(Append(s, f)) = f
         /\ f.k \notin CoreKinds => SameCore(s, Append(s, f))
         /\ f.k = "sync" => SyncFrames(Append(s, f)) = SyncFrames(s) \cup {Len(s) + 1}
         /\ f.k # "sync" => SyncFrames(Append(s, f)) = SyncFrames(s)
         /\ f.k = "cb" => CbOf(Append(s, f)) = CbOf(s) \cup {f.a}
         /\ f.k # "cb" => CbOf(Append(s, f)) = CbOf(s)
<1> DEFINE t == Append(s, f)
<1>1. /\ s \in Seq(Frames) /\ Len(s) \in Nat /\ Len(s) >= 1
      /\ t \in Seq(Frames) /\ Len(t) = Len(s) + 1
      /\ \A n \in 1 .. Len(s) : t[n] = s[n]
      /\ t[Len(s) + 1] = f
  BY Appended, LenProperties DEF Shape
<1> HIDE DEF t
<1>2. DOMAIN s = 1 .. Len(s) /\ DOMAIN t = 1 .. Len(s) + 1
  BY <1>1, LenProperties
<1>3. /\ SyncFrames(s) = {n \in 1 .. Len(s) : s[n].k = "sync"}
      /\ SyncFrames(t) = {n \in 1 .. Len(s) + 1 : t[n].k = "sync"}
  BY <1>1, SyncFinite
<1>4. f.k = "sync" => SyncFrames(t) = SyncFrames(s) \cup {Len(s) + 1}
  BY <1>1, <1>3
<1>5. f.k # "sync" => SyncFrames(t) = SyncFrames(s)
  BY <1>1, <1>3
<1>6. Cardinality(SyncFrames(t)) <= MaxDepth
  <2>1. CASE f.k = "sync"
    <3>1. Len(s) + 1 \notin SyncFrames(s)
      BY <1>1, <1>3
    <3>2. Cardinality(SyncFrames(t)) = Cardinality(SyncFrames(s)) + 1
      BY <2>1, <3>1, <1>1, <1>4, SyncFinite, FS_AddElement
    <3>3. QED BY <2>1, <3>2, <1>1, SyncFinite, PoolAssumption
  <2>2. CASE f.k # "sync"
    BY <2>2, <1>5 DEF Shape
  <2>3. QED BY <2>1, <2>2
<1>7. \A n \in 1 .. Len(s) : s[n].k = "cb" => s[n].a \in CbOf(s)
  BY <1>2 DEF CbOf
<1>8. Shape(t)
  <2>1. \A n \in 1 .. Len(t) : (n \in 1 .. Len(s) /\ t[n] = s[n]) \/ (n = Len(s) + 1 /\ t[n] = f)
    BY <1>1
  <2>2. t[1].k = "run" /\ \A n \in 2 .. Len(t) : t[n].k # "run"
    BY <1>1, <2>1 DEF Shape
  <2>3. \A n \in 1 .. Len(t) - 1 : t[n].k \notin {"signal", "cancel"}
    BY <1>1 DEF Shape, InnerOf
  <2>4. \A n \in 1 .. Len(t) : t[n].k \in {"cb", "cancel"} => t[n].a \in Acbs
    BY <2>1 DEF Shape
  <2>5. \A m, n \in 1 .. Len(t) : t[m].k = "cb" /\ t[n].k = "cb" /\ t[m].a = t[n].a => m = n
    BY <2>1, <1>7 DEF Shape
  <2>6. QED BY <2>2, <2>3, <2>4, <2>5, <1>1, <1>6 DEF Shape
<1>9. InnerOf(t) = f
  BY <1>1 DEF InnerOf
<1>10. f.k \notin CoreKinds => SameCore(s, t)
  BY <1>1 DEF SameCore
<1>11. f.k = "cb" => CbOf(t) = CbOf(s) \cup {f.a}
  BY <1>1, <1>2 DEF CbOf
<1>12. f.k # "cb" => CbOf(t) = CbOf(s)
  BY <1>1, <1>2 DEF CbOf
<1>13. QED BY <1>1, <1>4, <1>5, <1>8, <1>9, <1>10, <1>11, <1>12 DEF t

LEMMA SameCoreTrans ==
  ASSUME NEW s, NEW t, NEW u, SameCore(s, t), SameCore(t, u)
  PROVE  SameCore(s, u)
BY DEF SameCore

LEMMA SameCoreRefl ==
  ASSUME NEW s
  PROVE  SameCore(s, s)
BY DEF SameCore

-----------------------------------------------------------------------------
(***************************************************************************)
(* The inductive invariant.                                                *)
(***************************************************************************)

\* A request waits in the queue exactly until a worker makes it active.
Queued ==
  /\ \A a \in Elements(first_aio) : a \in Elements(request_list) <=> ~acb[a].active
  /\ \A a \in Elements(request_list) : acb[a].ret = "EINPROGRESS"

Blocks == BlockInOnePlace /\ IoOnLiveRequest /\ Queued

\* A cancel waits for a request that a worker has, and nobody removes it.
Cancelling == At("cancel") => Top.a \in Elements(first_aio) /\ acb[Top.a].active

\* Requests of context d that have not been continued.
Live(d) == {a \in Acbs :
              /\ acb[a].level = d
              /\ \/ a \in Elements(first_aio)
                 \/ \E n \in DOMAIN stk : stk[n].k = "cb" /\ ~stk[n].flag /\ stk[n].a = a}

\* A synchronous call has one request in flight, or a callback about to issue
\* the next, or its result: so none is left when it returns.
Own == ~Ioctls =>
  /\ \A a \in Elements(first_aio) : /\ acb[a].async_context_id = acb[a].level
                                    /\ acb[a].level <= Cardinality(SyncFrames(stk))
  /\ \A n \in DOMAIN stk : stk[n].k = "cb" => acb[stk[n].a].level = DepthAt(stk, n)
  /\ \A n \in DOMAIN stk : stk[n].k = "sync" =>
       /\ \A a, b \in Live(DepthAt(stk, n)) : a = b
       /\ stk[n].flag => Live(DepthAt(stk, n)) = {}

Threading ==
  /\ setup \in Setups
  /\ cur_threads \in Nat /\ idle_threads \in Nat
  /\ pc \in [Threads -> {"none", "ready", "wait", "timedout", "io", "kill"}]
  /\ PoolAccounting

\* The rest of TypeOK.
Typed ==
  /\ request_list \in Seq(Acbs) /\ first_aio \in Seq(Acbs)
  /\ free_aiocb \in Seq(Acbs) /\ unused \subseteq Acbs
  /\ job \in [Threads -> Acbs \cup {NoAcb}]
  /\ acb \in [Acbs -> Paiocb]
  /\ sig \in BOOLEAN /\ pipe \in BOOLEAN
  /\ bh \in [Contexts -> BOOLEAN]
  /\ submitted \in 0 .. MaxSubmits

AioInv == /\ Typed /\ Threading /\ Shape(stk) /\ Blocks /\ Cancelling
          /\ NoLostWakeup /\ Own

\* What a step does to the requests, as their callers see them.
Stutters == CbBlocks' = CbBlocks /\ UNCHANGED <<request_list, first_aio, acb>>

Submits(a) ==
  /\ a \in Acbs /\ a \notin Elements(first_aio) /\ a \notin CbBlocks /\ CbBlocks' = CbBlocks
  /\ Elements(first_aio') = Elements(first_aio) \cup {a}
  /\ Elements(request_list') = Elements(request_list) \cup {a}
  /\ \A b \in Acbs : b # a => acb'[b] = acb[b]

Starts(a) ==
  /\ a \in Elements(request_list) /\ CbBlocks' = CbBlocks /\ UNCHANGED first_aio
  /\ Elements(request_list') = Elements(request_list) \ {a}
  /\ \A b \in Acbs : acb'[b].ret = acb[b].ret

Ends(a) ==
  /\ a \in Elements(first_aio) \ Elements(request_list) /\ CbBlocks' = CbBlocks
  /\ UNCHANGED <<request_list, first_aio>>
  /\ acb[a].ret = "EINPROGRESS" /\ acb'[a].ret # "EINPROGRESS"
  /\ \A b \in Acbs : b # a => acb'[b] = acb[b]

\* It is queued, or has ended.
Removes(a) ==
  /\ a \in Elements(first_aio) /\ CbBlocks' = CbBlocks
  /\ ~acb[a].active \/ acb[a].ret # "EINPROGRESS"
  /\ Elements(first_aio') = Elements(first_aio) \ {a}
  /\ Elements(request_list') = Elements(request_list) \ {a}
  /\ \A b \in Acbs : b # a => acb'[b] = acb[b]

CallsBack(a) ==
  /\ a \in Elements(first_aio) /\ acb[a].ret # "EINPROGRESS"
  /\ CbBlocks' = CbBlocks \cup {a} /\ Elements(first_aio') = Elements(first_aio) \ {a}
  /\ UNCHANGED <<request_list, acb>>

Frees(a) ==
  /\ a \in CbBlocks /\ CbBlocks' = CbBlocks \ {a}
  /\ UNCHANGED <<request_list, first_aio, acb>>

\* Where a step leaves the lists, the blocks in callbacks and the workers that
\* do I/O alone, it leaves the blocks alone.
LEMMA BlocksKept ==
  ASSUME Blocks, UNCHANGED <<request_list, acb, first_aio, free_aiocb, unused, job>>,
         CbOf(stk') = CbOf(stk), \A t \in Threads : pc'[t] = "io" => pc[t] = "io"
  PROVE  Blocks'
<1>1. CbBlocks' = CbBlocks
  BY DEF CbBlocks, CbOf
<1>2. BlockInOnePlace'
  BY <1>1 DEF Blocks, BlockInOnePlace
<1>3. IoOnLiveRequest'
  BY DEF Blocks, IoOnLiveRequest
<1>4. Queued'
  BY DEF Blocks, Queued
<1>5. QED BY <1>2, <1>3, <1>4 DEF Blocks

\* Where the synchronous calls and callbacks in progress stay, requests keep
\* their contexts and none is added, every request stays in its own context.
LEMMA OwnKept ==
  ASSUME Own, stk \in Seq(Frames), stk' \in Seq(Frames), SameCore(stk, stk'), setup' = setup,
         Elements(first_aio)' \subseteq Elements(first_aio), Elements(first_aio) \subseteq Acbs,
         \A n \in 1 .. Len(stk) : stk[n].k = "cb" => stk[n].a \in Acbs,
         \A a \in Acbs : /\ acb'[a].level = acb[a].level
                         /\ acb'[a].async_context_id = acb[a].async_context_id
  PROVE  Own'
<1> SUFFICES ASSUME ~Ioctls PROVE Own'
  BY DEF Own, Ioctls
<1>1. /\ DOMAIN stk = 1 .. Len(stk) /\ Len(stk) \in Nat
      /\ DOMAIN stk' = 1 .. Len(stk') /\ Len(stk') \in Nat
  BY LenProperties
<1>2. SyncFrames(stk') = SyncFrames(stk)
  BY SameCoreSame
<1>3. \A n : DepthAt(stk', n) = DepthAt(stk, n)
  BY <1>2 DEF DepthAt
<1>4. \A n \in DOMAIN stk' : stk'[n].k \in CoreKinds => n \in DOMAIN stk /\ stk'[n] = stk[n]
  BY <1>1 DEF SameCore
<1>6. \A d : Live(d)' \subseteq Live(d)
  <2> TAKE d
  <2>1. \A a \in Acbs : (\E n \in DOMAIN stk' : stk'[n].k = "cb" /\ ~stk'[n].flag /\ stk'[n].a = a)
                     => (\E n \in DOMAIN stk : stk[n].k = "cb" /\ ~stk[n].flag /\ stk[n].a = a)
    BY <1>4 DEF CoreKinds
  <2>2. QED BY <2>1 DEF Live
<1>7. \A a \in Elements(first_aio)' : /\ acb'[a].async_context_id = acb'[a].level
                                      /\ acb'[a].level <= Cardinality(SyncFrames(stk'))
  BY <1>2 DEF Own
<1>8. \A n \in DOMAIN stk' : stk'[n].k = "cb" => acb'[stk'[n].a].level = DepthAt(stk', n)
  BY <1>1, <1>3, <1>4 DEF Own, CoreKinds
<1>9. \A n \in DOMAIN stk' : stk'[n].k = "sync" =>
        /\ \A a, b \in Live(DepthAt(stk, n))' : a = b
        /\ stk'[n].flag => Live(DepthAt(stk, n))' = {}
  <2> SUFFICES ASSUME NEW n \in DOMAIN stk', stk'[n].k = "sync"
               PROVE  /\ \A a, b \in Live(DepthAt(stk, n))' : a = b
                      /\ stk'[n].flag => Live(DepthAt(stk, n))' = {}
    OBVIOUS
  <2>1. n \in DOMAIN stk /\ stk'[n] = stk[n]
    BY <1>4 DEF CoreKinds
  <2>2. Live(DepthAt(stk, n))' \subseteq Live(DepthAt(stk, n))
    BY <1>3, <1>6
  <2>3. QED BY <2>1, <2>2 DEF Own
<1>10. QED BY <1>7, <1>8, <1>9 DEF Own

LEMMA FrameType ==
  /\ \A k \in FrameKinds : Frame(k) \in Frames /\ Frame(k).k = k
  /\ \A a \in Acbs : CbFrame(a) \in Frames /\ CbFrame(a).k = "cb" /\ CbFrame(a).a = a
                     /\ CbFrame(a).flag = FALSE
<1>1. 1 \in Nat \ {0} /\ FALSE \in BOOLEAN /\ "cb" \in FrameKinds
  BY DEF FrameKinds
<1>2. \A k \in FrameKinds : Frame(k) \in Frames /\ Frame(k).k = k
  BY <1>1 DEF Frame, Frames
<1>3. \A a \in Acbs : /\ CbFrame(a) \in Frames /\ CbFrame(a).k = "cb" /\ CbFrame(a).a = a
                     /\ CbFrame(a).flag = FALSE
  BY <1>1 DEF Frame, CbFrame, Frames
<1>4. QED BY <1>2, <1>3

\* The pool's counters depend on where the workers are.
LEMMA ThreadingKept ==
  ASSUME Threading, UNCHANGED <<cur_threads, idle_threads, pc, setup>>
  PROVE  Threading'
BY DEF Threading, PoolAccounting, Alive, Idle, MaxThreads

\* A step of the main thread's own: calls of its event loops, and nothing else.
LEMMA PlainMove ==
  ASSUME AioInv, sig' \in BOOLEAN, pipe' \in BOOLEAN, bh' \in [Contexts -> BOOLEAN],
         UNCHANGED <<request_list, cur_threads, idle_threads, pc, job, acb, first_aio,
                     free_aiocb, unused, submitted, setup>>,
         Shape(stk'), SameCore(stk, stk'),
         \/ stk' = stk
         \/ InnerOf(stk).k # "signal" /\ InnerOf(stk').k \notin {"signal", "cancel"}
         \/ InnerOf(stk).k # "signal" /\ InnerOf(stk').k # "signal" /\ Cancelling'
  PROVE  AioInv' /\ Stutters
<1>1. stk \in Seq(Frames) /\ stk' \in Seq(Frames)
      /\ \A n \in 1 .. Len(stk) : stk[n].k = "cb" => stk[n].a \in Acbs
  BY DEF AioInv, Shape
<1>2. Typed'
  BY DEF AioInv, Typed, MaxSubmits
<1>3. Threading'
  BY ThreadingKept DEF AioInv
<1>4. Blocks'
  <2>1. CbOf(stk') = CbOf(stk)
    BY <1>1, SameCoreSame
  <2>2. QED BY <2>1, BlocksKept DEF AioInv
<1>5. Cancelling'
  <2>1. CASE stk' = stk
    BY <2>1 DEF AioInv, Cancelling, At, Top
  <2>2. CASE InnerOf(stk').k \notin {"signal", "cancel"}
    BY <2>2 DEF Cancelling, At, Top, InnerOf
  <2>3. QED BY <2>1, <2>2
<1>6. NoLostWakeup'
  <2>1. Signalling => Signalling'
    BY DEF Signalling, At, Top, InnerOf
  <2>2. Alive' = Alive /\ Sleeping' = Sleeping /\ Looking' = Looking
    BY DEF Alive, Sleeping, Looking
  <2>3. Signalling' => Signalling
    <3>1. CASE stk' = stk
      BY <3>1 DEF Signalling, At, Top
    <3>2. CASE InnerOf(stk').k # "signal"
      BY <3>2 DEF Signalling, At, Top, InnerOf
    <3>3. QED BY <3>1, <3>2
  <2>4. (IF Signalling' THEN 1 ELSE 0) = IF Signalling THEN 1 ELSE 0
    BY <2>1, <2>3
  <2>5. QED BY <2>2, <2>4 DEF AioInv, NoLostWakeup
<1>7. Own'
  <2>1. Elements(first_aio) \subseteq Acbs
    BY ListType DEF AioInv, Typed
  <2>2. QED BY <1>1, <2>1, OwnKept DEF AioInv
<1>8. Stutters
  <2>1. CbOf(stk') = CbOf(stk)
    BY <1>1, SameCoreSame
  <2>2. QED BY <2>1 DEF Stutters, CbBlocks, CbOf
<1>9. QED BY <1>2, <1>3, <1>4, <1>5, <1>6, <1>7, <1>8 DEF AioInv

\* Facts about the stack every step of the main thread needs.
LEMMA StackFacts ==
  ASSUME AioInv
  PROVE  /\ Shape(stk) /\ Top = InnerOf(stk) /\ Caller = CallerOf(stk) /\ Top \in Frames
         /\ Depth = Cardinality(SyncFrames(stk)) /\ Depth \in Contexts
         /\ bh \in [Contexts -> BOOLEAN] /\ sig \in BOOLEAN /\ pipe \in BOOLEAN
<1>1. Shape(stk)
  BY DEF AioInv
<1>2. stk \in Seq(Frames) /\ Len(stk) \in Nat /\ Len(stk) \in 1 .. Len(stk)
  BY <1>1, LenProperties DEF Shape
<1>3. Top \in Frames
  BY <1>2, ElementOfSeq DEF Top
<1>4. Depth \in Contexts
  BY <1>1, <1>2, SyncFinite, PoolAssumption DEF Depth, Contexts, Shape
<1>5. QED BY <1>1, <1>3, <1>4 DEF Top, Caller, InnerOf, CallerOf, Depth, AioInv, Typed

\* A call from any frame but the ones that wait, to an event loop.
LEMMA PushPlain ==
  ASSUME AioInv, Top.k \notin {"signal", "cancel"},
         NEW k \in {"queue", "wait", "select", "flush", "flushed"}, stk' = Push(k)
  PROVE  Shape(stk') /\ SameCore(stk, stk') /\ InnerOf(stk').k \notin {"signal", "cancel"}
<1>1. Frame(k) \in Frames /\ Frame(k).k = k
  BY FrameType DEF FrameKinds
<1>2. QED BY <1>1, StackFacts, Push1 DEF Push, CoreKinds

\* A return from an event loop.
LEMMA PopPlain ==
  ASSUME AioInv, Top.k \in {"queue", "wait", "select", "flush", "flushed", "signal", "cancel"},
         stk' = Caller
  PROVE  Shape(stk') /\ SameCore(stk, stk') /\ InnerOf(stk').k \notin {"signal", "cancel"}
BY StackFacts, Pop DEF CoreKinds

\* An event loop goes on to its next step.
LEMMA SwapPlain ==
  ASSUME AioInv, Top.k \in {"queue", "wait", "select", "flush", "flushed"},
         NEW f \in Frames, f.k \in {"queue", "wait", "select", "flush", "flushed"}
  PROVE  /\ Shape(Append(Caller, f)) /\ SameCore(stk, Append(Caller, f))
         /\ InnerOf(Append(Caller, f)).k \notin {"signal", "cancel"}
<1>1. /\ Shape(Caller) /\ SameCore(stk, Caller)
      /\ InnerOf(Caller).k \notin {"signal", "cancel"}
  BY StackFacts, Pop DEF CoreKinds
<1>2. /\ Shape(Append(Caller, f)) /\ SameCore(Caller, Append(Caller, f))
      /\ InnerOf(Append(Caller, f)) = f
  BY <1>1, Push1 DEF CoreKinds
<1>3. QED BY <1>1, <1>2, SameCoreTrans

\* ... and calls another one.
LEMMA SwapPushPlain ==
  ASSUME AioInv, Top.k \in {"queue", "wait", "select", "flush", "flushed"},
         NEW f \in Frames, f.k \in {"queue", "wait", "select", "flush", "flushed"},
         NEW g \in Frames, g.k \in {"queue", "wait", "select", "flush", "flushed"}
  PROVE  /\ Shape(Append(Append(Caller, f), g)) /\ SameCore(stk, Append(Append(Caller, f), g))
         /\ InnerOf(Append(Append(Caller, f), g)).k \notin {"signal", "cancel"}
<1> DEFINE t == Append(Caller, f)
<1>1. Shape(t) /\ SameCore(stk, t) /\ InnerOf(t).k \notin {"signal", "cancel"}
  BY SwapPlain
<1> HIDE DEF t
<1>2. Shape(Append(t, g)) /\ SameCore(t, Append(t, g)) /\ InnerOf(Append(t, g)) = g
  BY <1>1, Push1 DEF CoreKinds
<1>3. QED BY <1>1, <1>2, SameCoreTrans DEF t

-----------------------------------------------------------------------------
(***************************************************************************)
(* Every step keeps the invariant: the event loops.                        *)
(***************************************************************************)

LEMMA QuietKeeps ==
  ASSUME AioInv, UNCHANGED setup, SyncFails \/ aio_signal_handler \/ UNCHANGED vars
  PROVE  AioInv' /\ Stutters
<1>1. /\ UNCHANGED <<request_list, cur_threads, idle_threads, pc, job, acb, first_aio,
                     free_aiocb, unused, submitted, setup>>
      /\ stk' = stk
  BY DEF SyncFails, aio_signal_handler, vars, pool, alloc, Main
<1>2. bh' \in [Contexts -> BOOLEAN]
  BY StackFacts DEF SyncFails, aio_signal_handler, Main, vars
<1>3. sig' \in BOOLEAN /\ pipe' \in BOOLEAN
  BY StackFacts DEF SyncFails, aio_signal_handler, Main, vars
<1>4. Shape(stk') /\ SameCore(stk, stk')
  BY <1>1, StackFacts, SameCoreRefl
<1>5. QED BY <1>1, <1>2, <1>3, <1>4, PlainMove

LEMMA CallLoopKeeps ==
  ASSUME AioInv, UNCHANGED setup, PipeReadable \/ BottomHalf \/ FlushCall
  PROVE  AioInv' /\ Stutters
<1>1. /\ UNCHANGED <<request_list, cur_threads, idle_threads, pc, job, acb, first_aio,
                     free_aiocb, unused, submitted, setup, sig>>
      /\ Top.k = "run" /\ (stk' = Push("queue") \/ stk' = Push("flush"))
  BY DEF PipeReadable, BottomHalf, FlushCall, pool, alloc, At
<1>2. bh' \in [Contexts -> BOOLEAN]
  BY StackFacts DEF PipeReadable, BottomHalf, FlushCall
<1>3. sig' \in BOOLEAN /\ pipe' \in BOOLEAN
  BY <1>1, StackFacts DEF PipeReadable, BottomHalf, FlushCall
<1>4. Shape(stk') /\ SameCore(stk, stk') /\ InnerOf(stk').k \notin {"signal", "cancel"}
  BY <1>1, PushPlain
<1>5. QED BY <1>1, <1>2, <1>3, <1>4, StackFacts, PlainMove

LEMMA AioWaitKeeps ==
  ASSUME AioInv, UNCHANGED setup, AioWait
  PROVE  AioInv' /\ Stutters
<1>1. /\ UNCHANGED <<request_list, cur_threads, idle_threads, pc, job, acb, first_aio,
                     free_aiocb, unused, submitted, setup, sig, pipe>>
      /\ Top.k = "wait"
      /\ \/ stk' = Append(Caller, Frame("queue"))
         \/ stk' = Append(Append(Caller, Frame("select")), Frame("queue"))
  BY DEF AioWait, pool, alloc, At, Become
<1>2. bh' \in [Contexts -> BOOLEAN]
  BY StackFacts DEF AioWait
<1>3. sig' \in BOOLEAN /\ pipe' \in BOOLEAN
  BY <1>1, StackFacts
<1>4. /\ Frame("queue") \in Frames /\ Frame("queue").k = "queue"
      /\ Frame("select") \in Frames /\ Frame("select").k = "select"
  BY FrameType DEF FrameKinds
<1>5. Shape(stk') /\ SameCore(stk, stk') /\ InnerOf(stk').k \notin {"signal", "cancel"}
  BY <1>1, <1>4, SwapPlain, SwapPushPlain
<1>6. QED BY <1>1, <1>2, <1>3, <1>5, StackFacts, PlainMove

LEMMA SelectKeeps ==
  ASSUME AioInv, UNCHANGED setup, Select \/ Interrupted
  PROVE  AioInv' /\ Stutters
<1>1. /\ UNCHANGED <<request_list, cur_threads, idle_threads, pc, job, acb, first_aio,
                     free_aiocb, unused, submitted, setup, sig, bh>>
      /\ Top.k = "select"
      /\ stk' = Caller \/ stk' = Append(Caller, Frame("queue"))
  BY DEF Select, Interrupted, pool, alloc, At, Become
<1>2. pipe' \in BOOLEAN
  BY StackFacts DEF Select, Interrupted
<1>3. sig' \in BOOLEAN /\ bh' \in [Contexts -> BOOLEAN]
  BY <1>1, StackFacts
<1>4. Frame("queue") \in Frames /\ Frame("queue").k = "queue"
  BY FrameType DEF FrameKinds
<1>5. Shape(stk') /\ SameCore(stk, stk') /\ InnerOf(stk').k \notin {"signal", "cancel"}
  BY <1>1, <1>4, SwapPlain, PopPlain
<1>6. QED BY <1>1, <1>2, <1>3, <1>5, StackFacts, PlainMove

LEMMA FlushKeeps ==
  ASSUME AioInv, UNCHANGED setup, qemu_aio_flush
  PROVE  AioInv' /\ Stutters
<1>1. /\ UNCHANGED <<request_list, cur_threads, idle_threads, pc, job, acb, first_aio,
                     free_aiocb, unused, submitted, setup, sig, pipe>>
      /\ Top.k \in {"flush", "flushed"}
      /\ \/ stk' = Caller \/ stk' = Append(Caller, Frame("flush"))
         \/ stk' = Append(Append(Caller, Frame("flushed")), Frame("wait"))
         \/ stk' = Append(Append(Caller, Frame("flush")), Frame("queue"))
  BY DEF qemu_aio_flush, pool, alloc, At, Become
<1>2. bh' \in [Contexts -> BOOLEAN]
  BY StackFacts DEF qemu_aio_flush
<1>3. sig' \in BOOLEAN /\ pipe' \in BOOLEAN
  BY <1>1, StackFacts
<1>4. /\ Frame("queue") \in Frames /\ Frame("queue").k = "queue"
      /\ Frame("wait") \in Frames /\ Frame("wait").k = "wait"
      /\ Frame("flush") \in Frames /\ Frame("flush").k = "flush"
      /\ Frame("flushed") \in Frames /\ Frame("flushed").k = "flushed"
  BY FrameType DEF FrameKinds
<1>5. Shape(stk') /\ SameCore(stk, stk') /\ InnerOf(stk').k \notin {"signal", "cancel"}
  <2>1. CASE stk' = Caller
    BY <1>1, <2>1, PopPlain
  <2>2. CASE stk' = Append(Caller, Frame("flush"))
    BY <1>1, <1>4, <2>2, SwapPlain
  <2>3. CASE stk' = Append(Append(Caller, Frame("flushed")), Frame("wait"))
    BY <1>1, <1>4, <2>3, SwapPushPlain
  <2>4. CASE stk' = Append(Append(Caller, Frame("flush")), Frame("queue"))
    BY <1>1, <1>4, <2>4, SwapPushPlain
  <2>5. QED BY <1>1, <2>1, <2>2, <2>3, <2>4
<1>6. QED BY <1>1, <1>2, <1>3, <1>5, StackFacts, PlainMove

\* posix_aio_process_queue, when it calls nobody back.
LEMMA ScanKeeps ==
  ASSUME AioInv, UNCHANGED setup, ProcessQueue, ~(Top.pos <= Len(first_aio) /\ Ready)
  PROVE  AioInv' /\ Stutters
<1>1. /\ UNCHANGED <<request_list, cur_threads, idle_threads, pc, job, acb, first_aio,
                     free_aiocb, unused, submitted, setup, sig, pipe, bh>>
      /\ Top.k = "queue"
      /\ \/ stk' = Append(Caller, [Top EXCEPT !.pos = @ + 1])
         \/ stk' = Caller
         \/ Caller[Len(Caller)].k = "select" /\ stk' = SubSeq(Caller, 1, Len(Caller) - 1)
  BY DEF ProcessQueue, pool, alloc, At
<1>2. sig' \in BOOLEAN /\ pipe' \in BOOLEAN /\ bh' \in [Contexts -> BOOLEAN]
  BY <1>1, StackFacts
<1>3. Shape(stk') /\ SameCore(stk, stk') /\ InnerOf(stk').k \notin {"signal", "cancel"}
  <2>1. CASE stk' = Append(Caller, [Top EXCEPT !.pos = @ + 1])
    <3>1. [Top EXCEPT !.pos = @ + 1] \in Frames /\ [Top EXCEPT !.pos = @ + 1].k = "queue"
      BY <1>1, StackFacts DEF Frames
    <3>2. QED BY <1>1, <2>1, <3>1, SwapPlain
  <2>2. CASE stk' = Caller
    BY <1>1, <2>2, PopPlain
  <2>3. CASE Caller[Len(Caller)].k = "select" /\ stk' = SubSeq(Caller, 1, Len(Caller) - 1)
    <3>1. Shape(Caller) /\ SameCore(stk, Caller)
      BY <1>1, StackFacts, Pop DEF CoreKinds
    <3>2. InnerOf(Caller).k = "select" /\ stk' = CallerOf(Caller)
      BY <2>3 DEF InnerOf, CallerOf
    <3>3. /\ Shape(CallerOf(Caller)) /\ SameCore(Caller, CallerOf(Caller))
          /\ InnerOf(CallerOf(Caller)).k \notin {"signal", "cancel"}
      BY <3>1, <3>2, Pop DEF CoreKinds
    <3>4. QED BY <3>1, <3>2, <3>3, SameCoreTrans
  <2>4. QED BY <1>1, <2>1, <2>2, <2>3
<1>4. QED BY <1>1, <1>2, <1>3, StackFacts, PlainMove

\* The loop of a synchronous call, until it returns.
LEMMA SyncLoopKeeps ==
  ASSUME AioInv, UNCHANGED setup, SyncLoop, ~(Top.flag /\ ~bh[Depth])
  PROVE  AioInv' /\ Stutters
<1>1. /\ UNCHANGED <<request_list, cur_threads, idle_threads, pc, job, acb, first_aio,
                     free_aiocb, unused, submitted, setup, sig, pipe>>
      /\ Top.k = "sync"
      /\ stk' = Push("wait") \/ stk' = Push("queue")
  BY DEF SyncLoop, pool, alloc, At
<1>2. bh' \in [Contexts -> BOOLEAN]
  BY StackFacts DEF SyncLoop
<1>3. sig' \in BOOLEAN /\ pipe' \in BOOLEAN
  BY <1>1, StackFacts
<1>4. Shape(stk') /\ SameCore(stk, stk') /\ InnerOf(stk').k \notin {"signal", "cancel"}
  BY <1>1, PushPlain
<1>5. QED BY <1>1, <1>2, <1>3, <1>4, StackFacts, PlainMove

-----------------------------------------------------------------------------
(***************************************************************************)
(* The workers.                                                            *)
(***************************************************************************)
PcValues == {"none", "ready", "wait", "timedout", "io", "kill"}

\* Counting threads.
LEMMA Counts ==
  ASSUME NEW S \in SUBSET Threads, NEW t \in Threads
  PROVE  /\ IsFiniteSet(S) /\ Cardinality(S) \in Nat
         /\ t \in S => Cardinality(S) >= 1
         /\ Cardinality(S \cup {t}) = IF t \in S THEN Cardinality(S) ELSE Cardinality(S) + 1
         /\ Cardinality(S \ {t}) = IF t \in S THEN Cardinality(S) - 1 ELSE Cardinality(S)
<1>1. IsFiniteSet(S) /\ Cardinality(S) \in Nat
  BY PoolAssumption, FS_Subset, FS_CardinalityType
<1>2. Cardinality(S \cup {t}) = IF t \in S THEN Cardinality(S) ELSE Cardinality(S) + 1
  BY <1>1, FS_AddElement
<1>3. Cardinality(S \ {t}) = IF t \in S THEN Cardinality(S) - 1 ELSE Cardinality(S)
  BY <1>1, FS_RemoveElement
<1>4. t \in S => Cardinality(S) >= 1
  <2>1. IsFiniteSet(S \ {t}) /\ Cardinality(S \ {t}) \in Nat
    BY <1>1, FS_Subset, FS_CardinalityType
  <2>2. QED BY <1>1, <1>3, <2>1
<1>5. QED BY <1>1, <1>2, <1>3, <1>4

\* The sets of threads when one of them moves.
LEMMA OneMoves ==
  ASSUME pc \in [Threads -> PcValues], NEW t \in Threads, NEW v \in PcValues,
         pc' = [pc EXCEPT ![t] = v]
  PROVE  /\ Alive' = IF v = "none" THEN Alive \ {t} ELSE Alive \cup {t}
         /\ Idle' = IF v \in {"none", "io"} THEN Idle \ {t} ELSE Idle \cup {t}
         /\ Looking' = IF v \in {"ready", "timedout", "kill"} THEN Looking \cup {t} ELSE Looking \ {t}
         /\ Sleeping' = IF v = "wait" THEN Sleeping \cup {t} ELSE Sleeping \ {t}
         /\ pc' \in [Threads -> PcValues]
         /\ \A u \in Threads : pc'[u] = IF u = t THEN v ELSE pc[u]
<1>1. \A u \in Threads : pc'[u] = IF u = t THEN v ELSE pc[u]
  OBVIOUS
<1>2. pc' \in [Threads -> PcValues]
  OBVIOUS
<1>3. Alive' = IF v = "none" THEN Alive \ {t} ELSE Alive \cup {t}
  BY <1>1 DEF Alive
<1>4. Looking' = IF v \in {"ready", "timedout", "kill"} THEN Looking \cup {t} ELSE Looking \ {t}
  BY <1>1 DEF Looking
<1>5. Sleeping' = IF v = "wait" THEN Sleeping \cup {t} ELSE Sleeping \ {t}
  BY <1>1 DEF Sleeping
<1>6. Idle = {u \in Threads : pc[u] \notin {"none", "io"}}
  BY DEF Idle, Alive
<1>7. Idle' = {u \in Threads : pc'[u] \notin {"none", "io"}}
  BY DEF Idle, Alive
<1>8. Idle' = IF v \in {"none", "io"} THEN Idle \ {t} ELSE Idle \cup {t}
  BY <1>1, <1>6, <1>7
<1>9. QED BY <1>1, <1>2, <1>3, <1>4, <1>5, <1>8

\* What a worker's step leaves alone.
LEMMA WorkerFrame ==
  ASSUME AioInv, UNCHANGED <<Main, setup>>, acb' \in [Acbs -> Paiocb],
         \A a \in Acbs : /\ acb'[a].level = acb[a].level
                         /\ acb'[a].async_context_id = acb[a].async_context_id
                         /\ acb[a].active => acb'[a].active,
         sig' \in BOOLEAN, pipe' \in BOOLEAN, request_list' \in Seq(Acbs),
         job' \in [Threads -> Acbs \cup {NoAcb}], Threading', Blocks', NoLostWakeup'
  PROVE  AioInv'
<1>1. UNCHANGED <<first_aio, free_aiocb, unused, bh, stk, submitted, setup>>
  BY DEF Main
<1>2. Typed'
  BY <1>1 DEF AioInv, Typed, MaxSubmits
<1>3. Shape(stk')
  BY <1>1 DEF AioInv
<1>4. Elements(first_aio) \subseteq Acbs
  BY ListType DEF AioInv, Typed
<1>5. Cancelling'
  BY <1>1, <1>4 DEF AioInv, Cancelling, At, Top
<1>6. Own'
  <2>1. stk \in Seq(Frames) /\ stk' \in Seq(Frames) /\ SameCore(stk, stk')
        /\ \A n \in 1 .. Len(stk) : stk[n].k = "cb" => stk[n].a \in Acbs
    BY <1>1, SameCoreRefl DEF AioInv, Shape
  <2>2. QED BY <1>1, <1>4, <2>1, OwnKept DEF AioInv
<1>7. QED BY <1>2, <1>3, <1>5, <1>6 DEF AioInv

\* Wait, WakeUp and Kill: the worker stays alive and idle.
LEMMA IdleStepKeeps ==
  ASSUME AioInv, UNCHANGED setup, NEW t \in Threads,
         Wait(t) \/ WakeUp(t, "ready") \/ WakeUp(t, "timedout") \/ Kill(t)
  PROVE  AioInv' /\ Stutters
<1>1. PICK v \in {"wait", "ready", "timedout"} :
        /\ pc' = [pc EXCEPT ![t] = v]
        /\ pc[t] \in {"ready", "wait", "kill"}
        /\ v = "wait" => request_list = <<>>
        /\ v # "wait" => pc[t] \in {"wait", "kill"}
  BY DEF Wait, WakeUp, Kill
<1>2. UNCHANGED <<Main, request_list, cur_threads, idle_threads, job, acb, pipe>>
  BY DEF Wait, WakeUp, Kill
<1>3. sig' \in BOOLEAN /\ pipe' \in BOOLEAN
  BY <1>2 DEF Wait, WakeUp, Kill, AioInv, Typed
<1>4. pc \in [Threads -> PcValues] /\ v \in PcValues
  BY DEF AioInv, Threading, PcValues
<1>5. /\ Alive' = Alive \cup {t} /\ Idle' = Idle \cup {t}
      /\ Looking' = IF v \in {"ready", "timedout", "kill"} THEN Looking \cup {t} ELSE Looking \ {t}
      /\ pc' \in [Threads -> PcValues]
      /\ \A u \in Threads : pc'[u] = IF u = t THEN v ELSE pc[u]
  BY <1>1, <1>4, OneMoves
<1>6. t \in Alive /\ t \in Idle
  BY <1>1 DEF Alive, Idle
<1>7. Threading'
  <2>1. Alive' = Alive /\ Idle' = Idle
    BY <1>5, <1>6
  <2>2. QED BY <1>2, <1>5, <2>1 DEF AioInv, Threading, PoolAccounting, MaxThreads, PcValues
<1>8. Blocks'
  <2>1. CbOf(stk') = CbOf(stk)
    BY <1>2 DEF Main
  <2>2. QED BY <1>2, <1>5, <2>1, BlocksKept DEF AioInv, Main
<1>9. NoLostWakeup'
  <2>1. Signalling' <=> Signalling
    BY <1>2 DEF Main, Signalling, At, Top
  <2>2. Looking \in SUBSET Threads /\ Len(request_list) \in Nat
        /\ Cardinality(Looking) \in Nat
    BY Counts, ListType DEF Looking, AioInv, Typed
  <2>3. CASE v = "wait"
    <3>1. request_list = <<>> /\ Len(request_list) = 0
      BY <1>1, <2>3
    <3>2. Cardinality(Looking') \in Nat
      <4>1. Looking' \in SUBSET Threads
        BY DEF Looking
      <4>2. QED BY <4>1, Counts
    <3>3. QED BY <1>2, <3>1, <3>2 DEF NoLostWakeup
  <2>4. CASE v # "wait"
    <3>1. Looking' = Looking \cup {t} /\ Sleeping' \subseteq Sleeping
      <4>1. Sleeping' = Sleeping \ {t}
        BY <1>1, <1>4, <2>4, OneMoves
      <4>2. QED BY <1>5, <2>4, <4>1
    <3>2. Cardinality(Looking') >= Cardinality(Looking) /\ Cardinality(Looking') \in Nat
      <4>1. Cardinality(Looking \cup {t}) = IF t \in Looking THEN Cardinality(Looking)
                                                            ELSE Cardinality(Looking) + 1
        BY <2>2, Counts
      <4>2. QED BY <2>2, <3>1, <4>1
    <3>3. Alive' = Alive
      BY <1>5, <1>6
    <3>4. QED BY <1>2, <2>1, <2>2, <3>1, <3>2, <3>3 DEF AioInv, NoLostWakeup
  <2>5. QED BY <2>3, <2>4
<1>10. QED
  <2>1. acb' \in [Acbs -> Paiocb] /\ request_list' \in Seq(Acbs)
        /\ job' \in [Threads -> Acbs \cup {NoAcb}] /\ acb' = acb
    BY <1>2 DEF AioInv, Typed
  <2>2. Stutters
    BY <1>2 DEF Stutters, Main, CbBlocks
  <2>3. QED BY <1>2, <1>3, <1>7, <1>8, <1>9, <2>1, <2>2, WorkerFrame

LEMMA ExitKeeps ==
  ASSUME AioInv, UNCHANGED setup, NEW t \in Threads, ExitThread(t)
  PROVE  AioInv' /\ Stutters
<1>1. /\ pc[t] = "timedout" /\ request_list = <<>>
      /\ idle_threads' = idle_threads - 1 /\ cur_threads' = cur_threads - 1
      /\ pc' = [pc EXCEPT ![t] = "none"]
      /\ UNCHANGED <<Main, request_list, job, acb, sig, pipe>>
  BY DEF ExitThread
<1>2. pc \in [Threads -> PcValues] /\ "none" \in PcValues
  BY DEF AioInv, Threading, PcValues
<1>3. /\ Alive' = Alive \ {t} /\ Idle' = Idle \ {t} /\ pc' \in [Threads -> PcValues]
      /\ \A u \in Threads : pc'[u] = IF u = t THEN "none" ELSE pc[u]
  BY <1>1, <1>2, OneMoves
<1>4. Alive \in SUBSET Threads /\ Idle \in SUBSET Threads /\ t \in Alive /\ t \in Idle
  BY <1>1 DEF Alive, Idle
<1>5. Threading'
  <2>1. /\ Cardinality(Alive \ {t}) = Cardinality(Alive) - 1 /\ Cardinality(Alive) \in Nat
        /\ Cardinality(Idle \ {t}) = Cardinality(Idle) - 1 /\ Cardinality(Idle) \in Nat
        /\ Cardinality(Alive) >= 1 /\ Cardinality(Idle) >= 1
    BY <1>4, Counts
  <2>2. cur_threads' \in Nat /\ idle_threads' \in Nat
        /\ cur_threads' = Cardinality(Alive') /\ idle_threads' = Cardinality(Idle')
    BY <1>1, <1>3, <2>1 DEF AioInv, Threading, PoolAccounting
  <2>3. cur_threads' <= MaxThreads'
    <3>1. MaxThreads \in Nat /\ MaxThreads' = MaxThreads
      BY PoolAssumption, FS_CardinalityType DEF MaxThreads, AioInv, Threading
    <3>2. QED BY <1>1, <3>1 DEF AioInv, Threading, PoolAccounting
  <2>4. QED BY <1>3, <2>2, <2>3 DEF AioInv, Threading, PoolAccounting, PcValues
<1>6. Blocks'
  <2>1. CbOf(stk') = CbOf(stk)
    BY <1>1 DEF Main
  <2>2. QED BY <1>1, <1>3, <2>1, BlocksKept DEF AioInv, Main
<1>7. NoLostWakeup'
  <2>1. Looking' \in SUBSET Threads
    BY DEF Looking
  <2>2. Cardinality(Looking') \in Nat
    BY <2>1, Counts
  <2>3. request_list' = <<>> /\ Len(request_list') = 0
    BY <1>1
  <2>4. QED BY <2>2, <2>3 DEF NoLostWakeup
<1>8. QED
  <2>1. acb' \in [Acbs -> Paiocb] /\ request_list' \in Seq(Acbs) /\ sig' \in BOOLEAN
        /\ pipe' \in BOOLEAN /\ job' \in [Threads -> Acbs \cup {NoAcb}] /\ acb' = acb
    BY <1>1 DEF AioInv, Typed
  <2>2. Stutters
    BY <1>1 DEF Stutters, Main, CbBlocks
  <2>3. QED BY <1>1, <1>5, <1>6, <1>7, <2>1, <2>2, WorkerFrame

LEMMA TakeKeeps ==
  ASSUME AioInv, UNCHANGED setup, NEW t \in Threads, TakeRequest(t)
  PROVE  AioInv' /\ Starts(Head(request_list))
<1> DEFINE h == Head(request_list)
<1>1. /\ pc[t] \in {"ready", "timedout"} /\ request_list # <<>>
      /\ request_list' = Tail(request_list)
      /\ job' = [job EXCEPT ![t] = h]
      /\ acb' = [acb EXCEPT ![h].active = TRUE]
      /\ idle_threads' = idle_threads - 1
      /\ pc' = [pc EXCEPT ![t] = "io"]
      /\ UNCHANGED <<Main, cur_threads, sig, pipe>>
  BY DEF TakeRequest
<1>2. pc \in [Threads -> PcValues] /\ "io" \in PcValues
  BY DEF AioInv, Threading, PcValues
<1>3. /\ Alive' = Alive \cup {t} /\ Idle' = Idle \ {t} /\ Looking' = Looking \ {t}
      /\ Sleeping' = Sleeping \ {t} /\ pc' \in [Threads -> PcValues]
      /\ \A u \in Threads : pc'[u] = IF u = t THEN "io" ELSE pc[u]
  BY <1>1, <1>2, OneMoves
<1>4. /\ Idle \in SUBSET Threads /\ Looking \in SUBSET Threads
      /\ t \in Alive /\ t \in Idle /\ t \in Looking
  BY <1>1 DEF Alive, Idle, Looking
<1>5. /\ h \in Elements(request_list) /\ h \in Acbs
      /\ request_list' \in Seq(Acbs) /\ NoRepeat(request_list')
      /\ Elements(request_list') = Elements(request_list) \ {h}
      /\ Len(request_list') = Len(request_list) - 1
  BY <1>1, Tails DEF AioInv, Typed, Blocks, BlockInOnePlace
<1>6. /\ acb' \in [Acbs -> Paiocb]
      /\ acb'[h].active /\ \A a \in Acbs : a # h => acb'[a] = acb[a]
      /\ \A a \in Acbs : /\ acb'[a].level = acb[a].level
                         /\ acb'[a].async_context_id = acb[a].async_context_id
                         /\ acb'[a].ret = acb[a].ret
                         /\ acb[a].active => acb'[a].active
  <2>1. acb \in [Acbs -> Paiocb]
    BY DEF AioInv, Typed
  <2>2. QED BY <1>1, <1>5, <2>1 DEF Paiocb
<1> HIDE DEF h
<1>7. job \in [Threads -> Acbs \cup {NoAcb}] /\ job' \in [Threads -> Acbs \cup {NoAcb}]
      /\ \A u \in Threads : job'[u] = IF u = t THEN h ELSE job[u]
  BY <1>1, <1>5 DEF AioInv, Typed
<1>8. Threading'
  <2>1. /\ Cardinality(Idle \ {t}) = Cardinality(Idle) - 1 /\ Cardinality(Idle) \in Nat
        /\ Cardinality(Idle) >= 1
    BY <1>4, Counts
  <2>2. Alive' = Alive
    BY <1>3, <1>4
  <2>3. idle_threads' \in Nat /\ idle_threads' = Cardinality(Idle')
    BY <1>1, <1>3, <2>1 DEF AioInv, Threading, PoolAccounting
  <2>4. QED BY <1>1, <1>3, <2>2, <2>3 DEF AioInv, Threading, PoolAccounting, PcValues, MaxThreads
<1>9. Blocks'
  <2>1. CbBlocks' = CbBlocks /\ UNCHANGED <<first_aio, free_aiocb, unused>>
    BY <1>1 DEF Main, CbBlocks
  <2>2. Elements(first_aio) \subseteq Acbs /\ Elements(request_list) \subseteq Elements(first_aio)
    BY ListType DEF AioInv, Typed, Blocks, BlockInOnePlace
  <2>3. BlockInOnePlace'
    BY <1>5, <1>6, <2>1, <2>2 DEF AioInv, Blocks, BlockInOnePlace
  <2>4. \A u \in Threads : pc[u] = "io" => job[u] # h
    BY <1>5 DEF AioInv, Blocks, IoOnLiveRequest
  <2>5. IoOnLiveRequest'
    <3> SUFFICES ASSUME NEW u \in Threads, pc'[u] = "io"
                 PROVE  /\ job'[u] \in Elements(first_aio') \ Elements(request_list')
                        /\ acb'[job'[u]].active /\ acb'[job'[u]].ret = "EINPROGRESS"
                        /\ \A w \in Threads : pc'[w] = "io" /\ job'[w] = job'[u] => w = u
      BY DEF IoOnLiveRequest
    <3>1. CASE u = t
      BY <1>3, <1>5, <1>6, <1>7, <2>1, <2>2, <2>4, <3>1 DEF AioInv, Blocks, Queued
    <3>2. CASE u # t
      <4>1. pc[u] = "io" /\ job'[u] = job[u] /\ job[u] # h
        BY <1>3, <1>7, <2>4, <3>2
      <4>2. /\ job[u] \in Elements(first_aio) \ Elements(request_list)
            /\ acb[job[u]].active /\ acb[job[u]].ret = "EINPROGRESS"
            /\ \A w \in Threads : pc[w] = "io" /\ job[w] = job[u] => w = u
        BY <4>1 DEF AioInv, Blocks, IoOnLiveRequest
      <4>3. QED BY <1>3, <1>5, <1>6, <1>7, <2>1, <2>2, <4>1, <4>2
    <3>3. QED BY <3>1, <3>2
  <2>6. Queued'
    BY <1>5, <1>6, <2>1, <2>2 DEF AioInv, Blocks, Queued
  <2>7. QED BY <2>3, <2>5, <2>6 DEF Blocks
<1>10. NoLostWakeup'
  <2>1. Signalling' <=> Signalling
    BY <1>1 DEF Main, Signalling, At, Top
  <2>2. /\ Cardinality(Looking \ {t}) = Cardinality(Looking) - 1 /\ Cardinality(Looking) \in Nat
    BY <1>4, Counts
  <2>3. Len(request_list) \in Nat
    BY ListType DEF AioInv, Typed
  <2>4. Alive' # {} /\ (Sleeping' # {} => Sleeping # {})
    BY <1>3, <1>4
  <2>5. QED BY <1>3, <1>5, <2>1, <2>2, <2>3, <2>4 DEF AioInv, NoLostWakeup
<1>11. QED
  <2>1. sig' \in BOOLEAN /\ pipe' \in BOOLEAN
    BY <1>1 DEF AioInv, Typed
  <2>2. CbBlocks' = CbBlocks /\ first_aio' = first_aio
    BY <1>1 DEF Main, CbBlocks
  <2>3. Starts(h)
    BY <1>5, <1>6, <2>2 DEF Starts
  <2>4. QED BY <1>1, <1>5, <1>6, <1>7, <1>8, <1>9, <1>10, <2>1, <2>3, WorkerFrame DEF h

\* The I/O ends: the request is outstanding, and no other worker has it.
LEMMA CompleteKeeps ==
  ASSUME AioInv, UNCHANGED setup, NEW t \in Threads, Complete(t)
  PROVE  AioInv' /\ Ends(job[t])
<1> DEFINE j == job[t]
<1>1. /\ pc[t] = "io" /\ acb' = [acb EXCEPT ![j].ret = "done"]
      /\ idle_threads' = idle_threads + 1 /\ pc' = [pc EXCEPT ![t] = "kill"]
      /\ UNCHANGED <<Main, request_list, cur_threads, job, sig, pipe>>
  BY DEF Complete, IoResult
<1>2. pc \in [Threads -> PcValues] /\ "kill" \in PcValues
  BY DEF AioInv, Threading, PcValues
<1>3. /\ Alive' = Alive \cup {t} /\ Idle' = Idle \cup {t} /\ Looking' = Looking \cup {t}
      /\ Sleeping' = Sleeping \ {t} /\ pc' \in [Threads -> PcValues]
      /\ \A u \in Threads : pc'[u] = IF u = t THEN "kill" ELSE pc[u]
  BY <1>1, <1>2, OneMoves
<1>4. /\ Idle \in SUBSET Threads /\ Looking \in SUBSET Threads
      /\ t \in Alive /\ t \notin Idle /\ t \notin Looking
  BY <1>1 DEF Alive, Idle, Looking
<1>5. /\ j \in Elements(first_aio) \ Elements(request_list)
      /\ \A u \in Threads : pc[u] = "io" /\ job[u] = j => u = t
  BY <1>1 DEF AioInv, Blocks, IoOnLiveRequest
<1>6. Elements(first_aio) \subseteq Acbs /\ Elements(request_list) \subseteq Elements(first_aio)
  BY ListType DEF AioInv, Typed, Blocks, BlockInOnePlace
<1>7. /\ acb' \in [Acbs -> Paiocb]
      /\ acb'[j].ret = "done" /\ \A a \in Acbs : a # j => acb'[a] = acb[a]
      /\ \A a \in Acbs : /\ acb'[a].level = acb[a].level
                         /\ acb'[a].async_context_id = acb[a].async_context_id
                         /\ acb'[a].active = acb[a].active
  <2>1. acb \in [Acbs -> Paiocb]
    BY DEF AioInv, Typed
  <2>2. QED BY <1>1, <1>5, <1>6, <2>1 DEF Paiocb
<1> HIDE DEF j
<1>8. Threading'
  <2>1. Cardinality(Idle \cup {t}) = Cardinality(Idle) + 1 /\ Cardinality(Idle) \in Nat
    BY <1>4, Counts
  <2>2. Alive' = Alive
    BY <1>3, <1>4
  <2>3. idle_threads' \in Nat /\ idle_threads' = Cardinality(Idle')
    BY <1>1, <1>3, <2>1 DEF AioInv, Threading, PoolAccounting
  <2>4. QED BY <1>1, <1>3, <2>2, <2>3 DEF AioInv, Threading, PoolAccounting, PcValues, MaxThreads
<1>9. Blocks'
  <2>1. CbBlocks' = CbBlocks /\ UNCHANGED <<first_aio, free_aiocb, unused, request_list, job>>
    BY <1>1 DEF Main, CbBlocks
  <2>2. BlockInOnePlace'
    BY <1>6, <1>7, <2>1 DEF AioInv, Blocks, BlockInOnePlace
  <2>3. IoOnLiveRequest'
    <3> SUFFICES ASSUME NEW u \in Threads, pc'[u] = "io"
                 PROVE  /\ job[u] \in Elements(first_aio) \ Elements(request_list)
                        /\ acb'[job[u]].active /\ acb'[job[u]].ret = "EINPROGRESS"
                        /\ \A w \in Threads : pc'[w] = "io" /\ job[w] = job[u] => w = u
      BY <2>1 DEF IoOnLiveRequest
    <3>1. u # t /\ pc[u] = "io"
      BY <1>3
    <3>2. job[u] # j
      BY <1>5, <3>1
    <3>3. /\ job[u] \in Elements(first_aio) \ Elements(request_list)
          /\ acb[job[u]].active /\ acb[job[u]].ret = "EINPROGRESS"
          /\ \A w \in Threads : pc[w] = "io" /\ job[w] = job[u] => w = u
      BY <3>1 DEF AioInv, Blocks, IoOnLiveRequest
    <3>4. QED BY <1>3, <1>6, <1>7, <3>2, <3>3
  <2>4. Queued'
    BY <1>5, <1>6, <1>7, <2>1 DEF AioInv, Blocks, Queued
  <2>5. QED BY <2>2, <2>3, <2>4 DEF Blocks
<1>10. NoLostWakeup'
  <2>1. Signalling' <=> Signalling
    BY <1>1 DEF Main, Signalling, At, Top
  <2>2. Cardinality(Looking \cup {t}) = Cardinality(Looking) + 1 /\ Cardinality(Looking) \in Nat
    BY <1>4, Counts
  <2>3. Len(request_list) \in Nat
    BY ListType DEF AioInv, Typed
  <2>4. Alive' # {} /\ (Sleeping' # {} => Sleeping # {})
    BY <1>3, <1>4
  <2>5. QED BY <1>1, <1>3, <2>1, <2>2, <2>3, <2>4 DEF AioInv, NoLostWakeup
<1>11. QED
  <2>1. sig' \in BOOLEAN /\ pipe' \in BOOLEAN /\ request_list' \in Seq(Acbs)
        /\ job' \in [Threads -> Acbs \cup {NoAcb}]
    BY <1>1 DEF AioInv, Typed
  <2>2. CbBlocks' = CbBlocks /\ first_aio' = first_aio
    BY <1>1 DEF Main, CbBlocks
  <2>3. acb[j].ret = "EINPROGRESS"
    BY <1>1 DEF AioInv, Blocks, IoOnLiveRequest, j
  <2>4. Ends(j)
    BY <1>1, <1>5, <1>7, <2>2, <2>3 DEF Ends
  <2>5. QED BY <1>1, <1>7, <1>8, <1>9, <1>10, <2>1, <2>4, WorkerFrame DEF j

\* The condition is signalled: one more worker is awake, unless all are.
LEMMA CondSignalKeeps ==
  ASSUME AioInv, UNCHANGED setup, CondSignal
  PROVE  AioInv' /\ Stutters
<1>1. /\ Top.k = "signal" /\ stk' = Caller
      /\ UNCHANGED <<request_list, cur_threads, idle_threads, job, acb, first_aio,
                     free_aiocb, unused, sig, pipe, bh, submitted, setup>>
  BY DEF CondSignal, At, alloc
<1>2. Shape(stk') /\ SameCore(stk, stk') /\ InnerOf(stk').k \notin {"signal", "cancel"}
  BY <1>1, PopPlain
<1>3. /\ stk \in Seq(Frames) /\ stk' \in Seq(Frames)
      /\ \A n \in 1 .. Len(stk) : stk[n].k = "cb" => stk[n].a \in Acbs
  BY <1>2 DEF AioInv, Shape
<1>4. Typed'
  BY <1>1 DEF AioInv, Typed, MaxSubmits
<1>5. Cancelling'
  BY <1>2 DEF Cancelling, At, Top, InnerOf
<1>6. Own'
  <2>1. Elements(first_aio) \subseteq Acbs
    BY ListType DEF AioInv, Typed
  <2>2. QED BY <1>1, <1>2, <1>3, <2>1, OwnKept DEF AioInv
<1>7. Signalling /\ ~Signalling'
  BY <1>1, <1>2, <1>3, EmptySeq DEF Signalling, At, Top, InnerOf, AioInv, Shape
<1>8. CbOf(stk') = CbOf(stk)
  BY <1>2, <1>3, SameCoreSame
<1>9. Looking \in SUBSET Threads /\ Len(request_list) \in Nat
  BY ListType DEF Looking, AioInv, Typed
<1>10. Stutters
  BY <1>1, <1>8 DEF Stutters, CbBlocks, CbOf
<1>11. CASE \E t \in Threads : pc[t] = "wait" /\ pc' = [pc EXCEPT ![t] = "ready"]
  <2>1. PICK t \in Threads : pc[t] = "wait" /\ pc' = [pc EXCEPT ![t] = "ready"]
    BY <1>11
  <2>2. pc \in [Threads -> PcValues] /\ "ready" \in PcValues
    BY DEF AioInv, Threading, PcValues
  <2>3. /\ Alive' = Alive \cup {t} /\ Idle' = Idle \cup {t} /\ Looking' = Looking \cup {t}
        /\ Sleeping' = Sleeping \ {t} /\ pc' \in [Threads -> PcValues]
        /\ \A u \in Threads : pc'[u] = IF u = t THEN "ready" ELSE pc[u]
    BY <2>1, <2>2, OneMoves
  <2>4. t \in Alive /\ t \in Idle /\ t \notin Looking /\ t \in Sleeping
    BY <2>1 DEF Alive, Idle, Looking, Sleeping
  <2>5. Alive' = Alive /\ Idle' = Idle
    BY <2>3, <2>4
  <2>6. Threading'
    BY <1>1, <2>3, <2>5 DEF AioInv, Threading, PoolAccounting, MaxThreads, PcValues
  <2>7. Blocks'
    BY <1>1, <1>8, <2>3, BlocksKept DEF AioInv
  <2>8. Cardinality(Looking') = Cardinality(Looking) + 1 /\ Cardinality(Looking) \in Nat
    BY <1>9, <2>3, <2>4, Counts
  <2>9. Len(request_list) <= Cardinality(Looking) + 1
    BY <1>7, <2>4 DEF AioInv, NoLostWakeup
  <2>10. NoLostWakeup'
    BY <1>1, <1>7, <1>9, <2>4, <2>5, <2>8, <2>9 DEF NoLostWakeup
  <2>11. QED BY <1>2, <1>4, <1>5, <1>6, <1>10, <2>6, <2>7, <2>10 DEF AioInv
<1>12. CASE (\A t \in Threads : pc[t] # "wait") /\ pc' = pc
  <2>1. Threading'
    BY <1>1, <1>12, ThreadingKept DEF AioInv
  <2>2. Blocks'
    BY <1>1, <1>8, <1>12, BlocksKept DEF AioInv
  <2>3. Sleeping' = {} /\ Alive' = Alive
    BY <1>12 DEF Sleeping, Alive
  <2>4. NoLostWakeup'
    BY <1>1, <2>3 DEF AioInv, NoLostWakeup
  <2>5. QED BY <1>2, <1>4, <1>5, <1>6, <1>10, <2>1, <2>2, <2>4 DEF AioInv
<1>13. QED BY <1>11, <1>12 DEF CondSignal

-----------------------------------------------------------------------------
(***************************************************************************)
(* Submitting.                                                             *)
(***************************************************************************)

\* Flags of frames do not matter to the shape of the stack.
LEMMA SameCalls ==
  ASSUME NEW s, Shape(s), NEW t \in Seq(Frames), Len(t) = Len(s),
         \A n \in 1 .. Len(s) : t[n].k = s[n].k /\ t[n].a = s[n].a
  PROVE  /\ Shape(t) /\ SyncFrames(t) = SyncFrames(s) /\ CbOf(t) = CbOf(s)
         /\ InnerOf(t).k = InnerOf(s).k
<1>1. s \in Seq(Frames) /\ Len(s) \in Nat /\ Len(s) >= 1
  BY LenProperties DEF Shape
<1>2. DOMAIN s = 1 .. Len(s) /\ DOMAIN t = 1 .. Len(s)
  BY <1>1, LenProperties
<1>3. SyncFrames(t) = SyncFrames(s)
  BY <1>2 DEF SyncFrames
<1>4. CbOf(t) = CbOf(s)
  BY <1>2 DEF CbOf
<1>5. InnerOf(t).k = InnerOf(s).k
  BY <1>1 DEF InnerOf
<1>6. Shape(t)
  <2>1. t[1].k = "run" /\ \A n \in 2 .. Len(t) : t[n].k # "run"
    BY <1>1 DEF Shape
  <2>2. \A n \in 1 .. Len(t) - 1 : t[n].k \notin {"signal", "cancel"}
    BY <1>1 DEF Shape
  <2>3. \A n \in 1 .. Len(t) : t[n].k \in {"cb", "cancel"} => t[n].a \in Acbs
    BY <1>1 DEF Shape
  <2>4. \A m, n \in 1 .. Len(t) : t[m].k = "cb" /\ t[n].k = "cb" /\ t[m].a = t[n].a => m = n
    BY <1>1 DEF Shape
  <2>5. Cardinality(SyncFrames(t)) <= MaxDepth
    BY <1>3 DEF Shape
  <2>6. QED BY <2>1, <2>2, <2>3, <2>4, <2>5, <1>1 DEF Shape
<1>7. QED BY <1>3, <1>4, <1>5, <1>6

\* Depths count synchronous calls up to a position.
LEMMA DepthBounds ==
  ASSUME NEW s \in Seq(Frames), NEW n \in Nat
  PROVE  /\ DepthAt(s, n) \in Nat /\ DepthAt(s, n) <= Cardinality(SyncFrames(s))
         /\ n \in SyncFrames(s) => DepthAt(s, n) >= 1
         /\ n >= Len(s) => DepthAt(s, n) = Cardinality(SyncFrames(s))
<1> DEFINE S == SyncFrames(s)
           U == {m \in S : m <= n}
<1>1. S = {m \in 1 .. Len(s) : s[m].k = "sync"} /\ IsFiniteSet(S) /\ Cardinality(S) \in Nat
  BY SyncFinite
<1>2. IsFiniteSet(U) /\ Cardinality(U) \in Nat /\ Cardinality(U) <= Cardinality(S)
  BY <1>1, FS_Subset, FS_CardinalityType
<1>3. n \in S => Cardinality(U) >= 1
  <2> HAVE n \in S
  <2>1. n \in U
    OBVIOUS
  <2> HIDE DEF U
  <2>2. Cardinality(U) # 0
    BY <1>2, <2>1, FS_EmptySet
  <2>3. QED BY <1>2, <2>2
<1>4. n >= Len(s) => U = S
  <2>1. Len(s) \in Nat
    BY LenProperties
  <2>2. QED BY <1>1, <2>1
<1>5. QED BY <1>1, <1>2, <1>3, <1>4 DEF DepthAt

\* qemu_paio_submit: a block that nobody has becomes a queued request, and a
\* worker that is alive will hear of it.
LEMMA SubmitParts ==
  ASSUME AioInv, UNCHANGED setup, NEW a \in Acbs, NEW id \in Contexts, NEW level \in Contexts,
         NEW s, qemu_paio_submit(a, id, level, s), Top.k \notin {"signal", "cancel"},
         Shape(s), InnerOf(s).k \notin {"signal", "cancel"}, CbOf(s) = CbOf(stk)
  PROVE  /\ Typed' /\ Threading' /\ Shape(stk') /\ Blocks' /\ Cancelling' /\ NoLostWakeup'
         /\ a \notin Elements(first_aio) /\ a \notin CbBlocks
         /\ Elements(first_aio)' = Elements(first_aio) \cup {a}
         /\ \A b \in Acbs : b # a => acb'[b] = acb[b]
         /\ acb'[a].async_context_id = id /\ acb'[a].level = level
         /\ Submits(a)
<1>1. /\ submitted < MaxSubmits /\ submitted' = submitted + 1
      /\ acb' = [acb EXCEPT ![a] = [ret |-> "EINPROGRESS", active |-> FALSE,
                                    async_context_id |-> id, level |-> level]]
      /\ first_aio' = <<a>> \o first_aio /\ request_list' = Append(request_list, a)
      /\ stk' = Append(s, Frame("signal"))
      /\ UNCHANGED <<job, sig, pipe, bh>>
  BY DEF qemu_paio_submit
<1>2. /\ request_list \in Seq(Acbs) /\ first_aio \in Seq(Acbs) /\ free_aiocb \in Seq(Acbs)
      /\ unused \subseteq Acbs /\ acb \in [Acbs -> Paiocb] /\ BlockInOnePlace /\ IoOnLiveRequest
      /\ Queued
  BY DEF AioInv, Typed, Blocks
<1>3. /\ a \in Elements(free_aiocb) \cup unused /\ free_aiocb' \in Seq(Acbs) /\ NoRepeat(free_aiocb')
      /\ Elements(free_aiocb') = Elements(free_aiocb) \ {a} /\ unused' = unused \ {a}
  <2>1. CASE free_aiocb # <<>>
    <3>1. a = Head(free_aiocb) /\ free_aiocb' = Tail(free_aiocb) /\ unused' = unused \ {a}
      BY <2>1 DEF qemu_paio_submit, qemu_aio_get
    <3>2. QED BY <2>1, <3>1, <1>2, Tails DEF BlockInOnePlace
  <2>2. CASE free_aiocb = <<>>
    <3>1. a \in unused /\ free_aiocb' = free_aiocb /\ unused' = unused \ {a}
      BY <2>2 DEF qemu_paio_submit, qemu_aio_get
    <3>2. Elements(free_aiocb) = {}
      BY <2>2, <1>2, ListType
    <3>3. QED BY <3>1, <3>2, <1>2 DEF BlockInOnePlace
  <2>3. QED BY <2>1, <2>2
<1>4. a \notin Elements(first_aio) /\ a \notin CbBlocks /\ a \notin Elements(request_list)
  BY <1>2, <1>3 DEF BlockInOnePlace
<1>5. /\ first_aio' \in Seq(Acbs) /\ NoRepeat(first_aio')
      /\ Elements(first_aio') = Elements(first_aio) \cup {a}
  BY <1>1, <1>2, <1>4, Prepended DEF BlockInOnePlace
<1>6. /\ request_list' \in Seq(Acbs) /\ NoRepeat(request_list')
      /\ Elements(request_list') = Elements(request_list) \cup {a}
      /\ Len(request_list') = Len(request_list) + 1
  BY <1>1, <1>2, <1>4, Appends DEF BlockInOnePlace
<1>7. /\ acb' \in [Acbs -> Paiocb] /\ \A b \in Acbs : b # a => acb'[b] = acb[b]
      /\ acb'[a].ret = "EINPROGRESS" /\ acb'[a].active = FALSE
      /\ acb'[a].async_context_id = id /\ acb'[a].level = level
  BY <1>1, <1>2 DEF Paiocb
<1>8. /\ Shape(stk') /\ InnerOf(stk').k = "signal" /\ CbOf(stk') = CbOf(stk)
  <2>1. Frame("signal") \in Frames /\ Frame("signal").k = "signal"
    BY FrameType DEF FrameKinds
  <2>2. QED BY <1>1, <2>1, Push1
<1>9. CbBlocks' = CbBlocks
  BY <1>8 DEF CbBlocks, CbOf
<1>10. \A t \in Threads : pc'[t] = "io" => pc[t] = "io"
  <2>1. pc \in [Threads -> PcValues]
    BY DEF AioInv, Threading, PcValues
  <2>2. QED BY <2>1 DEF qemu_paio_submit, spawn_thread
<1>11. Typed'
  <2>1. submitted' \in 0 .. MaxSubmits'
    <3>1. MaxSubmits \in Nat /\ MaxSubmits' = MaxSubmits /\ submitted \in 0 .. MaxSubmits
      BY PoolAssumption DEF MaxSubmits, AioInv, Threading, Typed
    <3>2. QED BY <1>1, <3>1
  <2>2. sig' \in BOOLEAN /\ pipe' \in BOOLEAN /\ bh' \in [Contexts -> BOOLEAN]
        /\ job' \in [Threads -> Acbs \cup {NoAcb}]
    BY <1>1 DEF AioInv, Typed
  <2>3. QED BY <1>2, <1>3, <1>5, <1>6, <1>7, <2>1, <2>2 DEF Typed
<1>12. Blocks'
  <2>1. BlockInOnePlace'
    <3>1. Elements(request_list) \subseteq Elements(first_aio) /\ Elements(first_aio) \subseteq Acbs
      BY <1>2, ListType DEF BlockInOnePlace
    <3>2. \A b \in Elements(first_aio') : acb'[b].ret # "ECANCELED"
      BY <1>2, <1>5, <1>7, <3>1 DEF BlockInOnePlace
    <3>3. QED BY <1>2, <1>3, <1>4, <1>5, <1>6, <1>9, <3>1, <3>2 DEF BlockInOnePlace
  <2>2. IoOnLiveRequest'
    <3> SUFFICES ASSUME NEW u \in Threads, pc'[u] = "io"
                 PROVE  /\ job[u] \in Elements(first_aio') \ Elements(request_list')
                        /\ acb'[job[u]].active /\ acb'[job[u]].ret = "EINPROGRESS"
                        /\ \A w \in Threads : pc'[w] = "io" /\ job[w] = job[u] => w = u
      BY <1>1 DEF IoOnLiveRequest
    <3>1. /\ job[u] \in Elements(first_aio) \ Elements(request_list)
          /\ acb[job[u]].active /\ acb[job[u]].ret = "EINPROGRESS"
          /\ \A w \in Threads : pc[w] = "io" /\ job[w] = job[u] => w = u
      BY <1>2, <1>10 DEF IoOnLiveRequest
    <3>2. job[u] # a /\ job[u] \in Acbs
      BY <3>1, <1>4, <1>2, ListType
    <3>3. QED BY <1>5, <1>6, <1>7, <1>10, <3>1, <3>2
  <2>3. Queued'
    <3>1. Elements(first_aio) \subseteq Acbs /\ Elements(request_list) \subseteq Elements(first_aio)
      BY <1>2, ListType DEF BlockInOnePlace
    <3>2. QED BY <1>2, <1>4, <1>5, <1>6, <1>7, <3>1 DEF Queued
  <2>4. QED BY <2>1, <2>2, <2>3 DEF Blocks
<1>13. Cancelling'
  BY <1>8 DEF Cancelling, At, Top, InnerOf
<1>14. Signalling' /\ ~Signalling
  <2>1. stk' # <<>>
    BY <1>8, EmptySeq DEF Shape
  <2>2. QED BY <2>1, <1>8 DEF Signalling, At, Top, InnerOf
<1>15. /\ pc \in [Threads -> PcValues] /\ MaxThreads \in Nat /\ MaxThreads >= 1
       /\ MaxThreads <= Cardinality(Threads) /\ MaxThreads' = MaxThreads
       /\ cur_threads \in Nat /\ idle_threads \in Nat /\ PoolAccounting
  <2>1. Cardinality(Threads) \in Nat /\ setup \in Setups
    BY PoolAssumption, FS_CardinalityType DEF AioInv, Threading
  <2>2. QED BY <2>1, PoolAssumption DEF MaxThreads, AioInv, Threading, PcValues
<1>16. /\ Alive \in SUBSET Threads /\ Idle \in SUBSET Threads /\ Looking \in SUBSET Threads
       /\ Cardinality(Looking) \in Nat /\ Len(request_list) \in Nat
  <2>1. Looking \in SUBSET Threads /\ IsFiniteSet(Looking)
    BY PoolAssumption, FS_Subset DEF Looking
  <2>2. QED BY <2>1, <1>2, ListType, FS_CardinalityType DEF Alive, Idle
<1>17. Sleeping # {} => Len(request_list) <= Cardinality(Looking)
  BY <1>14, <1>16 DEF AioInv, NoLostWakeup
<1>18. Submits(a)
  BY <1>4, <1>5, <1>6, <1>7, <1>9 DEF Submits
<1>19. CASE idle_threads = 0 /\ cur_threads < MaxThreads
  <2> DEFINE t == CHOOSE u \in Threads : pc[u] = "none"
  <2>1. /\ pc' = [pc EXCEPT ![t] = "ready"]
        /\ cur_threads' = cur_threads + 1 /\ idle_threads' = idle_threads + 1
    BY <1>19 DEF qemu_paio_submit, spawn_thread
  <2>2. \E u \in Threads : pc[u] = "none"
    <3>1. Alive # Threads
      BY <1>15, <1>19, FS_CardinalityType, PoolAssumption DEF PoolAccounting
    <3>2. QED BY <3>1 DEF Alive
  <2>3. t \in Threads /\ pc[t] = "none"
    BY <2>2
  <2> HIDE DEF t
  <2>4. t \notin Alive /\ t \notin Idle /\ t \notin Looking
    BY <2>3 DEF Alive, Idle, Looking
  <2>5. /\ Alive' = Alive \cup {t} /\ Idle' = Idle \cup {t} /\ Looking' = Looking \cup {t}
        /\ Sleeping' = Sleeping \ {t} /\ pc' \in [Threads -> PcValues]
    BY <1>15, <2>1, <2>3, OneMoves DEF PcValues
  <2>6. /\ Cardinality(Alive') = Cardinality(Alive) + 1 /\ Cardinality(Idle') = Cardinality(Idle) + 1
        /\ Cardinality(Looking') = Cardinality(Looking) + 1
    BY <1>16, <2>3, <2>4, <2>5, Counts
  <2>7. Threading'
    <3>1. cur_threads' \in Nat /\ idle_threads' \in Nat /\ cur_threads' <= MaxThreads'
      BY <1>15, <1>19, <2>1
    <3>2. PoolAccounting'
      BY <1>15, <2>1, <2>6, <3>1 DEF PoolAccounting
    <3>3. QED BY <2>5, <3>1, <3>2 DEF Threading, PcValues, AioInv
  <2>8. NoLostWakeup'
    BY <1>6, <1>14, <1>16, <1>17, <2>5, <2>6 DEF NoLostWakeup
  <2>9. QED BY <1>4, <1>5, <1>7, <1>8, <1>11, <1>12, <1>13, <1>18, <2>7, <2>8
<1>20. CASE ~(idle_threads = 0 /\ cur_threads < MaxThreads)
  <2>1. UNCHANGED <<pc, cur_threads, idle_threads>>
    BY <1>20 DEF qemu_paio_submit, spawn_thread
  <2>2. Threading'
    BY <2>1, ThreadingKept DEF AioInv
  <2>3. Alive # {}
    <3>1. Alive = {} => Idle = {}
      BY DEF Idle
    <3>2. Alive = {} => cur_threads = 0 /\ idle_threads = 0
      BY <3>1, <1>15, FS_EmptySet DEF PoolAccounting
    <3>3. QED BY <3>2, <1>15, <1>20
  <2>4. Alive' = Alive /\ Sleeping' = Sleeping /\ Looking' = Looking
    BY <2>1 DEF Alive, Sleeping, Looking
  <2>5. NoLostWakeup'
    BY <1>6, <1>14, <1>16, <1>17, <2>3, <2>4 DEF NoLostWakeup
  <2>6. QED BY <1>4, <1>5, <1>7, <1>8, <1>11, <1>12, <1>13, <1>18, <2>2, <2>5
<1>21. QED BY <1>19, <1>20

\* paio_submit, from a device or from a callback that goes on with its
\* operation: the new request takes the place of the one called back.
LEMMA SubmitKeeps ==
  ASSUME AioInv, UNCHANGED setup, NEW a \in Acbs, paio_submit(a)
  PROVE  AioInv' /\ Submits(a)
<1> DEFINE s == Continues
           L == Len(stk)
<1>1. /\ qemu_paio_submit(a, Depth, Depth, s) /\ Top.k \in {"run", "cb"}
      /\ Depth > 0 => Top.flag = FALSE
      /\ Top.k = "cb" => acb[Top.a].level = Depth
  <2>1. Top.k = "run" \/ (Top.k = "cb" /\ acb[Top.a].level = Depth)
    BY DEF paio_submit, MayIssue, At
  <2>2. Top.flag \in BOOLEAN
    BY StackFacts DEF Frames
  <2>3. Depth > 0 => Top.flag = FALSE
    BY <2>2 DEF paio_submit
  <2>4. QED BY <2>1, <2>3 DEF paio_submit
<1>2. /\ Shape(stk) /\ Top = stk[L] /\ Top \in Frames /\ stk \in Seq(Frames)
      /\ Depth = Cardinality(SyncFrames(stk)) /\ Depth \in Contexts
      /\ L \in Nat /\ L >= 1 /\ DOMAIN stk = 1 .. L
  BY StackFacts, LenProperties DEF InnerOf, Shape
<1>3. /\ s \in Seq(Frames) /\ Len(s) = L /\ \A n \in 1 .. L - 1 : s[n] = stk[n]
      /\ s[L] = IF Top.k = "cb" /\ Depth > 0 THEN [Top EXCEPT !.flag = TRUE] ELSE Top
  <2>1. CASE Top.k = "cb" /\ Depth > 0
    <3> DEFINE f == [Top EXCEPT !.flag = TRUE]
    <3>1. s = Append(CallerOf(stk), f) /\ f \in Frames
      BY <1>2, <2>1, StackFacts DEF Continues, At, Frames
    <3>2. /\ CallerOf(stk) \in Seq(Frames) /\ Len(CallerOf(stk)) = L - 1
          /\ \A n \in 1 .. L - 1 : CallerOf(stk)[n] = stk[n]
      BY <1>2, Popped
    <3> HIDE DEF f, s
    <3>3. /\ s \in Seq(Frames) /\ Len(s) = (L - 1) + 1
          /\ \A n \in 1 .. L - 1 : s[n] = CallerOf(stk)[n]
          /\ s[(L - 1) + 1] = f
      BY <3>1, <3>2, Appended
    <3>4. (L - 1) + 1 = L
      BY <1>2
    <3>5. QED BY <2>1, <3>2, <3>3, <3>4 DEF f
  <2>2. CASE ~(Top.k = "cb" /\ Depth > 0)
    <3>1. s = stk
      BY <2>2 DEF Continues, At
    <3>2. QED BY <2>2, <3>1, <1>2
  <2>3. QED BY <2>1, <2>2
<1> HIDE DEF s
<1>4. \A n \in 1 .. L : s[n].k = stk[n].k /\ s[n].a = stk[n].a
  <2>1. s[L].k = Top.k /\ s[L].a = Top.a
    BY <1>2, <1>3 DEF Frames
  <2>2. \A n \in 1 .. L : n = L \/ n \in 1 .. L - 1
    <3>1. \A m \in Nat : \A n \in 1 .. m : n = m \/ n \in 1 .. m - 1
      OBVIOUS
    <3>2. QED BY <3>1, <1>2
  <2>3. QED BY <1>2, <1>3, <2>1, <2>2
<1>5. /\ Shape(s) /\ SyncFrames(s) = SyncFrames(stk) /\ CbOf(s) = CbOf(stk)
      /\ InnerOf(s).k = Top.k
  BY <1>2, <1>3, <1>4, SameCalls DEF InnerOf
<1>6. /\ Typed' /\ Threading' /\ Shape(stk') /\ Blocks' /\ Cancelling' /\ NoLostWakeup'
      /\ a \notin Elements(first_aio) /\ a \notin CbBlocks
      /\ Elements(first_aio)' = Elements(first_aio) \cup {a}
      /\ \A b \in Acbs : b # a => acb'[b] = acb[b]
      /\ acb'[a].async_context_id = Depth /\ acb'[a].level = Depth /\ Submits(a)
  BY <1>1, <1>2, <1>5, SubmitParts
<1>7. /\ stk' \in Seq(Frames) /\ Len(stk') = L + 1 /\ \A n \in 1 .. L : stk'[n] = s[n]
      /\ stk'[L + 1].k = "signal" /\ SyncFrames(stk') = SyncFrames(stk)
      /\ DOMAIN stk' = 1 .. L + 1
  <2>1. Frame("signal") \in Frames /\ Frame("signal").k = "signal"
    BY FrameType DEF FrameKinds
  <2>2. stk' = Append(s, Frame("signal"))
    BY <1>1 DEF qemu_paio_submit
  <2>3. /\ stk' \in Seq(Frames) /\ Len(stk') = L + 1 /\ \A n \in 1 .. L : stk'[n] = s[n]
        /\ stk'[L + 1].k = "signal" /\ SyncFrames(stk') = SyncFrames(stk)
    BY <1>1, <1>3, <1>5, <2>1, <2>2, Push1
  <2>4. QED BY <2>3, LenProperties
<1>8. Own'
  <2> SUFFICES ASSUME ~Ioctls PROVE Own'
    BY DEF Own, Ioctls
  <2>1. Elements(first_aio) \subseteq Acbs
    BY ListType DEF AioInv, Typed
  <2>2. \A n \in 1 .. L : stk[n].k = "cb" => stk[n].a \in CbBlocks /\ stk[n].a \in Acbs
    BY <1>2 DEF CbBlocks, Shape
  <2>3. \A n : DepthAt(stk', n) = DepthAt(stk, n)
    BY <1>7 DEF DepthAt
  <2>4. \A n \in DOMAIN stk' : stk'[n].k \in CoreKinds =>
          n \in 1 .. L /\ stk'[n] = s[n] /\ stk[n].k = stk'[n].k /\ stk[n].a = stk'[n].a
    <3>1. \A n \in DOMAIN stk' : n \in 1 .. L \/ n = L + 1
      BY <1>2, <1>7
    <3>2. QED BY <3>1, <1>4, <1>7 DEF CoreKinds
  <2>5. \A b \in Elements(first_aio)' : /\ acb'[b].async_context_id = acb'[b].level
                                        /\ acb'[b].level <= Cardinality(SyncFrames(stk'))
    <3>1. Depth \in Nat
      BY <1>2, PoolAssumption DEF Contexts
    <3>2. QED BY <1>2, <1>6, <1>7, <2>1, <3>1 DEF AioInv, Own
  <2>6. \A n \in DOMAIN stk' : stk'[n].k = "cb" => acb'[stk'[n].a].level = DepthAt(stk', n)
    BY <1>2, <1>6, <2>2, <2>3, <2>4 DEF AioInv, Own, CoreKinds
  <2>7. \A n \in 1 .. L : n # L \/ Top.k # "cb" \/ ~(Depth > 0) => s[n] = stk[n]
    BY <1>2, <1>3
  <2>8. \A n \in 1 .. L : stk[n].k = "sync" => s[n] = stk[n]
    BY <1>1, <1>2, <2>7
  <2>9. \A n \in 1 .. L : ~s[n].flag => ~stk[n].flag
    BY <1>1, <1>2, <1>3, <2>7
  <2>10. ASSUME NEW d, NEW b \in Live(d)', b # a PROVE b \in Live(d)
    <3>1. b \in Acbs /\ acb'[b] = acb[b] /\ acb[b].level = d
      BY <1>6, <2>10 DEF Live
    <3>2. CASE b \in Elements(first_aio)'
      BY <1>6, <2>10, <3>1, <3>2 DEF Live
    <3>3. CASE \E n \in DOMAIN stk' : stk'[n].k = "cb" /\ ~stk'[n].flag /\ stk'[n].a = b
      BY <1>2, <2>4, <2>9, <3>1, <3>3 DEF Live, CoreKinds
    <3>4. QED BY <3>2, <3>3 DEF Live
  <2>11. \A d : d # Depth => a \notin Live(d)'
    BY <1>6 DEF Live
  <2>12. ASSUME NEW n \in DOMAIN stk', stk'[n].k = "sync"
         PROVE  /\ \A x, y \in Live(DepthAt(stk, n))' : x = y
                /\ stk'[n].flag => Live(DepthAt(stk, n))' = {}
    <3>0. PICK d : d = DepthAt(stk, n) /\ d = DepthAt(stk', n)
      BY <2>3
    <3>1. n \in 1 .. L /\ stk'[n] = stk[n] /\ stk[n].k = "sync"
      BY <2>4, <2>8, <2>12 DEF CoreKinds
    <3>2. /\ \A x, y \in Live(d) : x = y
          /\ stk'[n].flag => Live(d) = {}
      BY <1>2, <3>0, <3>1 DEF AioInv, Own
    <3>3. d >= 1
      <4>1. n \in SyncFrames(stk) /\ n \in Nat
        BY <1>2, <3>1 DEF SyncFrames
      <4>2. QED BY <3>0, <4>1, <1>2, DepthBounds
    <3>4. CASE d # Depth
      BY <2>10, <2>11, <3>0, <3>2, <3>4
    <3>5. CASE d = Depth
      <4>1. Top.k = "cb" /\ Depth > 0
        <5>1. Depth > 0
          BY <3>3, <3>5, <1>2, PoolAssumption DEF Contexts
        <5>2. L # 1
          BY <1>2, <3>1 DEF Shape
        <5>3. Top.k # "run"
          BY <1>2, <5>2 DEF Shape
        <5>4. QED BY <5>1, <5>3, <1>1
      <4>2. Top.a \in Live(d)
        <5>1. L \in DOMAIN stk /\ stk[L].k = "cb" /\ stk[L].flag = FALSE /\ Top.a \in Acbs
          BY <1>1, <1>2, <2>2, <4>1
        <5>2. QED BY <5>1, <1>1, <1>2, <3>5, <4>1 DEF Live
      <4>3. Top.a \notin Live(d)'
        <5>1. Top.a \in CbBlocks /\ Top.a \notin Elements(first_aio) /\ Top.a # a
          BY <1>2, <1>6, <2>2, <4>1 DEF AioInv, Blocks, BlockInOnePlace
        <5>2. \A m \in DOMAIN stk' : stk'[m].k = "cb" /\ stk'[m].a = Top.a => m = L
          BY <1>2, <2>4, <4>1 DEF Shape, CoreKinds
        <5>3. stk'[L].flag
          <6>1. L \in 1 .. L
            BY <1>2
          <6>2. stk'[L] = [Top EXCEPT !.flag = TRUE]
            BY <6>1, <1>3, <1>7, <4>1
          <6>3. QED BY <6>2, <1>2 DEF Frames
        <5>4. QED BY <5>1, <5>2, <5>3, <1>6 DEF Live
      <4>4. \A x \in Live(d)' : x = a
        BY <2>10, <3>2, <4>2, <4>3
      <4>5. ~stk'[n].flag
        BY <3>2, <4>2
      <4>6. QED BY <3>0, <4>4, <4>5
    <3>6. QED BY <3>4, <3>5
  <2>13. \A n : DepthAt(stk, n)' = DepthAt(stk, n)
    BY <2>3 DEF DepthAt
  <2>14. QED BY <2>5, <2>6, <2>12, <2>13 DEF Own
<1>9. QED BY <1>6, <1>8 DEF AioInv

\* paio_ioctl: a device's request, in whatever context the block had.
LEMMA IoctlKeeps ==
  ASSUME AioInv, UNCHANGED setup, NEW a \in Acbs, paio_ioctl(a)
  PROVE  AioInv' /\ Submits(a)
<1>1. /\ Ioctls /\ Top.k = "run"
      /\ qemu_paio_submit(a, acb[a].async_context_id, Depth, stk)
  BY DEF paio_ioctl, At
<1>2. acb[a].async_context_id \in Contexts /\ Depth \in Contexts /\ Shape(stk)
      /\ InnerOf(stk) = Top
  BY StackFacts DEF AioInv, Typed, Paiocb
<1>3. /\ Typed' /\ Threading' /\ Shape(stk') /\ Blocks' /\ Cancelling' /\ NoLostWakeup'
      /\ Submits(a)
  BY <1>1, <1>2, SubmitParts
<1>4. Own'
  BY <1>1 DEF Own, Ioctls
<1>5. QED BY <1>3, <1>4 DEF AioInv

\* bdrv_read_em: the new context has no request but the one submitted.
LEMMA SyncSubmitKeeps ==
  ASSUME AioInv, UNCHANGED setup, NEW a \in Acbs, SyncSubmit(a)
  PROVE  AioInv' /\ Submits(a)
<1> DEFINE s == Push("sync")
           L == Len(stk)
           D == Depth
<1>1. /\ qemu_paio_submit(a, D + 1, D + 1, s) /\ Top.k \in {"run", "cb"} /\ D < MaxDepth
  BY DEF SyncSubmit, MayIssue, At
<1>2. /\ Shape(stk) /\ InnerOf(stk) = Top /\ stk \in Seq(Frames)
      /\ D = Cardinality(SyncFrames(stk)) /\ D \in Nat /\ D + 1 \in Contexts
      /\ L \in Nat /\ L >= 1 /\ DOMAIN stk = 1 .. L
  BY <1>1, StackFacts, LenProperties, PoolAssumption DEF Shape, Contexts
<1>3. /\ Frame("sync") \in Frames /\ Frame("sync").k = "sync"
      /\ Frame("signal") \in Frames /\ Frame("signal").k = "signal"
  BY FrameType DEF FrameKinds
<1>4. Frame("sync").flag = FALSE
  BY DEF Frame
<1>5. /\ s \in Seq(Frames) /\ Len(s) = L + 1 /\ \A n \in 1 .. L : s[n] = stk[n]
      /\ s[L + 1] = Frame("sync") /\ Shape(s) /\ InnerOf(s) = Frame("sync")
      /\ SyncFrames(s) = SyncFrames(stk) \cup {L + 1} /\ CbOf(s) = CbOf(stk)
  BY <1>1, <1>2, <1>3, Push1 DEF Push
<1> HIDE DEF s, D
<1>6. /\ Typed' /\ Threading' /\ Shape(stk') /\ Blocks' /\ Cancelling' /\ NoLostWakeup'
      /\ a \notin Elements(first_aio) /\ a \notin CbBlocks
      /\ Elements(first_aio)' = Elements(first_aio) \cup {a}
      /\ \A b \in Acbs : b # a => acb'[b] = acb[b]
      /\ acb'[a].async_context_id = D + 1 /\ acb'[a].level = D + 1 /\ Submits(a)
  BY <1>1, <1>2, <1>3, <1>5, SubmitParts
<1>7. /\ stk' \in Seq(Frames) /\ Len(stk') = L + 2 /\ \A n \in 1 .. L : stk'[n] = stk[n]
      /\ stk'[L + 1] = Frame("sync") /\ stk'[L + 2].k = "signal"
      /\ SyncFrames(stk') = SyncFrames(stk) \cup {L + 1} /\ DOMAIN stk' = 1 .. L + 2
  <2>1. stk' = Append(s, Frame("signal"))
    BY <1>1 DEF qemu_paio_submit
  <2>2. /\ stk' \in Seq(Frames) /\ Len(stk') = Len(s) + 1
        /\ \A n \in 1 .. Len(s) : stk'[n] = s[n]
        /\ stk'[Len(s) + 1] = Frame("signal") /\ SyncFrames(stk') = SyncFrames(s)
    BY <1>3, <1>5, <2>1, Push1
  <2>3. Len(stk') = L + 2 /\ \A n \in 1 .. L : stk'[n] = stk[n]
    BY <1>2, <1>5, <2>2
  <2>4. stk'[L + 1] = Frame("sync")
    BY <1>2, <1>5, <2>2
  <2>5. stk'[L + 2].k = "signal"
    <3>1. Len(s) + 1 = L + 2
      BY <1>2, <1>5
    <3>2. QED BY <3>1, <2>2, <1>3
  <2>6. QED BY <1>5, <2>2, <2>3, <2>4, <2>5, LenProperties
<1>8. Own'
  <2> SUFFICES ASSUME ~Ioctls PROVE Own'
    BY DEF Own, Ioctls
  <2>1. Elements(first_aio) \subseteq Acbs
    BY ListType DEF AioInv, Typed
  <2>2. \A n \in 1 .. L : stk[n].k = "cb" => stk[n].a \in CbBlocks /\ stk[n].a \in Acbs
    BY <1>2 DEF CbBlocks, Shape
  <2>3. SyncFrames(stk) = {n \in 1 .. L : stk[n].k = "sync"} /\ IsFiniteSet(SyncFrames(stk))
    BY <1>2, SyncFinite
  <2>4. Cardinality(SyncFrames(stk')) = D + 1
    <3>1. L + 1 \notin SyncFrames(stk)
      BY <1>2, <2>3
    <3>2. QED BY <1>2, <1>7, <2>3, <3>1, FS_AddElement
  <2>5. \A n \in 1 .. L : DepthAt(stk', n) = DepthAt(stk, n)
    <3> TAKE n \in 1 .. L
    <3>1. {m \in SyncFrames(stk') : m <= n} = {m \in SyncFrames(stk) : m <= n}
      BY <1>2, <1>7, <2>3
    <3>2. QED BY <3>1 DEF DepthAt
  <2>6. DepthAt(stk', L + 1) = D + 1
    <3>1. {m \in SyncFrames(stk') : m <= L + 1} = SyncFrames(stk')
      BY <1>2, <1>7, <2>3
    <3>2. QED BY <3>1, <2>4 DEF DepthAt
  <2>7. \A n \in DOMAIN stk' : n \in 1 .. L \/ n = L + 1 \/ n = L + 2
    BY <1>2, <1>7
  <2>8. \A n \in DOMAIN stk' : stk'[n].k = "cb" => n \in 1 .. L /\ stk'[n] = stk[n]
    BY <1>3, <1>7, <2>7
  <2>9. \A b \in Elements(first_aio)' : /\ acb'[b].async_context_id = acb'[b].level
                                        /\ acb'[b].level <= Cardinality(SyncFrames(stk'))
    <3>1. \A b \in Elements(first_aio) : acb[b].level \in Nat
      BY <2>1, PoolAssumption DEF AioInv, Typed, Paiocb, Contexts
    <3>2. \A b \in Elements(first_aio) : /\ acb[b].async_context_id = acb[b].level
                                         /\ acb[b].level <= D + 1
      BY <1>2, <3>1 DEF AioInv, Own
    <3>3. QED BY <1>2, <1>6, <2>1, <2>4, <3>2
  <2>10. \A n \in DOMAIN stk' : stk'[n].k = "cb" => acb'[stk'[n].a].level = DepthAt(stk', n)
    BY <1>2, <1>6, <2>2, <2>5, <2>8 DEF AioInv, Own
  <2>11. ASSUME NEW d, NEW b \in Live(d)', b # a PROVE b \in Live(d)
    <3>1. b \in Acbs /\ acb'[b] = acb[b] /\ acb[b].level = d
      BY <1>6, <2>11 DEF Live
    <3>2. CASE b \in Elements(first_aio)'
      BY <1>6, <2>11, <3>1, <3>2 DEF Live
    <3>3. CASE \E n \in DOMAIN stk' : stk'[n].k = "cb" /\ ~stk'[n].flag /\ stk'[n].a = b
      BY <1>2, <2>8, <3>1, <3>3 DEF Live
    <3>4. QED BY <3>2, <3>3 DEF Live
  <2>12. \A d : d # D + 1 => a \notin Live(d)'
    BY <1>6 DEF Live
  <2>13. Live(D + 1) = {}
    <3> SUFFICES ASSUME NEW b \in Live(D + 1) PROVE FALSE
      OBVIOUS
    <3>1. b \in Acbs /\ acb[b].level = D + 1
      BY DEF Live
    <3>2. CASE b \in Elements(first_aio)
      BY <1>2, <3>1, <3>2 DEF AioInv, Own
    <3>3. CASE \E n \in DOMAIN stk : stk[n].k = "cb" /\ stk[n].a = b
      <4>1. PICK n \in DOMAIN stk : stk[n].k = "cb" /\ stk[n].a = b
        BY <3>3
      <4>2. D + 1 = DepthAt(stk, n)
        BY <3>1, <4>1 DEF AioInv, Own
      <4>3. DepthAt(stk, n) <= D /\ DepthAt(stk, n) \in Nat
        BY <1>2, DepthBounds
      <4>4. QED BY <1>2, <4>2, <4>3
    <3>4. QED BY <3>2, <3>3 DEF Live
  <2>14. ASSUME NEW n \in DOMAIN stk', stk'[n].k = "sync"
         PROVE  /\ \A x, y \in Live(DepthAt(stk, n))' : x = y
                /\ stk'[n].flag => Live(DepthAt(stk, n))' = {}
    <3>1. CASE n \in 1 .. L
      <4>1. PICK d : d = DepthAt(stk, n) /\ d = DepthAt(stk', n)
        BY <2>5, <3>1
      <4>2. stk'[n] = stk[n] /\ d # D + 1
        <5>1. DepthAt(stk, n) <= D /\ DepthAt(stk, n) \in Nat
          BY <1>2, <3>1, DepthBounds
        <5>2. QED BY <1>2, <1>7, <3>1, <4>1, <5>1
      <4>3. /\ \A x, y \in Live(d) : x = y
            /\ stk'[n].flag => Live(d) = {}
        BY <1>2, <2>14, <3>1, <4>1, <4>2 DEF AioInv, Own
      <4>4. QED BY <2>11, <2>12, <4>1, <4>2, <4>3
    <3>2. CASE n = L + 1
      <4>1. PICK d : d = D + 1 /\ d = DepthAt(stk', n)
        BY <2>6, <3>2
      <4>2. \A x \in Live(d)' : x = a
        BY <2>11, <2>13, <4>1
      <4>3. stk'[n].flag = FALSE
        BY <1>4, <1>7, <3>2
      <4>4. QED BY <4>1, <4>2, <4>3
    <3>3. n # L + 2
      BY <1>7, <2>14
    <3>4. QED BY <2>7, <3>1, <3>2, <3>3
  <2>15. QED BY <2>9, <2>10, <2>14 DEF Own
<1>9. QED BY <1>6, <1>8 DEF AioInv

-----------------------------------------------------------------------------
(***************************************************************************)
(* Cancelling and calling back.                                            *)
(***************************************************************************)

\* A block nobody does I/O for leaves the lists.
LEMMA RemoveParts ==
  ASSUME AioInv, NEW a \in Elements(first_aio), acb' \in [Acbs -> Paiocb],
         ~acb[a].active \/ acb[a].ret # "EINPROGRESS",
         first_aio' = Without(first_aio, a),
         request_list' = Without(request_list, a),
         UNCHANGED <<unused, pc, job>>,
         \A b \in Acbs : b # a => acb'[b] = acb[b],
         \/ free_aiocb' = <<a>> \o free_aiocb /\ CbOf(stk') = CbOf(stk)
         \/ free_aiocb' = free_aiocb /\ CbOf(stk') = CbOf(stk) \cup {a}
  PROVE  /\ Blocks' /\ first_aio' \in Seq(Acbs) /\ request_list' \in Seq(Acbs)
         /\ free_aiocb' \in Seq(Acbs) /\ Len(request_list') <= Len(request_list)
         /\ Elements(first_aio') = Elements(first_aio) \ {a} /\ a \in Acbs
         /\ Elements(request_list') = Elements(request_list) \ {a}
         /\ request_list = <<>> => request_list' = <<>>
<1>1. /\ request_list \in Seq(Acbs) /\ first_aio \in Seq(Acbs) /\ free_aiocb \in Seq(Acbs)
      /\ unused \subseteq Acbs /\ BlockInOnePlace /\ IoOnLiveRequest /\ Queued
  BY DEF AioInv, Typed, Blocks
<1>2. Elements(first_aio) \subseteq Acbs /\ Elements(request_list) \subseteq Elements(first_aio)
  BY <1>1, ListType DEF BlockInOnePlace
<1>3. /\ first_aio' \in Seq(Acbs) /\ NoRepeat(first_aio')
      /\ Elements(first_aio') = Elements(first_aio) \ {a}
  BY <1>1, Removed DEF BlockInOnePlace
<1>4. /\ request_list' \in Seq(Acbs) /\ NoRepeat(request_list')
      /\ Elements(request_list') = Elements(request_list) \ {a}
      /\ Len(request_list') <= Len(request_list)
  BY <1>1, Removed DEF BlockInOnePlace
<1>5. /\ a \notin Elements(free_aiocb) /\ a \notin unused /\ a \notin CbBlocks
  BY <1>1 DEF BlockInOnePlace
<1>6. CbBlocks = CbOf(stk) /\ CbBlocks' = CbOf(stk')
  BY DEF CbBlocks, CbOf
<1>7. /\ free_aiocb' \in Seq(Acbs) /\ NoRepeat(free_aiocb')
      /\ \/ Elements(free_aiocb') = Elements(free_aiocb) \cup {a} /\ CbBlocks' = CbBlocks
         \/ Elements(free_aiocb') = Elements(free_aiocb) /\ CbBlocks' = CbBlocks \cup {a}
  <2>1. NoRepeat(free_aiocb) /\ a \in Acbs
    BY <1>1, <1>2 DEF BlockInOnePlace
  <2>2. CASE free_aiocb' = <<a>> \o free_aiocb /\ CbOf(stk') = CbOf(stk)
    BY <1>1, <1>5, <1>6, <2>1, <2>2, Prepended
  <2>3. CASE free_aiocb' = free_aiocb /\ CbOf(stk') = CbOf(stk) \cup {a}
    BY <1>1, <1>6, <2>1, <2>3
  <2>4. QED BY <2>2, <2>3
<1>8. BlockInOnePlace'
  <2>1. \A b \in Elements(first_aio') : acb'[b].ret # "ECANCELED"
    BY <1>1, <1>2, <1>3 DEF BlockInOnePlace
  <2>2. QED BY <1>1, <1>2, <1>3, <1>4, <1>5, <1>7, <2>1 DEF BlockInOnePlace
<1>9. IoOnLiveRequest'
  <2> SUFFICES ASSUME NEW u \in Threads, pc[u] = "io"
               PROVE  /\ job[u] \in Elements(first_aio') \ Elements(request_list')
                      /\ acb'[job[u]].active /\ acb'[job[u]].ret = "EINPROGRESS"
                      /\ \A w \in Threads : pc[w] = "io" /\ job[w] = job[u] => w = u
    BY DEF IoOnLiveRequest
  <2>1. /\ job[u] \in Elements(first_aio) \ Elements(request_list)
        /\ acb[job[u]].active /\ acb[job[u]].ret = "EINPROGRESS"
        /\ \A w \in Threads : pc[w] = "io" /\ job[w] = job[u] => w = u
    BY <1>1 DEF IoOnLiveRequest
  <2>2. job[u] # a /\ job[u] \in Acbs
    BY <1>2, <2>1
  <2>3. QED BY <1>3, <1>4, <2>1, <2>2
<1>10. Queued'
  BY <1>1, <1>2, <1>3, <1>4 DEF Queued
<1>11. request_list = <<>> => request_list' = <<>>
  <2>1. request_list = <<>> => Elements(request_list) = {}
    BY <1>1, ListType
  <2>2. request_list = <<>> => Elements(request_list') = {}
    BY <1>4, <2>1
  <2>3. QED BY <1>4, <2>2, ListType
<1>12. QED BY <1>2, <1>3, <1>4, <1>7, <1>8, <1>9, <1>10, <1>11 DEF Blocks

LEMMA NotQueued ==
  ASSUME NEW s, NEW a, a \notin Elements(s)
  PROVE  Without(s, a) = s
BY DEF Without

\* Fewer requests to start need no more awake workers.
LEMMA WakeupKept ==
  ASSUME NoLostWakeup, ~Signalling, UNCHANGED pc,
         request_list \in Seq(Acbs), request_list' \in Seq(Acbs),
         Len(request_list') <= Len(request_list), request_list = <<>> => request_list' = <<>>
  PROVE  NoLostWakeup'
<1>1. Alive' = Alive /\ Sleeping' = Sleeping /\ Looking' = Looking
  BY DEF Alive, Sleeping, Looking
<1>2. Len(request_list) \in Nat /\ Len(request_list') \in Nat
  BY ListType
<1>3. Looking \in SUBSET Threads
  BY DEF Looking
<1>4. Cardinality(Looking) \in Nat
  BY <1>3, PoolAssumption, FS_Subset, FS_CardinalityType
<1>5. Sleeping # {} => Len(request_list) <= Cardinality(Looking)
  BY <1>4 DEF NoLostWakeup
<1>6. QED BY <1>1, <1>2, <1>4, <1>5 DEF NoLostWakeup

\* paio_cancel and its wait.
LEMMA CancelKeeps ==
  ASSUME AioInv, UNCHANGED setup,
         CancelWaited \/ \E a \in Acbs : paio_cancel(a)
  PROVE  AioInv' /\ (Stutters \/ \E a \in Acbs : Removes(a))
<1>1. /\ Shape(stk) /\ InnerOf(stk) = Top /\ stk \in Seq(Frames)
      /\ request_list \in Seq(Acbs) /\ acb \in [Acbs -> Paiocb]
      /\ Elements(first_aio) \subseteq Acbs /\ Queued
      /\ \A n \in 1 .. Len(stk) : stk[n].k = "cb" => stk[n].a \in Acbs
  BY StackFacts, ListType DEF AioInv, Typed, Shape, Blocks
<1>2. ASSUME NEW a \in Elements(first_aio), acb' \in [Acbs -> Paiocb],
             ~acb[a].active \/ acb[a].ret # "EINPROGRESS",
             paio_remove(a), request_list' = Without(request_list, a),
             UNCHANGED <<cur_threads, idle_threads, pc, job, unused, sig, pipe, bh, submitted>>,
             \A b \in Acbs : b # a => acb'[b] = acb[b],
             acb'[a].level = acb[a].level, acb'[a].async_context_id = acb[a].async_context_id,
             Shape(stk'), SameCore(stk, stk'), Top.k # "signal",
             InnerOf(stk').k \notin {"signal", "cancel"}
      PROVE  AioInv' /\ Removes(a)
  <2>1. /\ first_aio' = Without(first_aio, a) /\ free_aiocb' = <<a>> \o free_aiocb
    BY <1>2 DEF paio_remove
  <2>2. stk' \in Seq(Frames)
    BY <1>2 DEF Shape
  <2>3. CbOf(stk') = CbOf(stk)
    BY <1>1, <1>2, <2>2, SameCoreSame
  <2>4. /\ Blocks' /\ first_aio' \in Seq(Acbs) /\ request_list' \in Seq(Acbs)
        /\ free_aiocb' \in Seq(Acbs) /\ Len(request_list') <= Len(request_list)
        /\ Elements(first_aio') = Elements(first_aio) \ {a} /\ a \in Acbs
        /\ Elements(request_list') = Elements(request_list) \ {a}
        /\ request_list = <<>> => request_list' = <<>>
    BY <1>2, <2>1, <2>3, RemoveParts
  <2>5. Typed'
    <3>1. /\ sig' \in BOOLEAN /\ pipe' \in BOOLEAN /\ bh' \in [Contexts -> BOOLEAN]
          /\ job' \in [Threads -> Acbs \cup {NoAcb}] /\ submitted' \in 0 .. MaxSubmits'
          /\ unused' \subseteq Acbs
      BY <1>2 DEF AioInv, Typed, MaxSubmits
    <3>2. QED BY <1>2, <2>4, <3>1 DEF Typed
  <2>6. Threading'
    BY <1>2, ThreadingKept DEF AioInv
  <2>7. Cancelling'
    BY <1>2 DEF Cancelling, At, Top, InnerOf
  <2>8. NoLostWakeup'
    <3>1. ~Signalling
      BY <1>2 DEF Signalling, At
    <3>2. QED BY <1>1, <1>2, <2>4, <3>1, WakeupKept DEF AioInv
  <2>9. Own'
    <3>1. \A b \in Acbs : /\ acb'[b].level = acb[b].level
                          /\ acb'[b].async_context_id = acb[b].async_context_id
      BY <1>2
    <3>2. QED BY <1>1, <1>2, <2>2, <2>4, <3>1, OwnKept DEF AioInv
  <2>10. Removes(a)
    BY <1>2, <2>3, <2>4 DEF Removes, CbBlocks, CbOf
  <2>11. QED BY <1>2, <2>4, <2>5, <2>6, <2>7, <2>8, <2>9, <2>10 DEF AioInv
<1>3. ASSUME CancelWaited PROVE AioInv' /\ \E a \in Acbs : Removes(a)
  <2>1. /\ Top.k = "cancel" /\ acb[Top.a].ret # "EINPROGRESS" /\ stk' = Caller
        /\ paio_remove(Top.a)
        /\ UNCHANGED <<request_list, cur_threads, idle_threads, pc, job, acb, unused, sig,
                       pipe, bh, submitted>>
    BY <1>3 DEF CancelWaited, At, pool
  <2>2. Top.a \in Elements(first_aio) /\ acb[Top.a].active
    BY <2>1 DEF AioInv, Cancelling, At
  <2>3. request_list' = Without(request_list, Top.a)
    <3>1. Top.a \notin Elements(request_list)
      BY <1>1, <2>2 DEF Queued
    <3>2. QED BY <2>1, <3>1, NotQueued
  <2>4. Shape(stk') /\ SameCore(stk, stk') /\ InnerOf(stk').k \notin {"signal", "cancel"}
    BY <2>1, PopPlain
  <2>5. QED BY <1>1, <1>2, <2>1, <2>2, <2>3, <2>4
<1>4. ASSUME NEW a \in Acbs, paio_cancel(a) PROVE AioInv' /\ (Stutters \/ Removes(a))
  <2>1. /\ Top.k \in {"run", "cb"} /\ a \in Elements(first_aio)
        /\ UNCHANGED <<cur_threads, idle_threads, pc, job, unused, sig, pipe, bh, submitted>>
    BY <1>4 DEF paio_cancel, MayIssue, At
  <2>2. CASE /\ ~acb[a].active /\ request_list' = Without(request_list, a)
             /\ acb' = [acb EXCEPT ![a].ret = "ECANCELED"]
             /\ paio_remove(a) /\ stk' = stk
    <3>1. /\ acb' \in [Acbs -> Paiocb] /\ \A b \in Acbs : b # a => acb'[b] = acb[b]
          /\ acb'[a].level = acb[a].level /\ acb'[a].async_context_id = acb[a].async_context_id
      BY <1>1, <2>2 DEF Paiocb
    <3>2. Shape(stk') /\ SameCore(stk, stk') /\ InnerOf(stk').k \notin {"signal", "cancel"}
      BY <1>1, <2>1, <2>2, SameCoreRefl
    <3>3. QED BY <1>2, <2>1, <2>2, <3>1, <3>2
  <2>3. CASE /\ acb[a].active /\ acb[a].ret # "EINPROGRESS"
             /\ paio_remove(a) /\ UNCHANGED <<request_list, acb, stk>>
    <3>1. request_list' = Without(request_list, a)
      <4>1. a \notin Elements(request_list)
        BY <1>1, <2>1, <2>3 DEF Queued
      <4>2. QED BY <2>3, <4>1, NotQueued
    <3>2. Shape(stk') /\ SameCore(stk, stk') /\ InnerOf(stk').k \notin {"signal", "cancel"}
      BY <1>1, <2>1, <2>3, SameCoreRefl
    <3>3. QED BY <1>1, <1>2, <2>1, <2>3, <3>1, <3>2
  <2>4. CASE /\ acb[a].active /\ acb[a].ret = "EINPROGRESS"
             /\ stk' = Append(stk, [Frame("cancel") EXCEPT !.a = a])
             /\ UNCHANGED <<request_list, acb, first_aio, free_aiocb>>
    <3> DEFINE f == [Frame("cancel") EXCEPT !.a = a]
    <3>1. Frame("cancel") \in Frames /\ Frame("cancel").k = "cancel"
      BY FrameType DEF FrameKinds
    <3>2. f \in Frames /\ f.k = "cancel" /\ f.a = a
      BY <3>1 DEF Frames
    <3>3. stk' = Append(stk, f)
      BY <2>4
    <3> HIDE DEF f
    <3>4. Shape(stk') /\ InnerOf(stk') = f /\ SameCore(stk, stk')
      BY <1>1, <2>1, <3>2, <3>3, Push1 DEF CoreKinds
    <3>5. Cancelling'
      BY <2>1, <2>4, <3>2, <3>4 DEF Cancelling, At, Top, InnerOf
    <3>6. sig' \in BOOLEAN /\ pipe' \in BOOLEAN /\ bh' \in [Contexts -> BOOLEAN]
      BY <2>1, StackFacts
    <3>7. QED BY <1>1, <2>1, <2>4, <3>2, <3>5, <3>6, <3>4, PlainMove
  <2>5. QED BY <1>4, <2>2, <2>3, <2>4 DEF paio_cancel
<1>5. QED BY <1>3, <1>4

\* posix_aio_process_queue takes a request of the current context off the list
\* and calls it back.
LEMMA CallBackKeeps ==
  ASSUME AioInv, UNCHANGED setup, ProcessQueue, Top.pos <= Len(first_aio), Ready
  PROVE  AioInv' /\ CallsBack(Seen)
<1> DEFINE c == Seen
           q == [Frame("queue") EXCEPT !.flag = TRUE]
           s == Append(Caller, q)
           L == Len(stk)
<1>1. /\ Top.k = "queue" /\ first_aio' = Without(first_aio, c)
      /\ stk' = Caller \o <<q, CbFrame(c)>>
      /\ UNCHANGED <<request_list, cur_threads, idle_threads, pc, job, acb, free_aiocb,
                     unused, sig, pipe, bh, submitted>>
  <2>1. first_aio \in Seq(Acbs) /\ Top.pos \in Nat \ {0} /\ Len(first_aio) \in Nat
    BY StackFacts, ListType DEF AioInv, Typed, Frames
  <2>2. ~(Top.pos > Len(first_aio))
    BY <2>1
  <2>3. QED BY <2>2 DEF ProcessQueue, At, pool, alloc
<1>2. /\ Shape(stk) /\ InnerOf(stk) = Top /\ stk \in Seq(Frames) /\ Caller = CallerOf(stk)
      /\ Depth = Cardinality(SyncFrames(stk)) /\ L \in Nat /\ L >= 1 /\ DOMAIN stk = 1 .. L
      /\ Top.pos \in Nat \ {0}
  BY StackFacts, LenProperties DEF Shape, Frames
<1>3. /\ c \in Elements(first_aio) /\ c \in Acbs /\ acb[c].async_context_id = Depth
      /\ acb[c].ret # "EINPROGRESS" /\ Elements(first_aio) \subseteq Acbs
  <2>1. first_aio \in Seq(Acbs)
    BY DEF AioInv, Typed
  <2>2. /\ Elements(first_aio) \subseteq Acbs /\ Len(first_aio) \in Nat
        /\ DOMAIN first_aio = 1 .. Len(first_aio)
    BY <2>1, ListType
  <2>3. Top.pos \in DOMAIN first_aio
    BY <1>2, <2>2
  <2>4. c \in Elements(first_aio)
    BY <2>3 DEF Elements, Seen
  <2>5. QED BY <2>2, <2>4 DEF Ready
<1>4. c \notin CbOf(stk)
  BY <1>3 DEF AioInv, Blocks, BlockInOnePlace, CbBlocks, CbOf
<1> HIDE DEF c
<1>5. /\ q \in Frames /\ q.k = "queue"
      /\ CbFrame(c) \in Frames /\ CbFrame(c).k = "cb" /\ CbFrame(c).a = c
      /\ CbFrame(c).flag = FALSE
  <2>1. Frame("queue") \in Frames /\ Frame("queue").k = "queue"
    BY FrameType DEF FrameKinds
  <2>2. QED BY <1>3, <2>1, FrameType DEF Frames
<1> HIDE DEF q
<1>6. /\ Caller \in Seq(Frames) /\ Len(Caller) = L - 1
      /\ \A n \in 1 .. L - 1 : Caller[n] = stk[n]
      /\ Shape(Caller) /\ SameCore(stk, Caller)
      /\ InnerOf(Caller).k \notin {"signal", "cancel"}
  BY <1>1, <1>2, Pop DEF CoreKinds
<1>7. /\ s \in Seq(Frames) /\ Len(s) = L /\ \A n \in 1 .. L - 1 : s[n] = stk[n]
      /\ s[L] = q /\ Shape(s) /\ InnerOf(s) = q /\ SameCore(stk, s)
  <2>1. /\ s \in Seq(Frames) /\ Len(s) = Len(Caller) + 1
        /\ \A n \in 1 .. Len(Caller) : s[n] = Caller[n]
        /\ s[Len(Caller) + 1] = q /\ Shape(s) /\ InnerOf(s) = q
        /\ SameCore(Caller, s)
    BY <1>5, <1>6, Push1 DEF CoreKinds
  <2>2. Len(Caller) + 1 = L
    BY <1>2, <1>6
  <2>3. QED BY <1>6, <2>1, <2>2, SameCoreTrans
<1>8. stk' = Append(s, CbFrame(c))
  <2>1. Caller \o <<q, CbFrame(c)>> = Append(Append(Caller, q), CbFrame(c))
    BY <1>5, <1>6
  <2>2. QED BY <1>1, <2>1
<1> HIDE DEF s
<1>9. SyncFrames(s) = SyncFrames(stk) /\ CbOf(s) = CbOf(stk)
  BY <1>2, <1>7, SameCoreSame
<1>10. /\ stk' \in Seq(Frames) /\ Len(stk') = L + 1 /\ \A n \in 1 .. L : stk'[n] = s[n]
       /\ stk'[L + 1] = CbFrame(c) /\ Shape(stk') /\ InnerOf(stk') = CbFrame(c)
       /\ SyncFrames(stk') = SyncFrames(stk) /\ CbOf(stk') = CbOf(stk) \cup {c}
       /\ DOMAIN stk' = 1 .. L + 1
  <2>1. /\ stk' \in Seq(Frames) /\ Len(stk') = L + 1 /\ \A n \in 1 .. L : stk'[n] = s[n]
        /\ stk'[L + 1] = CbFrame(c) /\ Shape(stk') /\ InnerOf(stk') = CbFrame(c)
        /\ SyncFrames(stk') = SyncFrames(stk) /\ CbOf(stk') = CbOf(stk) \cup {c}
    BY <1>3, <1>4, <1>5, <1>7, <1>8, <1>9, Push1
  <2>2. QED BY <2>1, LenProperties
<1>11. request_list' = Without(request_list, c)
  <2>1. c \notin Elements(request_list)
    BY <1>3 DEF AioInv, Blocks, Queued
  <2>2. QED BY <1>1, <2>1, NotQueued
<1>12. acb \in [Acbs -> Paiocb] /\ acb' \in [Acbs -> Paiocb] /\ request_list \in Seq(Acbs)
  BY <1>1 DEF AioInv, Typed
<1>13. /\ Blocks' /\ first_aio' \in Seq(Acbs) /\ request_list' \in Seq(Acbs)
       /\ free_aiocb' \in Seq(Acbs) /\ Len(request_list') <= Len(request_list)
       /\ Elements(first_aio') = Elements(first_aio) \ {c} /\ c \in Acbs
       /\ request_list = <<>> => request_list' = <<>>
  BY <1>1, <1>3, <1>10, <1>11, <1>12, RemoveParts
<1>14. Typed'
  <2>1. /\ sig' \in BOOLEAN /\ pipe' \in BOOLEAN /\ bh' \in [Contexts -> BOOLEAN]
        /\ job' \in [Threads -> Acbs \cup {NoAcb}] /\ submitted' \in 0 .. MaxSubmits'
        /\ unused' \subseteq Acbs
    BY <1>1 DEF AioInv, Typed, MaxSubmits
  <2>2. QED BY <1>12, <1>13, <2>1 DEF Typed
<1>15. Threading'
  BY <1>1, ThreadingKept DEF AioInv
<1>16. Cancelling'
  BY <1>5, <1>10 DEF Cancelling, At, Top, InnerOf
<1>17. NoLostWakeup'
  <2>1. ~Signalling
    BY <1>1 DEF Signalling, At
  <2>2. QED BY <1>1, <1>12, <1>13, <2>1, WakeupKept DEF AioInv
<1>18. Own'
  <2> SUFFICES ASSUME ~Ioctls PROVE Own'
    BY DEF Own, Ioctls
  <2>1. acb[c].level = Depth
    BY <1>3 DEF AioInv, Own
  <2>2. \A n : DepthAt(stk', n) = DepthAt(stk, n)
    BY <1>10 DEF DepthAt
  <2>3. DepthAt(stk', L + 1) = Depth
    BY <1>2, <1>10, DepthBounds
  <2>4. \A n \in DOMAIN stk' : stk'[n].k \in CoreKinds =>
          (n \in 1 .. L /\ stk'[n] = stk[n]) \/ (n = L + 1 /\ stk'[n] = CbFrame(c))
    <3>1. \A m \in Nat : \A n \in 1 .. m + 1 : n \in 1 .. m - 1 \/ n = m \/ n = m + 1
      OBVIOUS
    <3>2. \A n \in DOMAIN stk' : n \in 1 .. L - 1 \/ n = L \/ n = L + 1
      BY <1>2, <1>10, <3>1
    <3>3. stk'[L].k \notin CoreKinds
      BY <1>2, <1>5, <1>7, <1>10 DEF CoreKinds
    <3>4. \A n \in 1 .. L - 1 : n \in 1 .. L /\ stk'[n] = stk[n]
      BY <1>2, <1>7, <1>10
    <3>5. QED BY <3>2, <3>3, <3>4, <1>10
  <2>5. \A b \in Elements(first_aio)' : /\ acb'[b].async_context_id = acb'[b].level
                                        /\ acb'[b].level <= Cardinality(SyncFrames(stk'))
    BY <1>1, <1>10, <1>13 DEF AioInv, Own
  <2>6. \A n \in DOMAIN stk' : stk'[n].k = "cb" => acb'[stk'[n].a].level = DepthAt(stk', n)
    BY <1>1, <1>2, <1>5, <2>1, <2>2, <2>3, <2>4 DEF AioInv, Own, CoreKinds
  <2>7. ASSUME NEW d, NEW b \in Live(d)' PROVE b \in Live(d)
    <3>1. b \in Acbs /\ acb[b].level = d
      BY <1>1, <2>7 DEF Live
    <3>2. CASE b \in Elements(first_aio)'
      BY <1>13, <3>1, <3>2 DEF Live
    <3>3. CASE \E n \in DOMAIN stk' : stk'[n].k = "cb" /\ ~stk'[n].flag /\ stk'[n].a = b
      <4>1. PICK n \in DOMAIN stk' : stk'[n].k = "cb" /\ ~stk'[n].flag /\ stk'[n].a = b
        BY <3>3
      <4>2. CASE n \in 1 .. L /\ stk'[n] = stk[n]
        BY <1>2, <3>1, <4>1, <4>2 DEF Live
      <4>3. CASE n = L + 1 /\ stk'[n] = CbFrame(c)
        BY <1>3, <1>5, <3>1, <4>1, <4>3 DEF Live
      <4>4. QED BY <2>4, <4>1, <4>2, <4>3 DEF CoreKinds
    <3>4. QED BY <3>2, <3>3, <2>7 DEF Live
  <2>8. ASSUME NEW n \in DOMAIN stk', stk'[n].k = "sync"
        PROVE  /\ \A x, y \in Live(DepthAt(stk, n))' : x = y
               /\ stk'[n].flag => Live(DepthAt(stk, n))' = {}
    <3>1. PICK d : d = DepthAt(stk, n) /\ d = DepthAt(stk', n)
      BY <2>2
    <3>2. n \in DOMAIN stk /\ stk'[n] = stk[n]
      BY <1>2, <1>5, <2>4, <2>8 DEF CoreKinds
    <3>3. /\ \A x, y \in Live(d) : x = y
          /\ stk'[n].flag => Live(d) = {}
      BY <2>8, <3>1, <3>2 DEF AioInv, Own
    <3>4. QED BY <2>7, <3>1, <3>3
  <2>9. QED BY <2>5, <2>6, <2>8 DEF Own
<1>19. CallsBack(c)
  BY <1>1, <1>3, <1>10, <1>13 DEF CallsBack, CbBlocks, CbOf
<1>20. QED BY <1>10, <1>13, <1>14, <1>15, <1>16, <1>17, <1>18, <1>19 DEF AioInv, c

\* The frames under a callback or a synchronous call that returns.
LEMMA PopCore ==
  ASSUME NEW s, Shape(s), InnerOf(s).k \in CoreKinds
  PROVE  /\ CallerOf(s) \in Seq(Frames) /\ Len(CallerOf(s)) = Len(s) - 1 /\ Shape(CallerOf(s))
         /\ InnerOf(CallerOf(s)).k \notin {"signal", "cancel"}
         /\ \A n \in 1 .. Len(s) - 1 : CallerOf(s)[n] = s[n]
         /\ InnerOf(s).k = "cb" => /\ SyncFrames(CallerOf(s)) = SyncFrames(s)
                                   /\ InnerOf(s).a \in CbOf(s)
                                   /\ CbOf(CallerOf(s)) = CbOf(s) \ {InnerOf(s).a}
         /\ InnerOf(s).k = "sync" => /\ SyncFrames(CallerOf(s)) = SyncFrames(s) \ {Len(s)}
                                     /\ Len(s) \in SyncFrames(s)
                                     /\ CbOf(CallerOf(s)) = CbOf(s)
<1> DEFINE r == CallerOf(s)
           L == Len(s)
<1>1. /\ r \in Seq(Frames) /\ Len(r) = L - 1 /\ Shape(r)
      /\ InnerOf(r).k \notin {"signal", "cancel"} /\ \A n \in 1 .. L - 1 : r[n] = s[n]
  BY Pop DEF CoreKinds
<1> HIDE DEF r
<1>2. s \in Seq(Frames) /\ L \in Nat /\ L >= 1 /\ DOMAIN s = 1 .. L
  BY LenProperties DEF Shape
<1>3. DOMAIN r = 1 .. L - 1
  BY <1>1, LenProperties
<1>4. SyncFrames(s) = {n \in 1 .. L : s[n].k = "sync"}
  BY <1>2, SyncFinite
<1>5. SyncFrames(r) = {n \in 1 .. L - 1 : s[n].k = "sync"}
  BY <1>1, <1>3 DEF SyncFrames
<1>6. \A n : n \in 1 .. L <=> n \in 1 .. L - 1 \/ n = L
  <2>1. \A m \in Nat : m >= 1 => \A n : n \in 1 .. m <=> n \in 1 .. m - 1 \/ n = m
    OBVIOUS
  <2>2. QED BY <1>2, <2>1
<1>7. L \notin 1 .. L - 1
  BY <1>2
<1>8. ASSUME InnerOf(s).k = "cb"
      PROVE  /\ SyncFrames(r) = SyncFrames(s) /\ InnerOf(s).a \in CbOf(s)
             /\ CbOf(r) = CbOf(s) \ {InnerOf(s).a}
  <2>1. s[L].k = "cb"
    BY <1>8 DEF InnerOf
  <2>2. SyncFrames(r) = SyncFrames(s)
    BY <1>4, <1>5, <1>6, <2>1
  <2>3. InnerOf(s).a \in CbOf(s)
    BY <1>2, <1>6, <2>1 DEF CbOf, InnerOf
  <2>4. \A x : x \in CbOf(r) => x \in CbOf(s) /\ x # InnerOf(s).a
    <3> TAKE x
    <3> HAVE x \in CbOf(r)
    <3>1. PICK n \in 1 .. L - 1 : s[n].k = "cb" /\ s[n].a = x
      BY <1>1, <1>3 DEF CbOf
    <3>2. n \in 1 .. L /\ L \in 1 .. L /\ n # L
      BY <1>6, <1>7
    <3>3. s[n].a # s[L].a
      BY <2>1, <3>1, <3>2 DEF Shape
    <3>4. QED BY <1>2, <3>1, <3>2, <3>3 DEF CbOf, InnerOf
  <2>5. \A x : x \in CbOf(s) /\ x # InnerOf(s).a => x \in CbOf(r)
    <3> TAKE x
    <3> HAVE x \in CbOf(s) /\ x # InnerOf(s).a
    <3>1. PICK n \in 1 .. L : s[n].k = "cb" /\ s[n].a = x
      BY <1>2 DEF CbOf
    <3>2. n \in 1 .. L - 1
      BY <1>6, <3>1 DEF InnerOf
    <3>3. QED BY <1>1, <1>3, <3>1, <3>2 DEF CbOf
  <2>6. QED BY <2>2, <2>3, <2>4, <2>5
<1>9. ASSUME InnerOf(s).k = "sync"
      PROVE  /\ SyncFrames(r) = SyncFrames(s) \ {L} /\ L \in SyncFrames(s) /\ CbOf(r) = CbOf(s)
  <2>1. s[L].k = "sync"
    BY <1>9 DEF InnerOf
  <2>2. L \in SyncFrames(s)
    BY <1>4, <1>6, <2>1
  <2>3. SyncFrames(r) = SyncFrames(s) \ {L}
    BY <1>4, <1>5, <1>6, <1>7
  <2>4. {m \in DOMAIN s : s[m].k = "cb"} = {m \in DOMAIN r : r[m].k = "cb"}
    BY <1>1, <1>2, <1>3, <1>6, <2>1
  <2>5. \A m \in DOMAIN r : r[m].a = s[m].a
    BY <1>1, <1>3
  <2>6. CbOf(r) = CbOf(s)
    BY <2>4, <2>5 DEF CbOf
  <2>7. QED BY <2>2, <2>3, <2>6
<1>10. QED BY <1>1, <1>8, <1>9 DEF r

\* async_context_pop: the request of the context that goes has been called
\* back, so nothing is left in it.
LEMMA SyncPopKeeps ==
  ASSUME AioInv, UNCHANGED setup, SyncLoop, Top.flag, ~bh[Depth]
  PROVE  AioInv' /\ Stutters
<1> DEFINE L == Len(stk)
<1>1. /\ Top.k = "sync" /\ stk' = Caller /\ bh' = [bh EXCEPT ![Depth - 1] = TRUE]
      /\ UNCHANGED <<request_list, cur_threads, idle_threads, pc, job, acb, first_aio,
                     free_aiocb, unused, submitted, setup, sig, pipe>>
  BY DEF SyncLoop, pool, alloc, At
<1>2. /\ Shape(stk) /\ InnerOf(stk) = Top /\ stk \in Seq(Frames) /\ Caller = CallerOf(stk)
      /\ Depth = Cardinality(SyncFrames(stk)) /\ L \in Nat /\ L >= 1 /\ DOMAIN stk = 1 .. L
      /\ bh \in [Contexts -> BOOLEAN] /\ stk[L] = Top /\ Depth \in Nat
  BY StackFacts, LenProperties, PoolAssumption DEF Shape, InnerOf, Contexts
<1>3. /\ stk' \in Seq(Frames) /\ Len(stk') = L - 1 /\ Shape(stk')
      /\ InnerOf(stk').k \notin {"signal", "cancel"}
      /\ \A n \in 1 .. L - 1 : stk'[n] = stk[n]
      /\ SyncFrames(stk') = SyncFrames(stk) \ {L} /\ L \in SyncFrames(stk)
      /\ CbOf(stk') = CbOf(stk)
  BY <1>1, <1>2, PopCore DEF CoreKinds
<1>4. DOMAIN stk' = 1 .. L - 1
  BY <1>3, LenProperties
<1>5. Cardinality(SyncFrames(stk')) = Depth - 1
  BY <1>2, <1>3, SyncFinite, FS_RemoveElement
<1>6. Depth - 1 \in Contexts
  <2>1. Depth >= 1
    <3>1. DepthAt(stk, L) >= 1 /\ DepthAt(stk, L) <= Depth /\ DepthAt(stk, L) \in Nat
      BY <1>2, <1>3, DepthBounds
    <3>2. QED BY <3>1, <1>2
  <2>2. QED BY <2>1, StackFacts, PoolAssumption DEF Contexts
<1>7. Typed'
  <2>1. bh' \in [Contexts -> BOOLEAN]
    BY <1>1, <1>2, <1>6
  <2>2. QED BY <1>1, <2>1 DEF AioInv, Typed, MaxSubmits
<1>8. Threading'
  BY <1>1, ThreadingKept DEF AioInv
<1>9. Blocks'
  BY <1>1, <1>3, BlocksKept DEF AioInv
<1>10. Cancelling'
  BY <1>3 DEF Cancelling, At, Top, InnerOf
<1>11. NoLostWakeup'
  <2>1. ~Signalling
    BY <1>1 DEF Signalling, At
  <2>2. request_list \in Seq(Acbs) /\ Len(request_list) \in Nat
    BY ListType DEF AioInv, Typed
  <2>3. QED BY <1>1, <2>1, <2>2, WakeupKept DEF AioInv
<1>12. Own'
  <2> SUFFICES ASSUME ~Ioctls PROVE Own'
    BY DEF Own, Ioctls
  <2>1. \A n \in 1 .. L - 1 : n \in DOMAIN stk
    BY <1>2
  <2>2. \A n \in 1 .. L - 1 : DepthAt(stk', n) = DepthAt(stk, n)
    <3> TAKE n \in 1 .. L - 1
    <3>1. {m \in SyncFrames(stk') : m <= n} = {m \in SyncFrames(stk) : m <= n}
      BY <1>2, <1>3
    <3>2. QED BY <3>1 DEF DepthAt
  <2>3. Live(Depth) = {}
    <3>1. DepthAt(stk, L) = Depth
      BY <1>2, DepthBounds
    <3>2. stk[L].k = "sync" /\ L \in DOMAIN stk /\ stk[L].flag
      BY <1>1, <1>2
    <3>3. QED BY <3>1, <3>2 DEF AioInv, Own
  <2>4. \A b \in Elements(first_aio)' : /\ acb'[b].async_context_id = acb'[b].level
                                        /\ acb'[b].level <= Cardinality(SyncFrames(stk'))
    <3> SUFFICES ASSUME NEW b \in Elements(first_aio)
                 PROVE  acb[b].async_context_id = acb[b].level /\ acb[b].level <= Depth - 1
      BY <1>1, <1>5
    <3>1. b \in Acbs /\ acb[b].level \in Nat
      <4>1. b \in Acbs
        BY ListType DEF AioInv, Typed
      <4>2. QED BY <4>1, PoolAssumption DEF AioInv, Typed, Paiocb, Contexts
    <3>2. acb[b].async_context_id = acb[b].level /\ acb[b].level <= Depth
      BY <1>2 DEF AioInv, Own
    <3>3. acb[b].level # Depth
      BY <2>3, <3>1 DEF Live
    <3>4. QED BY <1>2, <3>1, <3>2, <3>3
  <2>5. \A n \in DOMAIN stk' : stk'[n].k = "cb" => acb'[stk'[n].a].level = DepthAt(stk', n)
    BY <1>1, <1>3, <1>4, <2>1, <2>2 DEF AioInv, Own
  <2>6. \A d : Live(d)' \subseteq Live(d)
    BY <1>1, <1>3, <1>4, <2>1 DEF Live
  <2>7. ASSUME NEW n \in DOMAIN stk', stk'[n].k = "sync"
        PROVE  /\ \A x, y \in Live(DepthAt(stk, n))' : x = y
               /\ stk'[n].flag => Live(DepthAt(stk, n))' = {}
    <3>1. PICK d : d = DepthAt(stk, n) /\ d = DepthAt(stk', n)
      BY <1>4, <2>2
    <3>2. n \in DOMAIN stk /\ stk'[n] = stk[n]
      BY <1>3, <1>4, <2>1
    <3>3. /\ \A x, y \in Live(d) : x = y
          /\ stk'[n].flag => Live(d) = {}
      BY <2>7, <3>1, <3>2 DEF AioInv, Own
    <3>4. QED BY <2>6, <3>1, <3>3
  <2>8. QED BY <2>4, <2>5, <2>7 DEF Own
<1>13. Stutters
  BY <1>1, <1>3 DEF Stutters, CbBlocks, CbOf
<1>14. QED BY <1>3, <1>7, <1>8, <1>9, <1>10, <1>11, <1>12, <1>13 DEF AioInv

\* A callback returns: its block is free, and if it has not submitted the next
\* part of its operation, the operation has its result.
LEMMA CallbackReturnsKeeps ==
  ASSUME AioInv, UNCHANGED setup, CallbackReturns
  PROVE  AioInv' /\ Frees(Top.a)
<1> DEFINE L == Len(stk)
           c == Top.a
           r == Caller
<1>1. /\ Top.k = "cb" /\ stk' = IF Top.flag THEN r ELSE SetAsyncRet(r, acb[c].level)
      /\ free_aiocb' = <<c>> \o free_aiocb
      /\ UNCHANGED <<request_list, cur_threads, idle_threads, pc, job, acb, first_aio,
                     unused, submitted, setup, sig, pipe, bh>>
  BY DEF CallbackReturns, pool, At
<1>2. /\ Shape(stk) /\ InnerOf(stk) = Top /\ stk \in Seq(Frames) /\ r = CallerOf(stk)
      /\ Depth = Cardinality(SyncFrames(stk)) /\ L \in Nat /\ L >= 1 /\ DOMAIN stk = 1 .. L
      /\ stk[L] = Top /\ Top \in Frames /\ c \in Acbs
  <2>1. /\ Shape(stk) /\ InnerOf(stk) = Top /\ stk \in Seq(Frames) /\ r = CallerOf(stk)
        /\ Depth = Cardinality(SyncFrames(stk)) /\ L \in Nat /\ L >= 1 /\ DOMAIN stk = 1 .. L
        /\ stk[L] = Top /\ Top \in Frames
    BY StackFacts, LenProperties DEF Shape, InnerOf
  <2>2. L \in 1 .. L
    BY <2>1
  <2>3. QED BY <1>1, <2>1, <2>2 DEF Shape
<1>3. /\ r \in Seq(Frames) /\ Len(r) = L - 1 /\ Shape(r)
      /\ InnerOf(r).k \notin {"signal", "cancel"}
      /\ \A n \in 1 .. L - 1 : r[n] = stk[n]
      /\ SyncFrames(r) = SyncFrames(stk) /\ c \in CbOf(stk) /\ CbOf(r) = CbOf(stk) \ {c}
  BY <1>1, <1>2, PopCore DEF CoreKinds
<1>4. DOMAIN r = 1 .. L - 1
  BY <1>3, LenProperties
<1> HIDE DEF r
<1>5. /\ stk' \in Seq(Frames) /\ Len(stk') = L - 1
      /\ \A n \in 1 .. L - 1 :
           /\ stk'[n].k = stk[n].k /\ stk'[n].a = stk[n].a
           /\ stk'[n] = stk[n] \/ (~Top.flag /\ stk[n].k = "sync" /\ DepthAt(r, n) = acb[c].level)
  <2>1. CASE Top.flag
    BY <1>1, <1>3, <2>1
  <2>2. CASE ~Top.flag
    <3>1. \A n \in 1 .. L - 1 : r[n] \in Frames /\ [r[n] EXCEPT !.flag = TRUE] \in Frames
                                /\ [r[n] EXCEPT !.flag = TRUE].k = r[n].k
                                /\ [r[n] EXCEPT !.flag = TRUE].a = r[n].a
      <4>1. \A n \in 1 .. L - 1 : r[n] \in Frames
        BY <1>3, LenProperties
      <4>2. QED BY <4>1 DEF Frames
    <3>2. stk' = [n \in 1 .. L - 1 |->
                    IF r[n].k = "sync" /\ DepthAt(r, n) = acb[c].level
                    THEN [r[n] EXCEPT !.flag = TRUE] ELSE r[n]]
      BY <1>1, <1>4, <2>2 DEF SetAsyncRet, DepthAt
    <3>3. stk' \in [1 .. L - 1 -> Frames]
      BY <3>1, <3>2
    <3>4. L - 1 \in Nat
      BY <1>2
    <3>5. stk' \in Seq(Frames) /\ Len(stk') = L - 1
      BY <3>3, <3>4, SeqDef
    <3>6. QED BY <1>3, <2>2, <3>1, <3>2, <3>5
  <2>3. QED BY <2>1, <2>2
<1>6. /\ Shape(stk') /\ SyncFrames(stk') = SyncFrames(stk) /\ CbOf(stk') = CbOf(stk) \ {c}
      /\ InnerOf(stk').k \notin {"signal", "cancel"}
  <2>1. \A n \in 1 .. L - 1 : stk'[n].k = r[n].k /\ stk'[n].a = r[n].a
    BY <1>3, <1>5
  <2>2. QED BY <1>3, <1>5, <2>1, SameCalls
<1>7. DOMAIN stk' = 1 .. L - 1
  BY <1>5, LenProperties
<1>8. CbBlocks = CbOf(stk) /\ CbBlocks' = CbOf(stk')
  BY DEF CbBlocks, CbOf
<1>9. c \notin Elements(first_aio) /\ c \notin Elements(free_aiocb) /\ c \notin unused
  BY <1>3, <1>8 DEF AioInv, Blocks, BlockInOnePlace
<1>10. /\ free_aiocb' \in Seq(Acbs) /\ NoRepeat(free_aiocb')
       /\ Elements(free_aiocb') = Elements(free_aiocb) \cup {c}
  BY <1>1, <1>2, <1>9, Prepended DEF AioInv, Typed, Blocks, BlockInOnePlace
<1>11. Typed'
  BY <1>1, <1>10 DEF AioInv, Typed, MaxSubmits
<1>12. Threading'
  BY <1>1, ThreadingKept DEF AioInv
<1>13. Blocks'
  <2>1. BlockInOnePlace'
    <3>1. BlockInOnePlace /\ UNCHANGED <<request_list, acb, first_aio, unused>>
      BY <1>1 DEF AioInv, Blocks
    <3>2. c \in CbBlocks /\ CbBlocks' = CbBlocks \ {c}
      BY <1>3, <1>6, <1>8
    <3>3. QED BY <3>1, <3>2, <1>2, <1>9, <1>10 DEF BlockInOnePlace
  <2>2. IoOnLiveRequest'
    BY <1>1 DEF AioInv, Blocks, IoOnLiveRequest
  <2>3. Queued'
    BY <1>1 DEF AioInv, Blocks, Queued
  <2>4. QED BY <2>1, <2>2, <2>3 DEF Blocks
<1>14. Cancelling'
  BY <1>6 DEF Cancelling, At, Top, InnerOf
<1>15. NoLostWakeup'
  <2>1. ~Signalling
    BY <1>1 DEF Signalling, At
  <2>2. request_list \in Seq(Acbs) /\ Len(request_list) \in Nat
    BY ListType DEF AioInv, Typed
  <2>3. QED BY <1>1, <2>1, <2>2, WakeupKept DEF AioInv
<1>16. Own'
  <2> SUFFICES ASSUME ~Ioctls PROVE Own'
    BY DEF Own, Ioctls
  <2>1. \A n \in 1 .. L - 1 : n \in DOMAIN stk /\ n # L
    <3>1. \A m \in Nat : \A n \in 1 .. m - 1 : n \in 1 .. m /\ n # m
      OBVIOUS
    <3>2. QED BY <1>2, <3>1
  <2>2. \A n : DepthAt(stk', n) = DepthAt(stk, n) /\ DepthAt(r, n) = DepthAt(stk, n)
    BY <1>3, <1>6 DEF DepthAt
  <2>3. L \in DOMAIN stk /\ acb[c].level = DepthAt(stk, L)
    <3>1. L \in DOMAIN stk
      BY <1>2
    <3>2. QED BY <1>1, <1>2, <3>1 DEF AioInv, Own
  <2>4. \A b \in Elements(first_aio)' : /\ acb'[b].async_context_id = acb'[b].level
                                        /\ acb'[b].level <= Cardinality(SyncFrames(stk'))
    BY <1>1, <1>6 DEF AioInv, Own
  <2>5. \A n \in DOMAIN stk' : stk'[n].k = "cb" => acb'[stk'[n].a].level = DepthAt(stk', n)
    BY <1>1, <1>5, <1>7, <2>1, <2>2 DEF AioInv, Own
  <2>6. ASSUME NEW d, NEW b \in Live(d)' PROVE b \in Live(d) /\ b # c
    <3>1. b \in Acbs /\ acb[b].level = d
      BY <1>1, <2>6 DEF Live
    <3>2. CASE b \in Elements(first_aio)'
      BY <1>1, <1>9, <3>1, <3>2 DEF Live
    <3>3. CASE \E n \in DOMAIN stk' : stk'[n].k = "cb" /\ ~stk'[n].flag /\ stk'[n].a = b
      <4>1. PICK n \in DOMAIN stk' : stk'[n].k = "cb" /\ ~stk'[n].flag /\ stk'[n].a = b
        BY <3>3
      <4>2. stk'[n] = stk[n] /\ n \in DOMAIN stk
        BY <1>5, <1>7, <2>1, <4>1
      <4>3. b # c
        BY <1>1, <1>2, <1>7, <2>1, <2>3, <4>1, <4>2 DEF Shape
      <4>4. QED BY <3>1, <4>1, <4>2, <4>3 DEF Live
    <3>4. QED BY <3>2, <3>3, <2>6 DEF Live
  <2>7. ASSUME NEW n \in DOMAIN stk', stk'[n].k = "sync"
        PROVE  /\ \A x, y \in Live(DepthAt(stk, n))' : x = y
               /\ stk'[n].flag => Live(DepthAt(stk, n))' = {}
    <3>1. PICK d : d = DepthAt(stk, n) /\ d = DepthAt(stk', n)
      BY <2>2
    <3>2. n \in DOMAIN stk /\ stk[n].k = "sync"
      BY <1>5, <1>7, <2>1, <2>7
    <3>3. /\ \A x, y \in Live(d) : x = y
          /\ stk[n].flag => Live(d) = {}
      BY <3>1, <3>2 DEF AioInv, Own
    <3>4. CASE stk'[n] = stk[n]
      BY <2>6, <3>1, <3>3, <3>4
    <3>5. CASE ~Top.flag /\ DepthAt(r, n) = acb[c].level
      <4>1. d = acb[c].level
        BY <2>2, <3>1, <3>5
      <4>2. c \in Live(d)
        BY <1>1, <1>2, <2>3, <3>5, <4>1 DEF Live
      <4>3. \A x \in Live(d)' : FALSE
        BY <2>6, <3>3, <4>2
      <4>4. QED BY <3>1, <4>3
    <3>6. QED BY <1>5, <1>7, <3>4, <3>5
  <2>8. QED BY <2>4, <2>5, <2>7 DEF Own
<1>17. Frees(c)
  BY <1>1, <1>3, <1>6, <1>8 DEF Frees
<1>18. QED BY <1>6, <1>11, <1>12, <1>13, <1>14, <1>15, <1>16, <1>17 DEF AioInv

-----------------------------------------------------------------------------
(***************************************************************************)
(* The theorems.                                                           *)
(***************************************************************************)

LEMMA InitInv ==
  ASSUME Init
  PROVE  AioInv
<1>1. /\ stk = <<Frame("run")>> /\ Frame("run") \in Frames /\ Frame("run").k = "run"
      /\ stk \in Seq(Frames) /\ Len(stk) = 1 /\ stk[1] = Frame("run") /\ DOMAIN stk = 1 .. 1
  <2>1. Frame("run") \in Frames /\ Frame("run").k = "run"
    BY FrameType DEF FrameKinds
  <2>2. stk = <<Frame("run")>>
    BY DEF Init
  <2>3. QED BY <2>1, <2>2
<1>2. \A n \in 1 .. 1 : n = 1
  OBVIOUS
<1>3. SyncFrames(stk) = {} /\ CbOf(stk) = {}
  BY <1>1, <1>2 DEF SyncFrames, CbOf
<1>4. Cardinality(SyncFrames(stk)) = 0
  BY <1>3, FS_EmptySet
<1>5. Shape(stk)
  <2>1. \A n \in 2 .. Len(stk) : FALSE
    BY <1>1
  <2>2. \A n \in 1 .. Len(stk) - 1 : FALSE
    BY <1>1
  <2>3. \A n \in 1 .. Len(stk) : n = 1 /\ stk[n].k = "run"
    BY <1>1
  <2>4. QED BY <1>1, <1>4, <2>1, <2>2, <2>3, PoolAssumption DEF Shape
<1>6. Typed
  <2>1. acb \in [Acbs -> Paiocb]
    <3>1. 0 \in Contexts
      BY PoolAssumption DEF Contexts
    <3>2. QED BY <3>1 DEF Init, Paiocb
  <2>2. submitted \in 0 .. MaxSubmits
    <3>1. MaxSubmits \in Nat
      BY PoolAssumption DEF Init, MaxSubmits
    <3>2. QED BY <3>1 DEF Init
  <2>3. bh \in [Contexts -> BOOLEAN]
    BY DEF Init, Contexts
  <2>4. sig \in BOOLEAN /\ pipe \in BOOLEAN
    BY Zenon DEF Init
  <2>5. /\ request_list \in Seq(Acbs) /\ first_aio \in Seq(Acbs) /\ free_aiocb \in Seq(Acbs)
        /\ unused \subseteq Acbs /\ job \in [Threads -> Acbs \cup {NoAcb}]
    BY DEF Init
  <2>6. QED BY <2>1, <2>2, <2>3, <2>4, <2>5 DEF Typed
<1>7. Alive = {} /\ Idle = {} /\ Sleeping = {}
  BY DEF Init, Alive, Idle, Sleeping
<1>8. Threading
  <2>1. Cardinality(Alive) = 0 /\ Cardinality(Idle) = 0
    BY <1>7, FS_EmptySet
  <2>2. MaxThreads \in Nat /\ 0 <= MaxThreads
    BY PoolAssumption, FS_CardinalityType DEF Init, MaxThreads
  <2>3. QED BY <2>1, <2>2 DEF Init, Threading, PoolAccounting
<1>9. Elements(request_list) = {} /\ Elements(first_aio) = {} /\ Elements(free_aiocb) = {}
  BY <1>6, ListType DEF Init, Typed
<1>10. Blocks
  <2>1. CbBlocks = {}
    BY <1>3 DEF CbBlocks, CbOf
  <2>2. NoRepeat(<<>>)
    BY DEF NoRepeat
  <2>3. BlockInOnePlace
    BY <1>9, <2>1, <2>2 DEF Init, BlockInOnePlace
  <2>4. IoOnLiveRequest /\ Queued
    BY <1>9 DEF Init, IoOnLiveRequest, Queued
  <2>5. QED BY <2>3, <2>4 DEF Blocks
<1>11. Cancelling
  BY <1>1 DEF Cancelling, At, Top
<1>12. NoLostWakeup
  BY <1>7 DEF Init, NoLostWakeup
<1>13. Own
  BY <1>1, <1>2, <1>9 DEF Own
<1>14. QED BY <1>5, <1>6, <1>8, <1>10, <1>11, <1>12, <1>13 DEF AioInv

\* What a step does to the requests.
Effect ==
  \/ Stutters
  \/ \E a \in Acbs : \/ Submits(a) \/ Starts(a) \/ Ends(a) \/ Removes(a)
                     \/ CallsBack(a) \/ Frees(a)

LEMMA StepKeeps ==
  ASSUME AioInv, [Next /\ UNCHANGED setup]_<<vars, setup>>
  PROVE  AioInv' /\ Effect
<1>1. UNCHANGED setup
  OBVIOUS
<1>2. CASE UNCHANGED vars
  BY <1>1, <1>2, QuietKeeps DEF Effect
<1>3. CASE \E a \in Acbs : paio_submit(a) \/ paio_ioctl(a) \/ SyncSubmit(a)
  BY <1>1, <1>3, SubmitKeeps, IoctlKeeps, SyncSubmitKeeps DEF Effect
<1>4. CASE SyncFails \/ aio_signal_handler
  BY <1>1, <1>4, QuietKeeps DEF Effect
<1>5. CASE FlushCall \/ PipeReadable \/ BottomHalf
  BY <1>1, <1>5, CallLoopKeeps DEF Effect
<1>6. CASE CondSignal \/ AioWait \/ Select \/ Interrupted \/ qemu_aio_flush
  BY <1>1, <1>6, CondSignalKeeps, AioWaitKeeps, SelectKeeps, FlushKeeps DEF Effect
<1>7. CASE CancelWaited \/ \E a \in Acbs : paio_cancel(a)
  BY <1>1, <1>7, CancelKeeps DEF Effect
<1>8. CASE ProcessQueue
  <2>1. CASE Top.pos <= Len(first_aio) /\ Ready
    <3>1. AioInv' /\ CallsBack(Seen)
      BY <1>1, <1>8, <2>1, CallBackKeeps
    <3>2. Seen \in Acbs
      BY <3>1, ListType DEF CallsBack, AioInv, Typed
    <3>3. QED BY <3>1, <3>2 DEF Effect
  <2>2. CASE ~(Top.pos <= Len(first_aio) /\ Ready)
    BY <1>1, <1>8, <2>2, ScanKeeps DEF Effect
  <2>3. QED BY <2>1, <2>2
<1>9. CASE SyncLoop
  BY <1>1, <1>9, SyncLoopKeeps, SyncPopKeeps DEF Effect
<1>10. CASE CallbackReturns
  <2>1. AioInv' /\ Frees(Top.a)
    BY <1>1, <1>10, CallbackReturnsKeeps
  <2>2. Top.a \in Acbs
    BY <2>1 DEF Frees, AioInv, Blocks, BlockInOnePlace
  <2>3. QED BY <2>1, <2>2 DEF Effect
<1>11. CASE \E t \in Threads : Worker(t)
  <2>1. PICK t \in Threads : Worker(t)
    BY <1>11
  <2>2. CASE TakeRequest(t)
    <3>1. AioInv' /\ Starts(Head(request_list))
      BY <1>1, <2>2, TakeKeeps
    <3>2. Head(request_list) \in Acbs
      BY <3>1, ListType DEF Starts, AioInv, Typed
    <3>3. QED BY <3>1, <3>2 DEF Effect
  <2>3. CASE Complete(t)
    <3>1. AioInv' /\ Ends(job[t])
      BY <1>1, <2>3, CompleteKeeps
    <3>2. job[t] \in Acbs
      BY <3>1, ListType DEF Ends, AioInv, Typed
    <3>3. QED BY <3>1, <3>2 DEF Effect
  <2>4. CASE Wait(t) \/ WakeUp(t, "ready") \/ WakeUp(t, "timedout") \/ Kill(t)
    BY <1>1, <2>4, IdleStepKeeps DEF Effect
  <2>5. CASE ExitThread(t)
    BY <1>1, <2>5, ExitKeeps DEF Effect
  <2>6. QED BY <2>1, <2>2, <2>3, <2>4, <2>5 DEF Worker
<1>12. QED BY <1>2, <1>3, <1>4, <1>5, <1>6, <1>7, <1>8, <1>9, <1>10, <1>11 DEF Next, MainStep

\* The invariant holds in every state of every behaviour of the pool.
THEOREM Invariance == Spec => []AioInv
<1>1. Init => AioInv
  BY InitInv
<1>2. AioInv /\ [Next /\ UNCHANGED setup]_<<vars, setup>> => AioInv'
  BY StepKeeps
<1>3. QED BY <1>1, <1>2, PTL DEF Spec

\* The pool's book-keeping is right: the counters of aio_thread and spawn_thread
\* agree with the threads, a block is in one place, and no worker does I/O for
\* a block that was cancelled, called back or reused.
THEOREM PoolIsConsistent == Spec => []PoolConsistent
<1>1. AioInv => PoolConsistent
  <2> SUFFICES ASSUME AioInv PROVE PoolConsistent
    OBVIOUS
  <2>1. stk \in Seq([k: FrameKinds, a: Acbs \cup {NoAcb}, pos: Nat, flag: BOOLEAN])
    <3> DEFINE F == [k: FrameKinds, a: Acbs \cup {NoAcb}, pos: Nat, flag: BOOLEAN]
    <3>1. Frames \subseteq F
      BY DEF Frames
    <3>2. stk \in Seq(Frames)
      BY DEF AioInv, Shape
    <3> HIDE DEF F
    <3>3. stk \in Seq(F)
      BY <3>1, <3>2, SeqDef
    <3>4. QED BY <3>3 DEF F
  <2>2. TypeOK
    BY <2>1 DEF AioInv, Typed, Threading, TypeOK
  <2>3. QED BY <2>2 DEF PoolConsistent, AioInv, Threading, Blocks
<1>2. QED BY <1>1, Invariance, PTL

\* No request is left to the ten-second time-out of an idle worker: the race
\* of qemu_paio_submit, pthread_cond_signal and pthread_cond_timedwait loses
\* no wake-up.
THEOREM WakeupsKept == Spec => []NoLostWakeup
<1>1. AioInv => NoLostWakeup
  BY DEF AioInv
<1>2. QED BY <1>1, Invariance, PTL

\* The depth of a frame is the number of synchronous calls under it.
LEMMA PrefixDepth ==
  ASSUME NEW s \in Seq(Frames), NEW n \in DOMAIN s
  PROVE  Cardinality(SyncFrames(SubSeq(s, 1, n))) = DepthAt(s, n)
<1>1. DOMAIN s = 1 .. Len(s) /\ Len(s) \in Nat /\ n \in 1 .. Len(s) /\ n \in Nat
      /\ \A i \in 1 .. Len(s) : s[i] \in Frames
  BY LenProperties
<1>2. 1 \in Int /\ n \in Int /\ \A i \in 1 .. n : s[i] \in Frames
  BY <1>1
<1> DEFINE r == SubSeq(s, 1, n)
<1>3. /\ r \in Seq(Frames) /\ Len(r) = IF 1 <= n THEN n - 1 + 1 ELSE 0
      /\ \A i \in 1 .. n - 1 + 1 : r[i] = s[1 + i - 1]
  BY <1>2, SubSeqProperties
<1> HIDE DEF r
<1>4. n - 1 + 1 = n /\ 1 <= n /\ \A i \in 1 .. n : 1 + i - 1 = i
  BY <1>1
<1>5. Len(r) = n /\ \A i \in 1 .. n : r[i] = s[i]
  BY <1>3, <1>4
<1>6. DOMAIN r = 1 .. n
  BY <1>3, <1>5, LenProperties
<1>7. SyncFrames(r) = {m \in SyncFrames(s) : m <= n}
  BY <1>1, <1>5, <1>6 DEF SyncFrames
<1>8. QED BY <1>7 DEF DepthAt, r

\* "Callbacks must only be run if they belong to the current AsyncContext", and
\* async_context_pop leaves no request behind in the context it pops.
THEOREM ContextsKept == Spec => []OwnContext
<1>1. AioInv => OwnContext
  <2> SUFFICES ASSUME AioInv, ~Ioctls PROVE OwnContext
    BY DEF OwnContext, CallbackInOwnContext, NoOrphan
  <2>1. stk \in Seq(Frames)
    BY DEF AioInv, Shape
  <2>2. CallbackInOwnContext
    BY <2>1, PrefixDepth DEF AioInv, Own, CallbackInOwnContext
  <2>3. NoOrphan
    BY DEF AioInv, Own, NoOrphan, Depth
  <2>4. QED BY <2>2, <2>3 DEF OwnContext
<1>2. QED BY <1>1, Invariance, PTL

\* When qemu_aio_flush returns nothing is queued and no worker does I/O.
THEOREM FlushesDrain == Spec => FlushDrains
<1> DEFINE Drained == At("flushed") /\ Len(stk') < Len(stk) =>
                        request_list' = <<>> /\ \A t \in Threads : pc'[t] # "io"
<1>1. AioInv /\ [Next /\ UNCHANGED setup]_<<vars, setup>> => [Drained]_vars
  <2> SUFFICES ASSUME AioInv, Next, Top.k = "flushed", Len(stk') < Len(stk)
               PROVE  request_list' = <<>> /\ \A t \in Threads : pc'[t] # "io"
    BY DEF At
  <2>1. Len(stk) \in Nat /\ stk \in Seq(Frames) /\ Len(stk) >= 1
    BY LenProperties DEF AioInv, Shape
  <2>2. stk' # stk
    BY <2>1
  <2>3. qemu_aio_flush
    BY <2>2 DEF Next, MainStep, Worker, paio_submit, paio_ioctl, paio_cancel, SyncSubmit,
         SyncFails, FlushCall, MayIssue, At, CondSignal, CancelWaited, ProcessQueue,
         CallbackReturns, SyncLoop, AioWait, Select, Interrupted, PipeReadable, BottomHalf,
         aio_signal_handler, TakeRequest, Wait, WakeUp, ExitThread, Complete, Kill, Main
  <2>4. Caller \in Seq(Frames) /\ Len(Caller) = Len(stk) - 1
    BY <2>1, Popped DEF Caller, CallerOf
  <2>5. \A f, g \in Frames : /\ Len(Append(Caller, f)) = Len(stk)
                             /\ Len(Append(Append(Caller, f), g)) = Len(stk) + 1
    <3> TAKE f, g \in Frames
    <3>1. Append(Caller, f) \in Seq(Frames) /\ Len(Append(Caller, f)) = Len(Caller) + 1
      BY <2>4, Appended
    <3>2. Len(Append(Append(Caller, f), g)) = Len(Append(Caller, f)) + 1
      BY <3>1, Appended
    <3>3. QED BY <2>1, <2>4, <3>1, <3>2
  <2>6. Frame("flush") \in Frames /\ Frame("queue") \in Frames
    BY FrameType DEF FrameKinds
  <2>7. stk' # Append(Caller, Frame("flush"))
    BY <2>1, <2>5, <2>6
  <2>8. stk' # Append(Append(Caller, Frame("flush")), Frame("queue"))
    <3>1. Len(Append(Append(Caller, Frame("flush")), Frame("queue"))) = Len(stk) + 1
      BY <2>5, <2>6
    <3>2. QED BY <2>1, <3>1
  <2>9. first_aio = <<>> /\ UNCHANGED <<request_list, pc>>
    BY <2>3, <2>7, <2>8 DEF qemu_aio_flush, Become, At, pool
  <2>10. request_list \in Seq(Acbs) /\ Elements(first_aio) = {} /\ Elements(request_list) = {}
    <3>1. request_list \in Seq(Acbs) /\ first_aio \in Seq(Acbs)
          /\ Elements(request_list) \subseteq Elements(first_aio)
      BY DEF AioInv, Typed, Blocks, BlockInOnePlace
    <3>2. QED BY <2>9, <3>1, ListType
  <2>11. request_list = <<>>
    BY <2>10, ListType
  <2>12. \A t \in Threads : pc[t] # "io"
    BY <2>10 DEF AioInv, Blocks, IoOnLiveRequest
  <2>13. QED BY <2>9, <2>11, <2>12
<1>2. QED BY <1>1, Invariance, PTL DEF Spec, FlushDrains

\* The refinement mapping without its overlapping cases.
Standing(a, cb, fa, rl, fields) ==
  IF a \in cb THEN "calling" ELSE IF a \notin fa THEN "free" ELSE IF a \in rl THEN "issued"
  ELSE IF fields[a].ret = "EINPROGRESS" THEN "executing" ELSE "executed"

LEMMA StandingRight ==
  ASSUME NEW cb, NEW fa, NEW rl, NEW fields, NEW a, cb \cap fa = {}
  PROVE  (CASE a \in cb -> "calling"
            [] a \notin cb \cup fa -> "free"
            [] a \in fa /\ a \in rl -> "issued"
            [] OTHER -> IF fields[a].ret = "EINPROGRESS" THEN "executing" ELSE "executed")
         = Standing(a, cb, fa, rl, fields)
BY DEF Standing

LEMMA Mapped ==
  ASSUME AioInv, AioInv'
  PROVE  /\ state = [a \in Acbs |-> Standing(a, CbBlocks, Elements(first_aio),
                                             Elements(request_list), acb)]
         /\ state' = [a \in Acbs |-> Standing(a, CbBlocks', Elements(first_aio'),
                                              Elements(request_list'), acb')]
<1>1. CbBlocks \cap Elements(first_aio) = {} /\ CbBlocks' \cap Elements(first_aio') = {}
  BY DEF AioInv, Blocks, BlockInOnePlace
<1>2. QED BY <1>1, StandingRight DEF state

\* Each step of the pool is a step of the request life cycle, or none.
LEMMA StepMaps ==
  ASSUME AioInv, AioInv', Effect
  PROVE  [Requests!Next]_state
<1>1. /\ state = [a \in Acbs |-> Standing(a, CbBlocks, Elements(first_aio),
                                          Elements(request_list), acb)]
      /\ state' = [a \in Acbs |-> Standing(a, CbBlocks', Elements(first_aio'),
                                           Elements(request_list'), acb')]
  BY Mapped
<1>2. /\ Elements(request_list) \subseteq Elements(first_aio) /\ Elements(first_aio) \subseteq Acbs
      /\ CbBlocks \cap Elements(first_aio) = {} /\ CbBlocks \subseteq Acbs
      /\ \A a \in Elements(first_aio) : a \in Elements(request_list) <=> ~acb[a].active
      /\ \A a \in Elements(request_list) : acb[a].ret = "EINPROGRESS"
  BY ListType DEF AioInv, Typed, Blocks, BlockInOnePlace, Queued
<1>3. ASSUME NEW a \in Acbs, NEW from, NEW to, state[a] = from, state'[a] = to,
             \A b \in Acbs : b # a => state'[b] = state[b]
      PROVE  Requests!Moves(a, from, to)
  BY <1>1, <1>3 DEF Requests!Moves
<1>4. CASE Stutters
  BY <1>1, <1>4 DEF Stutters
<1>5. ASSUME NEW a \in Acbs, Submits(a) PROVE Requests!Next
  <2>1. /\ state[a] = "free" /\ state'[a] = "issued"
        /\ \A b \in Acbs : b # a => state'[b] = state[b]
    BY <1>1, <1>5 DEF Submits, Standing
  <2>2. QED BY <1>3, <2>1 DEF Requests!Next, Requests!Submit
<1>6. ASSUME NEW a \in Acbs, Starts(a) PROVE Requests!Next
  <2>1. /\ state[a] = "issued" /\ state'[a] = "executing"
        /\ \A b \in Acbs : b # a => state'[b] = state[b]
    BY <1>1, <1>2, <1>6 DEF Starts, Standing
  <2>2. QED BY <1>3, <2>1 DEF Requests!Next, Requests!Start
<1>7. ASSUME NEW a \in Acbs, Ends(a) PROVE Requests!Next
  <2>1. /\ state[a] = "executing" /\ state'[a] = "executed"
        /\ \A b \in Acbs : b # a => state'[b] = state[b]
    BY <1>1, <1>2, <1>7 DEF Ends, Standing
  <2>2. QED BY <1>3, <2>1 DEF Requests!Next, Requests!End
<1>8. ASSUME NEW a \in Acbs, Removes(a) PROVE Requests!Next
  <2>1. /\ state[a] \in {"issued", "executed"} /\ state'[a] = "free"
        /\ \A b \in Acbs : b # a => state'[b] = state[b]
    BY <1>1, <1>2, <1>8 DEF Removes, Standing
  <2>2. QED BY <1>3, <2>1 DEF Requests!Next, Requests!Cancel
<1>9. ASSUME NEW a \in Acbs, CallsBack(a) PROVE Requests!Next
  <2>1. /\ state[a] = "executed" /\ state'[a] = "calling"
        /\ \A b \in Acbs : b # a => state'[b] = state[b]
    BY <1>1, <1>2, <1>9 DEF CallsBack, Standing
  <2>2. QED BY <1>3, <2>1 DEF Requests!Next, Requests!CallBack
<1>10. ASSUME NEW a \in Acbs, Frees(a) PROVE Requests!Next
  <2>1. /\ state[a] = "calling" /\ state'[a] = "free"
        /\ \A b \in Acbs : b # a => state'[b] = state[b]
    BY <1>1, <1>2, <1>10 DEF Frees, Standing
  <2>2. QED BY <1>3, <2>1 DEF Requests!Next, Requests!Return
<1>11. QED BY <1>4, <1>5, <1>6, <1>7, <1>8, <1>9, <1>10 DEF Effect

\* The pool implements the life cycle its callers rely on (AioSpec): executed
\* at most once, called back at most once and after its I/O, and cancelled
\* only while nobody touches its buffers.
THEOREM PoolImplementsAioSpec == Spec => ImplementsAioSpec
<1>1. Init => Requests!Init
  <2> SUFFICES ASSUME Init PROVE Requests!Init
    OBVIOUS
  <2>1. AioInv
    BY InitInv
  <2>2. CbBlocks = {} /\ Elements(first_aio) = {}
    <3>1. stk = <<Frame("run")>> /\ Frame("run").k = "run" /\ first_aio = <<>>
      BY FrameType DEF Init, FrameKinds
    <3>2. CbBlocks = {}
      BY <3>1 DEF CbBlocks
    <3>3. QED BY <3>1, <3>2, <2>1, ListType DEF AioInv, Typed
  <2>3. QED BY <2>2 DEF Requests!Init, state
<1>2. AioInv /\ AioInv' /\ [Next /\ UNCHANGED setup]_<<vars, setup>> => [Requests!Next]_state
  BY StepKeeps, StepMaps
<1>3. QED BY <1>1, <1>2, Invariance, PTL DEF Spec, ImplementsAioSpec, Requests!Spec
=============================================================================
