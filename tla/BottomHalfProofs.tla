-------------------------- MODULE BottomHalfProofs --------------------------
(***************************************************************************)
(* Nested polls, deletions and pops are safe for any number of bottom      *)
(* halves and any depth of contexts.                                       *)
(***************************************************************************)
EXTENDS BottomHalf, ListProofs, SequenceTheorems, FiniteSetTheorems, TLAPS

Frames == [k : Kinds, bh : Bhs \cup {NoBh}, ret : BOOLEAN, lvl : 1 .. MaxDepth + 1]
Bases == {"main", "sync", "pop"}
Inner(s) == s[Len(s)]
Outer(s) == SubSeq(s, 1, Len(s) - 1)

\* What may stand on what: a context is entered by a frame of its own, a walk
\* stands directly on that frame, a callback on its walk.
StandsOn(f, g) ==
  /\ f.k # "main"
  /\ f.lvl = IF f.k \in {"sync", "pop"} THEN g.lvl + 1 ELSE g.lvl
  /\ f.k = "poll" => g.k \in Bases
  /\ f.k = "cb" => g.k = "poll" /\ f.bh = g.bh
  /\ f.k = "submit" => g.k \in {"main", "cb", "aio"}
  /\ f.k = "aio" => g.k \in {"main", "sync"}
  /\ f.k \in {"sync", "pop"} => g.k \in {"main", "cb", "aio", "submit"}
  /\ g.k = "pop" => f.k = "poll" /\ g.ret

\* Contexts nest: the frame that enters one is above all those of the others.
Nest(s) ==
  \A m, n \in 1 .. Len(s) : m < n =>
    s[m].lvl <= s[n].lvl /\ (s[n].k \in Bases => s[m].lvl < s[n].lvl)

Shape(s) ==
  /\ s \in Seq(Frames) /\ s # <<>>
  /\ s[1].k = "main" /\ s[1].lvl = 1
  /\ \A n \in 2 .. Len(s) : StandsOn(s[n], s[n - 1])
  /\ Nest(s)

\* The lists c hold the bottom halves made in their contexts, and all of them;
\* h tells the fields of the bottom halves.
Links(c, h) ==
  /\ c \in Seq(Seq(Bhs))
  /\ \A n \in 1 .. Len(c) : NoRepeat(c[n])
  /\ \A n \in 1 .. Len(c) : \A b \in Elements(c[n]) : h[b].alive /\ h[b].home = n
  /\ \A b \in Bhs : h[b].alive => h[b].home \in 1 .. Len(c) /\ b \in Elements(c[h[b].home])
ListsRight == Links(ctx, bh)

\* What a frame needs of its bottom half.
FrameRight(f) ==
  /\ f.k = "poll" /\ f.bh # NoBh =>
       bh[f.bh].alive /\ bh[f.bh].home = f.lvl /\ (f.lvl # 1 => f.ret)
  /\ f.k = "cb" => f.bh \in Bhs /\ bh[f.bh].alive /\ bh[f.bh].home = f.lvl /\ bh[f.bh].ran
  /\ f.k = "submit" => /\ f.bh \in Reqs /\ bh[f.bh].alive /\ bh[f.bh].home = f.lvl
                       /\ ~bh[f.bh].deleted /\ ~bh[f.bh].scheduled /\ ~bh[f.bh].ran

FramesRight ==
  /\ \A n \in 1 .. Len(stk) : FrameRight(stk[n])
  /\ \A m, n \in 1 .. Len(stk) :
       stk[m].k = "submit" /\ stk[n].k = "submit" /\ stk[m].bh = stk[n].bh => m = n

\* Devices keep their bottom halves; a request that is not deleted will run, or
\* is being submitted or called.
OwnersRight ==
  /\ \A b \in Devs : bh[b].alive /\ ~bh[b].deleted /\ ~bh[b].early /\ bh[b].home = 1
  /\ \A b \in Reqs : ~bh[b].idle
  /\ \A b \in Reqs : bh[b].alive => bh[b].scheduled \/ bh[b].deleted \/ OnStack(b)

\* A poll that did nothing leaves an empty list to async_context_pop.
Flushed == Inner(stk).k = "pop" /\ ~Inner(stk).ret => ctx[Len(ctx)] = <<>>

Typed ==
  /\ bh \in [Bhs -> QEMUBH]
  /\ Len(ctx) = Inner(stk).lvl
  /\ ops \in 0 .. MaxOps

BhInv == Shape(stk) /\ Typed /\ ListsRight /\ FramesRight /\ OwnersRight /\ Flushed

-----------------------------------------------------------------------------
(***************************************************************************)
(* Calls and returns.                                                      *)
(***************************************************************************)
LEMMA Constants == MaxDepth \in Nat /\ MaxOps \in Nat /\ NoBh \notin Bhs /\ Devs \cap Reqs = {}
BY BhAssumption DEF Bhs

LEMMA ShapeFacts ==
  ASSUME NEW s, Shape(s)
  PROVE  /\ s \in Seq(Frames) /\ Len(s) \in Nat /\ Len(s) >= 1 /\ DOMAIN s = 1 .. Len(s)
         /\ \A n \in 1 .. Len(s) : s[n] \in Frames
         /\ Inner(s) \in Frames
         /\ \A n \in 1 .. Len(s) : s[n].k = "main" => n = 1
         /\ s[Len(s)].k = "main" => Len(s) = 1
<1>1. s \in Seq(Frames) /\ Len(s) \in Nat /\ Len(s) >= 1 /\ DOMAIN s = 1 .. Len(s)
  BY ListType DEF Shape
<1>2. \A n \in 1 .. Len(s) : s[n] \in Frames
  BY <1>1, ListType
<1>3. ASSUME NEW n \in 1 .. Len(s), s[n].k = "main" PROVE n = 1
  <2>1. n = 1 \/ n \in 2 .. Len(s)
    BY <1>1
  <2>2. QED BY <2>1, <1>3 DEF Shape, StandsOn
<1>4. Len(s) \in 1 .. Len(s)
  BY <1>1
<1>5. QED BY <1>1, <1>2, <1>3, <1>4 DEF Inner

LEMMA Pushes ==
  ASSUME NEW s, Shape(s), NEW f \in Frames, StandsOn(f, Inner(s))
  PROVE  /\ Shape(Append(s, f)) /\ Inner(Append(s, f)) = f
         /\ Len(Append(s, f)) = Len(s) + 1
         /\ \A n \in 1 .. Len(s) : Append(s, f)[n] = s[n]
         /\ Append(s, f)[Len(s) + 1] = f
<1> DEFINE t == Append(s, f)
           l == Len(s)
<1>1. /\ s \in Seq(Frames) /\ l \in Nat /\ l >= 1 /\ \A n \in 1 .. l : s[n] \in Frames
      /\ \A n \in 1 .. l : s[n].k = "main" => n = 1
  BY ShapeFacts
<1>2. /\ t \in Seq(Frames) /\ Len(t) = l + 1 /\ (\A n \in 1 .. l : t[n] = s[n]) /\ t[l + 1] = f
  BY <1>1, Extended
<1>3. /\ s[1].k = "main" /\ s[1].lvl = 1 /\ Nest(s)
      /\ \A n \in 2 .. l : StandsOn(s[n], s[n - 1])
  BY DEF Shape
<1>4. StandsOn(f, s[l])
  BY DEF Inner
<1> HIDE DEF t, l
<1>5. t # <<>> /\ t[1].k = "main" /\ t[1].lvl = 1
  BY <1>1, <1>2, <1>3, ListType
<1>6. ASSUME NEW n \in 2 .. l + 1 PROVE StandsOn(t[n], t[n - 1])
  <2>1. CASE n = l + 1
    <3>1. n - 1 = l /\ l \in 1 .. l
      BY <2>1, <1>1
    <3>2. t[n] = f /\ t[n - 1] = s[l]
      BY <2>1, <3>1, <1>2
    <3>3. QED BY <3>2, <1>4
  <2>2. CASE n # l + 1
    <3>1. n \in 2 .. l /\ n - 1 \in 1 .. l /\ n \in 1 .. l
      BY <2>2, <1>1
    <3>2. QED BY <3>1, <1>2, <1>3
  <2>3. QED BY <2>1, <2>2
<1>7. /\ \A n \in 1 .. l : s[n].lvl \in Nat /\ f.lvl \in Nat
      /\ s[l].lvl <= f.lvl /\ (f.k \in Bases => s[l].lvl < f.lvl)
  <2>1. \A g \in Frames : g.lvl \in 1 .. MaxDepth + 1 /\ g.lvl \in Nat
    BY Constants DEF Frames
  <2>2. f.lvl = IF f.k \in {"sync", "pop"} THEN s[l].lvl + 1 ELSE s[l].lvl
    BY <1>4 DEF StandsOn
  <2>3. f.k \in Bases => f.k \in {"sync", "pop"}
    BY <1>4 DEF StandsOn, Bases
  <2>4. l \in 1 .. l
    BY <1>1
  <2>5. QED BY <2>1, <2>2, <2>3, <2>4, <1>1
<1>8. Nest(t)
  <2> SUFFICES ASSUME NEW m \in 1 .. l + 1, NEW n \in 1 .. l + 1, m < n
               PROVE  t[m].lvl <= t[n].lvl /\ (t[n].k \in Bases => t[m].lvl < t[n].lvl)
    BY <1>2 DEF Nest
  <2>1. CASE n \in 1 .. l
    <3>1. m \in 1 .. l
      BY <2>1, <1>1
    <3>2. t[m] = s[m] /\ t[n] = s[n]
      BY <3>1, <2>1, <1>2
    <3>3. m \in 1 .. Len(s) /\ n \in 1 .. Len(s)
      BY <3>1, <2>1 DEF l
    <3>4. QED BY <3>2, <3>3, <1>3 DEF Nest
  <2>2. CASE n = l + 1
    <3>1. m \in 1 .. l /\ l \in 1 .. l
      BY <2>2, <1>1
    <3>2. t[m] = s[m] /\ t[n] = f
      BY <3>1, <2>2, <1>2
    <3>3. s[m].lvl <= s[l].lvl
      <4>1. CASE m = l
        BY <4>1, <1>7, <3>1
      <4>2. CASE m # l
        <5>1. m < l /\ m \in 1 .. Len(s) /\ l \in 1 .. Len(s)
          BY <4>2, <3>1, <1>1 DEF l
        <5>2. QED BY <5>1, <1>3 DEF Nest
      <4>3. QED BY <4>1, <4>2
    <3>4. s[m].lvl <= f.lvl /\ (f.k \in Bases => s[m].lvl < f.lvl)
      BY <3>1, <3>3, <1>7
    <3>5. QED BY <3>2, <3>4
  <2>3. QED BY <2>1, <2>2, <1>1
<1>9. Shape(t)
  BY <1>2, <1>5, <1>6, <1>8 DEF Shape
<1>10. QED BY <1>2, <1>9 DEF Inner, t, l

LEMMA Pops ==
  ASSUME NEW s, Shape(s), Inner(s).k # "main"
  PROVE  /\ Shape(Outer(s)) /\ Len(Outer(s)) = Len(s) - 1 /\ Len(s) >= 2
         /\ \A n \in 1 .. Len(s) - 1 : Outer(s)[n] = s[n]
         /\ Inner(Outer(s)) = s[Len(s) - 1]
         /\ StandsOn(Inner(s), s[Len(s) - 1]) /\ s[Len(s) - 1] \in Frames
<1> DEFINE r == Outer(s)
           l == Len(s)
<1>1. /\ s \in Seq(Frames) /\ l \in Nat /\ l >= 1 /\ \A n \in 1 .. l : s[n] \in Frames
  BY ShapeFacts
<1>2. /\ s[1].k = "main" /\ s[1].lvl = 1 /\ Nest(s)
      /\ \A n \in 2 .. l : StandsOn(s[n], s[n - 1])
  BY DEF Shape
<1>3. l >= 2
  BY <1>1, <1>2 DEF Inner
<1>4. r \in Seq(Frames) /\ Len(r) = l - 1 /\ (\A n \in 1 .. l - 1 : r[n] = s[n])
  BY <1>1, Fronts DEF Outer, Shape
<1> HIDE DEF r
<1>5. r # <<>>
  BY <1>1, <1>3, <1>4, ListType
<1>6. r[1] = s[1] /\ r[l - 1] = s[l - 1] /\ l \in 2 .. l /\ l - 1 \in 1 .. l
  BY <1>1, <1>3, <1>4
<1>7. ASSUME NEW n \in 2 .. l - 1 PROVE StandsOn(r[n], r[n - 1])
  <2>1. n \in 2 .. l /\ n \in 1 .. l - 1 /\ n - 1 \in 1 .. l - 1
    BY <1>1
  <2>2. QED BY <2>1, <1>2, <1>4
<1>8. Nest(r)
  <2>1. \A n \in 1 .. l - 1 : n \in 1 .. l
    BY <1>1
  <2>2. QED BY <2>1, <1>2, <1>4 DEF Nest
<1>9. Shape(r)
  BY <1>2, <1>4, <1>5, <1>6, <1>7, <1>8 DEF Shape
<1>10. QED BY <1>1, <1>2, <1>3, <1>4, <1>6, <1>9 DEF Inner, r

\* The innermost frame changes in place.
LEMMA Swaps ==
  ASSUME NEW s, Shape(s), NEW t \in Seq(Frames), Len(t) = Len(s),
         \A n \in 1 .. Len(s) - 1 : t[n] = s[n],
         t[Len(s)].lvl = s[Len(s)].lvl,
         s[Len(s)].k # "main",
         StandsOn(t[Len(s)], s[Len(s) - 1]),
         t[Len(s)].k \in Bases => s[Len(s)].k \in Bases
  PROVE  Shape(t)
<1> DEFINE l == Len(s)
<1>1. s \in Seq(Frames) /\ l \in Nat /\ l >= 1
  BY ShapeFacts
<1>2. /\ s[1].k = "main" /\ s[1].lvl = 1 /\ Nest(s)
      /\ \A n \in 2 .. l : StandsOn(s[n], s[n - 1])
  BY DEF Shape
<1>3. /\ t \in Seq(Frames) /\ Len(t) = l /\ (\A n \in 1 .. l - 1 : t[n] = s[n])
      /\ t[l].lvl = s[l].lvl /\ StandsOn(t[l], s[l - 1])
      /\ (t[l].k \in Bases => s[l].k \in Bases)
  OBVIOUS
<1>4. l >= 2
  BY <1>1, <1>2
<1> HIDE DEF l
<1>5. t # <<>> /\ t[1] = s[1]
  BY <1>1, <1>3, <1>4, ListType
<1>6. ASSUME NEW n \in 2 .. l PROVE StandsOn(t[n], t[n - 1])
  <2>1. n - 1 \in 1 .. l - 1 /\ (n = l \/ n \in 1 .. l - 1)
    BY <1>1
  <2>2. QED BY <2>1, <1>2, <1>3
<1>7. \A n \in 1 .. l : t[n].lvl = s[n].lvl /\ (t[n].k \in Bases => s[n].k \in Bases)
  <2>1. \A n \in 1 .. l : n = l \/ n \in 1 .. l - 1
    BY <1>1
  <2>2. QED BY <2>1, <1>3
<1>8. Nest(t)
  BY <1>2, <1>3, <1>7 DEF Nest, l
<1>9. QED BY <1>2, <1>3, <1>5, <1>6, <1>8 DEF Shape

\* In the context of the innermost walk there is no other walk, callback or
\* submission.
LEMMA WalkAlone ==
  ASSUME NEW s, Shape(s), Inner(s).k = "poll",
         NEW n \in 1 .. Len(s), n # Len(s), s[n].k \in {"poll", "cb", "submit"}
  PROVE  s[n].lvl # Inner(s).lvl
<1> DEFINE l == Len(s)
<1>1. /\ l \in Nat /\ s \in Seq(Frames) /\ \A m \in 1 .. l : s[m] \in Frames
      /\ l >= 2 /\ StandsOn(Inner(s), s[l - 1])
  BY ShapeFacts, Pops
<1>2. s[l - 1].k \in Bases /\ Inner(s).lvl = s[l - 1].lvl
  BY <1>1 DEF StandsOn
<1>3. Nest(s)
  BY DEF Shape
<1>4. n # l - 1
  BY <1>2 DEF Bases
<1>5. n < l - 1 /\ l - 1 \in 1 .. l
  BY <1>1, <1>4
<1>6. s[n].lvl < s[l - 1].lvl
  BY <1>2, <1>3, <1>5 DEF Nest
<1>7. s[n].lvl \in Nat /\ s[l - 1].lvl \in Nat
  <2>1. \A g \in Frames : g.lvl \in Nat
    BY Constants DEF Frames
  <2>2. QED BY <2>1, <1>1, <1>5
<1>8. QED BY <1>2, <1>6, <1>7

-----------------------------------------------------------------------------
(***************************************************************************)
(* The fields of a bottom half.                                            *)
(***************************************************************************)
SameBut(q, r) == q.alive = r.alive /\ q.home = r.home /\ q.ran = r.ran /\ q.early = r.early

LEMMA ScheduledFields ==
  ASSUME NEW r \in QEMUBH, NEW i \in BOOLEAN
  PROVE  /\ Scheduled(r, i) \in QEMUBH /\ SameBut(Scheduled(r, i), r)
         /\ Scheduled(r, i).scheduled /\ Scheduled(r, i).deleted = r.deleted
         /\ ~i /\ ~r.idle => ~Scheduled(r, i).idle
<1>1. CASE r.scheduled
  BY <1>1 DEF Scheduled, SameBut
<1>2. CASE ~r.scheduled
  <2>1. Scheduled(r, i) = [r EXCEPT !.scheduled = TRUE, !.idle = i]
    BY <1>2 DEF Scheduled
  <2>2. QED BY <2>1 DEF QEMUBH, SameBut
<1>3. QED BY <1>1, <1>2

LEMMA DeletedFields ==
  ASSUME NEW r \in QEMUBH
  PROVE  /\ Deleted(r) \in QEMUBH /\ SameBut(Deleted(r), r)
         /\ Deleted(r).deleted /\ ~Deleted(r).scheduled /\ Deleted(r).idle = r.idle
BY DEF Deleted, QEMUBH, SameBut

LEMMA FreedFields ==
  ASSUME NEW r \in QEMUBH
  PROVE  /\ Freed(r) \in QEMUBH /\ ~Freed(r).alive /\ Freed(r).idle = r.idle
BY DEF Freed, QEMUBH

LEMMA FreshFields ==
  ASSUME NEW e \in BOOLEAN, NEW h \in 0 .. MaxDepth + 1
  PROVE  /\ Fresh(e, h) \in QEMUBH /\ Fresh(e, h).alive /\ Fresh(e, h).home = h
         /\ ~Fresh(e, h).scheduled /\ ~Fresh(e, h).idle /\ ~Fresh(e, h).deleted
         /\ ~Fresh(e, h).ran /\ Fresh(e, h).early = e
BY DEF Fresh, QEMUBH

LEMMA CancelFields ==
  ASSUME NEW r \in QEMUBH
  PROVE  /\ [r EXCEPT !.scheduled = FALSE] \in QEMUBH
         /\ SameBut([r EXCEPT !.scheduled = FALSE], r)
         /\ [r EXCEPT !.scheduled = FALSE].deleted = r.deleted
         /\ [r EXCEPT !.scheduled = FALSE].idle = r.idle
BY DEF QEMUBH, SameBut

-----------------------------------------------------------------------------
(***************************************************************************)
(* What the steps share.                                                   *)
(***************************************************************************)
LEMMA InvFacts ==
  ASSUME BhInv
  PROVE  /\ Shape(stk) /\ Top = Inner(stk) /\ Below = Outer(stk) /\ Top \in Frames
         /\ bh \in [Bhs -> QEMUBH] /\ ops \in 0 .. MaxOps
         /\ Len(ctx) = Top.lvl /\ Len(ctx) \in 1 .. MaxDepth + 1
         /\ ctx \in Seq(Seq(Bhs)) /\ DOMAIN ctx = 1 .. Len(ctx) /\ DOMAIN stk = 1 .. Len(stk)
         /\ Len(stk) \in Nat /\ Len(stk) >= 1
<1>1. Shape(stk)
  BY DEF BhInv
<1>2. Inner(stk) \in Frames /\ DOMAIN stk = 1 .. Len(stk) /\ Len(stk) \in Nat /\ Len(stk) >= 1
  BY <1>1, ShapeFacts
<1>3. Inner(stk).lvl \in 1 .. MaxDepth + 1
  BY <1>2 DEF Frames
<1>4. ctx \in Seq(Seq(Bhs))
  BY DEF BhInv, ListsRight, Links
<1>5. DOMAIN ctx = 1 .. Len(ctx)
  BY <1>4, ListType
<1>6. QED BY <1>1, <1>2, <1>3, <1>4, <1>5 DEF BhInv, Typed, Top, Below, Inner, Outer

\* The links stay as they are.
LEMMA LinksKept ==
  ASSUME ListsRight, ctx' = ctx,
         \A b \in Bhs : bh'[b].alive = bh[b].alive /\ bh'[b].home = bh[b].home
  PROVE  ListsRight'
<1>1. \A c \in 1 .. Len(ctx) : Elements(ctx[c]) \subseteq Bhs
  <2>1. ctx \in Seq(Seq(Bhs))
    BY DEF ListsRight, Links
  <2>2. \A c \in 1 .. Len(ctx) : ctx[c] \in Seq(Bhs)
    BY <2>1, ListType
  <2>3. QED BY <2>2, ListType
<1>2. \A c \in 1 .. Len(ctx) : \A b \in Elements(ctx[c]) : bh'[b].alive /\ bh'[b].home = c
  BY <1>1 DEF ListsRight, Links
<1>3. \A b \in Bhs : bh'[b].alive =>
        bh'[b].home \in 1 .. Len(ctx) /\ b \in Elements(ctx[bh'[b].home])
  BY DEF ListsRight, Links
<1>4. QED BY <1>2, <1>3 DEF ListsRight, Links

\* A frame keeps what it needs of a bottom half that keeps its fields.
LEMMA FrameKept ==
  ASSUME NEW f \in Frames, FrameRight(f),
         f.bh \in Bhs => /\ bh'[f.bh].alive = bh[f.bh].alive /\ bh'[f.bh].home = bh[f.bh].home
                         /\ bh[f.bh].ran => bh'[f.bh].ran,
         f.k = "submit" => /\ bh'[f.bh].deleted = bh[f.bh].deleted
                           /\ bh'[f.bh].scheduled = bh[f.bh].scheduled
                           /\ bh'[f.bh].ran = bh[f.bh].ran
  PROVE  FrameRight(f)'
<1>1. f.bh \in Bhs \/ f.bh = NoBh
  BY DEF Frames
<1>2. f.k = "poll" /\ f.bh # NoBh =>
        bh'[f.bh].alive /\ bh'[f.bh].home = f.lvl /\ (f.lvl # 1 => f.ret)
  BY <1>1 DEF FrameRight
<1>3. f.k = "cb" => f.bh \in Bhs /\ bh'[f.bh].alive /\ bh'[f.bh].home = f.lvl /\ bh'[f.bh].ran
  BY DEF FrameRight
<1>4. f.k = "submit" => /\ f.bh \in Reqs /\ bh'[f.bh].alive /\ bh'[f.bh].home = f.lvl
                        /\ ~bh'[f.bh].deleted /\ ~bh'[f.bh].scheduled /\ ~bh'[f.bh].ran
  BY DEF FrameRight, Bhs
<1>5. QED BY <1>2, <1>3, <1>4 DEF FrameRight

\* The fields of a device's bottom half that callbacks may change.
LEMMA DeviceStep ==
  ASSUME BhInv, NEW d \in Devs, NEW q \in QEMUBH,
         SameBut(q, bh[d]), q.deleted = bh[d].deleted,
         bh' = [bh EXCEPT ![d] = q], ctx' = ctx, stk' = stk, ops' = ops
  PROVE  BhInv'
<1>1. /\ Shape(stk) /\ bh \in [Bhs -> QEMUBH] /\ d \in Bhs /\ d \notin Reqs
      /\ \A n \in 1 .. Len(stk) : stk[n] \in Frames
  BY InvFacts, ShapeFacts, Constants DEF Bhs
<1>2. bh' \in [Bhs -> QEMUBH] /\ bh'[d] = q /\ \A b \in Bhs : b # d => bh'[b] = bh[b]
  BY <1>1
<1>3. \A b \in Bhs : SameBut(bh'[b], bh[b]) /\ bh'[b].deleted = bh[b].deleted
  BY <1>2 DEF SameBut
<1>4. Shape(stk') /\ Typed' /\ Flushed'
  BY <1>2 DEF BhInv, Typed, Flushed
<1>5. ListsRight'
  BY <1>3, LinksKept DEF BhInv, SameBut
<1>6. FramesRight'
  <2>1. ASSUME NEW n \in 1 .. Len(stk) PROVE FrameRight(stk[n])'
    <3>1. stk[n] \in Frames /\ FrameRight(stk[n])
      BY <1>1 DEF BhInv, FramesRight
    <3>2. stk[n].k = "submit" => stk[n].bh \in Bhs /\ stk[n].bh # d
      BY <3>1, <1>1 DEF FrameRight, Bhs
    <3>3. QED BY <3>1, <3>2, <1>2, <1>3, FrameKept DEF SameBut
  <2>2. QED BY <2>1 DEF BhInv, FramesRight
<1>7. OwnersRight'
  <2>1. \A b \in Devs : bh'[b].alive /\ ~bh'[b].deleted /\ ~bh'[b].early /\ bh'[b].home = 1
    BY <1>3 DEF BhInv, OwnersRight, SameBut, Bhs
  <2>2. \A b \in Reqs : bh'[b] = bh[b]
    BY <1>1, <1>2 DEF Bhs
  <2>3. \A b : OnStack(b)' <=> OnStack(b)
    BY DEF OnStack
  <2>4. QED BY <2>1, <2>2, <2>3 DEF BhInv, OwnersRight
<1>8. QED BY <1>4, <1>5, <1>6, <1>7 DEF BhInv

LEMMA DeviceActions ==
  ASSUME BhInv, NEW d \in Devs,
         qemu_bh_schedule(d) \/ qemu_bh_schedule_idle(d) \/ qemu_bh_cancel(d)
  PROVE  BhInv'
<1>1. bh \in [Bhs -> QEMUBH] /\ bh[d] \in QEMUBH
  BY InvFacts DEF Bhs
<1>2. ASSUME NEW i \in BOOLEAN, bh' = [bh EXCEPT ![d] = Scheduled(@, i)],
             ctx' = ctx, stk' = stk, ops' = ops
      PROVE  BhInv'
  <2> DEFINE q == Scheduled(bh[d], i)
  <2>1. q \in QEMUBH /\ SameBut(q, bh[d]) /\ q.deleted = bh[d].deleted
    BY <1>1, ScheduledFields
  <2>2. bh' = [bh EXCEPT ![d] = q]
    BY <1>2
  <2> HIDE DEF q
  <2>3. QED BY <2>1, <2>2, <1>2, DeviceStep
<1>3. CASE qemu_bh_cancel(d)
  <2> DEFINE q == [bh[d] EXCEPT !.scheduled = FALSE]
  <2>1. q \in QEMUBH /\ SameBut(q, bh[d]) /\ q.deleted = bh[d].deleted
    BY <1>1, CancelFields
  <2>2. bh' = [bh EXCEPT ![d] = q] /\ ctx' = ctx /\ stk' = stk /\ ops' = ops
    BY <1>3 DEF qemu_bh_cancel
  <2> HIDE DEF q
  <2>3. QED BY <2>1, <2>2, DeviceStep
<1>4. QED BY <1>2, <1>3 DEF qemu_bh_schedule, qemu_bh_schedule_idle

\* A request is deleted: by its owner, or by its callback as that returns.
LEMMA RequestDeleted ==
  ASSUME BhInv, NEW b \in Reqs, bh' = [bh EXCEPT ![b] = Deleted(@)], ctx' = ctx, ops' = ops
  PROVE  /\ bh' \in [Bhs -> QEMUBH]
         /\ ListsRight'
         /\ \A c \in Bhs : SameBut(bh'[c], bh[c])
         /\ \A c \in Bhs : c # b => bh'[c] = bh[c]
         /\ bh'[b].deleted /\ bh'[b].idle = bh[b].idle
<1>1. bh \in [Bhs -> QEMUBH] /\ b \in Bhs /\ bh[b] \in QEMUBH
  BY InvFacts DEF Bhs
<1> DEFINE q == Deleted(bh[b])
<1>2. q \in QEMUBH /\ SameBut(q, bh[b]) /\ q.deleted /\ q.idle = bh[b].idle
  BY <1>1, DeletedFields
<1>3. bh' = [bh EXCEPT ![b] = q]
  OBVIOUS
<1> HIDE DEF q
<1>4. bh' \in [Bhs -> QEMUBH] /\ bh'[b] = q /\ \A c \in Bhs : c # b => bh'[c] = bh[c]
  BY <1>1, <1>2, <1>3
<1>5. \A c \in Bhs : SameBut(bh'[c], bh[c])
  BY <1>2, <1>4 DEF SameBut
<1>6. ListsRight'
  BY <1>5, LinksKept DEF BhInv, SameBut
<1>7. QED BY <1>2, <1>4, <1>5, <1>6

LEMMA DeleteKeeps ==
  ASSUME BhInv, NEW b \in Reqs, qemu_bh_delete(b)
  PROVE  BhInv'
<1>1. bh' = [bh EXCEPT ![b] = Deleted(@)] /\ ctx' = ctx /\ stk' = stk /\ ops' = ops /\ ~OnStack(b)
  BY DEF qemu_bh_delete
<1>2. /\ bh' \in [Bhs -> QEMUBH] /\ ListsRight'
      /\ \A c \in Bhs : SameBut(bh'[c], bh[c])
      /\ \A c \in Bhs : c # b => bh'[c] = bh[c]
      /\ bh'[b].deleted /\ bh'[b].idle = bh[b].idle
  BY <1>1, RequestDeleted
<1>3. Shape(stk') /\ Typed' /\ Flushed'
  BY <1>1, <1>2 DEF BhInv, Typed, Flushed
<1>4. Shape(stk) /\ DOMAIN stk = 1 .. Len(stk) /\ \A n \in 1 .. Len(stk) : stk[n] \in Frames
  BY InvFacts, ShapeFacts
<1>5. FramesRight'
  <2>1. ASSUME NEW n \in 1 .. Len(stk) PROVE FrameRight(stk[n])'
    <3>1. stk[n] \in Frames /\ FrameRight(stk[n])
      BY <1>4 DEF BhInv, FramesRight
    <3>2. stk[n].k = "submit" => stk[n].bh \in Bhs /\ stk[n].bh # b
      BY <3>1, <1>1, <1>4 DEF FrameRight, Bhs, OnStack
    <3>3. QED BY <3>1, <3>2, <1>1, <1>2, FrameKept DEF SameBut
  <2>2. QED BY <2>1, <1>1 DEF BhInv, FramesRight
<1>6. OwnersRight'
  <2>1. \A c \in Devs : c \in Bhs /\ c # b
    BY Constants DEF Bhs
  <2>2. \A c \in Reqs : c \in Bhs
    BY DEF Bhs
  <2>3. \A c : OnStack(c)' <=> OnStack(c)
    BY <1>1 DEF OnStack
  <2>4. \A c \in Devs : bh'[c].alive /\ ~bh'[c].deleted /\ ~bh'[c].early /\ bh'[c].home = 1
    BY <2>1, <1>2 DEF BhInv, OwnersRight
  <2>5. \A c \in Reqs : ~bh'[c].idle
    BY <2>2, <1>2 DEF BhInv, OwnersRight
  <2>6. \A c \in Reqs : bh'[c].alive => bh'[c].scheduled \/ bh'[c].deleted \/ OnStack(c)'
    BY <2>2, <2>3, <1>2 DEF BhInv, OwnersRight
  <2>7. QED BY <2>4, <2>5, <2>6 DEF OwnersRight
<1>7. QED BY <1>2, <1>3, <1>5, <1>6 DEF BhInv

\* What remains on the stack after a return.
LEMMA Returned ==
  ASSUME BhInv, Top.k # "main", stk' = Below
  PROVE  /\ Shape(stk') /\ Len(stk') = Len(stk) - 1 /\ Len(stk) >= 2 /\ Len(stk) \in Nat
         /\ \A n \in 1 .. Len(stk') : stk'[n] = stk[n] /\ n \in 1 .. Len(stk) /\ n # Len(stk)
         /\ \A n \in 1 .. Len(stk') : stk[n] \in Frames /\ FrameRight(stk[n])
         /\ Inner(stk') = stk[Len(stk) - 1] /\ StandsOn(Top, Inner(stk'))
         /\ \A n \in 1 .. Len(stk) : n \in 1 .. Len(stk') \/ n = Len(stk)
         /\ DOMAIN stk = 1 .. Len(stk) /\ DOMAIN stk' = 1 .. Len(stk')
<1>1. Shape(stk) /\ Top = Inner(stk) /\ Below = Outer(stk) /\ Len(stk) \in Nat
  BY InvFacts
<1>2. /\ Shape(Outer(stk)) /\ Len(Outer(stk)) = Len(stk) - 1 /\ Len(stk) >= 2
      /\ \A n \in 1 .. Len(stk) - 1 : Outer(stk)[n] = stk[n]
      /\ Inner(Outer(stk)) = stk[Len(stk) - 1]
      /\ StandsOn(Inner(stk), stk[Len(stk) - 1])
  BY <1>1, Pops
<1>3. \A n \in 1 .. Len(stk) - 1 : n \in 1 .. Len(stk) /\ n # Len(stk)
  BY <1>1
<1>4. \A n \in 1 .. Len(stk) : n \in 1 .. Len(stk) - 1 \/ n = Len(stk)
  BY <1>1
<1>5. DOMAIN stk = 1 .. Len(stk) /\ \A n \in 1 .. Len(stk) : stk[n] \in Frames
  BY <1>1, ShapeFacts
<1>6. DOMAIN stk' = 1 .. Len(stk')
  BY <1>1, <1>2, ShapeFacts
<1>7. \A n \in 1 .. Len(stk) : FrameRight(stk[n])
  BY DEF BhInv, FramesRight
<1>8. QED BY <1>1, <1>2, <1>3, <1>4, <1>5, <1>6, <1>7

\* No two submissions of a bottom half, in what is left of the stack.
LEMMA SubmitsLeft ==
  ASSUME BhInv, Top.k # "main", stk' = Below
  PROVE  \A m, n \in 1 .. Len(stk') :
           stk'[m].k = "submit" /\ stk'[n].k = "submit" /\ stk'[m].bh = stk'[n].bh => m = n
BY Returned DEF BhInv, FramesRight

LEMMA ReturnKeeps ==
  ASSUME BhInv, Return
  PROVE  BhInv'
<1>1. /\ Top.k \in {"cb", "aio"} /\ stk' = Below /\ ctx' = ctx /\ ops' = ops
      /\ bh' = IF Top.k = "cb" /\ Top.bh \in Reqs
               THEN [bh EXCEPT ![Top.bh] = Deleted(@)] ELSE bh
  BY DEF Return
<1>2. /\ Shape(stk') /\ Len(stk') = Len(stk) - 1 /\ Len(stk) >= 2 /\ Len(stk) \in Nat
      /\ \A n \in 1 .. Len(stk') : stk'[n] = stk[n] /\ n \in 1 .. Len(stk) /\ n # Len(stk)
      /\ \A n \in 1 .. Len(stk') : stk[n] \in Frames /\ FrameRight(stk[n])
      /\ Inner(stk') = stk[Len(stk) - 1] /\ StandsOn(Top, Inner(stk'))
      /\ \A n \in 1 .. Len(stk) : n \in 1 .. Len(stk') \/ n = Len(stk)
      /\ DOMAIN stk = 1 .. Len(stk) /\ DOMAIN stk' = 1 .. Len(stk')
  BY <1>1, Returned
<1>3. Inner(stk').lvl = Top.lvl /\ Inner(stk').k # "pop"
  BY <1>1, <1>2 DEF StandsOn
<1>4. Flushed'
  BY <1>3 DEF Flushed
<1>5. /\ bh \in [Bhs -> QEMUBH] /\ ops \in 0 .. MaxOps /\ Len(ctx) = Top.lvl
      /\ Top = stk[Len(stk)] /\ Len(stk) \in 1 .. Len(stk)
  BY InvFacts DEF Top
<1>6. CASE Top.k = "cb" /\ Top.bh \in Reqs
  <2> DEFINE b == Top.bh
  <2>1. b \in Reqs /\ bh' = [bh EXCEPT ![b] = Deleted(@)]
    BY <1>1, <1>6
  <2> HIDE DEF b
  <2>2. /\ bh' \in [Bhs -> QEMUBH] /\ ListsRight'
        /\ \A c \in Bhs : SameBut(bh'[c], bh[c])
        /\ \A c \in Bhs : c # b => bh'[c] = bh[c]
        /\ bh'[b].deleted /\ bh'[b].idle = bh[b].idle
    BY <2>1, <1>1, RequestDeleted
  <2>3. Typed'
    BY <2>2, <1>1, <1>3, <1>5 DEF Typed
  <2>4. bh[b].ran
    BY <1>5, <1>6 DEF BhInv, FramesRight, FrameRight, b
  <2>5. FramesRight'
    <3>1. ASSUME NEW n \in 1 .. Len(stk') PROVE FrameRight(stk[n])'
      <4>1. stk[n] \in Frames /\ FrameRight(stk[n]) /\ stk'[n] = stk[n]
        BY <1>2
      <4>2. stk[n].k = "submit" => stk[n].bh \in Bhs /\ stk[n].bh # b
        BY <4>1, <2>4 DEF FrameRight, Bhs
      <4>3. PICK f \in Frames : f = stk[n] /\ f = stk'[n]
        BY <4>1
      <4>4. FrameRight(f)'
        BY <4>1, <4>2, <4>3, <2>2, FrameKept DEF SameBut
      <4>5. QED BY <4>3, <4>4
    <3>2. QED BY <3>1, <1>1, SubmitsLeft DEF FramesRight
  <2>6. \A c \in Reqs : c # b /\ OnStack(c) => OnStack(c)'
    BY <1>2, <1>5 DEF OnStack, b
  <2>7. OwnersRight'
    <3>1. \A c \in Devs : c \in Bhs /\ c # b
      BY <2>1, Constants DEF Bhs
    <3>2. \A c \in Reqs : c \in Bhs
      BY DEF Bhs
    <3>3. \A c \in Devs : bh'[c].alive /\ ~bh'[c].deleted /\ ~bh'[c].early /\ bh'[c].home = 1
      BY <3>1, <2>2 DEF BhInv, OwnersRight
    <3>4. \A c \in Reqs : ~bh'[c].idle
      BY <3>2, <2>2 DEF BhInv, OwnersRight
    <3>5. \A c \in Reqs : bh'[c].alive => bh'[c].scheduled \/ bh'[c].deleted \/ OnStack(c)'
      BY <3>2, <2>2, <2>6 DEF BhInv, OwnersRight
    <3>6. QED BY <3>3, <3>4, <3>5 DEF OwnersRight
  <2>8. QED BY <1>2, <1>4, <2>2, <2>3, <2>5, <2>7 DEF BhInv
<1>7. CASE ~(Top.k = "cb" /\ Top.bh \in Reqs)
  <2>1. bh' = bh
    BY <1>1, <1>7
  <2>2. Typed' /\ ListsRight'
    BY <2>1, <1>1, <1>3, <1>5 DEF BhInv, Typed, ListsRight
  <2>3. FramesRight'
    <3>1. ASSUME NEW n \in 1 .. Len(stk') PROVE FrameRight(stk[n])'
      <4>1. stk[n] \in Frames /\ FrameRight(stk[n]) /\ stk'[n] = stk[n]
        BY <1>2
      <4>2. QED BY <4>1, <2>1 DEF FrameRight
    <3>2. QED BY <3>1, <1>1, SubmitsLeft DEF FramesRight
  <2>4. ASSUME NEW c \in Reqs, OnStack(c) PROVE OnStack(c)'
    <3>1. PICK n \in 1 .. Len(stk) : stk[n].k \in {"cb", "submit"} /\ stk[n].bh = c
      BY <2>4, <1>2 DEF OnStack
    <3>2. n # Len(stk)
      BY <3>1, <1>1, <1>5, <1>7
    <3>3. n \in DOMAIN stk' /\ stk'[n] = stk[n]
      BY <3>2, <1>2
    <3>4. QED BY <3>1, <3>3 DEF OnStack
  <2>5. OwnersRight'
    BY <2>1, <2>4 DEF BhInv, OwnersRight
  <2>6. QED BY <1>2, <1>4, <2>2, <2>3, <2>5 DEF BhInv
<1>8. QED BY <1>6, <1>7

-----------------------------------------------------------------------------
(***************************************************************************)
(* The lists: a bottom half is linked, a context is entered and left, the  *)
(* deleted bottom halves are swept.                                        *)
(***************************************************************************)
LEMMA LinkFacts ==
  ASSUME NEW c, NEW h, Links(c, h)
  PROVE  /\ Len(c) \in Nat /\ DOMAIN c = 1 .. Len(c)
         /\ \A n \in 1 .. Len(c) : c[n] \in Seq(Bhs) /\ Elements(c[n]) \subseteq Bhs
<1>1. c \in Seq(Seq(Bhs))
  BY DEF Links
<1>2. Len(c) \in Nat /\ DOMAIN c = 1 .. Len(c) /\ \A n \in 1 .. Len(c) : c[n] \in Seq(Bhs)
  BY <1>1, ListType
<1>3. QED BY <1>2, ListType

\* The list at place n of c becomes t.
LEMMA Relisted ==
  ASSUME NEW c \in Seq(Seq(Bhs)), NEW n \in 1 .. Len(c), NEW t \in Seq(Bhs)
  PROVE  LET d == [c EXCEPT ![n] = t]
         IN  /\ d \in Seq(Seq(Bhs)) /\ Len(d) = Len(c) /\ d[n] = t
             /\ \A m \in 1 .. Len(c) : m # n => d[m] = c[m]
<1> DEFINE d == [c EXCEPT ![n] = t]
<1>1. Len(c) \in Nat /\ DOMAIN c = 1 .. Len(c)
  BY ListType
<1>2. d \in Seq(Seq(Bhs)) /\ Len(d) = Len(c)
  BY <1>1, ExceptSeq
<1>3. d[n] = t /\ \A m \in 1 .. Len(c) : m # n => d[m] = c[m]
  BY <1>1
<1>4. QED BY <1>2, <1>3

LEMMA LinkNew ==
  ASSUME NEW c, NEW h \in [Bhs -> QEMUBH], Links(c, h), Len(c) >= 1,
         NEW b \in Bhs, ~h[b].alive,
         NEW q \in QEMUBH, q.alive, q.home = Len(c)
  PROVE  /\ Links(Linked(c, b), [h EXCEPT ![b] = q])
         /\ Len(Linked(c, b)) = Len(c)
<1> DEFINE l == Len(c)
           s == c[l]
           t == <<b>> \o s
           d == Linked(c, b)
           g == [h EXCEPT ![b] = q]
<1>1. /\ c \in Seq(Seq(Bhs)) /\ l \in Nat /\ l >= 1 /\ l \in 1 .. l
      /\ \A n \in 1 .. l : c[n] \in Seq(Bhs) /\ Elements(c[n]) \subseteq Bhs
  <2>1. c \in Seq(Seq(Bhs))
    BY DEF Links
  <2>2. l \in Nat /\ \A n \in 1 .. l : c[n] \in Seq(Bhs) /\ Elements(c[n]) \subseteq Bhs
    BY LinkFacts
  <2>3. QED BY <2>1, <2>2
<1>2. s \in Seq(Bhs) /\ NoRepeat(s) /\ b \notin Elements(s)
  BY <1>1 DEF Links
<1>3. t \in Seq(Bhs) /\ NoRepeat(t) /\ Elements(t) = Elements(s) \cup {b}
  BY <1>2, Prepended
<1>4. d = [c EXCEPT ![l] = t]
  BY DEF Linked
<1> HIDE DEF t
<1>5. /\ d \in Seq(Seq(Bhs)) /\ Len(d) = l /\ d[l] = t
      /\ \A n \in 1 .. l : n # l => d[n] = c[n]
  <2> HIDE DEF d
  <2>1. QED BY <1>1, <1>3, <1>4, Relisted
<1>6. g[b] = q /\ \A a \in Bhs : a # b => g[a] = h[a]
  OBVIOUS
<1> HIDE DEF d, g
<1>7. \A n \in 1 .. l : NoRepeat(c[n]) /\ b \notin Elements(c[n])
  BY DEF Links
<1>8. ASSUME NEW n \in 1 .. l, NEW a \in Elements(d[n]) PROVE g[a].alive /\ g[a].home = n
  <2>1. CASE n = l
    <3>1. CASE a = b
      BY <2>1, <3>1, <1>6
    <3>2. CASE a # b
      <4>1. a \in Elements(c[l]) /\ a \in Bhs
        BY <2>1, <3>2, <1>1, <1>3, <1>5, <1>8
      <4>2. QED BY <4>1, <2>1, <3>2, <1>1, <1>6 DEF Links
    <3>3. QED BY <3>1, <3>2
  <2>2. CASE n # l
    <3>1. a \in Elements(c[n]) /\ a \in Bhs /\ a # b
      BY <2>2, <1>1, <1>5, <1>7, <1>8
    <3>2. QED BY <3>1, <1>6 DEF Links
  <2>3. QED BY <2>1, <2>2
<1>9. ASSUME NEW a \in Bhs, g[a].alive PROVE g[a].home \in 1 .. l /\ a \in Elements(d[g[a].home])
  <2>1. CASE a = b
    BY <2>1, <1>1, <1>3, <1>5, <1>6
  <2>2. CASE a # b
    <3>1. h[a].alive /\ g[a].home = h[a].home
      BY <2>2, <1>6, <1>9
    <3>2. h[a].home \in 1 .. l /\ a \in Elements(c[h[a].home])
      BY <3>1 DEF Links
    <3>3. \A n \in 1 .. l : Elements(c[n]) \subseteq Elements(d[n])
      BY <1>3, <1>5
    <3>4. QED BY <3>1, <3>2, <3>3
  <2>3. QED BY <2>1, <2>2
<1>10. \A n \in 1 .. l : NoRepeat(d[n])
  BY <1>3, <1>5, <1>7
<1>11. QED BY <1>5, <1>8, <1>9, <1>10 DEF Links, d, g

LEMMA LinksPushed ==
  ASSUME NEW c, NEW h, Links(c, h)
  PROVE  Links(Append(c, <<>>), h) /\ Len(Append(c, <<>>)) = Len(c) + 1
<1> DEFINE l == Len(c)
           d == Append(c, <<>>)
<1>1. c \in Seq(Seq(Bhs)) /\ l \in Nat /\ <<>> \in Seq(Bhs)
  BY LinkFacts DEF Links
<1>2. d \in Seq(Seq(Bhs)) /\ Len(d) = l + 1 /\ (\A n \in 1 .. l : d[n] = c[n]) /\ d[l + 1] = <<>>
  BY <1>1, Extended
<1> HIDE DEF d
<1>3. NoRepeat(<<>>) /\ Elements(<<>>) = {}
  BY DEF NoRepeat, Elements
<1>4. \A n \in 1 .. l + 1 : n \in 1 .. l \/ n = l + 1
  BY <1>1
<1>5. \A n \in 1 .. l : n \in 1 .. l + 1
  BY <1>1
<1>6. \A n \in 1 .. l + 1 : NoRepeat(d[n])
  BY <1>2, <1>3, <1>4 DEF Links
<1>7. \A n \in 1 .. l + 1 : \A b \in Elements(d[n]) : h[b].alive /\ h[b].home = n
  BY <1>2, <1>3, <1>4 DEF Links
<1>8. \A b \in Bhs : h[b].alive => h[b].home \in 1 .. l + 1 /\ b \in Elements(d[h[b].home])
  BY <1>2, <1>5 DEF Links
<1>9. QED BY <1>2, <1>6, <1>7, <1>8 DEF Links, d

LEMMA LinksPopped ==
  ASSUME NEW c, NEW h, Links(c, h), Len(c) >= 2, c[Len(c)] = <<>>
  PROVE  /\ Links(SubSeq(c, 1, Len(c) - 1), h)
         /\ Len(SubSeq(c, 1, Len(c) - 1)) = Len(c) - 1
<1> DEFINE l == Len(c)
           d == SubSeq(c, 1, l - 1)
<1>1. c \in Seq(Seq(Bhs)) /\ l \in Nat /\ l >= 2 /\ c # <<>>
  BY LinkFacts, ListType DEF Links
<1>2. d \in Seq(Seq(Bhs)) /\ Len(d) = l - 1 /\ \A n \in 1 .. l - 1 : d[n] = c[n]
  BY <1>1, Fronts
<1>3. Elements(c[l]) = {}
  BY DEF Elements
<1> HIDE DEF d
<1>4. \A n \in 1 .. l : n \in 1 .. l - 1 \/ n = l
  BY <1>1
<1>5. \A n \in 1 .. l - 1 : n \in 1 .. l
  BY <1>1
<1>6. \A b \in Bhs : h[b].alive => h[b].home \in 1 .. l /\ b \in Elements(c[h[b].home])
  BY DEF Links
<1>7. \A b \in Bhs : h[b].alive => h[b].home \in 1 .. l - 1 /\ b \in Elements(d[h[b].home])
  BY <1>2, <1>3, <1>4, <1>6
<1>8. /\ \A n \in 1 .. l - 1 : NoRepeat(d[n])
      /\ \A n \in 1 .. l - 1 : \A b \in Elements(d[n]) : h[b].alive /\ h[b].home = n
  BY <1>2, <1>5 DEF Links
<1>9. QED BY <1>2, <1>7, <1>8 DEF Links, d

-----------------------------------------------------------------------------
(***************************************************************************)
(* Calls, submissions and contexts.                                        *)
(***************************************************************************)
LEMMA Called ==
  ASSUME BhInv, NEW f \in Frames, StandsOn(f, Top), stk' = Append(stk, f)
  PROVE  /\ Shape(stk') /\ Inner(stk') = f /\ Len(stk') = Len(stk) + 1 /\ Len(stk) \in Nat
         /\ \A n \in 1 .. Len(stk) : stk'[n] = stk[n] /\ n \in 1 .. Len(stk')
         /\ stk'[Len(stk')] = f /\ Len(stk') \in 1 .. Len(stk')
         /\ \A n \in 1 .. Len(stk') : n \in 1 .. Len(stk) \/ n = Len(stk')
         /\ \A n \in 1 .. Len(stk) : stk[n] \in Frames /\ FrameRight(stk[n])
         /\ DOMAIN stk = 1 .. Len(stk) /\ DOMAIN stk' = 1 .. Len(stk')
         /\ \A c : OnStack(c) => OnStack(c)'
<1>1. Shape(stk) /\ Top = Inner(stk) /\ Len(stk) \in Nat /\ DOMAIN stk = 1 .. Len(stk)
  BY InvFacts
<1>2. /\ Shape(stk') /\ Inner(stk') = f /\ Len(stk') = Len(stk) + 1
      /\ \A n \in 1 .. Len(stk) : stk'[n] = stk[n]
      /\ stk'[Len(stk) + 1] = f
  BY <1>1, Pushes
<1>3. DOMAIN stk' = 1 .. Len(stk')
  BY <1>2, ShapeFacts
<1>4. /\ \A n \in 1 .. Len(stk) : n \in 1 .. Len(stk) + 1
      /\ \A n \in 1 .. Len(stk) + 1 : n \in 1 .. Len(stk) \/ n = Len(stk) + 1
      /\ Len(stk) + 1 \in 1 .. Len(stk) + 1
  BY <1>1
<1>5. \A n \in 1 .. Len(stk) : stk[n] \in Frames /\ FrameRight(stk[n])
  BY <1>1, ShapeFacts DEF BhInv, FramesRight
<1>6. \A c : OnStack(c) => OnStack(c)'
  BY <1>1, <1>2, <1>3, <1>4 DEF OnStack
<1>7. QED BY <1>1, <1>2, <1>3, <1>4, <1>5, <1>6

\* A call that changes nothing but the stack.
LEMMA PlainCall ==
  ASSUME BhInv, NEW f \in Frames, f.k \in {"aio", "poll"}, f.bh = NoBh, StandsOn(f, Top),
         stk' = Append(stk, f), bh' = bh, ctx' = ctx, ops' = ops
  PROVE  BhInv'
<1>1. /\ Shape(stk') /\ Inner(stk') = f /\ Len(stk') = Len(stk) + 1 /\ Len(stk) \in Nat
      /\ \A n \in 1 .. Len(stk) : stk'[n] = stk[n] /\ n \in 1 .. Len(stk')
      /\ stk'[Len(stk')] = f
      /\ \A n \in 1 .. Len(stk') : n \in 1 .. Len(stk) \/ n = Len(stk')
      /\ \A n \in 1 .. Len(stk) : stk[n] \in Frames /\ FrameRight(stk[n])
      /\ \A c : OnStack(c) => OnStack(c)'
  BY Called
<1>2. f.lvl = Top.lvl
  BY DEF StandsOn
<1>3. Typed' /\ ListsRight' /\ Flushed'
  BY <1>1, <1>2, InvFacts DEF BhInv, Typed, ListsRight, Flushed
<1>4. ASSUME NEW n \in 1 .. Len(stk') PROVE FrameRight(stk[n])'
  <2>1. CASE n \in 1 .. Len(stk)
    BY <2>1, <1>1 DEF FrameRight
  <2>2. CASE n = Len(stk')
    BY <2>2, <1>1 DEF FrameRight
  <2>3. QED BY <2>1, <2>2, <1>1
<1>5. \A m, n \in 1 .. Len(stk') :
        stk'[m].k = "submit" /\ stk'[n].k = "submit" /\ stk'[m].bh = stk'[n].bh => m = n
  BY <1>1 DEF BhInv, FramesRight
<1>6. FramesRight'
  BY <1>4, <1>5 DEF FramesRight
<1>7. OwnersRight'
  BY <1>1 DEF BhInv, OwnersRight
<1>8. QED BY <1>1, <1>3, <1>6, <1>7 DEF BhInv

LEMMA FrameType ==
  ASSUME BhInv, NEW k \in Kinds, NEW b \in Bhs \cup {NoBh}, NEW r \in BOOLEAN
  PROVE  /\ Frame(k, b, r) \in Frames
         /\ Frame(k, b, r).k = k /\ Frame(k, b, r).bh = b /\ Frame(k, b, r).ret = r
         /\ Frame(k, b, r).lvl = Top.lvl
<1>1. Len(ctx) \in 1 .. MaxDepth + 1 /\ Len(ctx) = Top.lvl
  BY InvFacts
<1>2. QED BY <1>1 DEF Frame, Frames

LEMMA CallsKeep ==
  ASSUME BhInv, AioCallback \/ qemu_bh_poll
  PROVE  BhInv'
<1>1. CASE AioCallback
  <2> DEFINE f == Frame("aio", NoBh, FALSE)
  <2>1. f \in Frames /\ f.k = "aio" /\ f.bh = NoBh /\ f.lvl = Top.lvl
    <3>1. "aio" \in Kinds /\ NoBh \in Bhs \cup {NoBh} /\ FALSE \in BOOLEAN
      BY DEF Kinds
    <3>2. QED BY <3>1, FrameType
  <2>2. /\ Top.k \in {"sync", "main"} /\ stk' = Append(stk, f)
        /\ bh' = bh /\ ctx' = ctx /\ ops' = ops
    BY <1>1 DEF AioCallback, Call
  <2> HIDE DEF f
  <2>3. StandsOn(f, Top)
    BY <2>1, <2>2 DEF StandsOn
  <2>4. QED BY <2>1, <2>2, <2>3, PlainCall
<1>2. CASE qemu_bh_poll
  <2> DEFINE f == Frame("poll", NoBh, FALSE)
  <2>1. f \in Frames /\ f.k = "poll" /\ f.bh = NoBh /\ f.lvl = Top.lvl
    <3>1. "poll" \in Kinds /\ NoBh \in Bhs \cup {NoBh} /\ FALSE \in BOOLEAN
      BY DEF Kinds
    <3>2. QED BY <3>1, FrameType
  <2>2. /\ stk' = Append(stk, f)
        /\ bh' = bh /\ ctx' = ctx /\ ops' = ops
    BY <1>2 DEF qemu_bh_poll, Call
  <2>3. Top.k \in {"main", "sync"} \/ (Top.k = "pop" /\ Top.ret)
    BY <1>2 DEF qemu_bh_poll
  <2> HIDE DEF f
  <2>4. StandsOn(f, Top)
    BY <2>1, <2>3 DEF StandsOn, Bases
  <2>5. QED BY <2>1, <2>2, <2>4, PlainCall
<1>3. QED BY <1>1, <1>2

LEMMA SubmittedKeeps ==
  ASSUME BhInv, Submitted
  PROVE  BhInv'
<1> DEFINE b == Top.bh
           q == Scheduled(bh[b], FALSE)
<1>1. /\ Top.k = "submit" /\ stk' = Below /\ ctx' = ctx /\ ops' = ops
      /\ bh' = [bh EXCEPT ![b] = q]
  BY DEF Submitted
<1>2. /\ Shape(stk') /\ Len(stk') = Len(stk) - 1 /\ Len(stk) >= 2 /\ Len(stk) \in Nat
      /\ \A n \in 1 .. Len(stk') : stk'[n] = stk[n] /\ n \in 1 .. Len(stk) /\ n # Len(stk)
      /\ \A n \in 1 .. Len(stk') : stk[n] \in Frames /\ FrameRight(stk[n])
      /\ Inner(stk') = stk[Len(stk) - 1] /\ StandsOn(Top, Inner(stk'))
      /\ \A n \in 1 .. Len(stk) : n \in 1 .. Len(stk') \/ n = Len(stk)
      /\ DOMAIN stk = 1 .. Len(stk) /\ DOMAIN stk' = 1 .. Len(stk')
  BY <1>1, Returned
<1>3. /\ bh \in [Bhs -> QEMUBH] /\ ops \in 0 .. MaxOps /\ Len(ctx) = Top.lvl
      /\ Top = stk[Len(stk)] /\ Len(stk) \in 1 .. Len(stk)
  BY InvFacts DEF Top
<1>4. b \in Reqs /\ b \in Bhs
  BY <1>1, <1>3 DEF BhInv, FramesRight, FrameRight, Bhs
<1>5. Inner(stk').lvl = Top.lvl /\ Inner(stk').k # "pop"
  BY <1>1, <1>2 DEF StandsOn
<1>6. /\ q \in QEMUBH /\ SameBut(q, bh[b]) /\ q.scheduled /\ q.deleted = bh[b].deleted
      /\ ~bh[b].idle => ~q.idle
  BY <1>3, <1>4, ScheduledFields
<1> HIDE DEF b, q
<1>7. bh' \in [Bhs -> QEMUBH] /\ bh'[b] = q /\ \A c \in Bhs : c # b => bh'[c] = bh[c]
  BY <1>1, <1>3, <1>4, <1>6
<1>8. \A c \in Bhs : SameBut(bh'[c], bh[c])
  BY <1>6, <1>7 DEF SameBut
<1>9. Typed' /\ Flushed'
  BY <1>1, <1>3, <1>5, <1>7 DEF Typed, Flushed
<1>10. ListsRight'
  BY <1>1, <1>8, LinksKept DEF BhInv, SameBut
<1>11. FramesRight'
  <2>1. ASSUME NEW n \in 1 .. Len(stk') PROVE FrameRight(stk[n])'
    <3>1. stk[n] \in Frames /\ FrameRight(stk[n]) /\ stk'[n] = stk[n] /\ n \in 1 .. Len(stk) /\ n # Len(stk)
      BY <1>2
    <3>2. stk[n].k = "submit" => stk[n].bh \in Bhs /\ stk[n].bh # b
      BY <3>1, <1>1, <1>3 DEF BhInv, FramesRight, FrameRight, Bhs, b
    <3>3. PICK f \in Frames : f = stk[n] /\ f = stk'[n]
      BY <3>1
    <3>4. FrameRight(f)'
      BY <3>1, <3>2, <3>3, <1>7, <1>8, FrameKept DEF SameBut
    <3>5. QED BY <3>3, <3>4
  <2>2. QED BY <2>1, <1>1, SubmitsLeft DEF FramesRight
<1>12. \A c \in Reqs : c # b /\ OnStack(c) => OnStack(c)'
  BY <1>2, <1>3 DEF OnStack, b
<1>13. OwnersRight'
  <2>1. \A c \in Devs : c \in Bhs /\ c # b
    BY <1>4, Constants DEF Bhs
  <2>2. \A c \in Reqs : c \in Bhs
    BY DEF Bhs
  <2>3. \A c \in Devs : bh'[c].alive /\ ~bh'[c].deleted /\ ~bh'[c].early /\ bh'[c].home = 1
    BY <2>1, <1>7 DEF BhInv, OwnersRight
  <2>4. \A c \in Reqs : ~bh'[c].idle
    BY <2>2, <1>4, <1>6, <1>7 DEF BhInv, OwnersRight
  <2>5. \A c \in Reqs : bh'[c].alive => bh'[c].scheduled \/ bh'[c].deleted \/ OnStack(c)'
    BY <2>2, <1>6, <1>7, <1>12 DEF BhInv, OwnersRight
  <2>6. QED BY <2>3, <2>4, <2>5 DEF OwnersRight
<1>14. QED BY <1>2, <1>9, <1>10, <1>11, <1>13 DEF BhInv

\* No frame holds a bottom half that is not allocated.
LEMMA NotHeld ==
  ASSUME BhInv, NEW b \in Bhs, ~bh[b].alive
  PROVE  \A n \in 1 .. Len(stk) : stk[n].k \in {"poll", "cb", "submit"} => stk[n].bh # b
<1>1. b # NoBh
  BY Constants
<1>2. \A n \in 1 .. Len(stk) : FrameRight(stk[n])
  BY DEF BhInv, FramesRight
<1>3. QED BY <1>1, <1>2 DEF FrameRight

\* A bottom half that no frame holds is made anew.
LEMMA FrameUntouched ==
  ASSUME NEW f \in Frames, FrameRight(f), NEW b \in Bhs,
         f.k \in {"poll", "cb", "submit"} => f.bh # b,
         \A c \in Bhs : c # b => bh'[c] = bh[c]
  PROVE  FrameRight(f)'
<1>1. f.k \in {"poll", "cb", "submit"} => f.bh = NoBh \/ bh'[f.bh] = bh[f.bh]
  BY DEF Frames
<1>2. f.k \in {"cb", "submit"} => bh'[f.bh] = bh[f.bh]
  BY DEF Frames, FrameRight, Bhs
<1>3. QED BY <1>1, <1>2 DEF FrameRight

LEMMA NewKeeps ==
  ASSUME BhInv, NEW b \in Reqs, NEW e \in BOOLEAN, qemu_bh_new(b, e)
  PROVE  BhInv'
<1> DEFINE q == Fresh(e, Len(ctx))
           f == Frame("submit", b, FALSE)
<1>1. /\ InCode /\ ops < MaxOps /\ ~bh[b].alive
      /\ bh' = [bh EXCEPT ![b] = q] /\ ctx' = Linked(ctx, b) /\ ops' = ops + 1
      /\ stk' = Append(stk, f)
  BY DEF qemu_bh_new, Call
<1>2. /\ bh \in [Bhs -> QEMUBH] /\ ops \in 0 .. MaxOps /\ Len(ctx) = Top.lvl
      /\ Len(ctx) \in 1 .. MaxDepth + 1 /\ b \in Bhs
  BY InvFacts DEF Bhs
<1>3. /\ q \in QEMUBH /\ q.alive /\ q.home = Len(ctx) /\ ~q.scheduled /\ ~q.idle /\ ~q.deleted
      /\ ~q.ran
  <2>1. Len(ctx) \in 0 .. MaxDepth + 1
    BY <1>2, Constants
  <2>2. QED BY <2>1, FreshFields
<1>4. f \in Frames /\ f.k = "submit" /\ f.bh = b /\ f.lvl = Top.lvl
  <2>1. "submit" \in Kinds /\ b \in Bhs \cup {NoBh} /\ FALSE \in BOOLEAN
    BY <1>2 DEF Kinds
  <2>2. QED BY <2>1, FrameType
<1> HIDE DEF q, f
<1>5. StandsOn(f, Top)
  BY <1>1, <1>4 DEF InCode, StandsOn
<1>6. /\ Shape(stk') /\ Inner(stk') = f /\ Len(stk') = Len(stk) + 1 /\ Len(stk) \in Nat
      /\ \A n \in 1 .. Len(stk) : stk'[n] = stk[n] /\ n \in 1 .. Len(stk')
      /\ stk'[Len(stk')] = f /\ Len(stk') \in 1 .. Len(stk')
      /\ \A n \in 1 .. Len(stk') : n \in 1 .. Len(stk) \/ n = Len(stk')
      /\ \A n \in 1 .. Len(stk) : stk[n] \in Frames /\ FrameRight(stk[n])
      /\ DOMAIN stk' = 1 .. Len(stk')
      /\ \A c : OnStack(c) => OnStack(c)'
  BY <1>1, <1>4, <1>5, Called
<1>7. bh' \in [Bhs -> QEMUBH] /\ bh'[b] = q /\ \A c \in Bhs : c # b => bh'[c] = bh[c]
  BY <1>1, <1>2, <1>3
<1>8. ListsRight' /\ Len(ctx') = Len(ctx)
  <2>1. Links(ctx, bh) /\ Len(ctx) >= 1
    BY <1>2 DEF BhInv, ListsRight
  <2>2. Links(Linked(ctx, b), [bh EXCEPT ![b] = q]) /\ Len(Linked(ctx, b)) = Len(ctx)
    BY <2>1, <1>1, <1>2, <1>3, LinkNew
  <2>3. QED BY <2>2, <1>1 DEF ListsRight
<1>9. Typed' /\ Flushed'
  <2>1. ops' \in 0 .. MaxOps
    BY <1>1, <1>2, Constants
  <2>2. QED BY <2>1, <1>2, <1>4, <1>6, <1>7, <1>8 DEF Typed, Flushed
<1>10. \A n \in 1 .. Len(stk) : stk[n].k \in {"poll", "cb", "submit"} => stk[n].bh # b
  BY <1>1, <1>2, NotHeld
<1>11. ASSUME NEW n \in 1 .. Len(stk') PROVE FrameRight(stk[n])'
  <2>1. CASE n \in 1 .. Len(stk)
    <3>1. PICK g \in Frames : g = stk[n] /\ g = stk'[n]
      BY <2>1, <1>6
    <3>2. FrameRight(g)'
      BY <2>1, <3>1, <1>2, <1>6, <1>7, <1>10, FrameUntouched
    <3>3. QED BY <3>1, <3>2
  <2>2. CASE n = Len(stk')
    <3>1. stk'[n] = f
      BY <2>2, <1>6
    <3>2. QED BY <3>1, <1>2, <1>3, <1>4, <1>7 DEF FrameRight
  <2>3. QED BY <2>1, <2>2, <1>6
<1>12. \A m, n \in 1 .. Len(stk') :
        stk'[m].k = "submit" /\ stk'[n].k = "submit" /\ stk'[m].bh = stk'[n].bh => m = n
  <2> SUFFICES ASSUME NEW m \in 1 .. Len(stk'), NEW n \in 1 .. Len(stk'),
                      stk'[m].k = "submit", stk'[n].k = "submit", stk'[m].bh = stk'[n].bh
               PROVE  m = n
    OBVIOUS
  <2>1. CASE m \in 1 .. Len(stk) /\ n \in 1 .. Len(stk)
    BY <2>1, <1>6 DEF BhInv, FramesRight
  <2>2. CASE m = Len(stk') /\ n \in 1 .. Len(stk)
    BY <2>2, <1>4, <1>6, <1>10
  <2>3. CASE n = Len(stk') /\ m \in 1 .. Len(stk)
    BY <2>3, <1>4, <1>6, <1>10
  <2>4. QED BY <2>1, <2>2, <2>3, <1>6
<1>13. FramesRight'
  BY <1>11, <1>12 DEF FramesRight
<1>14. OnStack(b)'
  BY <1>4, <1>6 DEF OnStack
<1>15. OwnersRight'
  <2>1. \A c \in Devs : c \in Bhs /\ c # b
    BY Constants DEF Bhs
  <2>2. \A c \in Reqs : c \in Bhs
    BY DEF Bhs
  <2>3. \A c \in Devs : bh'[c].alive /\ ~bh'[c].deleted /\ ~bh'[c].early /\ bh'[c].home = 1
    BY <2>1, <1>7 DEF BhInv, OwnersRight
  <2>4. \A c \in Reqs : ~bh'[c].idle
    BY <2>2, <1>3, <1>7 DEF BhInv, OwnersRight
  <2>5. \A c \in Reqs : bh'[c].alive => bh'[c].scheduled \/ bh'[c].deleted \/ OnStack(c)'
    BY <2>2, <1>6, <1>7, <1>14 DEF BhInv, OwnersRight
  <2>6. QED BY <2>3, <2>4, <2>5 DEF OwnersRight
<1>16. QED BY <1>6, <1>8, <1>9, <1>13, <1>15 DEF BhInv

LEMMA PushKeeps ==
  ASSUME BhInv, async_context_push
  PROVE  BhInv'
<1> DEFINE f == [Frame("sync", NoBh, FALSE) EXCEPT !.lvl = Len(ctx) + 1]
<1>1. /\ InCode \/ Top.k = "submit"
      /\ ops < MaxOps /\ Len(ctx) <= MaxDepth
      /\ ctx' = Append(ctx, <<>>) /\ ops' = ops + 1 /\ stk' = Append(stk, f) /\ bh' = bh
  BY DEF async_context_push
<1>2. /\ bh \in [Bhs -> QEMUBH] /\ ops \in 0 .. MaxOps /\ Len(ctx) = Top.lvl
      /\ Len(ctx) \in 1 .. MaxDepth + 1
  BY InvFacts
<1>3. f \in Frames /\ f.k = "sync" /\ f.bh = NoBh /\ f.lvl = Top.lvl + 1
  <2>1. Len(ctx) + 1 \in 1 .. MaxDepth + 1 /\ "sync" \in Kinds
    BY <1>1, <1>2, Constants DEF Kinds
  <2>2. QED BY <2>1, <1>2 DEF Frame, Frames
<1> HIDE DEF f
<1>4. StandsOn(f, Top)
  BY <1>1, <1>3 DEF StandsOn, InCode
<1>5. /\ Shape(stk') /\ Inner(stk') = f /\ Len(stk') = Len(stk) + 1 /\ Len(stk) \in Nat
      /\ \A n \in 1 .. Len(stk) : stk'[n] = stk[n] /\ n \in 1 .. Len(stk')
      /\ stk'[Len(stk')] = f /\ Len(stk') \in 1 .. Len(stk')
      /\ \A n \in 1 .. Len(stk') : n \in 1 .. Len(stk) \/ n = Len(stk')
      /\ \A n \in 1 .. Len(stk) : stk[n] \in Frames /\ FrameRight(stk[n])
      /\ \A c : OnStack(c) => OnStack(c)'
  BY <1>1, <1>3, <1>4, Called
<1>6. ListsRight' /\ Len(ctx') = Len(ctx) + 1
  <2>1. Links(ctx, bh)
    BY DEF BhInv, ListsRight
  <2>2. Links(Append(ctx, <<>>), bh) /\ Len(Append(ctx, <<>>)) = Len(ctx) + 1
    BY <2>1, LinksPushed
  <2>3. QED BY <2>2, <1>1 DEF ListsRight
<1>7. Typed' /\ Flushed'
  <2>1. ops' \in 0 .. MaxOps
    BY <1>1, <1>2, Constants
  <2>2. QED BY <2>1, <1>1, <1>2, <1>3, <1>5, <1>6 DEF Typed, Flushed
<1>8. ASSUME NEW n \in 1 .. Len(stk') PROVE FrameRight(stk[n])'
  <2>1. CASE n \in 1 .. Len(stk)
    BY <2>1, <1>1, <1>5 DEF FrameRight
  <2>2. CASE n = Len(stk')
    BY <2>2, <1>3, <1>5 DEF FrameRight
  <2>3. QED BY <2>1, <2>2, <1>5
<1>9. \A m, n \in 1 .. Len(stk') :
        stk'[m].k = "submit" /\ stk'[n].k = "submit" /\ stk'[m].bh = stk'[n].bh => m = n
  BY <1>3, <1>5 DEF BhInv, FramesRight
<1>10. FramesRight'
  BY <1>8, <1>9 DEF FramesRight
<1>11. OwnersRight'
  BY <1>1, <1>5 DEF BhInv, OwnersRight
<1>12. QED BY <1>5, <1>6, <1>7, <1>10, <1>11 DEF BhInv

\* The innermost frame of s changes to g.
LEMMA Changed ==
  ASSUME NEW s, Shape(s), NEW g \in Frames, Inner(s).k # "main", g.lvl = Inner(s).lvl,
         StandsOn(g, s[Len(s) - 1]), g.k \in Bases => Inner(s).k \in Bases
  PROVE  /\ Shape([s EXCEPT ![Len(s)] = g]) /\ Inner([s EXCEPT ![Len(s)] = g]) = g
         /\ Len([s EXCEPT ![Len(s)] = g]) = Len(s)
         /\ \A n \in 1 .. Len(s) : n # Len(s) => [s EXCEPT ![Len(s)] = g][n] = s[n]
         /\ [s EXCEPT ![Len(s)] = g][Len(s)] = g
<1> DEFINE l == Len(s)
           t == [s EXCEPT ![l] = g]
<1>1. s \in Seq(Frames) /\ l \in Nat /\ l >= 1 /\ DOMAIN s = 1 .. l /\ l \in 1 .. l
  BY ShapeFacts
<1>2. t \in Seq(Frames) /\ Len(t) = l
  BY <1>1, ExceptSeq
<1>3. t[l] = g /\ \A n \in 1 .. l : n # l => t[n] = s[n]
  BY <1>1
<1>4. \A n \in 1 .. l - 1 : n \in 1 .. l /\ n # l
  <2>1. \A m \in Nat : \A n \in 1 .. m - 1 : n \in 1 .. m /\ n # m
    OBVIOUS
  <2> HIDE DEF l
  <2>2. QED BY <1>1, <2>1
<1>5. \A n \in 1 .. l - 1 : t[n] = s[n]
  BY <1>3, <1>4
<1> HIDE DEF t
<1>6. Shape(t)
  BY <1>2, <1>3, <1>5, Swaps DEF Inner
<1>7. QED BY <1>2, <1>3, <1>6 DEF Inner, t

LEMMA PopBegins ==
  ASSUME BhInv, async_context_pop
  PROVE  BhInv'
<1> DEFINE l == Len(stk)
           g == [Top EXCEPT !.k = "pop", !.ret = TRUE]
<1>1. /\ Top.k = "sync" /\ ctx' = ctx /\ bh' = bh /\ ops' = ops
      /\ stk' = [stk EXCEPT ![l].k = "pop", ![l].ret = TRUE]
  BY DEF async_context_pop
<1>2. /\ Shape(stk) /\ Top = Inner(stk) /\ Top \in Frames /\ bh \in [Bhs -> QEMUBH]
      /\ ops \in 0 .. MaxOps /\ Len(ctx) = Top.lvl /\ l \in Nat /\ l >= 1 /\ DOMAIN stk = 1 .. l
      /\ Top = stk[l] /\ stk \in Seq(Frames) /\ l \in 1 .. l
      /\ \A n \in 1 .. l : stk[n] \in Frames
  BY InvFacts, ShapeFacts DEF Top
<1>3. /\ g \in Frames /\ g.k = "pop" /\ g.ret = TRUE /\ g.bh = Top.bh /\ g.lvl = Top.lvl
  BY <1>2 DEF Frames, Kinds
<1>4. stk' = [stk EXCEPT ![l] = g]
  BY <1>1, <1>2
<1> HIDE DEF g
<1>5. StandsOn(Top, stk[l - 1])
  BY <1>1, <1>2, Pops
<1>6. StandsOn(g, stk[l - 1])
  BY <1>1, <1>3, <1>5 DEF StandsOn
<1>7. /\ Shape(stk') /\ Inner(stk') = g /\ Len(stk') = l
      /\ \A n \in 1 .. l : n # l => stk'[n] = stk[n]
      /\ stk'[l] = g
  <2>1. Inner(stk).k # "main" /\ g.lvl = Inner(stk).lvl /\ Inner(stk).k \in Bases
    BY <1>1, <1>2, <1>3 DEF Bases
  <2>2. QED BY <2>1, <1>2, <1>3, <1>4, <1>6, Changed
<1>8. DOMAIN stk' = 1 .. l
  BY <1>7, ShapeFacts
<1>9. Typed' /\ ListsRight' /\ Flushed'
  BY <1>1, <1>2, <1>3, <1>7 DEF BhInv, Typed, ListsRight, Flushed
<1>10. ASSUME NEW n \in 1 .. l PROVE FrameRight(stk[n])'
  <2>1. CASE n = l
    BY <2>1, <1>3, <1>7 DEF FrameRight
  <2>2. CASE n # l
    BY <2>2, <1>1, <1>7 DEF BhInv, FramesRight, FrameRight
  <2>3. QED BY <2>1, <2>2
<1>11. \A m, n \in 1 .. l :
        stk'[m].k = "submit" /\ stk'[n].k = "submit" /\ stk'[m].bh = stk'[n].bh => m = n
  BY <1>3, <1>7 DEF BhInv, FramesRight
<1>12. FramesRight'
  BY <1>7, <1>10, <1>11 DEF FramesRight
<1>13. \A c : OnStack(c) => OnStack(c)'
  BY <1>1, <1>2, <1>7, <1>8 DEF OnStack
<1>14. OwnersRight'
  BY <1>1, <1>13 DEF BhInv, OwnersRight
<1>15. QED BY <1>7, <1>9, <1>12, <1>14 DEF BhInv

LEMMA PoppedKeeps ==
  ASSUME BhInv, Popped
  PROVE  BhInv'
<1> DEFINE l == Len(ctx)
           q == Scheduled(Fresh(TRUE, l - 1), FALSE)
           c == SubSeq(ctx, 1, l - 1)
<1>1. Top.k = "pop" /\ ~Top.ret /\ stk' = Below /\ ops' = ops
  BY DEF Popped
<1>2. PICK b \in Reqs : ~bh[b].alive /\ ctx' = Linked(c, b) /\ bh' = [bh EXCEPT ![b] = q]
  BY DEF Popped
<1>3. /\ bh \in [Bhs -> QEMUBH] /\ ops \in 0 .. MaxOps /\ l = Top.lvl /\ l \in 1 .. MaxDepth + 1
      /\ Top = stk[Len(stk)] /\ Len(stk) \in 1 .. Len(stk) /\ Top = Inner(stk) /\ Top \in Frames
      /\ b \in Bhs
  BY InvFacts DEF Top, Bhs
<1>4. /\ Shape(stk') /\ Len(stk') = Len(stk) - 1 /\ Len(stk) >= 2 /\ Len(stk) \in Nat
      /\ \A n \in 1 .. Len(stk') : stk'[n] = stk[n] /\ n \in 1 .. Len(stk) /\ n # Len(stk)
      /\ \A n \in 1 .. Len(stk') : stk[n] \in Frames /\ FrameRight(stk[n])
      /\ Inner(stk') = stk[Len(stk) - 1] /\ StandsOn(Top, Inner(stk'))
      /\ \A n \in 1 .. Len(stk) : n \in 1 .. Len(stk') \/ n = Len(stk)
      /\ DOMAIN stk = 1 .. Len(stk) /\ DOMAIN stk' = 1 .. Len(stk')
  BY <1>1, Returned
<1>5. Inner(stk').lvl + 1 = l /\ Inner(stk').k # "pop" /\ Inner(stk').lvl \in 1 .. MaxDepth + 1
  <2>1. Inner(stk') \in Frames
    BY <1>4, ShapeFacts
  <2>2. QED BY <2>1, <1>1, <1>3, <1>4 DEF StandsOn, Frames
<1>6. l >= 2 /\ l - 1 = Inner(stk').lvl /\ l - 1 \in 0 .. MaxDepth + 1
  BY <1>3, <1>5, Constants
<1>7. Links(c, bh) /\ Len(c) = l - 1
  <2>1. Links(ctx, bh) /\ ctx[l] = <<>>
    BY <1>1, <1>3 DEF BhInv, ListsRight, Flushed
  <2>2. QED BY <2>1, <1>6, LinksPopped
<1>8. /\ q \in QEMUBH /\ q.alive /\ q.home = l - 1 /\ q.scheduled /\ ~q.idle
  <2> DEFINE r == Fresh(TRUE, l - 1)
  <2>1. r \in QEMUBH /\ r.alive /\ r.home = l - 1 /\ ~r.idle
    BY <1>6, FreshFields
  <2> HIDE DEF r
  <2>2. Scheduled(r, FALSE) \in QEMUBH /\ SameBut(Scheduled(r, FALSE), r)
        /\ Scheduled(r, FALSE).scheduled /\ ~Scheduled(r, FALSE).idle
    BY <2>1, ScheduledFields
  <2>3. QED BY <2>1, <2>2 DEF SameBut, r
<1> HIDE DEF q, c
<1>9. ListsRight' /\ Len(ctx') = l - 1
  <2>1. Len(c) >= 1
    BY <1>3, <1>6, <1>7
  <2>2. Links(Linked(c, b), [bh EXCEPT ![b] = q]) /\ Len(Linked(c, b)) = Len(c)
    BY <2>1, <1>2, <1>3, <1>7, <1>8, LinkNew
  <2>3. QED BY <2>2, <1>2, <1>7 DEF ListsRight
<1>10. bh' \in [Bhs -> QEMUBH] /\ bh'[b] = q /\ \A a \in Bhs : a # b => bh'[a] = bh[a]
  BY <1>2, <1>3, <1>8
<1>11. Typed' /\ Flushed'
  BY <1>1, <1>3, <1>5, <1>6, <1>9, <1>10 DEF Typed, Flushed
<1>12. FramesRight'
  <2>1. \A n \in 1 .. Len(stk) : stk[n].k \in {"poll", "cb", "submit"} => stk[n].bh # b
    BY <1>2, <1>3, NotHeld
  <2>2. ASSUME NEW n \in 1 .. Len(stk') PROVE FrameRight(stk[n])'
    <3>1. PICK f \in Frames : f = stk[n] /\ f = stk'[n]
      BY <1>4
    <3>2. FrameRight(f)'
      BY <2>1, <3>1, <1>3, <1>4, <1>10, FrameUntouched
    <3>3. QED BY <3>1, <3>2
  <2>3. QED BY <2>2, <1>1, SubmitsLeft DEF FramesRight
<1>13. \A a : OnStack(a) => OnStack(a)'
  BY <1>1, <1>3, <1>4 DEF OnStack
<1>14. OwnersRight'
  <2>1. \A a \in Devs : a \in Bhs /\ a # b
    BY Constants DEF Bhs
  <2>2. \A a \in Reqs : a \in Bhs
    BY DEF Bhs
  <2>3. \A a \in Devs : bh'[a].alive /\ ~bh'[a].deleted /\ ~bh'[a].early /\ bh'[a].home = 1
    BY <2>1, <1>10 DEF BhInv, OwnersRight
  <2>4. \A a \in Reqs : ~bh'[a].idle
    BY <2>2, <1>8, <1>10 DEF BhInv, OwnersRight
  <2>5. \A a \in Reqs : bh'[a].alive => bh'[a].scheduled \/ bh'[a].deleted \/ OnStack(a)'
    BY <2>2, <1>8, <1>10, <1>13 DEF BhInv, OwnersRight
  <2>6. QED BY <2>3, <2>4, <2>5 DEF OwnersRight
<1>15. QED BY <1>4, <1>9, <1>11, <1>12, <1>14 DEF BhInv

-----------------------------------------------------------------------------
(***************************************************************************)
(* The walk of qemu_bh_poll.                                               *)
(***************************************************************************)
LEMMA RunFields ==
  ASSUME NEW r \in QEMUBH
  PROVE  LET run == [r EXCEPT !.scheduled = FALSE, !.idle = FALSE, !.ran = TRUE]
             q == IF run.early THEN Deleted(run) ELSE run
         IN  /\ q \in QEMUBH /\ q.alive = r.alive /\ q.home = r.home /\ q.early = r.early
             /\ q.ran /\ ~q.idle /\ ~q.scheduled
             /\ ~r.early => q.deleted = r.deleted
<1> DEFINE run == [r EXCEPT !.scheduled = FALSE, !.idle = FALSE, !.ran = TRUE]
<1>1. /\ run \in QEMUBH /\ run.alive = r.alive /\ run.home = r.home /\ run.early = r.early
      /\ run.ran /\ ~run.idle /\ ~run.scheduled /\ run.deleted = r.deleted
  BY DEF QEMUBH
<1> HIDE DEF run
<1>2. CASE run.early
  BY <1>1, <1>2, DeletedFields DEF SameBut, run
<1>3. CASE ~run.early
  BY <1>1, <1>3 DEF run
<1>4. QED BY <1>2, <1>3

\* The objects of the current list.
LEMMA CurrentFacts ==
  ASSUME BhInv
  PROVE  /\ Current \in Seq(Bhs) /\ NoRepeat(Current) /\ Elements(Current) \subseteq Bhs
         /\ \A b \in Elements(Current) : bh[b].alive /\ bh[b].home = Len(ctx)
<1>1. Len(ctx) \in 1 .. MaxDepth + 1 /\ Links(ctx, bh)
  BY InvFacts DEF BhInv, ListsRight
<1>2. Len(ctx) \in 1 .. Len(ctx)
  BY <1>1, Constants
<1>3. ctx[Len(ctx)] \in Seq(Bhs) /\ Elements(ctx[Len(ctx)]) \subseteq Bhs
  BY <1>1, <1>2, LinkFacts
<1>4. QED BY <1>1, <1>2, <1>3 DEF Links, Current

LEMMA PollCallKeeps ==
  ASSUME BhInv, PollCall
  PROVE  BhInv'
<1> DEFINE l == Len(stk)
<1>1. Top.k = "poll" /\ ctx' = ctx /\ ops' = ops
  BY DEF PollCall
<1>2. PICK i \in ToRun :
        LET b == Current[i]
            run == [bh[b] EXCEPT !.scheduled = FALSE, !.idle = FALSE, !.ran = TRUE]
        IN
        /\ bh' = [bh EXCEPT ![b] = IF run.early THEN Deleted(run) ELSE run]
        /\ stk' = Append([stk EXCEPT ![Len(stk)].bh = b,
                                     ![Len(stk)].ret = @ \/ ~bh[b].idle],
                         Frame("cb", b, FALSE))
  BY DEF PollCall
<1>3. /\ Shape(stk) /\ Top = Inner(stk) /\ Top \in Frames /\ bh \in [Bhs -> QEMUBH]
      /\ ops \in 0 .. MaxOps /\ Len(ctx) = Top.lvl /\ l \in Nat /\ l >= 1 /\ DOMAIN stk = 1 .. l
      /\ Top = stk[l] /\ stk \in Seq(Frames) /\ l \in 1 .. l
      /\ \A n \in 1 .. l : stk[n] \in Frames
  BY InvFacts, ShapeFacts DEF Top
<1>4. PICK b : b = Current[i]
  OBVIOUS
<1>5. b \in Elements(Current) /\ ~bh[b].deleted /\ bh[b].scheduled
  BY <1>4 DEF ToRun, Runnable, Elements
<1>6. b \in Bhs /\ bh[b].alive /\ bh[b].home = Top.lvl /\ bh[b] \in QEMUBH
  BY <1>3, <1>5, CurrentFacts
<1> DEFINE run == [bh[b] EXCEPT !.scheduled = FALSE, !.idle = FALSE, !.ran = TRUE]
<1>7. PICK q \in QEMUBH :
        /\ bh' = [bh EXCEPT ![b] = q]
        /\ q.alive = bh[b].alive /\ q.home = bh[b].home /\ q.early = bh[b].early
        /\ q.ran /\ ~q.idle /\ ~q.scheduled
        /\ ~bh[b].early => q.deleted = bh[b].deleted
  <2> DEFINE z == IF run.early THEN Deleted(run) ELSE run
  <2>1. /\ z \in QEMUBH
        /\ z.alive = bh[b].alive /\ z.home = bh[b].home /\ z.early = bh[b].early
        /\ z.ran /\ ~z.idle /\ ~z.scheduled
        /\ ~bh[b].early => z.deleted = bh[b].deleted
    BY <1>6, RunFields
  <2>2. bh' = [bh EXCEPT ![b] = z]
    BY <1>2, <1>4
  <2> HIDE DEF z
  <2>3. QED BY <2>1, <2>2
<1>8. PICK g \in Frames :
        /\ g = [Top EXCEPT !.bh = b, !.ret = @ \/ ~bh[b].idle]
        /\ g.k = "poll" /\ g.lvl = Top.lvl /\ g.bh = b /\ (~bh[b].idle => g.ret)
  <2> DEFINE z == [Top EXCEPT !.bh = b, !.ret = @ \/ ~bh[b].idle]
  <2>1. z \in Frames /\ z.k = "poll" /\ z.lvl = Top.lvl /\ z.bh = b /\ (~bh[b].idle => z.ret)
    BY <1>1, <1>3, <1>6 DEF Frames
  <2>2. QED BY <2>1
<1>9. PICK f \in Frames : f = Frame("cb", b, FALSE) /\ f.k = "cb" /\ f.bh = b /\ f.lvl = Top.lvl
  <2>1. "cb" \in Kinds /\ b \in Bhs \cup {NoBh} /\ FALSE \in BOOLEAN
    BY <1>6 DEF Kinds
  <2> DEFINE z == Frame("cb", b, FALSE)
  <2>2. z \in Frames /\ z.k = "cb" /\ z.bh = b /\ z.lvl = Top.lvl
    BY <2>1, FrameType
  <2> HIDE DEF z
  <2>3. z = Frame("cb", b, FALSE)
    BY DEF z
  <2>4. QED BY <2>2, <2>3
<1>10. stk' = Append([stk EXCEPT ![Len(stk)] = g], f)
  BY <1>2, <1>3, <1>4, <1>8, <1>9
<1>11. /\ Shape(stk') /\ Inner(stk') = f /\ Len(stk') = l + 1
       /\ \A n \in 1 .. l : n # l => stk'[n] = stk[n]
       /\ stk'[l] = g /\ stk'[l + 1] = f
  <2>1. StandsOn(Top, stk[Len(stk) - 1])
    BY <1>1, <1>3, Pops
  <2>2. StandsOn(g, stk[Len(stk) - 1])
    BY <2>1, <1>1, <1>8 DEF StandsOn
  <2>3. Inner(stk).k # "main" /\ g.lvl = Inner(stk).lvl /\ g.k \notin Bases
    BY <1>1, <1>3, <1>8 DEF Bases
  <2> DEFINE z == [stk EXCEPT ![Len(stk)] = g]
  <2>4. /\ Shape(z) /\ Inner(z) = g /\ Len(z) = Len(stk)
        /\ \A n \in 1 .. Len(stk) : n # Len(stk) => z[n] = stk[n]
        /\ z[Len(stk)] = g
    BY <2>2, <2>3, <1>3, Changed
  <2>5. stk' = Append(z, f)
    BY <1>10
  <2> HIDE DEF z
  <2>6. StandsOn(f, Inner(z))
    BY <2>4, <1>8, <1>9 DEF StandsOn
  <2>7. /\ Shape(stk') /\ Inner(stk') = f /\ Len(stk') = Len(z) + 1
        /\ \A n \in 1 .. Len(z) : stk'[n] = z[n]
        /\ stk'[Len(z) + 1] = f
    BY <2>4, <2>5, <2>6, Pushes
  <2>8. QED BY <2>4, <2>7, <1>3
<1>12. /\ DOMAIN stk' = 1 .. l + 1 /\ l + 1 \in 1 .. l + 1
       /\ \A n \in 1 .. l + 1 : n \in 1 .. l \/ n = l + 1
       /\ \A n \in 1 .. l : n \in 1 .. l + 1 /\ n # l + 1
  <2>1. DOMAIN stk' = 1 .. l + 1
    BY <1>11, ShapeFacts
  <2> HIDE DEF l
  <2>2. QED BY <2>1, <1>3
<1> HIDE DEF l
<1>13. bh' \in [Bhs -> QEMUBH] /\ bh'[b] = q /\ \A c \in Bhs : c # b => bh'[c] = bh[c]
  BY <1>3, <1>6, <1>7, <1>7
<1>14. \A c \in Bhs : bh'[c].alive = bh[c].alive /\ bh'[c].home = bh[c].home /\ bh'[c].early = bh[c].early
  BY <1>7, <1>13
<1>15. Typed' /\ Flushed'
  BY <1>1, <1>3, <1>9, <1>11, <1>13 DEF Typed, Flushed
<1>16. ListsRight'
  BY <1>1, <1>14, LinksKept DEF BhInv
<1>17. ASSUME NEW n \in 1 .. l, n # l PROVE FrameRight(stk[n])'
  <2>1. PICK e \in Frames : e = stk[n] /\ e = stk'[n]
    BY <1>3, <1>11, <1>17
  <2>2. FrameRight(e)
    BY <2>1 DEF BhInv, FramesRight, l
  <2>3. e.k = "submit" => e.bh \in Bhs /\ e.bh # b
    BY <2>2, <1>5 DEF FrameRight, Bhs
  <2>4. FrameRight(e)'
    BY <2>2, <2>3, <1>7, <1>13, <1>14, FrameKept
  <2>5. QED BY <2>1, <2>4
<1>18. FrameRight(g)'
  <2>1. g.lvl # 1 => ~bh[b].idle
    BY <1>6, <1>8 DEF BhInv, OwnersRight, Bhs
  <2>2. QED BY <2>1, <1>6, <1>8, <1>14 DEF FrameRight
<1>19. FrameRight(f)'
  BY <1>6, <1>7, <1>9, <1>13, <1>14 DEF FrameRight
<1>20. ASSUME NEW n \in 1 .. l + 1 PROVE FrameRight(stk[n])'
  <2>1. CASE n \in 1 .. l /\ n # l
    BY <2>1, <1>17
  <2>2. CASE n = l
    BY <2>2, <1>11, <1>18
  <2>3. CASE n = l + 1
    BY <2>3, <1>11, <1>19
  <2>4. QED BY <2>1, <2>2, <2>3, <1>12
<1>21. \A m, n \in 1 .. l + 1 :
        stk'[m].k = "submit" /\ stk'[n].k = "submit" /\ stk'[m].bh = stk'[n].bh => m = n
  <2>1. \A n \in 1 .. l + 1 : stk'[n].k = "submit" => n \in 1 .. l /\ stk'[n] = stk[n]
    BY <1>8, <1>9, <1>11, <1>12
  <2>2. QED BY <2>1 DEF BhInv, FramesRight, l
<1>22. FramesRight'
  BY <1>11, <1>20, <1>21 DEF FramesRight
<1>23. ASSUME NEW c, OnStack(c) PROVE OnStack(c)'
  <2>1. PICK n \in 1 .. l : stk[n].k \in {"cb", "submit"} /\ stk[n].bh = c
    BY <1>3, <1>23 DEF OnStack
  <2>2. n # l
    BY <2>1, <1>1, <1>3
  <2>3. n \in DOMAIN stk' /\ stk'[n] = stk[n]
    BY <2>2, <1>11, <1>12
  <2>4. QED BY <2>1, <2>3 DEF OnStack
<1>24. OnStack(b)'
  BY <1>9, <1>11, <1>12 DEF OnStack
<1>25. OwnersRight'
  <2>1. Devs \subseteq Bhs /\ Reqs \subseteq Bhs
    BY DEF Bhs
  <2>2. \A c \in Devs : ~bh'[c].deleted
    BY <2>1, <1>5, <1>7, <1>13 DEF BhInv, OwnersRight
  <2>3. \A c \in Devs : bh'[c].alive /\ ~bh'[c].early /\ bh'[c].home = 1
    BY <2>1, <1>14 DEF BhInv, OwnersRight
  <2>4. \A c \in Reqs : ~bh'[c].idle
    BY <2>1, <1>7, <1>13 DEF BhInv, OwnersRight
  <2>5. \A c \in Reqs : bh'[c].alive => bh'[c].scheduled \/ bh'[c].deleted \/ OnStack(c)'
    BY <2>1, <1>13, <1>23, <1>24 DEF BhInv, OwnersRight
  <2>6. QED BY <2>2, <2>3, <2>4, <2>5 DEF OwnersRight
<1>26. QED BY <1>11, <1>15, <1>16, <1>22, <1>25 DEF BhInv

\* The sweep of the last list of c: k is what remains of it, j tells the fields
\* of the bottom halves afterwards.
LEMMA LinksSwept ==
  ASSUME NEW c, NEW h \in [Bhs -> QEMUBH], Links(c, h), Len(c) >= 1,
         NEW k \in Seq(Bhs), NoRepeat(k),
         NEW j \in [Bhs -> QEMUBH],
         \A a \in Elements(k) : a \in Elements(c[Len(c)]) /\ ~h[a].deleted,
         \A a \in Elements(c[Len(c)]) : ~h[a].deleted => a \in Elements(k),
         \A a \in Elements(c[Len(c)]) : h[a].deleted => ~j[a].alive,
         \A a \in Bhs : a \notin Elements(c[Len(c)]) \/ ~h[a].deleted => j[a] = h[a]
  PROVE  /\ Links([c EXCEPT ![Len(c)] = k], j)
         /\ Len([c EXCEPT ![Len(c)] = k]) = Len(c)
         /\ [c EXCEPT ![Len(c)] = k][Len(c)] = k
<1> DEFINE l == Len(c)
           d == [c EXCEPT ![Len(c)] = k]
<1>1. /\ c \in Seq(Seq(Bhs)) /\ l \in Nat /\ l \in 1 .. l
      /\ \A n \in 1 .. l : Elements(c[n]) \subseteq Bhs
  <2>1. c \in Seq(Seq(Bhs))
    BY DEF Links
  <2>2. l \in Nat /\ \A n \in 1 .. l : Elements(c[n]) \subseteq Bhs
    BY LinkFacts
  <2>3. QED BY <2>1, <2>2
<1>2. /\ d \in Seq(Seq(Bhs)) /\ Len(d) = l /\ d[l] = k
      /\ \A n \in 1 .. l : n # l => d[n] = c[n]
  BY <1>1, Relisted
<1> HIDE DEF d
<1>3. /\ \A n \in 1 .. l : NoRepeat(c[n])
      /\ \A n \in 1 .. l : \A a \in Elements(c[n]) : h[a].alive /\ h[a].home = n
      /\ \A a \in Bhs : h[a].alive => h[a].home \in 1 .. l /\ a \in Elements(c[h[a].home])
  BY DEF Links
<1>4. \A n \in 1 .. l : NoRepeat(d[n])
  BY <1>2, <1>3
<1>5. ASSUME NEW n \in 1 .. l, NEW a \in Elements(d[n]) PROVE j[a].alive /\ j[a].home = n
  <2>1. CASE n = l
    <3>1. a \in Elements(k)
      BY <2>1, <1>2, <1>5
    <3>2. a \in Elements(c[l]) /\ ~h[a].deleted /\ a \in Bhs
      BY <3>1, <1>1
    <3>3. QED BY <2>1, <3>2, <1>1, <1>3
  <2>2. CASE n # l
    <3>1. a \in Elements(c[n]) /\ a \in Bhs /\ h[a].alive /\ h[a].home = n
      BY <2>2, <1>1, <1>2, <1>3, <1>5
    <3>2. a \notin Elements(c[l])
      BY <2>2, <3>1, <1>1, <1>3
    <3>3. QED BY <3>1, <3>2
  <2>3. QED BY <2>1, <2>2
<1>6. ASSUME NEW a \in Bhs, j[a].alive PROVE j[a].home \in 1 .. l /\ a \in Elements(d[j[a].home])
  <2>1. ~(a \in Elements(c[l]) /\ h[a].deleted)
    BY <1>6
  <2>2. j[a] = h[a]
    BY <2>1
  <2>3. h[a].home \in 1 .. l /\ a \in Elements(c[h[a].home])
    BY <2>2, <1>3, <1>6
  <2>4. a \in Elements(d[h[a].home])
    BY <2>1, <2>3, <1>2
  <2>5. QED BY <2>2, <2>3, <2>4
<1>7. Links(d, j)
  BY <1>2, <1>4, <1>5, <1>6 DEF Links
<1>8. QED BY <1>2, <1>7 DEF d

\* The list and the bottom halves after the sweep.
LEMMA SweepFacts ==
  ASSUME BhInv
  PROVE  /\ Kept(Current) \in Seq(Bhs) /\ NoRepeat(Kept(Current))
         /\ \A a \in Elements(Kept(Current)) : a \in Elements(Current) /\ ~bh[a].deleted
         /\ \A a \in Elements(Current) : ~bh[a].deleted => a \in Elements(Kept(Current))
         /\ Sweep(Current) \in [Bhs -> QEMUBH]
         /\ \A a \in Elements(Current) : bh[a].deleted => ~Sweep(Current)[a].alive
         /\ \A a \in Bhs : a \notin Elements(Current) \/ ~bh[a].deleted
                           => Sweep(Current)[a] = bh[a]
         /\ \A a \in Bhs : Sweep(Current)[a].idle = bh[a].idle
<1> DEFINE S == {b \in Bhs : ~bh[b].deleted}
<1>1. Current \in Seq(Bhs) /\ NoRepeat(Current) /\ Elements(Current) \subseteq Bhs
  BY CurrentFacts
<1>2. bh \in [Bhs -> QEMUBH]
  BY InvFacts
<1>3. Kept(Current) = Filtered(Current, S)
  BY DEF Kept
<1>4. /\ Filtered(Current, S) \in Seq(Bhs) /\ NoRepeat(Filtered(Current, S))
      /\ Elements(Filtered(Current, S)) = Elements(Current) \cap S
  <2> HIDE DEF S
  <2>1. QED BY <1>1, FilteredParts
<1>5. \A a \in Elements(Current) : a \in S <=> ~bh[a].deleted
  BY <1>1
<1> HIDE DEF S
<1>6. /\ Kept(Current) \in Seq(Bhs) /\ NoRepeat(Kept(Current))
      /\ Elements(Kept(Current)) = Elements(Current) \cap S
  BY <1>3, <1>4
<1>7. \A a \in Bhs : bh[a] \in QEMUBH /\ Freed(bh[a]) \in QEMUBH /\ ~Freed(bh[a]).alive
                     /\ Freed(bh[a]).idle = bh[a].idle
  BY <1>2, FreedFields
<1>8. \A a \in Bhs : /\ a \in Elements(Current) /\ bh[a].deleted => Sweep(Current)[a] = Freed(bh[a])
                     /\ a \notin Elements(Current) \/ ~bh[a].deleted => Sweep(Current)[a] = bh[a]
  BY DEF Sweep
<1>9. Sweep(Current) \in [Bhs -> QEMUBH]
  BY <1>7 DEF Sweep
<1>10. QED BY <1>1, <1>5, <1>6, <1>7, <1>8, <1>9

\* The stack after the walk: its frame is gone, and async_context_pop knows the
\* result if it is the caller.
LEMMA WalkReturns ==
  ASSUME BhInv, PollDone
  PROVE  /\ Shape(stk') /\ Len(stk') = Len(stk) - 1 /\ Inner(stk') = stk'[Len(stk) - 1]
         /\ \A n \in 1 .. Len(stk) - 1 : n # Len(stk) - 1 => stk'[n] = stk[n]
         /\ Inner(stk').lvl = Top.lvl /\ Inner(stk').k \in Bases
         /\ stk[Len(stk) - 1].k \in Bases
         /\ Inner(stk').k = "pop" => Inner(stk').ret = Top.ret /\ Top.lvl # 1
<1> DEFINE l == Len(stk)
           p == stk[l - 1]
           g == [p EXCEPT !.ret = Top.ret]
<1>1. /\ Top.k = "poll"
      /\ stk' = IF p.k = "pop" THEN [Below EXCEPT ![l - 1].ret = Top.ret] ELSE Below
  BY DEF PollDone
<1>2. Shape(stk) /\ Top = Inner(stk) /\ Below = Outer(stk) /\ Top \in Frames /\ l \in Nat
  BY InvFacts
<1>3. /\ Shape(Below) /\ Len(Below) = l - 1 /\ l >= 2
      /\ \A n \in 1 .. l - 1 : Below[n] = stk[n]
      /\ Inner(Below) = p /\ StandsOn(Top, p) /\ p \in Frames
  BY <1>1, <1>2, Pops
<1>4. p.k \in Bases /\ Top.lvl = p.lvl
  BY <1>1, <1>3 DEF StandsOn
<1>5. CASE p.k # "pop"
  <2>1. stk' = Below
    BY <1>1, <1>5
  <2>2. \A n \in 1 .. l - 1 : stk'[n] = stk[n]
    BY <2>1, <1>3
  <2>3. l - 1 \in 1 .. l - 1
    BY <1>2, <1>3
  <2>4. QED BY <2>1, <2>2, <2>3, <1>3, <1>4, <1>5
<1>6. CASE p.k = "pop"
  <2>1. /\ l - 1 \in 1 .. l - 1 /\ DOMAIN Below = 1 .. l - 1
    BY <1>2, <1>3, ShapeFacts
  <2>2. Below[l - 1] = p
    BY <2>1, <1>3
  <2>3. g \in Frames /\ g.k = "pop" /\ g.ret = Top.ret /\ g.lvl = p.lvl /\ g.bh = p.bh
    BY <1>2, <1>3, <1>6 DEF Frames
  <2>4. stk' = [Below EXCEPT ![Len(Below)] = g]
    BY <1>1, <1>3, <1>6, <2>1, <2>2
  <2>5. /\ StandsOn(p, Below[Len(Below) - 1]) /\ Below[Len(Below) - 1] \in Frames
    BY <1>3, <1>6, Pops
  <2> HIDE DEF g, p
  <2>6. StandsOn(g, Below[Len(Below) - 1])
    BY <2>3, <2>5, <1>6 DEF StandsOn
  <2>7. Inner(Below).k # "main" /\ g.lvl = Inner(Below).lvl /\ Inner(Below).k \in Bases
    BY <2>3, <1>3, <1>4, <1>6
  <2>8. /\ Shape(stk') /\ Inner(stk') = g /\ Len(stk') = Len(Below)
        /\ \A n \in 1 .. Len(Below) : n # Len(Below) => stk'[n] = Below[n]
        /\ stk'[Len(Below)] = g
    BY <2>3, <2>4, <2>6, <2>7, <1>3, Changed
  <2>9. p.lvl # 1
    <3>1. \A e \in Frames : e.lvl \in Nat /\ e.lvl >= 1
      BY Constants DEF Frames
    <3>2. p.lvl = Below[Len(Below) - 1].lvl + 1
      BY <2>5, <1>6 DEF StandsOn
    <3>3. QED BY <3>1, <3>2, <2>5
  <2>10. QED BY <2>3, <2>8, <2>9, <1>3, <1>4, <1>6 DEF p
<1>7. QED BY <1>5, <1>6

\* No other frame of the stack holds a bottom half of the walk's list.
LEMMA WalkHolds ==
  ASSUME BhInv, Top.k = "poll",
         NEW n \in 1 .. Len(stk), n # Len(stk), stk[n].k \in {"poll", "cb", "submit"},
         stk[n].bh \in Bhs
  PROVE  stk[n].bh \notin Elements(Current)
<1>1. Shape(stk) /\ Top = Inner(stk) /\ Len(ctx) = Top.lvl
  BY InvFacts
<1>2. stk[n].lvl # Top.lvl
  BY <1>1, WalkAlone
<1>3. FrameRight(stk[n]) /\ stk[n].bh # NoBh
  BY Constants DEF BhInv, FramesRight
<1>4. bh[stk[n].bh].home = stk[n].lvl
  BY <1>3 DEF FrameRight
<1>5. QED BY <1>1, <1>2, <1>4, CurrentFacts

\* A walk that found nothing to call, in a context above the first, leaves its
\* list empty: what it did not call is deleted.
LEMMA WalkEmpties ==
  ASSUME BhInv, PollDone, ~Top.ret, Top.lvl # 1
  PROVE  Kept(Current) = <<>>
<1>1. Top.k = "poll" /\ ToRun = {}
  BY DEF PollDone
<1>2. /\ Shape(stk) /\ Top = stk[Len(stk)] /\ Len(stk) \in 1 .. Len(stk) /\ Len(ctx) = Top.lvl
      /\ DOMAIN stk = 1 .. Len(stk)
  BY InvFacts DEF Top
<1>3. Top.bh = NoBh
  <2>1. FrameRight(Top)
    BY <1>2 DEF BhInv, FramesRight
  <2>2. QED BY <2>1, <1>1 DEF FrameRight
<1>4. \A a \in Elements(Current) : bh[a].deleted \/ ~bh[a].scheduled
  BY <1>1, <1>3 DEF ToRun, Runnable, Elements
<1>5. ASSUME NEW a \in Elements(Current) PROVE bh[a].deleted
  <2>1. a \in Bhs /\ bh[a].alive /\ bh[a].home # 1
    BY <1>2, CurrentFacts
  <2>2. a \in Reqs
    BY <2>1 DEF BhInv, OwnersRight, Bhs
  <2>3. bh[a].deleted \/ OnStack(a)
    BY <2>1, <2>2, <1>4 DEF BhInv, OwnersRight
  <2>4. ASSUME OnStack(a) PROVE FALSE
    <3>1. PICK n \in 1 .. Len(stk) : stk[n].k \in {"cb", "submit"} /\ stk[n].bh = a
      BY <2>4, <1>2 DEF OnStack
    <3>2. n # Len(stk)
      BY <3>1, <1>1, <1>2
    <3>3. QED BY <3>1, <3>2, <2>1, <1>1, WalkHolds
  <2>5. QED BY <2>3, <2>4
<1>6. Kept(Current) \in Seq(Bhs) /\ Elements(Kept(Current)) = {}
  BY <1>5, SweepFacts
<1>7. QED BY <1>6, ListType

LEMMA PollDoneKeeps ==
  ASSUME BhInv, PollDone
  PROVE  BhInv'
<1> DEFINE l == Len(stk)
<1>1. /\ Top.k = "poll" /\ ops' = ops /\ bh' = Sweep(Current)
      /\ ctx' = [ctx EXCEPT ![Len(ctx)] = Kept(Current)]
  BY DEF PollDone, Current
<1>2. /\ Shape(stk) /\ Top = stk[l] /\ l \in 1 .. l /\ l \in Nat /\ Len(ctx) = Top.lvl
      /\ Len(ctx) \in 1 .. MaxDepth + 1 /\ bh \in [Bhs -> QEMUBH] /\ ops \in 0 .. MaxOps
      /\ DOMAIN stk = 1 .. l /\ \A n \in 1 .. l : stk[n] \in Frames
  BY InvFacts, ShapeFacts DEF Top
<1>3. /\ Shape(stk') /\ Len(stk') = l - 1 /\ Inner(stk') = stk'[l - 1]
      /\ \A n \in 1 .. l - 1 : n # l - 1 => stk'[n] = stk[n]
      /\ Inner(stk').lvl = Top.lvl /\ Inner(stk').k \in Bases
      /\ stk[l - 1].k \in Bases
      /\ Inner(stk').k = "pop" => Inner(stk').ret = Top.ret /\ Top.lvl # 1
  BY WalkReturns
<1>4. /\ Kept(Current) \in Seq(Bhs) /\ NoRepeat(Kept(Current))
      /\ \A a \in Elements(Kept(Current)) : a \in Elements(Current) /\ ~bh[a].deleted
      /\ \A a \in Elements(Current) : ~bh[a].deleted => a \in Elements(Kept(Current))
      /\ bh' \in [Bhs -> QEMUBH]
      /\ \A a \in Elements(Current) : bh[a].deleted => ~bh'[a].alive
      /\ \A a \in Bhs : a \notin Elements(Current) \/ ~bh[a].deleted => bh'[a] = bh[a]
      /\ \A a \in Bhs : bh'[a].idle = bh[a].idle
  BY <1>1, SweepFacts
<1>5. ListsRight' /\ Len(ctx') = Len(ctx) /\ ctx'[Len(ctx)] = Kept(Current)
  <2>1. Links(ctx, bh) /\ Len(ctx) >= 1
    BY <1>2 DEF BhInv, ListsRight
  <2> DEFINE k == Kept(Current)
             j == bh'
  <2>2. /\ k \in Seq(Bhs) /\ NoRepeat(k) /\ j \in [Bhs -> QEMUBH]
        /\ \A a \in Elements(k) : a \in Elements(ctx[Len(ctx)]) /\ ~bh[a].deleted
        /\ \A a \in Elements(ctx[Len(ctx)]) : ~bh[a].deleted => a \in Elements(k)
        /\ \A a \in Elements(ctx[Len(ctx)]) : bh[a].deleted => ~j[a].alive
        /\ \A a \in Bhs : a \notin Elements(ctx[Len(ctx)]) \/ ~bh[a].deleted => j[a] = bh[a]
    BY <1>4 DEF Current
  <2>3. ctx' = [ctx EXCEPT ![Len(ctx)] = k]
    BY <1>1
  <2> HIDE DEF k
  <2>4. /\ Links([ctx EXCEPT ![Len(ctx)] = k], j)
        /\ Len([ctx EXCEPT ![Len(ctx)] = k]) = Len(ctx)
        /\ [ctx EXCEPT ![Len(ctx)] = k][Len(ctx)] = k
    <3> HIDE DEF j
    <3>1. QED BY <2>1, <2>2, <1>2, LinksSwept
  <2>5. QED BY <2>3, <2>4 DEF ListsRight, k
<1>6. Typed'
  BY <1>1, <1>2, <1>3, <1>4, <1>5 DEF Typed
<1>7. Flushed'
  BY <1>3, <1>5, WalkEmpties DEF Flushed
<1>8. /\ \A n \in 1 .. l - 1 : n \in 1 .. l /\ n # l
      /\ \A n \in 1 .. l : n = l \/ n = l - 1 \/ (n \in 1 .. l - 1 /\ n # l - 1)
      /\ DOMAIN stk' = 1 .. l - 1
  <2>1. DOMAIN stk' = 1 .. l - 1
    BY <1>3, ShapeFacts
  <2>2. /\ \A m \in Nat : \A n \in 1 .. m - 1 : n \in 1 .. m /\ n # m
        /\ \A m \in Nat : \A n \in 1 .. m : n = m \/ n = m - 1 \/ (n \in 1 .. m - 1 /\ n # m - 1)
    OBVIOUS
  <2> HIDE DEF l
  <2>3. QED BY <2>1, <2>2, <1>2
<1>9. ASSUME NEW n \in 1 .. l - 1 PROVE FrameRight(stk[n])'
  <2>1. CASE n = l - 1
    BY <2>1, <1>3 DEF FrameRight, Bases
  <2>2. CASE n # l - 1
    <3>1. PICK f \in Frames : f = stk[n] /\ f = stk'[n]
      BY <2>2, <1>2, <1>3, <1>8
    <3>2. FrameRight(f)
      BY <3>1, <1>8 DEF BhInv, FramesRight
    <3>3. f.k \in {"poll", "cb", "submit"} /\ f.bh \in Bhs => bh'[f.bh] = bh[f.bh]
      BY <3>1, <1>1, <1>4, <1>8, WalkHolds
    <3>4. f.bh \in Bhs \/ f.bh = NoBh
      BY DEF Frames
    <3>5. f.k \in {"cb", "submit"} => f.bh \in Bhs
      BY <3>2 DEF FrameRight, Bhs
    <3>6. FrameRight(f)'
      BY <3>2, <3>3, <3>4, <3>5 DEF FrameRight
    <3>7. QED BY <3>1, <3>6
  <2>3. QED BY <2>1, <2>2
<1>10. \A m, n \in 1 .. l - 1 :
        stk'[m].k = "submit" /\ stk'[n].k = "submit" /\ stk'[m].bh = stk'[n].bh => m = n
  <2>1. \A n \in 1 .. l - 1 : stk'[n].k = "submit" => n \in 1 .. l /\ stk'[n] = stk[n]
    BY <1>3, <1>8 DEF Bases
  <2>2. QED BY <2>1 DEF BhInv, FramesRight
<1>11. FramesRight'
  BY <1>3, <1>9, <1>10 DEF FramesRight
<1>12. ASSUME NEW c, OnStack(c) PROVE OnStack(c)'
  <2>1. PICK n \in 1 .. l : stk[n].k \in {"cb", "submit"} /\ stk[n].bh = c
    BY <1>2, <1>12 DEF OnStack
  <2>2. n # l /\ n # l - 1
    BY <2>1, <1>1, <1>2, <1>3 DEF Bases
  <2>3. n \in DOMAIN stk' /\ stk'[n] = stk[n]
    BY <2>2, <1>3, <1>8
  <2>4. QED BY <2>1, <2>3 DEF OnStack
<1>13. OwnersRight'
  <2>1. Devs \subseteq Bhs /\ Reqs \subseteq Bhs
    BY DEF Bhs
  <2>2. \A c \in Devs : bh'[c] = bh[c]
    BY <2>1, <1>4 DEF BhInv, OwnersRight
  <2>3. \A c \in Reqs : ~bh'[c].idle
    BY <2>1, <1>4 DEF BhInv, OwnersRight
  <2>4. \A c \in Reqs : bh'[c].alive => bh'[c].scheduled \/ bh'[c].deleted \/ OnStack(c)'
    BY <2>1, <1>4, <1>12 DEF BhInv, OwnersRight
  <2>5. QED BY <2>2, <2>3, <2>4 DEF BhInv, OwnersRight
<1>14. QED BY <1>3, <1>5, <1>6, <1>7, <1>11, <1>13 DEF BhInv

-----------------------------------------------------------------------------
(***************************************************************************)
(* The invariant and what it implies.                                      *)
(***************************************************************************)
LEMMA InitInv ==
  ASSUME Init
  PROVE  BhInv
<1> DEFINE main == [k |-> "main", bh |-> NoBh, ret |-> FALSE, lvl |-> 1]
<1>1. PICK s \in DevLists : Elements(s) = Devs /\ ctx = <<s>>
  BY DEF Init
<1>2. stk = <<main>> /\ ops = 0
  BY DEF Init
<1>3. Cardinality(Devs) \in Nat /\ Devs \subseteq Bhs
  BY BhAssumption, FS_CardinalityType DEF Bhs
<1>4. s \in Seq(Bhs) /\ NoRepeat(s)
  <2>1. s \in [1 .. Cardinality(Devs) -> Bhs] /\ NoRepeat(s)
    BY <1>1, <1>3 DEF DevLists
  <2>2. QED BY <2>1, <1>3, SeqDef
<1>5. ctx \in Seq(Seq(Bhs)) /\ Len(ctx) = 1 /\ ctx[1] = s
  BY <1>1, <1>4
<1>6. main \in Frames /\ main.k = "main" /\ main.lvl = 1
  <2>1. 1 \in 1 .. MaxDepth + 1 /\ "main" \in Kinds
    BY Constants DEF Kinds
  <2>2. QED BY <2>1 DEF Frames
<1> HIDE DEF main
<1>7. stk \in Seq(Frames) /\ Len(stk) = 1 /\ stk[1] = main /\ stk # <<>> /\ Inner(stk) = main
  BY <1>2, <1>6 DEF Inner
<1>8. Shape(stk)
  <2>1. Nest(stk)
    BY <1>7 DEF Nest
  <2>2. 2 .. Len(stk) = {}
    BY <1>7
  <2>3. QED BY <2>1, <2>2, <1>6, <1>7 DEF Shape
<1>9. /\ \A b \in Devs : bh[b] = Fresh(FALSE, 1)
      /\ \A b \in Reqs : bh[b] = Freed(Fresh(FALSE, 0))
      /\ bh = [b \in Bhs |-> bh[b]]
  BY Constants DEF Init, Bhs
<1>10. 0 \in 0 .. MaxDepth + 1 /\ 1 \in 0 .. MaxDepth + 1 /\ FALSE \in BOOLEAN /\ 0 \in 0 .. MaxOps
  BY Constants
<1>11. \A b \in Devs : /\ bh[b] \in QEMUBH /\ bh[b].alive /\ bh[b].home = 1
                       /\ ~bh[b].deleted /\ ~bh[b].early
  <2> DEFINE r == Fresh(FALSE, 1)
  <2>1. r \in QEMUBH /\ r.alive /\ r.home = 1 /\ ~r.deleted /\ ~r.early
    BY <1>10, FreshFields
  <2>2. \A b \in Devs : bh[b] = r
    BY <1>9
  <2> HIDE DEF r
  <2>3. QED BY <2>1, <2>2
<1>12. \A b \in Reqs : bh[b] \in QEMUBH /\ ~bh[b].alive /\ ~bh[b].idle
  <2> DEFINE r == Fresh(FALSE, 0)
  <2>1. r \in QEMUBH /\ ~r.idle
    BY <1>10, FreshFields
  <2>2. \A b \in Reqs : bh[b] = Freed(r)
    BY <1>9
  <2> HIDE DEF r
  <2>3. QED BY <2>1, <2>2, FreedFields
<1>13. bh \in [Bhs -> QEMUBH]
  BY <1>9, <1>11, <1>12 DEF Bhs
<1>14. Typed
  BY <1>2, <1>5, <1>6, <1>7, <1>10, <1>13 DEF Typed
<1>15. ListsRight
  <2>1. \A n \in 1 .. Len(ctx) : n = 1 /\ ctx[n] = s
    BY <1>5
  <2>2. \A n \in 1 .. Len(ctx) : NoRepeat(ctx[n])
    BY <2>1, <1>4
  <2>3. \A n \in 1 .. Len(ctx) : \A b \in Elements(ctx[n]) : bh[b].alive /\ bh[b].home = n
    BY <2>1, <1>1, <1>11
  <2>4. ASSUME NEW b \in Bhs, bh[b].alive
        PROVE  bh[b].home \in 1 .. Len(ctx) /\ b \in Elements(ctx[bh[b].home])
    <3>1. b \in Devs
      BY <2>4, <1>12 DEF Bhs
    <3>2. bh[b].home = 1
      BY <3>1, <1>11
    <3>3. b \in Elements(ctx[1]) /\ 1 \in 1 .. Len(ctx)
      BY <3>1, <1>1, <1>5
    <3>4. QED BY <3>2, <3>3
  <2>5. QED BY <2>2, <2>3, <2>4, <1>5 DEF ListsRight, Links
<1>16. FramesRight /\ Flushed
  BY <1>6, <1>7 DEF FramesRight, FrameRight, Flushed
<1>17. OwnersRight
  BY <1>11, <1>12 DEF OwnersRight
<1>18. QED BY <1>8, <1>14, <1>15, <1>16, <1>17 DEF BhInv

LEMMA StutterKeeps ==
  ASSUME BhInv, UNCHANGED vars
  PROVE  BhInv'
<1>1. ctx' = ctx /\ bh' = bh /\ stk' = stk /\ ops' = ops
  BY DEF vars
<1>2. \A f \in Frames : FrameRight(f)' <=> FrameRight(f)
  BY <1>1 DEF FrameRight
<1>3. \A n \in 1 .. Len(stk) : stk[n] \in Frames
  BY InvFacts, ShapeFacts
<1>4. ASSUME NEW n \in 1 .. Len(stk) PROVE FrameRight(stk[n])'
  <2>1. PICK f \in Frames : f = stk[n] /\ f = stk'[n]
    BY <1>1, <1>3
  <2>2. FrameRight(f)
    BY <2>1 DEF BhInv, FramesRight
  <2>3. QED BY <2>1, <2>2, <1>2
<1>5. FramesRight'
  BY <1>1, <1>4 DEF BhInv, FramesRight
<1>6. OwnersRight'
  BY <1>1 DEF BhInv, OwnersRight, OnStack
<1>7. Shape(stk') /\ Typed' /\ ListsRight' /\ Flushed'
  BY <1>1 DEF BhInv, Typed, ListsRight, Flushed
<1>8. QED BY <1>5, <1>6, <1>7 DEF BhInv

\* Nests of calls, the lists of the contexts and the frames that hold bottom
\* halves stay consistent, whatever callbacks do (async.c).
THEOREM Invariance == Spec => []BhInv
<1>1. BhInv /\ [Next]_vars => BhInv'
  <2> SUFFICES ASSUME BhInv, [Next]_vars PROVE BhInv'
    OBVIOUS
  <2>1. ASSUME NEW d \in Devs,
               qemu_bh_schedule(d) \/ qemu_bh_schedule_idle(d) \/ qemu_bh_cancel(d)
        PROVE  BhInv'
    BY <2>1, DeviceActions
  <2>2. ASSUME NEW b \in Reqs, NEW e \in BOOLEAN, qemu_bh_new(b, e) PROVE BhInv'
    BY <2>2, NewKeeps
  <2>3. ASSUME NEW b \in Reqs, qemu_bh_delete(b) PROVE BhInv'
    BY <2>3, DeleteKeeps
  <2>4. ASSUME Submitted PROVE BhInv'
    BY <2>4, SubmittedKeeps
  <2>5. ASSUME async_context_push PROVE BhInv'
    BY <2>5, PushKeeps
  <2>6. ASSUME AioCallback \/ qemu_bh_poll PROVE BhInv'
    BY <2>6, CallsKeep
  <2>7. ASSUME Return PROVE BhInv'
    BY <2>7, ReturnKeeps
  <2>8. ASSUME PollCall PROVE BhInv'
    BY <2>8, PollCallKeeps
  <2>9. ASSUME PollDone PROVE BhInv'
    BY <2>9, PollDoneKeeps
  <2>10. ASSUME async_context_pop PROVE BhInv'
    BY <2>10, PopBegins
  <2>11. ASSUME Popped PROVE BhInv'
    BY <2>11, PoppedKeeps
  <2>12. ASSUME UNCHANGED vars PROVE BhInv'
    BY <2>12, StutterKeeps
  <2>13. QED
    BY <2>1, <2>2, <2>3, <2>4, <2>5, <2>6, <2>7, <2>8, <2>9, <2>10, <2>11, <2>12 DEF Next
<1>2. QED BY <1>1, InitInv, PTL DEF Spec

\* A callback stands on its walk and the walk on the frame that entered its
\* context, which is above every other frame of the same context.
LEMMA CallbackAlone ==
  ASSUME NEW s, Shape(s), NEW m \in 1 .. Len(s), NEW n \in 1 .. Len(s),
         s[m].k = "cb", s[n].k = "cb", s[m].lvl = s[n].lvl
  PROVE  ~(m < n)
<1> SUFFICES ASSUME m < n PROVE FALSE
  OBVIOUS
<1>1. /\ Len(s) \in Nat /\ s[1].k = "main" /\ Nest(s)
      /\ \A i \in 2 .. Len(s) : StandsOn(s[i], s[i - 1])
      /\ \A i \in 1 .. Len(s) : s[i] \in Frames
  BY ShapeFacts DEF Shape
<1>2. n \in 2 .. Len(s) /\ n - 1 \in 1 .. Len(s)
  BY <1>1
<1>3. s[n - 1].k = "poll" /\ s[n - 1].lvl = s[n].lvl
  BY <1>1, <1>2 DEF StandsOn
<1>4. n - 1 # 1
  BY <1>1, <1>3
<1>5. n - 1 \in 2 .. Len(s) /\ n - 2 \in 1 .. Len(s) /\ n - 1 - 1 = n - 2
  BY <1>1, <1>2, <1>4
<1>6. StandsOn(s[n - 1], s[n - 2])
  BY <1>1, <1>5
<1>7. s[n - 2].k \in Bases /\ s[n - 2].lvl = s[n].lvl
  BY <1>3, <1>6 DEF StandsOn
<1>8. m # n - 1 /\ m # n - 2
  BY <1>3, <1>7 DEF Bases
<1>9. m < n - 2
  BY <1>1, <1>8
<1>10. s[m].lvl < s[n - 2].lvl
  BY <1>1, <1>5, <1>7, <1>9 DEF Nest
<1>11. s[m].lvl \in Nat
  <2>1. \A f \in Frames : f.lvl \in Nat
    BY Constants DEF Frames
  <2>2. QED BY <2>1, <1>1
<1>12. QED BY <1>7, <1>10, <1>11

LEMMA InvImplies ==
  ASSUME BhInv
  PROVE  BhSafe
<1>1. /\ Shape(stk) /\ bh \in [Bhs -> QEMUBH] /\ ops \in 0 .. MaxOps
      /\ Len(ctx) \in 1 .. MaxDepth + 1
      /\ ctx \in Seq(Seq(Bhs)) /\ DOMAIN ctx = 1 .. Len(ctx) /\ DOMAIN stk = 1 .. Len(stk)
      /\ \A n \in 1 .. Len(stk) : stk[n] \in Frames /\ FrameRight(stk[n])
  BY InvFacts, ShapeFacts DEF BhInv, FramesRight
<1>2. /\ \A n \in 1 .. Len(ctx) : NoRepeat(ctx[n])
      /\ \A b \in Bhs : bh[b].alive =>
           bh[b].home \in 1 .. Len(ctx) /\ b \in Elements(ctx[bh[b].home])
  BY DEF BhInv, ListsRight, Links
<1>3. TypeOK
  <2>1. stk # <<>>
    BY <1>1 DEF Shape
  <2>2. \A n \in 1 .. Len(stk) : stk[n].k \in Kinds
    BY <1>1 DEF Frames
  <2>3. QED BY <2>1, <2>2, <1>1, <1>2 DEF TypeOK
<1>4. NothingLost
  BY <1>1, <1>2 DEF NothingLost
<1>5. WalkOnLiveBh
  <2> SUFFICES ASSUME NEW n \in 1 .. Len(stk), stk[n].k = "poll", stk[n].bh # NoBh
               PROVE  bh[stk[n].bh].alive /\ stk[n].bh \in Elements(ctx[stk[n].lvl])
    BY <1>1 DEF WalkOnLiveBh
  <2>1. bh[stk[n].bh].alive /\ bh[stk[n].bh].home = stk[n].lvl
    BY <1>1 DEF FrameRight
  <2>2. stk[n].bh \in Bhs
    BY <1>1 DEF Frames
  <2>3. QED BY <2>1, <2>2, <1>2
<1>6. NoReentry
  <2>1. \A n \in 1 .. Len(stk) : stk[n].k = "cb" => bh[stk[n].bh].home = stk[n].lvl
    BY <1>1 DEF FrameRight
  <2>2. ASSUME NEW m \in 1 .. Len(stk), NEW n \in 1 .. Len(stk),
               stk[m].k = "cb", stk[n].k = "cb", stk[m].bh = stk[n].bh
        PROVE  m = n
    <3>1. stk[m].lvl = stk[n].lvl
      BY <2>1, <2>2
    <3>2. ~(m < n) /\ ~(n < m)
      BY <2>2, <3>1, <1>1, CallbackAlone
    <3>3. Len(stk) \in Nat
      BY <1>1, ShapeFacts
    <3>4. QED BY <3>2, <3>3
  <2>3. QED BY <2>1, <2>2, <1>1 DEF NoReentry
<1>7. QED BY <1>3, <1>4, <1>5, <1>6 DEF BhSafe

\* For any number of bottom halves and any depth of contexts: the walk of
\* qemu_bh_poll stands on allocated memory, a callback is not entered twice, and
\* async_context_pop loses no bottom half.
THEOREM BottomHalvesSafe == Spec => []BhSafe
BY Invariance, InvImplies, PTL
=============================================================================
