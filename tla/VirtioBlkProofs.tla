--------------------------- MODULE VirtioBlkProofs ---------------------------
(***************************************************************************)
(* Theorems about VirtioBlk.  Requests are neither lost nor completed      *)
(* twice, and the disk holds what was reported as written, for any number  *)
(* of requests, any batches and any order of answers.                      *)
(***************************************************************************)
EXTENDS VirtioBlk, ListProofs, FiniteSetTheorems, SequenceTheorems, TLAPS

-----------------------------------------------------------------------------
(***************************************************************************)
(* What holds of any machine.                                              *)
(***************************************************************************)

\* The requests the device has taken from the queue, and the writes of them.
Gone == 1 .. Len(shape) - Len(avail)
Writes == {r \in Gone : Op(r) = "write"}

\* The queue holds the requests made last, in order.
Queue ==
  /\ Len(avail) \in 0 .. Len(shape)
  /\ avail = [i \in 1 .. Len(avail) |-> Len(shape) - Len(avail) + i]

Parts(S) == [first : Nat, vals : Seq(S)]
PartsInFlight(S, n) == [op : {"write"}, mcb : 1 .. n, first : Nat, vals : Seq(S)]
OthersInFlight(S) == [op : {"read", "flush"}, req : S]
Mcbs(S) == [error : BOOLEAN, num : Int, cbs : Seq(S), freed : BOOLEAN]
Subs(S) == [reqs : Seq(Parts(S)), sorted : Seq(S), i : Nat, mcb : Nat,
            from : {"output", "restart"}]

GuestTyped ==
  /\ setup \in Setups
  /\ shape \in Seq(Shapes) /\ Len(shape) <= setup.n
  /\ before \in Seq(SUBSET Req) /\ Len(before) = Len(shape)
  /\ avail \in Seq(Req) /\ Queue
  /\ used \in [Req -> Nat] /\ status \in [Req -> {"none", "ok", "ioerr"}]

DeviceTyped ==
  /\ at \in {"idle", "output", "restart", "submit"}
  /\ walk \in Seq(Gone) /\ rq \in Seq(Gone) /\ mrb \in Seq(Writes)
  /\ sub \in Subs(Writes)
  /\ mcbs \in Seq(Mcbs(Writes))
  /\ flight \subseteq PartsInFlight(Writes, Len(mcbs)) \cup OthersInFlight(Gone)
  /\ \A w \in flight : w.op # "write" => w.op = Op(w.req)
  /\ bh \in BOOLEAN /\ running \in BOOLEAN
  /\ fails \in 0 .. MaxFails
  /\ disk \in [Sectors -> Writes \cup {Nobody}]

\* The handler: where the batch and the list of the restart may be in use.
HandlerOK ==
  /\ at \in {"idle", "submit"} => mrb = <<>>
  /\ Len(mrb) <= BatchSize
  /\ walk # <<>> => at = "restart" \/ (at = "submit" /\ sub.from = "restart")
  /\ at = "submit" =>
       /\ sub.mcb = Len(mcbs) /\ Len(mcbs) >= 1
       /\ sub.i \in 1 .. Len(sub.reqs) + 1
       /\ Len(sub.reqs) <= Len(sub.sorted) /\ Len(sub.sorted) <= BatchSize
       /\ Elements(sub.sorted) = Elements(mcbs[sub.mcb].cbs)

\* A part is made of data of the requests of its batch, each at its place.
PartRight(p, cbs, sh) ==
  \A j \in 1 .. Len(p.vals) :
    /\ p.vals[j] \in Elements(cbs)
    /\ p.first + j - 1 \in sh[p.vals[j]].first .. sh[p.vals[j]].first + sh[p.vals[j]].n - 1

PartsRight ==
  /\ \A w \in flight : w.op = "write" => PartRight(w, mcbs[w.mcb].cbs, shape)
  /\ at = "submit" => \A j \in sub.i .. Len(sub.reqs) :
                        PartRight(sub.reqs[j], mcbs[sub.mcb].cbs, shape)

FlushesFirst ==
  at = "output" => \A w \in flight : w.op = "flush" => \A r \in Elements(mrb) : w.req < r

BlkTyped == GuestTyped /\ DeviceTyped /\ HandlerOK /\ PartsRight /\ OnlyWritten /\ FlushesFirst

-----------------------------------------------------------------------------
(***************************************************************************)
(* What holds under the failures the device copes with.                    *)
(***************************************************************************)

\* The requests at each place: the queue a, the list w of the restart, the
\* batch b, the requests q to be issued again, reads and flushes in flight, and
\* the MultiwriteCBs ms.
OthersOf(f) == {w.req : w \in {v \in f : v.op # "write"}}

HeldOf(a, w, b, q, o, ms) ==
  [k \in Nat |->
     IF k = 1 THEN Elements(a)
     ELSE IF k = 2 THEN Elements(w)
     ELSE IF k = 3 THEN Elements(b)
     ELSE IF k = 4 THEN Elements(q)
     ELSE IF k = 5 THEN o
     ELSE IF k > 5 /\ k <= 5 + Len(ms) THEN Pending(ms[k - 5])
     ELSE {}]

Held == HeldOf(avail, walk, mrb, rq, OthersOf(flight), mcbs)

\* Of n requests made, each is at one place of h until it is completed.
Kept(h, u, n, lossy) ==
  /\ \A k, l \in Nat : \A r \in h[k] : r \in h[l] => k = l
  /\ \A k \in Nat : \A r \in h[k] : r \in 1 .. n /\ u[r] = 0
  /\ \A r \in 1 .. n : u[r] \in {0, 1} /\ (~lossy /\ u[r] = 0 => \E k \in Nat : r \in h[k])
  /\ \A r \in Req : r > n => u[r] = 0

Once ==
  /\ NoRepeat(walk) /\ NoRepeat(mrb) /\ NoRepeat(rq)
  /\ \A m \in 1 .. Len(mcbs) : NoRepeat(mcbs[m].cbs)

PartsOf(m) == {w \in flight : w.op = "write" /\ w.mcb = m}

BatchOK(m) ==
  /\ mcbs[m].num \in Nat
  /\ IsFiniteSet(PartsOf(m)) /\ Cardinality(PartsOf(m)) <= mcbs[m].num
  /\ mcbs[m].freed => PartsOf(m) = {}

SubmitOK ==
  at = "submit" =>
    /\ OnePart => Len(sub.reqs) = 1
    /\ AtPart => ~mcbs[sub.mcb].error /\ ~mcbs[sub.mcb].freed
    /\ sub.i = 1 => mcbs[sub.mcb].num = 0

RequestsOK ==
  /\ Kept(Held, used, Len(shape), Migrates)
  /\ Once
  /\ \A m \in 1 .. Len(mcbs) : BatchOK(m)
  /\ SubmitOK
  /\ ParkedStops

\* No write lies within another.
NotNested ==
  \A v, w \in Shapes : v.op = "write" /\ w.op = "write" /\ v.first <= w.first
                         => v.first + v.n <= w.first + w.n

\* Errors are not reported as successes.
Honest == Policy # "ignore"

Spans(p, x) == x \in p.first .. p.first + Len(p.vals) - 1

\* The sector x holds data that is not older than r, or is of a failed batch.
New(r, x) == disk[x] \notin {Nobody} \cup (before[r] \ FailedOnce)

OnItsWay(m, x) ==
  \/ \E w \in PartsOf(m) : Spans(w, x)
  \/ at = "submit" /\ m = sub.mcb /\ \E j \in sub.i .. Len(sub.reqs) : Spans(sub.reqs[j], x)

\* What was completed before a request was made is completed.
BeforeDone == \A r \in 1 .. Len(shape) : \A q \in before[r] : used[q] > 0

\* The data of a write whose callback is still to be called is on its way, or there.
DataComing ==
  \A m \in 1 .. Len(mcbs) : \A r \in Pending(mcbs[m]) : \A x \in Covers(r) :
    OnItsWay(m, x) \/ New(r, x)

\* The data of a write reported as done is there.
DataThere ==
  /\ \A r \in Req : status[r] = "ok" => used[r] > 0
  /\ \A r \in 1 .. Len(shape) : status[r] = "ok" /\ Op(r) = "write" => \A x \in Covers(r) : New(r, x)

DataOK == BeforeDone /\ DataComing /\ DataThere

DataHypothesis == Tolerated /\ NotNested /\ Honest

BlkInv ==
  BlkTyped /\ (Tolerated => RequestsOK) /\ (DataHypothesis => DataOK)

-----------------------------------------------------------------------------
(***************************************************************************)
(* Lists of requests.                                                      *)
(***************************************************************************)
LEMMA InList ==
  ASSUME NEW A, NEW s \in Seq(A), NEW r
  PROVE  (Contains(s, r) <=> r \in Elements(s)) /\ ToSet(s) = Elements(s)
BY DEF Contains, Elements, ToSet

LEMMA NoneInList == Elements(<<>>) = {} /\ NoRepeat(<<>>)
BY DEF Elements, NoRepeat

LEMMA OneInList ==
  ASSUME NEW A, NEW r \in A
  PROVE  <<r>> \in Seq(A) /\ Elements(<<r>>) = {r} /\ NoRepeat(<<r>>) /\ <<r>> # <<>>
BY DEF Elements, NoRepeat

LEMMA Subset ==
  ASSUME NEW A, NEW B, A \subseteq B, NEW s \in Seq(A)
  PROVE  s \in Seq(B)
OBVIOUS

\* Requests that are parked: in the reverse order before those that are.
LEMMA Reversed ==
  ASSUME NEW A, NEW s \in Seq(A)
  PROVE  /\ Reverse(s) \in Seq(A) /\ Elements(Reverse(s)) = Elements(s)
         /\ NoRepeat(s) => NoRepeat(Reverse(s))
         /\ Len(Reverse(s)) = Len(s)
<1> DEFINE t == Reverse(s)
<1>1. Len(s) \in Nat /\ DOMAIN s = 1 .. Len(s) /\ \A n \in 1 .. Len(s) : s[n] \in A
  BY ListType
<1>2. DOMAIN t = 1 .. Len(s) /\ \A n \in 1 .. Len(s) : t[n] = s[(Len(s) - n) + 1]
  BY DEF Reverse
<1>3. t \in Seq(A) /\ Len(t) = Len(s)
  BY <1>1 DEF Reverse
<1> HIDE DEF t
<1>4. \A n \in 1 .. Len(s) : (Len(s) - n) + 1 \in 1 .. Len(s)
                              /\ (Len(s) - ((Len(s) - n) + 1)) + 1 = n
  BY <1>1
<1>5. Elements(t) \subseteq Elements(s)
  BY <1>1, <1>2, <1>4 DEF Elements
<1>6. Elements(s) \subseteq Elements(t)
  <2> SUFFICES ASSUME NEW n \in 1 .. Len(s) PROVE s[n] \in Elements(t)
    BY <1>1 DEF Elements
  <2>1. t[(Len(s) - n) + 1] = s[n] /\ (Len(s) - n) + 1 \in 1 .. Len(s)
    BY <1>2, <1>4
  <2>2. QED BY <2>1, <1>2 DEF Elements
<1>7. NoRepeat(s) => NoRepeat(t)
  <2> SUFFICES ASSUME NoRepeat(s), NEW m \in 1 .. Len(s), NEW n \in 1 .. Len(s), t[m] = t[n]
               PROVE  m = n
    BY <1>2 DEF NoRepeat
  <2>1. s[(Len(s) - m) + 1] = s[(Len(s) - n) + 1]
    BY <1>2
  <2>2. (Len(s) - m) + 1 = (Len(s) - n) + 1
    BY <2>1, <1>1, <1>4 DEF NoRepeat
  <2>3. QED BY <2>2, <1>1
<1>8. QED BY <1>3, <1>5, <1>6, <1>7 DEF t

LEMMA Concatenated ==
  ASSUME NEW A, NEW s \in Seq(A), NEW t \in Seq(A)
  PROVE  /\ s \o t \in Seq(A) /\ Elements(s \o t) = Elements(s) \cup Elements(t)
         /\ NoRepeat(s) /\ NoRepeat(t) /\ Elements(s) \cap Elements(t) = {} => NoRepeat(s \o t)
<1> DEFINE u == s \o t
<1>1. Len(s) \in Nat /\ DOMAIN s = 1 .. Len(s) /\ Len(t) \in Nat /\ DOMAIN t = 1 .. Len(t)
  BY ListType
<1>2. /\ u \in Seq(A) /\ Len(u) = Len(s) + Len(t)
      /\ \A i \in 1 .. Len(s) + Len(t) : u[i] = IF i <= Len(s) THEN s[i] ELSE t[i - Len(s)]
  BY ConcatProperties
<1>3. DOMAIN u = 1 .. Len(s) + Len(t)
  BY <1>2
<1> HIDE DEF u
<1>4. Elements(u) \subseteq Elements(s) \cup Elements(t)
  <2> SUFFICES ASSUME NEW i \in 1 .. Len(s) + Len(t)
               PROVE  u[i] \in Elements(s) \/ u[i] \in Elements(t)
    BY <1>3 DEF Elements
  <2>1. i \in 1 .. Len(s) \/ (i > Len(s) /\ i - Len(s) \in 1 .. Len(t))
    BY <1>1
  <2>2. CASE i \in 1 .. Len(s)
    <3>1. u[i] = s[i]
      BY <2>2, <1>1, <1>2
    <3>2. QED BY <3>1, <2>2, <1>1 DEF Elements
  <2>3. CASE i > Len(s)
    <3>1. u[i] = t[i - Len(s)] /\ i - Len(s) \in 1 .. Len(t)
      BY <2>1, <2>3, <1>1, <1>2
    <3>2. QED BY <3>1, <1>1 DEF Elements
  <2>4. QED BY <2>1, <2>2, <2>3
<1>5. Elements(s) \cup Elements(t) \subseteq Elements(u)
  <2>1. ASSUME NEW i \in 1 .. Len(s) PROVE s[i] \in Elements(u)
    <3>1. i \in 1 .. Len(s) + Len(t) /\ u[i] = s[i]
      BY <1>1, <1>2
    <3>2. QED BY <3>1, <1>3 DEF Elements
  <2>2. ASSUME NEW i \in 1 .. Len(t) PROVE t[i] \in Elements(u)
    <3>1. i + Len(s) \in 1 .. Len(s) + Len(t) /\ ~(i + Len(s) <= Len(s)) /\ (i + Len(s)) - Len(s) = i
      BY <1>1
    <3>2. u[i + Len(s)] = t[i]
      BY <3>1, <1>2
    <3>3. QED BY <3>1, <3>2, <1>3 DEF Elements
  <2>3. QED BY <2>1, <2>2, <1>1 DEF Elements
<1>6. ASSUME NoRepeat(s), NoRepeat(t), Elements(s) \cap Elements(t) = {}
      PROVE  NoRepeat(u)
  <2>1. \A i \in 1 .. Len(s) : \A j \in 1 .. Len(t) : s[i] # t[j]
    BY <1>1, <1>6 DEF Elements
  <2> SUFFICES ASSUME NEW i \in 1 .. Len(s) + Len(t), NEW j \in 1 .. Len(s) + Len(t), u[i] = u[j]
               PROVE  i = j
    BY <1>3 DEF NoRepeat
  <2>2. /\ i \in 1 .. Len(s) \/ (i > Len(s) /\ i - Len(s) \in 1 .. Len(t))
        /\ j \in 1 .. Len(s) \/ (j > Len(s) /\ j - Len(s) \in 1 .. Len(t))
    BY <1>1
  <2>3. CASE i \in 1 .. Len(s) /\ j \in 1 .. Len(s)
    BY <2>3, <1>1, <1>2, <1>6 DEF NoRepeat
  <2>4. CASE i > Len(s) /\ j > Len(s)
    <3>1. t[i - Len(s)] = t[j - Len(s)] /\ i - Len(s) \in 1 .. Len(t) /\ j - Len(s) \in 1 .. Len(t)
      BY <2>2, <2>4, <1>1, <1>2
    <3>2. i - Len(s) = j - Len(s)
      BY <3>1, <1>1, <1>6 DEF NoRepeat
    <3>3. QED BY <3>2, <1>1
  <2>5. CASE i \in 1 .. Len(s) /\ j > Len(s)
    BY <2>5, <2>2, <2>1, <1>1, <1>2
  <2>6. CASE i > Len(s) /\ j \in 1 .. Len(s)
    BY <2>6, <2>2, <2>1, <1>1, <1>2
  <2>7. QED BY <2>2, <2>3, <2>4, <2>5, <2>6
<1>7. QED BY <1>2, <1>4, <1>5, <1>6 DEF u

-----------------------------------------------------------------------------
(***************************************************************************)
(* multiwrite_merge.                                                       *)
(***************************************************************************)
First(r) == shape[r].first
Size(r) == shape[r].n

\* Writes of the guest, in the order qsort left them.
Ordered(rs) ==
  /\ rs \in Seq(Elements(rs))
  /\ \A r \in Elements(rs) : /\ First(r) \in Nat /\ Size(r) \in Nat
                             /\ shape[r] \in Shapes /\ Op(r) = "write"
  /\ \A i, j \in 1 .. Len(rs) : i <= j => First(rs[i]) <= First(rs[j])

\* The first request up to the second, then the second.
LEMMA JoinedIs ==
  ASSUME NEW A, NEW p \in Parts(A), NEW r \in A, First(r) \in Nat, Size(r) \in Nat,
         p.first <= First(r), First(r) <= p.first + Len(p.vals)
  PROVE  /\ Joined(p, r) \in Parts(A) /\ Joined(p, r).first = p.first
         /\ Len(Joined(p, r).vals) = First(r) - p.first + Size(r)
         /\ \A j \in 1 .. First(r) - p.first : Joined(p, r).vals[j] = p.vals[j]
         /\ \A j \in 1 .. First(r) - p.first + Size(r) :
              j > First(r) - p.first => Joined(p, r).vals[j] = r
<1> DEFINE d == First(r) - p.first
           h == SubSeq(p.vals, 1, d)
           v == Vals(r)
<1>1. p.first \in Nat /\ p.vals \in Seq(A) /\ Len(p.vals) \in Nat /\ d \in 0 .. Len(p.vals)
  BY DEF Parts
<1>2. \A j \in 1 .. d : p.vals[j] \in A
  BY <1>1
<1>3. h \in Seq(A) /\ Len(h) = d /\ \A j \in 1 .. d : h[j] = p.vals[j]
  <2>1. 1 \in Int /\ d \in Int /\ d - 1 + 1 = d /\ \A j \in 1 .. d : 1 + j - 1 = j
    BY <1>1
  <2> HIDE DEF d
  <2>2. /\ h \in Seq(A) /\ Len(h) = IF 1 <= d THEN d - 1 + 1 ELSE 0
        /\ \A i \in 1 .. d - 1 + 1 : h[i] = p.vals[1 + i - 1]
    BY <1>2, <2>1, SubSeqProperties
  <2>3. QED BY <2>1, <2>2, <1>1
<1>4. v \in Seq(A) /\ Len(v) = Size(r) /\ \A j \in 1 .. Size(r) : v[j] = r
  BY DEF Vals, Size
<1>5. Joined(p, r) = [p EXCEPT !.vals = h \o v]
  BY DEF Joined, First
<1> HIDE DEF d, h, v
<1>6. /\ h \o v \in Seq(A) /\ Len(h \o v) = d + Size(r)
      /\ \A i \in 1 .. d + Size(r) : (h \o v)[i] = IF i <= d THEN h[i] ELSE v[i - d]
  <2>1. /\ h \o v \in Seq(A) /\ Len(h \o v) = Len(h) + Len(v)
        /\ \A i \in 1 .. Len(h) + Len(v) : (h \o v)[i] = IF i <= Len(h) THEN h[i] ELSE v[i - Len(h)]
    BY <1>3, <1>4, ConcatProperties, Zenon
  <2>2. QED BY <2>1, <1>3, <1>4, Zenon
<1>7. \A j \in 1 .. d : (h \o v)[j] = p.vals[j]
  BY <1>1, <1>3, <1>6
<1>8. ASSUME NEW j \in 1 .. d + Size(r), j > d PROVE (h \o v)[j] = r
  <2>1. j - d \in 1 .. Size(r) /\ ~(j <= d)
    BY <1>1, <1>8
  <2>2. QED BY <2>1, <1>4, <1>6
<1>9. Joined(p, r) \in Parts(A) /\ Joined(p, r).vals = h \o v /\ Joined(p, r).first = p.first
  <2>1. PICK c : c = h \o v
    OBVIOUS
  <2>2. c \in Seq(A) /\ Joined(p, r) = [p EXCEPT !.vals = c]
    BY <2>1, <1>5, <1>6
  <2>3. Joined(p, r) \in Parts(A) /\ Joined(p, r).vals = c /\ Joined(p, r).first = p.first
    BY <2>2 DEF Parts
  <2>4. QED BY <2>1, <2>3
<1>10. QED BY <1>6, <1>7, <1>8, <1>9, Zenon DEF d

\* The first k requests, merged to ws.
Before(rs, k) == {rs[i] : i \in 1 .. k}

PartOf(p, S) ==
  \A j \in 1 .. Len(p.vals) : p.vals[j] \in S /\ p.first + j - 1 \in Covers(p.vals[j])

Spanned(ws, x) == \E j \in 1 .. Len(ws) : Spans(ws[j], x)

MergeShape(ws, rs, k) ==
  /\ ws \in Seq(Parts(Elements(rs))) /\ Len(ws) \in 1 .. k
  /\ \A i \in 1 .. Len(ws) : PartOf(ws[i], Before(rs, k))

MergeEnd(ws, rs, k) ==
  /\ ws[Len(ws)].first <= First(rs[k])
  /\ ws[Len(ws)].first + Len(ws[Len(ws)].vals) = First(rs[k]) + Size(rs[k])

MergeSpans(ws, rs, k) ==
  NotNested => \A i \in 1 .. k : \A x \in Covers(rs[i]) : Spanned(ws, x)

MergeOne(ws, rs) == ~Apart /\ Len(rs) < IovMax => Len(ws) = 1

MergeOK(ws, rs, k) ==
  MergeShape(ws, rs, k) /\ MergeEnd(ws, rs, k) /\ MergeSpans(ws, rs, k) /\ MergeOne(ws, rs)

\* The first request.
LEMMA MergeStarts ==
  ASSUME NEW rs, Ordered(rs), Len(rs) >= 1
  PROVE  MergeOK(Merged(<<>>, rs[1]), rs, 1)
<1> DEFINE r == rs[1]
           p == [first |-> First(r), vals |-> Vals(r)]
           ws == <<p>>
<1>1. Len(rs) \in Nat /\ 1 \in DOMAIN rs /\ r \in Elements(rs)
  BY DEF Ordered, Elements
<1>2. First(r) \in Nat /\ Size(r) \in Nat
  BY <1>1 DEF Ordered
<1>3. Merged(<<>>, r) = ws
  BY DEF Merged, First
<1>4. Vals(r) \in Seq({r}) /\ Len(Vals(r)) = Size(r) /\ \A j \in 1 .. Size(r) : Vals(r)[j] = r
  BY <1>2 DEF Vals, Size
<1>5. p \in Parts(Elements(rs)) /\ p.first = First(r) /\ Len(p.vals) = Size(r) /\ p.vals = Vals(r)
  BY <1>1, <1>2, <1>4 DEF Parts
<1> HIDE DEF p
<1>6. ws \in Seq(Parts(Elements(rs))) /\ Len(ws) = 1 /\ ws[1] = p
  BY <1>5
<1> HIDE DEF ws
<1>7. r \in Before(rs, 1)
  BY DEF Before
<1>8. Covers(r) = First(r) .. First(r) + Size(r) - 1
  BY DEF Covers, First, Size
<1>9. PartOf(p, Before(rs, 1))
  <2> SUFFICES ASSUME NEW j \in 1 .. Size(r) PROVE p.vals[j] = r /\ p.first + j - 1 \in Covers(r)
    BY <1>5, <1>7 DEF PartOf
  <2>1. QED BY <1>2, <1>4, <1>5, <1>8
<1> HIDE DEF r
<1>10. MergeShape(ws, rs, 1)
  BY <1>6, <1>9 DEF MergeShape
<1>11. MergeEnd(ws, rs, 1)
  BY <1>2, <1>5, <1>6 DEF MergeEnd, r
<1>12. \A x \in Covers(r) : Spanned(ws, x)
  BY <1>5, <1>6, <1>8 DEF Spanned, Spans
<1>13. MergeSpans(ws, rs, 1)
  BY <1>12 DEF MergeSpans, r
<1>14. MergeOne(ws, rs)
  BY <1>6 DEF MergeOne
<1>15. QED BY <1>3, <1>10, <1>11, <1>13, <1>14 DEF MergeOK, r

\* A write merged from k requests has no more than k buffers.
LEMMA FewIovs ==
  ASSUME NEW rs, NEW k \in Nat, NEW p \in Parts(Elements(rs)), PartOf(p, Before(rs, k))
  PROVE  Iovs(p) \in 0 .. k
<1> DEFINE T == ToSet(p.vals)
           f == [i \in 1 .. k |-> rs[i]]
           B == Before(rs, k)
<1>1. T \subseteq B
  BY DEF PartOf, Parts, ToSet
<1>2. f \in Surjection(1 .. k, B)
  BY DEF Surjection, Before
<1>3. IsFiniteSet(1 .. k) /\ Cardinality(1 .. k) = k
  BY FS_Interval
<1> HIDE DEF f, B, T
<1>4. IsFiniteSet(B) /\ Cardinality(B) <= k
  BY <1>2, <1>3, FS_Surjection
<1>5. IsFiniteSet(T) /\ Cardinality(T) <= Cardinality(B)
  BY <1>1, <1>4, FS_Subset
<1>6. Cardinality(T) \in Nat /\ Cardinality(B) \in Nat
  BY <1>4, <1>5, FS_CardinalityType
<1>7. QED BY <1>4, <1>5, <1>6 DEF Iovs, T

\* Where the data of the joined write lies.
LEMMA JoinedPlace ==
  \A f, c, d \in Nat : \A j \in Int :
    c - f < j /\ j <= c - f + d => f + j - 1 \in c .. c + d - 1
OBVIOUS

LEMMA JoinedReach ==
  \A f, c, d \in Nat : \A x \in Int :
    f <= c /\ x \in c .. c + d - 1 => x \in f .. f + (c - f + d) - 1
OBVIOUS

LEMMA LongerReach ==
  \A f, m, n \in Nat : \A x \in Int :
    f + m <= f + n /\ x \in f .. f + m - 1 => x \in f .. f + n - 1
OBVIOUS

\* One more request, joined to the last write.
LEMMA MergeJoins ==
  ASSUME NEW rs, Ordered(rs), NEW k \in Nat, k >= 1, k + 1 <= Len(rs), NEW ws, MergeOK(ws, rs, k),
         Touch(Last(ws), rs[k + 1])
  PROVE  MergeOK(Merged(ws, rs[k + 1]), rs, k + 1)
<1> DEFINE E == Elements(rs)
           e == Len(ws)
           p == ws[e]
           r == rs[k + 1]
           q == rs[k]
           g == Joined(p, r)
           us == [ws EXCEPT ![e] = g]
<1>1. Len(rs) \in Nat /\ k \in DOMAIN rs /\ k + 1 \in DOMAIN rs /\ r \in E /\ q \in E
  BY DEF Ordered, Elements
<1>2. First(r) \in Nat /\ Size(r) \in Nat /\ First(q) \in Nat /\ Size(q) \in Nat /\ First(q) <= First(r)
  <2>1. k \in 1 .. Len(rs) /\ k + 1 \in 1 .. Len(rs) /\ k <= k + 1
    BY <1>1
  <2>2. First(q) <= First(r)
    BY <2>1 DEF Ordered
  <2>3. QED BY <1>1, <2>2 DEF Ordered
<1>3. /\ ws \in Seq(Parts(E)) /\ e \in 1 .. k /\ ws # <<>> /\ p \in Parts(E)
      /\ \A i \in 1 .. e : ws[i] \in Parts(E) /\ PartOf(ws[i], Before(rs, k))
  BY DEF MergeOK, MergeShape
<1>4. p.first <= First(q) /\ p.first + Len(p.vals) = First(q) + Size(q)
  BY DEF MergeOK, MergeEnd
<1>5. p.first \in Nat /\ p.vals \in Seq(E) /\ Len(p.vals) \in Nat
  BY <1>3 DEF Parts
<1>6. First(r) <= p.first + Len(p.vals) /\ p.first <= First(r)
  BY <1>2, <1>4, <1>5 DEF Touch, Last, First
<1>7. Merged(ws, r) = us
  BY <1>3 DEF Merged, Last
<1>8. Before(rs, k) \subseteq Before(rs, k + 1) /\ r \in Before(rs, k + 1)
  BY DEF Before
<1>9. Covers(r) = First(r) .. First(r) + Size(r) - 1
  BY DEF Covers, First, Size
<1>10. \A i \in 1 .. k + 1 : i \in 1 .. k \/ i = k + 1
  OBVIOUS
<1> HIDE DEF E, e, p, r, q
<1>11. /\ g \in Parts(E) /\ g.first = p.first
       /\ Len(g.vals) = First(r) - p.first + Size(r)
       /\ \A j \in 1 .. First(r) - p.first : g.vals[j] = p.vals[j]
       /\ \A j \in 1 .. First(r) - p.first + Size(r) : j > First(r) - p.first => g.vals[j] = r
  BY <1>1, <1>2, <1>3, <1>6, JoinedIs
<1> HIDE DEF g
<1>12. /\ us \in Seq(Parts(E)) /\ Len(us) = e /\ us[e] = g
       /\ \A i \in 1 .. e : i # e => us[i] = ws[i]
  BY <1>3, <1>11, ExceptSeq DEF e
<1> HIDE DEF us
<1>13. PartOf(g, Before(rs, k + 1))
  <2> SUFFICES ASSUME NEW j \in 1 .. Len(g.vals)
               PROVE  g.vals[j] \in Before(rs, k + 1) /\ g.first + j - 1 \in Covers(g.vals[j])
    BY DEF PartOf
  <2>1. CASE j <= First(r) - p.first
    <3>1. j \in 1 .. First(r) - p.first /\ j \in 1 .. Len(p.vals)
      BY <2>1, <1>2, <1>5, <1>6, <1>11
    <3>2. p.vals[j] \in Before(rs, k) /\ p.first + j - 1 \in Covers(p.vals[j])
      BY <3>1, <1>3 DEF PartOf, p
    <3>3. QED BY <3>1, <3>2, <1>8, <1>11
  <2>2. CASE j > First(r) - p.first
    <3>1. g.vals[j] = r
      BY <2>2, <1>11
    <3>4. j \in Int /\ First(r) - p.first < j /\ j <= First(r) - p.first + Size(r)
      BY <2>2, <1>2, <1>5, <1>11
    <3>5. p.first + j - 1 \in First(r) .. First(r) + Size(r) - 1
      BY <3>4, <1>2, <1>5, JoinedPlace
    <3>2. g.first + j - 1 \in First(r) .. First(r) + Size(r) - 1
      BY <3>5, <1>11
    <3>3. QED BY <3>1, <3>2, <1>8, <1>9
  <2>3. QED BY <2>1, <2>2, <1>2, <1>5
<1>14. MergeShape(us, rs, k + 1)
  <2>1. ASSUME NEW i \in 1 .. e PROVE PartOf(us[i], Before(rs, k + 1))
    <3>1. CASE i = e
      BY <3>1, <1>12, <1>13
    <3>2. CASE i # e
      BY <3>2, <1>3, <1>8, <1>12 DEF PartOf
    <3>3. QED BY <3>1, <3>2
  <2>2. e \in 1 .. k + 1
    BY <1>3
  <2>3. QED BY <2>1, <2>2, <1>12 DEF MergeShape, E
<1>15. MergeEnd(us, rs, k + 1)
  BY <1>2, <1>5, <1>6, <1>11, <1>12 DEF MergeEnd, r
<1>16. MergeSpans(us, rs, k + 1)
  <2> SUFFICES ASSUME NotNested, NEW i \in 1 .. k + 1, NEW x \in Covers(rs[i])
               PROVE  Spanned(us, x)
    BY DEF MergeSpans
  <2>1. Spans(g, x) => Spanned(us, x)
    BY <1>3, <1>12 DEF Spanned
  <2>2. CASE i = k + 1
    <3>1. x \in First(r) .. First(r) + Size(r) - 1
      BY <2>2, <1>9 DEF r
    <3>4. x \in Int
      BY <3>1, <1>2
    <3>5. x \in p.first .. p.first + (First(r) - p.first + Size(r)) - 1
      BY <3>1, <3>4, <1>2, <1>5, <1>6, JoinedReach
    <3>2. Spans(g, x)
      BY <3>5, <1>11 DEF Spans
    <3>3. QED BY <2>1, <3>2
  <2>3. CASE i \in 1 .. k
    <3>1. PICK j \in 1 .. e : Spans(ws[j], x)
      BY <2>3 DEF MergeOK, MergeSpans, Spanned, e
    <3>2. CASE j # e
      BY <3>1, <3>2, <1>12 DEF Spanned
    <3>3. CASE j = e
      <4>1. First(q) + Size(q) <= First(r) + Size(r)
        BY <1>1, <1>2 DEF NotNested, Ordered, E, First, Size, Op
      <4>2. x \in p.first .. p.first + Len(p.vals) - 1
        BY <3>1, <3>3 DEF Spans, p
      <4>3. PICK n : n = Len(g.vals)
        OBVIOUS
      <4>4. n = First(r) - p.first + Size(r) /\ g.first = p.first
        BY <4>3, <1>11
      <4>5. p.first + Len(p.vals) <= p.first + n /\ n \in Nat
        <5>1. \A a, b, c, d, f, m \in Nat : /\ f <= c /\ c <= f + m /\ f + m = a + b /\ a + b <= c + d
                 => f + m <= f + (c - f + d) /\ c - f + d \in Nat
          OBVIOUS
        <5>2. QED BY <5>1, <4>1, <4>4, <1>2, <1>4, <1>5, <1>6
      <4>6. x \in p.first .. p.first + n - 1
        <5>1. x \in Int
          BY <4>2, <1>5
        <5>2. QED BY <5>1, <4>2, <4>5, <1>5, LongerReach
      <4>7. Spans(g, x)
        BY <4>3, <4>4, <4>6 DEF Spans
      <4>8. QED BY <2>1, <4>7
    <3>4. QED BY <3>2, <3>3
  <2>4. QED BY <2>2, <2>3, <1>10
<1>17. MergeOne(us, rs)
  BY <1>12 DEF MergeOne, MergeOK, e
<1>18. QED BY <1>7, <1>14, <1>15, <1>16, <1>17 DEF MergeOK, r

\* One more request, as a write of its own.
LEMMA MergeAppends ==
  ASSUME NEW rs, Ordered(rs), NEW k \in Nat, k >= 1, k + 1 <= Len(rs), NEW ws, MergeOK(ws, rs, k),
         IovMax \in Nat, ~Touch(Last(ws), rs[k + 1])
  PROVE  MergeOK(Merged(ws, rs[k + 1]), rs, k + 1)
<1> DEFINE E == Elements(rs)
           e == Len(ws)
           p == ws[e]
           r == rs[k + 1]
           q == rs[k]
           g == [first |-> First(r), vals |-> Vals(r)]
           us == Append(ws, g)
<1>1. Len(rs) \in Nat /\ k \in DOMAIN rs /\ k + 1 \in DOMAIN rs /\ r \in E /\ q \in E
  BY DEF Ordered, Elements
<1>2. First(r) \in Nat /\ Size(r) \in Nat /\ First(q) \in Nat /\ Size(q) \in Nat
  BY <1>1 DEF Ordered
<1>3. /\ ws \in Seq(Parts(E)) /\ e \in 1 .. k /\ ws # <<>> /\ p \in Parts(E)
      /\ \A i \in 1 .. e : ws[i] \in Parts(E) /\ PartOf(ws[i], Before(rs, k))
  BY DEF MergeOK, MergeShape
<1>4. p.first + Len(p.vals) = First(q) + Size(q)
  BY DEF MergeOK, MergeEnd
<1>5. Merged(ws, r) = us
  BY DEF Merged, First
<1>6. Before(rs, k) \subseteq Before(rs, k + 1) /\ r \in Before(rs, k + 1)
  BY DEF Before
<1>7. Covers(r) = First(r) .. First(r) + Size(r) - 1
  BY DEF Covers, First, Size
<1>8. \A i \in 1 .. k + 1 : i \in 1 .. k \/ i = k + 1
  OBVIOUS
<1>9. \A i \in 1 .. e + 1 : i \in 1 .. e \/ i = e + 1
  BY <1>3
<1>10. Vals(r) \in Seq({r}) /\ Len(Vals(r)) = Size(r) /\ \A j \in 1 .. Size(r) : Vals(r)[j] = r
  BY <1>2 DEF Vals, Size
<1>11. g \in Parts(E) /\ g.first = First(r) /\ Len(g.vals) = Size(r) /\ g.vals = Vals(r)
  BY <1>1, <1>2, <1>10 DEF Parts
<1>12. ~(~Apart /\ Len(rs) < IovMax)
  <2> SUFFICES ASSUME ~Apart, Len(rs) < IovMax PROVE FALSE
    OBVIOUS
  <2>1. ~(First(q) + Size(q) < First(r))
    BY <1>1 DEF Apart, Ordered, First, Size, Op
  <2>2. Iovs(p) \in 0 .. k
    BY <1>3, FewIovs
  <2>4. First(r) <= p.first + Len(p.vals) /\ Iovs(p) + 2 <= IovMax
    BY <2>1, <2>2, <1>1, <1>2, <1>4
  <2>5. QED BY <2>4 DEF Touch, Last, First
<1> HIDE DEF E, e, p, r, q, g
<1>13. /\ us \in Seq(Parts(E)) /\ Len(us) = e + 1 /\ us[e + 1] = g
       /\ \A i \in 1 .. e : us[i] = ws[i]
  BY <1>3, <1>11, Extended DEF e
<1> HIDE DEF us
<1>14. PartOf(g, Before(rs, k + 1))
  <2> SUFFICES ASSUME NEW j \in 1 .. Size(r) PROVE g.vals[j] = r /\ g.first + j - 1 \in Covers(r)
    BY <1>6, <1>11 DEF PartOf
  <2>1. QED BY <1>2, <1>7, <1>10, <1>11
<1>15. MergeShape(us, rs, k + 1)
  <2>1. ASSUME NEW i \in 1 .. e + 1 PROVE PartOf(us[i], Before(rs, k + 1))
    <3>1. CASE i = e + 1
      BY <3>1, <1>13, <1>14
    <3>2. CASE i \in 1 .. e
      BY <3>2, <1>3, <1>6, <1>13 DEF PartOf
    <3>3. QED BY <3>1, <3>2, <1>9
  <2>2. e + 1 \in 1 .. k + 1
    BY <1>3
  <2>3. QED BY <2>1, <2>2, <1>13 DEF MergeShape, E
<1>16. MergeEnd(us, rs, k + 1)
  BY <1>2, <1>11, <1>13 DEF MergeEnd, r
<1>17. MergeSpans(us, rs, k + 1)
  <2> SUFFICES ASSUME NotNested, NEW i \in 1 .. k + 1, NEW x \in Covers(rs[i])
               PROVE  Spanned(us, x)
    BY DEF MergeSpans
  <2>1. e + 1 \in 1 .. e + 1 /\ \A j \in 1 .. e : j \in 1 .. e + 1
    BY <1>3
  <2>2. CASE i = k + 1
    <3>1. x \in First(r) .. First(r) + Size(r) - 1
      BY <2>2, <1>7 DEF r
    <3>2. Spans(g, x)
      BY <3>1, <1>11 DEF Spans
    <3>3. QED BY <2>1, <3>2, <1>13 DEF Spanned
  <2>3. CASE i \in 1 .. k
    <3>1. PICK j \in 1 .. e : Spans(ws[j], x)
      BY <2>3 DEF MergeOK, MergeSpans, Spanned, e
    <3>2. QED BY <3>1, <2>1, <1>13 DEF Spanned
  <2>4. QED BY <2>2, <2>3, <1>8
<1>18. MergeOne(us, rs)
  BY <1>12 DEF MergeOne
<1>19. QED BY <1>5, <1>15, <1>16, <1>17, <1>18 DEF MergeOK, r

\* The first n values of the recursive function of multiwrite_merge.
MergeTable(g, rs, n) ==
  /\ g = [k \in 0 .. n |-> g[k]] /\ g[0] = <<>>
  /\ \A k \in 1 .. n : g[k] = Merged(g[k - 1], rs[k])

LEMMA MergeTableExists ==
  ASSUME NEW rs
  PROVE  \A n \in Nat : \E g : MergeTable(g, rs, n)
<1> DEFINE T == {n \in Nat : ~ \E g : MergeTable(g, rs, n)}
<1> SUFFICES ASSUME T # {} PROVE FALSE
  OBVIOUS
<1>1. PICK n \in T : \A m \in T : n <= m
  BY LeastOf
<1>2. n # 0
  <2> DEFINE g == [k \in 0 .. 0 |-> <<>>]
  <2>1. MergeTable(g, rs, 0)
    BY DEF MergeTable
  <2>2. QED BY <2>1
<1>3. n - 1 \in Nat /\ n - 1 \notin T
  BY <1>1, <1>2
<1>4. PICK g : MergeTable(g, rs, n - 1)
  BY <1>3
<1>5. PICK x : x = Merged(g[n - 1], rs[n])
  OBVIOUS
<1> DEFINE h == [k \in 0 .. n |-> IF k = n THEN x ELSE g[k]]
<1>6. h = [k \in 0 .. n |-> h[k]] /\ h[0] = <<>>
  BY <1>2, <1>3, <1>4 DEF MergeTable
<1>7. ASSUME NEW k \in 1 .. n PROVE h[k] = Merged(h[k - 1], rs[k])
  <2>1. CASE k = n
    <3>1. h[k] = x /\ h[k - 1] = g[n - 1]
      BY <2>1, <1>3
    <3>2. QED BY <2>1, <3>1, <1>5
  <2>2. CASE k # n
    <3>1. h[k] = g[k] /\ h[k - 1] = g[k - 1] /\ k \in 1 .. n - 1
      BY <2>2, <1>3
    <3>2. QED BY <3>1, <1>4 DEF MergeTable
  <2>3. QED BY <2>1, <2>2
<1> HIDE DEF h
<1>8. MergeTable(h, rs, n)
  BY <1>6, <1>7 DEF MergeTable
<1>9. QED BY <1>8

LEMMA MergeRight ==
  ASSUME NEW rs, Ordered(rs), Len(rs) >= 1, IovMax \in Nat
  PROVE  MergeOK(multiwrite_merge(rs), rs, Len(rs))
<1> DEFINE n == Len(rs)
           E(f) == [k \in 0 .. Len(rs) |-> IF k = 0 THEN <<>> ELSE Merged(f[k - 1], rs[k])]
           F == CHOOSE f : f = E(f)
<1>1. n \in Nat
  BY DEF Ordered
<1>2. PICK g : MergeTable(g, rs, n)
  BY <1>1, MergeTableExists
<1>3. g = E(g)
  <2>1. g = [k \in 0 .. n |-> g[k]] /\ g[0] = <<>>
    BY <1>2 DEF MergeTable
  <2>2. \A k \in 0 .. n : k # 0 => k \in 1 .. n
    BY <1>1
  <2>3. \A k \in 0 .. n : g[k] = IF k = 0 THEN <<>> ELSE Merged(g[k - 1], rs[k])
    BY <2>1, <2>2, <1>2 DEF MergeTable
  <2>4. QED BY <2>1, <2>3
<1>4. F = E(F)
  <2> HIDE DEF E
  <2>1. QED BY <1>3
<1>5. multiwrite_merge(rs) = F[n]
  BY DEF multiwrite_merge
<1>6. F[0] = <<>> /\ \A k \in 1 .. n : F[k] = Merged(F[k - 1], rs[k])
  <2> DEFINE e == E(F)
  <2>1. e[0] = <<>>
    BY <1>1
  <2>2. \A k \in 1 .. n : e[k] = Merged(F[k - 1], rs[k])
    BY <1>1
  <2>3. F = e
    BY <1>4
  <2> HIDE DEF e
  <2>4. QED BY ONLY <2>1, <2>2, <2>3
<1> HIDE DEF F
<1> DEFINE T == {k \in Nat : k \in 1 .. n /\ ~MergeOK(F[k], rs, k)}
<1>7. T = {}
  <2> SUFFICES ASSUME T # {} PROVE FALSE
    OBVIOUS
  <2>1. PICK k \in T : \A m \in T : k <= m
    BY LeastOf
  <2>2. CASE k = 1
    <3>1. F[1] = Merged(<<>>, rs[1])
      BY <2>2, <1>6
    <3>2. QED BY <3>1, <2>1, <2>2, MergeStarts
  <2>3. CASE k # 1
    <3>1. PICK j : j = k - 1
      OBVIOUS
    <3>2. j \in Nat /\ j >= 1 /\ j + 1 = k /\ j + 1 <= Len(rs) /\ j \in 1 .. n /\ j \notin T
      BY <3>1, <2>1, <2>3, <1>1
    <3>3. MergeOK(F[j], rs, j)
      BY <3>2
    <3>4. F[k] = Merged(F[j], rs[j + 1])
      BY <3>1, <3>2, <1>6
    <3>5. MergeOK(Merged(F[j], rs[j + 1]), rs, j + 1)
      <4>1. CASE Touch(Last(F[j]), rs[j + 1])
        BY <4>1, <3>2, <3>3, MergeJoins
      <4>2. CASE ~Touch(Last(F[j]), rs[j + 1])
        BY <4>2, <3>2, <3>3, MergeAppends
      <4>3. QED BY <4>1, <4>2
    <3>6. QED BY <3>2, <3>4, <3>5, <2>1
  <2>4. QED BY <2>2, <2>3
<1>8. n \in 1 .. n
  BY <1>1
<1>9. QED BY <1>5, <1>7, <1>8

-----------------------------------------------------------------------------
(***************************************************************************)
(* Types.                                                                  *)
(***************************************************************************)
Kinds == [op : {"read", "write", "flush"}, first : Nat, n : Nat]

LEMMA SetupFacts ==
  ASSUME setup \in Setups
  PROVE  /\ N \in Nat /\ N >= 1 /\ setup.n \in 1 .. N
         /\ BatchSize \in Nat /\ BatchSize >= 1 /\ IovMax \in Nat /\ IovMax >= 1
         /\ Policy \in {"ignore", "report", "stop"} /\ MaxFails \in Nat /\ Migrates \in BOOLEAN
         /\ Shapes \subseteq Kinds
         /\ \A s \in Shapes : s.op = "write" => s.first .. s.first + s.n - 1 \subseteq Sectors
BY VirtioBlkAssumption DEF BatchSize, IovMax, Policy, MaxFails, Migrates, Shapes, Kinds

\* The setup does not change.
LEMMA SetupSame ==
  ASSUME setup' = setup
  PROVE  /\ Shapes' = Shapes /\ BatchSize' = BatchSize /\ IovMax' = IovMax /\ Policy' = Policy
         /\ Failures' = Failures /\ MaxFails' = MaxFails /\ Migrates' = Migrates
         /\ OnePart' = OnePart /\ Tolerated' = Tolerated /\ DataHypothesis' = DataHypothesis
<1>1. /\ Shapes' = Shapes /\ BatchSize' = BatchSize /\ IovMax' = IovMax /\ Policy' = Policy
      /\ Failures' = Failures /\ MaxFails' = MaxFails /\ Migrates' = Migrates
  BY DEF Shapes, BatchSize, IovMax, Policy, Failures, MaxFails, Migrates
<1>2. Apart' = Apart /\ NotNested' = NotNested /\ Honest' = Honest
  BY <1>1 DEF Apart, NotNested, Honest
<1>3. OnePart' = OnePart /\ Tolerated' = Tolerated
  BY <1>1, <1>2 DEF Tolerated, OnePart
<1>4. QED BY <1>1, <1>2, <1>3 DEF DataHypothesis

LEMMA GuestFacts ==
  ASSUME GuestTyped
  PROVE  /\ Len(shape) \in Nat /\ Len(avail) \in Nat /\ Len(avail) <= Len(shape)
         /\ Len(shape) <= N /\ 1 .. Len(shape) \subseteq Req /\ Gone \subseteq 1 .. Len(shape)
         /\ Made = 1 .. Len(shape)
         /\ \A r \in 1 .. Len(shape) : shape[r] \in Shapes /\ First(r) \in Nat /\ Size(r) \in Nat
         /\ \A r \in 1 .. Len(shape) : Op(r) = "write" => Covers(r) \subseteq Sectors
<1>1. /\ Len(shape) \in Nat /\ Len(avail) \in Nat /\ Len(avail) <= Len(shape)
      /\ Len(shape) <= N /\ Made = 1 .. Len(shape)
      /\ \A r \in 1 .. Len(shape) : shape[r] \in Shapes
  BY SetupFacts DEF GuestTyped, Queue, Made
<1>2. 1 .. Len(shape) \subseteq Req /\ Gone \subseteq 1 .. Len(shape)
  BY <1>1, SetupFacts DEF Req, Gone, GuestTyped
<1>3. \A r \in 1 .. Len(shape) : First(r) \in Nat /\ Size(r) \in Nat
  BY <1>1, SetupFacts DEF First, Size, Kinds, GuestTyped
<1>4. \A r \in 1 .. Len(shape) : Op(r) = "write" => Covers(r) \subseteq Sectors
  BY <1>1, SetupFacts DEF Op, Covers, GuestTyped
<1>5. QED BY <1>1, <1>2, <1>3, <1>4

\* What is typed for some requests is typed for more.
LEMMA Wider ==
  ASSUME NEW A, NEW B, A \subseteq B, NEW n \in Nat, NEW m \in Nat, n <= m
  PROVE  /\ Seq(A) \subseteq Seq(B) /\ Parts(A) \subseteq Parts(B)
         /\ Subs(A) \subseteq Subs(B) /\ Mcbs(A) \subseteq Mcbs(B)
         /\ Seq(Mcbs(A)) \subseteq Seq(Mcbs(B))
         /\ PartsInFlight(A, n) \subseteq PartsInFlight(B, m)
         /\ OthersInFlight(A) \subseteq OthersInFlight(B)
<1>1. Seq(A) \subseteq Seq(B)
  OBVIOUS
<1>2. Parts(A) \subseteq Parts(B)
  BY <1>1 DEF Parts
<1>3. Seq(Parts(A)) \subseteq Seq(Parts(B))
  <2> HIDE DEF Parts
  <2>1. QED BY <1>2
<1>4. Subs(A) \subseteq Subs(B)
  BY <1>1, <1>3 DEF Subs
<1>5. Mcbs(A) \subseteq Mcbs(B)
  BY <1>1 DEF Mcbs
<1>6. Seq(Mcbs(A)) \subseteq Seq(Mcbs(B))
  BY <1>5
<1>7. 1 .. n \subseteq 1 .. m
  OBVIOUS
<1>8. PartsInFlight(A, n) \subseteq PartsInFlight(B, m)
  BY <1>1, <1>7 DEF PartsInFlight
<1>9. OthersInFlight(A) \subseteq OthersInFlight(B)
  BY DEF OthersInFlight
<1>10. QED BY <1>1, <1>2, <1>4, <1>5, <1>6, <1>8, <1>9

\* A step: the requests taken stay taken, requests and batches stay as made.
Steady ==
  /\ Gone \subseteq Gone' /\ Writes \subseteq Writes'
  /\ Len(shape) <= Len(shape') /\ \A r \in 1 .. Len(shape) : shape'[r] = shape[r]
  /\ Len(mcbs) <= Len(mcbs') /\ Len(mcbs') \in Nat
  /\ \A m \in 1 .. Len(mcbs) : mcbs'[m].cbs = mcbs[m].cbs

\* The batches as they were, but for what multiwrite_cb counts.
McbsSame ==
  Len(mcbs') = Len(mcbs) /\ \A m \in 1 .. Len(mcbs) : mcbs'[m].cbs = mcbs[m].cbs

LEMMA NotTaking ==
  ASSUME BlkTyped, UNCHANGED <<shape, avail>>, McbsSame
  PROVE  Steady /\ Gone' = Gone /\ Writes' = Writes
<1>1. Gone' = Gone /\ Writes' = Writes
  BY DEF Gone, Writes, Op
<1>2. Len(shape) \in Nat /\ Len(mcbs) \in Nat
  BY DEF BlkTyped, GuestTyped, DeviceTyped
<1>3. QED BY <1>1, <1>2 DEF Steady, McbsSame

LEMMA ListIsFunction ==
  ASSUME NEW A, NEW s \in Seq(A), NEW n, Len(s) = n
  PROVE  s = [i \in 1 .. n |-> s[i]]
OBVIOUS

\* A request is taken off the queue.
LEMMA QueueTaken ==
  ASSUME GuestTyped, avail # <<>>, avail' = Tail(avail), UNCHANGED <<setup, shape, before>>,
         used' \in [Req -> Nat], status' \in [Req -> {"none", "ok", "ioerr"}]
  PROVE  /\ GuestTyped' /\ Len(avail') = Len(avail) - 1
         /\ Head(avail) = Len(shape) - Len(avail) + 1 /\ Gone' = Gone \cup {Head(avail)}
         /\ Gone \subseteq Gone' /\ Writes \subseteq Writes' /\ Head(avail) \in Req
         /\ Elements(avail') = Elements(avail) \ {Head(avail)}
<1> DEFINE l == Len(avail)
           n == Len(shape)
<1>1. n \in Nat /\ l \in Nat /\ l <= n /\ l >= 1 /\ n <= N
  BY GuestFacts, EmptySeq DEF GuestTyped
<1>2. \A i \in 1 .. l : avail[i] = n - l + i
  BY DEF GuestTyped, Queue
<1>3. avail \in Seq(Req) /\ DOMAIN avail = 1 .. l
  BY DEF GuestTyped
<1>4. Tail(avail) \in Seq(Req) /\ Len(Tail(avail)) = l - 1
      /\ \A i \in 1 .. l - 1 : Tail(avail)[i] = avail[i + 1]
  BY <1>1, <1>3, HeadTailProperties
<1>5. Head(avail) = n - l + 1
  BY <1>1, <1>2, <1>3
<1>6. \A i \in 1 .. l - 1 : avail'[i] = n - (l - 1) + i
  <2> SUFFICES ASSUME NEW i \in 1 .. l - 1 PROVE avail'[i] = n - (l - 1) + i
    OBVIOUS
  <2>1. i + 1 \in 1 .. l /\ n - l + (i + 1) = n - (l - 1) + i
    BY <1>1
  <2>2. QED BY <2>1, <1>2, <1>4
<1>7. avail' \in Seq(Req) /\ Len(avail') = l - 1
  BY <1>4
<1>8. Queue'
  <2>1. Len(shape') = n /\ l - 1 \in 0 .. n
    BY <1>1
  <2>2. avail' = [i \in 1 .. l - 1 |-> n - (l - 1) + i]
    <3>1. avail' = [i \in 1 .. l - 1 |-> avail'[i]]
      BY <1>7, ListIsFunction, Zenon
    <3>2. QED BY <3>1, <1>6, Zenon
  <2>3. QED BY <2>1, <2>2, <1>7 DEF Queue
<1>9. GuestTyped'
  BY <1>7, <1>8, SetupSame DEF GuestTyped
<1>10. Gone' = Gone \cup {Head(avail)}
  <2>1. Gone = 1 .. n - l /\ Gone' = 1 .. n - (l - 1)
    BY <1>7 DEF Gone
  <2>2. QED BY <2>1, <1>1, <1>5
<1>11. Writes \subseteq Writes'
  BY <1>10 DEF Writes, Op
<1>12. Head(avail) \in Req
  BY <1>1, <1>3
<1>13. NoRepeat(avail)
  BY <1>1, <1>2, <1>3 DEF NoRepeat
<1>14. Elements(avail') = Elements(avail) \ {Head(avail)}
  BY <1>13, <1>3, Tails
<1>15. QED BY <1>5, <1>7, <1>9, <1>10, <1>11, <1>12, <1>14

\* The guest's next request.
LEMMA QueueGrows ==
  ASSUME GuestTyped, NEW sh \in Shapes, Submit(sh), setup' = setup
  PROVE  /\ GuestTyped' /\ Len(shape') = Len(shape) + 1 /\ Len(shape) + 1 \in Req
         /\ Gone' = Gone /\ Writes' = Writes
         /\ \A r \in 1 .. Len(shape) : shape'[r] = shape[r] /\ before'[r] = before[r]
         /\ before'[Len(shape) + 1] = {r \in 1 .. Len(shape) : used[r] > 0}
         /\ Elements(avail') = Elements(avail) \cup {Len(shape) + 1}
<1> DEFINE l == Len(avail)
           n == Len(shape)
<1>1. n \in Nat /\ l \in Nat /\ l <= n /\ n < setup.n /\ n + 1 <= N /\ n + 1 \in Req
  BY GuestFacts, SetupFacts DEF GuestTyped, Submit, Req
<1>2. /\ shape \in Seq(Shapes) /\ avail \in Seq(Req) /\ before \in Seq(SUBSET Req) /\ Len(before) = n
      /\ Made = 1 .. n
  BY GuestFacts DEF GuestTyped
<1>3. {r \in Made : used[r] > 0} \in SUBSET Req
  BY <1>2, GuestFacts
<1>4. /\ shape' \in Seq(Shapes) /\ Len(shape') = n + 1
      /\ \A r \in 1 .. n : shape'[r] = shape[r]
  BY <1>2, Extended DEF Submit
<1>5. PICK b : b = {r \in Made : used[r] > 0}
  OBVIOUS
<1>6. /\ before' \in Seq(SUBSET Req) /\ Len(before') = n + 1
      /\ (\A r \in 1 .. n : before'[r] = before[r]) /\ before'[n + 1] = b
  <2>1. before' = Append(before, b) /\ b \in SUBSET Req
    BY <1>3, <1>5 DEF Submit
  <2>2. QED BY <2>1, <1>2, Extended
<1>7. /\ avail' \in Seq(Req) /\ Len(avail') = l + 1
      /\ (\A i \in 1 .. l : avail'[i] = avail[i]) /\ avail'[l + 1] = n + 1
  <2>1. avail' = Append(avail, n + 1)
    BY DEF Submit
  <2>2. QED BY <2>1, <1>1, <1>2, Extended
<1>8. \A i \in 1 .. l : avail[i] = n - l + i
  BY DEF GuestTyped, Queue
<1>9. \A i \in 1 .. l + 1 : avail'[i] = (n + 1) - (l + 1) + i
  <2> SUFFICES ASSUME NEW i \in 1 .. l + 1 PROVE avail'[i] = (n + 1) - (l + 1) + i
    OBVIOUS
  <2>1. CASE i = l + 1
    BY <2>1, <1>1, <1>7
  <2>2. CASE i \in 1 .. l
    BY <2>2, <1>1, <1>7, <1>8
  <2>3. QED BY <2>1, <2>2, <1>1
<1>10. Queue'
  <2>1. l + 1 \in 0 .. n + 1
    BY <1>1
  <2>2. avail' = [i \in 1 .. l + 1 |-> (n + 1) - (l + 1) + i]
    BY <1>7, <1>9
  <2>3. QED BY <2>1, <2>2, <1>4, <1>7 DEF Queue
<1>11. GuestTyped'
  <2>1. n + 1 <= setup'.n /\ setup' \in Setups /\ Shapes' = Shapes
    BY <1>1, SetupSame, SetupFacts DEF GuestTyped
  <2>2. UNCHANGED <<used, status>>
    BY DEF Submit, done
  <2>3. QED BY <2>1, <2>2, <1>4, <1>6, <1>7, <1>10 DEF GuestTyped
<1>12. Gone' = Gone
  <2>1. Gone = 1 .. n - l /\ Gone' = 1 .. (n + 1) - (l + 1)
    BY <1>4, <1>7 DEF Gone
  <2>2. QED BY <2>1, <1>1
<1>13. Gone \subseteq 1 .. n
  BY GuestFacts
<1>14. Writes' = Writes
  BY <1>4, <1>12, <1>13 DEF Writes, Op
<1>15. Elements(avail') = Elements(avail) \cup {n + 1}
  <2>1. avail' = Append(avail, n + 1)
    BY DEF Submit
  <2>2. NoRepeat(avail) /\ n + 1 \notin Elements(avail)
    <3>1. DOMAIN avail = 1 .. l
      BY <1>2
    <3>2. \A i \in 1 .. l : avail[i] # n + 1
      BY <1>1, <1>8
    <3>3. \A i, j \in 1 .. l : avail[i] = avail[j] => i = j
      BY <1>1, <1>8
    <3>4. QED BY <3>1, <3>2, <3>3 DEF NoRepeat, Elements
  <2>3. QED BY <2>1, <2>2, <1>1, <1>2, Appends
<1>16. QED BY <1>1, <1>2, <1>4, <1>5, <1>6, <1>11, <1>12, <1>14, <1>15

\* What a step that is steady leaves alone stays typed.
LEMMA DeviceKept ==
  ASSUME BlkTyped, Steady
  PROVE  /\ walk \in Seq(Gone') /\ rq \in Seq(Gone') /\ mrb \in Seq(Writes')
         /\ sub \in Subs(Writes') /\ mcbs \in Seq(Mcbs(Writes'))
         /\ flight \subseteq PartsInFlight(Writes', Len(mcbs')) \cup OthersInFlight(Gone')
         /\ disk \in [Sectors -> Writes' \cup {Nobody}]
<1>1. Len(mcbs) \in Nat /\ Len(mcbs') \in Nat /\ Len(mcbs) <= Len(mcbs')
  BY DEF Steady, BlkTyped, DeviceTyped
<1>2. Gone \subseteq Gone' /\ Writes \subseteq Writes'
  BY DEF Steady
<1>3. PICK G, W, g, w, n, m : G = Gone' /\ W = Writes' /\ g = Gone /\ w = Writes
                              /\ n = Len(mcbs) /\ m = Len(mcbs')
  OBVIOUS
<1>4. /\ Seq(g) \subseteq Seq(G) /\ OthersInFlight(g) \subseteq OthersInFlight(G)
      /\ Seq(w) \subseteq Seq(W) /\ Subs(w) \subseteq Subs(W) /\ Seq(Mcbs(w)) \subseteq Seq(Mcbs(W))
      /\ PartsInFlight(w, n) \subseteq PartsInFlight(W, m)
  BY <1>1, <1>2, <1>3, Wider
<1>5. /\ walk \in Seq(G) /\ rq \in Seq(G) /\ mrb \in Seq(W) /\ sub \in Subs(W)
      /\ mcbs \in Seq(Mcbs(W))
      /\ flight \subseteq PartsInFlight(W, m) \cup OthersInFlight(G)
  BY <1>3, <1>4, Zenon DEF BlkTyped, DeviceTyped
<1>6. disk \in [Sectors -> W \cup {Nobody}]
  BY <1>2, <1>3 DEF BlkTyped, DeviceTyped
<1>7. QED BY <1>3, <1>5, <1>6

LEMMA PartsKept ==
  ASSUME BlkTyped, Steady
  PROVE  /\ \A w \in flight : w.op # "write" => w.op = shape'[w.req].op
         /\ \A w \in flight : w.op = "write" => PartRight(w, mcbs'[w.mcb].cbs, shape')
         /\ at = "submit" => \A j \in sub.i .. Len(sub.reqs) :
                               PartRight(sub.reqs[j], mcbs'[sub.mcb].cbs, shape')
         /\ \A x \in Sectors : disk[x] # Nobody => /\ shape'[disk[x]] = shape[disk[x]]
                                                    /\ Op(disk[x]) = "write" /\ x \in Covers(disk[x])
<1>1. Gone \subseteq 1 .. Len(shape) /\ \A r \in Gone : shape'[r] = shape[r]
  BY GuestFacts DEF BlkTyped, Steady
<1>2. Writes \subseteq Gone
  BY DEF Writes
<1>3. ASSUME NEW p, NEW m \in 1 .. Len(mcbs), PartRight(p, mcbs[m].cbs, shape)
      PROVE  PartRight(p, mcbs'[m].cbs, shape')
  <2>1. Elements(mcbs[m].cbs) \subseteq Gone
    <3>1. mcbs[m] \in Mcbs(Writes)
      BY <1>3 DEF BlkTyped, DeviceTyped
    <3>2. mcbs[m].cbs \in Seq(Writes)
      BY <3>1 DEF Mcbs
    <3>3. QED BY <3>2, <1>2, ListType
  <2>2. mcbs'[m].cbs = mcbs[m].cbs
    BY <1>3 DEF Steady
  <2>3. QED BY <2>1, <2>2, <1>1, <1>3 DEF PartRight
<1>4. \A w \in flight : /\ w.op # "write" => w.req \in Gone
                        /\ w.op = "write" => w.mcb \in 1 .. Len(mcbs)
  BY DEF BlkTyped, DeviceTyped, PartsInFlight, OthersInFlight
<1>5. \A w \in flight : w.op # "write" => w.op = shape'[w.req].op
  BY <1>1, <1>4 DEF BlkTyped, DeviceTyped, Op
<1>6. \A w \in flight : w.op = "write" => PartRight(w, mcbs'[w.mcb].cbs, shape')
  BY <1>3, <1>4 DEF BlkTyped, PartsRight
<1>7. ASSUME at = "submit", NEW j \in sub.i .. Len(sub.reqs)
      PROVE  PartRight(sub.reqs[j], mcbs'[sub.mcb].cbs, shape')
  <2>1. sub.mcb \in 1 .. Len(mcbs)
    BY <1>7 DEF BlkTyped, HandlerOK, DeviceTyped
  <2>2. PartRight(sub.reqs[j], mcbs[sub.mcb].cbs, shape)
    BY <1>7 DEF BlkTyped, PartsRight
  <2>3. PICK p, m : p = sub.reqs[j] /\ m = sub.mcb
    OBVIOUS
  <2>4. PartRight(p, mcbs'[m].cbs, shape')
    BY <2>1, <2>2, <2>3, <1>3
  <2>5. QED BY <2>3, <2>4
<1>8. ASSUME NEW x \in Sectors, disk[x] # Nobody
      PROVE  shape'[disk[x]] = shape[disk[x]] /\ Op(disk[x]) = "write" /\ x \in Covers(disk[x])
  BY <1>1, <1>2, <1>8 DEF BlkTyped, DeviceTyped, OnlyWritten
<1>9. QED BY <1>5, <1>6, <1>7, <1>8

LEMMA DiskKept ==
  ASSUME BlkTyped, Steady, disk' = disk
  PROVE  OnlyWritten'
BY PartsKept DEF OnlyWritten, Op, Covers

\* One MultiwriteCB is changed.
LEMMA McbSet ==
  ASSUME NEW W, mcbs \in Seq(Mcbs(W)), NEW m \in 1 .. Len(mcbs), NEW c \in Mcbs(W),
         c.cbs = mcbs[m].cbs, mcbs' = [mcbs EXCEPT ![m] = c]
  PROVE  /\ mcbs' \in Seq(Mcbs(W)) /\ McbsSame /\ mcbs'[m] = c
         /\ \A k \in 1 .. Len(mcbs) : k # m => mcbs'[k] = mcbs[k]
<1>1. /\ mcbs' \in Seq(Mcbs(W)) /\ Len(mcbs') = Len(mcbs)
      /\ \A k \in 1 .. Len(mcbs) : mcbs'[k] = IF k = m THEN c ELSE mcbs[k]
  BY ExceptSeq
<1>2. QED BY <1>1 DEF McbsSame

\* Completion: the requests of S are completed, or rs is parked.
Finishes(S, ok) ==
  /\ UNCHANGED <<rq, running>>
  /\ \A r \in Req : used'[r] = used[r] + (IF r \in S THEN 1 ELSE 0)
  /\ \A r \in Req : r \notin S => status'[r] = status[r]
  /\ \A r \in Req : r \in S /\ status'[r] = "ok" => ok \/ Policy = "ignore"

Parks(rs) ==
  Policy = "stop" /\ rq' = Reverse(rs) \o rq /\ running' = FALSE /\ UNCHANGED <<used, status>>

CompletionTyped ==
  /\ used' \in [Req -> Nat] /\ status' \in [Req -> {"none", "ok", "ioerr"}]
  /\ rq' \in Seq(Gone) /\ running' \in BOOLEAN

LEMMA CompletedTyped ==
  ASSUME BlkTyped, NEW rs \in Seq(Gone), NEW st \in {"ok", "ioerr"}, CompletedAs(rs, st)
  PROVE  /\ used' \in [Req -> Nat] /\ status' \in [Req -> {"none", "ok", "ioerr"}]
         /\ \A r \in Req : used'[r] = used[r] + (IF r \in Elements(rs) THEN 1 ELSE 0)
         /\ \A r \in Req : r \notin Elements(rs) => status'[r] = status[r]
         /\ \A r \in Req : r \in Elements(rs) => status'[r] = st
<1>1. \A r : Contains(rs, r) <=> r \in Elements(rs)
  BY InList
<1>2. /\ used' = [r \in Req |-> used[r] + (IF r \in Elements(rs) THEN 1 ELSE 0)]
      /\ status' = [r \in Req |-> IF r \in Elements(rs) THEN st ELSE status[r]]
  BY <1>1 DEF CompletedAs
<1>3. used \in [Req -> Nat] /\ status \in [Req -> {"none", "ok", "ioerr"}]
  BY DEF BlkTyped, GuestTyped
<1>4. QED BY <1>2, <1>3

LEMMA RwCases ==
  ASSUME BlkTyped, NEW rs \in Seq(Gone), NEW ok \in BOOLEAN, virtio_blk_rw_complete(rs, ok)
  PROVE  /\ CompletionTyped
         /\ Finishes(Elements(rs), ok) \/ (~ok /\ Parks(rs))
<1>1. Policy \in {"ignore", "report", "stop"}
  BY SetupFacts DEF BlkTyped, GuestTyped
<1>2. rq \in Seq(Gone) /\ running \in BOOLEAN
  BY DEF BlkTyped, DeviceTyped
<1>3. CASE ok \/ Policy = "ignore"
  <2>1. CompletedAs(rs, "ok") /\ UNCHANGED <<rq, running>>
    BY <1>3, <1>1 DEF virtio_blk_rw_complete
  <2>2. QED BY <2>1, <1>2, <1>3, CompletedTyped DEF Finishes, CompletionTyped
<1>4. CASE ~ok /\ Policy = "report"
  <2>1. CompletedAs(rs, "ioerr") /\ UNCHANGED <<rq, running>>
    BY <1>4, <1>1 DEF virtio_blk_rw_complete
  <2>2. QED BY <2>1, <1>2, CompletedTyped DEF Finishes, CompletionTyped
<1>5. CASE ~ok /\ Policy = "stop"
  <2>1. rq' = Reverse(rs) \o rq /\ running' = FALSE /\ UNCHANGED <<used, status>>
    BY <1>5 DEF virtio_blk_rw_complete, done
  <2>2. rq' \in Seq(Gone)
    BY <2>1, <1>2, Reversed, Concatenated
  <2>3. used' \in [Req -> Nat] /\ status' \in [Req -> {"none", "ok", "ioerr"}]
    BY <2>1 DEF BlkTyped, GuestTyped
  <2>4. QED BY <2>1, <2>2, <2>3, <1>5 DEF Parks, CompletionTyped
<1>6. QED BY <1>1, <1>3, <1>4, <1>5

-----------------------------------------------------------------------------
(***************************************************************************)
(* BlkTyped is kept by every step.                                         *)
(***************************************************************************)
Places4 == {"idle", "output", "restart", "submit"}

LEMMA FailsTyped ==
  ASSUME BlkTyped, NEW how, Fails(how)
  PROVE  fails' \in 0 .. MaxFails /\ MaxFails > 0 /\ how \in Failures
BY SetupFacts DEF Fails, BlkTyped, DeviceTyped, GuestTyped

\* Steps that only move between the loops.
LEMMA QuietTyped ==
  ASSUME BlkTyped, setup' = setup,
         UNCHANGED <<shape, before, avail, used, status, mcbs, flight, disk, mrb, sub, fails>>,
         walk' \in Seq(Gone), rq' \in Seq(Gone), at' \in Places4,
         bh' \in BOOLEAN, running' \in BOOLEAN, HandlerOK',
         at' = "submit" => at = "submit", at' = "output" => at = "output" \/ mrb = <<>>
  PROVE  BlkTyped'
<1>1. Steady /\ Gone' = Gone /\ Writes' = Writes
  BY NotTaking DEF McbsSame
<1>2. GuestTyped'
  BY SetupSame DEF BlkTyped, GuestTyped, Queue
<1>3. DeviceTyped'
  <2>1. /\ sub' \in Subs(Writes') /\ mcbs' \in Seq(Mcbs(Writes')) /\ mrb' \in Seq(Writes')
        /\ flight' \subseteq PartsInFlight(Writes', Len(mcbs')) \cup OthersInFlight(Gone')
        /\ disk' \in [Sectors -> Writes' \cup {Nobody}]
    BY <1>1, DeviceKept
  <2>2. \A w \in flight' : w.op # "write" => w.op = Op(w.req)'
    BY <1>1, PartsKept DEF Op
  <2>3. fails' \in 0 .. MaxFails'
    BY SetupSame DEF BlkTyped, DeviceTyped
  <2>4. QED BY <2>1, <2>2, <2>3, <1>1 DEF DeviceTyped, Places4
<1>4. PartsRight'
  BY DEF BlkTyped, PartsRight
<1>5. OnlyWritten'
  BY <1>1, DiskKept
<1>6. FlushesFirst'
  BY NoneInList DEF BlkTyped, FlushesFirst
<1>7. QED BY <1>2, <1>3, <1>4, <1>5, <1>6 DEF BlkTyped

LEMMA NotifyTyped == ASSUME BlkTyped, setup' = setup, Notify PROVE BlkTyped'
<1>1. HandlerOK'
  BY SetupSame DEF Notify, BlkTyped, HandlerOK, guest, done, device
<1>2. QED BY <1>1, QuietTyped DEF Notify, BlkTyped, HandlerOK, DeviceTyped, Places4, guest, done, device

LEMMA AllSubmittedTyped == ASSUME BlkTyped, setup' = setup, AllSubmitted PROVE BlkTyped'
<1>1. at' = sub.from /\ at = "submit" /\ at' \in {"output", "restart"}
  BY DEF AllSubmitted, BlkTyped, DeviceTyped, Subs
<1>2. HandlerOK'
  BY <1>1, SetupSame DEF AllSubmitted, BlkTyped, HandlerOK, guest, done, device
<1>3. QED BY <1>1, <1>2, QuietTyped DEF AllSubmitted, BlkTyped, HandlerOK, DeviceTyped, Places4, guest, done, device

LEMMA LoopEndsTyped == ASSUME BlkTyped, setup' = setup, LoopEnds PROVE BlkTyped'
<1>1. walk = <<>>
  BY DEF LoopEnds, Source, BlkTyped, HandlerOK
<1>2. HandlerOK'
  BY <1>1, SetupSame DEF LoopEnds, BlkTyped, HandlerOK, guest, done, device
<1>3. QED BY <1>2, QuietTyped DEF LoopEnds, BlkTyped, DeviceTyped, Places4, guest, done, device

LEMMA ContTyped == ASSUME BlkTyped, setup' = setup, Cont PROVE BlkTyped'
<1>1. HandlerOK'
  BY SetupSame DEF Cont, BlkTyped, HandlerOK, guest, done, handler
<1>2. QED BY <1>1, QuietTyped DEF Cont, BlkTyped, DeviceTyped, Places4, guest, done, handler

LEMMA RestartTyped == ASSUME BlkTyped, setup' = setup, virtio_blk_dma_restart_bh PROVE BlkTyped'
<1>1. HandlerOK'
  BY SetupSame DEF virtio_blk_dma_restart_bh, BlkTyped, HandlerOK, guest, done
<1>2. walk' \in Seq(Gone) /\ rq' \in Seq(Gone)
  BY DEF virtio_blk_dma_restart_bh, BlkTyped, DeviceTyped
<1>3. QED BY <1>1, <1>2, QuietTyped
          DEF virtio_blk_dma_restart_bh, BlkTyped, DeviceTyped, Places4, guest, done

LEMMA MigrateTyped == ASSUME BlkTyped, setup' = setup, Migrate PROVE BlkTyped'
<1>1. HandlerOK'
  BY SetupSame DEF Migrate, BlkTyped, HandlerOK, guest, done, handler
<1>2. walk' \in Seq(Gone) /\ rq' \in Seq(Gone)
  BY DEF Migrate, BlkTyped, DeviceTyped, handler
<1>3. QED BY <1>1, <1>2, QuietTyped
          DEF Migrate, BlkTyped, DeviceTyped, Places4, guest, done, handler

\* Submit.
LEMMA SubmitTyped ==
  ASSUME BlkTyped, setup' = setup, NEW sh \in Shapes, Submit(sh)
  PROVE  BlkTyped'
<1>1. /\ UNCHANGED <<used, status, at, walk, mrb, sub, mcbs, flight, rq, bh, running, disk, fails>>
  BY DEF Submit, done, handler, device
<1>2. /\ GuestTyped' /\ Len(shape') = Len(shape) + 1 /\ Gone' = Gone /\ Writes' = Writes
      /\ \A r \in 1 .. Len(shape) : shape'[r] = shape[r]
  BY QueueGrows DEF BlkTyped
<1>3. Steady
  BY <1>1, <1>2 DEF Steady, BlkTyped, DeviceTyped, GuestTyped
<1>4. DeviceTyped'
  <2>1. \A w \in flight' : w.op # "write" => w.op = Op(w.req)'
    BY <1>1, <1>3, PartsKept DEF Op
  <2>2. fails' \in 0 .. MaxFails'
    BY <1>1, SetupSame DEF BlkTyped, DeviceTyped
  <2>3. QED BY <2>1, <2>2, <1>1, <1>3, DeviceKept DEF DeviceTyped, BlkTyped
<1>5. HandlerOK'
  BY <1>1, SetupSame DEF BlkTyped, HandlerOK
<1>6. PartsRight'
  BY <1>1, <1>3, PartsKept DEF PartsRight
<1>7. OnlyWritten'
  BY <1>1, <1>3, DiskKept
<1>8. FlushesFirst'
  BY <1>1 DEF BlkTyped, FlushesFirst
<1>9. QED BY <1>2, <1>4, <1>5, <1>6, <1>7, <1>8 DEF BlkTyped

\* Answers of the block layer.
LEMMA AnswerTyped ==
  ASSUME BlkTyped, setup' = setup, at = "idle",
         UNCHANGED <<shape, before, avail, at, walk, mrb, sub, bh>>, CompletionTyped,
         flight' \subseteq flight, mcbs' \in Seq(Mcbs(Writes)), McbsSame,
         disk' \in [Sectors -> Writes \cup {Nobody}], OnlyWritten', fails' \in 0 .. MaxFails
  PROVE  BlkTyped'
<1>1. Steady /\ Gone' = Gone /\ Writes' = Writes
  BY NotTaking
<1>2. GuestTyped'
  BY SetupSame DEF BlkTyped, GuestTyped, Queue, CompletionTyped
<1>3. DeviceTyped'
  <2>1. /\ walk' \in Seq(Gone') /\ sub' \in Subs(Writes') /\ mrb' \in Seq(Writes')
        /\ flight' \subseteq PartsInFlight(Writes', Len(mcbs')) \cup OthersInFlight(Gone')
    BY <1>1, DeviceKept
  <2>2. \A w \in flight' : w.op # "write" => w.op = Op(w.req)'
    BY <1>1, PartsKept DEF Op
  <2>3. fails' \in 0 .. MaxFails' /\ at' \in Places4 /\ bh' \in BOOLEAN
    BY SetupSame DEF BlkTyped, DeviceTyped, Places4
  <2>4. QED BY <2>1, <2>2, <2>3, <1>1 DEF DeviceTyped, Places4, CompletionTyped
<1>4. HandlerOK'
  BY SetupSame DEF BlkTyped, HandlerOK
<1>5. PartsRight'
  <2>1. \A w \in flight' : w.op = "write" => PartRight(w, mcbs'[w.mcb].cbs, shape')
    BY <1>1, PartsKept
  <2>2. QED BY <2>1 DEF PartsRight
<1>6. FlushesFirst'
  BY DEF FlushesFirst
<1>7. QED BY <1>2, <1>3, <1>4, <1>5, <1>6 DEF BlkTyped

\* The MultiwriteCB d with other counts.
McbWith(c, d, n, e, f) == c = [d EXCEPT !.num = n, !.error = e, !.freed = f]

LEMMA McbMade ==
  ASSUME NEW W, NEW d \in Mcbs(W), NEW n \in Int, NEW e \in BOOLEAN, NEW f \in BOOLEAN, NEW c,
         McbWith(c, d, n, e, f)
  PROVE  c \in Mcbs(W) /\ c.cbs = d.cbs /\ c.num = n /\ c.error = e /\ c.freed = f
BY DEF Mcbs, McbWith

\* multiwrite_cb: what it does to the MultiwriteCB and to its requests.
LEMMA McbCounts ==
  ASSUME BlkTyped, NEW m \in 1 .. Len(mcbs), NEW ok \in BOOLEAN, multiwrite_cb(m, ok)
  PROVE  /\ mcbs' \in Seq(Mcbs(Writes)) /\ McbsSame /\ CompletionTyped
         /\ \A k \in 1 .. Len(mcbs) : k # m => mcbs'[k] = mcbs[k]
         /\ mcbs'[m].num = mcbs[m].num - 1
         /\ mcbs'[m].error <=> (mcbs[m].error \/ ~ok)
         /\ mcbs'[m].freed <=> (mcbs[m].num - 1 = 0)
<1>1. mcbs \in Seq(Mcbs(Writes)) /\ mcbs[m] \in Mcbs(Writes)
  BY DEF BlkTyped, DeviceTyped
<1>2. /\ mcbs[m].error \in BOOLEAN /\ mcbs[m].num \in Int /\ mcbs[m].cbs \in Seq(Writes)
      /\ mcbs[m].freed \in BOOLEAN
  BY <1>1 DEF Mcbs
<1>3. mcbs[m].cbs \in Seq(Gone)
  <2>1. Writes \subseteq Gone
    BY DEF Writes
  <2>2. QED BY <2>1, <1>2, Subset
<1>4. CompletionTyped
  <2>1. CASE virtio_blk_rw_complete(mcbs[m].cbs, FALSE)
    BY <2>1, <1>3, RwCases
  <2>2. CASE virtio_blk_rw_complete(mcbs[m].cbs, TRUE)
    BY <2>2, <1>3, RwCases
  <2>3. CASE NothingCompleted
    BY <2>3 DEF NothingCompleted, CompletionTyped, BlkTyped, GuestTyped, DeviceTyped, done
  <2>4. QED BY <2>1, <2>2, <2>3 DEF multiwrite_cb
<1>5. PICK e, f : /\ e = (mcbs[m].error \/ ~ok) /\ f = (mcbs[m].num - 1 = 0)
                  /\ e \in BOOLEAN /\ f \in BOOLEAN
  OBVIOUS
<1>6. PICK c : c = [mcbs[m] EXCEPT !.num = mcbs[m].num - 1, !.error = e, !.freed = f]
  OBVIOUS
<1>7. /\ c \in Mcbs(Writes) /\ c.cbs = mcbs[m].cbs /\ c.num = mcbs[m].num - 1
      /\ c.error = e /\ c.freed = f
  <2>1. PICK d, n : d = mcbs[m] /\ n = mcbs[m].num - 1
    OBVIOUS
  <2>2. d \in Mcbs(Writes) /\ n \in Int /\ McbWith(c, d, n, e, f)
    BY <2>1, <1>1, <1>2, <1>6 DEF McbWith
  <2>3. e \in BOOLEAN /\ f \in BOOLEAN
    BY <1>5
  <2>4. c \in Mcbs(Writes) /\ c.cbs = d.cbs /\ c.num = n /\ c.error = e /\ c.freed = f
    BY ONLY <2>2, <2>3, McbMade
  <2>5. QED BY <2>1, <2>4, Zenon
<1>8. mcbs' = [mcbs EXCEPT ![m] = c]
  BY <1>5, <1>6 DEF multiwrite_cb
<1>9. /\ mcbs' \in Seq(Mcbs(Writes)) /\ McbsSame /\ mcbs'[m] = c
      /\ \A k \in 1 .. Len(mcbs) : k # m => mcbs'[k] = mcbs[k]
  BY <1>1, <1>7, <1>8, McbSet
<1>10. QED BY <1>4, <1>5, <1>7, <1>9

LEMMA PartFields ==
  ASSUME BlkTyped, NEW w \in flight, w.op = "write"
  PROVE  w.mcb \in 1 .. Len(mcbs) /\ w.first \in Nat /\ w.vals \in Seq(Writes)
BY DEF BlkTyped, DeviceTyped, PartsInFlight, OthersInFlight

LEMMA OtherFields ==
  ASSUME BlkTyped, NEW w \in flight, w.op # "write"
  PROVE  w.req \in Gone /\ w = [op |-> w.op, req |-> w.req] /\ w.op = Op(w.req)
BY DEF BlkTyped, DeviceTyped, PartsInFlight, OthersInFlight

\* A sector that a part spans gets the data of a request that covers it.
LEMMA SectorWritten ==
  ASSUME BlkTyped, NEW w \in flight, w.op = "write", NEW x \in Int,
         x - w.first + 1 \in DOMAIN w.vals
  PROVE  /\ w.vals[x - w.first + 1] \in Writes
         /\ w.vals[x - w.first + 1] \in Elements(mcbs[w.mcb].cbs)
         /\ x \in Covers(w.vals[x - w.first + 1])
<1> DEFINE j == x - w.first + 1
<1>1. w.first \in Nat /\ w.vals \in Seq(Writes) /\ j \in 1 .. Len(w.vals) /\ w.first + j - 1 = x
  BY PartFields
<1>2. PartRight(w, mcbs[w.mcb].cbs, shape)
  BY DEF BlkTyped, PartsRight
<1>3. w.vals[j] \in Writes
  BY <1>1
<1>4. QED BY <1>1, <1>2, <1>3 DEF PartRight, Covers

LEMMA WriteSucceedsTyped ==
  ASSUME BlkTyped, setup' = setup, NEW w \in flight, WriteSucceeds(w)
  PROVE  BlkTyped'
<1>1. /\ at = "idle" /\ w.op = "write" /\ flight' \subseteq flight
      /\ UNCHANGED <<shape, before, avail, at, walk, mrb, sub, bh, fails>>
  BY DEF WriteSucceeds, guest, handler
<1>2. w.mcb \in 1 .. Len(mcbs) /\ multiwrite_cb(w.mcb, TRUE)
  BY <1>1, PartFields DEF WriteSucceeds
<1>3. mcbs' \in Seq(Mcbs(Writes)) /\ McbsSame /\ CompletionTyped
  BY <1>2, McbCounts
<1>4. disk \in [Sectors -> Writes \cup {Nobody}]
  BY DEF BlkTyped, DeviceTyped
<1>5. disk' = [x \in Sectors |->
                 IF x - w.first + 1 \in DOMAIN w.vals THEN w.vals[x - w.first + 1] ELSE disk[x]]
  BY DEF WriteSucceeds
<1>6. \A x \in Sectors : x - w.first + 1 \in DOMAIN w.vals =>
        /\ w.vals[x - w.first + 1] \in Writes /\ x \in Covers(w.vals[x - w.first + 1])
        /\ Op(w.vals[x - w.first + 1]) = "write"
  <2>1. \A x \in Sectors : x \in Int
    BY VirtioBlkAssumption
  <2>2. QED BY <2>1, <1>1, SectorWritten DEF Writes
<1>7. disk' \in [Sectors -> Writes \cup {Nobody}]
  BY <1>4, <1>5, <1>6
<1>8. OnlyWritten'
  <2> SUFFICES ASSUME NEW x \in Sectors, disk'[x] # Nobody
               PROVE  Op(disk'[x]) = "write" /\ x \in Covers(disk'[x])
    BY <1>1 DEF OnlyWritten, Op, Covers
  <2>1. CASE x - w.first + 1 \in DOMAIN w.vals
    BY <2>1, <1>5, <1>6
  <2>2. CASE x - w.first + 1 \notin DOMAIN w.vals
    BY <2>2, <1>5 DEF BlkTyped, OnlyWritten
  <2>3. QED BY <2>1, <2>2
<1>9. fails' \in 0 .. MaxFails
  BY <1>1 DEF BlkTyped, DeviceTyped
<1>10. QED BY <1>1, <1>3, <1>7, <1>8, <1>9, AnswerTyped

LEMMA WriteFailsTyped ==
  ASSUME BlkTyped, setup' = setup, NEW w \in flight, WriteFails(w)
  PROVE  BlkTyped'
<1>1. /\ at = "idle" /\ w.op = "write" /\ flight' \subseteq flight
      /\ UNCHANGED <<shape, before, avail, at, walk, mrb, sub, bh, disk>>
  BY DEF WriteFails, guest, handler
<1>2. w.mcb \in 1 .. Len(mcbs) /\ multiwrite_cb(w.mcb, FALSE)
  BY <1>1, PartFields DEF WriteFails
<1>3. mcbs' \in Seq(Mcbs(Writes)) /\ McbsSame /\ CompletionTyped
  BY <1>2, McbCounts
<1>4. OnlyWritten' /\ disk' \in [Sectors -> Writes \cup {Nobody}]
  BY <1>1, <1>3, NotTaking, DiskKept DEF BlkTyped, DeviceTyped
<1>5. fails' \in 0 .. MaxFails
  BY FailsTyped DEF WriteFails
<1>6. QED BY <1>1, <1>3, <1>4, <1>5, AnswerTyped

\* The other answers leave batches and disk alone.
LEMMA OtherAnswerTyped ==
  ASSUME BlkTyped, setup' = setup, NEW w \in flight,
         OtherSucceeds(w) \/ ReadFails(w) \/ FlushFails(w)
  PROVE  BlkTyped' /\ CompletionTyped
<1>1. /\ at = "idle" /\ w.op # "write" /\ flight' \subseteq flight
      /\ UNCHANGED <<shape, before, avail, at, walk, mrb, sub, bh, disk, mcbs>>
  BY DEF OtherSucceeds, ReadFails, FlushFails, guest, handler, device
<1>2. w.req \in Gone /\ <<w.req>> \in Seq(Gone)
  BY <1>1, OtherFields
<1>3. CompletionTyped
  <2>1. CASE OtherSucceeds(w)
    <3>1. virtio_blk_rw_complete(<<w.req>>, TRUE)
      BY <2>1 DEF OtherSucceeds
    <3>2. QED BY <3>1, <1>2, RwCases
  <2>2. CASE ReadFails(w)
    <3>1. virtio_blk_rw_complete(<<w.req>>, FALSE)
      BY <2>2 DEF ReadFails
    <3>2. QED BY <3>1, <1>2, RwCases
  <2>3. CASE FlushFails(w)
    <3>1. CompletedAs(<<w.req>>, "ioerr") /\ UNCHANGED <<rq, running>>
      BY <2>3 DEF FlushFails, device
    <3>2. QED BY <3>1, <1>2, CompletedTyped DEF CompletionTyped, BlkTyped, DeviceTyped
  <2>4. QED BY <2>1, <2>2, <2>3
<1>4. McbsSame /\ mcbs' \in Seq(Mcbs(Writes))
  BY <1>1 DEF McbsSame, BlkTyped, DeviceTyped
<1>5. OnlyWritten' /\ disk' \in [Sectors -> Writes \cup {Nobody}]
  BY <1>1, <1>4, NotTaking, DiskKept DEF BlkTyped, DeviceTyped
<1>6. fails' \in 0 .. MaxFails
  BY FailsTyped DEF OtherSucceeds, ReadFails, FlushFails, BlkTyped, DeviceTyped
<1>7. QED BY <1>1, <1>3, <1>4, <1>5, <1>6, AnswerTyped

\* bdrv_aio_multiwrite.
LEMMA SubFields ==
  ASSUME BlkTyped
  PROVE  /\ sub.reqs \in Seq(Parts(Writes)) /\ sub.sorted \in Seq(Writes) /\ sub.i \in Nat
         /\ sub.mcb \in Nat /\ sub.from \in {"output", "restart"} /\ Len(sub.reqs) \in Nat
         /\ at = "submit" => sub.mcb \in 1 .. Len(mcbs) /\ Len(mcbs) = sub.mcb
BY DEF BlkTyped, DeviceTyped, Subs, HandlerOK

LEMMA McbForms ==
  ASSUME NEW W, NEW d \in Mcbs(W)
  PROVE  /\ McbWith([d EXCEPT !.num = d.num + 1], d, d.num + 1, d.error, d.freed)
         /\ McbWith([d EXCEPT !.freed = TRUE], d, d.num, d.error, TRUE)
         /\ McbWith([d EXCEPT !.error = TRUE], d, d.num, TRUE, d.freed)
         /\ McbWith([d EXCEPT !.error = TRUE, !.freed = @ \/ d.num = 1], d, d.num, TRUE,
                    d.freed \/ d.num = 1)
BY DEF McbWith, Mcbs

McbsWith(m, c) == mcbs' = [mcbs EXCEPT ![m] = c]

McbNow(m, n, e, f) ==
  /\ mcbs' \in Seq(Mcbs(Writes)) /\ McbsSame
  /\ mcbs'[m].num = n /\ mcbs'[m].error = e /\ mcbs'[m].freed = f
  /\ \A k \in 1 .. Len(mcbs) : k # m => mcbs'[k] = mcbs[k]

LEMMA McbStep ==
  ASSUME BlkTyped, NEW m \in 1 .. Len(mcbs), NEW n \in Int, NEW e \in BOOLEAN, NEW f \in BOOLEAN,
         NEW c, McbWith(c, mcbs[m], n, e, f), McbsWith(m, c)
  PROVE  McbNow(m, n, e, f)
<1>1. mcbs \in Seq(Mcbs(Writes)) /\ mcbs[m] \in Mcbs(Writes)
  BY DEF BlkTyped, DeviceTyped
<1>2. PICK d : d = mcbs[m]
  OBVIOUS
<1>3. c \in Mcbs(Writes) /\ c.cbs = d.cbs /\ c.num = n /\ c.error = e /\ c.freed = f
  BY <1>1, <1>2, McbMade
<1>4. /\ mcbs' \in Seq(Mcbs(Writes)) /\ McbsSame /\ mcbs'[m] = c
      /\ \A k \in 1 .. Len(mcbs) : k # m => mcbs'[k] = mcbs[k]
  BY <1>1, <1>2, <1>3, McbSet DEF McbsWith
<1>5. QED BY <1>3, <1>4 DEF McbNow

\* What the steps of the loop over the parts do to their MultiwriteCB.
LEMMA PartTakenMcb ==
  ASSUME BlkTyped, PartTaken
  PROVE  /\ mcbs' \in Seq(Mcbs(Writes)) /\ McbsSame
         /\ mcbs'[sub.mcb].num = mcbs[sub.mcb].num + 1
         /\ mcbs'[sub.mcb].error = mcbs[sub.mcb].error /\ mcbs'[sub.mcb].freed = mcbs[sub.mcb].freed
         /\ \A k \in 1 .. Len(mcbs) : k # sub.mcb => mcbs'[k] = mcbs[k]
<1>1. PICK m, d : m = sub.mcb /\ d = mcbs[m]
  OBVIOUS
<1>2. m \in 1 .. Len(mcbs) /\ d \in Mcbs(Writes)
  BY <1>1, SubFields DEF PartTaken, AtPart, BlkTyped, DeviceTyped
<1>3. d.num + 1 \in Int /\ d.error \in BOOLEAN /\ d.freed \in BOOLEAN
  BY <1>2 DEF Mcbs
<1>4. PICK c : c = [d EXCEPT !.num = d.num + 1]
  OBVIOUS
<1>5. mcbs' = [mcbs EXCEPT ![m] = c]
  BY <1>1, <1>4 DEF PartTaken
<1>6. PICK n, e, f : n = d.num + 1 /\ e = d.error /\ f = d.freed /\ n \in Int /\ e \in BOOLEAN /\ f \in BOOLEAN
  BY <1>3
<1>7. McbWith(c, mcbs[m], n, e, f)
  BY <1>1, <1>2, <1>4, <1>6, McbForms
<1>8. /\ mcbs' \in Seq(Mcbs(Writes)) /\ McbsSame
      /\ mcbs'[m].num = n /\ mcbs'[m].error = e /\ mcbs'[m].freed = f
      /\ \A k \in 1 .. Len(mcbs) : k # m => mcbs'[k] = mcbs[k]
  <2>1. n \in Int /\ e \in BOOLEAN /\ f \in BOOLEAN
    BY <1>6
  <2>2. McbsWith(m, c)
    BY <1>5 DEF McbsWith
  <2>3. McbNow(m, n, e, f)
    BY ONLY BlkTyped, <2>1, <2>2, <1>2, <1>7, McbStep, Zenon
  <2>4. QED BY <2>3 DEF McbNow
<1>9. QED BY <1>1, <1>6, <1>8

LEMMA BatchRefusedMcb ==
  ASSUME BlkTyped, BatchRefused
  PROVE  /\ mcbs' \in Seq(Mcbs(Writes)) /\ McbsSame
         /\ mcbs'[sub.mcb].num = mcbs[sub.mcb].num
         /\ mcbs'[sub.mcb].error = mcbs[sub.mcb].error /\ mcbs'[sub.mcb].freed = TRUE
         /\ \A k \in 1 .. Len(mcbs) : k # sub.mcb => mcbs'[k] = mcbs[k]
<1>1. PICK m, d : m = sub.mcb /\ d = mcbs[m]
  OBVIOUS
<1>2. m \in 1 .. Len(mcbs) /\ d \in Mcbs(Writes)
  BY <1>1, SubFields DEF BatchRefused, AtPart, BlkTyped, DeviceTyped
<1>3. d.num \in Int /\ d.error \in BOOLEAN /\ TRUE \in BOOLEAN
  BY <1>2 DEF Mcbs
<1>4. PICK c : c = [d EXCEPT !.freed = TRUE]
  OBVIOUS
<1>5. mcbs' = [mcbs EXCEPT ![m] = c]
  BY <1>1, <1>4 DEF BatchRefused
<1>6. PICK n, e, f : n = d.num /\ e = d.error /\ f = TRUE /\ n \in Int /\ e \in BOOLEAN /\ f \in BOOLEAN
  BY <1>3
<1>7. McbWith(c, mcbs[m], n, e, f)
  BY <1>1, <1>2, <1>4, <1>6, McbForms
<1>8. /\ mcbs' \in Seq(Mcbs(Writes)) /\ McbsSame
      /\ mcbs'[m].num = n /\ mcbs'[m].error = e /\ mcbs'[m].freed = f
      /\ \A k \in 1 .. Len(mcbs) : k # m => mcbs'[k] = mcbs[k]
  <2>1. n \in Int /\ e \in BOOLEAN /\ f \in BOOLEAN
    BY <1>6
  <2>2. McbsWith(m, c)
    BY <1>5 DEF McbsWith
  <2>3. McbNow(m, n, e, f)
    BY ONLY BlkTyped, <2>1, <2>2, <1>2, <1>7, McbStep, Zenon
  <2>4. QED BY <2>3 DEF McbNow
<1>9. QED BY <1>1, <1>6, <1>8

LEMMA PartRefusedMcb ==
  ASSUME BlkTyped, PartRefused
  PROVE  /\ mcbs' \in Seq(Mcbs(Writes)) /\ McbsSame
<1>1. PICK m, d : m = sub.mcb /\ d = mcbs[m]
  OBVIOUS
<1>2. m \in 1 .. Len(mcbs) /\ d \in Mcbs(Writes)
  BY <1>1, SubFields DEF PartRefused, AtPart, BlkTyped, DeviceTyped
<1>3. d.num \in Int /\ d.freed \in BOOLEAN /\ TRUE \in BOOLEAN
  BY <1>2 DEF Mcbs
<1>4. PICK c : c = [d EXCEPT !.error = TRUE]
  OBVIOUS
<1>5. mcbs' = [mcbs EXCEPT ![m] = c]
  BY <1>1, <1>4 DEF PartRefused
<1>6. PICK n, e, f : n = d.num /\ e = TRUE /\ f = d.freed /\ n \in Int /\ e \in BOOLEAN /\ f \in BOOLEAN
  BY <1>3
<1>7. McbWith(c, mcbs[m], n, e, f)
  BY <1>1, <1>2, <1>4, <1>6, McbForms
<1>8. /\ mcbs' \in Seq(Mcbs(Writes)) /\ McbsSame
      /\ mcbs'[m].num = n /\ mcbs'[m].error = e /\ mcbs'[m].freed = f
      /\ \A k \in 1 .. Len(mcbs) : k # m => mcbs'[k] = mcbs[k]
  <2>1. n \in Int /\ e \in BOOLEAN /\ f \in BOOLEAN
    BY <1>6
  <2>2. McbsWith(m, c)
    BY <1>5 DEF McbsWith
  <2>3. McbNow(m, n, e, f)
    BY ONLY BlkTyped, <2>1, <2>2, <1>2, <1>7, McbStep, Zenon
  <2>4. QED BY <2>3 DEF McbNow
<1>9. QED BY <1>1, <1>6, <1>8

LEMMA PartFailsAtOnceMcb ==
  ASSUME BlkTyped, PartFailsAtOnce
  PROVE  /\ mcbs' \in Seq(Mcbs(Writes)) /\ McbsSame
         /\ mcbs'[sub.mcb].num = mcbs[sub.mcb].num /\ mcbs'[sub.mcb].error = TRUE
         /\ mcbs'[sub.mcb].freed <=> (mcbs[sub.mcb].freed \/ mcbs[sub.mcb].num = 1)
         /\ \A k \in 1 .. Len(mcbs) : k # sub.mcb => mcbs'[k] = mcbs[k]
<1>1. PICK m, d : m = sub.mcb /\ d = mcbs[m]
  OBVIOUS
<1>2. m \in 1 .. Len(mcbs) /\ d \in Mcbs(Writes)
  BY <1>1, SubFields DEF PartFailsAtOnce, AtPart, BlkTyped, DeviceTyped
<1>3. d.num \in Int /\ TRUE \in BOOLEAN /\ (d.freed \/ d.num = 1) \in BOOLEAN
  BY <1>2 DEF Mcbs
<1>4. PICK c : c = [d EXCEPT !.error = TRUE, !.freed = @ \/ d.num = 1]
  OBVIOUS
<1>5. mcbs' = [mcbs EXCEPT ![m] = c]
  BY <1>1, <1>4 DEF PartFailsAtOnce
<1>6. PICK f : f = (d.freed \/ d.num = 1) /\ f \in BOOLEAN
  BY <1>3
<1>7. McbWith(c, mcbs[m], d.num, TRUE, f)
  BY <1>1, <1>2, <1>4, <1>6, McbForms
<1>8. /\ mcbs' \in Seq(Mcbs(Writes)) /\ McbsSame
      /\ mcbs'[m].num = d.num /\ mcbs'[m].error = TRUE /\ mcbs'[m].freed = f
      /\ \A k \in 1 .. Len(mcbs) : k # m => mcbs'[k] = mcbs[k]
  <2>1. McbsWith(m, c)
    BY <1>5 DEF McbsWith
  <2>2. McbNow(m, d.num, TRUE, f)
    BY <2>1, <1>2, <1>3, <1>6, <1>7, McbStep
  <2>3. QED BY <2>2 DEF McbNow
<1>9. QED BY <1>1, <1>6, <1>8

\* The batch in an order qsort may leave.
LEMMA SortedRight ==
  ASSUME GuestTyped, NEW s \in Seq(Writes), s # <<>>, NEW rs \in Sorted(s)
  PROVE  /\ rs \in Seq(Writes) /\ Len(rs) = Len(s) /\ Len(rs) >= 1
         /\ Elements(rs) = Elements(s) /\ Ordered(rs)
<1>1. Len(s) \in Nat /\ DOMAIN s = 1 .. Len(s) /\ Len(s) >= 1 /\ \A i \in 1 .. Len(s) : s[i] \in Writes
  BY ListType
<1>2. PICK p \in Bijection(DOMAIN s, DOMAIN s) : rs = [i \in DOMAIN s |-> s[p[i]]]
  BY DEF Sorted
<1>3. /\ \A i \in 1 .. Len(s) : p[i] \in 1 .. Len(s)
      /\ \A j \in 1 .. Len(s) : \E i \in 1 .. Len(s) : p[i] = j
  BY <1>1, <1>2 DEF Bijection, Surjection, Injection
<1>4. /\ rs = [i \in 1 .. Len(s) |-> rs[i]] /\ \A i \in 1 .. Len(s) : rs[i] = s[p[i]] /\ rs[i] \in Writes
  BY <1>1, <1>2, <1>3
<1>5. rs \in Seq(Writes) /\ Len(rs) = Len(s) /\ DOMAIN rs = 1 .. Len(s)
  BY <1>1, <1>4
<1>6. Elements(rs) = Elements(s)
  <2>1. Elements(rs) \subseteq Elements(s)
    BY <1>1, <1>3, <1>4, <1>5 DEF Elements
  <2>2. ASSUME NEW j \in 1 .. Len(s) PROVE s[j] \in Elements(rs)
    <3>1. PICK i \in 1 .. Len(s) : p[i] = j
      BY <1>3
    <3>2. rs[i] = s[j]
      BY <3>1, <1>4
    <3>3. QED BY <3>2, <1>5 DEF Elements
  <2>3. QED BY <2>1, <2>2, <1>1 DEF Elements
<1>7. \A i, j \in 1 .. Len(rs) : i < j => First(rs[i]) <= First(rs[j])
  BY <1>5 DEF Sorted, First
<1>8. Elements(rs) \subseteq Writes
  BY <1>5, ListType
<1>9. \A r \in Writes : /\ First(r) \in Nat /\ Size(r) \in Nat /\ shape[r] \in Shapes /\ Op(r) = "write"
  BY GuestFacts DEF Writes
<1>10. rs \in Seq(Elements(rs))
  <2>1. \A i \in 1 .. Len(s) : rs[i] \in Elements(rs)
    BY <1>5 DEF Elements
  <2>2. QED BY <2>1, <1>1, <1>4
<1>11. \A i, j \in 1 .. Len(rs) : i <= j => First(rs[i]) <= First(rs[j])
  <2> SUFFICES ASSUME NEW i \in 1 .. Len(rs), NEW j \in 1 .. Len(rs), i <= j
               PROVE  First(rs[i]) <= First(rs[j])
    OBVIOUS
  <2>1. First(rs[i]) \in Nat /\ First(rs[j]) \in Nat
    BY <1>4, <1>5, <1>9
  <2>2. i < j \/ i = j
    BY <1>1, <1>5
  <2>3. QED BY <2>1, <2>2, <1>7
<1>12. Ordered(rs)
  BY <1>8, <1>9, <1>10, <1>11 DEF Ordered
<1>13. QED BY <1>1, <1>5, <1>6, <1>12

\* The parts of a batch, merged.
LEMMA MergeTyped ==
  ASSUME GuestTyped, NEW s \in Seq(Writes), s # <<>>, NEW rs \in Sorted(s),
         NEW ws, ws = multiwrite_merge(rs)
  PROVE  /\ ws \in Seq(Parts(Writes)) /\ Len(ws) \in 1 .. Len(s)
         /\ \A j \in 1 .. Len(ws) : PartRight(ws[j], s, shape)
         /\ ~Apart /\ Len(s) < IovMax => Len(ws) = 1
         /\ NotNested => \A r \in Elements(s) : \A x \in Covers(r) : Spanned(ws, x)
<1>1. /\ rs \in Seq(Writes) /\ Len(rs) = Len(s) /\ Len(rs) >= 1
      /\ Elements(rs) = Elements(s) /\ Ordered(rs)
  BY SortedRight
<1>2. MergeOK(ws, rs, Len(rs))
  BY <1>1, MergeRight, SetupFacts DEF GuestTyped
<1>3. Elements(rs) \subseteq Writes /\ DOMAIN rs = 1 .. Len(rs) /\ Len(rs) \in Nat
  BY <1>1, ListType
<1>4. Before(rs, Len(rs)) = Elements(rs)
  BY <1>3 DEF Before, Elements
<1>5. ws \in Seq(Parts(Elements(rs))) /\ Len(ws) \in 1 .. Len(rs)
      /\ \A i \in 1 .. Len(ws) : PartOf(ws[i], Elements(rs))
  BY <1>2, <1>4 DEF MergeOK, MergeShape
<1>6. ws \in Seq(Parts(Writes))
  <2>1. PICK A, B : A = Elements(rs) /\ B = Writes
    OBVIOUS
  <2>2. Parts(A) \subseteq Parts(B)
    BY <2>1, <1>3 DEF Parts
  <2>3. ws \in Seq(Parts(B))
    BY <2>1, <2>2, <1>5, Subset
  <2>4. QED BY <2>1, <2>3
<1>7. \A j \in 1 .. Len(ws) : PartRight(ws[j], s, shape)
  BY <1>1, <1>5 DEF PartOf, PartRight, Covers
<1>8. ~Apart /\ Len(s) < IovMax => Len(ws) = 1
  BY <1>1, <1>2 DEF MergeOK, MergeOne
<1>9. NotNested => \A r \in Elements(s) : \A x \in Covers(r) : Spanned(ws, x)
  BY <1>1, <1>2, <1>3 DEF MergeOK, MergeSpans, Elements
<1>10. QED BY <1>1, <1>5, <1>6, <1>7, <1>8, <1>9

\* StartMultiwrite.
NewMcb(s) == [error |-> FALSE, num |-> 0, cbs |-> s, freed |-> FALSE]

LEMMA StartMade ==
  ASSUME BlkTyped, StartMultiwrite
  PROVE  /\ at \in {"output", "restart"} /\ mrb # <<>> /\ mrb' = <<>> /\ at' = "submit"
         /\ UNCHANGED <<shape, before, avail, used, status, walk, flight, rq, bh, running, disk, fails>>
         /\ \E rs \in Sorted(mrb) :
              sub' = [reqs |-> multiwrite_merge(rs), sorted |-> rs, i |-> 1,
                      mcb |-> Len(mcbs) + 1, from |-> at]
         /\ Len(mcbs) \in Nat /\ Len(mcbs') = Len(mcbs) + 1
         /\ mcbs' \in Seq(Mcbs(Writes)) /\ mcbs'[Len(mcbs) + 1] = NewMcb(mrb)
         /\ \A m \in 1 .. Len(mcbs) : mcbs'[m] = mcbs[m]
         /\ Steady /\ Gone' = Gone /\ Writes' = Writes
<1>1. /\ at \in {"output", "restart"} /\ mrb # <<>> /\ mrb' = <<>> /\ at' = "submit"
      /\ UNCHANGED <<shape, before, avail, used, status, walk, flight, rq, bh, running, disk, fails>>
      /\ \E rs \in Sorted(mrb) :
           sub' = [reqs |-> multiwrite_merge(rs), sorted |-> rs, i |-> 1,
                   mcb |-> Len(mcbs) + 1, from |-> at]
  BY DEF StartMultiwrite, guest, done, device
<1>2. mcbs \in Seq(Mcbs(Writes)) /\ mrb \in Seq(Writes) /\ Len(mcbs) \in Nat /\ Len(shape) \in Nat
  BY DEF BlkTyped, DeviceTyped, GuestTyped
<1>3. PICK c : c = NewMcb(mrb)
  OBVIOUS
<1>4. c \in Mcbs(Writes)
  BY <1>2, <1>3 DEF NewMcb, Mcbs
<1>5. mcbs' = Append(mcbs, c)
  BY <1>3 DEF StartMultiwrite, NewMcb
<1>6. /\ mcbs' \in Seq(Mcbs(Writes)) /\ Len(mcbs') = Len(mcbs) + 1 /\ mcbs'[Len(mcbs) + 1] = c
      /\ \A m \in 1 .. Len(mcbs) : mcbs'[m] = mcbs[m]
  BY <1>2, <1>4, <1>5, Extended
<1>7. Gone' = Gone /\ Writes' = Writes
  BY <1>1 DEF Gone, Writes, Op
<1>8. Steady
  BY <1>1, <1>2, <1>6, <1>7 DEF Steady
<1>9. QED BY <1>1, <1>2, <1>3, <1>6, <1>7, <1>8

LEMMA StartTyped ==
  ASSUME BlkTyped, setup' = setup, StartMultiwrite
  PROVE  BlkTyped'
<1>1. /\ at \in {"output", "restart"} /\ mrb # <<>> /\ mrb' = <<>> /\ at' = "submit"
      /\ UNCHANGED <<shape, before, avail, used, status, walk, flight, rq, bh, running, disk, fails>>
      /\ Len(mcbs) \in Nat /\ Len(mcbs') = Len(mcbs) + 1
      /\ mcbs' \in Seq(Mcbs(Writes)) /\ mcbs'[Len(mcbs) + 1] = NewMcb(mrb)
      /\ Steady /\ Gone' = Gone /\ Writes' = Writes
  BY StartMade
<1>2. PICK rs \in Sorted(mrb) :
        sub' = [reqs |-> multiwrite_merge(rs), sorted |-> rs, i |-> 1,
                mcb |-> Len(mcbs) + 1, from |-> at]
  BY StartMade
<1>3. PICK ws : ws = multiwrite_merge(rs)
  OBVIOUS
<1>4. GuestTyped /\ mrb \in Seq(Writes) /\ Len(mrb) <= BatchSize /\ BatchSize \in Nat /\ Len(mrb) \in Nat
  BY SetupFacts DEF BlkTyped, GuestTyped, DeviceTyped, HandlerOK
<1>5. /\ ws \in Seq(Parts(Writes)) /\ Len(ws) \in 1 .. Len(mrb)
      /\ \A j \in 1 .. Len(ws) : PartRight(ws[j], mrb, shape)
  BY <1>1, <1>3, <1>4, MergeTyped
<1>6. rs \in Seq(Writes) /\ Len(rs) = Len(mrb) /\ Elements(rs) = Elements(mrb)
  BY <1>1, <1>4, SortedRight
<1>7. /\ sub'.reqs = ws /\ sub'.sorted = rs /\ sub'.i = 1 /\ sub'.mcb = Len(mcbs) + 1
      /\ sub'.from = at
  BY <1>2, <1>3
<1>8. sub' \in Subs(Writes)
  BY <1>1, <1>2, <1>3, <1>5, <1>6 DEF Subs
<1>9. GuestTyped'
  BY <1>1, SetupSame DEF BlkTyped, GuestTyped, Queue
<1>10. DeviceTyped'
  <2>1. /\ walk' \in Seq(Gone') /\ rq' \in Seq(Gone')
        /\ flight' \subseteq PartsInFlight(Writes', Len(mcbs')) \cup OthersInFlight(Gone')
        /\ disk' \in [Sectors -> Writes' \cup {Nobody}]
    BY <1>1, DeviceKept
  <2>2. \A w \in flight' : w.op # "write" => w.op = Op(w.req)'
    BY <1>1, PartsKept DEF Op
  <2>3. fails' \in 0 .. MaxFails' /\ bh' \in BOOLEAN /\ running' \in BOOLEAN
    BY <1>1, SetupSame DEF BlkTyped, DeviceTyped
  <2>4. mrb' \in Seq(Writes')
    BY <1>1
  <2>5. QED BY <2>1, <2>2, <2>3, <2>4, <1>1, <1>8 DEF DeviceTyped
<1>11. HandlerOK'
  <2>1. BatchSize' = BatchSize /\ Len(mrb') <= BatchSize
    BY <1>1, <1>4, SetupSame
  <2>2. walk' # <<>> => sub'.from = "restart"
    BY <1>1, <1>7 DEF BlkTyped, HandlerOK
  <2>3. mcbs'[sub'.mcb].cbs = mrb
    BY <1>1, <1>7 DEF NewMcb
  <2>4. sub'.i \in 1 .. Len(sub'.reqs) + 1 /\ Len(sub'.reqs) <= Len(sub'.sorted) /\ Len(sub'.sorted) <= BatchSize
    BY <1>4, <1>5, <1>6, <1>7
  <2>5. QED BY <2>1, <2>2, <2>3, <2>4, <1>1, <1>6, <1>7 DEF HandlerOK
<1>12. PartsRight'
  <2>1. \A w \in flight' : w.op = "write" => PartRight(w, mcbs'[w.mcb].cbs, shape')
    BY <1>1, PartsKept
  <2>2. mcbs'[sub'.mcb].cbs = mrb
    BY <1>1, <1>7 DEF NewMcb
  <2>3. QED BY <2>1, <2>2, <1>1, <1>5, <1>7 DEF PartsRight
<1>13. OnlyWritten'
  BY <1>1, DiskKept
<1>14. FlushesFirst'
  BY <1>1 DEF FlushesFirst
<1>15. QED BY <1>9, <1>10, <1>11, <1>12, <1>13, <1>14 DEF BlkTyped

\* The steps of the loop over the parts.
ThisPart ==
  [op |-> "write", mcb |-> sub.mcb, first |-> sub.reqs[sub.i].first, vals |-> sub.reqs[sub.i].vals]

LEMMA ThisPartRight ==
  ASSUME BlkTyped, AtPart
  PROVE  /\ ThisPart \in PartsInFlight(Writes, Len(mcbs)) /\ ThisPart.op = "write"
         /\ ThisPart.mcb = sub.mcb /\ ThisPart.first = sub.reqs[sub.i].first
         /\ ThisPart.vals = sub.reqs[sub.i].vals
         /\ PartRight(ThisPart, mcbs[sub.mcb].cbs, shape)
<1>1. /\ sub.reqs \in Seq(Parts(Writes)) /\ sub.mcb \in 1 .. Len(mcbs) /\ sub.i \in 1 .. Len(sub.reqs)
  BY SubFields DEF AtPart, BlkTyped, HandlerOK
<1>2. PICK p : p = sub.reqs[sub.i]
  OBVIOUS
<1>3. p \in Parts(Writes)
  BY <1>1, <1>2
<1>4. p.first \in Nat /\ p.vals \in Seq(Writes)
  BY <1>3 DEF Parts
<1>5. /\ ThisPart \in PartsInFlight(Writes, Len(mcbs)) /\ ThisPart.op = "write"
      /\ ThisPart.mcb = sub.mcb /\ ThisPart.first = p.first /\ ThisPart.vals = p.vals
  BY <1>1, <1>2, <1>4 DEF ThisPart, PartsInFlight
<1>6. PartRight(p, mcbs[sub.mcb].cbs, shape)
  <2>1. sub.i \in sub.i .. Len(sub.reqs) /\ at = "submit"
    BY <1>1 DEF AtPart
  <2>2. QED BY <2>1, <1>2 DEF BlkTyped, PartsRight
<1>7. PartRight(ThisPart, mcbs[sub.mcb].cbs, shape)
  BY <1>5, <1>6 DEF PartRight
<1>8. QED BY <1>2, <1>5, <1>7

SubNext == sub' = [sub EXCEPT !.i = @ + 1]

LEMMA SubNextFields ==
  ASSUME BlkTyped, SubNext
  PROVE  /\ sub' \in Subs(Writes) /\ sub'.reqs = sub.reqs /\ sub'.sorted = sub.sorted
         /\ sub'.i = sub.i + 1 /\ sub'.mcb = sub.mcb /\ sub'.from = sub.from
<1>1. sub \in Subs(Writes)
  BY DEF BlkTyped, DeviceTyped
<1>2. QED BY <1>1 DEF SubNext, Subs

LEMMA SubmitStepTyped ==
  ASSUME BlkTyped, setup' = setup, AtPart,
         UNCHANGED <<shape, before, avail, walk, mrb, bh, disk>>, CompletionTyped,
         mcbs' \in Seq(Mcbs(Writes)), McbsSame, fails' \in 0 .. MaxFails,
         flight' \subseteq flight \cup {ThisPart},
         (at' = at /\ SubNext) \/ (at' = sub.from /\ sub' = sub)
  PROVE  BlkTyped'
<1>1. Steady /\ Gone' = Gone /\ Writes' = Writes
  BY NotTaking
<1>2. /\ sub' \in Subs(Writes) /\ sub'.reqs = sub.reqs /\ sub'.sorted = sub.sorted
      /\ sub'.i \in {sub.i, sub.i + 1} /\ sub'.mcb = sub.mcb /\ sub'.from = sub.from
      /\ at' = "submit" => sub'.i = sub.i + 1
  BY SubNextFields, SubFields DEF BlkTyped, DeviceTyped
<1>3. at = "submit" /\ sub.i \in 1 .. Len(sub.reqs) /\ Len(sub.reqs) \in Nat /\ sub.mcb \in 1 .. Len(mcbs)
  BY SubFields DEF AtPart, BlkTyped, HandlerOK
<1>4. at' \in {"submit", "output", "restart"} /\ (at' # "submit" => at' = sub.from)
  BY <1>3, SubFields
<1>5. Len(mcbs') = Len(mcbs) /\ mcbs'[sub.mcb].cbs = mcbs[sub.mcb].cbs
  BY <1>3 DEF McbsSame
<1>6. GuestTyped'
  BY SetupSame DEF BlkTyped, GuestTyped, Queue, CompletionTyped
<1>7. DeviceTyped'
  <2>1. /\ walk' \in Seq(Gone') /\ mrb' \in Seq(Writes')
        /\ flight \subseteq PartsInFlight(Writes', Len(mcbs')) \cup OthersInFlight(Gone')
        /\ disk' \in [Sectors -> Writes' \cup {Nobody}]
    BY <1>1, DeviceKept
  <2>2. ThisPart \in PartsInFlight(Writes', Len(mcbs')) /\ ThisPart.op = "write"
    BY <1>1, <1>5, ThisPartRight
  <2>3. flight' \subseteq PartsInFlight(Writes', Len(mcbs')) \cup OthersInFlight(Gone')
    BY <2>1, <2>2
  <2>4. \A w \in flight' : w.op # "write" => w.op = Op(w.req)'
    BY <2>2, <1>1, PartsKept DEF Op
  <2>5. fails' \in 0 .. MaxFails' /\ bh' \in BOOLEAN
    BY SetupSame DEF BlkTyped, DeviceTyped
  <2>6. QED BY <2>1, <2>3, <2>4, <2>5, <1>1, <1>2, <1>4 DEF DeviceTyped, CompletionTyped
<1>8. HandlerOK'
  <2>1. mrb' = <<>> /\ Len(mrb') <= BatchSize'
    BY <1>3, SetupSame DEF BlkTyped, HandlerOK
  <2>2. walk' # <<>> => sub.from = "restart"
    BY <1>3 DEF BlkTyped, HandlerOK
  <2>3. sub'.i \in 1 .. Len(sub'.reqs) + 1
    BY <1>2, <1>3
  <2>4. BatchSize' = BatchSize
    BY SetupSame
  <2>5. QED BY <2>1, <2>2, <2>3, <2>4, <1>2, <1>3, <1>4, <1>5 DEF BlkTyped, HandlerOK
<1>9. PartsRight'
  <2>1. \A w \in flight : w.op = "write" => PartRight(w, mcbs'[w.mcb].cbs, shape')
    BY <1>1, PartsKept
  <2>2. PartRight(ThisPart, mcbs'[ThisPart.mcb].cbs, shape')
    BY <1>5, ThisPartRight
  <2>3. at' = "submit" => \A j \in sub'.i .. Len(sub'.reqs) :
                            PartRight(sub'.reqs[j], mcbs'[sub'.mcb].cbs, shape')
    <3> SUFFICES ASSUME at' = "submit", NEW j \in sub.i + 1 .. Len(sub.reqs)
                 PROVE  PartRight(sub.reqs[j], mcbs[sub.mcb].cbs, shape)
      BY <1>2, <1>5
    <3>1. j \in sub.i .. Len(sub.reqs)
      BY <1>3
    <3>2. QED BY <3>1, <1>3 DEF BlkTyped, PartsRight
  <2>4. QED BY <2>1, <2>2, <2>3 DEF PartsRight
<1>10. OnlyWritten'
  BY <1>1, DiskKept
<1>11. FlushesFirst'
  <2>1. mrb' = <<>>
    BY <1>3 DEF BlkTyped, HandlerOK
  <2>2. QED BY <2>1, NoneInList DEF FlushesFirst
<1>12. QED BY <1>6, <1>7, <1>8, <1>9, <1>10, <1>11 DEF BlkTyped

LEMMA NothingTyped ==
  ASSUME BlkTyped, NothingCompleted
  PROVE  CompletionTyped
BY DEF NothingCompleted, CompletionTyped, BlkTyped, GuestTyped, DeviceTyped, done

LEMMA McbCbs ==
  ASSUME BlkTyped, NEW m \in 1 .. Len(mcbs)
  PROVE  /\ mcbs[m] \in Mcbs(Writes) /\ mcbs[m].cbs \in Seq(Writes) /\ mcbs[m].cbs \in Seq(Gone)
         /\ Elements(mcbs[m].cbs) \subseteq Writes
         /\ mcbs[m].num \in Int /\ mcbs[m].error \in BOOLEAN /\ mcbs[m].freed \in BOOLEAN
<1>1. mcbs[m] \in Mcbs(Writes)
  BY DEF BlkTyped, DeviceTyped
<1>2. /\ mcbs[m].cbs \in Seq(Writes) /\ mcbs[m].num \in Int
      /\ mcbs[m].error \in BOOLEAN /\ mcbs[m].freed \in BOOLEAN
  BY <1>1 DEF Mcbs
<1>3. Writes \subseteq Gone
  BY DEF Writes
<1>4. QED BY <1>1, <1>2, <1>3, Subset, ListType

\* A batch of which no callback was called fails.
BatchFails(m) ==
  IF mcbs[m].error THEN NothingCompleted ELSE virtio_blk_rw_complete(mcbs[m].cbs, FALSE)

LEMMA BatchFailsTyped ==
  ASSUME BlkTyped, NEW m \in 1 .. Len(mcbs), BatchFails(m)
  PROVE  CompletionTyped
<1>1. CASE NothingCompleted
  BY <1>1, NothingTyped
<1>2. CASE virtio_blk_rw_complete(mcbs[m].cbs, FALSE)
  BY <1>2, McbCbs, RwCases
<1>3. QED BY <1>1, <1>2 DEF BatchFails

LEMMA PartTakenTyped == ASSUME BlkTyped, setup' = setup, PartTaken PROVE BlkTyped'
<1>1. /\ AtPart /\ UNCHANGED <<shape, before, avail, walk, mrb, bh, disk, fails, at>>
      /\ NothingCompleted /\ flight' \subseteq flight \cup {ThisPart} /\ SubNext
  BY DEF PartTaken, guest, done, device, NothingCompleted, ThisPart, SubNext
<1>2. fails' \in 0 .. MaxFails
  BY <1>1 DEF BlkTyped, DeviceTyped
<1>3. QED BY <1>1, <1>2, PartTakenMcb, NothingTyped, SubmitStepTyped

LEMMA BatchRefusedFields ==
  ASSUME BlkTyped, BatchRefused
  PROVE  /\ AtPart /\ UNCHANGED <<shape, before, avail, walk, mrb, bh, disk, sub, flight>>
         /\ at' = sub.from /\ Fails("null")
         /\ sub.sorted[sub.i] \in Gone /\ sub.sorted[sub.i] \in Elements(mcbs[sub.mcb].cbs)
         /\ virtio_blk_rw_complete(<<sub.sorted[sub.i]>>, FALSE)
<1>1. /\ AtPart /\ UNCHANGED <<shape, before, avail, walk, mrb, bh, disk, sub, flight>>
      /\ at' = sub.from /\ Fails("null") /\ virtio_blk_rw_complete(<<sub.sorted[sub.i]>>, FALSE)
  BY DEF BatchRefused, guest
<1>2. sub.i \in 1 .. Len(sub.sorted) /\ Elements(sub.sorted) = Elements(mcbs[sub.mcb].cbs)
  BY <1>1, SubFields DEF AtPart, BlkTyped, HandlerOK
<1>3. sub.sorted[sub.i] \in Writes /\ sub.sorted[sub.i] \in Elements(sub.sorted)
  BY <1>2, SubFields, ListType DEF Elements
<1>4. QED BY <1>1, <1>2, <1>3 DEF Writes

LEMMA BatchRefusedTyped == ASSUME BlkTyped, setup' = setup, BatchRefused PROVE BlkTyped'
<1>1. /\ AtPart /\ UNCHANGED <<shape, before, avail, walk, mrb, bh, disk, sub, flight>>
      /\ at' = sub.from
  BY BatchRefusedFields
<1>2. CompletionTyped
  <2>1. PICK r : r = sub.sorted[sub.i]
    OBVIOUS
  <2>2. r \in Gone /\ virtio_blk_rw_complete(<<r>>, FALSE)
    BY <2>1, BatchRefusedFields
  <2>3. <<r>> \in Seq(Gone)
    BY <2>2
  <2>4. QED BY <2>2, <2>3, RwCases
<1>3. fails' \in 0 .. MaxFails
  BY BatchRefusedFields, FailsTyped
<1>4. QED BY <1>1, <1>2, <1>3, BatchRefusedMcb, SubmitStepTyped

LEMMA PartRefusedTyped == ASSUME BlkTyped, setup' = setup, PartRefused PROVE BlkTyped'
<1>1. /\ AtPart /\ UNCHANGED <<shape, before, avail, walk, mrb, bh, disk, sub, flight>>
      /\ at' = sub.from /\ BatchFails(sub.mcb) /\ Fails("null")
  BY DEF PartRefused, guest, BatchFails
<1>2. CompletionTyped
  BY <1>1, SubFields, BatchFailsTyped DEF AtPart
<1>3. fails' \in 0 .. MaxFails
  BY <1>1, FailsTyped
<1>4. QED BY <1>1, <1>2, <1>3, PartRefusedMcb, SubmitStepTyped

LEMMA PartFailsAtOnceTyped == ASSUME BlkTyped, setup' = setup, PartFailsAtOnce PROVE BlkTyped'
<1>1. /\ AtPart /\ UNCHANGED <<shape, before, avail, walk, mrb, bh, disk, at, flight>>
      /\ SubNext /\ BatchFails(sub.mcb) /\ Fails("sync")
  BY DEF PartFailsAtOnce, guest, BatchFails, SubNext
<1>2. CompletionTyped
  BY <1>1, SubFields, BatchFailsTyped DEF AtPart
<1>3. fails' \in 0 .. MaxFails
  BY <1>1, FailsTyped
<1>4. QED BY <1>1, <1>2, <1>3, PartFailsAtOnceMcb, SubmitStepTyped

\* A request is taken off the queue or off the list of the restart.
Took(r) ==
  /\ at \in {"output", "restart"} /\ r \in Gone' /\ Steady /\ GuestTyped'
  /\ walk' \in Seq(Gone') /\ (walk' # <<>> => at = "restart")
  /\ at = "output" => r = Len(shape) - Len(avail) + 1
  /\ Op(r)' = Op(r)

LEMMA WalkTaken ==
  ASSUME BlkTyped, walk # <<>>
  PROVE  Tail(walk) \in Seq(Gone) /\ Head(walk) \in Gone
BY DEF BlkTyped, DeviceTyped

LEMMA TookRight ==
  ASSUME BlkTyped, setup' = setup, NEW r, at \in {"output", "restart"}, Source # <<>>, r = Head(Source),
         at = "output" => avail' = Tail(avail) /\ UNCHANGED walk,
         at = "restart" => UNCHANGED avail /\ walk' \in Seq(Gone),
         UNCHANGED <<shape, before, mcbs>>,
         used' \in [Req -> Nat], status' \in [Req -> {"none", "ok", "ioerr"}]
  PROVE  Took(r)
<1>1. Len(shape) \in Nat /\ Len(mcbs) \in Nat /\ GuestTyped
  BY DEF BlkTyped, GuestTyped, DeviceTyped
<1>2. CASE at = "output"
  <2>1. r = Head(avail) /\ avail # <<>> /\ walk' = walk
    BY <1>2 DEF Source
  <2>2. /\ GuestTyped' /\ r = Len(shape) - Len(avail) + 1 /\ Gone' = Gone \cup {r}
        /\ Gone \subseteq Gone' /\ Writes \subseteq Writes'
    BY <2>1, <1>1, <1>2, QueueTaken
  <2>3. Steady
    BY <2>2, <1>1 DEF Steady
  <2>4. walk' \in Seq(Gone')
    BY <2>1, <2>3, DeviceKept
  <2>5. walk = <<>>
    BY <1>2 DEF BlkTyped, HandlerOK
  <2>6. QED BY <2>1, <2>2, <2>3, <2>4, <2>5, <1>2 DEF Took, Op
<1>3. CASE at = "restart"
  <2>1. r = Head(walk) /\ walk # <<>> /\ avail' = avail
    BY <1>3 DEF Source
  <2>2. Steady /\ Gone' = Gone
    BY <2>1, NotTaking DEF McbsSame
  <2>3. GuestTyped'
    BY <2>1, SetupSame DEF BlkTyped, GuestTyped, Queue
  <2>4. r \in Gone
    BY <2>1, WalkTaken
  <2>5. QED BY <2>1, <2>2, <2>3, <2>4, <1>3 DEF Took, Op
<1>4. QED BY <1>2, <1>3

LEMMA LoopTyped ==
  ASSUME BlkTyped, setup' = setup, NEW r, Took(r), UNCHANGED <<at, sub, mcbs, bh, disk>>,
         rq' \in Seq(Gone'), running' \in BOOLEAN, fails' \in 0 .. MaxFails,
         mrb' \in Seq(Writes'), Len(mrb') <= BatchSize,
         flight' \subseteq flight \cup {[op |-> Op(r), req |-> r]},
         flight' # flight => Op(r) \in {"read", "flush"},
         at = "output" => \A w \in flight' : w.op = "flush" => \A q \in Elements(mrb') : w.req < q
  PROVE  BlkTyped'
<1>1. /\ at \in {"output", "restart"} /\ r \in Gone' /\ Steady /\ GuestTyped'
      /\ walk' \in Seq(Gone') /\ (walk' # <<>> => at = "restart") /\ Op(r)' = Op(r)
  BY DEF Took
<1>2. PICK v : v = [op |-> Op(r), req |-> r]
  OBVIOUS
<1>3. v.op = Op(r) /\ v.req = r
  BY <1>2
<1>4. Op(r) \in {"read", "flush"} => v \in OthersInFlight(Gone')
  BY <1>1, <1>2 DEF OthersInFlight
<1>5. flight' = flight \/ (Op(r) \in {"read", "flush"} /\ flight' \subseteq flight \cup {v})
  BY <1>2
<1>6. DeviceTyped'
  <2>1. /\ sub' \in Subs(Writes') /\ mcbs' \in Seq(Mcbs(Writes'))
        /\ flight \subseteq PartsInFlight(Writes', Len(mcbs')) \cup OthersInFlight(Gone')
        /\ disk' \in [Sectors -> Writes' \cup {Nobody}]
    BY <1>1, DeviceKept
  <2>2. flight' \subseteq PartsInFlight(Writes', Len(mcbs')) \cup OthersInFlight(Gone')
    BY <2>1, <1>4, <1>5
  <2>3. \A w \in flight' : w.op # "write" => w.op = Op(w.req)'
    BY <1>1, <1>3, <1>5, PartsKept DEF Op
  <2>4. fails' \in 0 .. MaxFails' /\ bh' \in BOOLEAN
    BY SetupSame DEF BlkTyped, DeviceTyped
  <2>5. QED BY <2>1, <2>2, <2>3, <2>4, <1>1 DEF DeviceTyped
<1>7. HandlerOK'
  BY <1>1, SetupSame DEF HandlerOK
<1>8. PartsRight'
  BY <1>1, <1>3, <1>5, PartsKept DEF PartsRight
<1>9. OnlyWritten'
  BY <1>1, DiskKept
<1>10. FlushesFirst'
  BY DEF FlushesFirst
<1>11. QED BY <1>1, <1>6, <1>7, <1>8, <1>9, <1>10 DEF BlkTyped

LEMMA TakenTook ==
  ASSUME BlkTyped, setup' = setup, NEW r, Taken(r), UNCHANGED <<shape, before, mcbs, used, status>>
  PROVE  Took(r)
<1>1. /\ at \in {"output", "restart"} /\ Source # <<>> /\ r = Head(Source)
      /\ at = "output" => avail' = Tail(avail) /\ UNCHANGED walk
      /\ at = "restart" => UNCHANGED avail /\ walk' = Tail(walk)
  BY DEF Taken
<1>2. at = "restart" => walk' \in Seq(Gone)
  BY <1>1, WalkTaken DEF Source
<1>3. used' \in [Req -> Nat] /\ status' \in [Req -> {"none", "ok", "ioerr"}]
  BY DEF BlkTyped, GuestTyped
<1>4. QED BY <1>1, <1>2, <1>3, TookRight

\* Flushes in flight are of requests taken earlier.
LEMMA FlushesEarlier ==
  ASSUME BlkTyped, NEW r, Took(r), at = "output", NEW w \in flight, w.op = "flush"
  PROVE  w.req < r
<1>1. w.req \in Gone
  BY OtherFields
<1>2. r = Len(shape) - Len(avail) + 1 /\ Len(shape) \in Nat /\ Len(avail) \in Nat /\ Len(avail) <= Len(shape)
  BY GuestFacts DEF Took, BlkTyped
<1>3. QED BY <1>1, <1>2 DEF Gone

LEMMA HandleWriteTyped ==
  ASSUME BlkTyped, setup' = setup, NEW r, virtio_blk_handle_write(r)
  PROVE  BlkTyped'
<1>1. /\ Taken(r) /\ Op(r) = "write" /\ Len(mrb) < BatchSize /\ mrb' = Append(mrb, r)
      /\ UNCHANGED <<shape, before, used, status, at, sub, mcbs, flight, rq, bh, running, disk, fails>>
  BY DEF virtio_blk_handle_write, done, device
<1>2. Took(r)
  BY <1>1, TakenTook
<1>3. r \in Writes' /\ Steady
  BY <1>1, <1>2 DEF Took, Writes
<1>4. mrb \in Seq(Writes') /\ rq' \in Seq(Gone')
  BY <1>1, <1>3, DeviceKept
<1>5. PICK W : W = Writes'
  OBVIOUS
<1>6. mrb \in Seq(W) /\ r \in W
  BY <1>3, <1>4, <1>5
<1>7. mrb' \in Seq(W) /\ Len(mrb') = Len(mrb) + 1
  BY <1>1, <1>6
<1>8. Elements(mrb') \subseteq Elements(mrb) \cup {r}
  BY <1>1, <1>6 DEF Elements
<1>9. Len(mrb) \in Nat /\ BatchSize \in Nat
  BY SetupFacts DEF BlkTyped, GuestTyped, DeviceTyped
<1>10. Len(mrb') <= BatchSize
  BY <1>1, <1>7, <1>9
<1>11. at = "output" => \A w \in flight' : w.op = "flush" => \A q \in Elements(mrb') : w.req < q
  BY <1>1, <1>2, <1>8, FlushesEarlier DEF BlkTyped, FlushesFirst
<1>12. fails' \in 0 .. MaxFails /\ running' \in BOOLEAN
  BY <1>1 DEF BlkTyped, DeviceTyped
<1>13. QED BY <1>1, <1>2, <1>4, <1>5, <1>7, <1>10, <1>11, <1>12, LoopTyped

LEMMA HandleOtherTyped ==
  ASSUME BlkTyped, setup' = setup, NEW r, virtio_blk_handle_read(r) \/ virtio_blk_handle_flush(r)
  PROVE  BlkTyped'
<1>1. /\ Taken(r) /\ Op(r) \in {"read", "flush"} /\ (Op(r) = "flush" => mrb = <<>>)
      /\ flight' = flight \cup {[op |-> Op(r), req |-> r]}
      /\ UNCHANGED <<shape, before, used, status, at, mrb, sub, mcbs, rq, bh, running, disk, fails>>
  BY DEF virtio_blk_handle_read, virtio_blk_handle_flush, done, device
<1>2. Took(r)
  BY <1>1, TakenTook
<1>3. Steady
  BY <1>2 DEF Took
<1>4. mrb' \in Seq(Writes') /\ rq' \in Seq(Gone')
  BY <1>1, <1>3, DeviceKept
<1>5. Len(mrb') <= BatchSize /\ fails' \in 0 .. MaxFails /\ running' \in BOOLEAN
  BY <1>1 DEF BlkTyped, DeviceTyped, HandlerOK
<1>6. at = "output" => \A w \in flight' : w.op = "flush" => \A q \in Elements(mrb') : w.req < q
  <2> SUFFICES ASSUME at = "output", NEW w \in flight', w.op = "flush", NEW q \in Elements(mrb)
               PROVE  w.req < q
    BY <1>1
  <2>1. Op(r) = "read"
    BY <1>1, NoneInList
  <2>2. w \in flight
    BY <2>1, <1>1
  <2>3. QED BY <2>2 DEF BlkTyped, FlushesFirst
<1>7. QED BY <1>1, <1>2, <1>4, <1>5, <1>6, LoopTyped

LEMMA ReadRefusedTyped ==
  ASSUME BlkTyped, setup' = setup, NEW r, ReadRefused(r)
  PROVE  BlkTyped' /\ Took(r) /\ Steady
<1>1. /\ at \in {"output", "restart"} /\ Source # <<>> /\ r = Head(Source) /\ Fails("null")
      /\ virtio_blk_rw_complete(<<r>>, FALSE)
      /\ at = "output" => avail' = Tail(avail) /\ UNCHANGED walk
      /\ at = "restart" => UNCHANGED avail /\ (walk' = rq \/ walk' = Tail(walk))
      /\ UNCHANGED <<shape, before, at, mrb, sub, mcbs, flight, bh, disk>>
  BY DEF ReadRefused
<1>2. at = "restart" => walk' \in Seq(Gone)
  BY <1>1, WalkTaken DEF Source, BlkTyped, DeviceTyped
<1>3. Policy \in {"ignore", "report", "stop"} /\ used \in [Req -> Nat] /\ status \in [Req -> {"none", "ok", "ioerr"}]
  BY SetupFacts DEF BlkTyped, GuestTyped
<1>4. used' \in [Req -> Nat] /\ status' \in [Req -> {"none", "ok", "ioerr"}]
  <2>1. CASE UNCHANGED <<used, status>>
    BY <2>1, <1>3
  <2>2. CASE CompletedAs(<<r>>, "ok")
    BY <2>2, <1>3 DEF CompletedAs
  <2>3. CASE CompletedAs(<<r>>, "ioerr")
    BY <2>3, <1>3 DEF CompletedAs
  <2>4. QED BY <2>1, <2>2, <2>3, <1>1, <1>3 DEF virtio_blk_rw_complete, done
<1>5. Took(r)
  BY <1>1, <1>2, <1>4, TookRight
<1>6. Steady /\ r \in Gone'
  BY <1>5 DEF Took
<1>7. mrb' \in Seq(Writes') /\ rq \in Seq(Gone')
  BY <1>1, <1>6, DeviceKept
<1>8. rq' \in Seq(Gone') /\ running' \in BOOLEAN
  <2>1. CASE rq' = rq /\ running' = running
    BY <2>1, <1>7 DEF BlkTyped, DeviceTyped
  <2>2. CASE rq' = Reverse(<<r>>) \o rq /\ running' = FALSE
    <3>1. PICK G : G = Gone'
      OBVIOUS
    <3>2. <<r>> \in Seq(G) /\ rq \in Seq(G)
      BY <3>1, <1>6, <1>7
    <3>3. Reverse(<<r>>) \o rq \in Seq(G)
      BY <3>2, Reversed, Concatenated
    <3>4. QED BY <2>2, <3>1, <3>3
  <2>3. QED BY <2>1, <2>2, <1>1, <1>3 DEF virtio_blk_rw_complete
<1>9. Len(mrb') <= BatchSize /\ fails' \in 0 .. MaxFails
  BY <1>1, FailsTyped DEF BlkTyped, HandlerOK
<1>10. at = "output" => \A w \in flight' : w.op = "flush" => \A q \in Elements(mrb') : w.req < q
  BY <1>1 DEF BlkTyped, FlushesFirst
<1>11. QED BY <1>1, <1>5, <1>6, <1>7, <1>8, <1>9, <1>10, LoopTyped

LEMMA FlushRefusedTyped ==
  ASSUME BlkTyped, setup' = setup, NEW r, FlushRefused(r)
  PROVE  BlkTyped'
<1>1. /\ Taken(r) /\ Fails("null") /\ CompletedAs(<<r>>, "ioerr")
      /\ UNCHANGED <<shape, before, at, mrb, sub, mcbs, flight, rq, bh, running, disk>>
  BY DEF FlushRefused, device
<1>2. /\ at \in {"output", "restart"} /\ Source # <<>> /\ r = Head(Source)
      /\ at = "output" => avail' = Tail(avail) /\ UNCHANGED walk
      /\ at = "restart" => UNCHANGED avail /\ walk' = Tail(walk)
  BY <1>1 DEF Taken
<1>3. at = "restart" => walk' \in Seq(Gone)
  BY <1>2, WalkTaken DEF Source, BlkTyped, DeviceTyped
<1>4. used' \in [Req -> Nat] /\ status' \in [Req -> {"none", "ok", "ioerr"}]
  BY <1>1 DEF CompletedAs, BlkTyped, GuestTyped
<1>5. Took(r)
  BY <1>1, <1>2, <1>3, <1>4, TookRight
<1>6. Steady /\ r \in Gone'
  BY <1>5 DEF Took
<1>7. mrb' \in Seq(Writes') /\ rq' \in Seq(Gone')
  BY <1>1, <1>6, DeviceKept
<1>8. Len(mrb') <= BatchSize /\ fails' \in 0 .. MaxFails /\ running' \in BOOLEAN
  BY <1>1, FailsTyped DEF BlkTyped, DeviceTyped, HandlerOK
<1>9. at = "output" => \A w \in flight' : w.op = "flush" => \A q \in Elements(mrb') : w.req < q
  BY <1>1 DEF BlkTyped, FlushesFirst
<1>10. QED BY <1>1, <1>2, <1>5, <1>7, <1>8, <1>9, LoopTyped

LEMMA InitTyped == Init => BlkTyped
<1> SUFFICES ASSUME Init PROVE BlkTyped
  OBVIOUS
<1>1. setup \in Setups /\ MaxFails \in Nat /\ setup.n \in Nat /\ BatchSize \in Nat
  BY SetupFacts DEF Init
<1>2. /\ <<>> \in Seq(Shapes) /\ <<>> \in Seq(SUBSET Req) /\ <<>> \in Seq(Req) /\ <<>> \in Seq(Gone)
      /\ <<>> \in Seq(Writes) /\ <<>> \in Seq(Mcbs(Writes)) /\ <<>> \in Seq(Parts(Writes))
      /\ Len(<<>>) = 0 /\ <<>> = [i \in 1 .. 0 |-> Len(shape) - Len(avail) + i]
  OBVIOUS
<1>3. GuestTyped
  BY <1>1, <1>2 DEF Init, GuestTyped, Queue
<1>4. sub \in Subs(Writes)
  BY <1>2 DEF Init, Subs
<1>5. DeviceTyped
  <2>1. /\ at \in {"idle", "output", "restart", "submit"} /\ walk \in Seq(Gone) /\ rq \in Seq(Gone)
        /\ mrb \in Seq(Writes) /\ mcbs \in Seq(Mcbs(Writes)) /\ bh \in BOOLEAN /\ running \in BOOLEAN
    BY <1>2 DEF Init
  <2>2. flight = {} /\ fails \in 0 .. MaxFails
    BY <1>1 DEF Init
  <2>3. disk \in [Sectors -> Writes \cup {Nobody}]
    BY DEF Init
  <2>4. QED BY <2>1, <2>2, <2>3, <1>4 DEF DeviceTyped
<1>6. HandlerOK /\ PartsRight /\ OnlyWritten /\ FlushesFirst
  BY <1>1, <1>2 DEF Init, HandlerOK, PartsRight, OnlyWritten, FlushesFirst
<1>7. QED BY <1>3, <1>5, <1>6 DEF BlkTyped

LEMMA NextTyped ==
  ASSUME BlkTyped, setup' = setup, Next
  PROVE  BlkTyped'
<1>1. CASE Handler
  BY <1>1, StartTyped, PartTakenTyped, BatchRefusedTyped, PartRefusedTyped, PartFailsAtOnceTyped,
     AllSubmittedTyped, LoopEndsTyped, HandleWriteTyped, HandleOtherTyped, ReadRefusedTyped,
     FlushRefusedTyped DEF Handler
<1>2. CASE \E w \in flight : Answer(w)
  BY <1>2, WriteSucceedsTyped, WriteFailsTyped, OtherAnswerTyped DEF Answer
<1>3. QED BY <1>1, <1>2, SubmitTyped, NotifyTyped, RestartTyped, ContTyped, MigrateTyped DEF Next

LEMMA StutterTyped ==
  ASSUME BlkTyped, UNCHANGED <<vars, setup>>
  PROVE  BlkTyped'
BY DEF vars, guest, done, handler, device, BlkTyped, GuestTyped, Queue, DeviceTyped, HandlerOK,
       PartsRight, OnlyWritten, FlushesFirst, Gone, Writes, Op, Covers, Shapes, BatchSize, MaxFails

-----------------------------------------------------------------------------
(***************************************************************************)
(* Requests at places.                                                     *)
(***************************************************************************)
LEMMA HeldAt ==
  ASSUME NEW a, NEW w, NEW b, NEW q, NEW o, NEW ms, Len(ms) \in Nat, NEW h, h = HeldOf(a, w, b, q, o, ms)
  PROVE  /\ h[1] = Elements(a) /\ h[2] = Elements(w) /\ h[3] = Elements(b) /\ h[4] = Elements(q)
         /\ h[5] = o
         /\ \A m \in 1 .. Len(ms) : 5 + m \in Nat /\ h[5 + m] = Pending(ms[m])
         /\ \A k \in Nat : k = 0 \/ k > 5 + Len(ms) => h[k] = {}
<1>1. \A m \in 1 .. Len(ms) : 5 + m \in Nat /\ h[5 + m] = Pending(ms[m])
  <2> SUFFICES ASSUME NEW m \in 1 .. Len(ms) PROVE 5 + m \in Nat /\ h[5 + m] = Pending(ms[m])
    OBVIOUS
  <2>1. /\ 5 + m \in Nat /\ 5 + m # 1 /\ 5 + m # 2 /\ 5 + m # 3 /\ 5 + m # 4 /\ 5 + m # 5
        /\ 5 + m > 5 /\ 5 + m <= 5 + Len(ms) /\ (5 + m) - 5 = m
    OBVIOUS
  <2>2. h[5 + m] = Pending(ms[(5 + m) - 5])
    BY <2>1 DEF HeldOf
  <2>3. QED BY <2>1, <2>2
<1>2. \A k \in Nat : k = 0 \/ k > 5 + Len(ms) => h[k] = {}
  BY DEF HeldOf
<1>3. QED BY <1>1, <1>2 DEF HeldOf

\* Places other than c and d are as they were.
Elsewhere(h, g, c, d) == \A k \in Nat : k # c /\ k # d => g[k] = h[k]

LEMMA HeldElsewhere ==
  ASSUME Len(mcbs) \in Nat, Len(mcbs') \in Nat, Len(mcbs) <= Len(mcbs'), NEW c \in Nat, NEW d \in Nat,
         1 \in {c, d} \/ Elements(avail') = Elements(avail),
         2 \in {c, d} \/ Elements(walk') = Elements(walk),
         3 \in {c, d} \/ Elements(mrb') = Elements(mrb),
         4 \in {c, d} \/ Elements(rq') = Elements(rq),
         5 \in {c, d} \/ OthersOf(flight') = OthersOf(flight),
         \A m \in 1 .. Len(mcbs) : 5 + m \in {c, d} \/ Pending(mcbs'[m]) = Pending(mcbs[m]),
         \A m \in 1 .. Len(mcbs') : m > Len(mcbs) => 5 + m \in {c, d} \/ Pending(mcbs'[m]) = {}
  PROVE  Elsewhere(Held, Held', c, d)
<1>1. PICK h : h = Held
  OBVIOUS
<1>2. PICK g : g = Held'
  OBVIOUS
<1>3. /\ h[1] = Elements(avail) /\ h[2] = Elements(walk) /\ h[3] = Elements(mrb) /\ h[4] = Elements(rq)
      /\ h[5] = OthersOf(flight)
      /\ \A m \in 1 .. Len(mcbs) : h[5 + m] = Pending(mcbs[m])
      /\ \A k \in Nat : k = 0 \/ k > 5 + Len(mcbs) => h[k] = {}
  BY <1>1, HeldAt DEF Held
<1>4. /\ g[1] = Elements(avail') /\ g[2] = Elements(walk') /\ g[3] = Elements(mrb') /\ g[4] = Elements(rq')
      /\ g[5] = OthersOf(flight')
      /\ \A m \in 1 .. Len(mcbs') : g[5 + m] = Pending(mcbs'[m])
      /\ \A k \in Nat : k = 0 \/ k > 5 + Len(mcbs') => g[k] = {}
  BY <1>2, HeldAt DEF Held
<1>5. ASSUME NEW k \in Nat, k # c, k # d PROVE g[k] = h[k]
  <2>1. CASE k \in {1, 2, 3, 4, 5}
    BY <2>1, <1>3, <1>4, <1>5
  <2>2. CASE k = 0 \/ k > 5 + Len(mcbs')
    <3>1. k = 0 \/ k > 5 + Len(mcbs)
      BY <2>2
    <3>2. QED BY <2>2, <3>1, <1>3, <1>4
  <2>3. CASE k > 5 /\ k <= 5 + Len(mcbs)
    <3>1. PICK m : m = k - 5
      OBVIOUS
    <3>2. m \in 1 .. Len(mcbs) /\ m \in 1 .. Len(mcbs') /\ k = 5 + m
      BY <2>3, <3>1
    <3>3. QED BY <3>2, <1>3, <1>4, <1>5
  <2>4. CASE k > 5 + Len(mcbs) /\ k <= 5 + Len(mcbs')
    <3>1. PICK m : m = k - 5
      OBVIOUS
    <3>2. m \in 1 .. Len(mcbs') /\ m > Len(mcbs) /\ k = 5 + m
      BY <2>4, <3>1
    <3>3. g[k] = {}
      BY <3>2, <1>4, <1>5
    <3>4. h[k] = {}
      BY <2>4, <1>3
    <3>5. QED BY <3>3, <3>4
  <2>5. QED BY <2>1, <2>2, <2>3, <2>4
<1>6. QED BY <1>1, <1>2, <1>5 DEF Elsewhere

\* Requests move from place c to place d.
LEMMA KeptMoved ==
  ASSUME NEW h, NEW g, NEW u, NEW n \in Nat, NEW lossy, Kept(h, u, n, lossy),
         NEW S, NEW c \in Nat, NEW d \in Nat, c # d, Elsewhere(h, g, c, d),
         S \subseteq h[c], g[c] = h[c] \ S, g[d] = h[d] \cup S
  PROVE  Kept(g, u, n, lossy)
<1>1. /\ \A k, l \in Nat : \A r \in h[k] : r \in h[l] => k = l
      /\ \A k \in Nat : \A r \in h[k] : r \in 1 .. n /\ u[r] = 0
      /\ \A r \in 1 .. n : u[r] \in {0, 1} /\ (~lossy /\ u[r] = 0 => \E k \in Nat : r \in h[k])
      /\ \A r \in Req : r > n => u[r] = 0
  BY DEF Kept
<1>2. \A k \in Nat : \A r : r \in g[k] <=> (r \in S /\ k = d) \/ (r \notin S /\ r \in h[k])
  <2> SUFFICES ASSUME NEW k \in Nat, NEW r
               PROVE  r \in g[k] <=> (r \in S /\ k = d) \/ (r \notin S /\ r \in h[k])
    OBVIOUS
  <2>1. CASE k = c
    BY <2>1
  <2>2. CASE k = d
    BY <2>2
  <2>3. CASE k # c /\ k # d
    <3>1. g[k] = h[k]
      BY <2>3 DEF Elsewhere
    <3>2. r \in S => r \notin h[k]
      BY <2>3, <1>1
    <3>3. QED BY <3>1, <3>2, <2>3
  <2>4. QED BY <2>1, <2>2, <2>3
<1>3. \A k, l \in Nat : \A r \in g[k] : r \in g[l] => k = l
  BY <1>1, <1>2
<1>4. \A k \in Nat : \A r \in g[k] : r \in 1 .. n /\ u[r] = 0
  BY <1>1, <1>2
<1>5. ASSUME NEW r \in 1 .. n, ~lossy, u[r] = 0 PROVE \E k \in Nat : r \in g[k]
  <2>1. CASE r \in S
    BY <2>1, <1>2
  <2>2. CASE r \notin S
    BY <2>2, <1>1, <1>2, <1>5
  <2>3. QED BY <2>1, <2>2
<1>6. QED BY <1>1, <1>3, <1>4, <1>5 DEF Kept

LEMMA KeptSame ==
  ASSUME NEW h, NEW g, NEW u, NEW n \in Nat, NEW lossy, Kept(h, u, n, lossy),
         \A k \in Nat : g[k] = h[k]
  PROVE  Kept(g, u, n, lossy)
BY DEF Kept

\* Requests at place c are completed.
Counted(u, v, S) == \A r \in Req : v[r] = u[r] + (IF r \in S THEN 1 ELSE 0)

LEMMA KeptFinished ==
  ASSUME NEW h, NEW g, NEW u, NEW v, NEW n \in Nat, 1 .. n \subseteq Req, NEW lossy, Kept(h, u, n, lossy),
         u \in [Req -> Nat], NEW S, NEW c \in Nat, Elsewhere(h, g, c, c),
         S \subseteq h[c], g[c] = h[c] \ S, Counted(u, v, S)
  PROVE  Kept(g, v, n, lossy)
<1>1. /\ \A k, l \in Nat : \A r \in h[k] : r \in h[l] => k = l
      /\ \A k \in Nat : \A r \in h[k] : r \in 1 .. n /\ u[r] = 0
      /\ \A r \in 1 .. n : u[r] \in {0, 1} /\ (~lossy /\ u[r] = 0 => \E k \in Nat : r \in h[k])
      /\ \A r \in Req : r > n => u[r] = 0
  BY DEF Kept
<1>2. \A k \in Nat : \A r : r \in g[k] <=> r \notin S /\ r \in h[k]
  <2> SUFFICES ASSUME NEW k \in Nat, NEW r PROVE r \in g[k] <=> r \notin S /\ r \in h[k]
    OBVIOUS
  <2>1. CASE k = c
    BY <2>1
  <2>2. CASE k # c
    <3>1. g[k] = h[k]
      BY <2>2 DEF Elsewhere
    <3>2. r \in S => r \notin h[k]
      BY <2>2, <1>1
    <3>3. QED BY <3>1, <3>2
  <2>3. QED BY <2>1, <2>2
<1>3. \A r \in S : r \in 1 .. n /\ u[r] = 0
  BY <1>1
<1>4. \A r \in Req : /\ r \in S => v[r] = 1
                     /\ r \notin S => v[r] = u[r]
  BY <1>3 DEF Counted
<1>5. \A k, l \in Nat : \A r \in g[k] : r \in g[l] => k = l
  BY <1>1, <1>2
<1>6. \A k \in Nat : \A r \in g[k] : r \in 1 .. n /\ v[r] = 0
  BY <1>1, <1>2, <1>4
<1>7. \A r \in 1 .. n : v[r] \in {0, 1}
  BY <1>1, <1>4
<1>8. ASSUME NEW r \in 1 .. n, ~lossy, v[r] = 0 PROVE \E k \in Nat : r \in g[k]
  <2>1. r \notin S /\ u[r] = 0
    BY <1>4, <1>8
  <2>2. QED BY <2>1, <1>1, <1>2, <1>8
<1>9. \A r \in Req : r > n => v[r] = 0
  BY <1>1, <1>3, <1>4
<1>10. QED BY <1>5, <1>6, <1>7, <1>8, <1>9 DEF Kept

\* A request is made.
LEMMA KeptGrown ==
  ASSUME NEW h, NEW g, NEW u, NEW n \in Nat, n + 1 \in Req, NEW lossy, Kept(h, u, n, lossy),
         Elsewhere(h, g, 1, 1), g[1] = h[1] \cup {n + 1}
  PROVE  Kept(g, u, n + 1, lossy)
<1>1. /\ \A k, l \in Nat : \A r \in h[k] : r \in h[l] => k = l
      /\ \A k \in Nat : \A r \in h[k] : r \in 1 .. n /\ u[r] = 0
      /\ \A r \in 1 .. n : u[r] \in {0, 1} /\ (~lossy /\ u[r] = 0 => \E k \in Nat : r \in h[k])
      /\ \A r \in Req : r > n => u[r] = 0
  BY DEF Kept
<1>2. \A k \in Nat : \A r : r \in g[k] <=> (r = n + 1 /\ k = 1) \/ r \in h[k]
  BY DEF Elsewhere
<1>3. \A k \in Nat : n + 1 \notin h[k]
  BY <1>1
<1>4. u[n + 1] = 0
  BY <1>1
<1>5. \A k, l \in Nat : \A r \in g[k] : r \in g[l] => k = l
  BY <1>1, <1>2, <1>3
<1>6. \A k \in Nat : \A r \in g[k] : r \in 1 .. n + 1 /\ u[r] = 0
  BY <1>1, <1>2, <1>4
<1>7. ASSUME NEW r \in 1 .. n + 1
      PROVE  u[r] \in {0, 1} /\ (~lossy /\ u[r] = 0 => \E k \in Nat : r \in g[k])
  <2>1. CASE r = n + 1
    <3>1. r \in g[1]
      BY <2>1, <1>2
    <3>2. QED BY <2>1, <3>1, <1>4
  <2>2. CASE r \in 1 .. n
    BY <2>2, <1>1, <1>2
  <2>3. QED BY <2>1, <2>2
<1>8. \A r \in Req : r > n + 1 => u[r] = 0
  BY <1>1 DEF Req
<1>9. QED BY <1>5, <1>6, <1>7, <1>8 DEF Kept

\* virtio_blk_load drops requests.
LEMMA KeptDropped ==
  ASSUME NEW h, NEW g, NEW u, NEW n \in Nat, Kept(h, u, n, TRUE), NEW c \in Nat,
         Elsewhere(h, g, c, c), g[c] = {}
  PROVE  Kept(g, u, n, TRUE)
<1>1. \A k \in Nat : \A r \in g[k] : r \in h[k]
  BY DEF Elsewhere
<1>2. QED BY <1>1 DEF Kept

-----------------------------------------------------------------------------
(***************************************************************************)
(* RequestsOK is kept by every step under those failures.                  *)
(***************************************************************************)
AllBatchesOK == \A m \in 1 .. Len(mcbs) : BatchOK(m)

KeptNow == Kept(Held, used, Len(shape), Migrates)

LEMMA RequestsParts ==
  RequestsOK <=> KeptNow /\ Once /\ AllBatchesOK /\ SubmitOK /\ ParkedStops
BY DEF RequestsOK, KeptNow, AllBatchesOK

LEMMA RequestsPartsNext ==
  ASSUME KeptNow', Once', AllBatchesOK', SubmitOK', ParkedStops'
  PROVE  RequestsOK'
BY DEF RequestsOK, KeptNow, AllBatchesOK

LEMMA HeldNow ==
  ASSUME BlkTyped
  PROVE  /\ Held[1] = Elements(avail) /\ Held[2] = Elements(walk) /\ Held[3] = Elements(mrb)
         /\ Held[4] = Elements(rq) /\ Held[5] = OthersOf(flight)
         /\ \A m \in 1 .. Len(mcbs) : 5 + m \in Nat /\ Held[5 + m] = Pending(mcbs[m])
         /\ \A k \in Nat : k = 0 \/ k > 5 + Len(mcbs) => Held[k] = {}
<1>1. Len(mcbs) \in Nat
  BY DEF BlkTyped, DeviceTyped
<1>2. PICK h : h = Held
  OBVIOUS
<1>3. /\ h[1] = Elements(avail) /\ h[2] = Elements(walk) /\ h[3] = Elements(mrb)
      /\ h[4] = Elements(rq) /\ h[5] = OthersOf(flight)
      /\ \A m \in 1 .. Len(mcbs) : 5 + m \in Nat /\ h[5 + m] = Pending(mcbs[m])
      /\ \A k \in Nat : k = 0 \/ k > 5 + Len(mcbs) => h[k] = {}
  BY <1>1, <1>2, HeldAt DEF Held
<1>4. QED BY <1>2, <1>3

LEMMA HeldNext ==
  ASSUME BlkTyped'
  PROVE  /\ Held'[1] = Elements(avail') /\ Held'[2] = Elements(walk') /\ Held'[3] = Elements(mrb')
         /\ Held'[4] = Elements(rq') /\ Held'[5] = OthersOf(flight')
         /\ \A m \in 1 .. Len(mcbs') : Held'[5 + m] = Pending(mcbs'[m])
<1>1. Len(mcbs') \in Nat
  BY DEF BlkTyped, DeviceTyped
<1>2. PICK h : h = Held'
  OBVIOUS
<1>3. /\ h[1] = Elements(avail') /\ h[2] = Elements(walk') /\ h[3] = Elements(mrb')
      /\ h[4] = Elements(rq') /\ h[5] = OthersOf(flight')
      /\ \A m \in 1 .. Len(mcbs') : h[5 + m] = Pending(mcbs'[m])
  BY <1>1, <1>2, HeldAt DEF Held
<1>4. QED BY <1>2, <1>3

LEMMA Lengths ==
  ASSUME BlkTyped
  PROVE  /\ Len(mcbs) \in Nat /\ Len(shape) \in Nat /\ 1 .. Len(shape) \subseteq Req
         /\ used \in [Req -> Nat]
BY GuestFacts DEF BlkTyped, DeviceTyped, GuestTyped

\* Nothing moves.
LEMMA HeldSame ==
  ASSUME BlkTyped, BlkTyped', setup' = setup, KeptNow, used' = used, Len(shape') = Len(shape),
         Elsewhere(Held, Held', 0, 0)
  PROVE  KeptNow'
<1>1. PICK h, g, u, n, l : h = Held /\ g = Held' /\ u = used /\ n = Len(shape) /\ l = Migrates
  OBVIOUS
<1>2. /\ Kept(h, u, n, l) /\ n \in Nat
      /\ \A k \in Nat : k # 0 => g[k] = h[k]
  BY <1>1, Lengths DEF KeptNow, Elsewhere
<1>3. g[0] = {} /\ h[0] = {}
  BY <1>1 DEF Held, HeldOf
<1>4. Kept(g, u, n, l)
  <2>1. \A k \in Nat : g[k] = h[k]
    BY <1>2, <1>3
  <2>2. QED BY <2>1, <1>2, KeptSame
<1>5. QED BY <1>1, <1>4, SetupSame DEF KeptNow

LEMMA HeldMoved ==
  ASSUME BlkTyped, BlkTyped', setup' = setup, KeptNow, used' = used, Len(shape') = Len(shape),
         NEW S, NEW c \in Nat, NEW d \in Nat, c # d, Elsewhere(Held, Held', c, d),
         S \subseteq Held[c], Held'[c] = Held[c] \ S, Held'[d] = Held[d] \cup S
  PROVE  KeptNow'
<1>1. PICK h, g, u, n, l : h = Held /\ g = Held' /\ u = used /\ n = Len(shape) /\ l = Migrates
  OBVIOUS
<1>2. /\ Kept(h, u, n, l) /\ n \in Nat /\ Elsewhere(h, g, c, d)
      /\ S \subseteq h[c] /\ g[c] = h[c] \ S /\ g[d] = h[d] \cup S
  BY <1>1, Lengths DEF KeptNow
<1>3. Kept(g, u, n, l)
  BY <1>2, KeptMoved
<1>4. QED BY <1>1, <1>3, SetupSame DEF KeptNow

LEMMA HeldFinished ==
  ASSUME BlkTyped, BlkTyped', setup' = setup, KeptNow, Len(shape') = Len(shape),
         NEW S, NEW c \in Nat, Elsewhere(Held, Held', c, c),
         S \subseteq Held[c], Held'[c] = Held[c] \ S, Counted(used, used', S)
  PROVE  KeptNow'
<1>1. PICK h, g, u, v, n, l : h = Held /\ g = Held' /\ u = used /\ v = used' /\ n = Len(shape) /\ l = Migrates
  OBVIOUS
<1>2. /\ Kept(h, u, n, l) /\ n \in Nat /\ 1 .. n \subseteq Req /\ u \in [Req -> Nat]
      /\ Elsewhere(h, g, c, c) /\ Counted(u, v, S)
      /\ S \subseteq h[c] /\ g[c] = h[c] \ S
  BY <1>1, Lengths DEF KeptNow
<1>3. Kept(g, v, n, l)
  BY <1>2, KeptFinished
<1>4. QED BY <1>1, <1>3, SetupSame DEF KeptNow

\* A request is at one place.
LEMMA OnePlace ==
  ASSUME KeptNow, NEW c \in Nat, NEW d \in Nat, c # d
  PROVE  Held[c] \cap Held[d] = {}
BY DEF KeptNow, Kept

\* The requests rs at place c are completed, or parked.
LEMMA CompletedKept ==
  ASSUME BlkTyped, BlkTyped', setup' = setup, KeptNow, Len(shape') = Len(shape), NoRepeat(rq),
         ParkedStops, bh' = bh,
         NEW rs \in Seq(Gone), NoRepeat(rs), NEW c \in Nat, c # 4, Elsewhere(Held, Held', c, 4),
         Elements(rs) \subseteq Held[c], Held'[c] = Held[c] \ Elements(rs),
         NEW ok \in BOOLEAN, Finishes(Elements(rs), ok) \/ Parks(rs)
  PROVE  KeptNow' /\ NoRepeat(rq') /\ ParkedStops'
<1>1. Held[4] = Elements(rq) /\ Held'[4] = Elements(rq')
  BY HeldNow, HeldNext
<1>2. CASE Finishes(Elements(rs), ok)
  <2>1. rq' = rq /\ running' = running /\ Counted(used, used', Elements(rs))
    BY <1>2 DEF Finishes, Counted
  <2>2. Elsewhere(Held, Held', c, c)
    BY <2>1, <1>1 DEF Elsewhere
  <2>3. KeptNow'
    BY <2>1, <2>2, HeldFinished
  <2>4. QED BY <2>1, <2>3 DEF ParkedStops
<1>3. CASE Parks(rs)
  <2>1. rq' = Reverse(rs) \o rq /\ running' = FALSE /\ used' = used
    BY <1>3 DEF Parks
  <2>2. rq \in Seq(Gone)
    BY DEF BlkTyped, DeviceTyped
  <2>3. PICK t : t = Reverse(rs)
    OBVIOUS
  <2>4. t \in Seq(Gone) /\ Elements(t) = Elements(rs) /\ NoRepeat(t)
    BY <2>3, Reversed
  <2>5. Elements(t) \cap Elements(rq) = {}
    BY <2>4, <1>1, OnePlace
  <2>6. Elements(t \o rq) = Elements(t) \cup Elements(rq) /\ NoRepeat(t \o rq)
    BY <2>2, <2>4, <2>5, Concatenated
  <2>7. Elements(rq') = Elements(rq) \cup Elements(rs) /\ NoRepeat(rq')
    BY <2>1, <2>3, <2>4, <2>6
  <2>8. KeptNow'
    <3>1. PICK S : S = Elements(rs)
      OBVIOUS
    <3>2. S \subseteq Held[c] /\ Held'[c] = Held[c] \ S /\ Held'[4] = Held[4] \cup S
      BY <3>1, <2>7, <1>1
    <3>3. used' = used /\ 4 \in Nat
      BY <2>1
    <3>4. QED BY <3>2, <3>3, HeldMoved
  <2>9. QED BY <2>1, <2>7, <2>8 DEF ParkedStops
<1>4. QED BY <1>2, <1>3

\* Batches a step does not touch.
LEMMA BatchesSame ==
  ASSUME setup' = setup, AllBatchesOK, mcbs' = mcbs,
         \A w : w.op = "write" => (w \in flight' <=> w \in flight)
  PROVE  AllBatchesOK'
<1>1. \A m : PartsOf(m)' = PartsOf(m)
  BY DEF PartsOf
<1>2. \A m \in 1 .. Len(mcbs) : BatchOK(m) => BatchOK(m)'
  BY <1>1, SetupSame DEF BatchOK
<1>3. QED BY <1>2 DEF AllBatchesOK

LEMMA OtherBatches ==
  ASSUME setup' = setup, AllBatchesOK, NEW m \in 1 .. Len(mcbs'), Len(mcbs) \in Nat, Len(mcbs') \in Nat,
         \A k \in 1 .. Len(mcbs') : k # m => k \in 1 .. Len(mcbs) /\ mcbs'[k] = mcbs[k],
         \A w : w.op = "write" /\ w.mcb # m => (w \in flight' <=> w \in flight),
         BatchOK(m)'
  PROVE  AllBatchesOK'
<1>1. \A k : k # m => PartsOf(k)' = PartsOf(k)
  BY DEF PartsOf
<1>2. ASSUME NEW k \in 1 .. Len(mcbs'), k # m PROVE BatchOK(k)'
  <2>1. BatchOK(k) /\ mcbs'[k] = mcbs[k] /\ PartsOf(k)' = PartsOf(k)
    BY <1>1, <1>2 DEF AllBatchesOK
  <2>2. QED BY <2>1, SetupSame DEF BatchOK
<1>3. QED BY <1>2 DEF AllBatchesOK

\* Steps that only move between the loops.
LEMMA QuietRequests ==
  ASSUME BlkTyped, BlkTyped', setup' = setup, RequestsOK,
         UNCHANGED <<shape, avail, used, walk, mrb, rq, mcbs, flight>>, at' # "submit", ParkedStops'
  PROVE  RequestsOK'
<1>1. KeptNow /\ Once /\ AllBatchesOK
  BY RequestsParts
<1>2. Elsewhere(Held, Held', 0, 0)
  BY DEF Elsewhere, Held
<1>3. KeptNow'
  BY <1>1, <1>2, HeldSame
<1>4. AllBatchesOK'
  BY <1>1, BatchesSame
<1>5. Once' /\ SubmitOK'
  BY <1>1 DEF Once, SubmitOK
<1>6. QED BY <1>3, <1>4, <1>5, RequestsPartsNext

LEMMA QuietStepsRequests ==
  ASSUME BlkTyped, BlkTyped', setup' = setup, RequestsOK,
         Notify \/ AllSubmitted \/ LoopEnds \/ Cont
  PROVE  RequestsOK'
<1>1. ParkedStops
  BY RequestsParts
<1>2. UNCHANGED <<shape, avail, used, walk, mrb, rq, mcbs, flight>>
  BY DEF Notify, AllSubmitted, LoopEnds, Cont, guest, done, handler, device
<1>3. at' # "submit"
  BY SubFields DEF Notify, AllSubmitted, LoopEnds, Cont, handler
<1>4. ParkedStops'
  BY <1>1 DEF ParkedStops, Notify, AllSubmitted, LoopEnds, Cont, device
<1>5. QED BY <1>2, <1>3, <1>4, QuietRequests

LEMMA SubmitRequests ==
  ASSUME BlkTyped, BlkTyped', setup' = setup, RequestsOK, NEW sh \in Shapes, Submit(sh)
  PROVE  RequestsOK'
<1>1. KeptNow /\ Once /\ AllBatchesOK /\ SubmitOK /\ ParkedStops
  BY RequestsParts
<1>2. UNCHANGED <<used, status, at, walk, mrb, sub, mcbs, flight, rq, bh, running, disk, fails>>
  BY DEF Submit, done, handler, device
<1>3. /\ Len(shape') = Len(shape) + 1 /\ Len(shape) + 1 \in Req
      /\ Elements(avail') = Elements(avail) \cup {Len(shape) + 1}
  BY QueueGrows DEF BlkTyped
<1>4. Elsewhere(Held, Held', 1, 1)
  BY <1>2, Lengths, HeldElsewhere
<1>5. KeptNow'
  <2>1. PICK h, g, u, n, l : h = Held /\ g = Held' /\ u = used /\ n = Len(shape) /\ l = Migrates
    OBVIOUS
  <2>2. Kept(h, u, n, l) /\ n \in Nat /\ n + 1 \in Req /\ Elsewhere(h, g, 1, 1) /\ g[1] = h[1] \cup {n + 1}
    BY <2>1, <1>1, <1>3, <1>4, Lengths, HeldNow, HeldNext DEF KeptNow
  <2>3. Kept(g, u, n + 1, l)
    BY <2>2, KeptGrown
  <2>4. QED BY <2>1, <2>3, <1>2, <1>3, SetupSame DEF KeptNow
<1>6. AllBatchesOK'
  BY <1>1, <1>2, BatchesSame
<1>7. Once' /\ SubmitOK' /\ ParkedStops'
  BY <1>1, <1>2, SetupSame DEF Once, SubmitOK, ParkedStops, AtPart
<1>8. QED BY <1>5, <1>6, <1>7, RequestsPartsNext

LEMMA RestartRequests ==
  ASSUME BlkTyped, BlkTyped', setup' = setup, RequestsOK, virtio_blk_dma_restart_bh
  PROVE  RequestsOK'
<1>1. KeptNow /\ Once /\ AllBatchesOK
  BY RequestsParts
<1>2. /\ UNCHANGED <<shape, avail, used, mrb, sub, mcbs, flight>>
      /\ walk' = rq /\ rq' = <<>> /\ at = "idle" /\ at' = "restart"
  BY DEF virtio_blk_dma_restart_bh, guest, done
<1>3. walk = <<>>
  BY <1>2 DEF BlkTyped, HandlerOK
<1>4. Elsewhere(Held, Held', 4, 2)
  BY <1>2, Lengths, HeldElsewhere
<1>5. /\ Held'[4] = Held[4] \ Elements(rq) /\ Held'[2] = Held[2] \cup Elements(rq)
      /\ Elements(rq) \subseteq Held[4]
  BY <1>2, <1>3, HeldNow, HeldNext, NoneInList
<1>6. KeptNow'
  <2>1. PICK S : S = Elements(rq)
    OBVIOUS
  <2>2. S \subseteq Held[4] /\ Held'[4] = Held[4] \ S /\ Held'[2] = Held[2] \cup S
    BY <2>1, <1>5
  <2>3. used' = used /\ Len(shape') = Len(shape) /\ 4 \in Nat /\ 2 \in Nat /\ 4 # 2
    BY <1>2
  <2>4. QED BY ONLY BlkTyped, BlkTyped', setup' = setup, <2>2, <2>3, <1>1, <1>4, HeldMoved
<1>7. AllBatchesOK'
  BY <1>1, <1>2, BatchesSame
<1>8. Once' /\ SubmitOK' /\ ParkedStops'
  BY <1>1, <1>2, NoneInList DEF Once, SubmitOK, ParkedStops
<1>9. QED BY <1>6, <1>7, <1>8, RequestsPartsNext

LEMMA MigrateRequests ==
  ASSUME BlkTyped, BlkTyped', setup' = setup, RequestsOK, Migrate
  PROVE  RequestsOK'
<1>1. KeptNow /\ Once /\ AllBatchesOK
  BY RequestsParts
<1>2. /\ UNCHANGED <<shape, avail, used, walk, mrb, sub, mcbs, flight>>
      /\ rq' = <<>> /\ at' = "idle" /\ Migrates
  BY DEF Migrate, guest, done, handler
<1>3. Elsewhere(Held, Held', 4, 4)
  BY <1>2, Lengths, HeldElsewhere
<1>4. KeptNow'
  <2>1. PICK h, g, u, n : h = Held /\ g = Held' /\ u = used /\ n = Len(shape)
    OBVIOUS
  <2>2. Migrates \in BOOLEAN
    BY SetupFacts DEF BlkTyped, GuestTyped
  <2>3. Migrates = TRUE
    BY <2>2, <1>2
  <2>4. Kept(h, u, n, TRUE) /\ n \in Nat /\ Elsewhere(h, g, 4, 4) /\ g[4] = {}
    BY <2>1, <2>3, <1>1, <1>2, <1>3, Lengths, HeldNext, NoneInList DEF KeptNow
  <2>5. Kept(g, u, n, TRUE)
    BY <2>4, KeptDropped
  <2>6. QED BY <2>1, <2>3, <2>5, <1>2, SetupSame DEF KeptNow
<1>5. AllBatchesOK'
  BY <1>1, <1>2, BatchesSame
<1>6. Once' /\ SubmitOK' /\ ParkedStops'
  BY <1>1, <1>2, NoneInList DEF Once, SubmitOK, ParkedStops
<1>7. QED BY <1>4, <1>5, <1>6, RequestsPartsNext

\* The place the loop takes its requests from.
LEMMA SourcePlace ==
  ASSUME BlkTyped, BlkTyped', setup' = setup, NoRepeat(walk), NEW r,
         at \in {"output", "restart"}, Source # <<>>, r = Head(Source),
         at = "output" => avail' = Tail(avail) /\ UNCHANGED walk,
         at = "restart" => UNCHANGED avail /\ walk' = Tail(walk),
         UNCHANGED <<shape, before>>
  PROVE  /\ NoRepeat(walk')
         /\ \E c \in {1, 2} : /\ r \in Held[c] /\ Held'[c] = Held[c] \ {r}
                              /\ c = 1 \/ Elements(avail') = Elements(avail)
                              /\ c = 2 \/ Elements(walk') = Elements(walk)
<1>1. /\ Held[1] = Elements(avail) /\ Held[2] = Elements(walk)
      /\ Held'[1] = Elements(avail') /\ Held'[2] = Elements(walk')
  BY HeldNow, HeldNext
<1>2. CASE at = "output"
  <2>1. avail # <<>> /\ r = Head(avail) /\ walk' = walk /\ avail' = Tail(avail)
    BY <1>2 DEF Source
  <2>2. GuestTyped /\ used' \in [Req -> Nat] /\ status' \in [Req -> {"none", "ok", "ioerr"}]
    BY DEF BlkTyped, GuestTyped
  <2>3. Elements(avail') = Elements(avail) \ {r}
    BY <2>1, <2>2, QueueTaken
  <2>4. r \in Elements(avail)
    <3>1. avail \in Seq(Req)
      BY <2>2 DEF GuestTyped
    <3>2. QED BY <2>1, <3>1 DEF Elements
  <2>5. QED BY <2>1, <2>3, <2>4, <1>1
<1>3. CASE at = "restart"
  <2>1. walk # <<>> /\ r = Head(walk) /\ walk' = Tail(walk) /\ avail' = avail
    BY <1>3 DEF Source
  <2>2. walk \in Seq(Gone)
    BY DEF BlkTyped, DeviceTyped
  <2>3. r \in Elements(walk) /\ NoRepeat(walk') /\ Elements(walk') = Elements(walk) \ {r}
    BY <2>1, <2>2, Tails
  <2>4. QED BY <2>1, <2>3, <1>1
<1>4. QED BY <1>2, <1>3

LEMMA HandleWriteRequests ==
  ASSUME BlkTyped, BlkTyped', setup' = setup, RequestsOK, NEW r, virtio_blk_handle_write(r)
  PROVE  RequestsOK'
<1>1. KeptNow /\ Once /\ AllBatchesOK /\ SubmitOK /\ ParkedStops
  BY RequestsParts
<1>2. /\ Taken(r) /\ mrb' = Append(mrb, r)
      /\ UNCHANGED <<shape, before, used, at, sub, mcbs, flight, rq, bh, running>>
  BY DEF virtio_blk_handle_write, done, device
<1>3. PICK c \in {1, 2} : /\ r \in Held[c] /\ Held'[c] = Held[c] \ {r}
                          /\ c = 1 \/ Elements(avail') = Elements(avail)
                          /\ c = 2 \/ Elements(walk') = Elements(walk)
  BY <1>1, <1>2, SourcePlace DEF Taken, Once
<1>4. NoRepeat(walk')
  BY <1>1, <1>2, SourcePlace DEF Taken, Once
<1>5. c \in Nat /\ c # 3 /\ Held[c] \cap Held[3] = {}
  BY <1>1, <1>3, OnePlace
<1>6. r \in Req /\ mrb \in Seq(Req) /\ r \notin Elements(mrb) /\ NoRepeat(mrb)
  <2>1. r \in 1 .. Len(shape)
    BY <1>1, <1>3, <1>5 DEF KeptNow, Kept
  <2>2. mrb \in Seq(Writes) /\ Writes \subseteq Req
    BY GuestFacts DEF BlkTyped, DeviceTyped, Writes
  <2>3. mrb \in Seq(Req)
    BY <2>2, Subset
  <2>4. QED BY <2>1, <2>3, <1>1, <1>3, <1>5, HeldNow, Lengths DEF Once
<1>7. NoRepeat(mrb') /\ Elements(mrb') = Elements(mrb) \cup {r}
  BY <1>2, <1>6, Appends
<1>8. Held'[3] = Held[3] \cup {r}
  BY <1>7, HeldNow, HeldNext
<1>9. Elsewhere(Held, Held', c, 3)
  BY <1>2, <1>3, <1>5, Lengths, HeldElsewhere
<1>10. KeptNow'
  <2>1. PICK S : S = {r}
    OBVIOUS
  <2>2. S \subseteq Held[c] /\ Held'[c] = Held[c] \ S /\ Held'[3] = Held[3] \cup S
    BY <2>1, <1>3, <1>8
  <2>3. used' = used /\ Len(shape') = Len(shape) /\ 3 \in Nat
    BY <1>2
  <2>4. QED BY ONLY BlkTyped, BlkTyped', setup' = setup, <2>2, <2>3, <1>1, <1>5, <1>9, HeldMoved
<1>11. AllBatchesOK'
  BY <1>1, <1>2, BatchesSame
<1>12. Once' /\ ParkedStops'
  BY <1>1, <1>2, <1>4, <1>7 DEF Once, ParkedStops
<1>13. SubmitOK'
  BY <1>2 DEF SubmitOK, Taken
<1>14. QED BY <1>10, <1>11, <1>12, <1>13, RequestsPartsNext

\* A request other than a write in flight.
LEMMA OtherAdded ==
  ASSUME NEW f, NEW g, NEW v, v.op # "write", g = f \cup {v}
  PROVE  /\ OthersOf(g) = OthersOf(f) \cup {v.req}
         /\ \A w : w.op = "write" => (w \in g <=> w \in f)
BY DEF OthersOf

LEMMA HandleOtherRequests ==
  ASSUME BlkTyped, BlkTyped', setup' = setup, RequestsOK, NEW r,
         virtio_blk_handle_read(r) \/ virtio_blk_handle_flush(r)
  PROVE  RequestsOK'
<1>1. KeptNow /\ Once /\ AllBatchesOK /\ SubmitOK /\ ParkedStops
  BY RequestsParts
<1>2. /\ Taken(r) /\ Op(r) \in {"read", "flush"} /\ flight' = flight \cup {[op |-> Op(r), req |-> r]}
      /\ UNCHANGED <<shape, before, used, at, sub, mrb, mcbs, rq, bh, running>>
  BY DEF virtio_blk_handle_read, virtio_blk_handle_flush, done, device
<1>3. PICK c \in {1, 2} : /\ r \in Held[c] /\ Held'[c] = Held[c] \ {r}
                          /\ c = 1 \/ Elements(avail') = Elements(avail)
                          /\ c = 2 \/ Elements(walk') = Elements(walk)
  BY <1>1, <1>2, SourcePlace DEF Taken, Once
<1>4. NoRepeat(walk')
  BY <1>1, <1>2, SourcePlace DEF Taken, Once
<1>5. c \in Nat /\ c # 5
  BY <1>3
<1>6. /\ OthersOf(flight') = OthersOf(flight) \cup {r}
      /\ \A w : w.op = "write" => (w \in flight' <=> w \in flight)
  <2>1. PICK v, f, g : v = [op |-> Op(r), req |-> r] /\ f = flight /\ g = flight'
    OBVIOUS
  <2>2. v.op # "write" /\ g = f \cup {v} /\ v.req = r
    BY <2>1, <1>2
  <2>3. OthersOf(g) = OthersOf(f) \cup {r} /\ \A w : w.op = "write" => (w \in g <=> w \in f)
    BY <2>2, OtherAdded
  <2>4. QED BY <2>1, <2>3
<1>7. Held'[5] = Held[5] \cup {r}
  BY <1>6, HeldNow, HeldNext
<1>8. Elsewhere(Held, Held', c, 5)
  BY <1>2, <1>3, <1>5, Lengths, HeldElsewhere
<1>9. KeptNow'
  <2>1. PICK S : S = {r}
    OBVIOUS
  <2>2. S \subseteq Held[c] /\ Held'[c] = Held[c] \ S /\ Held'[5] = Held[5] \cup S
    BY <2>1, <1>3, <1>7
  <2>3. used' = used /\ Len(shape') = Len(shape) /\ 5 \in Nat
    BY <1>2
  <2>4. QED BY ONLY BlkTyped, BlkTyped', setup' = setup, <2>2, <2>3, <1>1, <1>5, <1>8, HeldMoved
<1>10. AllBatchesOK'
  BY <1>1, <1>2, <1>6, BatchesSame
<1>11. Once' /\ ParkedStops'
  BY <1>1, <1>2, <1>4 DEF Once, ParkedStops
<1>12. SubmitOK'
  BY <1>2 DEF SubmitOK, Taken
<1>13. QED BY <1>9, <1>10, <1>11, <1>12, RequestsPartsNext

LEMMA NullNotStop ==
  ASSUME BlkTyped, Tolerated, Fails("null")
  PROVE  Policy # "stop" /\ BatchSize = 1 /\ MaxFails > 0 /\ OnePart
<1>1. MaxFails > 0 /\ "null" \in Failures
  BY FailsTyped
<1>2. QED BY <1>1 DEF Tolerated, OnePart

LEMMA ReadRefusedRequests ==
  ASSUME BlkTyped, BlkTyped', setup' = setup, RequestsOK, Tolerated, NEW r, ReadRefused(r)
  PROVE  RequestsOK'
<1>1. KeptNow /\ Once /\ AllBatchesOK /\ SubmitOK /\ ParkedStops
  BY RequestsParts
<1>2. Policy # "stop"
  BY NullNotStop DEF ReadRefused
<1>3. /\ at \in {"output", "restart"} /\ Source # <<>> /\ r = Head(Source)
      /\ virtio_blk_rw_complete(<<r>>, FALSE)
      /\ at = "output" => avail' = Tail(avail) /\ UNCHANGED walk
      /\ at = "restart" => UNCHANGED avail /\ walk' = Tail(walk)
      /\ UNCHANGED <<shape, before, at, mrb, sub, mcbs, flight, bh, disk>>
  BY <1>2 DEF ReadRefused
<1>4. PICK c \in {1, 2} : /\ r \in Held[c] /\ Held'[c] = Held[c] \ {r}
                          /\ c = 1 \/ Elements(avail') = Elements(avail)
                          /\ c = 2 \/ Elements(walk') = Elements(walk)
  BY <1>1, <1>3, SourcePlace DEF Once
<1>5. NoRepeat(walk')
  BY <1>1, <1>3, SourcePlace DEF Once
<1>6. /\ UNCHANGED <<rq, running>>
      /\ CompletedAs(<<r>>, "ok") \/ CompletedAs(<<r>>, "ioerr")
  BY <1>2, <1>3, SetupFacts DEF virtio_blk_rw_complete, BlkTyped, GuestTyped
<1>7. Counted(used, used', {r})
  <2>1. \A q : Contains(<<r>>, q) <=> q = r
    BY DEF Contains
  <2>2. used' = [q \in Req |-> used[q] + (IF Contains(<<r>>, q) THEN 1 ELSE 0)]
    BY <1>6 DEF CompletedAs
  <2>3. QED BY <2>1, <2>2 DEF Counted
<1>8. Elsewhere(Held, Held', c, c)
  BY <1>3, <1>4, <1>6, Lengths, HeldElsewhere
<1>9. KeptNow'
  <2>1. PICK S : S = {r}
    OBVIOUS
  <2>2. S \subseteq Held[c] /\ Held'[c] = Held[c] \ S /\ Counted(used, used', S)
    BY <2>1, <1>4, <1>7
  <2>3. Len(shape') = Len(shape) /\ c \in Nat
    BY <1>3, <1>4
  <2>4. QED BY ONLY BlkTyped, BlkTyped', setup' = setup, <2>2, <2>3, <1>1, <1>8, HeldFinished
<1>10. AllBatchesOK'
  BY <1>1, <1>3, BatchesSame
<1>11. Once' /\ ParkedStops'
  BY <1>1, <1>3, <1>5, <1>6 DEF Once, ParkedStops
<1>12. SubmitOK'
  BY <1>3 DEF SubmitOK
<1>13. QED BY <1>9, <1>10, <1>11, <1>12, RequestsPartsNext

LEMMA FlushRefusedRequests ==
  ASSUME BlkTyped, BlkTyped', setup' = setup, RequestsOK, NEW r, FlushRefused(r)
  PROVE  RequestsOK'
<1>1. KeptNow /\ Once /\ AllBatchesOK /\ SubmitOK /\ ParkedStops
  BY RequestsParts
<1>2. /\ Taken(r) /\ CompletedAs(<<r>>, "ioerr")
      /\ UNCHANGED <<shape, before, at, mrb, sub, mcbs, flight, rq, bh, running>>
  BY DEF FlushRefused, device
<1>3. PICK c \in {1, 2} : /\ r \in Held[c] /\ Held'[c] = Held[c] \ {r}
                          /\ c = 1 \/ Elements(avail') = Elements(avail)
                          /\ c = 2 \/ Elements(walk') = Elements(walk)
  BY <1>1, <1>2, SourcePlace DEF Taken, Once
<1>4. NoRepeat(walk')
  BY <1>1, <1>2, SourcePlace DEF Taken, Once
<1>5. Counted(used, used', {r})
  <2>1. \A q : Contains(<<r>>, q) <=> q = r
    BY DEF Contains
  <2>2. used' = [q \in Req |-> used[q] + (IF Contains(<<r>>, q) THEN 1 ELSE 0)]
    BY <1>2 DEF CompletedAs
  <2>3. QED BY <2>1, <2>2 DEF Counted
<1>6. Elsewhere(Held, Held', c, c)
  BY <1>2, <1>3, Lengths, HeldElsewhere
<1>7. KeptNow'
  <2>1. PICK S : S = {r}
    OBVIOUS
  <2>2. S \subseteq Held[c] /\ Held'[c] = Held[c] \ S /\ Counted(used, used', S)
    BY <2>1, <1>3, <1>5
  <2>3. Len(shape') = Len(shape) /\ c \in Nat
    BY <1>2, <1>3
  <2>4. QED BY ONLY BlkTyped, BlkTyped', setup' = setup, <2>2, <2>3, <1>1, <1>6, HeldFinished
<1>8. AllBatchesOK'
  BY <1>1, <1>2, BatchesSame
<1>9. Once' /\ ParkedStops'
  BY <1>1, <1>2, <1>4 DEF Once, ParkedStops
<1>10. SubmitOK'
  BY <1>2 DEF SubmitOK, Taken
<1>11. QED BY <1>7, <1>8, <1>9, <1>10, RequestsPartsNext

\* A read or a flush is answered.
LEMMA OtherRemoved ==
  ASSUME BlkTyped, NEW w \in flight, w.op # "write", flight' = flight \ {w}
  PROVE  /\ OthersOf(flight') = OthersOf(flight) \ {w.req} /\ w.req \in OthersOf(flight)
         /\ \A v : v.op = "write" => (v \in flight' <=> v \in flight)
<1>1. \A v \in flight : v.op # "write" /\ v.req = w.req => v = w
  <2> SUFFICES ASSUME NEW v \in flight, v.op # "write", v.req = w.req PROVE v = w
    OBVIOUS
  <2>1. v = [op |-> v.op, req |-> v.req] /\ v.op = Op(v.req)
    BY OtherFields
  <2>2. w = [op |-> w.op, req |-> w.req] /\ w.op = Op(w.req)
    BY OtherFields
  <2>3. QED BY <2>1, <2>2
<1>2. OthersOf(flight') = OthersOf(flight) \ {w.req}
  BY <1>1 DEF OthersOf
<1>3. w.req \in OthersOf(flight)
  BY DEF OthersOf
<1>4. QED BY <1>2, <1>3

LEMMA OtherAnswerRequests ==
  ASSUME BlkTyped, BlkTyped', setup' = setup, RequestsOK, NEW w \in flight,
         OtherSucceeds(w) \/ ReadFails(w) \/ FlushFails(w)
  PROVE  RequestsOK'
<1>1. KeptNow /\ Once /\ AllBatchesOK /\ SubmitOK /\ ParkedStops
  BY RequestsParts
<1>2. /\ at = "idle" /\ w.op # "write" /\ flight' = flight \ {w}
      /\ UNCHANGED <<shape, before, avail, at, walk, mrb, sub, bh, disk, mcbs>>
  BY DEF OtherSucceeds, ReadFails, FlushFails, guest, handler, device
<1>3. PICK r : r = w.req
  OBVIOUS
<1>4. r \in Gone /\ <<r>> \in Seq(Gone) /\ Elements(<<r>>) = {r} /\ NoRepeat(<<r>>)
  BY <1>2, <1>3, OtherFields, OneInList
<1>5. /\ OthersOf(flight') = OthersOf(flight) \ {r} /\ r \in OthersOf(flight)
      /\ \A v : v.op = "write" => (v \in flight' <=> v \in flight)
  BY <1>2, <1>3, OtherRemoved
<1>6. \E ok \in BOOLEAN : Finishes({r}, ok) \/ Parks(<<r>>)
  <2>1. CASE OtherSucceeds(w)
    <3>1. virtio_blk_rw_complete(<<r>>, TRUE)
      BY <2>1, <1>3 DEF OtherSucceeds
    <3>2. QED BY <3>1, <1>4, RwCases
  <2>2. CASE ReadFails(w)
    <3>1. virtio_blk_rw_complete(<<r>>, FALSE)
      BY <2>2, <1>3 DEF ReadFails
    <3>2. QED BY <3>1, <1>4, RwCases
  <2>3. CASE FlushFails(w)
    <3>1. CompletedAs(<<r>>, "ioerr") /\ UNCHANGED <<rq, running>>
      BY <2>3, <1>3 DEF FlushFails, device
    <3>2. QED BY <3>1, <1>4, CompletedTyped DEF Finishes
  <2>4. QED BY <2>1, <2>2, <2>3
<1>7. /\ Elsewhere(Held, Held', 5, 4)
      /\ {r} \subseteq Held[5] /\ Held'[5] = Held[5] \ {r}
  BY <1>2, <1>5, Lengths, HeldElsewhere, HeldNow, HeldNext
<1>8. KeptNow' /\ NoRepeat(rq') /\ ParkedStops'
  <2>1. PICK rs : rs = <<r>>
    OBVIOUS
  <2>2. PICK ok \in BOOLEAN : Finishes({r}, ok) \/ Parks(<<r>>)
    BY <1>6
  <2>3. /\ rs \in Seq(Gone) /\ NoRepeat(rs) /\ Elements(rs) \subseteq Held[5]
        /\ Held'[5] = Held[5] \ Elements(rs) /\ (Finishes(Elements(rs), ok) \/ Parks(rs))
    BY <2>1, <2>2, <1>4, <1>7
  <2>4. Len(shape') = Len(shape) /\ NoRepeat(rq) /\ bh' = bh /\ 5 \in Nat /\ 5 # 4
    BY <1>1, <1>2 DEF Once
  <2>5. QED BY ONLY BlkTyped, BlkTyped', setup' = setup, <2>2, <2>3, <2>4, <1>1, <1>7, CompletedKept
<1>9. AllBatchesOK'
  BY <1>1, <1>2, <1>5, BatchesSame
<1>10. Once'
  BY <1>1, <1>2, <1>8 DEF Once
<1>11. SubmitOK'
  BY <1>2 DEF SubmitOK
<1>12. QED BY <1>8, <1>9, <1>10, <1>11, RequestsPartsNext

\* The requests a MultiwriteCB still has to answer.
LEMMA PendingIs ==
  ASSUME NEW W, NEW mcb \in Mcbs(W)
  PROVE  /\ ~mcb.error /\ ~mcb.freed => Pending(mcb) = Elements(mcb.cbs)
         /\ mcb.error \/ mcb.freed => Pending(mcb) = {}
         /\ Pending(mcb) \subseteq Elements(mcb.cbs)
<1>1. ToSet(mcb.cbs) = Elements(mcb.cbs)
  BY DEF ToSet, Elements
<1>2. QED BY <1>1 DEF Pending

LEMMA BatchHeld ==
  ASSUME BlkTyped, BlkTyped', NEW m \in 1 .. Len(mcbs), UNCHANGED <<avail, walk, mrb>>,
         OthersOf(flight') = OthersOf(flight), McbsSame,
         \A k \in 1 .. Len(mcbs) : k # m => mcbs'[k] = mcbs[k]
  PROVE  /\ Elsewhere(Held, Held', 5 + m, 4) /\ 5 + m \in Nat /\ 5 + m # 4
         /\ Held[5 + m] = Pending(mcbs[m]) /\ Held'[5 + m] = Pending(mcbs'[m])
<1>1. Len(mcbs) \in Nat /\ Len(mcbs') = Len(mcbs)
  BY Lengths DEF McbsSame
<1>2. PICK c : c = 5 + m
  OBVIOUS
<1>3. c \in Nat /\ c # 4 /\ c > 5
  BY <1>2
<1>4. \A k \in 1 .. Len(mcbs) : 5 + k \in {c, 4} \/ Pending(mcbs'[k]) = Pending(mcbs[k])
  BY <1>2
<1>5. \A k \in 1 .. Len(mcbs') : k > Len(mcbs) => 5 + k \in {c, 4} \/ Pending(mcbs'[k]) = {}
  BY <1>1
<1>6. Elsewhere(Held, Held', c, 4)
  <2>1. /\ 1 \in {c, 4} \/ Elements(avail') = Elements(avail)
        /\ 2 \in {c, 4} \/ Elements(walk') = Elements(walk)
        /\ 3 \in {c, 4} \/ Elements(mrb') = Elements(mrb)
        /\ 4 \in {c, 4} \/ Elements(rq') = Elements(rq)
        /\ 5 \in {c, 4} \/ OthersOf(flight') = OthersOf(flight)
    OBVIOUS
  <2>2. Len(mcbs') \in Nat /\ Len(mcbs) <= Len(mcbs') /\ 4 \in Nat
    BY <1>1
  <2>3. QED BY ONLY <2>1, <2>2, <1>1, <1>3, <1>4, <1>5, HeldElsewhere
<1>7. QED BY <1>1, <1>2, <1>3, <1>6, HeldNow, HeldNext

\* All requests of batch m are completed, or parked.
LEMMA BatchCompleted ==
  ASSUME BlkTyped, BlkTyped', setup' = setup, RequestsOK, NEW m \in 1 .. Len(mcbs),
         UNCHANGED <<shape, avail, walk, mrb, bh>>,
         OthersOf(flight') = OthersOf(flight), McbsSame,
         \A k \in 1 .. Len(mcbs) : k # m => mcbs'[k] = mcbs[k],
         ~mcbs[m].error, ~mcbs[m].freed, mcbs'[m].error \/ mcbs'[m].freed,
         NEW ok \in BOOLEAN, virtio_blk_rw_complete(mcbs[m].cbs, ok)
  PROVE  KeptNow' /\ Once' /\ ParkedStops'
<1>1. KeptNow /\ Once /\ ParkedStops
  BY RequestsParts
<1>2. PICK rs, c : rs = mcbs[m].cbs /\ c = 5 + m
  OBVIOUS
<1>3. /\ Elsewhere(Held, Held', c, 4) /\ c \in Nat /\ c # 4
      /\ Held[c] = Pending(mcbs[m]) /\ Held'[c] = Pending(mcbs'[m])
  BY <1>2, BatchHeld
<1>4. rs \in Seq(Gone) /\ mcbs[m] \in Mcbs(Writes) /\ NoRepeat(rs)
  BY <1>1, <1>2, McbCbs DEF Once
<1>5. Held[c] = Elements(rs)
  BY <1>2, <1>3, <1>4, PendingIs
<1>6. Held'[c] = {}
  <2>1. m \in 1 .. Len(mcbs')
    BY DEF McbsSame
  <2>2. mcbs'[m] \in Mcbs(Writes')
    BY <2>1 DEF BlkTyped, DeviceTyped
  <2>3. PICK d, W : d = mcbs'[m] /\ W = Writes'
    OBVIOUS
  <2>4. Pending(d) = {}
    BY <2>2, <2>3, PendingIs
  <2>5. QED BY <2>3, <2>4, <1>3
<1>7. Finishes(Elements(rs), ok) \/ Parks(rs)
  BY <1>2, <1>4, RwCases
<1>8. Elements(rs) \subseteq Held[c] /\ Held'[c] = Held[c] \ Elements(rs)
  BY <1>5, <1>6
<1>9. Len(shape') = Len(shape) /\ NoRepeat(rq) /\ bh' = bh
  BY <1>1 DEF Once
<1>10. KeptNow' /\ NoRepeat(rq') /\ ParkedStops'
  BY ONLY BlkTyped, BlkTyped', setup' = setup, ok \in BOOLEAN, <1>1, <1>3, <1>4, <1>7, <1>8, <1>9, CompletedKept
<1>11. Once'
  BY <1>1, <1>10 DEF Once, McbsSame
<1>12. QED BY <1>10, <1>11

\* A batch that goes on answers for what it did; one that has failed for nothing.
LEMMA PendingSame ==
  ASSUME NEW c, NEW d, c.cbs = d.cbs,
         \/ c.error /\ d.error
         \/ ~c.error /\ ~c.freed /\ ~d.error /\ ~d.freed
  PROVE  Pending(c) = Pending(d)
BY DEF Pending

\* Nothing is completed, and batch m still answers for the same requests.
LEMMA BatchContinues ==
  ASSUME BlkTyped, BlkTyped', setup' = setup, RequestsOK, NEW m \in 1 .. Len(mcbs),
         UNCHANGED <<shape, avail, walk, mrb, bh, used, rq, running>>,
         OthersOf(flight') = OthersOf(flight), McbsSame,
         \A k \in 1 .. Len(mcbs) : k # m => mcbs'[k] = mcbs[k],
         Pending(mcbs'[m]) = Pending(mcbs[m])
  PROVE  KeptNow' /\ Once' /\ ParkedStops'
<1>1. KeptNow /\ Once /\ ParkedStops
  BY RequestsParts
<1>2. m \in 1 .. Len(mcbs') /\ Len(mcbs') = Len(mcbs) /\ mcbs'[m].cbs = mcbs[m].cbs
  BY DEF McbsSame
<1>4. \A k \in 1 .. Len(mcbs) : Pending(mcbs'[k]) = Pending(mcbs[k])
  OBVIOUS
<1>5. Elsewhere(Held, Held', 0, 0)
  BY <1>2, <1>4, Lengths, HeldElsewhere
<1>6. KeptNow'
  BY <1>1, <1>5, HeldSame
<1>7. Once' /\ ParkedStops'
  BY <1>1 DEF Once, McbsSame, ParkedStops
<1>8. QED BY <1>6, <1>7

LEMMA WriteRemoved ==
  ASSUME BlkTyped, NEW w \in flight, w.op = "write", flight' = flight \ {w}
  PROVE  /\ OthersOf(flight') = OthersOf(flight)
         /\ \A v : v.op = "write" /\ v.mcb # w.mcb => (v \in flight' <=> v \in flight)
         /\ PartsOf(w.mcb)' = PartsOf(w.mcb) \ {w} /\ w \in PartsOf(w.mcb)
BY DEF OthersOf, PartsOf

LEMMA PartsNumber ==
  ASSUME BlkTyped, AllBatchesOK, NEW m \in 1 .. Len(mcbs), NEW w \in PartsOf(m)
  PROVE  /\ IsFiniteSet(PartsOf(m) \ {w}) /\ Cardinality(PartsOf(m) \ {w}) \in Nat
         /\ Cardinality(PartsOf(m) \ {w}) <= mcbs[m].num - 1
         /\ mcbs[m].num \in Nat /\ mcbs[m].num >= 1 /\ ~mcbs[m].freed
<1>1. BatchOK(m)
  BY DEF AllBatchesOK
<1>2. PICK P, x : P = PartsOf(m) /\ x = mcbs[m].num
  OBVIOUS
<1>3. IsFiniteSet(P) /\ Cardinality(P) <= x /\ x \in Nat /\ w \in P /\ ~mcbs[m].freed
  BY <1>1, <1>2 DEF BatchOK
<1>4. Cardinality(P) \in Nat /\ Cardinality(P \ {w}) \in Nat /\ IsFiniteSet(P \ {w})
      /\ Cardinality(P \ {w}) = Cardinality(P) - 1
  BY <1>3, FS_RemoveElement, FS_CardinalityType
<1>5. Cardinality(P \ {w}) <= x - 1 /\ x >= 1
  BY <1>3, <1>4
<1>6. QED BY <1>2, <1>3, <1>4, <1>5

LEMMA WriteSucceedsRequests ==
  ASSUME BlkTyped, BlkTyped', setup' = setup, RequestsOK, NEW w \in flight, WriteSucceeds(w)
  PROVE  RequestsOK'
<1>1. AllBatchesOK
  BY RequestsParts
<1>2. /\ at = "idle" /\ w.op = "write" /\ flight' = flight \ {w} /\ multiwrite_cb(w.mcb, TRUE)
      /\ UNCHANGED <<shape, avail, at, walk, mrb, sub, bh>>
  BY DEF WriteSucceeds, guest, handler
<1>3. PICK m : m = w.mcb
  OBVIOUS
<1>4. m \in 1 .. Len(mcbs)
  BY <1>2, <1>3, PartFields
<1>5. /\ OthersOf(flight') = OthersOf(flight) /\ w \in PartsOf(m) /\ PartsOf(m)' = PartsOf(m) \ {w}
      /\ \A v : v.op = "write" /\ v.mcb # m => (v \in flight' <=> v \in flight)
  BY <1>2, <1>3, WriteRemoved
<1>6. /\ McbsSame /\ \A k \in 1 .. Len(mcbs) : k # m => mcbs'[k] = mcbs[k]
  BY <1>2, <1>3, <1>4, McbCounts
<1>7. mcbs'[m].num = mcbs[m].num - 1 /\ (mcbs'[m].error <=> mcbs[m].error)
      /\ (mcbs'[m].freed <=> (mcbs[m].num - 1 = 0))
  BY <1>2, <1>3, <1>4, McbCounts
<1>8. /\ IsFiniteSet(PartsOf(m) \ {w}) /\ Cardinality(PartsOf(m) \ {w}) \in Nat
      /\ Cardinality(PartsOf(m) \ {w}) <= mcbs[m].num - 1
      /\ mcbs[m].num \in Nat /\ mcbs[m].num >= 1 /\ ~mcbs[m].freed
  BY <1>1, <1>4, <1>5, PartsNumber
<1>9. BatchOK(m)'
  <2>1. mcbs'[m].num \in Nat
    BY <1>7, <1>8
  <2>2. IsFiniteSet(PartsOf(m)') /\ Cardinality(PartsOf(m)') <= mcbs'[m].num
    BY <1>5, <1>7, <1>8
  <2>3. mcbs'[m].freed => PartsOf(m)' = {}
    <3> SUFFICES ASSUME mcbs[m].num - 1 = 0 PROVE PartsOf(m) \ {w} = {}
      BY <1>5, <1>7, <1>8
    <3>1. Cardinality(PartsOf(m) \ {w}) = 0
      BY <1>8
    <3>2. QED BY <3>1, <1>8, FS_EmptySet
  <2>4. QED BY <2>1, <2>2, <2>3 DEF BatchOK
<1>10. AllBatchesOK'
  <2>1. Len(mcbs) \in Nat /\ Len(mcbs') = Len(mcbs)
    BY <1>6, Lengths DEF McbsSame
  <2>2. QED BY <2>1, <1>1, <1>4, <1>5, <1>6, <1>9, OtherBatches
<1>11. KeptNow' /\ Once' /\ ParkedStops'
  <2>1. CASE ~mcbs[m].error /\ mcbs[m].num - 1 = 0
    <3>1. virtio_blk_rw_complete(mcbs[m].cbs, TRUE)
      BY <2>1, <1>2, <1>3 DEF multiwrite_cb
    <3>2. mcbs'[m].error \/ mcbs'[m].freed
      BY <2>1, <1>7
    <3>3. QED BY <3>1, <3>2, <2>1, <1>2, <1>4, <1>5, <1>6, <1>8, BatchCompleted
  <2>2. CASE mcbs[m].error \/ mcbs[m].num - 1 # 0
    <3>1. NothingCompleted
      BY <2>2, <1>2, <1>3 DEF multiwrite_cb
    <3>2. UNCHANGED <<used, rq, running>>
      BY <3>1 DEF NothingCompleted, done
    <3>3. Pending(mcbs'[m]) = Pending(mcbs[m])
      <4>1. mcbs'[m].cbs = mcbs[m].cbs
        BY <1>4, <1>6 DEF McbsSame
      <4>2. \/ mcbs'[m].error /\ mcbs[m].error
            \/ ~mcbs'[m].error /\ ~mcbs'[m].freed /\ ~mcbs[m].error /\ ~mcbs[m].freed
        BY <2>2, <1>7, <1>8
      <4>3. QED BY <4>1, <4>2, PendingSame
    <3>4. QED BY <3>2, <3>3, <1>2, <1>4, <1>5, <1>6, BatchContinues
  <2>3. QED BY <2>1, <2>2
<1>12. SubmitOK'
  BY <1>2 DEF SubmitOK
<1>13. QED BY <1>10, <1>11, <1>12, RequestsPartsNext

LEMMA WriteFailsRequests ==
  ASSUME BlkTyped, BlkTyped', setup' = setup, RequestsOK, NEW w \in flight, WriteFails(w)
  PROVE  RequestsOK'
<1>1. AllBatchesOK
  BY RequestsParts
<1>2. /\ at = "idle" /\ w.op = "write" /\ flight' = flight \ {w} /\ multiwrite_cb(w.mcb, FALSE)
      /\ UNCHANGED <<shape, avail, at, walk, mrb, sub, bh>>
  BY DEF WriteFails, guest, handler
<1>3. PICK m : m = w.mcb
  OBVIOUS
<1>4. m \in 1 .. Len(mcbs)
  BY <1>2, <1>3, PartFields
<1>5. /\ OthersOf(flight') = OthersOf(flight) /\ w \in PartsOf(m) /\ PartsOf(m)' = PartsOf(m) \ {w}
      /\ \A v : v.op = "write" /\ v.mcb # m => (v \in flight' <=> v \in flight)
  BY <1>2, <1>3, WriteRemoved
<1>6. /\ McbsSame /\ \A k \in 1 .. Len(mcbs) : k # m => mcbs'[k] = mcbs[k]
  BY <1>2, <1>3, <1>4, McbCounts
<1>7. mcbs'[m].num = mcbs[m].num - 1 /\ mcbs'[m].error
      /\ (mcbs'[m].freed <=> (mcbs[m].num - 1 = 0))
  BY <1>2, <1>3, <1>4, McbCounts
<1>8. /\ IsFiniteSet(PartsOf(m) \ {w}) /\ Cardinality(PartsOf(m) \ {w}) \in Nat
      /\ Cardinality(PartsOf(m) \ {w}) <= mcbs[m].num - 1
      /\ mcbs[m].num \in Nat /\ mcbs[m].num >= 1 /\ ~mcbs[m].freed
  BY <1>1, <1>4, <1>5, PartsNumber
<1>9. BatchOK(m)'
  <2>1. mcbs'[m].num \in Nat
    BY <1>7, <1>8
  <2>2. IsFiniteSet(PartsOf(m)') /\ Cardinality(PartsOf(m)') <= mcbs'[m].num
    BY <1>5, <1>7, <1>8
  <2>3. mcbs'[m].freed => PartsOf(m)' = {}
    <3> SUFFICES ASSUME mcbs[m].num - 1 = 0 PROVE PartsOf(m) \ {w} = {}
      BY <1>5, <1>7, <1>8
    <3>1. Cardinality(PartsOf(m) \ {w}) = 0
      BY <1>8
    <3>2. QED BY <3>1, <1>8, FS_EmptySet
  <2>4. QED BY <2>1, <2>2, <2>3 DEF BatchOK
<1>10. AllBatchesOK'
  <2>1. Len(mcbs) \in Nat /\ Len(mcbs') = Len(mcbs)
    BY <1>6, Lengths DEF McbsSame
  <2>2. QED BY <2>1, <1>1, <1>4, <1>5, <1>6, <1>9, OtherBatches
<1>11. KeptNow' /\ Once' /\ ParkedStops'
  <2>1. CASE ~mcbs[m].error
    <3>1. virtio_blk_rw_complete(mcbs[m].cbs, FALSE)
      BY <2>1, <1>2, <1>3 DEF multiwrite_cb
    <3>2. QED BY <3>1, <2>1, <1>2, <1>4, <1>5, <1>6, <1>7, <1>8, BatchCompleted
  \* Another part has failed before.
  <2>2. CASE mcbs[m].error
    <3>1. NothingCompleted
      BY <2>2, <1>2, <1>3 DEF multiwrite_cb
    <3>2. UNCHANGED <<used, rq, running>>
      BY <3>1 DEF NothingCompleted, done
    <3>3. Pending(mcbs'[m]) = Pending(mcbs[m])
      <4>1. mcbs'[m].cbs = mcbs[m].cbs
        BY <1>4, <1>6 DEF McbsSame
      <4>2. QED BY <4>1, <2>2, <1>7, PendingSame
    <3>4. QED BY <3>2, <3>3, <1>2, <1>4, <1>5, <1>6, BatchContinues
  <2>3. QED BY <2>1, <2>2
<1>12. SubmitOK'
  BY <1>2 DEF SubmitOK
<1>13. QED BY <1>10, <1>11, <1>12, RequestsPartsNext

\* StartMultiwrite.
LEMMA StartRequests ==
  ASSUME BlkTyped, BlkTyped', setup' = setup, RequestsOK, StartMultiwrite
  PROVE  RequestsOK'
<1>1. KeptNow /\ Once /\ AllBatchesOK /\ SubmitOK /\ ParkedStops
  BY RequestsParts
<1>2. /\ at \in {"output", "restart"} /\ mrb # <<>> /\ mrb' = <<>> /\ at' = "submit"
      /\ UNCHANGED <<shape, before, avail, used, status, walk, flight, rq, bh, running, disk, fails>>
      /\ Len(mcbs) \in Nat /\ Len(mcbs') = Len(mcbs) + 1
      /\ mcbs'[Len(mcbs) + 1] = NewMcb(mrb)
      /\ \A m \in 1 .. Len(mcbs) : mcbs'[m] = mcbs[m]
  BY StartMade
<1>3. PICK rs \in Sorted(mrb) :
        sub' = [reqs |-> multiwrite_merge(rs), sorted |-> rs, i |-> 1,
                mcb |-> Len(mcbs) + 1, from |-> at]
  BY StartMade
<1>4. PICK ws, m : ws = multiwrite_merge(rs) /\ m = Len(mcbs) + 1
  OBVIOUS
<1>5. sub'.reqs = ws /\ sub'.i = 1 /\ sub'.mcb = m
  BY <1>3, <1>4
<1>6. GuestTyped /\ mrb \in Seq(Writes) /\ Len(mrb) <= BatchSize /\ BatchSize \in Nat /\ Len(mrb) \in Nat
      /\ IovMax \in Nat
  <2>1. GuestTyped /\ setup \in Setups
    BY DEF BlkTyped, GuestTyped
  <2>2. mrb \in Seq(Writes) /\ Len(mrb) <= BatchSize
    BY DEF BlkTyped, DeviceTyped, HandlerOK
  <2>3. QED BY <2>1, <2>2, SetupFacts
<1>7. Len(ws) \in 1 .. Len(mrb) /\ (~Apart /\ Len(mrb) < IovMax => Len(ws) = 1)
  BY <1>2, <1>4, <1>6, MergeTyped
<1>8. OnePart => Len(ws) = 1
  <2>1. OnePart /\ BatchSize > 1 => ~Apart /\ BatchSize < IovMax
    BY DEF OnePart
  <2>2. CASE BatchSize > 1
    <3>1. Len(mrb) < IovMax \/ ~(BatchSize < IovMax)
      BY <1>6
    <3>2. QED BY <2>1, <2>2, <3>1, <1>7
  <2>3. CASE ~(BatchSize > 1)
    <3>1. \A a, b, z \in Nat : ~(a > 1) /\ b <= a /\ z \in 1 .. b => z = 1
      OBVIOUS
    <3>2. Len(ws) \in Nat
      BY <1>6, <1>7
    <3>3. Len(ws) = 1
      BY <2>3, <3>1, <3>2, <1>6, <1>7
    <3>4. QED BY <3>3
  <2>4. QED BY <2>2, <2>3
<1>9. /\ mcbs'[m].error = FALSE /\ mcbs'[m].freed = FALSE /\ mcbs'[m].num = 0 /\ mcbs'[m].cbs = mrb
  BY <1>2, <1>4 DEF NewMcb
<1>10. m \in 1 .. Len(mcbs') /\ m \notin 1 .. Len(mcbs) /\ 5 + m \in Nat /\ 5 + m # 3
  BY <1>2, <1>4
<1>11. Pending(mcbs'[m]) = Elements(mrb)
  BY <1>9 DEF Pending, ToSet, Elements
<1>12. /\ Held[3] = Elements(mrb) /\ Held'[3] = {} /\ Held[5 + m] = {} /\ Held'[5 + m] = Elements(mrb)
  <2>1. 5 + m > 5 + Len(mcbs)
    BY <1>2, <1>4
  <2>2. QED BY <2>1, <1>2, <1>10, <1>11, HeldNow, HeldNext, NoneInList
<1>13. KeptNow'
  <2>1. PICK S, d : S = Elements(mrb) /\ d = 5 + m
    OBVIOUS
  <2>2. /\ S \subseteq Held[3] /\ Held'[3] = Held[3] \ S /\ Held'[d] = Held[d] \cup S
        /\ 3 \in Nat /\ d \in Nat /\ 3 # d
    BY <2>1, <1>10, <1>12
  <2>3. Elsewhere(Held, Held', 3, d)
    <3>1. /\ 1 \in {3, d} \/ Elements(avail') = Elements(avail)
          /\ 2 \in {3, d} \/ Elements(walk') = Elements(walk)
          /\ 3 \in {3, d} \/ Elements(mrb') = Elements(mrb)
          /\ 4 \in {3, d} \/ Elements(rq') = Elements(rq)
          /\ 5 \in {3, d} \/ OthersOf(flight') = OthersOf(flight)
      BY <1>2
    <3>2. \A k \in 1 .. Len(mcbs) : 5 + k \in {3, d} \/ Pending(mcbs'[k]) = Pending(mcbs[k])
      BY <1>2
    <3>3. \A k \in 1 .. Len(mcbs') : k > Len(mcbs) => 5 + k \in {3, d} \/ Pending(mcbs'[k]) = {}
      BY <2>1, <1>2, <1>4
    <3>4. Len(mcbs) \in Nat /\ Len(mcbs') \in Nat /\ Len(mcbs) <= Len(mcbs')
      BY <1>2
    <3>5. QED BY ONLY <3>1, <3>2, <3>3, <3>4, <2>2, HeldElsewhere
  <2>4. used' = used /\ Len(shape') = Len(shape)
    BY <1>2
  <2>5. QED BY ONLY BlkTyped, BlkTyped', setup' = setup, <2>2, <2>3, <2>4, <1>1, HeldMoved
<1>14. Once'
  <2>1. NoRepeat(mrb') /\ NoRepeat(walk') /\ NoRepeat(rq')
    BY <1>1, <1>2, NoneInList DEF Once
  <2>2. \A k \in 1 .. Len(mcbs') : NoRepeat(mcbs'[k].cbs)
    <3> SUFFICES ASSUME NEW k \in 1 .. Len(mcbs') PROVE NoRepeat(mcbs'[k].cbs)
      OBVIOUS
    <3>1. CASE k = m
      BY <3>1, <1>1, <1>9 DEF Once
    <3>2. CASE k # m
      BY <3>2, <1>1, <1>2, <1>4 DEF Once
    <3>3. QED BY <3>1, <3>2
  <2>3. QED BY <2>1, <2>2 DEF Once
<1>15. BatchOK(m)'
  <2>1. PartsOf(m)' = {}
    <3>1. \A w \in flight : w.op = "write" => w.mcb \in 1 .. Len(mcbs)
      BY PartFields
    <3>2. QED BY <3>1, <1>2, <1>10 DEF PartsOf
  <2>2. IsFiniteSet(PartsOf(m)') /\ Cardinality(PartsOf(m)') = 0
    BY <2>1, FS_EmptySet
  <2>3. QED BY <2>1, <2>2, <1>9 DEF BatchOK
<1>16. AllBatchesOK'
  <2>1. \A k \in 1 .. Len(mcbs') : k # m => k \in 1 .. Len(mcbs) /\ mcbs'[k] = mcbs[k]
    BY <1>2, <1>4
  <2>2. QED BY <2>1, <1>1, <1>2, <1>10, <1>15, OtherBatches
<1>17. SubmitOK'
  <2>1. OnePart' => Len(sub'.reqs) = 1
    BY <1>5, <1>8, SetupSame
  <2>2. ~mcbs'[sub'.mcb].error /\ ~mcbs'[sub'.mcb].freed /\ mcbs'[sub'.mcb].num = 0
    BY <1>5, <1>9
  <2>3. QED BY <2>1, <2>2 DEF SubmitOK
<1>18. ParkedStops'
  BY <1>1, <1>2 DEF ParkedStops
<1>19. QED BY <1>13, <1>14, <1>16, <1>17, <1>18, RequestsPartsNext

\* At a part of the batch.
LEMMA AtPartFacts ==
  ASSUME BlkTyped, RequestsOK, AtPart, NEW m, m = sub.mcb
  PROVE  /\ m \in 1 .. Len(mcbs) /\ ~mcbs[m].error /\ ~mcbs[m].freed /\ at = "submit"
         /\ sub.i \in 1 .. Len(sub.reqs)
         /\ OnePart => sub.i = 1 /\ Len(sub.reqs) = 1 /\ mcbs[m].num = 0 /\ PartsOf(m) = {}
         /\ mcbs[m].num \in Nat /\ IsFiniteSet(PartsOf(m)) /\ Cardinality(PartsOf(m)) \in Nat
         /\ Cardinality(PartsOf(m)) <= mcbs[m].num
<1>1. at = "submit" /\ m \in 1 .. Len(mcbs) /\ sub.i \in 1 .. Len(sub.reqs)
  BY SubFields DEF AtPart, BlkTyped, HandlerOK
<1>2. SubmitOK /\ BatchOK(m)
  BY <1>1, RequestsParts DEF AllBatchesOK
<1>3. ~mcbs[m].error /\ ~mcbs[m].freed
  BY <1>1, <1>2 DEF SubmitOK
<1>4. OnePart => sub.i = 1 /\ Len(sub.reqs) = 1 /\ mcbs[m].num = 0
  <2>1. OnePart => Len(sub.reqs) = 1
    BY <1>1, <1>2 DEF SubmitOK
  <2>2. OnePart => sub.i = 1
    <3>1. \A i, n : i \in 1 .. n /\ n = 1 => i = 1
      OBVIOUS
    <3>2. QED BY <3>1, <2>1, <1>1
  <2>3. QED BY <2>1, <2>2, <1>1, <1>2 DEF SubmitOK
<1>5. /\ mcbs[m].num \in Nat /\ IsFiniteSet(PartsOf(m)) /\ Cardinality(PartsOf(m)) <= mcbs[m].num
      /\ Cardinality(PartsOf(m)) \in Nat
  BY <1>2, FS_CardinalityType DEF BatchOK
<1>6. mcbs[m].num = 0 => PartsOf(m) = {}
  <2> SUFFICES ASSUME mcbs[m].num = 0 PROVE PartsOf(m) = {}
    OBVIOUS
  <2>1. Cardinality(PartsOf(m)) = 0
    BY <1>5
  <2>2. QED BY <2>1, <1>5, FS_EmptySet
<1>7. QED BY <1>1, <1>3, <1>4, <1>5, <1>6

LEMMA PartTakenRequests ==
  ASSUME BlkTyped, BlkTyped', setup' = setup, RequestsOK, PartTaken
  PROVE  RequestsOK'
<1>1. AllBatchesOK /\ SubmitOK
  BY RequestsParts
<1>2. /\ AtPart /\ UNCHANGED <<shape, avail, used, at, walk, mrb, rq, bh, running>>
      /\ flight' = flight \cup {ThisPart} /\ SubNext
  BY DEF PartTaken, guest, done, device, ThisPart, SubNext
<1>3. PICK m : m = sub.mcb
  OBVIOUS
<1>4. /\ m \in 1 .. Len(mcbs) /\ ~mcbs[m].error /\ ~mcbs[m].freed /\ at = "submit"
      /\ sub.i \in 1 .. Len(sub.reqs)
      /\ OnePart => sub.i = 1 /\ Len(sub.reqs) = 1 /\ mcbs[m].num = 0 /\ PartsOf(m) = {}
      /\ mcbs[m].num \in Nat /\ IsFiniteSet(PartsOf(m)) /\ Cardinality(PartsOf(m)) \in Nat
      /\ Cardinality(PartsOf(m)) <= mcbs[m].num
  BY <1>2, <1>3, AtPartFacts
<1>5. /\ McbsSame /\ mcbs'[m].num = mcbs[m].num + 1
      /\ \A k \in 1 .. Len(mcbs) : k # m => mcbs'[k] = mcbs[k]
  BY <1>3, PartTakenMcb
<1>6. mcbs'[m].error = mcbs[m].error /\ mcbs'[m].freed = mcbs[m].freed
  BY <1>3, PartTakenMcb
<1>7. ~mcbs'[m].error /\ ~mcbs'[m].freed
  BY <1>4, <1>6
<1>8. PICK v : v = ThisPart
  OBVIOUS
<1>9. v.op = "write" /\ v.mcb = m /\ flight' = flight \cup {v}
  BY <1>2, <1>3, <1>8, ThisPartRight
<1>10. /\ OthersOf(flight') = OthersOf(flight) /\ PartsOf(m)' = PartsOf(m) \cup {v}
       /\ \A w : w.op = "write" /\ w.mcb # m => (w \in flight' <=> w \in flight)
  BY <1>9 DEF OthersOf, PartsOf
<1>11. IsFiniteSet(PartsOf(m) \cup {v}) /\ Cardinality(PartsOf(m) \cup {v}) <= mcbs[m].num + 1
  <2>1. PICK P : P = PartsOf(m)
    OBVIOUS
  <2>2. IsFiniteSet(P) /\ Cardinality(P) \in Nat /\ Cardinality(P) <= mcbs[m].num
    BY <2>1, <1>4
  <2>3. IsFiniteSet(P \cup {v}) /\ (Cardinality(P \cup {v}) = Cardinality(P) \/ Cardinality(P \cup {v}) = Cardinality(P) + 1)
    BY <2>2, FS_AddElement
  <2>4. QED BY <2>1, <2>2, <2>3, <1>4
<1>12. BatchOK(m)'
  <2>1. mcbs'[m].num \in Nat
    BY <1>4, <1>5
  <2>2. IsFiniteSet(PartsOf(m)') /\ Cardinality(PartsOf(m)') <= mcbs'[m].num
    BY <1>5, <1>10, <1>11
  <2>3. QED BY <2>1, <2>2, <1>7 DEF BatchOK
<1>13. Len(mcbs) \in Nat /\ Len(mcbs') = Len(mcbs)
  BY <1>5, Lengths DEF McbsSame
<1>14. AllBatchesOK'
  BY <1>1, <1>4, <1>5, <1>10, <1>12, <1>13, OtherBatches
<1>15. KeptNow' /\ Once' /\ ParkedStops'
  <2>1. mcbs'[m].cbs = mcbs[m].cbs
    BY <1>4, <1>5 DEF McbsSame
  <2>2. Pending(mcbs'[m]) = Pending(mcbs[m])
    BY <2>1, <1>4, <1>7, PendingSame
  <2>3. QED BY <2>2, <1>2, <1>4, <1>5, <1>10, BatchContinues
<1>16. SubmitOK'
  <2>1. sub'.reqs = sub.reqs /\ sub'.i = sub.i + 1 /\ sub'.mcb = m
    BY <1>2, <1>3, SubNextFields
  <2>2. OnePart' => Len(sub'.reqs) = 1
    BY <2>1, <1>4, SetupSame
  <2>3. sub'.i # 1
    BY <2>1, <1>4
  <2>4. QED BY <2>1, <2>2, <2>3, <1>7 DEF SubmitOK
<1>17. QED BY <1>14, <1>15, <1>16, RequestsPartsNext

LEMMA PartFailsAtOnceRequests ==
  ASSUME BlkTyped, BlkTyped', setup' = setup, RequestsOK, Tolerated, PartFailsAtOnce
  PROVE  RequestsOK'
<1>1. AllBatchesOK
  BY RequestsParts
<1>2. /\ AtPart /\ UNCHANGED <<shape, avail, at, walk, mrb, bh, flight>> /\ SubNext
      /\ BatchFails(sub.mcb) /\ Fails("sync")
  BY DEF PartFailsAtOnce, guest, BatchFails, SubNext
<1>3. PICK m : m = sub.mcb
  OBVIOUS
<1>0. OnePart
  BY <1>2, FailsTyped DEF Tolerated
<1>4. /\ m \in 1 .. Len(mcbs) /\ ~mcbs[m].error /\ ~mcbs[m].freed /\ at = "submit"
      /\ sub.i = 1 /\ Len(sub.reqs) = 1 /\ mcbs[m].num = 0 /\ PartsOf(m) = {}
  BY <1>0, <1>2, <1>3, AtPartFacts
<1>5. /\ McbsSame /\ mcbs'[m].num = mcbs[m].num
      /\ \A k \in 1 .. Len(mcbs) : k # m => mcbs'[k] = mcbs[k]
  BY <1>3, PartFailsAtOnceMcb
<1>6. mcbs'[m].error
  BY <1>3, PartFailsAtOnceMcb
<1>7. virtio_blk_rw_complete(mcbs[m].cbs, FALSE)
  BY <1>2, <1>3, <1>4 DEF BatchFails
<1>8. KeptNow' /\ Once' /\ ParkedStops'
  BY <1>2, <1>4, <1>5, <1>6, <1>7, BatchCompleted
<1>9. BatchOK(m)'
  <2>1. PartsOf(m)' = {} /\ IsFiniteSet(PartsOf(m)') /\ Cardinality(PartsOf(m)') = 0
    BY <1>2, <1>4, FS_EmptySet DEF PartsOf
  <2>2. QED BY <2>1, <1>4, <1>5 DEF BatchOK
<1>10. Len(mcbs) \in Nat /\ Len(mcbs') = Len(mcbs)
  BY <1>5, Lengths DEF McbsSame
<1>11. AllBatchesOK'
  BY <1>1, <1>2, <1>4, <1>5, <1>9, <1>10, OtherBatches
<1>12. SubmitOK'
  <2>1. sub'.reqs = sub.reqs /\ sub'.i = sub.i + 1
    BY <1>2, SubNextFields
  <2>2. sub'.i = 2 /\ Len(sub'.reqs) = 1
    BY <2>1, <1>4
  <2>3. QED BY <2>2 DEF SubmitOK, AtPart
<1>13. QED BY <1>8, <1>11, <1>12, RequestsPartsNext

LEMMA BatchRefusedRequests ==
  ASSUME BlkTyped, BlkTyped', setup' = setup, RequestsOK, Tolerated, BatchRefused
  PROVE  RequestsOK'
<1>1. AllBatchesOK /\ KeptNow /\ Once /\ ParkedStops
  BY RequestsParts
<1>2. /\ AtPart /\ UNCHANGED <<shape, avail, walk, mrb, bh, flight, sub>> /\ at' = sub.from
      /\ Fails("null")
  BY BatchRefusedFields
<1>3. Policy # "stop" /\ BatchSize = 1 /\ OnePart
  BY <1>2, NullNotStop
<1>4. PICK m, r : m = sub.mcb /\ r = sub.sorted[sub.i]
  OBVIOUS
<1>5. /\ m \in 1 .. Len(mcbs) /\ ~mcbs[m].error /\ ~mcbs[m].freed /\ at = "submit"
      /\ sub.i = 1 /\ mcbs[m].num = 0 /\ PartsOf(m) = {}
  BY <1>2, <1>3, <1>4, AtPartFacts
<1>6. r \in Gone /\ virtio_blk_rw_complete(<<r>>, FALSE)
  BY <1>4, BatchRefusedFields
<1>7. Elements(mcbs[m].cbs) = {r}
  <2>1. /\ Len(sub.sorted) <= 1 /\ Elements(sub.sorted) = Elements(mcbs[m].cbs)
        /\ Len(sub.reqs) <= Len(sub.sorted) /\ sub.i <= Len(sub.reqs)
    BY <1>2, <1>3, <1>4, <1>5 DEF BlkTyped, HandlerOK, AtPart
  <2>2. sub.sorted \in Seq(Writes) /\ Len(sub.reqs) \in Nat
    BY SubFields
  <2>3. DOMAIN sub.sorted = 1 .. 1
    BY <2>1, <2>2, <1>5
  <2>4. Elements(sub.sorted) = {sub.sorted[1]}
    BY <2>3 DEF Elements
  <2>5. r = sub.sorted[1]
    BY <1>4, <1>5
  <2>6. QED BY <2>1, <2>4, <2>5
<1>8. /\ McbsSame /\ mcbs'[m].num = mcbs[m].num
      /\ \A k \in 1 .. Len(mcbs) : k # m => mcbs'[k] = mcbs[k]
  BY <1>4, BatchRefusedMcb
<1>9. mcbs'[m].freed
  BY <1>4, BatchRefusedMcb
<1>10. Len(mcbs) \in Nat /\ Len(mcbs') = Len(mcbs)
  BY <1>8, Lengths DEF McbsSame
<1>11. OthersOf(flight') = OthersOf(flight)
  BY <1>2
<1>12. /\ Elsewhere(Held, Held', 5 + m, 4) /\ 5 + m \in Nat /\ 5 + m # 4
       /\ Held[5 + m] = Pending(mcbs[m]) /\ Held'[5 + m] = Pending(mcbs'[m])
  BY <1>2, <1>5, <1>8, <1>11, BatchHeld
<1>13. Pending(mcbs[m]) = {r}
  BY <1>5, <1>7, McbCbs, PendingIs
<1>14. Pending(mcbs'[m]) = {}
  BY <1>9 DEF Pending
<1>15. KeptNow' /\ NoRepeat(rq') /\ ParkedStops'
  <2>1. PICK c, rs : c = 5 + m /\ rs = <<r>>
    OBVIOUS
  <2>2. rs \in Seq(Gone) /\ Elements(rs) = {r} /\ NoRepeat(rs)
    BY <2>1, <1>6, OneInList
  <2>3. /\ Elsewhere(Held, Held', c, 4) /\ c \in Nat /\ c # 4
        /\ Elements(rs) \subseteq Held[c] /\ Held'[c] = Held[c] \ Elements(rs)
    BY <2>1, <2>2, <1>12, <1>13, <1>14
  <2>4. FALSE \in BOOLEAN /\ virtio_blk_rw_complete(rs, FALSE)
    BY <2>1, <1>6
  <2>5. Finishes(Elements(rs), FALSE) \/ Parks(rs)
    BY <2>2, <2>4, RwCases
  <2>6. Len(shape') = Len(shape) /\ NoRepeat(rq) /\ bh' = bh
    BY <1>1, <1>2 DEF Once
  <2>7. QED BY ONLY BlkTyped, BlkTyped', setup' = setup, <2>2, <2>3, <2>4, <2>5, <2>6, <1>1, CompletedKept
<1>16. Once'
  BY <1>1, <1>2, <1>8, <1>15 DEF Once, McbsSame
<1>17. BatchOK(m)'
  <2>1. PartsOf(m)' = {} /\ IsFiniteSet(PartsOf(m)') /\ Cardinality(PartsOf(m)') = 0
    BY <1>2, <1>5, FS_EmptySet DEF PartsOf
  <2>2. QED BY <2>1, <1>5, <1>8 DEF BatchOK
<1>18. AllBatchesOK'
  BY <1>1, <1>2, <1>5, <1>8, <1>10, <1>17, OtherBatches
<1>19. SubmitOK'
  BY <1>2, SubFields DEF SubmitOK
<1>20. QED BY <1>15, <1>16, <1>18, <1>19, RequestsPartsNext

\* Where parts may be refused, none is while another is in flight.
LEMMA PartRefusedNever ==
  ASSUME BlkTyped, RequestsOK, Tolerated, PartRefused
  PROVE  FALSE
<1>1. AtPart /\ OnePart /\ mcbs[sub.mcb].num > 0
  BY NullNotStop DEF PartRefused
<1>2. PICK m : m = sub.mcb
  OBVIOUS
<1>3. mcbs[m].num = 0
  BY <1>1, <1>2, AtPartFacts
<1>4. QED BY <1>1, <1>2, <1>3

LEMMA InitRequests ==
  ASSUME Init, BlkTyped
  PROVE  RequestsOK
<1>1. /\ avail = <<>> /\ walk = <<>> /\ mrb = <<>> /\ rq = <<>> /\ mcbs = <<>> /\ flight = {}
      /\ Len(mcbs) = 0 /\ Len(shape) = 0 /\ used = [r \in Req |-> 0] /\ at = "idle"
  BY DEF Init
<1>2. OthersOf(flight) = {}
  BY <1>1 DEF OthersOf
<1>3. \A k \in Nat : Held[k] = {}
  <2> SUFFICES ASSUME NEW k \in Nat PROVE Held[k] = {}
    OBVIOUS
  <2>1. CASE k \in {1, 2, 3, 4, 5}
    BY <2>1, <1>1, <1>2, HeldNow, NoneInList
  <2>2. CASE k \notin {1, 2, 3, 4, 5}
    <3>1. k = 0 \/ k > 5 + Len(mcbs)
      BY <2>2, <1>1
    <3>2. QED BY <3>1, HeldNow
  <2>3. QED BY <2>1, <2>2
<1>4. KeptNow
  <2>1. PICK h, u, n, l : h = Held /\ u = used /\ n = Len(shape) /\ l = Migrates
    OBVIOUS
  <2>2. (\A k \in Nat : h[k] = {}) /\ n = 0 /\ \A r \in Req : u[r] = 0
    BY <2>1, <1>1, <1>3
  <2>3. Kept(h, u, n, l)
    BY <2>2 DEF Kept
  <2>4. QED BY <2>1, <2>3 DEF KeptNow
<1>5. Once /\ AllBatchesOK /\ SubmitOK /\ ParkedStops
  BY <1>1, NoneInList DEF Once, AllBatchesOK, SubmitOK, ParkedStops
<1>6. QED BY <1>4, <1>5, RequestsParts

LEMMA NextRequests ==
  ASSUME BlkTyped, BlkTyped', setup' = setup, Tolerated, RequestsOK, Next
  PROVE  RequestsOK'
<1>1. CASE Handler
  BY <1>1, StartRequests, PartTakenRequests, BatchRefusedRequests, PartRefusedNever,
     PartFailsAtOnceRequests, QuietStepsRequests, HandleWriteRequests, HandleOtherRequests,
     ReadRefusedRequests, FlushRefusedRequests DEF Handler
<1>2. CASE \E w \in flight : Answer(w)
  BY <1>2, WriteSucceedsRequests, WriteFailsRequests, OtherAnswerRequests DEF Answer
<1>3. QED BY <1>1, <1>2, SubmitRequests, RestartRequests, QuietStepsRequests, MigrateRequests DEF Next

LEMMA StutterRequests ==
  ASSUME RequestsOK, UNCHANGED <<vars, setup>>
  PROVE  RequestsOK'
<1>1. /\ UNCHANGED <<setup, shape, avail, used, at, walk, mrb, sub, mcbs, flight, rq, bh, running>>
  BY DEF vars, guest, done, handler, device
<1>2. KeptNow /\ Once /\ AllBatchesOK /\ SubmitOK /\ ParkedStops
  BY RequestsParts
<1>3. KeptNow'
  BY <1>1, <1>2 DEF KeptNow, Held, Migrates
<1>4. AllBatchesOK'
  BY <1>1, <1>2, BatchesSame
<1>5. Once' /\ SubmitOK' /\ ParkedStops'
  BY <1>1, <1>2, SetupSame DEF Once, SubmitOK, ParkedStops, AtPart
<1>6. QED BY <1>3, <1>4, <1>5, RequestsPartsNext

\* The requests other than writes in flight.
LEMMA OtherInFlight ==
  ASSUME BlkTyped, NEW r
  PROVE  r \in OthersOf(flight)
           <=> [op |-> "read", req |-> r] \in flight \/ [op |-> "flush", req |-> r] \in flight
<1>1. PICK a, b : a = [op |-> "read", req |-> r] /\ b = [op |-> "flush", req |-> r]
  OBVIOUS
<1>2. a.op = "read" /\ a.req = r /\ b.op = "flush" /\ b.req = r
  BY <1>1
<1>3. a \in flight \/ b \in flight => r \in OthersOf(flight)
  BY <1>2 DEF OthersOf
<1>4. ASSUME r \in OthersOf(flight) PROVE a \in flight \/ b \in flight
  <2>1. PICK w \in flight : w.op # "write" /\ w.req = r
    BY <1>4 DEF OthersOf
  <2>2. w = [op |-> w.op, req |-> w.req]
    BY <2>1, OtherFields
  <2>3. w.op \in {"read", "flush"}
    BY <2>1 DEF BlkTyped, DeviceTyped, PartsInFlight, OthersInFlight
  <2>4. w = a \/ w = b
    BY <2>1, <2>2, <2>3, <1>1
  <2>5. QED BY <2>4
<1>5. QED BY <1>1, <1>3, <1>4

\* A list of five truth values, and more.
LEMMA FiveAndMore ==
  ASSUME NEW a \in BOOLEAN, NEW b \in BOOLEAN, NEW c \in BOOLEAN, NEW d \in BOOLEAN, NEW e \in BOOLEAN,
         NEW s \in Seq(BOOLEAN), NEW p, p = <<a, b, c, d, e>> \o s
  PROVE  /\ DOMAIN p = 1 .. 5 + Len(s) /\ Len(s) \in Nat
         /\ p[1] = a /\ p[2] = b /\ p[3] = c /\ p[4] = d /\ p[5] = e
         /\ \A m \in 1 .. Len(s) : p[5 + m] = s[m]
<1>1. PICK t : t = <<a, b, c, d, e>>
  OBVIOUS
<1>2. t \in Seq(BOOLEAN) /\ Len(t) = 5
  BY <1>1
<1>3. t[1] = a /\ t[2] = b /\ t[3] = c /\ t[4] = d /\ t[5] = e
  BY <1>1
<1>4. /\ p \in Seq(BOOLEAN) /\ Len(p) = Len(t) + Len(s)
      /\ \A i \in 1 .. Len(t) + Len(s) : p[i] = IF i <= Len(t) THEN t[i] ELSE s[i - Len(t)]
  BY <1>1, <1>2, ConcatProperties
<1>5. Len(s) \in Nat
  OBVIOUS
<1>6. DOMAIN p = 1 .. 5 + Len(s)
  BY <1>2, <1>4, <1>5
<1>7. \A i \in 1 .. 5 + Len(s) : p[i] = IF i <= 5 THEN t[i] ELSE s[i - 5]
  BY <1>2, <1>4
<1>8. \A m \in 1 .. Len(s) : 5 + m \in 1 .. 5 + Len(s) /\ ~(5 + m <= 5) /\ (5 + m) - 5 = m
  BY <1>5
<1>9. \A m \in 1 .. Len(s) : p[5 + m] = s[m]
  BY <1>7, <1>8
<1>10. p[1] = t[1] /\ p[2] = t[2] /\ p[3] = t[3] /\ p[4] = t[4] /\ p[5] = t[5]
  BY <1>5, <1>7
<1>11. QED BY <1>3, <1>5, <1>6, <1>9, <1>10

LEMMA PlacesHeld ==
  ASSUME BlkTyped, NEW r
  PROVE  /\ DOMAIN Places(r) = 1 .. 5 + Len(mcbs)
         /\ \A k \in 1 .. 5 + Len(mcbs) : Places(r)[k] <=> r \in Held[k]
<1>1. PICK a, b, c, d, e :
        /\ a = Contains(avail, r) /\ b = Contains(walk, r) /\ c = Contains(mrb, r) /\ d = Contains(rq, r)
        /\ e = ([op |-> "read", req |-> r] \in flight \/ [op |-> "flush", req |-> r] \in flight)
  OBVIOUS
<1>2. PICK s : s = [m \in DOMAIN mcbs |-> r \in Pending(mcbs[m])]
  OBVIOUS
<1>3. PICK p : p = Places(r)
  OBVIOUS
<1>4. p = <<a, b, c, d, e>> \o s
  BY <1>1, <1>2, <1>3 DEF Places
<1>5. a \in BOOLEAN /\ b \in BOOLEAN /\ c \in BOOLEAN /\ d \in BOOLEAN /\ e \in BOOLEAN
  BY <1>1 DEF Contains
<1>6. Len(mcbs) \in Nat /\ DOMAIN mcbs = 1 .. Len(mcbs)
  BY DEF BlkTyped, DeviceTyped
<1>7. s \in Seq(BOOLEAN) /\ Len(s) = Len(mcbs)
  BY <1>2, <1>6
<1>8. \A m \in 1 .. Len(mcbs) : s[m] <=> r \in Pending(mcbs[m])
  BY <1>2, <1>6
<1>9. /\ DOMAIN p = 1 .. 5 + Len(mcbs)
      /\ p[1] = a /\ p[2] = b /\ p[3] = c /\ p[4] = d /\ p[5] = e
      /\ \A m \in 1 .. Len(mcbs) : p[5 + m] = s[m]
  BY <1>4, <1>5, <1>7, FiveAndMore
<1>10. /\ (a <=> r \in Held[1]) /\ (b <=> r \in Held[2]) /\ (c <=> r \in Held[3]) /\ (d <=> r \in Held[4])
  <2>1. avail \in Seq(Req) /\ walk \in Seq(Gone) /\ mrb \in Seq(Writes) /\ rq \in Seq(Gone)
    BY DEF BlkTyped, GuestTyped, DeviceTyped
  <2>2. /\ Contains(avail, r) <=> r \in Elements(avail)
        /\ Contains(walk, r) <=> r \in Elements(walk)
        /\ Contains(mrb, r) <=> r \in Elements(mrb)
        /\ Contains(rq, r) <=> r \in Elements(rq)
    BY <2>1, InList
  <2>3. QED BY <2>2, <1>1, HeldNow
<1>11. e <=> r \in Held[5]
  BY <1>1, OtherInFlight, HeldNow
<1>12. ASSUME NEW k \in 1 .. 5 + Len(mcbs) PROVE p[k] <=> r \in Held[k]
  <2>1. CASE k = 1
    BY <2>1, <1>9, <1>10
  <2>2. CASE k = 2
    BY <2>2, <1>9, <1>10
  <2>3. CASE k = 3
    BY <2>3, <1>9, <1>10
  <2>4. CASE k = 4
    BY <2>4, <1>9, <1>10
  <2>5. CASE k = 5
    BY <2>5, <1>9, <1>11
  <2>6. CASE k > 5
    <3>1. PICK m : m = k - 5
      OBVIOUS
    <3>2. m \in 1 .. Len(mcbs) /\ k = 5 + m
      BY <2>6, <3>1, <1>6
    <3>3. p[k] = s[m] /\ (s[m] <=> r \in Pending(mcbs[m])) /\ Held[k] = Pending(mcbs[m])
      BY <3>2, <1>8, <1>9, HeldNow
    <3>4. QED BY <3>3
  <2>7. QED BY <2>1, <2>2, <2>3, <2>4, <2>5, <2>6, <1>6
<1>13. QED BY <1>3, <1>9, <1>12

LEMMA RequestsAccounted ==
  ASSUME BlkTyped, RequestsOK
  PROVE  Accounted
<1> SUFFICES ASSUME ~Migrates, NEW r \in Made
             PROVE  Cardinality({k \in DOMAIN Places(r) : Places(r)[k]}) = (IF used[r] = 0 THEN 1 ELSE 0)
  BY DEF Accounted
<1>1. r \in 1 .. Len(shape)
  BY GuestFacts DEF BlkTyped
<1>2. PICK K : K = {k \in DOMAIN Places(r) : Places(r)[k]}
  OBVIOUS
<1>3. K = {k \in 1 .. 5 + Len(mcbs) : r \in Held[k]}
  BY <1>2, PlacesHeld
<1>4. KeptNow
  BY RequestsParts
<1>5. CASE used[r] = 0
  <2>1. PICK k \in Nat : r \in Held[k]
    BY <1>1, <1>4, <1>5 DEF KeptNow, Kept
  <2>2. k \in 1 .. 5 + Len(mcbs)
    <3>1. ~(k = 0 \/ k > 5 + Len(mcbs))
      BY <2>1, HeldNow
    <3>2. QED BY <3>1, Lengths
  <2>3. \A l \in 1 .. 5 + Len(mcbs) : r \in Held[l] => l = k
    <3>1. \A l \in 1 .. 5 + Len(mcbs) : l \in Nat
      BY Lengths
    <3>2. QED BY <3>1, <2>1, <1>4 DEF KeptNow, Kept
  <2>4. K = {k}
    BY <2>1, <2>2, <2>3, <1>3
  <2>5. Cardinality(K) = 1
    BY <2>4, FS_Singleton
  <2>6. QED BY <2>5, <1>2, <1>5
<1>6. CASE used[r] # 0
  <2>1. \A l \in 1 .. 5 + Len(mcbs) : r \notin Held[l]
    <3>1. \A l \in 1 .. 5 + Len(mcbs) : l \in Nat
      BY Lengths
    <3>2. QED BY <3>1, <1>4, <1>6 DEF KeptNow, Kept
  <2>2. K = {}
    BY <2>1, <1>3
  <2>3. Cardinality(K) = 0
    BY <2>2, FS_EmptySet
  <2>4. QED BY <2>3, <1>2, <1>6
<1>7. QED BY <1>5, <1>6

LEMMA RequestsKeptHolds ==
  ASSUME BlkTyped, RequestsOK
  PROVE  RequestsKept
<1>1. KeptNow /\ AllBatchesOK /\ ParkedStops
  BY RequestsParts
<1>2. \A w \in flight : w.op = "write" => w.mcb \in 1 .. Len(mcbs) /\ ~mcbs[w.mcb].freed
  <2> SUFFICES ASSUME NEW w \in flight, w.op = "write"
               PROVE  w.mcb \in 1 .. Len(mcbs) /\ ~mcbs[w.mcb].freed
    OBVIOUS
  <2>1. w.mcb \in 1 .. Len(mcbs) /\ w \in PartsOf(w.mcb)
    BY PartFields DEF PartsOf
  <2>2. BatchOK(w.mcb)
    BY <2>1, <1>1 DEF AllBatchesOK
  <2>3. QED BY <2>1, <2>2 DEF BatchOK
<1>3. TypeOK
  <2>1. Len(shape) = Len(before) /\ \A r \in Made : shape[r] \in Shapes
    BY GuestFacts DEF BlkTyped, GuestTyped
  <2>2. at \in {"idle", "output", "restart", "submit"} /\ Len(mrb) <= BatchSize
    BY DEF BlkTyped, DeviceTyped, HandlerOK
  <2>3. \A r \in Req : used[r] \in 0 .. 1
    <3> SUFFICES ASSUME NEW r \in Req PROVE used[r] \in {0, 1}
      OBVIOUS
    <3>1. r \in 1 .. Len(shape) \/ r > Len(shape)
      BY Lengths DEF Req
    <3>2. QED BY <3>1, <1>1 DEF KeptNow, Kept
  <2>4. at # "restart" /\ sub.from # "restart" => walk = <<>>
    BY DEF BlkTyped, HandlerOK
  <2>5. DOMAIN mcbs = 1 .. Len(mcbs)
    BY DEF BlkTyped, DeviceTyped
  <2>6. QED BY <2>1, <2>2, <2>3, <2>4, <2>5, <1>2 DEF TypeOK
<1>4. Accounted
  BY RequestsAccounted
<1>5. McbLive
  BY <1>2 DEF McbLive
<1>6. QED BY <1>1, <1>3, <1>4, <1>5 DEF RequestsKept

-----------------------------------------------------------------------------
(***************************************************************************)
(* DataOK is kept by every step.                                           *)
(***************************************************************************)

\* What a step may do to completions: writes are not reported as done by it.
NoWriteDone ==
  /\ \A r \in Req : used[r] > 0 => used'[r] > 0
  /\ \A r \in Req : status'[r] = "ok" => used'[r] > 0 /\ (status[r] = "ok" \/ Op(r) # "write")

LEMMA NothingDone ==
  ASSUME BlkTyped, DataThere, UNCHANGED <<used, status>>
  PROVE  NoWriteDone
<1>1. used \in [Req -> Nat]
  BY Lengths
<1>2. QED BY <1>1 DEF NoWriteDone, DataThere

LEMMA FinishedDone ==
  ASSUME BlkTyped, DataThere, Honest, NEW S, NEW ok \in BOOLEAN, Finishes(S, ok),
         ok => \A r \in S : Op(r) # "write"
  PROVE  NoWriteDone
<1>1. used \in [Req -> Nat]
  BY Lengths
<1>2. ASSUME NEW r \in Req PROVE (used[r] > 0 => used'[r] > 0) /\ (r \in S => used'[r] > 0)
                              /\ (r \notin S => used'[r] = used[r])
  BY <1>1 DEF Finishes
<1>3. ASSUME NEW r \in Req, status'[r] = "ok"
      PROVE  used'[r] > 0 /\ (status[r] = "ok" \/ Op(r) # "write")
  <2>1. CASE r \in S
    <3>1. ok
      BY <2>1, <1>3 DEF Finishes, Honest
    <3>2. QED BY <2>1, <3>1, <1>2
  <2>2. CASE r \notin S
    <3>1. status[r] = "ok"
      BY <2>2, <1>3 DEF Finishes
    <3>2. QED BY <2>2, <3>1, <1>2 DEF DataThere
  <2>3. QED BY <2>1, <2>2
<1>4. QED BY <1>2, <1>3 DEF NoWriteDone

\* A failure, of some requests.
LEMMA FailureDone ==
  ASSUME BlkTyped, DataThere, Honest, NEW rs \in Seq(Gone), virtio_blk_rw_complete(rs, FALSE)
  PROVE  NoWriteDone
<1>1. Finishes(Elements(rs), FALSE) \/ Parks(rs)
  BY RwCases
<1>2. CASE Finishes(Elements(rs), FALSE)
  BY <1>2, FinishedDone
<1>3. CASE Parks(rs)
  BY <1>3, NothingDone DEF Parks
<1>4. QED BY <1>1, <1>2, <1>3

LEMMA CoversSame ==
  ASSUME shape' = shape
  PROVE  \A r : Covers(r)' = Covers(r) /\ Op(r)' = Op(r)
BY DEF Covers, Op

\* The batches stay, and those that have failed have failed.
ErrorsStay ==
  /\ Len(mcbs) <= Len(mcbs')
  /\ \A m \in 1 .. Len(mcbs) : mcbs'[m].cbs = mcbs[m].cbs /\ (mcbs[m].error => mcbs'[m].error)

LEMMA FailedAre ==
  ASSUME BlkTyped
  PROVE  FailedOnce = UNION {Elements(mcbs[m].cbs) : m \in {k \in 1 .. Len(mcbs) : mcbs[k].error}}
<1>1. DOMAIN mcbs = 1 .. Len(mcbs)
  BY DEF BlkTyped, DeviceTyped
<1>2. QED BY <1>1 DEF FailedOnce, ToSet, Elements

LEMMA FailedAreNext ==
  ASSUME BlkTyped'
  PROVE  FailedOnce' = UNION {Elements(mcbs'[m].cbs) : m \in {k \in 1 .. Len(mcbs') : mcbs'[k].error}}
<1>1. DOMAIN mcbs' = 1 .. Len(mcbs')
  BY DEF BlkTyped, DeviceTyped
<1>2. QED BY <1>1 DEF FailedOnce, ToSet, Elements

LEMMA FailedStay ==
  ASSUME BlkTyped, BlkTyped', ErrorsStay
  PROVE  FailedOnce \subseteq FailedOnce'
<1> SUFFICES ASSUME NEW q \in FailedOnce PROVE q \in FailedOnce'
  OBVIOUS
<1>1. PICK m \in 1 .. Len(mcbs) : mcbs[m].error /\ q \in Elements(mcbs[m].cbs)
  BY FailedAre
<1>2. m \in 1 .. Len(mcbs') /\ mcbs'[m].error /\ q \in Elements(mcbs'[m].cbs)
  <2>1. Len(mcbs) \in Nat /\ Len(mcbs') \in Nat
    BY DEF BlkTyped, DeviceTyped
  <2>2. QED BY <2>1, <1>1 DEF ErrorsStay
<1>3. QED BY <1>2, FailedAreNext

LEMMA NewSame ==
  ASSUME BlkTyped, BlkTyped', UNCHANGED <<disk, before>>, ErrorsStay
  PROVE  \A r, x : New(r, x) => New(r, x)'
BY FailedStay DEF New

\* Batches that still answer did so before, and their data comes as before.
StillComing ==
  \A m \in 1 .. Len(mcbs') : \A r \in Pending(mcbs'[m]) :
    /\ m \in 1 .. Len(mcbs) /\ r \in Pending(mcbs[m])
    /\ \A x : OnItsWay(m, x) => OnItsWay(m, x)'

LEMMA DataKept ==
  ASSUME BlkTyped, BlkTyped', DataOK, NoWriteDone, StillComing, ErrorsStay,
         UNCHANGED <<shape, before, disk>>
  PROVE  DataOK'
<1>1. BeforeDone /\ DataComing /\ DataThere
  BY DEF DataOK
<1>2. BeforeDone'
  <2> SUFFICES ASSUME NEW r \in 1 .. Len(shape), NEW q \in before[r] PROVE used'[q] > 0
    BY DEF BeforeDone
  <2>1. q \in Req
    BY DEF BlkTyped, GuestTyped
  <2>2. QED BY <2>1, <1>1 DEF BeforeDone, NoWriteDone
<1>3. DataComing'
  <2> SUFFICES ASSUME NEW m \in 1 .. Len(mcbs'), NEW r \in Pending(mcbs'[m]), NEW x \in Covers(r)
               PROVE  OnItsWay(m, x)' \/ New(r, x)'
    BY CoversSame DEF DataComing
  <2>1. m \in 1 .. Len(mcbs) /\ r \in Pending(mcbs[m]) /\ (OnItsWay(m, x) => OnItsWay(m, x)')
    BY DEF StillComing
  <2>2. OnItsWay(m, x) \/ New(r, x)
    BY <2>1, <1>1 DEF DataComing
  <2>3. QED BY <2>1, <2>2, NewSame
<1>4. DataThere'
  <2>1. \A r \in Req : status'[r] = "ok" => used'[r] > 0
    BY DEF NoWriteDone
  <2>2. ASSUME NEW r \in 1 .. Len(shape), status'[r] = "ok", Op(r) = "write", NEW x \in Covers(r)
        PROVE  New(r, x)'
    <3>1. status[r] = "ok"
      BY <2>2, Lengths DEF NoWriteDone
    <3>2. New(r, x)
      BY <2>2, <3>1, <1>1 DEF DataThere
    <3>3. QED BY <3>2, NewSame
  <2>3. QED BY <2>1, <2>2, CoversSame DEF DataThere
<1>5. QED BY <1>2, <1>3, <1>4 DEF DataOK

\* Steps of the loops: batches and parts are as they were.
LEMMA LoopsData ==
  ASSUME BlkTyped, BlkTyped', DataOK, NoWriteDone, UNCHANGED <<shape, before, disk, mcbs, sub>>,
         \A w : w.op = "write" => (w \in flight' <=> w \in flight),
         at' = at \/ at # "submit" \/ sub.i > Len(sub.reqs)
  PROVE  DataOK'
<1>1. \A m : PartsOf(m)' = PartsOf(m)
  BY DEF PartsOf
<1>2. at' = at \/ at # "submit" \/ \A j \in sub.i .. Len(sub.reqs) : FALSE
  BY SubFields
<1>3. StillComing
  BY <1>1, <1>2 DEF StillComing, OnItsWay
<1>4. ErrorsStay
  BY Lengths DEF ErrorsStay
<1>5. QED BY <1>3, <1>4, DataKept

LEMMA LoopStepsData ==
  ASSUME BlkTyped, BlkTyped', DataOK,
         \/ Notify \/ AllSubmitted \/ LoopEnds \/ Cont \/ virtio_blk_dma_restart_bh \/ Migrate
         \/ \E r : virtio_blk_handle_write(r) \/ virtio_blk_handle_read(r) \/ virtio_blk_handle_flush(r)
  PROVE  DataOK'
<1>1. DataThere
  BY DEF DataOK
<1>2. CASE Notify \/ AllSubmitted \/ LoopEnds \/ Cont \/ virtio_blk_dma_restart_bh \/ Migrate
  <2>1. /\ UNCHANGED <<shape, before, disk, mcbs, sub, used, status, flight>>
        /\ at' = at \/ at # "submit" \/ sub.i > Len(sub.reqs)
    BY <1>2 DEF Notify, AllSubmitted, LoopEnds, Cont, virtio_blk_dma_restart_bh, Migrate, guest, done, handler
  <2>2. NoWriteDone
    BY <2>1, <1>1, NothingDone
  <2>3. QED BY <2>1, <2>2, LoopsData
<1>3. ASSUME NEW r, virtio_blk_handle_write(r) \/ virtio_blk_handle_read(r) \/ virtio_blk_handle_flush(r)
      PROVE  DataOK'
  <2>1. UNCHANGED <<shape, before, disk, mcbs, sub, used, status, at>>
    BY <1>3 DEF virtio_blk_handle_write, virtio_blk_handle_read, virtio_blk_handle_flush, done
  <2>2. \A w : w.op = "write" => (w \in flight' <=> w \in flight)
    <3>1. PICK a, b : a = [op |-> "read", req |-> r] /\ b = [op |-> "flush", req |-> r]
      OBVIOUS
    <3>2. a.op = "read" /\ b.op = "flush"
      BY <3>1
    <3>3. flight' = flight \/ flight' = flight \cup {a} \/ flight' = flight \cup {b}
      BY <3>1, <1>3 DEF virtio_blk_handle_write, virtio_blk_handle_read, virtio_blk_handle_flush
    <3>4. QED BY <3>2, <3>3
  <2>3. NoWriteDone
    BY <2>1, <1>1, NothingDone
  <2>4. QED BY <2>1, <2>2, <2>3, LoopsData
<1>4. QED BY <1>2, <1>3

LEMMA ReadRefusedData ==
  ASSUME BlkTyped, BlkTyped', DataOK, Honest, NEW r \in Req, ReadRefused(r)
  PROVE  DataOK'
<1>1. DataThere
  BY DEF DataOK
<1>2. /\ UNCHANGED <<shape, before, at, mrb, sub, mcbs, flight, bh, disk>>
      /\ virtio_blk_rw_complete(<<r>>, FALSE)
  BY DEF ReadRefused
<1>3. Policy \in {"report", "stop"}
  BY SetupFacts DEF BlkTyped, GuestTyped, Honest
<1>4. NoWriteDone
  <2>1. CASE UNCHANGED <<used, status>>
    BY <2>1, <1>1, NothingDone
  <2>2. CASE CompletedAs(<<r>>, "ioerr")
    <3>1. used \in [Req -> Nat] /\ status \in [Req -> {"none", "ok", "ioerr"}]
      BY DEF BlkTyped, GuestTyped
    <3>2. /\ used' = [q \in Req |-> used[q] + (IF Contains(<<r>>, q) THEN 1 ELSE 0)]
          /\ status' = [q \in Req |-> IF Contains(<<r>>, q) THEN "ioerr" ELSE status[q]]
      BY <2>2 DEF CompletedAs
    <3>3. \A q \in Req : (used[q] > 0 => used'[q] > 0) /\ (status'[q] = "ok" => status[q] = "ok")
      BY <3>1, <3>2
    <3>4. \A q \in Req : used'[q] \in Nat
      BY <3>1, <3>2
    <3>5. QED BY <3>1, <3>3, <3>4, <1>1 DEF NoWriteDone, DataThere
  <2>3. QED BY <2>1, <2>2, <1>2, <1>3 DEF virtio_blk_rw_complete, done
<1>5. QED BY <1>2, <1>4, LoopsData

LEMMA FlushRefusedData ==
  ASSUME BlkTyped, BlkTyped', DataOK, Honest, NEW r \in Req, FlushRefused(r)
  PROVE  DataOK'
<1>1. DataThere
  BY DEF DataOK
<1>2. UNCHANGED <<shape, before, at, sub, mcbs, flight, disk>> /\ CompletedAs(<<r>>, "ioerr")
  BY DEF FlushRefused
<1>3. NoWriteDone
  <2>1. used \in [Req -> Nat] /\ status \in [Req -> {"none", "ok", "ioerr"}]
    BY DEF BlkTyped, GuestTyped
  <2>2. /\ used' = [q \in Req |-> used[q] + (IF Contains(<<r>>, q) THEN 1 ELSE 0)]
        /\ status' = [q \in Req |-> IF Contains(<<r>>, q) THEN "ioerr" ELSE status[q]]
    BY <1>2 DEF CompletedAs
  <2>3. \A q \in Req : (used[q] > 0 => used'[q] > 0) /\ (status'[q] = "ok" => status[q] = "ok")
    BY <2>1, <2>2
  <2>4. \A q \in Req : used'[q] \in Nat
    BY <2>1, <2>2
  <2>5. QED BY <2>1, <2>3, <2>4, <1>1 DEF NoWriteDone, DataThere
<1>4. QED BY <1>2, <1>3, LoopsData

LEMMA OtherAnswerData ==
  ASSUME BlkTyped, BlkTyped', DataOK, Honest, NEW w \in flight, OtherSucceeds(w) \/ ReadFails(w) \/ FlushFails(w)
  PROVE  DataOK'
<1>1. DataThere
  BY DEF DataOK
<1>2. /\ at = "idle" /\ w.op # "write" /\ flight' = flight \ {w}
      /\ UNCHANGED <<shape, before, avail, at, walk, mrb, sub, bh, disk, mcbs>>
  BY DEF OtherSucceeds, ReadFails, FlushFails, guest, handler, device
<1>3. PICK r : r = w.req
  OBVIOUS
<1>4. r \in Gone /\ <<r>> \in Seq(Gone) /\ Elements(<<r>>) = {r} /\ Op(r) # "write"
  BY <1>2, <1>3, OtherFields, OneInList
<1>5. NoWriteDone
  <2>1. CASE OtherSucceeds(w)
    <3>1. virtio_blk_rw_complete(<<r>>, TRUE)
      BY <2>1, <1>3 DEF OtherSucceeds
    <3>2. Finishes({r}, TRUE)
      BY <3>1, <1>4, RwCases
    <3>3. QED BY <3>2, <1>1, <1>4, FinishedDone
  <2>2. CASE ReadFails(w)
    <3>1. virtio_blk_rw_complete(<<r>>, FALSE)
      BY <2>2, <1>3 DEF ReadFails
    <3>2. QED BY <3>1, <1>1, <1>4, FailureDone
  <2>3. CASE FlushFails(w)
    <3>1. CompletedAs(<<r>>, "ioerr") /\ UNCHANGED <<rq, running>>
      BY <2>3, <1>3 DEF FlushFails, device
    <3>2. Finishes({r}, FALSE)
      BY <3>1, <1>4, CompletedTyped DEF Finishes
    <3>3. QED BY <3>2, <1>1, FinishedDone
  <2>4. QED BY <2>1, <2>2, <2>3
<1>6. \A v : v.op = "write" => (v \in flight' <=> v \in flight)
  BY <1>2
<1>7. QED BY <1>2, <1>5, <1>6, LoopsData

\* Batch m has answered.
LEMMA BatchGone ==
  ASSUME BlkTyped, NEW m \in 1 .. Len(mcbs), McbsSame,
         \A k \in 1 .. Len(mcbs) : k # m => mcbs'[k] = mcbs[k],
         mcbs'[m].error \/ mcbs'[m].freed, mcbs[m].error => mcbs'[m].error,
         \A w : w.op = "write" /\ w.mcb # m => (w \in flight' <=> w \in flight),
         at = "submit" => sub.mcb = m
  PROVE  StillComing /\ ErrorsStay
<1>1. \A k : k # m => PartsOf(k)' = PartsOf(k)
  BY DEF PartsOf
<1>2. Pending(mcbs'[m]) = {}
  BY DEF Pending
<1>3. Len(mcbs') = Len(mcbs)
  BY DEF McbsSame
<1>4. ASSUME NEW k \in 1 .. Len(mcbs'), NEW r \in Pending(mcbs'[k])
      PROVE  /\ k \in 1 .. Len(mcbs) /\ r \in Pending(mcbs[k])
             /\ \A x : OnItsWay(k, x) => OnItsWay(k, x)'
  <2>1. k # m /\ k \in 1 .. Len(mcbs)
    BY <1>2, <1>3, <1>4
  <2>2. mcbs'[k] = mcbs[k]
    BY <2>1
  <2>3. \A x : OnItsWay(k, x) => OnItsWay(k, x)'
    BY <2>1, <1>1 DEF OnItsWay
  <2>4. QED BY <2>1, <2>2, <2>3, <1>4
<1>5. StillComing
  BY <1>4 DEF StillComing
<1>6. ErrorsStay
  BY Lengths DEF ErrorsStay, McbsSame
<1>7. QED BY <1>5, <1>6

LEMMA BatchRefusedData ==
  ASSUME BlkTyped, BlkTyped', DataOK, Honest, BatchRefused
  PROVE  DataOK'
<1>1. DataThere
  BY DEF DataOK
<1>2. /\ AtPart /\ UNCHANGED <<shape, before, disk, flight>>
  BY BatchRefusedFields
<1>3. PICK m, r : m = sub.mcb /\ r = sub.sorted[sub.i]
  OBVIOUS
<1>4. m \in 1 .. Len(mcbs)
  BY <1>2, <1>3, SubFields DEF AtPart
<1>5. r \in Gone /\ virtio_blk_rw_complete(<<r>>, FALSE)
  BY <1>3, BatchRefusedFields
<1>6. NoWriteDone
  <2>1. <<r>> \in Seq(Gone)
    BY <1>5
  <2>2. QED BY <2>1, <1>1, <1>5, FailureDone
<1>7. McbsSame /\ \A k \in 1 .. Len(mcbs) : k # m => mcbs'[k] = mcbs[k]
  BY <1>3, BatchRefusedMcb
<1>8. mcbs'[m].freed /\ mcbs'[m].error = mcbs[m].error
  BY <1>3, BatchRefusedMcb
<1>9. StillComing /\ ErrorsStay
  BY <1>2, <1>3, <1>4, <1>7, <1>8, BatchGone
<1>10. QED BY <1>2, <1>6, <1>9, DataKept

LEMMA PartFailsAtOnceData ==
  ASSUME BlkTyped, BlkTyped', DataOK, Honest, PartFailsAtOnce
  PROVE  DataOK'
<1>1. DataThere
  BY DEF DataOK
<1>2. /\ AtPart /\ UNCHANGED <<shape, before, disk, flight>> /\ BatchFails(sub.mcb)
  BY DEF PartFailsAtOnce, guest, BatchFails
<1>3. PICK m : m = sub.mcb
  OBVIOUS
<1>4. m \in 1 .. Len(mcbs)
  BY <1>2, <1>3, SubFields DEF AtPart
<1>5. NoWriteDone
  <2>1. CASE NothingCompleted
    BY <2>1, <1>1, NothingDone DEF NothingCompleted, done
  <2>2. CASE virtio_blk_rw_complete(mcbs[m].cbs, FALSE)
    BY <2>2, <1>1, <1>4, McbCbs, FailureDone
  <2>3. QED BY <2>1, <2>2, <1>2, <1>3 DEF BatchFails
<1>6. McbsSame /\ \A k \in 1 .. Len(mcbs) : k # m => mcbs'[k] = mcbs[k]
  BY <1>3, PartFailsAtOnceMcb
<1>7. mcbs'[m].error
  BY <1>3, PartFailsAtOnceMcb
<1>8. StillComing /\ ErrorsStay
  BY <1>2, <1>3, <1>4, <1>6, <1>7, BatchGone
<1>9. QED BY <1>2, <1>5, <1>8, DataKept

LEMMA WriteFailsData ==
  ASSUME BlkTyped, BlkTyped', DataOK, Honest, NEW w \in flight, WriteFails(w)
  PROVE  DataOK'
<1>1. DataThere
  BY DEF DataOK
<1>2. /\ at = "idle" /\ w.op = "write" /\ flight' = flight \ {w} /\ multiwrite_cb(w.mcb, FALSE)
      /\ UNCHANGED <<shape, before, disk>>
  BY DEF WriteFails, guest, handler
<1>3. PICK m : m = w.mcb
  OBVIOUS
<1>4. m \in 1 .. Len(mcbs)
  BY <1>2, <1>3, PartFields
<1>5. NoWriteDone
  <2>1. CASE NothingCompleted
    BY <2>1, <1>1, NothingDone DEF NothingCompleted, done
  <2>2. CASE virtio_blk_rw_complete(mcbs[m].cbs, FALSE)
    BY <2>2, <1>1, <1>4, McbCbs, FailureDone
  <2>3. QED BY <2>1, <2>2, <1>2, <1>3 DEF multiwrite_cb
<1>6. McbsSame /\ \A k \in 1 .. Len(mcbs) : k # m => mcbs'[k] = mcbs[k]
  BY <1>2, <1>3, <1>4, McbCounts
<1>7. mcbs'[m].error
  BY <1>2, <1>3, <1>4, McbCounts
<1>8. \A v : v.op = "write" /\ v.mcb # m => (v \in flight' <=> v \in flight)
  BY <1>2, <1>3
<1>9. StillComing /\ ErrorsStay
  BY <1>2, <1>4, <1>6, <1>7, <1>8, BatchGone
<1>10. QED BY <1>2, <1>5, <1>9, DataKept

LEMMA PartTakenData ==
  ASSUME BlkTyped, BlkTyped', DataOK, PartTaken
  PROVE  DataOK'
<1>1. DataThere
  BY DEF DataOK
<1>2. /\ AtPart /\ UNCHANGED <<shape, before, disk, at, used, status>>
      /\ flight' = flight \cup {ThisPart} /\ SubNext
  BY DEF PartTaken, guest, done, device, ThisPart, SubNext
<1>3. PICK m, v : m = sub.mcb /\ v = ThisPart
  OBVIOUS
<1>4. m \in 1 .. Len(mcbs) /\ at = "submit" /\ sub.i \in 1 .. Len(sub.reqs) /\ Len(sub.reqs) \in Nat
  BY <1>2, <1>3, SubFields DEF AtPart, BlkTyped, HandlerOK
<1>5. /\ McbsSame /\ \A k \in 1 .. Len(mcbs) : k # m => mcbs'[k] = mcbs[k]
  BY <1>3, PartTakenMcb
<1>6. mcbs'[m].error = mcbs[m].error /\ mcbs'[m].freed = mcbs[m].freed
  BY <1>3, PartTakenMcb
<1>7. \A k \in 1 .. Len(mcbs) : Pending(mcbs'[k]) = Pending(mcbs[k])
  BY <1>4, <1>5, <1>6 DEF Pending, McbsSame
<1>8. NoWriteDone
  BY <1>1, <1>2, NothingDone
<1>9. /\ v.op = "write" /\ v.mcb = m /\ flight' = flight \cup {v}
      /\ v.first = sub.reqs[sub.i].first /\ v.vals = sub.reqs[sub.i].vals
  BY <1>2, <1>3, ThisPartRight
<1>10. v \in PartsOf(m)' /\ \A k : PartsOf(k) \subseteq PartsOf(k)'
  BY <1>9 DEF PartsOf
<1>11. \A x : Spans(sub.reqs[sub.i], x) => Spans(v, x)
  BY <1>9 DEF Spans
<1>12. sub'.reqs = sub.reqs /\ sub'.i = sub.i + 1 /\ sub'.mcb = sub.mcb
  BY <1>2, SubNextFields
<1>13. \A k, x : OnItsWay(k, x) => OnItsWay(k, x)'
  <2> SUFFICES ASSUME NEW k, NEW x, OnItsWay(k, x) PROVE OnItsWay(k, x)'
    OBVIOUS
  <2>1. CASE \E u \in PartsOf(k) : Spans(u, x)
    BY <2>1, <1>10 DEF OnItsWay
  <2>2. CASE k = sub.mcb /\ \E j \in sub.i .. Len(sub.reqs) : Spans(sub.reqs[j], x)
    <3>1. PICK j \in sub.i .. Len(sub.reqs) : Spans(sub.reqs[j], x)
      BY <2>2
    <3>2. CASE j = sub.i
      BY <2>2, <3>1, <3>2, <1>3, <1>10, <1>11 DEF OnItsWay
    <3>3. CASE j # sub.i
      <4>1. j \in sub'.i .. Len(sub'.reqs)
        BY <3>3, <1>4, <1>12
      <4>2. Spans(sub'.reqs[j], x) /\ at' = "submit" /\ k = sub'.mcb
        BY <2>2, <3>1, <1>2, <1>4, <1>12
      <4>3. QED BY <4>1, <4>2 DEF OnItsWay
    <3>4. QED BY <3>2, <3>3
  <2>3. QED BY <2>1, <2>2 DEF OnItsWay
<1>14. StillComing
  BY <1>5, <1>7, <1>13 DEF StillComing, McbsSame
<1>15. ErrorsStay
  <2>1. Len(mcbs) \in Nat
    BY Lengths
  <2>2. QED BY <2>1, <1>5, <1>6 DEF ErrorsStay, McbsSame
<1>16. QED BY <1>2, <1>8, <1>14, <1>15, DataKept

LEMMA StartData ==
  ASSUME BlkTyped, BlkTyped', DataOK, NotNested, StartMultiwrite
  PROVE  DataOK'
<1>1. BeforeDone /\ DataComing /\ DataThere
  BY DEF DataOK
<1>2. /\ at \in {"output", "restart"} /\ mrb # <<>> /\ at' = "submit"
      /\ UNCHANGED <<shape, before, avail, used, status, walk, flight, rq, bh, running, disk, fails>>
      /\ Len(mcbs) \in Nat /\ Len(mcbs') = Len(mcbs) + 1
      /\ mcbs'[Len(mcbs) + 1] = NewMcb(mrb)
      /\ \A m \in 1 .. Len(mcbs) : mcbs'[m] = mcbs[m]
  BY StartMade
<1>3. PICK rs \in Sorted(mrb) :
        sub' = [reqs |-> multiwrite_merge(rs), sorted |-> rs, i |-> 1,
                mcb |-> Len(mcbs) + 1, from |-> at]
  BY StartMade
<1>4. PICK ws, n : ws = multiwrite_merge(rs) /\ n = Len(mcbs) + 1
  OBVIOUS
<1>5. sub'.reqs = ws /\ sub'.i = 1 /\ sub'.mcb = n
  BY <1>3, <1>4
<1>6. \A r \in Elements(mrb) : \A x \in Covers(r) : Spanned(ws, x)
  <2>1. GuestTyped /\ mrb \in Seq(Writes)
    BY DEF BlkTyped, DeviceTyped
  <2>2. QED BY <2>1, <1>2, <1>4, MergeTyped
<1>10. ErrorsStay
  BY <1>2 DEF ErrorsStay
<1>11. \A r, x : New(r, x) => New(r, x)'
  BY <1>2, <1>10, NewSame
<1>7. BeforeDone' /\ DataThere'
  BY <1>1, <1>2, <1>11, CoversSame DEF BeforeDone, DataThere
<1>8. DataComing'
  <2> SUFFICES ASSUME NEW m \in 1 .. Len(mcbs'), NEW r \in Pending(mcbs'[m]), NEW x \in Covers(r)
               PROVE  OnItsWay(m, x)' \/ New(r, x)'
    BY <1>2, CoversSame DEF DataComing
  <2>1. CASE m = n
    <3>1. r \in Elements(mrb)
      <4>1. mcbs'[n].cbs = mrb
        BY <1>2, <1>4 DEF NewMcb
      <4>2. QED BY <4>1, <2>1 DEF Pending, ToSet, Elements
    <3>2. PICK j \in 1 .. Len(ws) : Spans(ws[j], x)
      BY <3>1, <1>6 DEF Spanned
    <3>3. QED BY <2>1, <3>2, <1>2, <1>5 DEF OnItsWay
  <2>2. CASE m # n
    <3>1. m \in 1 .. Len(mcbs) /\ mcbs'[m] = mcbs[m]
      BY <2>2, <1>2, <1>4
    <3>2. OnItsWay(m, x) \/ New(r, x)
      BY <3>1, <1>1 DEF DataComing
    <3>3. OnItsWay(m, x) => OnItsWay(m, x)'
      BY <1>2 DEF OnItsWay, PartsOf
    <3>4. QED BY <3>2, <3>3, <1>11
  <2>3. QED BY <2>1, <2>2
<1>9. QED BY <1>7, <1>8 DEF DataOK

LEMMA SubmitData ==
  ASSUME BlkTyped, KeptNow, DataOK, setup' = setup, NEW sh \in Shapes, Submit(sh)
  PROVE  DataOK'
<1>1. BeforeDone /\ DataComing /\ DataThere
  BY DEF DataOK
<1>2. UNCHANGED <<used, status, at, walk, mrb, sub, mcbs, flight, rq, bh, running, disk, fails>>
  BY DEF Submit, done, handler, device
<1>3. /\ Len(shape') = Len(shape) + 1 /\ Len(shape) + 1 \in Req /\ Len(shape) \in Nat
      /\ \A r \in 1 .. Len(shape) : shape'[r] = shape[r] /\ before'[r] = before[r]
      /\ before'[Len(shape) + 1] = {r \in 1 .. Len(shape) : used[r] > 0}
  BY QueueGrows, Lengths DEF BlkTyped
<1>0. FailedOnce' = FailedOnce
  BY <1>2 DEF FailedOnce
<1>4. \A r \in 1 .. Len(shape) : /\ Covers(r)' = Covers(r) /\ Op(r)' = Op(r)
                                 /\ \A x : New(r, x)' = New(r, x)
  BY <1>0, <1>2, <1>3 DEF Covers, Op, New
<1>5. \A r \in 1 .. Len(shape') : r \in 1 .. Len(shape) \/ r = Len(shape) + 1
  BY <1>3
<1>6. BeforeDone'
  BY <1>1, <1>2, <1>3, <1>5 DEF BeforeDone
<1>7. DataComing'
  <2>1. ASSUME NEW m \in 1 .. Len(mcbs), NEW r \in Pending(mcbs[m]) PROVE r \in 1 .. Len(shape)
    <3>1. mcbs[m] \in Mcbs(Writes) /\ Elements(mcbs[m].cbs) \subseteq Writes
      BY McbCbs
    <3>2. r \in Elements(mcbs[m].cbs)
      BY <2>1, <3>1, PendingIs
    <3>3. QED BY <3>1, <3>2, GuestFacts DEF Writes, BlkTyped
  <2>2. \A m, x : OnItsWay(m, x)' = OnItsWay(m, x)
    BY <1>2 DEF OnItsWay, PartsOf
  <2>3. QED BY <2>1, <2>2, <1>1, <1>2, <1>4 DEF DataComing
<1>8. DataThere'
  <2>1. status[Len(shape) + 1] # "ok"
    <3>1. used[Len(shape) + 1] = 0
      BY <1>3 DEF KeptNow, Kept
    <3>2. QED BY <3>1, <1>1, <1>3 DEF DataThere
  <2>2. \A r \in Req : status'[r] = "ok" => used'[r] > 0
    BY <1>1, <1>2 DEF DataThere
  <2>3. ASSUME NEW r \in 1 .. Len(shape'), status'[r] = "ok", Op(r)' = "write", NEW x \in Covers(r)'
        PROVE  New(r, x)'
    <3>1. r \in 1 .. Len(shape)
      BY <2>1, <2>3, <1>2, <1>5
    <3>2. QED BY <3>1, <2>3, <1>1, <1>2, <1>4 DEF DataThere
  <2>4. QED BY <2>2, <2>3 DEF DataThere
<1>9. QED BY <1>6, <1>7, <1>8 DEF DataOK

\* The block layer writes a part.
LEMMA WriteSucceedsData ==
  ASSUME BlkTyped, BlkTyped', RequestsOK, DataOK, NEW w \in flight, WriteSucceeds(w)
  PROVE  DataOK'
<1>1. BeforeDone /\ DataComing /\ DataThere
  BY DEF DataOK
<1>2. /\ at = "idle" /\ w.op = "write" /\ flight' = flight \ {w} /\ multiwrite_cb(w.mcb, TRUE)
      /\ UNCHANGED <<shape, before, at, sub>>
  BY DEF WriteSucceeds, guest, handler
<1>3. PICK m : m = w.mcb
  OBVIOUS
<1>4. m \in 1 .. Len(mcbs) /\ w.first \in Nat /\ w.vals \in Seq(Writes)
  BY <1>2, <1>3, PartFields
<1>5. AllBatchesOK /\ KeptNow
  BY RequestsParts
<1>6. w \in PartsOf(m) /\ PartsOf(m)' = PartsOf(m) \ {w} /\ \A k : k # m => PartsOf(k)' = PartsOf(k)
  BY <1>2, <1>3 DEF PartsOf
<1>7. /\ IsFiniteSet(PartsOf(m) \ {w}) /\ Cardinality(PartsOf(m) \ {w}) \in Nat
      /\ Cardinality(PartsOf(m) \ {w}) <= mcbs[m].num - 1
      /\ mcbs[m].num \in Nat /\ mcbs[m].num >= 1 /\ ~mcbs[m].freed
  BY <1>4, <1>5, <1>6, PartsNumber
<1>8. (~mcbs[m].error => Pending(mcbs[m]) = Elements(mcbs[m].cbs)) /\ mcbs[m].cbs \in Seq(Gone)
      /\ Elements(mcbs[m].cbs) \subseteq Writes /\ (mcbs[m].error => Pending(mcbs[m]) = {})
  BY <1>4, <1>7, McbCbs, PendingIs
<1>9. ~mcbs[m].error => \A q \in Elements(mcbs[m].cbs) : used[q] = 0
  <2>1. 5 + m \in Nat /\ Held[5 + m] = Pending(mcbs[m])
    BY <1>4, HeldNow
  <2>2. QED BY <2>1, <1>5, <1>8 DEF KeptNow, Kept
<1>13. McbsSame /\ \A k \in 1 .. Len(mcbs) : k # m => mcbs'[k] = mcbs[k]
  BY <1>2, <1>3, <1>4, McbCounts
<1>14. (mcbs'[m].error <=> mcbs[m].error) /\ (mcbs'[m].freed <=> (mcbs[m].num - 1 = 0))
  BY <1>2, <1>3, <1>4, McbCounts
<1>23. ErrorsStay
  <2>1. Len(mcbs) \in Nat
    BY Lengths
  <2>2. QED BY <2>1, <1>13, <1>14 DEF ErrorsStay, McbsSame
<1>24. FailedOnce \subseteq FailedOnce'
  BY <1>23, FailedStay
<1>25. mcbs[m].error => Elements(mcbs[m].cbs) \subseteq FailedOnce'
  BY <1>4, <1>24, FailedAre
\* A sector that is written holds new data, the others what they held.
<1>10. ASSUME NEW x \in Sectors, NEW r \in 1 .. Len(shape), Spans(w, x) PROVE New(r, x)'
  <2>1. PICK j : j = x - w.first + 1
    OBVIOUS
  <2>2. x \in Int /\ j \in DOMAIN w.vals
    BY <2>1, <1>4, <1>10, VirtioBlkAssumption DEF Spans
  <2>3. w.vals[j] \in Writes /\ w.vals[j] \in Elements(mcbs[m].cbs)
    BY <2>1, <2>2, <1>2, <1>3, SectorWritten
  <2>4. disk'[x] = w.vals[j]
    BY <2>1, <2>2 DEF WriteSucceeds
  <2>5. w.vals[j] # Nobody /\ w.vals[j] \notin before[r] \ FailedOnce'
    <3>1. w.vals[j] # Nobody
      BY <2>3 DEF Writes, Gone, Nobody
    <3>2. CASE mcbs[m].error
      BY <3>1, <3>2, <2>3, <1>25
    <3>3. CASE ~mcbs[m].error
      <4>1. used[w.vals[j]] = 0
        BY <2>3, <3>3, <1>9
      <4>2. QED BY <3>1, <4>1, <1>1 DEF BeforeDone
    <3>4. QED BY <3>2, <3>3
  <2>6. QED BY <2>4, <2>5, <1>2 DEF New
<1>11. ASSUME NEW x \in Sectors, NEW r \in 1 .. Len(shape), New(r, x) PROVE New(r, x)'
  <2>1. CASE x - w.first + 1 \in DOMAIN w.vals
    <3>1. Spans(w, x)
      BY <2>1, <1>4, VirtioBlkAssumption DEF Spans
    <3>2. QED BY <3>1, <1>10
  <2>2. CASE x - w.first + 1 \notin DOMAIN w.vals
    BY <2>2, <1>2, <1>11, <1>24 DEF WriteSucceeds, New
  <2>3. QED BY <2>1, <2>2
<1>12. \A k \in 1 .. Len(mcbs) : \A r \in Pending(mcbs[k]) :
         r \in 1 .. Len(shape) /\ Op(r) = "write" /\ Covers(r) \subseteq Sectors
  <2> SUFFICES ASSUME NEW k \in 1 .. Len(mcbs), NEW r \in Pending(mcbs[k])
               PROVE  r \in 1 .. Len(shape) /\ Op(r) = "write" /\ Covers(r) \subseteq Sectors
    OBVIOUS
  <2>1. mcbs[k] \in Mcbs(Writes) /\ Elements(mcbs[k].cbs) \subseteq Writes
    BY McbCbs
  <2>2. r \in Writes
    BY <2>1, PendingIs
  <2>3. r \in 1 .. Len(shape) /\ Op(r) = "write"
    BY <2>2, GuestFacts DEF Writes, BlkTyped
  <2>4. QED BY <2>3, GuestFacts DEF BlkTyped
<1>15. \A k \in 1 .. Len(mcbs) : Pending(mcbs'[k]) \subseteq Pending(mcbs[k])
  <2> SUFFICES ASSUME NEW k \in 1 .. Len(mcbs) PROVE Pending(mcbs'[k]) \subseteq Pending(mcbs[k])
    OBVIOUS
  <2>1. CASE k = m
    BY <2>1, <1>7, <1>13, <1>14 DEF Pending, McbsSame
  <2>2. CASE k # m
    BY <2>2, <1>13
  <2>3. QED BY <2>1, <2>2
<1>16. DataComing'
  <2> SUFFICES ASSUME NEW k \in 1 .. Len(mcbs), NEW r \in Pending(mcbs'[k]), NEW x \in Covers(r)
               PROVE  OnItsWay(k, x)' \/ New(r, x)'
    BY <1>2, <1>13, CoversSame DEF DataComing, McbsSame
  <2>1. r \in Pending(mcbs[k]) /\ r \in 1 .. Len(shape) /\ x \in Sectors
    BY <1>12, <1>15
  <2>2. OnItsWay(k, x) \/ New(r, x)
    BY <2>1, <1>1 DEF DataComing
  <2>3. CASE New(r, x)
    BY <2>1, <2>3, <1>11
  <2>4. CASE OnItsWay(k, x)
    <3>1. PICK v \in PartsOf(k) : Spans(v, x)
      BY <2>4, <1>2 DEF OnItsWay
    <3>2. CASE v = w
      BY <3>1, <3>2, <2>1, <1>10
    <3>3. CASE v # w
      BY <3>1, <3>3, <1>6 DEF OnItsWay
    <3>4. QED BY <3>2, <3>3
  <2>5. QED BY <2>2, <2>3, <2>4
\* Completions.
<1>17. \/ UNCHANGED <<used, status>>
       \/ ~mcbs[m].error /\ mcbs[m].num - 1 = 0 /\ Finishes(Elements(mcbs[m].cbs), TRUE)
  <2>1. CASE ~mcbs[m].error /\ mcbs[m].num - 1 = 0
    <3>1. virtio_blk_rw_complete(mcbs[m].cbs, TRUE)
      BY <2>1, <1>2, <1>3, <1>7 DEF multiwrite_cb
    <3>2. QED BY <2>1, <3>1, <1>8, RwCases
  <2>2. CASE mcbs[m].error \/ mcbs[m].num - 1 # 0
    BY <2>2, <1>2, <1>3 DEF multiwrite_cb, NothingCompleted, done
  <2>3. QED BY <2>1, <2>2
<1>18. used \in [Req -> Nat]
  BY Lengths
<1>19. \A q \in Req : (used[q] > 0 => used'[q] > 0)
                      /\ (status'[q] = "ok" => used'[q] > 0)
  <2>1. CASE UNCHANGED <<used, status>>
    BY <2>1, <1>1 DEF DataThere
  <2>2. CASE Finishes(Elements(mcbs[m].cbs), TRUE)
    <3>1. \A q \in Req : /\ q \in Elements(mcbs[m].cbs) => used'[q] > 0
                         /\ q \notin Elements(mcbs[m].cbs) => used'[q] = used[q] /\ status'[q] = status[q]
      BY <2>2, <1>18 DEF Finishes
    <3>2. QED BY <3>1, <1>1 DEF DataThere
  <2>3. QED BY <2>1, <2>2, <1>17
<1>20. BeforeDone'
  <2> SUFFICES ASSUME NEW r \in 1 .. Len(shape), NEW q \in before[r] PROVE used'[q] > 0
    BY <1>2 DEF BeforeDone
  <2>1. q \in Req
    BY DEF BlkTyped, GuestTyped
  <2>2. QED BY <2>1, <1>1, <1>19 DEF BeforeDone
<1>21. DataThere'
  <2>1. ASSUME NEW r \in 1 .. Len(shape), status'[r] = "ok", Op(r) = "write", NEW x \in Covers(r)
        PROVE  New(r, x)'
    <3>1. r \in Req /\ x \in Sectors
      BY <2>1, GuestFacts DEF BlkTyped
    <3>2. CASE status[r] = "ok"
      <4>1. New(r, x)
        BY <3>2, <2>1, <1>1 DEF DataThere
      <4>2. QED BY <4>1, <3>1, <1>11
    <3>3. CASE status[r] # "ok"
      <4>1. ~mcbs[m].error /\ mcbs[m].num - 1 = 0 /\ r \in Elements(mcbs[m].cbs)
        BY <3>1, <3>3, <2>1, <1>17 DEF Finishes
      <4>2. OnItsWay(m, x) \/ New(r, x)
        BY <4>1, <1>1, <1>4, <1>8, <2>1 DEF DataComing
      <4>3. PartsOf(m) \ {w} = {}
        <5>1. Cardinality(PartsOf(m) \ {w}) = 0
          BY <4>1, <1>7
        <5>2. QED BY <5>1, <1>7, FS_EmptySet
      <4>4. CASE New(r, x)
        BY <4>4, <3>1, <1>11
      <4>5. CASE OnItsWay(m, x)
        <5>1. Spans(w, x)
          BY <4>3, <4>5, <1>2 DEF OnItsWay
        <5>2. QED BY <5>1, <3>1, <1>10
      <4>6. QED BY <4>2, <4>4, <4>5
    <3>4. QED BY <3>2, <3>3
  <2>2. QED BY <2>1, <1>2, <1>19, CoversSame DEF DataThere
<1>22. QED BY <1>16, <1>20, <1>21 DEF DataOK

LEMMA InitData ==
  ASSUME Init
  PROVE  DataOK
<1>1. /\ shape = <<>> /\ mcbs = <<>> /\ Len(shape) = 0 /\ Len(mcbs) = 0
      /\ status = [r \in Req |-> "none"]
  BY DEF Init
<1>2. QED BY <1>1 DEF DataOK, BeforeDone, DataComing, DataThere

LEMMA NextData ==
  ASSUME BlkTyped, BlkTyped', RequestsOK, DataHypothesis, DataOK, setup' = setup, Next
  PROVE  DataOK'
<1>1. NotNested /\ Honest /\ Tolerated /\ KeptNow
  BY RequestsParts DEF DataHypothesis
<1>2. CASE Handler
  <2>1. CASE \E r \in Req : \/ virtio_blk_handle_write(r) \/ virtio_blk_handle_read(r)
                            \/ ReadRefused(r) \/ virtio_blk_handle_flush(r) \/ FlushRefused(r)
    BY <2>1, <1>1, LoopStepsData, ReadRefusedData, FlushRefusedData
  <2>2. CASE BatchRefused \/ PartRefused \/ PartFailsAtOnce
    BY <2>2, <1>1, BatchRefusedData, PartRefusedNever, PartFailsAtOnceData
  <2>3. CASE StartMultiwrite \/ PartTaken \/ AllSubmitted \/ LoopEnds
    BY <2>3, <1>1, StartData, PartTakenData, LoopStepsData
  <2>4. QED BY <1>2, <2>1, <2>2, <2>3 DEF Handler
<1>3. CASE \E w \in flight : Answer(w)
  BY <1>3, <1>1, WriteSucceedsData, WriteFailsData, OtherAnswerData DEF Answer
<1>4. CASE \E sh \in Shapes : Submit(sh)
  BY <1>4, <1>1, SubmitData
<1>5. CASE Notify \/ virtio_blk_dma_restart_bh \/ Cont \/ Migrate
  BY <1>5, LoopStepsData
<1>6. QED BY <1>2, <1>3, <1>4, <1>5 DEF Next

LEMMA StutterData ==
  ASSUME BlkTyped, BlkTyped', DataOK, UNCHANGED <<vars, setup>>
  PROVE  DataOK'
<1>1. UNCHANGED <<shape, before, disk, mcbs, sub, used, status, flight, at>>
  BY DEF vars, guest, done, handler
<1>2. NoWriteDone
  BY <1>1, NothingDone DEF DataOK
<1>3. QED BY <1>1, <1>2, LoopsData

\* The data reported as written is on the disk.
LEMMA StoredHolds ==
  ASSUME BlkTyped, DataOK
  PROVE  Stored
BY GuestFacts DEF BlkTyped, DataOK, DataThere, New, Stored

\* The writes collected come after the flushes in flight.
LEMMA FlushAfterWritesHolds ==
  ASSUME BlkTyped
  PROVE  FlushAfterWrites
<1> SUFFICES ASSUME at = "output", NEW w \in flight, w.op = "flush", NEW r \in 1 .. w.req - 1,
                    Contains(mrb, r)
             PROVE  FALSE
  BY DEF FlushAfterWrites
<1>1. mrb \in Seq(Writes)
  BY DEF BlkTyped, DeviceTyped
<1>2. r \in Elements(mrb)
  BY <1>1, InList
<1>3. w.req < r
  BY <1>2 DEF BlkTyped, FlushesFirst
<1>4. w.req \in Nat
  BY OtherFields DEF Gone
<1>5. QED BY <1>3, <1>4

-----------------------------------------------------------------------------
(***************************************************************************)
(* The invariant and the theorems.                                         *)
(***************************************************************************)
LEMMA InitInv == Init => BlkInv
BY InitTyped, InitRequests, InitData DEF BlkInv

LEMMA NextInv ==
  ASSUME BlkInv, [Next /\ UNCHANGED setup]_<<vars, setup>>
  PROVE  BlkInv'
<1>1. BlkTyped /\ (Tolerated => RequestsOK) /\ (DataHypothesis => DataOK)
  BY DEF BlkInv
<1>2. setup' = setup
  OBVIOUS
<1>3. Tolerated' = Tolerated /\ DataHypothesis' = DataHypothesis
  BY <1>2, SetupSame
<1>4. DataHypothesis => Tolerated
  BY DEF DataHypothesis
<1>5. CASE Next
  <2>1. BlkTyped'
    BY <1>1, <1>2, <1>5, NextTyped
  <2>2. Tolerated => RequestsOK'
    BY <1>1, <1>2, <1>5, <2>1, NextRequests
  <2>3. DataHypothesis => DataOK'
    BY <1>1, <1>2, <1>4, <1>5, <2>1, NextData
  <2>4. QED BY <1>3, <2>1, <2>2, <2>3 DEF BlkInv
<1>6. CASE UNCHANGED <<vars, setup>>
  <2>1. BlkTyped'
    BY <1>1, <1>6, StutterTyped
  <2>3. (Tolerated => RequestsOK') /\ (DataHypothesis => DataOK')
    BY <2>1, <1>1, <1>6, StutterRequests, StutterData
  <2>2. QED BY <1>3, <2>1, <2>3 DEF BlkInv
<1>7. QED BY <1>5, <1>6

\* The invariant holds of every machine the setups describe.
LEMMA BlkInvariant == Spec => []BlkInv
<1>1. QED BY InitInv, NextInv, PTL DEF Spec

\* Every request the guest has made is in one place of the device until it is
\* completed, and completed once: it is neither dropped nor answered twice
\* whichever way multiwrite_merge has joined it, whichever part is answered
\* first, whichever parts fail once they are in flight and however often
\* virtio_blk_dma_restart_bh issues it again; and no MultiwriteCB is freed before
\* its last part (multiwrite_cb, virtio_blk_rw_complete,
\* virtio_blk_handle_rw_error).  Tolerated leaves out parts refused in batches
\* of several requests or with the policy stop, and parts of several that fail
\* before bdrv_aio_writev returns; Accounted leaves out virtio_blk_load.
THEOREM BlkRequests == Spec => [](Tolerated => RequestsKept)
<1>1. BlkInv => (Tolerated => RequestsKept)
  BY RequestsKeptHolds DEF BlkInv
<1>2. QED BY <1>1, BlkInvariant, PTL

\* On every machine, also one whose batches fail in part, a sector holds only
\* data of a write that covers it, and a flush of virtio_blk_handle_output is
\* given to the block layer after the writes before it (multiwrite_merge,
\* virtio_blk_handle_flush).
THEOREM BlkWritten == Spec => [](OnlyWritten /\ FlushAfterWrites)
<1>1. BlkInv => OnlyWritten /\ FlushAfterWrites
  BY FlushAfterWritesHolds DEF BlkInv, BlkTyped
<1>2. QED BY <1>1, BlkInvariant, PTL

\* The data of a write that was reported as done is on the disk, or that of a
\* write not completed when it was made, or of one whose batch had failed:
\* multiwrite_cb gives a batch up at its first failed part, and the others may
\* land after everything that was issued again.  When no write lies within
\* another (multiwrite_merge drops the end of the outer one), the policy is not
\* to ignore errors (virtio_blk_handle_rw_error then reports them as successes),
\* and parts fail in flight, or are refused or fail at once as in Tolerated.
THEOREM BlkData == Spec => [](NotNested /\ Honest => DataRight)
<1>1. BlkInv => (NotNested /\ Honest => DataRight)
  <2> SUFFICES ASSUME BlkInv, NotNested, Honest PROVE DataRight
    OBVIOUS
  <2>1. BlkTyped /\ (DataHypothesis => DataOK)
    BY DEF BlkInv
  <2>2. Stored
    <3>1. CASE DataHypothesis
      BY <3>1, <2>1, StoredHolds
    <3>2. CASE ~DataHypothesis
      BY <3>2 DEF DataHypothesis, Stored
    <3>3. QED BY <3>1, <3>2
  <2>3. OnlyWritten /\ FlushAfterWrites
    BY <2>1, FlushAfterWritesHolds DEF BlkTyped
  <2>4. QED BY <2>2, <2>3 DEF DataRight
<1>2. QED BY <1>1, BlkInvariant, PTL
=============================================================================
