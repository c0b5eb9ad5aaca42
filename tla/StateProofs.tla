----------------------------- MODULE StateProofs -----------------------------
(***************************************************************************)
(* Theorems about the guest's state on its way to another host (Migration) *)
(* and in its disk image (Qcow2).  The handover is safe for any size of    *)
(* RAM, of the buffers and of the socket, any rate limit and any number of *)
(* migrations.  Whatever writes are in flight, fail, are cancelled or cut  *)
(* off by a crash, an image without snapshots reads right and its counts   *)
(* cover the references.                                                   *)
(***************************************************************************)
EXTENDS Migration, Qcow2, ListProofs, SequenceTheorems, FiniteSetTheorems, TLAPS

-----------------------------------------------------------------------------
(***************************************************************************)
(* Migration.                                                              *)
(***************************************************************************)
Streams == [err : BOOLEAN, freeze : BOOLEAN, xfer : Nat, buffer : Seq(Items),
            sock : Seq(Items), handler : {"none", "connect", "notify"}]

\* What is on the way to the peer, the next item to be read first.
Pipe(c, fb) == c.sock \o (c.buffer \o fb)

\* With the items of s read by a peer whose memory is g, page p has version v:
\* its last item has, or there is none and it has already.
UpToDate(s, g, p, v) ==
  /\ \A i \in 1 .. Len(s) :
       s[i].page = p /\ (\A j \in i + 1 .. Len(s) : s[j].page # p) => s[i].version = v
  /\ (\A i \in 1 .. Len(s) : s[i].page # p) => g[p] = v

Carries(s, g, m, d) == \A p \in Pages \ d : UpToDate(s, g, p, m[p])

HasDevice(s) == \E i \in 1 .. Len(s) : s[i].page = NPages

DeviceLast(s) == \A i \in 1 .. Len(s) : s[i].page = NPages => i = Len(s) /\ s[i] = Device

-----------------------------------------------------------------------------
(***************************************************************************)
(* The inductive invariant.                                                *)
(***************************************************************************)
Typed ==
  /\ TypeOK
  /\ ch \in Streams /\ got \in [Pages -> 0..MaxVersion]
  /\ result \in {"none", "error", "completed", "cancelled"}

\* Which stages go with which states: the guest is stopped from the last stage
\* on, for good once the migration completes.
Phases ==
  /\ pc \in {"start", "part", "end", "complete"} => file /\ result # "completed"
  /\ pc \in {"start", "part"} => vm
  /\ pc \in {"end", "complete"} => ~vm
  /\ pc = "closing" => file /\ f_buf = <<>> /\ result # "none"
  /\ file /\ pc # "closing" => state = "active"
  /\ ~file => f_buf = <<>>
  /\ timer => file
  /\ ch.handler = "connect" => pc = "idle" /\ state = "active" /\ ~file
  /\ ch.handler = "notify" => file
  /\ ~vm => pc \in {"end", "complete"} \/ result = "completed"
  /\ result = "completed" => ~vm /\ (pc = "closing" \/ (pc = "idle" /\ state # "active"))

\* Writes fail only when the peer is gone.
Broken == (ch.err => dead) /\ (file /\ f_err => dead) /\ (dst => ~dead)

Thaw == file /\ ch.freeze /\ ~ch.err => ch.handler = "notify"

\* The clean pages have arrived or are on their way, each with its last version;
\* the device state is sent when there are no others and the guest is stopped.
OnTheWay(s) ==
  /\ DeviceLast(s)
  /\ file \/ dst \/ HasDevice(s) => Carries(s, got, mem, dirty)
  /\ dst => s = <<>>
  /\ dst \/ HasDevice(s) => dirty = {} /\ ~vm /\ pc \in {"complete", "closing", "idle"}
Sent == ~dead => OnTheWay(Pipe(ch, f_buf))

MigInv == Typed /\ Phases /\ Broken /\ Thaw /\ Sent

-----------------------------------------------------------------------------
(***************************************************************************)
(* The stream loses nothing and reorders nothing.                          *)
(***************************************************************************)
LEMMA Constants ==
  /\ NPages \in Nat \ {0} /\ MaxVersion \in Nat /\ FBuf \in Nat \ {0}
  /\ SockRoom \in Nat \ {0} /\ Limit \in Nat /\ MaxMig \in Nat
BY MigrationAssumption

LEMMA Joined == \A s, t, u \in Seq(Items) : (s \o t) \o u = s \o (t \o u)
BY ConcatAssociative

LEMMA StreamType ==
  ASSUME NEW c \in Streams
  PROVE  /\ c.err \in BOOLEAN /\ c.freeze \in BOOLEAN /\ c.xfer \in Nat
         /\ c.buffer \in Seq(Items) /\ c.sock \in Seq(Items)
         /\ c.handler \in {"none", "connect", "notify"}
         /\ Len(c.sock) \in Nat /\ Len(c.buffer) \in Nat
BY LenProperties DEF Streams

\* A write splits its items in those the socket takes and the rest.
LEMMA WriteSplits ==
  ASSUME NEW c \in Streams, NEW x \in Seq(Items), Len(c.sock) <= SockRoom
  PROVE  /\ Write(c, x).sent \in Nat
         /\ Write(c, x).rest \in Seq(Items)
         /\ Write(c, x).sock \in Seq(Items) /\ Len(Write(c, x).sock) <= SockRoom
         /\ Write(c, x).sock \o Write(c, x).rest = c.sock \o x
<1> DEFINE n == Least(SockRoom - Len(c.sock), Len(x))
           a == SubSeq(x, 1, n)
           b == SubSeq(x, n + 1, Len(x))
<1>1. /\ c.sock \in Seq(Items) /\ Len(c.sock) \in Nat /\ Len(x) \in Nat
      /\ \A i \in 1 .. Len(x) : x[i] \in Items
  BY StreamType, ListType
<1>2. n \in 0 .. Len(x) /\ Len(c.sock) + n <= SockRoom
  <2>1. \A k, l, m \in Nat : l <= k => Least(k - l, m) \in 0 .. m /\ l + Least(k - l, m) <= k
    BY DEF Least
  <2>2. QED BY <1>1, <2>1, Constants
<1>3. Write(c, x).sent = n /\ Write(c, x).rest = b /\ Write(c, x).sock = c.sock \o a
  BY DEF Write
<1> HIDE DEF n
<1>4. a \in Seq(Items) /\ Len(a) = n
  <2>1. \A i \in 1 .. n : x[i] \in Items
    BY <1>1, <1>2
  <2>2. a \in Seq(Items) /\ Len(a) = IF 1 <= n THEN n - 1 + 1 ELSE 0
    BY <1>2, <2>1, SubSeqProperties
  <2>3. QED BY <1>2, <2>2
<1>5. b \in Seq(Items)
  <2>1. \A i \in n + 1 .. Len(x) : x[i] \in Items
    BY <1>1, <1>2
  <2>2. QED BY <1>1, <1>2, <2>1, SubSeqProperties
<1>6. a \o b = x
  <2>1. 1 \in 1 .. Len(x) + 1 /\ n \in 1 - 1 .. Len(x) /\ Len(x) \in n .. Len(x)
    BY <1>1, <1>2
  <2>2. a \o b = SubSeq(x, 1, Len(x))
    BY <2>1, ConcatAdjacentSubSeq
  <2>3. QED BY <2>2, SubSeqFull
<1> HIDE DEF a, b
<1>7. c.sock \o a \in Seq(Items) /\ Len(c.sock \o a) = Len(c.sock) + n
  BY <1>1, <1>4, ConcatProperties
<1>8. (c.sock \o a) \o b = c.sock \o x
  <2>1. (c.sock \o a) \o b = c.sock \o (a \o b)
    BY <1>1, <1>4, <1>5, Joined
  <2>2. QED BY <2>1, <1>6, Zenon
<1>9. QED BY <1>2, <1>3, <1>5, <1>7, <1>8

\* What a write keeps of the stream: d is c after it.
Kept(c, d) ==
  /\ d \in Streams /\ Len(d.sock) <= SockRoom
  /\ d.err => dead \/ c.err
  /\ d.handler = "connect" => c.handler = "connect"

LEMMA FlushKeeps ==
  ASSUME NEW c \in Streams, Len(c.sock) <= SockRoom, NEW fb \in Seq(Items), dead \in BOOLEAN
  PROVE  /\ Kept(c, buffered_flush(c))
         /\ buffered_flush(c).freeze => c.freeze \/ buffered_flush(c).handler = "notify"
         /\ c.handler = "notify" => buffered_flush(c).handler = "notify"
         /\ ~dead => Pipe(buffered_flush(c), fb) = Pipe(c, fb)
         /\ \/ buffered_flush(c).err \/ buffered_flush(c).freeze
            \/ buffered_flush(c).buffer = <<>>
<1>1. CASE c.err \/ c.buffer = <<>>
  <2>1. buffered_flush(c) = c
    BY <1>1 DEF buffered_flush
  <2>2. QED BY <1>1, <2>1 DEF Kept
<1>2. CASE ~(c.err \/ c.buffer = <<>>) /\ dead
  <2>1. buffered_flush(c) = [c EXCEPT !.err = TRUE]
    BY <1>2 DEF buffered_flush
  <2>2. QED BY <1>2, <2>1 DEF Kept, Streams
<1>3. CASE ~(c.err \/ c.buffer = <<>>) /\ ~dead
  <2> DEFINE w == Write(c, c.buffer)
             d == [c EXCEPT !.buffer = w.rest, !.sock = w.sock]
             e == [d EXCEPT !.freeze = TRUE, !.handler = "notify"]
  <2>1. /\ w.rest \in Seq(Items) /\ w.sock \in Seq(Items) /\ Len(w.sock) <= SockRoom
        /\ w.sock \o w.rest = c.sock \o c.buffer
    BY WriteSplits, StreamType
  <2>2. buffered_flush(c) = IF w.rest = <<>> THEN d ELSE e
    BY <1>3 DEF buffered_flush, Frozen
  <2> HIDE DEF w
  <2>3. d \in Streams /\ d.sock = w.sock /\ d.buffer = w.rest /\ d.err = c.err
        /\ d.handler = c.handler /\ d.freeze = c.freeze
    BY <2>1 DEF Streams
  <2>4. e \in Streams /\ e.sock = w.sock /\ e.buffer = w.rest /\ e.err = c.err
        /\ e.handler = "notify" /\ e.freeze = TRUE
    BY <2>1 DEF Streams
  <2> HIDE DEF d, e
  <2>5. w.sock \o (w.rest \o fb) = c.sock \o (c.buffer \o fb)
    <3>1. w.sock \o (w.rest \o fb) = (w.sock \o w.rest) \o fb
      BY <2>1, Joined
    <3>2. c.sock \o (c.buffer \o fb) = (c.sock \o c.buffer) \o fb
      <4>1. c.sock \in Seq(Items) /\ c.buffer \in Seq(Items)
        BY StreamType
      <4>2. QED BY <4>1, Joined
    <3>3. QED BY <2>1, <3>1, <3>2, Zenon
  <2>6. Kept(c, d) /\ Pipe(d, fb) = Pipe(c, fb) /\ (d.freeze => c.freeze)
    BY <2>1, <2>3, <2>5 DEF Kept, Pipe
  <2>7. Kept(c, e) /\ Pipe(e, fb) = Pipe(c, fb) /\ e.handler = "notify"
    BY <2>1, <2>4, <2>5 DEF Kept, Pipe
  <2>8. CASE w.rest = <<>>
    BY <2>2, <2>3, <2>6, <2>8
  <2>9. CASE w.rest # <<>>
    BY <2>2, <2>4, <2>7, <2>9
  <2>10. QED BY <2>8, <2>9
<1>4. QED BY <1>1, <1>2, <1>3

LEMMA LoopKeeps ==
  ASSUME NEW c \in Streams, Len(c.sock) <= SockRoom, NEW x \in Seq(Items), dead \in BOOLEAN,
         c.err => dead, c.freeze => c.handler = "notify",
         c.err \/ c.freeze \/ c.buffer = <<>>
  PROVE  /\ Kept(c, PutLoop(c, x).ch) /\ PutLoop(c, x).ok \in BOOLEAN
         /\ ~PutLoop(c, x).ok => dead
         /\ PutLoop(c, x).ch.freeze => PutLoop(c, x).ch.handler = "notify"
         /\ ~dead => Pipe(PutLoop(c, x).ch, <<>>) = Pipe(c, x)
<1>0. /\ c.buffer \in Seq(Items) /\ c.sock \in Seq(Items) /\ <<>> \in Seq(Items)
      /\ c.buffer \o x \in Seq(Items) /\ (c.buffer \o x) \o <<>> = c.buffer \o x
      /\ c.xfer \in Nat
  BY StreamType, ConcatProperties, ConcatEmptySeq, EmptySeq
<1>1. CASE c.freeze \/ x = <<>> \/ c.xfer > Limit
  <2> DEFINE d == [c EXCEPT !.buffer = @ \o x]
  <2>1. PutLoop(c, x) = [ch |-> d, ok |-> TRUE]
    BY <1>1 DEF PutLoop
  <2>2. /\ d \in Streams /\ d.sock = c.sock /\ d.buffer = c.buffer \o x /\ d.err = c.err
        /\ d.handler = c.handler /\ d.freeze = c.freeze
    BY <1>0 DEF Streams
  <2> HIDE DEF d
  <2>3. PutLoop(c, x).ch = d /\ PutLoop(c, x).ok = TRUE
    BY <2>1
  <2>4. Kept(c, d) /\ Pipe(d, <<>>) = Pipe(c, x) /\ (d.freeze => d.handler = "notify")
    BY <1>0, <2>2 DEF Kept, Pipe
  <2>5. QED BY <2>3, <2>4
<1>2. CASE ~(c.freeze \/ x = <<>> \/ c.xfer > Limit) /\ dead
  <2> DEFINE d == [c EXCEPT !.err = TRUE]
  <2>1. PutLoop(c, x) = [ch |-> d, ok |-> FALSE]
    BY <1>2 DEF PutLoop
  <2>2. d \in Streams /\ d.sock = c.sock /\ d.handler = c.handler /\ d.freeze = c.freeze
    BY DEF Streams
  <2> HIDE DEF d
  <2>3. PutLoop(c, x).ch = d /\ PutLoop(c, x).ok = FALSE
    BY <2>1
  <2>4. QED BY <1>2, <2>2, <2>3 DEF Kept
<1>3. CASE ~(c.freeze \/ x = <<>> \/ c.xfer > Limit) /\ ~dead
  <2> DEFINE w == Write(c, x)
             d == [c EXCEPT !.sock = w.sock, !.xfer = @ + w.sent, !.buffer = @ \o w.rest]
             e == [d EXCEPT !.freeze = TRUE, !.handler = "notify"]
  <2>0. c.buffer = <<>> => w.sock \o ((c.buffer \o w.rest) \o <<>>) = c.sock \o (c.buffer \o x)
    <3>1. /\ w.rest \in Seq(Items) /\ w.sock \o w.rest = c.sock \o x
      BY WriteSplits
    <3> HIDE DEF w
    <3>2. <<>> \o w.rest = w.rest /\ w.rest \o <<>> = w.rest /\ <<>> \o x = x
      BY <3>1, ConcatEmptySeq
    <3>3. QED BY <3>1, <3>2, Zenon
  <2>1. /\ w.rest \in Seq(Items) /\ w.sock \in Seq(Items) /\ Len(w.sock) <= SockRoom
        /\ w.sent \in Nat
    BY WriteSplits
  <2>2. PutLoop(c, x).ok = TRUE /\ PutLoop(c, x).ch \in {d, e}
    BY <1>3 DEF PutLoop, Frozen
  <2> HIDE DEF w
  <2>3. c.buffer \o w.rest \in Seq(Items) /\ c.xfer + w.sent \in Nat
    BY <1>0, <2>1, ConcatProperties
  <2>4. d \in Streams /\ d.sock = w.sock /\ d.buffer = c.buffer \o w.rest /\ d.err = c.err
        /\ d.handler = c.handler /\ d.freeze = c.freeze
    BY <2>1, <2>3 DEF Streams
  <2>5. e \in Streams /\ e.sock = w.sock /\ e.buffer = c.buffer \o w.rest /\ e.err = c.err
        /\ e.handler = "notify"
    BY <2>1, <2>3 DEF Streams
  <2> HIDE DEF d, e
  <2>6. Pipe(d, <<>>) = Pipe(c, x) /\ Pipe(e, <<>>) = Pipe(c, x)
    <3>1. c.buffer = <<>>
      BY <1>3
    <3>2. QED BY <3>1, <2>0, <2>4, <2>5 DEF Pipe
  <2>7. Kept(c, d) /\ ~d.freeze
    BY <1>3, <2>1, <2>4 DEF Kept
  <2>8. Kept(c, e) /\ e.handler = "notify"
    BY <2>1, <2>5 DEF Kept
  <2>9. QED BY <2>2, <2>6, <2>7, <2>8
<1>4. QED BY <1>1, <1>2, <1>3

LEMMA PutKeeps ==
  ASSUME NEW c \in Streams, Len(c.sock) <= SockRoom, NEW x \in Seq(Items), dead \in BOOLEAN,
         c.err => dead
  PROVE  /\ Kept(c, buffered_put_buffer(c, x).ch)
         /\ buffered_put_buffer(c, x).ok \in BOOLEAN
         /\ ~buffered_put_buffer(c, x).ok => dead
         /\ buffered_put_buffer(c, x).ch.freeze =>
              buffered_put_buffer(c, x).ch.handler = "notify" \/ buffered_put_buffer(c, x).ch.err
         /\ ~dead => Pipe(buffered_put_buffer(c, x).ch, <<>>) = Pipe(c, x)
<1>1. CASE c.err
  <2>1. buffered_put_buffer(c, x) = [ch |-> c, ok |-> FALSE]
    BY <1>1 DEF buffered_put_buffer
  <2>2. QED BY <1>1, <2>1 DEF Kept
<1>2. CASE ~c.err
  <2> DEFINE b == [c EXCEPT !.freeze = FALSE]
             d == buffered_flush(b)
  <2>1. buffered_put_buffer(c, x) = PutLoop(d, x)
    BY <1>2 DEF buffered_put_buffer
  <2>2. /\ b \in Streams /\ b.sock = c.sock /\ b.buffer = c.buffer /\ b.err = c.err
        /\ b.handler = c.handler /\ b.freeze = FALSE
    BY DEF Streams
  <2> HIDE DEF b
  <2>3. /\ Kept(b, d) /\ (d.freeze => d.handler = "notify")
        /\ (~dead => Pipe(d, x) = Pipe(b, x))
        /\ d.err \/ d.freeze \/ d.buffer = <<>>
    BY <2>2, FlushKeeps
  <2> HIDE DEF d
  <2>4. d \in Streams /\ Len(d.sock) <= SockRoom /\ (d.err => dead)
        /\ (d.handler = "connect" => c.handler = "connect")
    BY <1>2, <2>2, <2>3 DEF Kept
  <2>5. /\ Kept(d, PutLoop(d, x).ch) /\ PutLoop(d, x).ok \in BOOLEAN
        /\ ~PutLoop(d, x).ok => dead
        /\ PutLoop(d, x).ch.freeze => PutLoop(d, x).ch.handler = "notify"
        /\ ~dead => Pipe(PutLoop(d, x).ch, <<>>) = Pipe(d, x)
    BY <2>3, <2>4, LoopKeeps
  <2>6. Kept(c, PutLoop(d, x).ch)
    BY <2>4, <2>5 DEF Kept
  <2>7. Pipe(b, x) = Pipe(c, x)
    BY <2>2 DEF Pipe
  <2>8. QED BY <2>1, <2>3, <2>5, <2>6, <2>7
<1>3. QED BY <1>1, <1>2

-----------------------------------------------------------------------------
(***************************************************************************)
(* What is on the way, as items are added and read.                        *)
(***************************************************************************)
LEMMA PageSent ==
  ASSUME NEW s \in Seq(Items), NEW it \in Items, NEW g, NEW m, NEW d,
         Carries(s, g, m, d), it.page \in Pages, it.version = m[it.page], ~HasDevice(s)
  PROVE  /\ Carries(Append(s, it), g, m, d \ {it.page})
         /\ ~HasDevice(Append(s, it)) /\ DeviceLast(Append(s, it))
<1> DEFINE t == Append(s, it)
           l == Len(s)
<1>1. l \in Nat /\ t \in Seq(Items) /\ Len(t) = l + 1 /\ (\A n \in 1 .. l : t[n] = s[n]) /\ t[l + 1] = it
  BY Extended
<1>2. \A i \in 1 .. l + 1 : i \in 1 .. l \/ i = l + 1
  BY <1>1
<1>3. it.page # NPages
  BY Constants DEF Pages
<1>4. \A i \in 1 .. l : s[i].page # NPages
  BY DEF HasDevice
<1>5. ASSUME NEW p \in Pages \ d PROVE UpToDate(s, g, p, m[p])
  BY DEF Carries
<1> HIDE DEF t, l
<1>6. \A i \in 1 .. l + 1 : t[i].page # NPages
  BY <1>1, <1>2, <1>3, <1>4
<1>7. ASSUME NEW p \in Pages \ (d \ {it.page}) PROVE UpToDate(t, g, p, m[p])
  <2>1. CASE p = it.page
    <3>1. ASSUME NEW i \in 1 .. l, \A j \in i + 1 .. l + 1 : t[j].page # p PROVE FALSE
      <4>1. l + 1 \in i + 1 .. l + 1
        BY <1>1
      <4>2. QED BY <1>1, <2>1, <3>1, <4>1
    <3>2. l + 1 \in 1 .. l + 1
      BY <1>1
    <3>3. QED BY <1>1, <1>2, <2>1, <3>1, <3>2 DEF UpToDate
  <2>2. CASE p # it.page
    <3>1. UpToDate(s, g, p, m[p])
      BY <1>5, <2>2
    <3>2. ASSUME NEW i \in 1 .. l, t[i].page = p, \A j \in i + 1 .. l + 1 : t[j].page # p
          PROVE  t[i].version = m[p]
      <4>1. \A j \in i + 1 .. l : j \in i + 1 .. l + 1 /\ j \in 1 .. l
        BY <1>1
      <4>2. \A j \in i + 1 .. l : s[j].page # p
        BY <1>1, <3>2, <4>1
      <4>3. QED BY <1>1, <3>1, <3>2, <4>2 DEF UpToDate, l
    <3>3. ASSUME \A i \in 1 .. l + 1 : t[i].page # p PROVE g[p] = m[p]
      <4>1. \A i \in 1 .. l : i \in 1 .. l + 1
        BY <1>1
      <4>2. \A i \in 1 .. l : s[i].page # p
        BY <1>1, <3>3, <4>1
      <4>3. QED BY <3>1, <4>2 DEF UpToDate, l
    <3>4. QED BY <1>1, <1>2, <2>2, <3>2, <3>3 DEF UpToDate
  <2>3. QED BY <2>1, <2>2
<1>8. QED BY <1>1, <1>6, <1>7 DEF t, Carries, HasDevice, DeviceLast

LEMMA DeviceSent ==
  ASSUME NEW s \in Seq(Items), NEW g, NEW m, NEW d, Carries(s, g, m, d), ~HasDevice(s)
  PROVE  Carries(Append(s, Device), g, m, d) /\ DeviceLast(Append(s, Device))
<1> DEFINE t == Append(s, Device)
           l == Len(s)
<1>0. Device \in Items /\ Device.page = NPages
  BY Constants DEF Device, Items
<1>1. /\ l \in Nat /\ t \in Seq(Items) /\ Len(t) = l + 1 /\ (\A n \in 1 .. l : t[n] = s[n])
      /\ t[l + 1] = Device
  BY <1>0, Extended
<1>2. \A i \in 1 .. l + 1 : i \in 1 .. l \/ i = l + 1
  BY <1>1
<1>4. \A i \in 1 .. l : s[i].page # NPages
  BY DEF HasDevice
<1>5. ASSUME NEW p \in Pages \ d PROVE UpToDate(s, g, p, m[p])
  BY DEF Carries
<1> HIDE DEF t, l
<1>6. \A i \in 1 .. l + 1 : t[i].page = NPages => i = l + 1 /\ t[i] = Device
  BY <1>1, <1>2, <1>4
<1>7. ASSUME NEW p \in Pages \ d PROVE UpToDate(t, g, p, m[p])
  <2>1. p # NPages
    BY Constants DEF Pages
  <2>2. UpToDate(s, g, p, m[p])
    BY <1>5
  <2>3. ASSUME NEW i \in 1 .. l, t[i].page = p, \A j \in i + 1 .. l + 1 : t[j].page # p
        PROVE  t[i].version = m[p]
    <3>1. \A j \in i + 1 .. l : j \in i + 1 .. l + 1 /\ j \in 1 .. l
      BY <1>1
    <3>2. \A j \in i + 1 .. l : s[j].page # p
      BY <1>1, <2>3, <3>1
    <3>3. QED BY <1>1, <2>2, <2>3, <3>2 DEF UpToDate, l
  <2>4. ASSUME \A i \in 1 .. l + 1 : t[i].page # p PROVE g[p] = m[p]
    <3>1. \A i \in 1 .. l : i \in 1 .. l + 1
      BY <1>1
    <3>2. \A i \in 1 .. l : s[i].page # p
      BY <1>1, <2>4, <3>1
    <3>3. QED BY <2>2, <3>2 DEF UpToDate, l
  <2>5. QED BY <1>0, <1>1, <1>2, <2>1, <2>3, <2>4 DEF UpToDate
<1>8. QED BY <1>1, <1>6, <1>7 DEF t, Carries, DeviceLast

\* The peer reads the first item.
LEMMA ItemRead ==
  ASSUME NEW s \in Seq(Items), s # <<>>, DeviceLast(s),
         NEW g \in [Pages -> 0..MaxVersion], NEW m, NEW d
  PROVE  /\ Head(s) \in Items /\ DeviceLast(Tail(s))
         /\ HasDevice(Tail(s)) => HasDevice(s)
         /\ Head(s) = Device => /\ Tail(s) = <<>> /\ HasDevice(s)
                                /\ Carries(s, g, m, d) => Carries(Tail(s), g, m, d)
         /\ Head(s) # Device =>
              LET g2 == [g EXCEPT ![Head(s).page] = Head(s).version]
              IN g2 \in [Pages -> 0..MaxVersion] /\ (Carries(s, g, m, d) => Carries(Tail(s), g2, m, d))
<1> DEFINE t == Tail(s)
           h == Head(s)
           l == Len(s)
           k == Len(t)
           g2 == [g EXCEPT ![h.page] = h.version]
<1>1. /\ l \in Nat /\ l >= 1 /\ t \in Seq(Items) /\ k = l - 1 /\ h \in Items /\ h = s[1]
      /\ \A i \in 1 .. k : t[i] = s[i + 1]
  BY HeadTailProperties, EmptySeq
<1>2. \A i \in 1 .. l : s[i].page = NPages => i = l /\ s[i] = Device
  BY DEF DeviceLast
<1>3. t = <<>> <=> k = 0
  BY <1>1, EmptySeq
<1>4. h.page \in 0 .. NPages /\ h.version \in 0 .. MaxVersion /\ Device.page = NPages
  BY <1>1 DEF Items, Device
<1> HIDE DEF t, h, l, k
<1>5. \A i \in 1 .. k : i + 1 \in 1 .. l /\ t[i] = s[i + 1] /\ i + 1 # 1
  BY <1>1
<1>6. ASSUME NEW i \in 1 .. k, t[i].page = NPages PROVE i = k /\ t[i] = Device
  <2>1. i + 1 = l /\ s[i + 1] = Device
    BY <1>2, <1>5, <1>6
  <2>2. QED BY <1>1, <1>5, <2>1
<1>7. DeviceLast(t) /\ (HasDevice(t) => HasDevice(s))
  BY <1>5, <1>6 DEF DeviceLast, HasDevice, k, l
<1>8. 1 \in 1 .. l
  BY <1>1
<1>9. ASSUME NEW p \in Pages, UpToDate(s, g, p, m[p]), NEW f, f[p] = IF h.page = p THEN h.version ELSE g[p]
      PROVE  UpToDate(t, f, p, m[p])
  <2>1. ASSUME NEW i \in 1 .. k, t[i].page = p, \A j \in i + 1 .. k : t[j].page # p
        PROVE  t[i].version = m[p]
    <3>1. \A j \in (i + 1) + 1 .. l : j - 1 \in i + 1 .. k /\ j - 1 \in 1 .. k /\ (j - 1) + 1 = j
      BY <1>1
    <3>2. \A j \in (i + 1) + 1 .. l : s[j].page # p
      BY <1>5, <2>1, <3>1
    <3>3. QED BY <1>5, <1>9, <2>1, <3>2 DEF UpToDate, l
  <2>2. ASSUME \A i \in 1 .. k : t[i].page # p PROVE f[p] = m[p]
    <3>1. \A j \in 1 + 1 .. l : j - 1 \in 1 .. k /\ (j - 1) + 1 = j
      BY <1>1
    <3>2. \A j \in 1 + 1 .. l : s[j].page # p
      BY <1>5, <2>2, <3>1
    <3>3. CASE h.page = p
      <4>1. s[1].version = m[p]
        BY <1>1, <1>8, <1>9, <3>2, <3>3 DEF UpToDate, l
      <4>2. QED BY <1>1, <1>9, <3>3, <4>1
    <3>4. CASE h.page # p
      <4>1. \A j \in 1 .. l : j = 1 \/ j \in 1 + 1 .. l
        BY <1>1
      <4>2. \A j \in 1 .. l : s[j].page # p
        BY <1>1, <3>2, <3>4, <4>1
      <4>3. QED BY <1>9, <3>4, <4>2 DEF UpToDate, l
    <3>5. QED BY <3>3, <3>4
  <2>3. QED BY <2>1, <2>2 DEF UpToDate, k
<1>10. ASSUME h = Device
       PROVE t = <<>> /\ HasDevice(s) /\ (Carries(s, g, m, d) => Carries(t, g, m, d))
  <2>1. h.page = NPages
    BY <1>4, <1>10
  <2>2. l = 1
    BY <1>1, <1>2, <1>8, <2>1
  <2>3. \A p \in Pages : h.page # p
    BY <2>1, Constants DEF Pages
  <2>4. HasDevice(s)
    BY <1>1, <1>8, <2>1 DEF HasDevice, l
  <2>5. QED BY <1>1, <1>3, <1>9, <2>2, <2>3, <2>4 DEF Carries
<1>11. ASSUME h # Device
       PROVE g2 \in [Pages -> 0..MaxVersion] /\ (Carries(s, g, m, d) => Carries(t, g2, m, d))
  <2>1. h.page # NPages
    BY <1>1, <1>2, <1>8, <1>11
  <2>2. h.page \in Pages
    BY <1>4, <2>1, Constants DEF Pages
  <2>3. g2 \in [Pages -> 0..MaxVersion]
    BY <1>4, <2>2
  <2>4. \A p \in Pages : g2[p] = IF h.page = p THEN h.version ELSE g[p]
    BY <2>2
  <2> HIDE DEF g2
  <2>5. QED BY <1>9, <2>3, <2>4 DEF Carries
<1>12. QED BY <1>1, <1>7, <1>10, <1>11 DEF t, h

LEMMA PipeRead ==
  ASSUME NEW c \in Streams, c.sock # <<>>, NEW fb \in Seq(Items)
  PROVE  /\ Pipe(c, fb) \in Seq(Items) /\ Pipe(c, fb) # <<>>
         /\ Head(Pipe(c, fb)) = Head(c.sock)
         /\ Pipe([c EXCEPT !.sock = Tail(@)], fb) = Tail(Pipe(c, fb))
<1> DEFINE a == c.sock
           b == c.buffer \o fb
           d == [c EXCEPT !.sock = Tail(@)]
<1>1. a \in Seq(Items) /\ b \in Seq(Items) /\ a # <<>>
  BY StreamType, ConcatProperties
<1>2. d.sock = Tail(a) /\ d.buffer = c.buffer
  BY DEF Streams
<1>3. Pipe(c, fb) = a \o b /\ Pipe(d, fb) = Tail(a) \o b
  BY <1>2 DEF Pipe
<1> HIDE DEF a, b, d
<1>4. /\ Len(a) \in Nat /\ Len(a) >= 1 /\ Len(b) \in Nat /\ Tail(a) \in Seq(Items)
      /\ Len(Tail(a)) = Len(a) - 1 /\ Head(a) = a[1]
      /\ \A i \in 1 .. Len(Tail(a)) : Tail(a)[i] = a[i + 1]
  BY <1>1, HeadTailProperties, EmptySeq, LenProperties
<1>5. /\ a \o b \in Seq(Items) /\ Len(a \o b) = Len(a) + Len(b)
      /\ \A i \in 1 .. Len(a) + Len(b) : (a \o b)[i] = IF i <= Len(a) THEN a[i] ELSE b[i - Len(a)]
  BY <1>1, ConcatProperties
<1>6. /\ Tail(a) \o b \in Seq(Items) /\ Len(Tail(a) \o b) = Len(a) - 1 + Len(b)
      /\ \A i \in 1 .. Len(a) - 1 + Len(b) :
           (Tail(a) \o b)[i] = IF i <= Len(a) - 1 THEN Tail(a)[i] ELSE b[i - (Len(a) - 1)]
  BY <1>1, <1>4, ConcatProperties
<1>7. a \o b # <<>>
  BY <1>4, <1>5, EmptySeq
<1>8. /\ Head(a \o b) = (a \o b)[1] /\ Tail(a \o b) \in Seq(Items)
      /\ Len(Tail(a \o b)) = Len(a) + Len(b) - 1
      /\ \A i \in 1 .. Len(a) + Len(b) - 1 : Tail(a \o b)[i] = (a \o b)[i + 1]
  BY <1>5, <1>7, HeadTailProperties
<1> DEFINE u == Tail(a \o b)
           v == Tail(a) \o b
<1>9. Len(u) = Len(v)
  BY <1>4, <1>6, <1>8
<1>10. ASSUME NEW i \in 1 .. Len(u) PROVE u[i] = v[i]
  <2>1. /\ i \in 1 .. Len(a) + Len(b) - 1 /\ i \in 1 .. Len(a) - 1 + Len(b)
        /\ i + 1 \in 1 .. Len(a) + Len(b)
    BY <1>4, <1>8
  <2>2. u[i] = IF i + 1 <= Len(a) THEN a[i + 1] ELSE b[(i + 1) - Len(a)]
    BY <1>5, <1>8, <2>1
  <2>3. v[i] = IF i <= Len(a) - 1 THEN Tail(a)[i] ELSE b[i - (Len(a) - 1)]
    BY <1>6, <2>1
  <2>4. i + 1 <= Len(a) <=> i <= Len(a) - 1
    BY <1>4, <2>1
  <2>5. (i + 1) - Len(a) = i - (Len(a) - 1)
    BY <1>4, <2>1
  <2>6. i <= Len(a) - 1 => Tail(a)[i] = a[i + 1]
    BY <1>4, <2>1
  <2>7. QED BY <2>2, <2>3, <2>4, <2>5, <2>6, Zenon
<1>11. u = v
  BY <1>6, <1>8, <1>9, <1>10, SeqEqual
<1>12. Head(a \o b) = Head(a)
  BY <1>4, <1>5, <1>8
<1>13. QED BY <1>3, <1>5, <1>7, <1>11, <1>12 DEF a, b, d

-----------------------------------------------------------------------------
(***************************************************************************)
(* QEMUFile.                                                               *)
(***************************************************************************)

\* The file and the stream after the items of the buffer are fb.
Wrote(fb) ==
  /\ ch' \in Streams /\ Len(ch'.sock) <= SockRoom /\ ch'.handler # "connect"
  /\ f_buf' \in Seq(Items) /\ Len(f_buf') < FBuf /\ f_err' \in BOOLEAN
  /\ (ch'.err => dead) /\ (f_err' => dead)
  /\ (ch'.freeze /\ ~ch'.err => ch'.handler = "notify")
  /\ ~dead => Pipe(ch', f_buf') = Pipe(ch, fb)

\* The file is open and the stream in order.
Open == Typed /\ Broken /\ Thaw /\ file /\ ch.handler # "connect"

LEMMA Flushes ==
  ASSUME Open, NEW fb \in Seq(Items), qemu_fflush(fb)
  PROVE  Wrote(fb) /\ f_buf' = <<>>
<1>1. /\ ch \in Streams /\ Len(ch.sock) <= SockRoom /\ dead \in BOOLEAN /\ f_err \in BOOLEAN
      /\ (ch.err => dead) /\ (f_err => dead) /\ ch.handler # "connect"
      /\ (ch.freeze /\ ~ch.err => ch.handler = "notify")
  BY DEF Open, Typed, TypeOK, Broken, Thaw
<1>2. f_buf' = <<>> /\ <<>> \in Seq(Items) /\ Len(<<>>) < FBuf
  BY Constants, EmptySeq DEF qemu_fflush
<1>3. CASE fb = <<>>
  <2>1. ch' = ch /\ f_err' = f_err
    BY <1>3 DEF qemu_fflush
  <2>2. QED BY <1>1, <1>2, <1>3, <2>1 DEF Wrote
<1>4. CASE fb # <<>>
  <2> DEFINE r == buffered_put_buffer(ch, fb)
  <2>1. ch' = r.ch /\ f_err' = (f_err \/ ~r.ok)
    BY <1>4 DEF qemu_fflush
  <2>2. /\ Kept(ch, r.ch) /\ r.ok \in BOOLEAN /\ (~r.ok => dead)
        /\ (r.ch.freeze => r.ch.handler = "notify" \/ r.ch.err)
        /\ (~dead => Pipe(r.ch, <<>>) = Pipe(ch, fb))
    BY <1>1, PutKeeps
  <2> HIDE DEF r
  <2>3. /\ ch' \in Streams /\ Len(ch'.sock) <= SockRoom /\ ch'.handler # "connect"
        /\ (ch'.err => dead)
    BY <1>1, <2>1, <2>2 DEF Kept
  <2>4. f_err' \in BOOLEAN
    BY <1>1, <2>1, <2>2, Zenon
  <2>5. f_err' => dead
    BY <1>1, <2>1, <2>2, Zenon
  <2>6. ~dead => Pipe(ch', f_buf') = Pipe(ch, fb)
    BY <1>2, <2>1, <2>2
  <2>7. ch'.freeze /\ ~ch'.err => ch'.handler = "notify"
    BY <2>1, <2>2
  <2>8. QED BY <1>2, <2>3, <2>4, <2>5, <2>6, <2>7 DEF Wrote
<1>5. QED BY <1>3, <1>4

LEMMA PipeType ==
  ASSUME NEW c \in Streams, NEW fb \in Seq(Items), NEW it \in Items
  PROVE  /\ Pipe(c, fb) \in Seq(Items)
         /\ Append(fb, it) \in Seq(Items)
         /\ Pipe(c, Append(fb, it)) = Append(Pipe(c, fb), it)
<1> DEFINE a == c.sock
           b == c.buffer
           i == <<it>>
<1>1. a \in Seq(Items) /\ b \in Seq(Items) /\ i \in Seq(Items)
  BY StreamType
<1>2. b \o fb \in Seq(Items) /\ a \o (b \o fb) \in Seq(Items)
  BY <1>1, ConcatProperties
<1>3. Append(fb, it) = fb \o i /\ Append(a \o (b \o fb), it) = (a \o (b \o fb)) \o i
  BY <1>2, AppendIsConcat
<1>4. Append(fb, it) \in Seq(Items)
  BY AppendProperties
<1> HIDE DEF a, b, i
<1>5. (a \o (b \o fb)) \o i = a \o ((b \o fb) \o i)
  <2>1. \A t, u \in Seq(Items) : (a \o t) \o u = a \o (t \o u)
    BY <1>1, Joined, Zenon
  <2>2. \A u \in Seq(Items) : (a \o (b \o fb)) \o u = a \o ((b \o fb) \o u)
    BY <1>2, <2>1, Zenon
  <2>3. QED BY <1>1, <2>2, Zenon
<1>6. (b \o fb) \o i = b \o (fb \o i)
  BY <1>1, Joined, Zenon
<1>7. Append(a \o (b \o fb), it) = a \o (b \o Append(fb, it))
  BY <1>3, <1>5, <1>6, Zenon
<1>8. QED BY <1>2, <1>4, <1>7 DEF Pipe, a, b

LEMMA Puts ==
  ASSUME Open, NEW it \in Items, Put(it)
  PROVE  Wrote(Append(f_buf, it))
<1> DEFINE fb == IF f_err THEN f_buf ELSE Append(f_buf, it)
<1>1. /\ ch \in Streams /\ Len(ch.sock) <= SockRoom /\ dead \in BOOLEAN /\ f_err \in BOOLEAN
      /\ (ch.err => dead) /\ (f_err => dead) /\ ch.handler # "connect"
      /\ (ch.freeze /\ ~ch.err => ch.handler = "notify") /\ f_buf \in Seq(Items)
  BY DEF Open, Typed, TypeOK, Broken, Thaw
<1>2. fb \in Seq(Items)
  BY <1>1, PipeType
<1>3. ~dead => fb = Append(f_buf, it)
  BY <1>1
<1>4. CASE Len(fb) >= FBuf
  <2>1. qemu_fflush(fb)
    BY <1>4 DEF Put
  <2> HIDE DEF fb
  <2>2. Wrote(fb)
    BY <1>2, <2>1, Flushes
  <2>3. QED BY <1>3, <2>2 DEF Wrote
<1>5. CASE ~(Len(fb) >= FBuf)
  <2>1. f_buf' = fb /\ ch' = ch /\ f_err' = f_err
    BY <1>5 DEF Put
  <2> HIDE DEF fb
  <2>2. Len(fb) < FBuf
    BY <1>2, <1>5, LenProperties, Constants
  <2>3. QED BY <1>1, <1>2, <1>3, <2>1, <2>2 DEF Wrote
<1>6. QED BY <1>4, <1>5

LEMMA NextDirtyFound ==
  ASSUME Typed, dirty # {}
  PROVE  NextDirty \in dirty /\ NextDirty \in Pages
<1> DEFINE f(p) == (p - current_addr + NPages) % NPages
           S == {f(p) : p \in dirty}
<1>1. dirty \subseteq Pages /\ current_addr \in Pages
  BY DEF Typed, TypeOK
<1>2. \A p \in dirty : f(p) \in Nat
  BY <1>1, Constants DEF Pages
<1>3. PICK x \in S : \A y \in S : x <= y
  <2>1. S \in SUBSET Nat /\ S # {}
    BY <1>2
  <2> HIDE DEF S
  <2>2. QED BY <2>1, LeastOf
<1>4. PICK p \in dirty : x = f(p)
  OBVIOUS
<1>5. \A q \in dirty : f(p) <= f(q)
  BY <1>3, <1>4
<1>6. QED BY <1>1, <1>4, <1>5 DEF NextDirty

-----------------------------------------------------------------------------
(***************************************************************************)
(* The steps keep the invariant.                                           *)
(***************************************************************************)
LEMMA Opened ==
  ASSUME MigInv, file
  PROVE  Open
BY DEF MigInv, Phases, Open

\* What a write leaves to show.
LEMMA AfterWrite ==
  ASSUME MigInv, NEW fb, Wrote(fb), file, file' = file, dead' = dead, dst' = dst
  PROVE  Broken' /\ Thaw' /\ (~dead => Pipe(ch, f_buf)' = Pipe(ch, fb))
BY DEF MigInv, Broken, Thaw, Wrote

LEMMA StepSaveBlock ==
  ASSUME MigInv, ram_save_block
  PROVE  MigInv'
<1> DEFINE it == [page |-> NextDirty, version |-> mem[NextDirty]]
<1>1. /\ pc \in {"start", "part", "end"} /\ dirty # {} /\ current_addr' = NextDirty
      /\ dirty' = dirty \ {NextDirty} /\ Put(it)
      /\ UNCHANGED <<mem, vm, state, suspended, result, migrations, pc, file, timer, dead, got, dst>>
  BY DEF ram_save_block, mig, peer
<1>2. file
  BY <1>1 DEF MigInv, Phases
<1>3. NextDirty \in dirty /\ NextDirty \in Pages
  BY <1>1, NextDirtyFound DEF MigInv
<1>4. it \in Items /\ it.page = NextDirty /\ it.version = mem[NextDirty]
  BY <1>3, Constants DEF MigInv, Typed, TypeOK, Items, Pages
<1> HIDE DEF it
<1>5. Open
  BY <1>2, Opened
<1>6. Wrote(Append(f_buf, it))
  BY <1>1, <1>4, <1>5, Puts
<1>7. ch \in Streams /\ f_buf \in Seq(Items)
  BY DEF MigInv, Typed, TypeOK
<1>8. /\ Pipe(ch, f_buf) \in Seq(Items)
      /\ Pipe(ch, Append(f_buf, it)) = Append(Pipe(ch, f_buf), it)
  BY <1>4, <1>7, PipeType
<1>9. Broken' /\ Thaw' /\ (~dead => Pipe(ch, f_buf)' = Append(Pipe(ch, f_buf), it))
  BY <1>1, <1>2, <1>6, <1>8, AfterWrite
<1>10. Typed'
  BY <1>1, <1>3, <1>6 DEF MigInv, Typed, TypeOK, Wrote, Streams
<1>11. Phases'
  BY <1>1, <1>2, <1>6 DEF MigInv, Phases, Wrote
<1>12. Sent'
  <2> SUFFICES ASSUME ~dead PROVE OnTheWay(Pipe(ch, f_buf))'
    BY <1>1 DEF Sent
  <2> DEFINE s == Pipe(ch, f_buf)
  <2>1. OnTheWay(s)
    BY DEF MigInv, Sent
  <2>2. ~dst /\ ~HasDevice(s) /\ Carries(s, got, mem, dirty)
    BY <1>1, <1>2, <2>1 DEF OnTheWay
  <2>3. s \in Seq(Items)
    BY <1>8
  <2> HIDE DEF s
  <2>4. /\ Carries(Append(s, it), got, mem, dirty \ {it.page})
        /\ ~HasDevice(Append(s, it)) /\ DeviceLast(Append(s, it))
    BY <1>3, <1>4, <2>2, <2>3, PageSent
  <2>5. Pipe(ch, f_buf)' = Append(s, it)
    BY <1>9 DEF s
  <2>6. /\ DeviceLast(Pipe(ch, f_buf)') /\ ~HasDevice(Pipe(ch, f_buf)') /\ ~dst'
        /\ Carries(Pipe(ch, f_buf)', got', mem', dirty')
    BY <1>1, <1>4, <2>2, <2>4, <2>5
  <2>7. QED BY <2>6 DEF OnTheWay, DeviceLast, HasDevice, Carries, UpToDate
<1>13. QED BY <1>9, <1>10, <1>11, <1>12 DEF MigInv

\* A flush of the file sends nothing new.
LEMMA SameOnTheWay ==
  ASSUME Sent, UNCHANGED <<dead, dst, got, mem, dirty>>,
         ~dead => Pipe(ch, f_buf)' = Pipe(ch, f_buf),
         file' => file, vm' => vm \/ dead,
         pc' \in {"complete", "closing", "idle"} \/ (pc \notin {"complete", "closing", "idle"})
  PROVE  Sent'
<1> SUFFICES ASSUME ~dead PROVE OnTheWay(Pipe(ch, f_buf))'
  BY DEF Sent
<1> DEFINE s == Pipe(ch, f_buf)
<1>1. OnTheWay(s)
  BY DEF Sent
<1>2. Pipe(ch, f_buf)' = s
  OBVIOUS
<1> HIDE DEF s
<1>3. /\ DeviceLast(Pipe(ch, f_buf)')
      /\ dst' => Pipe(ch, f_buf)' = <<>>
      /\ file' \/ dst' \/ HasDevice(Pipe(ch, f_buf)') => Carries(Pipe(ch, f_buf)', got', mem', dirty')
  BY <1>1, <1>2 DEF OnTheWay
<1>4. dst' \/ HasDevice(Pipe(ch, f_buf)') => dirty' = {} /\ ~vm' /\ pc' \in {"complete", "closing", "idle"}
  BY <1>1, <1>2 DEF OnTheWay
<1>5. QED BY <1>3, <1>4 DEF OnTheWay, DeviceLast, HasDevice, Carries, UpToDate

LEMMA StepCleanup ==
  ASSUME MigInv, file, NEW st \in {"error", "completed", "cancelled"}, Cleanup(st),
         UNCHANGED <<mem, dirty, current_addr, suspended, migrations, timer, dead, got, dst>>,
         state' \in {state, "error", "cancelled"}, vm' \in BOOLEAN, vm' => vm \/ dead,
         vm' <=> st # "completed"
  PROVE  MigInv'
<1>1. /\ qemu_fflush(f_buf) /\ pc' = "closing" /\ result' = st /\ file' = file
      /\ UNCHANGED <<mem, dirty, current_addr, suspended, migrations, timer, dead, got, dst>>
  BY DEF Cleanup
<1>2. ch \in Streams /\ f_buf \in Seq(Items)
  BY DEF MigInv, Typed, TypeOK
<1>3. Wrote(f_buf) /\ f_buf' = <<>>
  BY <1>1, <1>2, Opened, Flushes
<1>4. Broken' /\ Thaw' /\ (~dead => Pipe(ch, f_buf)' = Pipe(ch, f_buf))
  BY <1>1, <1>3, AfterWrite
<1>5. Typed'
  <2>1. vm' \in BOOLEAN /\ f_err' \in BOOLEAN /\ suspended' \in BOOLEAN /\ file' \in BOOLEAN
        /\ timer' \in BOOLEAN /\ dead' \in BOOLEAN /\ dst' \in BOOLEAN
    BY <1>1, <1>3 DEF MigInv, Typed, TypeOK, Wrote
  <2>2. QED BY <1>1, <1>3, <2>1 DEF MigInv, Typed, TypeOK, Wrote, Streams
<1>6. Phases'
  BY <1>1, <1>3 DEF MigInv, Phases, Wrote
<1>7. Sent'
  BY <1>1, <1>4, SameOnTheWay DEF MigInv
<1>8. QED BY <1>4, <1>5, <1>6, <1>7 DEF MigInv

LEMMA StepBegin ==
  ASSUME MigInv, BeginDone
  PROVE  MigInv'
<1>1. /\ pc = "start" /\ UNCHANGED <<mem, dirty, current_addr, vm, suspended, migrations, timer, dead, got, dst>>
  BY DEF BeginDone, ram, peer
<1>2. file /\ vm /\ vm \in BOOLEAN
  BY <1>1 DEF MigInv, Phases, Typed, TypeOK
<1>3. CASE f_err
  <2>1. Cleanup("error") /\ state' = "error"
    BY <1>3 DEF BeginDone
  <2>2. QED BY <1>1, <1>2, <2>1, StepCleanup
<1>4. CASE ~f_err
  <2>1. pc' = "part" /\ UNCHANGED <<state, result, file, f_buf, f_err, ch>>
    BY <1>4 DEF BeginDone, qfile
  <2>2. Typed' /\ Broken' /\ Thaw'
    BY <1>1, <2>1 DEF MigInv, Typed, TypeOK, Broken, Thaw
  <2>3. Phases'
    BY <1>1, <2>1 DEF MigInv, Phases
  <2>4. Sent'
    BY <1>1, <2>1, SameOnTheWay DEF MigInv
  <2>5. QED BY <2>2, <2>3, <2>4 DEF MigInv
<1>5. QED BY <1>3, <1>4

LEMMA StepIterate ==
  ASSUME MigInv, IterateDone
  PROVE  MigInv'
<1>1. PICK enough \in BOOLEAN :
        pc' = (IF enough THEN "end" ELSE "idle") /\ vm' = (vm /\ ~enough)
  BY DEF IterateDone
<1>2. /\ pc = "part"
      /\ UNCHANGED <<mem, dirty, current_addr, state, suspended, result, migrations, file, f_buf,
                     f_err, ch, timer, dead, got, dst>>
  BY DEF IterateDone, ram, mig, qfile, peer
<1>3. file /\ vm /\ vm \in BOOLEAN /\ result # "completed" /\ state = "active"
  BY <1>2 DEF MigInv, Phases, Typed, TypeOK
<1>4. vm' \in BOOLEAN /\ (vm' <=> ~enough) /\ (vm' => vm)
  BY <1>1, <1>3, Zenon
<1>5. Typed' /\ Broken' /\ Thaw'
  BY <1>1, <1>2, <1>4 DEF MigInv, Typed, TypeOK, Broken, Thaw
<1>6. Phases'
  BY <1>1, <1>2, <1>3, <1>4 DEF MigInv, Phases
<1>7. Sent'
  BY <1>2, <1>4, SameOnTheWay DEF MigInv
<1>8. QED BY <1>5, <1>6, <1>7 DEF MigInv

LEMMA StepDevices ==
  ASSUME MigInv, SaveDevices
  PROVE  MigInv'
<1>1. /\ pc = "end" /\ dirty = {} /\ Put(Device) /\ pc' = "complete"
      /\ UNCHANGED <<mem, dirty, current_addr, vm, state, suspended, result, migrations, file, timer,
                     dead, got, dst>>
  BY DEF SaveDevices, LoopEnds, ram, mig, peer
<1>2. file /\ ~vm
  BY <1>1 DEF MigInv, Phases
<1>3. Device \in Items
  BY Constants DEF Device, Items
<1>4. Open
  BY <1>2, Opened
<1>5. Wrote(Append(f_buf, Device))
  BY <1>1, <1>3, <1>4, Puts
<1>6. ch \in Streams /\ f_buf \in Seq(Items)
  BY DEF MigInv, Typed, TypeOK
<1>7. /\ Pipe(ch, f_buf) \in Seq(Items)
      /\ Pipe(ch, Append(f_buf, Device)) = Append(Pipe(ch, f_buf), Device)
  BY <1>3, <1>6, PipeType
<1>8. Broken' /\ Thaw' /\ (~dead => Pipe(ch, f_buf)' = Append(Pipe(ch, f_buf), Device))
  BY <1>1, <1>2, <1>5, <1>7, AfterWrite
<1>9. Typed'
  BY <1>1, <1>5 DEF MigInv, Typed, TypeOK, Wrote, Streams
<1>10. Phases'
  BY <1>1, <1>2, <1>5 DEF MigInv, Phases, Wrote
<1>11. Sent'
  <2> SUFFICES ASSUME ~dead PROVE OnTheWay(Pipe(ch, f_buf))'
    BY <1>1 DEF Sent
  <2> DEFINE s == Pipe(ch, f_buf)
  <2>1. OnTheWay(s)
    BY DEF MigInv, Sent
  <2>2. ~dst /\ ~HasDevice(s) /\ Carries(s, got, mem, dirty)
    BY <1>1, <1>2, <2>1 DEF OnTheWay
  <2>3. s \in Seq(Items)
    BY <1>7
  <2> HIDE DEF s
  <2>4. Carries(Append(s, Device), got, mem, dirty) /\ DeviceLast(Append(s, Device))
    BY <2>2, <2>3, DeviceSent
  <2>5. Pipe(ch, f_buf)' = Append(s, Device)
    BY <1>8 DEF s
  <2>6. /\ DeviceLast(Pipe(ch, f_buf)') /\ ~dst' /\ dirty' = {} /\ ~vm' /\ pc' = "complete"
        /\ Carries(Pipe(ch, f_buf)', got', mem', dirty')
    BY <1>1, <1>2, <2>2, <2>4, <2>5
  <2>7. QED BY <2>6 DEF OnTheWay, DeviceLast, HasDevice, Carries, UpToDate
<1>12. QED BY <1>8, <1>9, <1>10, <1>11 DEF MigInv

LEMMA StepComplete ==
  ASSUME MigInv, CompleteDone
  PROVE  MigInv'
<1>1. /\ pc = "complete" /\ vm' = f_err /\ Cleanup(IF f_err THEN "error" ELSE "completed")
      /\ UNCHANGED <<mem, dirty, current_addr, state, suspended, migrations, timer, dead, got, dst>>
  BY DEF CompleteDone, ram, peer
<1>2. file /\ ~vm /\ f_err \in BOOLEAN /\ (f_err => dead)
  BY <1>1 DEF MigInv, Phases, Typed, TypeOK, Broken
<1>3. CASE f_err
  <2>1. Cleanup("error") /\ vm'
    BY <1>1, <1>3
  <2>2. QED BY <1>1, <1>2, <1>3, <2>1, StepCleanup
<1>4. CASE ~f_err
  <2>1. Cleanup("completed") /\ ~vm'
    BY <1>1, <1>4
  <2>2. QED BY <1>1, <1>2, <1>4, <2>1, StepCleanup
<1>5. QED BY <1>3, <1>4

LEMMA StepClose ==
  ASSUME MigInv, buffered_close
  PROVE  MigInv'
<1>1. /\ pc = "closing"
      /\ UNCHANGED <<mem, dirty, current_addr, vm, result, migrations, f_buf, f_err, dead, got, dst>>
  BY DEF buffered_close, ram, peer
<1>2. file /\ f_buf = <<>> /\ result # "none" /\ ch.handler # "connect"
  BY <1>1 DEF MigInv, Phases
<1>3. /\ ch \in Streams /\ Len(ch.sock) <= SockRoom /\ dead \in BOOLEAN /\ f_buf \in Seq(Items)
      /\ (ch.err => dead) /\ (ch.freeze /\ ~ch.err => ch.handler = "notify")
  BY <1>2 DEF MigInv, Typed, TypeOK, Broken, Thaw
<1>4. CASE ~ch.err /\ ch.buffer # <<>>
  <2>1. ch' = buffered_flush(ch) /\ UNCHANGED <<pc, state, suspended, file, timer>>
    BY <1>4 DEF buffered_close
  <2>2. /\ Kept(ch, ch') /\ (ch'.freeze => ch.freeze \/ ch'.handler = "notify")
        /\ (ch.handler = "notify" => ch'.handler = "notify")
        /\ (~dead => Pipe(ch', f_buf) = Pipe(ch, f_buf))
    BY <1>3, <2>1, FlushKeeps
  <2>3. /\ ch' \in Streams /\ Len(ch'.sock) <= SockRoom /\ (ch'.err => dead)
        /\ ch'.handler # "connect" /\ (ch'.freeze /\ ~ch'.err => ch'.handler = "notify")
    BY <1>2, <1>3, <1>4, <2>2 DEF Kept
  <2>4. Typed'
    BY <1>1, <2>1, <2>3 DEF MigInv, Typed, TypeOK, Streams
  <2>5. Broken' /\ Thaw'
    BY <1>1, <2>1, <2>3 DEF MigInv, Broken, Thaw
  <2>6. Phases'
    BY <1>1, <2>1, <2>3 DEF MigInv, Phases
  <2>7. Sent'
    BY <1>1, <2>1, <2>2, SameOnTheWay DEF MigInv
  <2>8. QED BY <2>4, <2>5, <2>6, <2>7 DEF MigInv
<1>5. CASE ~(~ch.err /\ ch.buffer # <<>>)
  <2>1. /\ pc' = "idle" /\ state' = result /\ suspended' = FALSE /\ file' = FALSE /\ timer' = FALSE
        /\ ch' = [ch EXCEPT !.handler = "none"]
    BY <1>5 DEF buffered_close
  <2>2. /\ ch' \in Streams /\ ch'.sock = ch.sock /\ ch'.buffer = ch.buffer /\ ch'.err = ch.err
        /\ ch'.handler = "none"
    BY <1>3, <2>1 DEF Streams
  <2>3. Typed'
    BY <1>1, <1>2, <2>1, <2>2 DEF MigInv, Typed, TypeOK
  <2>4. Broken' /\ Thaw'
    BY <1>1, <2>1, <2>2 DEF MigInv, Broken, Thaw
  <2>5. Phases'
    BY <1>1, <1>2, <2>1, <2>2 DEF MigInv, Phases, Typed
  <2>6. Pipe(ch, f_buf)' = Pipe(ch, f_buf)
    BY <1>1, <2>2 DEF Pipe
  <2>7. Sent'
    BY <1>1, <2>1, <2>6, SameOnTheWay DEF MigInv
  <2>8. QED BY <2>3, <2>4, <2>5, <2>7 DEF MigInv
<1>6. QED BY <1>4, <1>5

\* A fresh stream carries nothing.
LEMMA Fresh ==
  /\ NewStream \in Streams /\ NewStream.sock = <<>> /\ NewStream.buffer = <<>> /\ ~NewStream.err
  /\ ~NewStream.freeze /\ NewStream.handler = "none" /\ Len(NewStream.sock) = 0
  /\ Pipe(NewStream, <<>>) = <<>>
<1>1. NewStream \in Streams /\ NewStream.sock = <<>> /\ NewStream.buffer = <<>>
  BY EmptySeq DEF NewStream, Streams
<1>2. <<>> \in Seq(Items) /\ <<>> \o <<>> = <<>>
  BY EmptySeq, ConcatEmptySeq
<1>3. Pipe(NewStream, <<>>) = <<>>
  BY <1>1, <1>2, Zenon DEF Pipe
<1>4. QED BY <1>1, <1>3, EmptySeq DEF NewStream

LEMMA NothingOnTheWay ==
  ASSUME ~dst', file' => dirty' = Pages, Pipe(ch, f_buf)' = <<>>
  PROVE  Sent'
<1> DEFINE s == Pipe(ch, f_buf)'
<1>1. Len(s) = 0
  BY EmptySeq
<1>2. DeviceLast(s) /\ ~HasDevice(s)
  BY <1>1 DEF DeviceLast, HasDevice
<1>3. file' => Carries(s, got', mem', dirty')
  BY DEF Carries
<1>4. QED BY <1>2, <1>3 DEF Sent, OnTheWay, DeviceLast, HasDevice, Carries, UpToDate

\* Nothing has been handed over while the source's guest runs.
LEMMA NotYet ==
  ASSUME MigInv, vm
  PROVE  ~dst
BY DEF MigInv, Sent, OnTheWay, Broken

LEMMA StepMigrate ==
  ASSUME MigInv, NEW detach \in BOOLEAN, do_migrate(detach)
  PROVE  MigInv'
<1>1. /\ pc = "idle" /\ vm /\ state # "active" /\ state' = "active" /\ suspended' = ~detach
      /\ ch' = [NewStream EXCEPT !.handler = "connect"]
      /\ dead' = FALSE /\ got' = [p \in Pages |-> 0] /\ dst' = FALSE
      /\ UNCHANGED <<mem, dirty, current_addr, vm, pc, result, file, f_buf, f_err, timer>>
  BY DEF do_migrate, Idle, ram, qfile
<1>2. ~file /\ f_buf = <<>> /\ ~timer /\ result # "completed"
  BY <1>1 DEF MigInv, Phases
<1>3. /\ ch' \in Streams /\ ch'.sock = <<>> /\ ch'.buffer = <<>> /\ ~ch'.err
      /\ ch'.handler = "connect" /\ Len(ch'.sock) = 0
  BY <1>1, EmptySeq DEF NewStream, Streams
<1>4. Pipe(ch, f_buf)' = <<>>
  <2>1. <<>> \in Seq(Items) /\ <<>> \o <<>> = <<>>
    BY EmptySeq, ConcatEmptySeq
  <2>2. f_buf' = <<>>
    BY <1>1, <1>2
  <2>3. QED BY <1>3, <2>1, <2>2, Zenon DEF Pipe
<1>5. suspended' \in BOOLEAN
  BY <1>1, Zenon
<1>6. got' \in [Pages -> 0..MaxVersion] /\ Len(ch'.sock) <= SockRoom
  BY <1>1, <1>3, Constants
<1>7. Typed'
  BY <1>1, <1>3, <1>5, <1>6 DEF MigInv, Typed, TypeOK, Streams
<1>8. Phases' /\ Broken' /\ Thaw'
  BY <1>1, <1>2, <1>3 DEF MigInv, Phases, Broken, Thaw
<1>9. Sent'
  BY <1>1, <1>2, <1>4, NothingOnTheWay
<1>10. QED BY <1>7, <1>8, <1>9 DEF MigInv

LEMMA StepConnect ==
  ASSUME MigInv, tcp_wait_for_connect
  PROVE  MigInv'
<1>1. /\ pc = "idle" /\ ch.handler = "connect" /\ ch' = NewStream
      /\ UNCHANGED <<mem, current_addr, vm, result, migrations, dead, got, dst>>
  BY DEF tcp_wait_for_connect, Idle, peer
<1>2. state = "active" /\ ~file /\ f_buf = <<>> /\ ~timer /\ result # "completed" /\ vm
  BY <1>1 DEF MigInv, Phases
<1>3. ~dst
  BY <1>2, NotYet
<1>4. /\ ch' \in Streams /\ ch'.sock = <<>> /\ ~ch'.err /\ ~ch'.freeze /\ ch'.handler = "none"
      /\ Len(ch'.sock) <= SockRoom
  BY <1>1, Fresh, Constants
<1>5. CASE dead
  <2>1. state' = "error" /\ suspended' = FALSE /\ UNCHANGED <<dirty, pc, file, f_buf, f_err, timer>>
    BY <1>5 DEF tcp_wait_for_connect, qfile
  <2>2. Typed'
    BY <1>1, <1>4, <2>1 DEF MigInv, Typed, TypeOK, Streams
  <2>3. Phases' /\ Broken' /\ Thaw'
    BY <1>1, <1>2, <1>4, <2>1 DEF MigInv, Phases, Broken, Thaw
  <2>4. Sent'
    BY <1>1, <1>5 DEF Sent
  <2>5. QED BY <2>2, <2>3, <2>4 DEF MigInv
<1>6. CASE ~dead
  <2>1. /\ file' = TRUE /\ f_buf' = <<>> /\ f_err' = FALSE /\ timer' = TRUE /\ pc' = "start"
        /\ dirty' = Pages /\ UNCHANGED <<state, suspended>>
    BY <1>6 DEF tcp_wait_for_connect
  <2>2. Len(f_buf') < FBuf /\ f_buf' \in Seq(Items)
    BY <2>1, EmptySeq, Constants
  <2>3. Typed'
    BY <1>1, <1>4, <2>1, <2>2 DEF MigInv, Typed, TypeOK, Streams
  <2>4. Phases' /\ Broken' /\ Thaw'
    BY <1>1, <1>2, <1>4, <2>1 DEF MigInv, Phases, Broken, Thaw
  <2>5. Pipe(ch, f_buf)' = <<>>
    BY <1>1, <2>1, Fresh
  <2>6. Sent'
    BY <1>1, <1>3, <2>1, <2>5, NothingOnTheWay
  <2>7. QED BY <2>3, <2>4, <2>6 DEF MigInv
<1>7. QED BY <1>5, <1>6

LEMMA PipeJoin ==
  ASSUME NEW c \in Streams, NEW fb \in Seq(Items)
  PROVE  Pipe(c, fb) = Pipe(c, <<>>) \o fb
<1> DEFINE a == c.sock
           b == c.buffer
<1>1. a \in Seq(Items) /\ b \in Seq(Items) /\ b \o <<>> = b
  BY StreamType, ConcatEmptySeq
<1> HIDE DEF a, b
<1>2. (a \o b) \o fb = a \o (b \o fb)
  BY <1>1, Joined
<1>3. a \o (b \o fb) = (a \o (b \o <<>>)) \o fb
  BY <1>1, <1>2, Zenon
<1>4. QED BY <1>3 DEF Pipe, a, b

\* A write to the open stream between the stages.
LEMMA StepStream ==
  ASSUME MigInv, file, pc = "idle", pc' \in {"idle", "part"},
         Kept(ch, ch'), ch'.freeze /\ ~ch'.err => ch'.handler = "notify",
         ~dead => Pipe(ch', f_buf) = Pipe(ch, f_buf),
         UNCHANGED <<mem, dirty, current_addr, vm, state, suspended, result, migrations, file, f_buf,
                     f_err, timer, dead, got, dst>>
  PROVE  MigInv'
<1>1. ch.handler # "connect" /\ (ch.err => dead) /\ state = "active" /\ result # "completed" /\ vm
  BY DEF MigInv, Phases, Broken
<1>2. ~dst
  BY <1>1, NotYet
<1>3. /\ ch' \in Streams /\ Len(ch'.sock) <= SockRoom /\ (ch'.err => dead) /\ ch'.handler # "connect"
  BY <1>1 DEF Kept
<1>4. Typed'
  BY <1>3 DEF MigInv, Typed, TypeOK, Streams
<1>5. Phases' /\ Broken' /\ Thaw'
  BY <1>1, <1>3 DEF MigInv, Phases, Broken, Thaw
<1>6. Sent'
  <2> SUFFICES ASSUME ~dead PROVE OnTheWay(Pipe(ch, f_buf))'
    BY DEF Sent
  <2> DEFINE s == Pipe(ch, f_buf)
  <2>1. DeviceLast(s) /\ Carries(s, got, mem, dirty) /\ ~HasDevice(s)
    BY <1>1 DEF MigInv, Sent, OnTheWay
  <2>2. Pipe(ch, f_buf)' = s
    OBVIOUS
  <2> HIDE DEF s
  <2>3. /\ DeviceLast(Pipe(ch, f_buf)') /\ ~HasDevice(Pipe(ch, f_buf)') /\ ~dst'
        /\ Carries(Pipe(ch, f_buf)', got', mem', dirty')
    BY <1>2, <2>1, <2>2
  <2>4. QED BY <2>3 DEF OnTheWay, DeviceLast, HasDevice, Carries, UpToDate
<1>7. QED BY <1>4, <1>5, <1>6 DEF MigInv

LEMMA StepTick ==
  ASSUME MigInv, buffered_rate_tick
  PROVE  MigInv'
<1>1. /\ pc = "idle" /\ timer
      /\ UNCHANGED <<mem, dirty, current_addr, vm, state, suspended, result, migrations, file, f_buf,
                     f_err, dead, got, dst>>
  BY DEF buffered_rate_tick, Idle, ram, mig, qfile, peer
<1>2. file
  BY <1>1 DEF MigInv, Phases
<1>3. /\ ch \in Streams /\ Len(ch.sock) <= SockRoom /\ dead \in BOOLEAN /\ f_buf \in Seq(Items)
      /\ (ch.freeze /\ ~ch.err => ch.handler = "notify")
  BY <1>2 DEF MigInv, Typed, TypeOK, Thaw
<1>4. CASE ch.err
  <2>1. timer' = FALSE /\ UNCHANGED <<pc, ch>>
    BY <1>4 DEF buffered_rate_tick
  <2>2. Typed' /\ Phases' /\ Broken' /\ Thaw'
    BY <1>1, <2>1 DEF MigInv, Typed, TypeOK, Phases, Broken, Thaw
  <2>3. Sent'
    BY <1>1, <2>1, SameOnTheWay DEF MigInv
  <2>4. QED BY <2>2, <2>3 DEF MigInv
<1>5. CASE ~ch.err /\ ch.freeze
  <2>1. UNCHANGED <<pc, ch, timer>>
    BY <1>5 DEF buffered_rate_tick
  <2>2. Typed' /\ Phases' /\ Broken' /\ Thaw'
    BY <1>1, <2>1 DEF MigInv, Typed, TypeOK, Phases, Broken, Thaw
  <2>3. Sent'
    BY <1>1, <2>1, SameOnTheWay DEF MigInv
  <2>4. QED BY <2>2, <2>3 DEF MigInv
<1>6. CASE ~ch.err /\ ~ch.freeze
  <2> DEFINE c == [ch EXCEPT !.xfer = 0]
  <2>1. ch' = buffered_flush(c) /\ pc' = "part" /\ timer' = timer
    BY <1>6 DEF buffered_rate_tick
  <2>2. /\ c \in Streams /\ c.sock = ch.sock /\ c.buffer = ch.buffer /\ c.err = ch.err
        /\ c.handler = ch.handler /\ c.freeze = ch.freeze
    BY <1>3 DEF Streams
  <2> HIDE DEF c
  <2>3. /\ Kept(c, ch') /\ (ch'.freeze => c.freeze \/ ch'.handler = "notify")
        /\ (~dead => Pipe(ch', f_buf) = Pipe(c, f_buf))
    BY <1>3, <2>1, <2>2, FlushKeeps
  <2>4. Kept(ch, ch') /\ Pipe(c, f_buf) = Pipe(ch, f_buf)
    BY <2>2, <2>3 DEF Kept, Pipe
  <2>5. ch'.freeze /\ ~ch'.err => ch'.handler = "notify"
    BY <1>6, <2>2, <2>3
  <2>6. QED BY <1>1, <1>2, <2>1, <2>3, <2>4, <2>5, StepStream
<1>7. QED BY <1>4, <1>5, <1>6

LEMMA StepNotify ==
  ASSUME MigInv, migrate_fd_put_notify
  PROVE  MigInv'
<1> DEFINE c == [ch EXCEPT !.handler = "none"]
<1>1. /\ pc = "idle" /\ ch.handler = "notify" /\ ch' = buffered_put_buffer(c, <<>>).ch
      /\ UNCHANGED <<mem, dirty, current_addr, vm, state, suspended, result, migrations, pc, file,
                     f_buf, f_err, timer, dead, got, dst>>
  BY DEF migrate_fd_put_notify, Idle, ram, mig, qfile, peer
<1>2. /\ ch \in Streams /\ Len(ch.sock) <= SockRoom /\ dead \in BOOLEAN /\ f_buf \in Seq(Items)
      /\ (ch.err => dead)
  BY DEF MigInv, Typed, TypeOK, Broken
<1>3. /\ c \in Streams /\ c.sock = ch.sock /\ c.buffer = ch.buffer /\ c.err = ch.err
      /\ c.handler = "none"
  BY <1>2 DEF Streams
<1> HIDE DEF c
<1>4. <<>> \in Seq(Items)
  BY EmptySeq
<1>5. /\ Kept(c, ch') /\ (ch'.freeze => ch'.handler = "notify" \/ ch'.err)
      /\ (~dead => Pipe(ch', <<>>) = Pipe(c, <<>>))
  BY <1>1, <1>2, <1>3, <1>4, PutKeeps
<1>6. ~dead => Pipe(ch', f_buf) = Pipe(ch, f_buf)
  <2>1. ch' \in Streams /\ Pipe(c, <<>>) = Pipe(ch, <<>>)
    BY <1>3, <1>5 DEF Kept, Pipe
  <2>2. Pipe(ch', f_buf) = Pipe(ch', <<>>) \o f_buf
    BY <1>2, <2>1, PipeJoin
  <2>3. Pipe(ch, f_buf) = Pipe(ch, <<>>) \o f_buf
    BY <1>2, PipeJoin
  <2>4. QED BY <1>5, <2>1, <2>2, <2>3, Zenon
<1>7. file
  BY <1>1 DEF MigInv, Phases
<1>8. Kept(ch, ch')
  BY <1>3, <1>5 DEF Kept
<1>9. ch'.freeze /\ ~ch'.err => ch'.handler = "notify"
  BY <1>5
<1>10. QED BY <1>1, <1>6, <1>7, <1>8, <1>9, StepStream

LEMMA StepCancel ==
  ASSUME MigInv, migrate_fd_cancel
  PROVE  MigInv'
<1>1. /\ pc = "idle" /\ state = "active" /\ state' = "cancelled"
      /\ UNCHANGED <<mem, dirty, current_addr, vm, migrations, timer, dead, got, dst>>
  BY DEF migrate_fd_cancel, Idle, ram, peer
<1>2. vm /\ vm \in BOOLEAN /\ result # "completed"
  BY <1>1 DEF MigInv, Phases, Typed, TypeOK
<1>3. CASE file
  <2>1. Cleanup("cancelled") /\ UNCHANGED suspended
    BY <1>3 DEF migrate_fd_cancel
  <2>2. QED BY <1>1, <1>2, <1>3, <2>1, StepCleanup
<1>4. CASE ~file
  <2>1. suspended' = FALSE /\ ch' = NewStream /\ UNCHANGED <<pc, result, file, f_buf, f_err>>
    BY <1>4 DEF migrate_fd_cancel, qfile
  <2>2. ~dst
    BY <1>2, NotYet
  <2>3. /\ ch' \in Streams /\ ch'.sock = <<>> /\ ~ch'.err /\ ~ch'.freeze /\ ch'.handler = "none"
        /\ Len(ch'.sock) <= SockRoom
    BY <2>1, Fresh, Constants
  <2>4. Typed'
    BY <1>1, <2>1, <2>3 DEF MigInv, Typed, TypeOK, Streams
  <2>5. Phases' /\ Broken' /\ Thaw'
    BY <1>1, <1>2, <1>4, <2>1, <2>2, <2>3 DEF MigInv, Phases, Broken, Thaw
  <2>6. f_buf' = <<>>
    BY <1>4, <2>1 DEF MigInv, Phases
  <2>7. Pipe(ch, f_buf)' = <<>>
    BY <2>1, <2>6, Fresh
  <2>8. Sent'
    BY <1>1, <1>4, <2>1, <2>2, <2>7, NothingOnTheWay
  <2>9. QED BY <2>4, <2>5, <2>8 DEF MigInv
<1>5. QED BY <1>3, <1>4

LEMMA StepGuest ==
  ASSUME MigInv, NEW p \in Pages, GuestWrite(p)
  PROVE  MigInv'
<1>1. /\ pc = "idle" /\ vm /\ mem[p] < MaxVersion /\ mem' = [mem EXCEPT ![p] = @ + 1]
      /\ dirty' = dirty \cup {p}
      /\ UNCHANGED <<current_addr, vm, state, suspended, result, migrations, pc, file, f_buf, f_err,
                     ch, timer, dead, got, dst>>
  BY DEF GuestWrite, Idle, mig, qfile, peer
<1>2. mem \in [Pages -> 0..MaxVersion]
  BY DEF MigInv, Typed, TypeOK
<1>3. mem' \in [Pages -> 0..MaxVersion] /\ \A q \in Pages \ dirty' : mem'[q] = mem[q]
  BY <1>1, <1>2, Constants
<1>4. Typed'
  BY <1>1, <1>3 DEF MigInv, Typed, TypeOK
<1>5. Phases' /\ Broken' /\ Thaw'
  BY <1>1 DEF MigInv, Phases, Broken, Thaw
<1>6. Sent'
  <2> SUFFICES ASSUME ~dead PROVE OnTheWay(Pipe(ch, f_buf))'
    BY <1>1 DEF Sent
  <2> DEFINE s == Pipe(ch, f_buf)
  <2>1. DeviceLast(s) /\ (file => Carries(s, got, mem, dirty)) /\ ~HasDevice(s) /\ ~dst
    BY <1>1 DEF MigInv, Sent, OnTheWay
  <2>2. Pipe(ch, f_buf)' = s
    BY <1>1
  <2> HIDE DEF s
  <2>3. file => Carries(s, got, mem', dirty')
    BY <1>1, <1>3, <2>1 DEF Carries
  <2>4. /\ DeviceLast(Pipe(ch, f_buf)') /\ ~HasDevice(Pipe(ch, f_buf)') /\ ~dst'
        /\ file' => Carries(Pipe(ch, f_buf)', got', mem', dirty')
    BY <1>1, <2>1, <2>2, <2>3
  <2>5. QED BY <2>4 DEF OnTheWay, DeviceLast, HasDevice, Carries, UpToDate
<1>7. QED BY <1>4, <1>5, <1>6 DEF MigInv

LEMMA StepRead ==
  ASSUME MigInv, PeerReads
  PROVE  MigInv'
<1> DEFINE s == Pipe(ch, f_buf)
           h == Head(ch.sock)
<1>1. /\ ~dead /\ ch.sock # <<>> /\ ch' = [ch EXCEPT !.sock = Tail(@)]
      /\ UNCHANGED <<mem, dirty, current_addr, vm, state, suspended, result, migrations, pc, file,
                     f_buf, f_err, timer, dead>>
  BY DEF PeerReads, ram, mig, qfile
<1>2. /\ ch \in Streams /\ Len(ch.sock) <= SockRoom /\ f_buf \in Seq(Items)
      /\ got \in [Pages -> 0..MaxVersion]
  BY DEF MigInv, Typed, TypeOK
<1>3. s \in Seq(Items) /\ s # <<>> /\ Head(s) = h /\ Pipe(ch', f_buf) = Tail(s)
  BY <1>1, <1>2, PipeRead
<1>4. OnTheWay(s)
  BY <1>1 DEF MigInv, Sent
<1>5. ~dst
  BY <1>3, <1>4 DEF OnTheWay
<1>6. /\ ch' \in Streams /\ Len(ch'.sock) <= SockRoom /\ ch'.err = ch.err /\ ch'.freeze = ch.freeze
      /\ ch'.handler = ch.handler
  <2>1. Tail(ch.sock) \in Seq(Items) /\ Len(Tail(ch.sock)) <= SockRoom
    BY <1>1, <1>2, StreamType, HeadTailProperties, Constants
  <2>2. QED BY <1>1, <1>2, <2>1 DEF Streams
<1>7. Pipe(ch, f_buf)' = Tail(s)
  BY <1>1, <1>3
<1> HIDE DEF s, h
<1>8. Phases' /\ Thaw'
  BY <1>1, <1>6 DEF MigInv, Phases, Thaw
<1>9. CASE h = Device
  <2>1. dst' = TRUE /\ got' = got
    BY <1>9 DEF PeerReads, h
  <2>2. /\ DeviceLast(Tail(s)) /\ Tail(s) = <<>> /\ HasDevice(s)
        /\ (Carries(s, got, mem, dirty) => Carries(Tail(s), got, mem, dirty))
    BY <1>2, <1>3, <1>4, <1>9, ItemRead DEF OnTheWay
  <2>3. /\ Carries(s, got, mem, dirty) /\ dirty = {} /\ ~vm /\ pc \in {"complete", "closing", "idle"}
    BY <1>4, <2>2 DEF OnTheWay
  <2>4. Typed' /\ Broken'
    BY <1>1, <1>6, <2>1 DEF MigInv, Typed, TypeOK, Streams, Broken
  <2>5. /\ DeviceLast(Pipe(ch, f_buf)') /\ Pipe(ch, f_buf)' = <<>>
        /\ Carries(Pipe(ch, f_buf)', got', mem', dirty')
        /\ dirty' = {} /\ ~vm' /\ pc' \in {"complete", "closing", "idle"}
    BY <1>1, <1>7, <2>1, <2>2, <2>3
  <2>6. Sent'
    BY <2>5 DEF Sent, OnTheWay, DeviceLast, HasDevice, Carries, UpToDate
  <2>7. QED BY <1>8, <2>4, <2>6 DEF MigInv
<1>10. CASE h # Device
  <2> DEFINE g == [got EXCEPT ![h.page] = h.version]
  <2>1. dst' = dst /\ got' = g
    BY <1>10 DEF PeerReads, h
  <2>2. /\ DeviceLast(Tail(s)) /\ (HasDevice(Tail(s)) => HasDevice(s)) /\ g \in [Pages -> 0..MaxVersion]
        /\ (Carries(s, got, mem, dirty) => Carries(Tail(s), g, mem, dirty))
    BY <1>2, <1>3, <1>4, <1>10, ItemRead DEF OnTheWay
  <2> HIDE DEF g
  <2>3. Typed' /\ Broken'
    BY <1>1, <1>6, <2>1, <2>2 DEF MigInv, Typed, TypeOK, Streams, Broken
  <2>4. /\ DeviceLast(Pipe(ch, f_buf)') /\ ~dst'
        /\ (file' \/ HasDevice(Pipe(ch, f_buf)') => Carries(Pipe(ch, f_buf)', got', mem', dirty'))
        /\ (HasDevice(Pipe(ch, f_buf)') => dirty' = {} /\ ~vm' /\ pc' \in {"complete", "closing", "idle"})
    BY <1>1, <1>4, <1>5, <1>7, <2>1, <2>2 DEF OnTheWay
  <2>5. Sent'
    BY <2>4 DEF Sent, OnTheWay, DeviceLast, HasDevice, Carries, UpToDate
  <2>6. QED BY <1>8, <2>3, <2>5 DEF MigInv
<1>11. QED BY <1>9, <1>10

LEMMA StepDies ==
  ASSUME MigInv, PeerDies
  PROVE  MigInv'
<1>1. /\ ~dst /\ dead' = TRUE /\ ch' = [ch EXCEPT !.sock = <<>>]
      /\ UNCHANGED <<mem, dirty, current_addr, vm, state, suspended, result, migrations, pc, file,
                     f_buf, f_err, timer, got, dst>>
  BY DEF PeerDies, ram, mig, qfile
<1>2. ch \in Streams
  BY DEF MigInv, Typed
<1>3. /\ ch' \in Streams /\ Len(ch'.sock) <= SockRoom /\ ch'.err = ch.err /\ ch'.freeze = ch.freeze
      /\ ch'.handler = ch.handler
  <2>1. <<>> \in Seq(Items) /\ Len(<<>>) <= SockRoom
    BY EmptySeq, Constants
  <2>2. QED BY <1>1, <1>2, <2>1 DEF Streams
<1>4. Typed'
  BY <1>1, <1>3 DEF MigInv, Typed, TypeOK, Streams
<1>5. Phases' /\ Broken' /\ Thaw' /\ Sent'
  BY <1>1, <1>3 DEF MigInv, Phases, Broken, Thaw, Sent
<1>6. QED BY <1>4, <1>5 DEF MigInv

-----------------------------------------------------------------------------
\* The invariant holds: what has not arrived of the clean pages is on its way,
\* in order, and the device state behind it (buffered_put_buffer, ram_save_live,
\* migrate_fd_put_ready).
THEOREM Invariance == Spec => []MigInv
<1>1. Init => MigInv
  <2> SUFFICES ASSUME Init PROVE MigInv
    OBVIOUS
  <2>1. Typed
    <3>1. 0 \in Pages /\ mem \in [Pages -> 0..MaxVersion] /\ got \in [Pages -> 0..MaxVersion]
      BY Constants DEF Init, Pages
    <3>2. Len(f_buf) < FBuf /\ f_buf \in Seq(Items) /\ Len(ch.sock) <= SockRoom
      BY Constants, Fresh, EmptySeq DEF Init
    <3>3. QED BY <3>1, <3>2, Fresh DEF Init, Typed, TypeOK, Streams
  <2>2. Phases /\ Broken /\ Thaw
    BY Fresh DEF Init, Phases, Broken, Thaw
  <2>3. Sent
    <3>1. Pipe(ch, f_buf) = <<>> /\ Len(<<>>) = 0 /\ ~dst /\ ~file
      BY Fresh, EmptySeq DEF Init
    <3>2. QED BY <3>1 DEF Sent, OnTheWay, DeviceLast, HasDevice
  <2>4. QED BY <2>1, <2>2, <2>3 DEF MigInv
<1>2. MigInv /\ [Next]_<<vars, stuck>> => MigInv'
  <2> SUFFICES ASSUME MigInv, [Next]_<<vars, stuck>> PROVE MigInv'
    OBVIOUS
  <2>1. ASSUME Stages PROVE MigInv'
    BY <2>1, StepSaveBlock, StepBegin, StepIterate, StepDevices, StepComplete, StepClose DEF Stages
  <2>2. ASSUME UNCHANGED vars \/ \E d \in BOOLEAN : ConnectFails(d) PROVE MigInv'
    <3>1. UNCHANGED <<mem, dirty, current_addr, vm, state, suspended, result, pc, file,
                      f_buf, f_err, ch, timer, dead, got, dst>>
      BY <2>2 DEF vars, ConnectFails, ram, mig, qfile, peer
    <3>2. Typed' /\ Phases' /\ Broken' /\ Thaw'
      BY <3>1 DEF MigInv, Typed, TypeOK, Phases, Broken, Thaw
    <3>3. Sent'
      BY <3>1, SameOnTheWay DEF MigInv
    <3>4. QED BY <3>2, <3>3 DEF MigInv
  <2>3. QED
    BY <2>1, <2>2, StepConnect, StepTick, StepNotify, StepCancel, StepMigrate, StepGuest, StepRead,
       StepDies DEF Next, Steps
<1>3. QED BY <1>1, <1>2, PTL DEF Spec

\* A handover is safe: never two guests to go on with, the peer's with all of the
\* memory the source stopped with, the source's unless the migration has completed,
\* and the handler of a frozen stream is set, whatever the sizes
\* of the buffers, the rate and the number of pages (migrate_fd_put_ready,
\* buffered_flush, buffered_close).
THEOREM Handover == Spec => []HandoverSafe
<1>1. MigInv => HandoverSafe
  <2> SUFFICES ASSUME MigInv PROVE HandoverSafe
    OBVIOUS
  <2>1. TypeOK
    BY DEF MigInv, Typed
  <2>2. ASSUME dst PROVE ~vm /\ got = mem
    <3>1. /\ Pipe(ch, f_buf) = <<>> /\ dirty = {} /\ ~vm /\ Carries(<<>>, got, mem, {})
      BY <2>2 DEF MigInv, Broken, Sent, OnTheWay
    <3>2. Len(<<>>) = 0
      BY EmptySeq
    <3>3. \A p \in Pages : got[p] = mem[p]
      BY <3>1, <3>2 DEF Carries, UpToDate
    <3>4. got \in [Pages -> 0..MaxVersion] /\ mem \in [Pages -> 0..MaxVersion]
      BY DEF MigInv, Typed, TypeOK
    <3>5. QED BY <3>1, <3>3, <3>4
  <2>3. SourceSurvives /\ FrozenHasHandler
    BY DEF MigInv, Phases, Thaw, SourceSurvives, FrozenHasHandler
  <2>4. QED BY <2>1, <2>2, <2>3 DEF HandoverSafe, SafeHandover
<1>2. QED BY Invariance, <1>1, PTL

-----------------------------------------------------------------------------
(***************************************************************************)
(* Disk images.                                                            *)
(***************************************************************************)
\* No snapshots; the host does not crash after a failed write of an L1 entry; and
\* devices cancel only writes that are in the image file.
Plain == env.cmds = {} /\ (env.crash => "l1" \notin env.fails) /\ env.cancels \subseteq {"io"}

-----------------------------------------------------------------------------
(***************************************************************************)
(* Types and the arithmetic of requests.                                   *)
(***************************************************************************)
Tables == [G -> Entries]
Clusters == [t : Tables, d : [0..CS - 1 -> Nat]]
ReqStates == {"new", "run", "wait", "io", "landed", "done", "gone"}
ReqTypes == [st : ReqStates, rg : Nat \X Nat, pos : Nat, left : Nat, n : Nat, nb : Nat,
             off : Nat, aoff : Nat]
ThrStates == {"idle", "copy", "link", "free", "deps", "cont", "table", "l2", "l2write", "l1write",
              "alloc"}
ThrTypes == [st : ThrStates, r : Reqs \cup {0}, ok : BOOLEAN, todo : Seq(Reqs), olds : SUBSET H,
             new : 0..HC]

ImageTyped ==
  /\ refcount \in [H -> {0, 1}] /\ blk \in [H -> Clusters]
  /\ l1_table \in Entries /\ disk_l1 \in Entries /\ snap = NoSnap
  /\ l2_cache \in [H -> Tables \cup {NoTable}] /\ free_cluster_index \in Nat \ {0}

RequestsTyped ==
  /\ req \in [Reqs -> ReqTypes]
  /\ cluster_allocs \in Seq(Reqs) /\ dependent_requests \in [Reqs -> Seq(Reqs)]
  /\ thr \in ThrTypes
  /\ may \in [Sectors -> SUBSET Nat]

\* The part of q that is being written lies in what is left of its range.
InRange(q) ==
  /\ q.n <= q.left /\ q.pos + q.left = q.rg[1] + q.rg[2]
  /\ q.rg[1] <= q.pos /\ q.rg[1] + q.rg[2] <= GC * CS
  /\ q.st \in {"new", "run", "wait"} => q.n = 0
  /\ q.st \in {"run", "wait"} => q.left > 0
  /\ q.st \in {"io", "landed"} => q.n > 0

Qcow2Typed == ImageTyped /\ RequestsTyped /\ \A r \in Reqs : InRange(req[r])

-----------------------------------------------------------------------------
(***************************************************************************)
(* Where requests wait.                                                    *)
(***************************************************************************)
Written(q) == q.st \in {"io", "landed"}

\* The request whose callback this is, at the end of the list of those that go on.
Back(i) == /\ i = Len(thr.todo) /\ thr.r \notin Elements(cluster_allocs)
           /\ Written(req[thr.r]) /\ (thr.ok => req[thr.r].st = "landed")

Going == {"cont", "table", "l2write", "l1write", "alloc"}

ThreadOK ==
  /\ thr.st # "l2" /\ (~thr.ok => env.fails # {})
  /\ thr.st = "idle" => thr.r = 0
  /\ thr.st \in Going \cup {"copy", "link", "free", "deps"} => thr.r # 0
  /\ thr.st \notin Going => thr.todo = <<>>
  /\ thr.st \in {"copy", "link", "free"} =>
       thr.ok /\ req[thr.r].st = "landed" /\ req[thr.r].nb > 0
  /\ thr.st \in {"copy", "link", "free", "deps"} =>
       /\ Written(req[thr.r]) /\ (thr.ok => req[thr.r].st = "landed")
       /\ req[thr.r].nb > 0 => thr.r \in Elements(cluster_allocs)
  /\ thr.st = "free" => thr.olds = {}
  /\ thr.st \in Going =>
       /\ thr.todo # <<>> /\ NoRepeat(thr.todo) /\ thr.todo[Len(thr.todo)] = thr.r
       /\ \A i \in 1..Len(thr.todo) : req[thr.todo[i]].st \in {"run", "wait"} \/ Back(i)
  /\ thr.st \in Going \ {"cont"} => req[thr.todo[1]].st = "run"

WaitingOK ==
  /\ \A q \in Reqs : NoRepeat(dependent_requests[q])
  /\ \A q \in Reqs : \A r \in Elements(dependent_requests[q]) :
       req[r].st = "wait" /\ r \notin Elements(thr.todo)
  /\ \A p, q \in Reqs : \A r \in Elements(dependent_requests[p]) :
       r \in Elements(dependent_requests[q]) => p = q

-----------------------------------------------------------------------------
(***************************************************************************)
(* Clusters.                                                               *)
(***************************************************************************)

\* The table in use.
T == IF l1_table.off = 0 THEN NewTable ELSE blk[l1_table.off].t

TablesOK ==
  /\ l1_table # NoEntry => l1_table.off \in H /\ l1_table.copied /\ refcount[l1_table.off] = 1
  /\ disk_l1 \in {l1_table, NoEntry} /\ ("l1" \notin env.fails => disk_l1 = l1_table)
  /\ l1_table.off # 0 => l2_cache[l1_table.off] \in {NoTable, T}
  /\ \A g \in G : T[g] # NoEntry =>
       T[g].off \in H /\ T[g].copied /\ T[g].off # l1_table.off /\ refcount[T[g].off] = 1
  /\ \A g, k \in G : T[g].off = T[k].off /\ T[g].off # 0 => g = k

\* The cluster of a new L2 table.
NewL2OK ==
  /\ thr.st \in {"l2write", "l1write"} =>
       l1_table.off = 0 /\ thr.new \in H /\ refcount[thr.new] = 1
  /\ thr.st = "l1write" => blk[thr.new].t = NewTable
  /\ thr.st = "alloc" => l1_table.off # 0 /\ l2_cache[l1_table.off] = T
  /\ \A r \in Reqs : Written(req[r]) => l1_table.off # 0

\* The sectors of the part of q that is written, and the cluster for one of them.
Part(q) == q.pos..q.pos + q.n - 1
Host(q, x) == q.off + (x \div CS) - (q.pos \div CS)

\* The clusters allocated for it, and the guest's.
Own(q) == q.off..q.off + q.nb - 1
Mine(q) == (q.aoff \div CS)..(q.aoff \div CS) + q.nb - 1

InPlace(q) == \A x \in Part(q) : T[x \div CS].off = Host(q, x) /\ Host(q, x) \in H

\* Clusters that nothing refers to yet.
FreshPart(q) ==
  /\ q.nb > 0 /\ q.aoff = q.pos /\ Own(q) \subseteq H
  /\ \A x \in Part(q) : x \div CS \in Mine(q)
  /\ \A h \in Own(q) : /\ refcount[h] = 1 /\ h # l1_table.off
                       /\ thr.st \in {"l2write", "l1write"} => h # thr.new
                       /\ \A g \in G : T[g].off # h

\* Its clusters have been linked, or are not its own.
Linked(r) ==
  req[r].nb = 0 \/ (thr.r = r /\ thr.ok /\ thr.st \notin {"copy", "link"})

PartsOK ==
  /\ \A r \in Reqs : Written(req[r]) => IF Linked(r) THEN InPlace(req[r]) ELSE FreshPart(req[r])
  /\ \A r, q \in Reqs : r # q /\ Written(req[r]) /\ Written(req[q]) /\ ~Linked(r) /\ ~Linked(q)
                          => Own(req[r]) \cap Own(req[q]) = {}

\* The allocations in flight.
AllocsOK ==
  /\ \A r \in Elements(cluster_allocs) :
       /\ req[r].st \in {"io", "landed", "gone"} /\ req[r].nb > 0 /\ Mine(req[r]) \subseteq G
       /\ ~(thr.r = r /\ thr.st \in {"free", "deps"}) => \A g \in Mine(req[r]) : T[g] = NoEntry
  /\ \A r \in Reqs : Written(req[r]) /\ req[r].nb > 0 /\ thr.r # r => r \in Elements(cluster_allocs)
  /\ NoRepeat(cluster_allocs)
  /\ \A r, q \in Elements(cluster_allocs) : r # q => Mine(req[r]) \cap Mine(req[q]) = {}

\* The request's new clusters have been linked.
LinkedOK ==
  thr.st \in {"free", "deps"} /\ thr.ok =>
    LET q == req[thr.r]
    IN \A g \in Mine(q) : g \in G /\ T[g].off = q.off + g - (q.aoff \div CS)

-----------------------------------------------------------------------------
(***************************************************************************)
(* Data.                                                                   *)
(***************************************************************************)
Reading(x) == IF T[x \div CS].off = 0 THEN 0 ELSE blk[T[x \div CS].off].d[x % CS]

ReadsOK == \A x \in Sectors : Reading(x) \in may[x]

\* Writes that have not ended may be read, and do not overlap.
OverlapsOK ==
  \A r \in Reqs : Outstanding(r) =>
    /\ \A x \in Sectors : Covers(r, x) => r \in may[x]
    /\ \A q \in Reqs \ {r} : Outstanding(q) => \A x \in Sectors : ~(Covers(r, x) /\ Covers(q, x))

\* The parts a write is done with are read.
DoneOK ==
  \A r \in Reqs : Outstanding(r) => \A x \in req[r].rg[1]..req[r].pos - 1 : Reading(x) = r

\* The data of a part that was written is there.
LandedOK ==
  \A r \in Reqs : req[r].st = "landed" =>
    \A x \in Part(req[r]) : blk[Host(req[r], x)].d[x % CS] = r

\* What is around it has been copied.
LinkOK ==
  thr.st = "link" => \A x \in Sectors \ Part(req[thr.r]) :
    x \div CS \in Mine(req[thr.r]) => blk[Host(req[thr.r], x)].d[x % CS] = 0

DataOK == ReadsOK /\ OverlapsOK /\ DoneOK /\ LandedOK /\ LinkOK

\* Left alone, what is counted is in use.
Calm == env.fails = {} /\ env.cancels = {} /\ ~env.crash

CountsOK ==
  Calm => \A h \in H : refcount[h] = 1 =>
    \/ h = l1_table.off
    \/ \E g \in G : T[g].off = h
    \/ \E r \in Elements(cluster_allocs) : h \in Own(req[r])
    \/ thr.st \in {"l2write", "l1write"} /\ h = thr.new

QcowInv ==
  /\ Qcow2Typed /\ ThreadOK /\ WaitingOK /\ TablesOK /\ NewL2OK /\ PartsOK /\ AllocsOK /\ DataOK
  /\ LinkedOK /\ CountsOK

-----------------------------------------------------------------------------
(***************************************************************************)
(* Sectors and clusters.                                                   *)
(***************************************************************************)
LEMMA ImageConstants ==
  /\ CS \in Nat /\ CS >= 1 /\ GC \in Nat /\ GC >= 1 /\ HC \in Nat
  /\ Reqs \subseteq Nat \ {0} /\ G = 0..GC - 1 /\ H = 1..HC /\ Sectors = 0..GC * CS - 1
BY Qcow2Assumption DEF G, H, Sectors

LEMMA Product ==
  ASSUME NEW c \in Nat, NEW a \in Nat, NEW b \in Nat
  PROVE  /\ c * a \in Nat /\ c * (a + 1) = c * a + c /\ a * c = c * a
         /\ a <= b => c * a <= c * b
         /\ a < b => c * a + c <= c * b
<1>1. c * a \in Nat /\ c * (a + 1) = c * a + c /\ a * c = c * a
  OBVIOUS
<1>2. ASSUME NEW d \in Nat PROVE c * (a + d) = c * a + c * d /\ c * d >= 0
  OBVIOUS
<1>3. ASSUME a <= b PROVE c * a <= c * b
  <2>1. b - a \in Nat /\ b = a + (b - a)
    BY <1>3
  <2>2. QED BY <2>1, <1>2
<1>4. ASSUME a < b PROVE c * a + c <= c * b
  <2>1. b - (a + 1) \in Nat /\ b = a + (1 + (b - (a + 1)))
    BY <1>4
  <2>2. c * (1 + (b - (a + 1))) >= c
    <3>1. PICK e \in Nat : e = b - (a + 1)
      BY <2>1
    <3>2. c * (1 + e) = c + c * e /\ c * e >= 0
      BY <3>1
    <3>3. QED BY <3>1, <3>2
  <2>3. QED BY <2>1, <2>2, <1>2
<1>5. QED BY <1>1, <1>3, <1>4

LEMMA DivMod ==
  ASSUME NEW x \in Nat
  PROVE  /\ x \div CS \in Nat /\ x % CS \in 0..CS - 1
         /\ x = CS * (x \div CS) + (x % CS)
BY ImageConstants

LEMMA DivIs ==
  ASSUME NEW q \in Nat, NEW i \in 0..CS - 1, NEW x \in Nat, x = CS * q + i
  PROVE  x \div CS = q /\ x % CS = i
<1>1. PICK d \in Nat, m \in 0..CS - 1 : d = x \div CS /\ m = x % CS
  BY DivMod
<1>2. CS * d + m = CS * q + i
  BY <1>1, DivMod
<1>3. ~(d < q)
  <2> SUFFICES ASSUME d < q PROVE FALSE
    OBVIOUS
  <2>1. CS * d + CS <= CS * q /\ CS * d \in Nat /\ CS * q \in Nat
    BY Product, ImageConstants
  <2>2. QED BY <2>1, <1>2, ImageConstants
<1>4. ~(q < d)
  <2> SUFFICES ASSUME q < d PROVE FALSE
    OBVIOUS
  <2>1. CS * q + CS <= CS * d /\ CS * d \in Nat /\ CS * q \in Nat
    BY Product, ImageConstants
  <2>2. QED BY <2>1, <1>2, ImageConstants
<1>5. d = q
  BY <1>3, <1>4
<1>6. CS * d \in Nat /\ CS * d = CS * q
  BY <1>5, Product, ImageConstants
<1>7. m = i
  BY <1>2, <1>6, ImageConstants
<1>8. QED BY <1>1, <1>5, <1>7

LEMMA DivSum ==
  ASSUME NEW a \in Nat, NEW k \in Nat
  PROVE  /\ (a + k) \div CS = (a \div CS) + (((a % CS) + k) \div CS)
         /\ (a + k) % CS = ((a % CS) + k) % CS
<1>1. PICK d \in Nat, m \in 0..CS - 1 : d = a \div CS /\ m = a % CS /\ a = CS * d + m
  BY DivMod
<1>2. m + k \in Nat
  BY <1>1, ImageConstants
<1>3. PICK e \in Nat, i \in 0..CS - 1 : e = (m + k) \div CS /\ i = (m + k) % CS /\ m + k = CS * e + i
  BY <1>2, DivMod
<1>4. CS * (d + e) = CS * d + CS * e /\ CS * d \in Nat /\ CS * e \in Nat
  BY ImageConstants
<1>5. PICK u \in Nat, v \in Nat, w \in Nat : u = CS * d /\ v = CS * e /\ w = CS * (d + e)
  BY <1>4
<1>6. a = u + m /\ m + k = v + i /\ w = u + v
  BY <1>1, <1>3, <1>4, <1>5
<1>7. a + k = w + i
  BY <1>6, <1>2, ImageConstants
<1>8. a + k = CS * (d + e) + i /\ d + e \in Nat /\ a + k \in Nat
  BY <1>5, <1>7
<1>9. QED BY <1>1, <1>3, <1>8, DivIs

\* Later sectors are in later clusters.
LEMMA DivOrder ==
  ASSUME NEW x \in Nat, NEW y \in Nat, x <= y
  PROVE  x \div CS <= y \div CS
<1>1. PICK d \in Nat, m \in 0..CS - 1 : d = x \div CS /\ m = x % CS /\ x = CS * d + m
  BY DivMod
<1>2. PICK e \in Nat, i \in 0..CS - 1 : e = y \div CS /\ i = y % CS /\ y = CS * e + i
  BY DivMod
<1>3. ~(e < d)
  <2> SUFFICES ASSUME e < d PROVE FALSE
    OBVIOUS
  <2>1. CS * e + CS <= CS * d /\ CS * d \in Nat /\ CS * e \in Nat
    BY Product, ImageConstants
  <2>2. QED BY <2>1, <1>1, <1>2, ImageConstants
<1>4. QED BY <1>1, <1>2, <1>3

LEMMA DivWhole ==
  ASSUME NEW x \in Nat, NEW k \in Nat
  PROVE  (x + k * CS) \div CS = (x \div CS) + k
<1>1. PICK d \in Nat, m \in 0..CS - 1 : d = x \div CS /\ m = x % CS /\ x = CS * d + m
  BY DivMod
<1>2. CS * (d + k) = CS * d + CS * k /\ CS * d \in Nat /\ CS * k \in Nat /\ k * CS = CS * k
  BY ImageConstants
<1>3. x + k * CS = CS * (d + k) + m /\ d + k \in Nat /\ x + k * CS \in Nat
  BY <1>1, <1>2, ImageConstants
<1>4. QED BY <1>1, <1>3, DivIs

LEMMA SectorCluster ==
  ASSUME NEW x \in Nat
  PROVE  /\ x \in Sectors <=> x \div CS \in G
         /\ x < GC * CS <=> x \div CS < GC
<1>1. PICK d \in Nat, m \in 0..CS - 1 : d = x \div CS /\ m = x % CS /\ x = CS * d + m
  BY DivMod
<1>2. /\ d < GC => CS * d + CS <= CS * GC
      /\ GC <= d => CS * GC <= CS * d
      /\ CS * d \in Nat /\ CS * GC \in Nat /\ GC * CS = CS * GC
  BY Product, ImageConstants
<1>3. x < GC * CS <=> d < GC
  BY <1>1, <1>2, ImageConstants
<1>4. QED BY <1>1, <1>2, <1>3, ImageConstants

LEMMA SectorFacts ==
  ASSUME NEW x \in Sectors
  PROVE  x \in Nat /\ x \div CS \in G /\ x \div CS \in Nat /\ x % CS \in 0..CS - 1
<1>1. GC * CS \in Nat
  BY ImageConstants
<1>2. x \in Nat
  BY <1>1, ImageConstants
<1>3. QED BY <1>2, SectorCluster, DivMod

-----------------------------------------------------------------------------
(***************************************************************************)
(* What the invariant says of single things.                               *)
(***************************************************************************)
LEMMA ReqFields ==
  ASSUME Qcow2Typed, NEW r \in Reqs
  PROVE  /\ req[r] \in ReqTypes /\ req[r].st \in ReqStates /\ req[r].rg \in Nat \X Nat
         /\ req[r].rg[1] \in Nat /\ req[r].rg[2] \in Nat
         /\ req[r].pos \in Nat /\ req[r].left \in Nat /\ req[r].n \in Nat /\ req[r].nb \in Nat
         /\ req[r].off \in Nat /\ req[r].aoff \in Nat /\ InRange(req[r])
         /\ r \in Nat /\ r # 0
<1>1. req[r] \in ReqTypes /\ InRange(req[r])
  BY DEF Qcow2Typed, RequestsTyped
<1>2. r \in Nat /\ r # 0
  BY ImageConstants
<1>3. QED BY <1>1, <1>2 DEF ReqTypes

LEMMA ThrFields ==
  ASSUME Qcow2Typed
  PROVE  /\ thr.st \in ThrStates /\ thr.r \in Reqs \cup {0} /\ thr.ok \in BOOLEAN
         /\ thr.todo \in Seq(Reqs) /\ thr.olds \in SUBSET H /\ thr.new \in 0..HC
         /\ thr = [st |-> thr.st, r |-> thr.r, ok |-> thr.ok, todo |-> thr.todo,
                   olds |-> thr.olds, new |-> thr.new]
BY DEF Qcow2Typed, RequestsTyped, ThrTypes

LEMMA NewTableTyped ==
  /\ NewTable \in Tables /\ NoEntry \in Entries /\ NewTable # NoTable /\ NoEntry.off = 0
  /\ \A g \in G : NewTable[g] = NoEntry
<1>1. NoEntry \in Entries /\ NoEntry.off = 0
  BY ImageConstants DEF NoEntry, Entries
<1>2. NewTable \in Tables /\ \A g \in G : NewTable[g] = NoEntry
  BY <1>1 DEF NewTable, Tables
<1>3. 0 \in G /\ DOMAIN NewTable = G /\ DOMAIN NoTable = {}
  BY ImageConstants DEF NewTable, NoTable
<1>4. QED BY <1>1, <1>2, <1>3

LEMMA TableIsNot == \A t \in Tables : t # NoTable
<1>1. 0 \in G /\ DOMAIN NoTable = {}
  BY ImageConstants DEF NoTable
<1>2. \A t \in Tables : DOMAIN t = G
  BY DEF Tables
<1>3. QED BY <1>1, <1>2

LEMMA EntryFields ==
  ASSUME NEW e \in Entries
  PROVE  /\ e.off \in 0..HC /\ e.copied \in BOOLEAN /\ e = [off |-> e.off, copied |-> e.copied]
         /\ e.off \in Nat /\ (e.off # 0 => e.off \in H /\ e # NoEntry)
BY ImageConstants DEF Entries, NoEntry

LEMMA TableFacts ==
  ASSUME Qcow2Typed, TablesOK
  PROVE  /\ T \in Tables
         /\ \A g \in G : T[g] \in Entries
         /\ l1_table.off \in 0..HC
         /\ l1_table.off # 0 => l1_table.off \in H /\ T = blk[l1_table.off].t /\ l1_table.copied
         /\ l1_table.off = 0 => T = NewTable /\ l1_table = NoEntry
         /\ \A g \in G : T[g].off # 0 =>
              T[g].off \in H /\ T[g].copied /\ T[g].off # l1_table.off /\ refcount[T[g].off] = 1
         /\ \A g \in G : T[g].off = 0 => T[g] = NoEntry
<1>1. l1_table \in Entries /\ l1_table.off \in 0..HC
  BY EntryFields DEF Qcow2Typed, ImageTyped
<1>2. l1_table.off # 0 => l1_table.off \in H /\ T = blk[l1_table.off].t /\ l1_table.copied
  <2> SUFFICES ASSUME l1_table.off # 0
               PROVE  l1_table.off \in H /\ T = blk[l1_table.off].t /\ l1_table.copied
    OBVIOUS
  <2>1. l1_table # NoEntry
    BY NewTableTyped
  <2>2. QED BY <2>1 DEF TablesOK, T
<1>3. l1_table.off = 0 => T = NewTable /\ l1_table = NoEntry
  <2> SUFFICES ASSUME l1_table.off = 0 PROVE T = NewTable /\ l1_table = NoEntry
    OBVIOUS
  <2>1. 0 \notin H
    BY ImageConstants
  <2>2. QED BY <2>1 DEF TablesOK, T
<1>4. T \in Tables
  <2>1. CASE l1_table.off # 0
    <3>1. blk[l1_table.off] \in Clusters
      BY <2>1, <1>2 DEF Qcow2Typed, ImageTyped
    <3>2. QED BY <3>1, <2>1, <1>2 DEF Clusters
  <2>2. CASE l1_table.off = 0
    BY <2>2, <1>3, NewTableTyped
  <2>3. QED BY <2>1, <2>2
<1>5. \A g \in G : T[g] \in Entries
  BY <1>4 DEF Tables
<1>6. \A g \in G : T[g].off # 0 =>
        T[g].off \in H /\ T[g].copied /\ T[g].off # l1_table.off /\ refcount[T[g].off] = 1
  BY <1>5, NewTableTyped DEF TablesOK
<1>7. \A g \in G : T[g].off = 0 => T[g] = NoEntry
  <2>1. 0 \notin H
    BY ImageConstants
  <2>2. QED BY <2>1 DEF TablesOK
<1>8. QED BY <1>1, <1>2, <1>3, <1>4, <1>5, <1>6, <1>7

\* What the guest reads.
LEMMA ReadIs ==
  ASSUME Qcow2Typed, TablesOK, NEW x \in Sectors
  PROVE  qcow_read(x) = Reading(x)
<1>1. x \in Nat /\ x \div CS \in G
  BY SectorFacts
<1>2. CASE l1_table.off = 0
  <2>1. T[x \div CS].off = 0
    BY <1>1, <1>2, TableFacts, NewTableTyped
  <2>2. QED BY <1>2, <2>1, NewTableTyped DEF qcow_read, ReadBy, Reading
<1>3. CASE l1_table.off # 0
  <2>1. L2Of(l2_cache, l1_table.off) = T
    BY <1>3, TableFacts DEF L2Of, TablesOK
  <2>2. QED BY <1>3, <2>1 DEF qcow_read, ReadBy, Reading
<1>4. QED BY <1>2, <1>3

\* What a restart would find.
LEMMA DiskReadIs ==
  ASSUME Qcow2Typed, TablesOK, disk_l1 = l1_table, NEW x \in Sectors
  PROVE  DiskRead(disk_l1, x) = Reading(x)
<1>1. x \in Nat /\ x \div CS \in G
  BY SectorFacts
<1>2. CASE l1_table.off = 0
  <2>1. T[x \div CS].off = 0
    BY <1>1, <1>2, TableFacts, NewTableTyped
  <2>2. QED BY <1>2, <2>1, NewTableTyped DEF DiskRead, ReadBy, Reading
<1>3. CASE l1_table.off # 0
  <2>1. L2Of(NoL2Cache, l1_table.off) = T
    BY <1>3, TableFacts DEF L2Of, NoL2Cache
  <2>2. QED BY <1>3, <2>1 DEF DiskRead, ReadBy, Reading
<1>4. QED BY <1>2, <1>3

\* The sectors of a part, and where they go.
LEMMA PartFacts ==
  ASSUME Qcow2Typed, NEW r \in Reqs
  PROVE  /\ \A x \in Part(req[r]) : x \in Sectors /\ x \in Nat /\ x \div CS \in G /\ x % CS \in 0..CS - 1
         /\ \A x \in Part(req[r]) : Covers(r, x)
         /\ \A x \in Part(req[r]) : x >= req[r].pos /\ x < req[r].pos + req[r].n
                                     /\ x \div CS >= req[r].pos \div CS
         /\ req[r].pos \div CS \in Nat
<1>1. PICK q : q = req[r]
  OBVIOUS
<1>2. /\ q.rg[1] \in Nat /\ q.rg[2] \in Nat /\ q.pos \in Nat /\ q.left \in Nat /\ q.n \in Nat
      /\ q.n <= q.left /\ q.pos + q.left = q.rg[1] + q.rg[2] /\ q.rg[1] <= q.pos
      /\ q.rg[1] + q.rg[2] <= GC * CS
  BY <1>1, ReqFields DEF InRange
<1>3. ASSUME NEW x \in Part(q)
      PROVE  x \in Nat /\ x >= q.pos /\ x < q.pos + q.n /\ x < GC * CS
             /\ x >= q.rg[1] /\ x < q.rg[1] + q.rg[2]
  <2>1. GC * CS \in Nat
    BY ImageConstants
  <2>2. QED BY <1>2, <2>1 DEF Part
<1>4. ASSUME NEW x \in Part(q)
      PROVE  x \in Sectors /\ x \div CS \in G /\ x % CS \in 0..CS - 1 /\ x \div CS >= q.pos \div CS
  <2>1. GC * CS \in Nat
    BY ImageConstants
  <2>2. x \in Sectors
    BY <1>3, <2>1, ImageConstants
  <2>3. QED BY <1>2, <1>3, <2>2, SectorCluster, DivMod, DivOrder
<1>5. q.pos \div CS \in Nat
  BY <1>2, DivMod
<1>6. ASSUME NEW x \in Part(q) PROVE Covers(r, x)
  BY <1>1, <1>3 DEF Covers
<1>7. QED BY <1>1, <1>3, <1>4, <1>5, <1>6

LEMMA PlaceIs ==
  ASSUME Qcow2Typed, NEW r \in Reqs, NEW k \in Nat
  PROVE  Place(r, k) = <<Host(req[r], req[r].pos + k), (req[r].pos + k) % CS>>
<1>1. PICK p \in Nat, o \in Nat : p = req[r].pos /\ o = req[r].off
  BY ReqFields
<1>2. (p + k) \div CS = (p \div CS) + (((p % CS) + k) \div CS) /\ (p + k) % CS = ((p % CS) + k) % CS
  BY DivSum
<1>3. p \div CS \in Nat /\ p % CS \in Nat /\ (p % CS) + k \in Nat
  <2>1. p \div CS \in Nat /\ p % CS \in 0..CS - 1
    BY DivMod
  <2>2. p % CS \in Nat
    BY <2>1, ImageConstants
  <2>3. QED BY <2>1, <2>2
<1>4. ((p % CS) + k) \div CS \in Nat
  BY <1>3, DivMod
<1>5. o + (((p % CS) + k) \div CS) = o + ((p + k) \div CS) - (p \div CS)
  BY <1>2, <1>3, <1>4
<1>6. QED BY <1>1, <1>2, <1>5 DEF Place, Host

-----------------------------------------------------------------------------
(***************************************************************************)
(* Steps that leave parts of the state alone.                              *)
(***************************************************************************)

\* No cluster is given up.
NoneFreed == \A h \in H : refcount[h] = 1 => refcount'[h] = 1

LEMMA TablesKept ==
  ASSUME Qcow2Typed, TablesOK, UNCHANGED <<env, l1_table, disk_l1>>, T' = T, NoneFreed,
         l1_table.off # 0 => l2_cache'[l1_table.off] \in {NoTable, T}
  PROVE  TablesOK'
<1>1. /\ l1_table' # NoEntry => l1_table'.off \in H /\ l1_table'.copied /\ refcount'[l1_table'.off] = 1
  BY DEF TablesOK, NoneFreed
<1>2. disk_l1' \in {l1_table', NoEntry} /\ ("l1" \notin env'.fails => disk_l1' = l1_table')
  BY DEF TablesOK
<1>3. l1_table'.off # 0 => l2_cache'[l1_table'.off] \in {NoTable, T'}
  OBVIOUS
<1>4. \A g \in G : T'[g] # NoEntry =>
        T'[g].off \in H /\ T'[g].copied /\ T'[g].off # l1_table'.off /\ refcount'[T'[g].off] = 1
  BY DEF TablesOK, NoneFreed
<1>5. \A g, k \in G : T'[g].off = T'[k].off /\ T'[g].off # 0 => g = k
  BY DEF TablesOK
<1>6. QED BY <1>1, <1>2, <1>3, <1>4, <1>5 DEF TablesOK

LEMMA TableSame ==
  ASSUME UNCHANGED <<l1_table, blk>>
  PROVE  T' = T /\ \A x : Reading(x)' = Reading(x)
BY DEF T, Reading

\* The part that is written stays the same.
SamePart(q, p) == /\ p.pos = q.pos /\ p.n = q.n /\ p.off = q.off /\ p.nb = q.nb /\ p.aoff = q.aoff
                  /\ p.rg = q.rg

LEMMA SamePartIs ==
  ASSUME NEW q, NEW p, SamePart(q, p)
  PROVE  /\ Part(p) = Part(q) /\ Own(p) = Own(q) /\ Mine(p) = Mine(q)
         /\ \A x : Host(p, x) = Host(q, x)
BY DEF SamePart, Part, Own, Mine, Host

NewL2 == thr.st \in {"l2write", "l1write"}

LEMMA PartsKept ==
  ASSUME PartsOK, l1_table' = l1_table, T' = T, NoneFreed,
         \A r \in Reqs : Written(req'[r]) =>
           Written(req[r]) /\ SamePart(req[r], req'[r]) /\ (Linked(r)' <=> Linked(r)),
         NewL2' => NewL2 /\ thr'.new = thr.new
  PROVE  PartsOK'
<1>1. ASSUME NEW r \in Reqs, Written(req'[r])
      PROVE  IF Linked(r)' THEN InPlace(req[r])' ELSE FreshPart(req[r])'
  <2>1. Written(req[r]) /\ SamePart(req[r], req'[r]) /\ (Linked(r)' <=> Linked(r))
    BY <1>1
  <2>2. PICK q, p : q = req[r] /\ p = req'[r]
    OBVIOUS
  <2>3. /\ Part(p) = Part(q) /\ Own(p) = Own(q) /\ Mine(p) = Mine(q) /\ p.nb = q.nb
        /\ p.aoff = q.aoff /\ p.pos = q.pos /\ \A x : Host(p, x) = Host(q, x)
    BY <2>1, <2>2, SamePartIs DEF SamePart
  <2>4. CASE Linked(r)
    <3>1. InPlace(q)
      BY <2>1, <2>2, <2>4 DEF PartsOK
    <3>2. \A x \in Part(p) : T'[x \div CS].off = Host(p, x) /\ Host(p, x) \in H
      BY <3>1, <2>3 DEF InPlace
    <3>3. InPlace(req[r])'
      BY <3>2, <2>2 DEF InPlace
    <3>4. QED BY <3>3, <2>1, <2>4
  <2>5. CASE ~Linked(r)
    <3>1. FreshPart(q)
      BY <2>1, <2>2, <2>5 DEF PartsOK
    <3>2. /\ p.nb > 0 /\ p.aoff = p.pos /\ Own(p) \subseteq H
          /\ \A x \in Part(p) : x \div CS \in Mine(p)
      BY <3>1, <2>3 DEF FreshPart
    <3>3. \A h \in Own(p) : /\ refcount'[h] = 1 /\ h # l1_table'.off
                            /\ thr'.st \in {"l2write", "l1write"} => h # thr'.new
                            /\ \A g \in G : T'[g].off # h
      BY <3>1, <3>2, <2>3 DEF FreshPart, NoneFreed, NewL2
    <3>4. FreshPart(req[r])'
      BY <3>2, <3>3, <2>2 DEF FreshPart
    <3>5. QED BY <3>4, <2>1, <2>5
  <2>6. QED BY <2>4, <2>5
<1>2. ASSUME NEW r \in Reqs, NEW q \in Reqs, r # q, Written(req'[r]), Written(req'[q]),
             ~Linked(r)', ~Linked(q)'
      PROVE  Own(req'[r]) \cap Own(req'[q]) = {}
  <2>1. /\ Written(req[r]) /\ SamePart(req[r], req'[r]) /\ ~Linked(r)
        /\ Written(req[q]) /\ SamePart(req[q], req'[q]) /\ ~Linked(q)
    BY <1>2
  <2>2. Own(req'[r]) = Own(req[r]) /\ Own(req'[q]) = Own(req[q])
    BY <2>1, SamePartIs
  <2>3. QED BY <1>2, <2>1, <2>2 DEF PartsOK
<1>3. QED BY <1>1, <1>2 DEF PartsOK

\* The request r has clusters that are not linked.
Unfinished(r) == ~(thr.r = r /\ thr.st \in {"free", "deps"})

LEMMA AllocsKept ==
  ASSUME AllocsOK, cluster_allocs' = cluster_allocs,
         \A r \in Elements(cluster_allocs) :
           /\ req'[r].st \in {"io", "landed", "gone"} /\ SamePart(req[r], req'[r])
           /\ Unfinished(r)' => Unfinished(r) /\ \A g \in Mine(req[r]) : T[g] = NoEntry => T'[g] = NoEntry,
         \A r \in Reqs : Written(req'[r]) /\ req'[r].nb > 0 /\ thr'.r # r => r \in Elements(cluster_allocs)
  PROVE  AllocsOK'
<1>1. ASSUME NEW r \in Elements(cluster_allocs)
      PROVE  /\ req'[r].st \in {"io", "landed", "gone"} /\ req'[r].nb > 0 /\ Mine(req'[r]) \subseteq G
             /\ Unfinished(r)' => \A g \in Mine(req'[r]) : T'[g] = NoEntry
  <2>1. Mine(req'[r]) = Mine(req[r]) /\ req'[r].nb = req[r].nb
    BY SamePartIs DEF SamePart
  <2>2. /\ req[r].nb > 0 /\ Mine(req[r]) \subseteq G
        /\ Unfinished(r) => \A g \in Mine(req[r]) : T[g] = NoEntry
    BY DEF AllocsOK, Unfinished
  <2>3. QED BY <2>1, <2>2
<1>2. ASSUME NEW r \in Elements(cluster_allocs), NEW q \in Elements(cluster_allocs), r # q
      PROVE  Mine(req'[r]) \cap Mine(req'[q]) = {}
  <2>1. Mine(req'[r]) = Mine(req[r]) /\ Mine(req'[q]) = Mine(req[q])
    BY SamePartIs
  <2>2. QED BY <1>2, <2>1 DEF AllocsOK
<1>3. NoRepeat(cluster_allocs)
  BY DEF AllocsOK
<1>4. QED BY <1>1, <1>2, <1>3 DEF AllocsOK, Unfinished

\* No cluster that was counted for something loses it.
LEMMA CountsKept ==
  ASSUME CountsOK, env' = env, UNCHANGED <<l1_table, refcount>>, T' = T,
         Calm => Elements(cluster_allocs) \subseteq Elements(cluster_allocs'),
         \A r \in Elements(cluster_allocs) : Own(req'[r]) = Own(req[r]),
         NewL2 => NewL2' /\ thr'.new = thr.new
  PROVE  CountsOK'
<1> SUFFICES ASSUME Calm', NEW h \in H, refcount'[h] = 1
             PROVE  \/ h = l1_table'.off
                    \/ \E g \in G : T'[g].off = h
                    \/ \E r \in Elements(cluster_allocs') : h \in Own(req'[r])
                    \/ NewL2' /\ h = thr'.new
  BY DEF CountsOK, NewL2
<1>1. Calm
  BY DEF Calm
<1>2. \/ h = l1_table.off
      \/ \E g \in G : T[g].off = h
      \/ \E r \in Elements(cluster_allocs) : h \in Own(req[r])
      \/ NewL2 /\ h = thr.new
  BY <1>1 DEF CountsOK, NewL2
<1>3. QED BY <1>1, <1>2

\* What a write is done with are sectors.
LEMMA DoneSectors ==
  ASSUME Qcow2Typed, NEW r \in Reqs, NEW x \in req[r].rg[1]..req[r].pos - 1
  PROVE  x \in Sectors /\ Covers(r, x)
<1>1. PICK q : q = req[r]
  OBVIOUS
<1>2. /\ q.rg[1] \in Nat /\ q.rg[2] \in Nat /\ q.pos \in Nat /\ q.left \in Nat
      /\ q.pos + q.left = q.rg[1] + q.rg[2] /\ q.rg[1] + q.rg[2] <= GC * CS
  BY <1>1, ReqFields DEF InRange
<1>3. GC * CS \in Nat
  BY ImageConstants
<1>4. x \in Nat /\ x < GC * CS /\ x >= q.rg[1] /\ x < q.rg[1] + q.rg[2]
  BY <1>1, <1>2, <1>3
<1>5. QED BY <1>1, <1>3, <1>4, ImageConstants DEF Covers

LEMMA CoversIs ==
  ASSUME NEW r, req'[r].rg = req[r].rg
  PROVE  \A x : Covers(r, x)' <=> Covers(r, x)
BY DEF Covers

\* Reading and the requests stay the same.
LEMMA OverlapsKept ==
  ASSUME OverlapsOK, may' = may,
         \A r \in Reqs : Outstanding(r)' => Outstanding(r) /\ req'[r].rg = req[r].rg
  PROVE  OverlapsOK'
<1> SUFFICES ASSUME NEW r \in Reqs, Outstanding(r)'
             PROVE  /\ \A x \in Sectors : Covers(r, x)' => r \in may'[x]
                    /\ \A q \in Reqs \ {r} : Outstanding(q)' =>
                         \A x \in Sectors : ~(Covers(r, x)' /\ Covers(q, x)')
  BY DEF OverlapsOK
<1>1. Outstanding(r) /\ \A x : Covers(r, x)' <=> Covers(r, x)
  BY CoversIs
<1>2. \A x \in Sectors : Covers(r, x)' => r \in may'[x]
  BY <1>1 DEF OverlapsOK
<1>3. ASSUME NEW q \in Reqs \ {r}, Outstanding(q)', NEW x \in Sectors
      PROVE  ~(Covers(r, x)' /\ Covers(q, x)')
  <2>1. Outstanding(q) /\ (Covers(q, x)' <=> Covers(q, x))
    BY <1>3, CoversIs
  <2>2. QED BY <2>1, <1>1, <1>3 DEF OverlapsOK
<1>4. QED BY <1>2, <1>3

LEMMA DoneKept ==
  ASSUME Qcow2Typed, DoneOK, \A x \in Sectors : Reading(x)' = Reading(x),
         \A r \in Reqs : Outstanding(r)' => Outstanding(r) /\ req'[r].rg = req[r].rg /\ req'[r].pos = req[r].pos
  PROVE  DoneOK'
<1> SUFFICES ASSUME NEW r \in Reqs, Outstanding(r)', NEW x \in req'[r].rg[1]..req'[r].pos - 1
             PROVE  Reading(x)' = r
  BY DEF DoneOK
<1>1. Outstanding(r) /\ x \in req[r].rg[1]..req[r].pos - 1
  OBVIOUS
<1>2. Reading(x) = r
  BY <1>1 DEF DoneOK
<1>3. QED BY <1>1, <1>2, DoneSectors

LEMMA ReadsKept ==
  ASSUME ReadsOK, may' = may, \A x \in Sectors : Reading(x)' = Reading(x)
  PROVE  ReadsOK'
BY DEF ReadsOK

LEMMA LandedKept ==
  ASSUME LandedOK, blk' = blk,
         \A r \in Reqs : req'[r].st = "landed" => req[r].st = "landed" /\ SamePart(req[r], req'[r])
  PROVE  LandedOK'
<1> SUFFICES ASSUME NEW r \in Reqs, req'[r].st = "landed", NEW x \in Part(req'[r])
             PROVE  blk[Host(req'[r], x)].d[x % CS] = r
  BY DEF LandedOK
<1>1. req[r].st = "landed" /\ Part(req'[r]) = Part(req[r]) /\ Host(req'[r], x) = Host(req[r], x)
  BY SamePartIs
<1>2. QED BY <1>1 DEF LandedOK

\* The invariant, in parts.
LEMMA InvIs ==
  ASSUME QcowInv
  PROVE  /\ Qcow2Typed /\ ThreadOK /\ WaitingOK /\ TablesOK /\ NewL2OK /\ PartsOK /\ AllocsOK /\ CountsOK
         /\ ReadsOK /\ OverlapsOK /\ DoneOK /\ LandedOK /\ LinkOK /\ LinkedOK
BY DEF QcowInv, DataOK

-----------------------------------------------------------------------------
(***************************************************************************)
(* Steps of the thread alone.                                              *)
(***************************************************************************)
LEMMA ThreadStep ==
  ASSUME QcowInv, env' = env,
         UNCHANGED <<refcount, blk, disk_l1, snap, l1_table, free_cluster_index, req, cluster_allocs,
                     dependent_requests, may>>,
         l2_cache' \in [H -> Tables \cup {NoTable}],
         l1_table.off # 0 => l2_cache'[l1_table.off] \in {NoTable, T},
         thr' \in ThrTypes, thr'.todo = thr.todo, ThreadOK', ~NewL2, ~NewL2',
         thr'.st = "alloc" => l1_table.off # 0 /\ l2_cache'[l1_table.off] = T,
         thr'.st # "link", LinkedOK',
         \A r \in Reqs : Written(req[r]) => (Linked(r)' <=> Linked(r)),
         \A r \in Elements(cluster_allocs) : Unfinished(r)' => Unfinished(r),
         \A r \in Reqs : Written(req[r]) /\ req[r].nb > 0 /\ thr'.r # r => r \in Elements(cluster_allocs)
  PROVE  QcowInv'
<1>1. /\ Qcow2Typed /\ ThreadOK /\ WaitingOK /\ TablesOK /\ NewL2OK /\ PartsOK /\ AllocsOK /\ CountsOK
      /\ ReadsOK /\ OverlapsOK /\ DoneOK /\ LandedOK /\ LinkOK
  BY InvIs
<1>2. T' = T /\ \A x : Reading(x)' = Reading(x)
  BY TableSame
<1>3. Qcow2Typed'
  BY <1>1 DEF Qcow2Typed, ImageTyped, RequestsTyped
<1>4. WaitingOK'
  BY <1>1 DEF WaitingOK
<1>5. NoneFreed
  BY DEF NoneFreed
<1>6. TablesOK'
  BY <1>1, <1>2, <1>5, TablesKept
<1>7. NewL2OK'
  BY <1>1, <1>2 DEF NewL2OK, NewL2
<1>8. \A r \in Reqs : SamePart(req[r], req'[r])
  BY DEF SamePart
<1>9. PartsOK'
  BY <1>1, <1>2, <1>5, <1>8, PartsKept
<1>10. AllocsOK'
  <2>1. \A r \in Elements(cluster_allocs) : r \in Reqs /\ req[r].st \in {"io", "landed", "gone"}
    BY <1>1, ListType DEF AllocsOK, Qcow2Typed, RequestsTyped
  <2>2. QED BY <1>1, <1>2, <1>8, <2>1, AllocsKept
<1>11. CountsOK'
  BY <1>1, <1>2, CountsKept
<1>12. \A r \in Reqs : Outstanding(r)' <=> Outstanding(r)
  BY DEF Outstanding
<1>13. ReadsOK' /\ OverlapsOK' /\ DoneOK' /\ LandedOK'
  BY <1>1, <1>2, <1>8, <1>12, ReadsKept, OverlapsKept, DoneKept, LandedKept
<1>14. LinkOK'
  BY DEF LinkOK
<1>15. QED BY <1>3, <1>4, <1>6, <1>7, <1>9, <1>10, <1>11, <1>13, <1>14 DEF QcowInv, DataOK

LEMMA IdleTyped == IdleThread \in ThrTypes
BY ImageConstants DEF IdleThread, ThrTypes, ThrStates

LEMMA WriteDoneKeeps ==
  ASSUME QcowInv, env' = env, NEW r \in Reqs, WriteDone(r)
  PROVE  QcowInv'
<1>1. Qcow2Typed /\ ThreadOK /\ AllocsOK /\ TablesOK
  BY InvIs
<1>2. PICK s \in {"copy", "deps"} : s = IF req[r].nb = 0 THEN "deps" ELSE "copy"
  OBVIOUS
<1>3. thr' = [st |-> s, r |-> r, ok |-> TRUE, todo |-> <<>>, olds |-> {}, new |-> 0]
  BY <1>2 DEF WriteDone, IdleThread
<1>4. thr.st = "idle" /\ thr.r = 0 /\ thr.todo = <<>> /\ req[r].st = "landed" /\ r # 0
  BY <1>1, ImageConstants DEF WriteDone, ThreadOK, Going
<1>5. UNCHANGED <<refcount, blk, disk_l1, snap, l1_table, l2_cache, free_cluster_index, req,
                  cluster_allocs, dependent_requests, may>>
  BY DEF WriteDone, image, memory, queues, ghosts
<1>6. thr' \in ThrTypes
  BY <1>3, ImageConstants DEF ThrTypes, ThrStates
<1>7. req[r].nb \in Nat
  BY <1>1, ReqFields
<1>8. ThreadOK'
  <2>1. thr'.st \in {"copy", "deps"} /\ thr'.r = r /\ thr'.ok /\ thr'.todo = <<>> /\ req' = req
        /\ cluster_allocs' = cluster_allocs /\ (thr'.st = "copy" => req[r].nb > 0)
    BY <1>2, <1>3, <1>5, <1>7
  <2>2. req[r].nb > 0 => r \in Elements(cluster_allocs)
    BY <1>1, <1>4 DEF AllocsOK, Written
  <2>3. QED BY <2>1, <2>2, <1>4 DEF ThreadOK, Going, Written
<1>9. \A q \in Reqs : Linked(q)' <=> Linked(q)
  <2> SUFFICES ASSUME NEW q \in Reqs PROVE Linked(q)' <=> Linked(q)
    OBVIOUS
  <2>1. q # 0
    BY ImageConstants
  <2>2. thr'.r = r /\ thr'.ok /\ thr'.st = s /\ req' = req
    BY <1>3, <1>5
  <2>3. Linked(q) <=> req[q].nb = 0
    BY <2>1, <1>4 DEF Linked
  <2>4. Linked(q)' <=> req[q].nb = 0
    BY <2>2, <1>2 DEF Linked
  <2>5. QED BY <2>3, <2>4
<1>10. \A q \in Elements(cluster_allocs) : Unfinished(q)
  BY <1>4 DEF Unfinished
<1>11. \A q \in Reqs : Written(req[q]) /\ req[q].nb > 0 => q \in Elements(cluster_allocs)
  BY <1>1, <1>4, ImageConstants DEF AllocsOK
<1>12. ~NewL2 /\ ~NewL2' /\ thr'.st # "alloc" /\ thr'.st # "link" /\ thr'.todo = thr.todo
  BY <1>3, <1>4 DEF NewL2
<1>13. l2_cache' \in [H -> Tables \cup {NoTable}]
       /\ (l1_table.off # 0 => l2_cache'[l1_table.off] \in {NoTable, T})
  BY <1>1, <1>5 DEF Qcow2Typed, ImageTyped, TablesOK
<1>14. LinkedOK'
  <2> SUFFICES ASSUME thr'.st = "deps" PROVE \A g \in Mine(req[r]) : FALSE
    BY <1>3, <1>5 DEF LinkedOK
  <2>1. req[r].nb = 0 /\ req[r].aoff \div CS \in Nat
    BY <1>1, <1>2, <1>3, ReqFields, DivMod
  <2>2. QED BY <2>1 DEF Mine
<1>15. QED BY <1>5, <1>6, <1>8, <1>9, <1>10, <1>11, <1>12, <1>13, <1>14, ThreadStep

LEMMA WriteFailedKeeps ==
  ASSUME QcowInv, env' = env, NEW r \in Reqs, WriteFailed(r)
  PROVE  QcowInv'
<1>1. Qcow2Typed /\ ThreadOK /\ AllocsOK /\ TablesOK
  BY InvIs
<1>3. thr' = [st |-> "deps", r |-> r, ok |-> FALSE, todo |-> <<>>, olds |-> {}, new |-> 0]
  BY DEF WriteFailed, IdleThread
<1>4. thr.st = "idle" /\ thr.r = 0 /\ thr.todo = <<>> /\ req[r].st = "io" /\ r # 0
  BY <1>1, ImageConstants DEF WriteFailed, ThreadOK, Going
<1>5. UNCHANGED <<refcount, blk, disk_l1, snap, l1_table, l2_cache, free_cluster_index, req,
                  cluster_allocs, dependent_requests, may>>
  BY DEF WriteFailed, image, memory, queues, ghosts
<1>6. thr' \in ThrTypes
  BY <1>3, ImageConstants DEF ThrTypes, ThrStates
<1>8. ThreadOK'
  <2>1. thr'.st = "deps" /\ thr'.r = r /\ ~thr'.ok /\ thr'.todo = <<>> /\ req' = req
        /\ cluster_allocs' = cluster_allocs
    BY <1>3, <1>5
  <2>2. req[r].nb > 0 => r \in Elements(cluster_allocs)
    BY <1>1, <1>4 DEF AllocsOK, Written
  <2>3. env.fails # {}
    BY DEF WriteFailed
  <2>4. QED BY <2>1, <2>2, <2>3, <1>4 DEF ThreadOK, Going, Written
<1>9. \A q \in Reqs : Linked(q)' <=> Linked(q)
  <2> SUFFICES ASSUME NEW q \in Reqs PROVE Linked(q)' <=> Linked(q)
    OBVIOUS
  <2>1. q # 0
    BY ImageConstants
  <2>2. ~thr'.ok /\ req' = req
    BY <1>3, <1>5
  <2>3. QED BY <2>1, <2>2, <1>4 DEF Linked
<1>10. \A q \in Elements(cluster_allocs) : Unfinished(q)
  BY <1>4 DEF Unfinished
<1>11. \A q \in Reqs : Written(req[q]) /\ req[q].nb > 0 => q \in Elements(cluster_allocs)
  BY <1>1, <1>4, ImageConstants DEF AllocsOK
<1>12. ~NewL2 /\ ~NewL2' /\ thr'.st # "alloc" /\ thr'.st # "link" /\ thr'.todo = thr.todo
  BY <1>3, <1>4 DEF NewL2
<1>13. l2_cache' \in [H -> Tables \cup {NoTable}]
       /\ (l1_table.off # 0 => l2_cache'[l1_table.off] \in {NoTable, T})
  BY <1>1, <1>5 DEF Qcow2Typed, ImageTyped, TablesOK
<1>14. LinkedOK'
  BY <1>3 DEF LinkedOK
<1>15. QED BY <1>5, <1>6, <1>8, <1>9, <1>10, <1>11, <1>12, <1>13, <1>14, ThreadStep

\* The thread's record, with another state.
LEMMA ThrWith ==
  ASSUME Qcow2Typed, NEW s \in ThrStates, thr' = [thr EXCEPT !.st = s]
  PROVE  /\ thr' \in ThrTypes /\ thr'.st = s /\ thr'.r = thr.r /\ thr'.ok = thr.ok
         /\ thr'.todo = thr.todo /\ thr'.olds = thr.olds /\ thr'.new = thr.new
BY DEF Qcow2Typed, RequestsTyped, ThrTypes

LEMMA FreeOldKeeps ==
  ASSUME QcowInv, env' = env, FreeOld
  PROVE  QcowInv'
<1>1. Qcow2Typed /\ ThreadOK /\ AllocsOK /\ TablesOK
  BY InvIs
<1>2. thr.st = "free" /\ thr.olds = {}
  BY <1>1 DEF FreeOld, ThreadOK
<1>3. thr' = [thr EXCEPT !.st = "deps"]
  BY <1>2 DEF FreeOld
<1>4. UNCHANGED <<refcount, blk, disk_l1, snap, l1_table, l2_cache, free_cluster_index, req,
                  cluster_allocs, dependent_requests, may>>
  BY <1>2 DEF FreeOld, queues, ghosts
<1>5. /\ thr' \in ThrTypes /\ thr'.st = "deps" /\ thr'.r = thr.r /\ thr'.ok = thr.ok
      /\ thr'.todo = thr.todo
  BY <1>1, <1>3, ThrWith DEF ThrStates
<1>6. ThreadOK'
  BY <1>1, <1>2, <1>4, <1>5 DEF ThreadOK, Going
<1>7. \A q \in Reqs : Linked(q)' <=> Linked(q)
  BY <1>2, <1>4, <1>5 DEF Linked
<1>8. \A q \in Elements(cluster_allocs) : Unfinished(q)' => Unfinished(q)
  BY <1>2, <1>5 DEF Unfinished
<1>9. \A q \in Reqs : Written(req[q]) /\ req[q].nb > 0 /\ thr'.r # q => q \in Elements(cluster_allocs)
  BY <1>1, <1>5 DEF AllocsOK
<1>10. ~NewL2 /\ ~NewL2' /\ thr'.st # "alloc" /\ thr'.st # "link"
  BY <1>2, <1>5 DEF NewL2
<1>11. l2_cache' \in [H -> Tables \cup {NoTable}]
       /\ (l1_table.off # 0 => l2_cache'[l1_table.off] \in {NoTable, T})
  BY <1>1, <1>4 DEF Qcow2Typed, ImageTyped, TablesOK
<1>12. LinkedOK'
  BY <1>2, <1>4, <1>5, InvIs, TableSame DEF LinkedOK
<1>13. QED BY <1>4, <1>5, <1>6, <1>7, <1>8, <1>9, <1>10, <1>11, <1>12, ThreadStep

LEMMA LoadKeeps ==
  ASSUME QcowInv, env' = env, l2_load
  PROVE  QcowInv'
<1>1. Qcow2Typed /\ ThreadOK /\ AllocsOK /\ TablesOK
  BY InvIs
<1>2. thr.st = "table" /\ l1_table.copied
  BY DEF l2_load
<1>3. thr' = [thr EXCEPT !.st = "alloc"]
  BY <1>2 DEF l2_load
<1>4. UNCHANGED <<refcount, blk, disk_l1, snap, l1_table, free_cluster_index, req,
                  cluster_allocs, dependent_requests, may>>
  BY DEF l2_load, image, queues, ghosts
<1>5. /\ thr' \in ThrTypes /\ thr'.st = "alloc" /\ thr'.r = thr.r /\ thr'.ok = thr.ok
      /\ thr'.todo = thr.todo
  BY <1>1, <1>3, ThrWith DEF ThrStates
<1>6. ThreadOK'
  <2>1. \A i : Back(i)' <=> Back(i)
    BY <1>4, <1>5 DEF Back
  <2>2. QED BY <1>1, <1>2, <1>4, <1>5, <2>1 DEF ThreadOK, Going
<1>7. \A q \in Reqs : Linked(q)' <=> Linked(q)
  BY <1>2, <1>4, <1>5 DEF Linked
<1>8. \A q \in Elements(cluster_allocs) : Unfinished(q)' => Unfinished(q)
  BY <1>2, <1>5 DEF Unfinished
<1>9. \A q \in Reqs : Written(req[q]) /\ req[q].nb > 0 /\ thr'.r # q => q \in Elements(cluster_allocs)
  BY <1>1, <1>5 DEF AllocsOK
<1>10. ~NewL2 /\ ~NewL2' /\ thr'.st # "link"
  BY <1>2, <1>5 DEF NewL2
<1>11. l1_table.off \in H /\ L2Of(l2_cache, l1_table.off) = T /\ T \in Tables /\ l1_table.off # 0
  <2>1. l1_table # NoEntry
    BY <1>2 DEF NoEntry
  <2>2. l1_table.off \in H /\ l1_table.off # 0
    BY <2>1, <1>1, ImageConstants DEF TablesOK
  <2>3. QED BY <2>2, <1>1, TableFacts DEF TablesOK, L2Of
<1>12. l2_cache' = [l2_cache EXCEPT ![l1_table.off] = T]
  BY <1>11 DEF l2_load
<1>13. l2_cache' \in [H -> Tables \cup {NoTable}] /\ l2_cache'[l1_table.off] = T
  BY <1>1, <1>11, <1>12 DEF Qcow2Typed, ImageTyped
<1>14. LinkedOK'
  BY <1>5 DEF LinkedOK
<1>15. QED BY <1>4, <1>5, <1>6, <1>7, <1>8, <1>9, <1>10, <1>11, <1>13, <1>14, ThreadStep

LEMMA LinkFailedKeeps ==
  ASSUME QcowInv, env' = env, LinkFailed
  PROVE  QcowInv'
<1>1. Qcow2Typed /\ ThreadOK /\ AllocsOK /\ TablesOK
  BY InvIs
<1>2. thr.st \in {"copy", "link"}
  BY DEF LinkFailed
<1>3. thr' = [thr EXCEPT !.st = "deps", !.ok = FALSE]
  BY <1>2 DEF LinkFailed
<1>4. UNCHANGED <<refcount, blk, disk_l1, snap, l1_table, free_cluster_index, req,
                  cluster_allocs, dependent_requests, may>>
  BY DEF LinkFailed, image, queues, ghosts
<1>5. /\ thr' \in ThrTypes /\ thr'.st = "deps" /\ thr'.r = thr.r /\ ~thr'.ok
      /\ thr'.todo = thr.todo
  BY <1>1, <1>3 DEF Qcow2Typed, RequestsTyped, ThrTypes, ThrStates
<1>6. ThreadOK'
  <2>1. env.fails # {}
    BY DEF LinkFailed
  <2>2. QED BY <2>1, <1>1, <1>2, <1>4, <1>5 DEF ThreadOK, Going
<1>7. \A q \in Reqs : Linked(q)' <=> Linked(q)
  BY <1>2, <1>4, <1>5 DEF Linked
<1>8. \A q \in Elements(cluster_allocs) : Unfinished(q)' => Unfinished(q)
  BY <1>2 DEF Unfinished
<1>9. \A q \in Reqs : Written(req[q]) /\ req[q].nb > 0 /\ thr'.r # q => q \in Elements(cluster_allocs)
  BY <1>1, <1>5 DEF AllocsOK
<1>10. ~NewL2 /\ ~NewL2' /\ thr'.st # "alloc" /\ thr'.st # "link"
  BY <1>2, <1>5 DEF NewL2
<1>11. l2_cache' = l2_cache \/ l2_cache' = NoL2Cache
  BY DEF LinkFailed
<1>12. l2_cache' \in [H -> Tables \cup {NoTable}]
       /\ (l1_table.off # 0 => l2_cache'[l1_table.off] \in {NoTable, T})
  BY <1>1, <1>11, TableFacts DEF Qcow2Typed, ImageTyped, TablesOK, NoL2Cache
<1>13. LinkedOK'
  BY <1>5 DEF LinkedOK
<1>14. QED BY <1>4, <1>5, <1>6, <1>7, <1>8, <1>9, <1>10, <1>12, <1>13, ThreadStep

-----------------------------------------------------------------------------
(***************************************************************************)
(* Steps that leave the image alone.                                       *)
(***************************************************************************)
LEMMA RequestStep ==
  ASSUME QcowInv, env' = env,
         UNCHANGED <<refcount, blk, disk_l1, snap, l1_table, l2_cache, free_cluster_index>>,
         RequestsTyped', \A r \in Reqs : InRange(req'[r]),
         ThreadOK', WaitingOK', ~NewL2, ~NewL2', thr'.st \notin {"alloc", "link", "free", "deps"},
         \A r \in Reqs : Written(req'[r]) =>
           Written(req[r]) /\ SamePart(req[r], req'[r]) /\ (Linked(r)' <=> Linked(r)),
         \A r \in Reqs : req'[r].st = "landed" => req[r].st = "landed",
         AllocsOK', CountsOK', ReadsOK', OverlapsOK', DoneOK'
  PROVE  QcowInv'
<1>1. /\ Qcow2Typed /\ TablesOK /\ NewL2OK /\ PartsOK /\ LandedOK
  BY InvIs
<1>2. T' = T
  BY TableSame
<1>3. Qcow2Typed'
  BY <1>1 DEF Qcow2Typed, ImageTyped
<1>4. NoneFreed
  BY DEF NoneFreed
<1>5. TablesOK'
  BY <1>1, <1>2, <1>4, TablesKept DEF TablesOK
<1>6. NewL2OK'
  BY <1>1, <1>2 DEF NewL2OK, NewL2
<1>7. PartsOK'
  BY <1>1, <1>2, <1>4, PartsKept
<1>8. LandedOK'
  <2>1. \A r \in Reqs : req'[r].st = "landed" => req[r].st = "landed" /\ SamePart(req[r], req'[r])
    BY DEF Written
  <2>2. QED BY <1>1, <2>1, LandedKept
<1>9. LinkOK' /\ LinkedOK'
  BY DEF LinkOK, LinkedOK
<1>10. QED BY <1>3, <1>5, <1>6, <1>7, <1>8, <1>9 DEF QcowInv, DataOK

\* A list of one.
LEMMA OneList ==
  ASSUME NEW r \in Reqs
  PROVE  /\ <<r>> \in Seq(Reqs) /\ <<r>> # <<>> /\ NoRepeat(<<r>>) /\ Elements(<<r>>) = {r}
         /\ Len(<<r>>) = 1 /\ <<r>>[1] = r
BY DEF NoRepeat, Elements

LEMMA WritevKeeps ==
  ASSUME QcowInv, env' = env, NEW r \in Reqs, NEW rg \in Ranges, qcow_aio_writev(r, rg)
  PROVE  QcowInv'
<1>1. /\ Qcow2Typed /\ ThreadOK /\ WaitingOK /\ TablesOK /\ AllocsOK /\ CountsOK
      /\ ReadsOK /\ OverlapsOK /\ DoneOK
  BY InvIs
<1>2. PICK q : q = req[r]
  OBVIOUS
<1>3. PICK p : p = [q EXCEPT !.st = "run", !.rg = rg, !.pos = rg[1], !.left = rg[2]]
  OBVIOUS
<1>4. q \in ReqTypes /\ q.st = "new" /\ thr.st = "idle" /\ req \in [Reqs -> ReqTypes]
  BY <1>1, <1>2, ReqFields DEF qcow_aio_writev, Qcow2Typed, RequestsTyped
<1>5. req' = [req EXCEPT ![r] = p]
  <2>1. req' = [req EXCEPT ![r] = [req[r] EXCEPT !.st = "run", !.rg = rg, !.pos = rg[1], !.left = rg[2]]]
    BY <1>4 DEF qcow_aio_writev
  <2>2. QED BY <2>1, <1>2, <1>3
<1>6. req'[r] = p /\ \A x \in Reqs \ {r} : req'[x] = req[x]
  BY <1>4, <1>5
<1>7. rg \in Nat \X Nat /\ rg[1] \in Nat /\ rg[2] \in Nat /\ rg[2] >= 1 /\ rg[1] + rg[2] <= GC * CS
  <2>1. GC * CS \in Nat
    BY ImageConstants
  <2>2. rg \in Sectors \X Nat /\ rg[2] \in 1..GC * CS - rg[1]
    BY Qcow2Assumption
  <2>3. rg[1] \in Sectors /\ rg[2] \in Nat /\ rg = <<rg[1], rg[2]>>
    BY <2>2
  <2>4. rg[1] \in Nat
    BY <2>3, SectorFacts
  <2>5. QED BY <2>1, <2>2, <2>3, <2>4
<1>8. q.n = 0
  BY <1>1, <1>2, <1>4, ReqFields DEF InRange
<1>9. p \in ReqTypes /\ InRange(p) /\ p.st = "run" /\ p.rg = rg /\ p.pos = rg[1]
  <2>1. p \in ReqTypes
    BY <1>3, <1>4, <1>7 DEF ReqTypes, ReqStates
  <2>2. p.st = "run" /\ p.rg = rg /\ p.pos = rg[1] /\ p.left = rg[2] /\ p.n = q.n
    BY <1>3, <1>4 DEF ReqTypes
  <2>3. QED BY <2>1, <2>2, <1>7, <1>8 DEF InRange
<1>10. thr' = [st |-> "cont", r |-> r, ok |-> TRUE, todo |-> <<r>>, olds |-> {}, new |-> 0]
  BY DEF qcow_aio_writev, IdleThread
<1>11. thr.r = 0 /\ thr.todo = <<>> /\ r # 0
  BY <1>1, <1>4, ImageConstants DEF ThreadOK, Going
<1>12. UNCHANGED <<refcount, blk, disk_l1, snap, l1_table, l2_cache, free_cluster_index,
                   cluster_allocs, dependent_requests>>
  BY DEF qcow_aio_writev, image, memory, queues
<1>13. PICK mine : mine = rg[1]..rg[1] + rg[2] - 1
  OBVIOUS
<1>14. /\ may' = [x \in Sectors |-> may[x] \cup (IF x \in mine THEN {r} ELSE {})]
       /\ \A y \in Reqs : Outstanding(y) => \A x \in mine : ~Covers(y, x)
  BY <1>13 DEF qcow_aio_writev
<1>15. RequestsTyped'
  <2>1. req' \in [Reqs -> ReqTypes]
    BY <1>4, <1>5, <1>9
  <2>2. thr' \in ThrTypes
    BY <1>10, OneList, ImageConstants DEF ThrTypes, ThrStates
  <2>3. may' \in [Sectors -> SUBSET Nat]
    <3>1. may \in [Sectors -> SUBSET Nat] /\ r \in Nat
      BY <1>1, ImageConstants DEF Qcow2Typed, RequestsTyped
    <3>2. \A x \in Sectors : may[x] \cup (IF x \in mine THEN {r} ELSE {}) \in SUBSET Nat
      BY <3>1
    <3>3. QED BY <3>2, <1>14
  <2>4. QED BY <1>1, <1>12, <2>1, <2>2, <2>3 DEF Qcow2Typed, RequestsTyped
<1>16. \A x \in Reqs : InRange(req'[x])
  BY <1>1, <1>6, <1>9 DEF Qcow2Typed
<1>17. ThreadOK'
  <2>1. thr'.st = "cont" /\ thr'.r = r /\ thr'.ok /\ thr'.todo = <<r>> /\ req'[r].st = "run"
    BY <1>6, <1>9, <1>10
  <2>2. \A i \in 1..Len(<<r>>) : i = 1
    BY OneList
  <2>3. QED BY <2>1, <2>2, <1>11, OneList DEF ThreadOK, Going
<1>18. \A x \in Reqs : req[x].st # "new" => req'[x] = req[x] /\ x # r
  BY <1>2, <1>4, <1>6
<1>19. WaitingOK'
  <2>1. \A x \in Reqs : \A y \in Elements(dependent_requests[x]) : y \in Reqs /\ req[y].st = "wait"
    BY <1>1, ListType DEF WaitingOK, Qcow2Typed, RequestsTyped
  <2>2. Elements(thr'.todo) = {r}
    BY <1>10, OneList
  <2>3. QED BY <2>1, <2>2, <1>1, <1>12, <1>18 DEF WaitingOK
<1>20. \A x \in Reqs : Written(req'[x]) =>
         Written(req[x]) /\ SamePart(req[x], req'[x]) /\ (Linked(x)' <=> Linked(x)) /\ x # r
  <2> SUFFICES ASSUME NEW x \in Reqs, Written(req'[x])
               PROVE  Written(req[x]) /\ SamePart(req[x], req'[x]) /\ (Linked(x)' <=> Linked(x)) /\ x # r
    OBVIOUS
  <2>1. x # r /\ req'[x] = req[x] /\ x # 0
    BY <1>6, <1>9, ImageConstants DEF Written
  <2>2. thr'.r = r
    BY <1>10
  <2>3. QED BY <2>1, <2>2, <1>11 DEF SamePart, Linked
<1>21. \A x \in Reqs : req'[x].st = "landed" => req[x].st = "landed"
  BY <1>6, <1>9
<1>22. T' = T /\ \A x : Reading(x)' = Reading(x)
  BY <1>12, TableSame
<1>23. \A x \in Elements(cluster_allocs) : x \in Reqs /\ req'[x] = req[x]
          /\ req[x].st \in {"io", "landed", "gone"} /\ x # r
  BY <1>1, <1>18, ListType DEF AllocsOK, Qcow2Typed, RequestsTyped
<1>24. AllocsOK'
  <2>1. \A x \in Elements(cluster_allocs) : Unfinished(x)
    BY <1>4 DEF Unfinished
  <2>2. \A x \in Elements(cluster_allocs) : SamePart(req[x], req'[x])
    BY <1>23 DEF SamePart
  <2>3. \A x \in Reqs : Written(req'[x]) /\ req'[x].nb > 0 => x \in Elements(cluster_allocs)
    BY <1>1, <1>6, <1>11, <1>20, ImageConstants DEF AllocsOK
  <2>4. QED BY <1>1, <1>12, <1>22, <1>23, <2>1, <2>2, <2>3, AllocsKept
<1>25. CountsOK'
  <2>1. ~NewL2
    BY <1>4 DEF NewL2
  <2>2. QED BY <2>1, <1>1, <1>12, <1>22, <1>23, CountsKept
<1>26. ReadsOK'
  <2> SUFFICES ASSUME NEW x \in Sectors PROVE Reading(x) \in may'[x]
    BY <1>22 DEF ReadsOK
  <2>1. Reading(x) \in may[x]
    BY <1>1 DEF ReadsOK
  <2>2. QED BY <2>1, <1>14
<1>27. \A x \in Sectors : Covers(r, x)' <=> x \in mine
  <2> SUFFICES ASSUME NEW x \in Sectors PROVE Covers(r, x)' <=> x \in mine
    OBVIOUS
  <2>1. Covers(r, x)' <=> (x >= rg[1] /\ x < rg[1] + rg[2])
    BY <1>6, <1>9 DEF Covers
  <2>2. x \in Nat
    BY SectorFacts
  <2>3. QED BY <2>1, <2>2, <1>7, <1>13
<1>28. OverlapsOK'
  <2>1. ASSUME NEW y \in Reqs \ {r}
        PROVE  (Outstanding(y)' <=> Outstanding(y)) /\ \A x : Covers(y, x)' <=> Covers(y, x)
    BY <1>6 DEF Outstanding, Covers
  <2>2. ASSUME NEW y \in Reqs, Outstanding(y)', NEW x \in Sectors, Covers(y, x)'
        PROVE  y \in may'[x]
    <3>1. CASE y = r
      BY <3>1, <2>2, <1>27, <1>14
    <3>2. CASE y # r
      <4>1. y \in may[x]
        BY <3>2, <2>1, <2>2, <1>1 DEF OverlapsOK
      <4>2. QED BY <4>1, <1>14
    <3>3. QED BY <3>1, <3>2
  <2>3. ASSUME NEW y \in Reqs, NEW z \in Reqs \ {y}, Outstanding(y)', Outstanding(z)', NEW x \in Sectors
        PROVE  ~(Covers(y, x)' /\ Covers(z, x)')
    <3>1. CASE y = r
      BY <3>1, <2>1, <2>3, <1>14, <1>27
    <3>2. CASE z = r
      BY <3>2, <2>1, <2>3, <1>14, <1>27
    <3>3. CASE y # r /\ z # r
      <4>1. Outstanding(y) /\ Outstanding(z)
        BY <3>3, <2>1, <2>3
      <4>2. ~(Covers(y, x) /\ Covers(z, x))
        BY <4>1, <2>3, <1>1 DEF OverlapsOK
      <4>3. QED BY <4>2, <3>3, <2>1
    <3>4. QED BY <3>1, <3>2, <3>3
  <2>4. QED BY <2>2, <2>3 DEF OverlapsOK
<1>29. DoneOK'
  <2> SUFFICES ASSUME NEW y \in Reqs, Outstanding(y)', NEW x \in req'[y].rg[1]..req'[y].pos - 1
               PROVE  Reading(x) = y
    BY <1>22 DEF DoneOK
  <2>1. CASE y = r
    <3>1. x \in rg[1]..rg[1] - 1
      BY <2>1, <1>6, <1>9
    <3>2. QED BY <3>1, <1>7
  <2>2. CASE y # r
    <3>1. Outstanding(y) /\ req'[y] = req[y]
      BY <2>2, <1>6 DEF Outstanding
    <3>2. QED BY <3>1, <1>1 DEF DoneOK
  <2>3. QED BY <2>1, <2>2
<1>30. ~NewL2 /\ ~NewL2' /\ thr'.st \notin {"alloc", "link", "free", "deps"}
  BY <1>4, <1>10 DEF NewL2
<1>31. QED BY <1>12, <1>15, <1>16, <1>17, <1>19, <1>20, <1>21, <1>24, <1>25, <1>26, <1>28, <1>29,
              <1>30, RequestStep

LEMMA ReqWith ==
  ASSUME Qcow2Typed, NEW r \in Reqs, NEW s \in ReqStates, req' = [req EXCEPT ![r].st = s]
  PROVE  /\ req' \in [Reqs -> ReqTypes] /\ \A x \in Reqs \ {r} : req'[x] = req[x]
         /\ req'[r].st = s /\ SamePart(req[r], req'[r]) /\ req'[r].left = req[r].left
<1>1. req \in [Reqs -> ReqTypes]
  BY DEF Qcow2Typed, RequestsTyped
<1>2. req[r] \in ReqTypes
  BY <1>1
<1>3. PICK p : p = [req[r] EXCEPT !.st = s]
  OBVIOUS
<1>4. req' = [req EXCEPT ![r] = p]
  BY <1>1, <1>3
<1>5. p \in ReqTypes
  BY <1>2, <1>3 DEF ReqTypes
<1>6. req'[r] = p /\ req' \in [Reqs -> ReqTypes] /\ \A x \in Reqs \ {r} : req'[x] = req[x]
  BY <1>1, <1>4, <1>5
<1>7. p.st = s /\ SamePart(req[r], p) /\ p.left = req[r].left
  BY <1>2, <1>3 DEF ReqTypes, SamePart
<1>8. QED BY <1>6, <1>7

LEMMA RangeSame ==
  ASSUME NEW q, NEW p, InRange(q), SamePart(q, p), p.left = q.left,
         p.st \in {"io", "landed", "gone", "done"}, q.st \in {"io", "landed"}
  PROVE  InRange(p)
BY DEF InRange, SamePart

LEMMA CancelKeeps ==
  ASSUME QcowInv, env' = env, Plain, NEW r \in Reqs, qcow_aio_cancel(r)
  PROVE  QcowInv'
<1>0. /\ thr.st = "idle" /\ req[r].st \in {"io", "landed"}
      /\ req' = [req EXCEPT ![r].st = "gone"]
  BY DEF qcow_aio_cancel, Plain
<1>1. /\ Qcow2Typed /\ ThreadOK /\ WaitingOK /\ TablesOK /\ AllocsOK /\ CountsOK
      /\ ReadsOK /\ OverlapsOK /\ DoneOK
  BY InvIs
<1>2. /\ req' \in [Reqs -> ReqTypes] /\ \A x \in Reqs \ {r} : req'[x] = req[x]
      /\ req'[r].st = "gone" /\ SamePart(req[r], req'[r]) /\ req'[r].left = req[r].left
  BY <1>0, <1>1, ReqWith DEF ReqStates
<1>3. thr.st = "idle" /\ req[r].st \in {"io", "landed"} /\ thr.r = 0 /\ thr.todo = <<>>
  BY <1>0, <1>1 DEF ThreadOK, Going
<1>4. UNCHANGED <<refcount, blk, disk_l1, snap, l1_table, l2_cache, free_cluster_index,
                  cluster_allocs, dependent_requests, thr, may>>
  BY DEF qcow_aio_cancel, image, memory, queues, ghosts
<1>5. RequestsTyped'
  BY <1>1, <1>2, <1>4 DEF Qcow2Typed, RequestsTyped
<1>6. \A x \in Reqs : InRange(req'[x])
  BY <1>1, <1>2, <1>3, RangeSame DEF Qcow2Typed
<1>7. ThreadOK'
  BY <1>1, <1>3, <1>4 DEF ThreadOK, Going
<1>8. \A x \in Reqs : SamePart(req[x], req'[x])
  BY <1>2 DEF SamePart
<1>9. WaitingOK'
  <2>1. \A x \in Reqs : \A y \in Elements(dependent_requests[x]) : y \in Reqs /\ req[y].st = "wait"
    BY <1>1, ListType DEF WaitingOK, Qcow2Typed, RequestsTyped
  <2>2. \A x \in Reqs : \A y \in Elements(dependent_requests[x]) : req'[y].st = "wait"
    BY <2>1, <1>2, <1>3
  <2>3. QED BY <2>2, <1>1, <1>4 DEF WaitingOK
<1>10. \A x \in Reqs : Written(req'[x]) => Written(req[x]) /\ (Linked(x)' <=> Linked(x)) /\ x # r
  BY <1>2, <1>4 DEF Written, Linked
<1>11. T' = T /\ \A x : Reading(x)' = Reading(x)
  BY <1>4, TableSame
<1>12. \A x \in Elements(cluster_allocs) : x \in Reqs /\ req[x].st \in {"io", "landed", "gone"}
  BY <1>1, ListType DEF AllocsOK, Qcow2Typed, RequestsTyped
<1>13. AllocsOK'
  <2>1. \A x \in Elements(cluster_allocs) : req'[x].st \in {"io", "landed", "gone"}
    BY <1>12, <1>2
  <2>2. \A x \in Elements(cluster_allocs) : Unfinished(x)' => Unfinished(x)
    BY <1>4 DEF Unfinished
  <2>3. \A x \in Reqs : Written(req'[x]) /\ req'[x].nb > 0 /\ thr'.r # x => x \in Elements(cluster_allocs)
    BY <1>1, <1>2, <1>4, <1>10 DEF AllocsOK
  <2>4. QED BY <1>1, <1>4, <1>8, <1>11, <1>12, <2>1, <2>2, <2>3, AllocsKept
<1>14. CountsOK'
  <2>1. \A x \in Elements(cluster_allocs) : Own(req'[x]) = Own(req[x])
    BY <1>8, <1>12, SamePartIs
  <2>2. ~NewL2
    BY <1>3 DEF NewL2
  <2>3. QED BY <2>1, <2>2, <1>1, <1>4, <1>11, CountsKept
<1>15. \A x \in Reqs : Outstanding(x)' => Outstanding(x) /\ req'[x].rg = req[x].rg /\ req'[x].pos = req[x].pos
  BY <1>2 DEF Outstanding
<1>16. ReadsOK' /\ OverlapsOK' /\ DoneOK'
  BY <1>1, <1>4, <1>11, <1>15, ReadsKept, OverlapsKept, DoneKept
<1>17. ~NewL2 /\ ~NewL2' /\ thr'.st \notin {"alloc", "link", "free", "deps"}
  BY <1>3, <1>4 DEF NewL2
<1>18. \A x \in Reqs : req'[x].st = "landed" => req[x].st = "landed"
  BY <1>2
<1>19. QED BY <1>4, <1>5, <1>6, <1>7, <1>8, <1>9, <1>10, <1>13, <1>14, <1>16, <1>17, <1>18,
              RequestStep

LEMMA RunDependentKeeps ==
  ASSUME QcowInv, env' = env, run_dependent_requests
  PROVE  QcowInv'
<1>1. /\ Qcow2Typed /\ ThreadOK /\ WaitingOK /\ TablesOK /\ AllocsOK /\ CountsOK
      /\ ReadsOK /\ OverlapsOK /\ DoneOK /\ LinkedOK
  BY InvIs
<1>2. PICK r : r = thr.r
  OBVIOUS
<1>3. thr.st = "deps" /\ r # 0 /\ thr.todo = <<>> /\ Written(req[r]) /\ (thr.ok => req[r].st = "landed")
  BY <1>1, <1>2 DEF run_dependent_requests, ThreadOK, Going
<1>4. r \in Reqs
  BY <1>1, <1>2, <1>3, ThrFields
<1>5. PICK d : d = dependent_requests[r]
  OBVIOUS
<1>6. PICK l : l = Append(d, r)
  OBVIOUS
<1>7. d \in Seq(Reqs) /\ NoRepeat(d) /\ (\A x \in Elements(d) : x \in Reqs /\ req[x].st = "wait")
  BY <1>1, <1>4, <1>5, ListType DEF WaitingOK, Qcow2Typed, RequestsTyped
<1>8. r \notin Elements(d)
  BY <1>3, <1>7 DEF Written
<1>9. /\ l \in Seq(Reqs) /\ NoRepeat(l) /\ Elements(l) = Elements(d) \cup {r} /\ Len(l) = Len(d) + 1
      /\ Len(d) \in Nat /\ l[Len(d) + 1] = r /\ (\A i \in 1..Len(d) : l[i] = d[i])
  BY <1>4, <1>6, <1>7, <1>8, Appends, Extended
<1>10. thr' = [thr EXCEPT !.st = "cont", !.todo = l]
  BY <1>2, <1>5, <1>6 DEF run_dependent_requests
<1>11. /\ thr' \in ThrTypes /\ thr'.st = "cont" /\ thr'.r = r /\ thr'.ok = thr.ok /\ thr'.todo = l
  BY <1>1, <1>2, <1>9, <1>10 DEF Qcow2Typed, RequestsTyped, ThrTypes, ThrStates
<1>12. UNCHANGED <<refcount, blk, disk_l1, snap, l1_table, l2_cache, free_cluster_index, req, may>>
  BY DEF run_dependent_requests, image, memory, ghosts
<1>13. cluster_allocs \in Seq(Reqs) /\ NoRepeat(cluster_allocs)
       /\ (\A x \in Elements(cluster_allocs) : x \in Reqs /\ req[x].nb > 0)
  BY <1>1, ListType DEF Qcow2Typed, RequestsTyped, AllocsOK
<1>14. PICK a : a = cluster_allocs'
  OBVIOUS
<1>15. a \in Seq(Reqs) /\ NoRepeat(a) /\ Elements(a) = Elements(cluster_allocs) \ {r}
  <2>1. CASE req[r].nb # 0
    BY <2>1, <1>2, <1>13, <1>14, Removed DEF run_dependent_requests
  <2>2. CASE req[r].nb = 0
    <3>1. a = cluster_allocs
      BY <2>2, <1>2, <1>14 DEF run_dependent_requests
    <3>2. r \notin Elements(cluster_allocs)
      BY <2>2, <1>13
    <3>3. QED BY <3>1, <3>2, <1>13
  <2>3. QED BY <2>1, <2>2
<1>16. dependent_requests' = [dependent_requests EXCEPT ![r] = <<>>]
  BY <1>2 DEF run_dependent_requests
<1>17. dependent_requests \in [Reqs -> Seq(Reqs)]
  BY <1>1 DEF Qcow2Typed, RequestsTyped
<1>18. /\ dependent_requests' \in [Reqs -> Seq(Reqs)] /\ dependent_requests'[r] = <<>>
       /\ \A x \in Reqs \ {r} : dependent_requests'[x] = dependent_requests[x]
  BY <1>4, <1>16, <1>17
<1>19. RequestsTyped'
  BY <1>1, <1>11, <1>12, <1>14, <1>15, <1>18 DEF Qcow2Typed, RequestsTyped
<1>20. \A x \in Reqs : InRange(req'[x])
  BY <1>1, <1>12 DEF Qcow2Typed
<1>21. ThreadOK'
  <2>1. ASSUME NEW i \in 1..Len(l) PROVE req[l[i]].st \in {"run", "wait"} \/ Back(i)'
    <3>1. CASE i = Len(l)
      <4>1. thr'.r \notin Elements(cluster_allocs')
        BY <1>11, <1>14, <1>15
      <4>2. QED BY <3>1, <4>1, <1>3, <1>11, <1>12 DEF Back
    <3>2. CASE i # Len(l)
      <4>1. i \in 1..Len(d)
        BY <3>2, <1>9
      <4>2. l[i] \in Elements(d)
        BY <4>1, <1>7, <1>9, ListType DEF Elements
      <4>3. QED BY <4>2, <1>7
    <3>3. QED BY <3>1, <3>2
  <2>2. l # <<>> /\ l[Len(l)] = r
    BY <1>9
  <2>3. thr.ok \/ env.fails # {}
    BY <1>1 DEF ThreadOK
  <2>4. QED BY <2>1, <2>2, <2>3, <1>3, <1>9, <1>11, <1>12 DEF ThreadOK, Going
<1>22. WaitingOK'
  <2>1. Elements(<<>>) = {} /\ NoRepeat(<<>>)
    BY DEF Elements, NoRepeat
  <2>2. ASSUME NEW x \in Reqs
        PROVE  /\ NoRepeat(dependent_requests'[x])
               /\ \A y \in Elements(dependent_requests'[x]) : x # r /\ y \in Elements(dependent_requests[x])
    BY <2>1, <1>1, <1>18 DEF WaitingOK
  <2>3. ASSUME NEW x \in Reqs, NEW y \in Elements(dependent_requests'[x])
        PROVE  req'[y].st = "wait" /\ y \notin Elements(thr'.todo)
    <3>1. x # r /\ y \in Elements(dependent_requests[x])
      BY <2>2, <2>3
    <3>2. req[y].st = "wait" /\ y \notin Elements(d)
      BY <3>1, <2>3, <1>1, <1>4, <1>5 DEF WaitingOK
    <3>3. y # r
      BY <3>2, <1>3 DEF Written
    <3>4. QED BY <3>2, <3>3, <1>9, <1>11, <1>12
  <2>4. ASSUME NEW x \in Reqs, NEW y \in Reqs, NEW z \in Elements(dependent_requests'[x]),
               z \in Elements(dependent_requests'[y])
        PROVE  x = y
    BY <2>2, <2>4, <1>1 DEF WaitingOK
  <2>5. QED BY <2>2, <2>3, <2>4 DEF WaitingOK
<1>23. \A x \in Reqs : SamePart(req[x], req'[x]) /\ (Linked(x)' <=> Linked(x))
  BY <1>2, <1>3, <1>11, <1>12 DEF SamePart, Linked
<1>24. T' = T /\ \A x : Reading(x)' = Reading(x)
  BY <1>12, TableSame
<1>25. AllocsOK'
  <2>1. ASSUME NEW x \in Elements(a)
        PROVE  /\ req'[x].st \in {"io", "landed", "gone"} /\ req'[x].nb > 0 /\ Mine(req'[x]) \subseteq G
               /\ \A g \in Mine(req'[x]) : T'[g] = NoEntry
    BY <1>1, <1>2, <1>12, <1>15, <1>24 DEF AllocsOK
  <2>2. ASSUME NEW x \in Reqs, Written(req'[x]), req'[x].nb > 0, thr'.r # x
        PROVE  x \in Elements(a)
    BY <2>2, <1>1, <1>2, <1>11, <1>12, <1>15 DEF AllocsOK
  <2>3. \A x, y \in Elements(a) : x # y => Mine(req'[x]) \cap Mine(req'[y]) = {}
    BY <1>1, <1>12, <1>15 DEF AllocsOK
  <2>4. QED BY <2>1, <2>2, <2>3, <1>14, <1>15 DEF AllocsOK
<1>26. CountsOK'
  <2> SUFFICES ASSUME Calm', NEW h \in H, refcount'[h] = 1
               PROVE  \/ h = l1_table'.off
                      \/ \E g \in G : T'[g].off = h
                      \/ \E x \in Elements(cluster_allocs') : h \in Own(req'[x])
    BY DEF CountsOK
  <2>1. Calm /\ thr.ok
    BY <1>1 DEF Calm, ThreadOK
  <2>2. \/ h = l1_table.off
        \/ \E g \in G : T[g].off = h
        \/ \E x \in Elements(cluster_allocs) : h \in Own(req[x])
    BY <2>1, <1>1, <1>3, <1>12 DEF CountsOK
  <2>3. CASE h \in Own(req[r])
    <3>1. PICK q : q = req[r]
      OBVIOUS
    <3>2. q.off \in Nat /\ q.nb \in Nat /\ q.aoff \div CS \in Nat
      BY <3>1, <1>1, <1>4, ReqFields, DivMod
    <3>3. h - q.off + (q.aoff \div CS) \in Mine(q)
      <4>1. PICK v \in Nat : v = q.aoff \div CS
        BY <3>2
      <4>2. h \in q.off..q.off + q.nb - 1 /\ h \in Nat
        BY <2>3, <3>1, ImageConstants DEF Own
      <4>3. h - q.off + v \in v..v + q.nb - 1
        BY <3>2, <4>2
      <4>4. QED BY <4>1, <4>3 DEF Mine
    <3>4. PICK g : g = h - q.off + (q.aoff \div CS)
      OBVIOUS
    <3>5. g \in G /\ T[g].off = q.off + g - (q.aoff \div CS)
      BY <3>1, <3>3, <3>4, <2>1, <1>1, <1>2, <1>3 DEF LinkedOK
    <3>6. h \in Nat
      BY ImageConstants
    <3>7. T[g].off = h
      BY <3>2, <3>4, <3>5, <3>6
    <3>8. QED BY <3>5, <3>7, <1>24
  <2>4. CASE h \notin Own(req[r])
    BY <2>2, <2>4, <1>12, <1>14, <1>15, <1>24
  <2>5. QED BY <2>3, <2>4
<1>27. \A x \in Reqs : Outstanding(x)' <=> Outstanding(x)
  BY <1>12 DEF Outstanding
<1>28. ReadsOK' /\ OverlapsOK' /\ DoneOK'
  BY <1>1, <1>12, <1>24, <1>27, ReadsKept, OverlapsKept, DoneKept
<1>29. ~NewL2 /\ ~NewL2' /\ thr'.st \notin {"alloc", "link", "free", "deps"}
  BY <1>3, <1>11 DEF NewL2
<1>30. QED BY <1>12, <1>19, <1>20, <1>21, <1>22, <1>23, <1>25, <1>26, <1>28, <1>29, RequestStep

\* A part that was written and whose clusters are linked is read.
LEMMA PartRead ==
  ASSUME Qcow2Typed, PartsOK, LandedOK, NEW r \in Reqs, req[r].st = "landed", Linked(r),
         NEW x \in Part(req[r])
  PROVE  Reading(x) = r
<1>1. T[x \div CS].off = Host(req[r], x) /\ Host(req[r], x) \in H
  BY DEF PartsOK, InPlace, Written
<1>2. blk[Host(req[r], x)].d[x % CS] = r
  BY DEF LandedOK
<1>3. T[x \div CS].off # 0
  BY <1>1, ImageConstants
<1>4. QED BY <1>1, <1>2, <1>3 DEF Reading

\* A sector of the request, up to the end of the part, is done or in the part.
LEMMA DoneOrPart ==
  ASSUME Qcow2Typed, NEW r \in Reqs, NEW x \in Nat, x >= req[r].rg[1], x < req[r].pos + req[r].n
  PROVE  x \in req[r].rg[1]..req[r].pos - 1 \/ x \in Part(req[r])
<1>1. PICK q : q = req[r]
  OBVIOUS
<1>2. q.rg[1] \in Nat /\ q.pos \in Nat /\ q.n \in Nat
  BY <1>1, ReqFields
<1>3. x \in q.rg[1]..q.pos - 1 \/ x \in q.pos..q.pos + q.n - 1
  BY <1>1, <1>2
<1>4. QED BY <1>1, <1>3 DEF Part

\* The request that goes on is the callback's own only when it is the last.
LEMMA GoesOn ==
  ASSUME QcowInv, thr.st \in Going
  PROVE  LET r == Head(thr.todo)
         IN /\ r \in Reqs /\ r = thr.todo[1] /\ r \in Elements(thr.todo) /\ thr.r \in Reqs
            /\ r \notin Elements(cluster_allocs) /\ Outstanding(r)
            /\ Len(thr.todo) \in Nat /\ Len(thr.todo) >= 1 /\ thr.todo \in Seq(Reqs)
            /\ r = thr.r <=> Len(thr.todo) = 1
            /\ \/ req[r].st \in {"run", "wait"} /\ req[r].n = 0 /\ req[r].left > 0
               \/ r = thr.r /\ Back(1)
<1> DEFINE r == Head(thr.todo)
<1>1. Qcow2Typed /\ ThreadOK /\ AllocsOK
  BY InvIs
<1>2. thr.todo \in Seq(Reqs) /\ thr.todo # <<>> /\ NoRepeat(thr.todo) /\ thr.todo[Len(thr.todo)] = thr.r
  BY <1>1, ThrFields DEF ThreadOK
<1>3. Len(thr.todo) \in Nat /\ Len(thr.todo) >= 1 /\ DOMAIN thr.todo = 1..Len(thr.todo)
  BY <1>2, ListType
<1>4. r = thr.todo[1]
  BY <1>2
<1>5. r \in Reqs /\ r \in Elements(thr.todo) /\ thr.r \in Reqs
  BY <1>2, <1>3, <1>4, ListType DEF Elements
<1>6. r = thr.r <=> Len(thr.todo) = 1
  <2>1. PICK n \in Nat : n = Len(thr.todo)
    BY <1>3
  <2>2. 1 \in DOMAIN thr.todo /\ n \in DOMAIN thr.todo
    BY <1>3, <2>1
  <2>3. thr.todo[1] = thr.todo[n] => 1 = n
    BY <1>2, <2>2 DEF NoRepeat
  <2>4. thr.r = thr.todo[n]
    BY <1>2, <2>1
  <2>5. QED BY <1>4, <2>1, <2>3, <2>4
<1>7. req[r].st \in {"run", "wait"} \/ Back(1)
  BY <1>1, <1>3, <1>4 DEF ThreadOK
<1>8. Back(1) => r = thr.r
  BY <1>6 DEF Back
<1>9. req[r].st \in {"run", "wait"} => req[r].n = 0 /\ req[r].left > 0
  BY <1>1, <1>5, ReqFields DEF InRange
<1>10. r \notin Elements(cluster_allocs)
  <2>1. CASE req[r].st \in {"run", "wait"}
    BY <2>1, <1>1 DEF AllocsOK
  <2>2. CASE Back(1)
    BY <2>2, <1>8 DEF Back
  <2>3. QED BY <2>1, <2>2, <1>7
<1>11. Outstanding(r)
  BY <1>7, <1>8 DEF Back, Written, Outstanding
<1>12. QED BY <1>2, <1>3, <1>4, <1>5, <1>6, <1>7, <1>8, <1>9, <1>10, <1>11

LEMMA FinishKeeps ==
  ASSUME QcowInv, env' = env, thr.st = "cont", UNCHANGED <<image, memory>>,
         NEW r, r = Head(thr.todo), NEW ok \in BOOLEAN, ok <=> ~(r = thr.r /\ ~thr.ok),
         ok => req[r].left = req[r].n, Finish(r, ok)
  PROVE  QcowInv'
<1>1. /\ Qcow2Typed /\ ThreadOK /\ WaitingOK /\ TablesOK /\ AllocsOK /\ CountsOK /\ PartsOK
      /\ ReadsOK /\ OverlapsOK /\ DoneOK /\ LandedOK
  BY InvIs
<1>2. /\ r \in Reqs /\ r \in Elements(thr.todo) /\ r \notin Elements(cluster_allocs) /\ Outstanding(r)
      /\ r = thr.r <=> Len(thr.todo) = 1
      /\ \/ req[r].st \in {"run", "wait"} /\ req[r].n = 0 /\ req[r].left > 0
         \/ r = thr.r /\ Back(1)
  BY GoesOn DEF Going
<1>3. r = thr.r /\ Len(thr.todo) = 1 /\ thr.ok = ok
  <2>1. r = thr.r
    <3>1. CASE ~ok
      BY <3>1
    <3>2. CASE ok
      BY <3>2, <1>2
    <3>3. QED BY <3>1, <3>2
  <2>2. thr.ok \in BOOLEAN
    BY <1>1, ThrFields
  <2>3. QED BY <2>1, <2>2, <1>2
<1>4. ok => req[r].st = "landed" /\ Linked(r)
  <2> SUFFICES ASSUME ok PROVE req[r].st = "landed" /\ Linked(r)
    OBVIOUS
  <2>1. ~(req[r].n = 0 /\ req[r].left > 0)
    BY <1>1, <1>2, ReqFields
  <2>2. Back(1)
    BY <2>1, <1>2
  <2>3. QED BY <2>2, <1>3 DEF Back, Linked
<1>5. /\ req' \in [Reqs -> ReqTypes] /\ \A x \in Reqs \ {r} : req'[x] = req[x]
      /\ req'[r].st = "done" /\ SamePart(req[r], req'[r]) /\ req'[r].left = req[r].left
  BY <1>1, <1>2, ReqWith DEF Finish, ReqStates
<1>6. thr' = IdleThread
  BY <1>3 DEF Finish, Return
<1>7. thr' \in ThrTypes /\ thr'.st = "idle" /\ thr'.r = 0 /\ thr'.ok /\ thr'.todo = <<>>
  BY <1>6, IdleTyped DEF IdleThread
<1>8. UNCHANGED <<refcount, blk, disk_l1, snap, l1_table, l2_cache, free_cluster_index,
                  cluster_allocs, dependent_requests>>
  BY DEF Finish, image, memory, queues
<1>9. may' = [x \in Sectors |-> IF ok /\ Covers(r, x) THEN {r} ELSE may[x]]
  BY DEF Finish
<1>10. RequestsTyped'
  <2>1. may' \in [Sectors -> SUBSET Nat]
    <3>1. may \in [Sectors -> SUBSET Nat] /\ r \in Nat
      BY <1>1, <1>2, ImageConstants DEF Qcow2Typed, RequestsTyped
    <3>2. QED BY <3>1, <1>9
  <2>2. QED BY <2>1, <1>1, <1>5, <1>7, <1>8 DEF Qcow2Typed, RequestsTyped
<1>11. \A x \in Reqs : InRange(req'[x])
  <2>1. InRange(req'[r])
    BY <1>1, <1>2, <1>5 DEF Qcow2Typed, InRange, SamePart
  <2>2. QED BY <2>1, <1>1, <1>5 DEF Qcow2Typed
<1>12. ThreadOK'
  BY <1>7 DEF ThreadOK, Going
<1>13. WaitingOK'
  <2>1. Elements(<<>>) = {}
    BY DEF Elements
  <2>2. \A x \in Reqs : \A y \in Elements(dependent_requests[x]) : y \in Reqs /\ y # r /\ req[y].st = "wait"
    BY <1>1, <1>2, ListType DEF WaitingOK, Qcow2Typed, RequestsTyped
  <2>3. \A x \in Reqs : \A y \in Elements(dependent_requests[x]) : req'[y].st = "wait" /\ y \notin Elements(thr'.todo)
    BY <2>1, <2>2, <1>5, <1>7
  <2>4. QED BY <2>3, <1>1, <1>8 DEF WaitingOK
<1>14. \A x \in Reqs : SamePart(req[x], req'[x])
  BY <1>5 DEF SamePart
<1>15. \A x \in Reqs : Written(req'[x]) => Written(req[x]) /\ (Linked(x)' <=> Linked(x)) /\ x # r
  <2> SUFFICES ASSUME NEW x \in Reqs, Written(req'[x])
               PROVE  Written(req[x]) /\ (Linked(x)' <=> Linked(x)) /\ x # r
    OBVIOUS
  <2>1. x # r /\ req'[x] = req[x] /\ x # 0
    BY <1>5, ImageConstants DEF Written
  <2>2. QED BY <2>1, <1>3, <1>7 DEF Linked
<1>16. T' = T /\ \A x : Reading(x)' = Reading(x)
  BY <1>8, TableSame
<1>17. \A x \in Elements(cluster_allocs) : x \in Reqs /\ req[x].st \in {"io", "landed", "gone"} /\ x # r
  BY <1>1, <1>2, ListType DEF AllocsOK, Qcow2Typed, RequestsTyped
<1>18. AllocsOK'
  <2>1. \A x \in Elements(cluster_allocs) : req'[x].st \in {"io", "landed", "gone"}
    BY <1>17, <1>5
  <2>2. \A x \in Elements(cluster_allocs) : Unfinished(x)' => Unfinished(x)
    BY DEF Unfinished
  <2>3. \A x \in Reqs : Written(req'[x]) /\ req'[x].nb > 0 /\ thr'.r # x => x \in Elements(cluster_allocs)
    BY <1>1, <1>3, <1>5, <1>15 DEF AllocsOK
  <2>4. QED BY <1>1, <1>8, <1>14, <1>16, <1>17, <2>1, <2>2, <2>3, AllocsKept
<1>19. CountsOK'
  <2>1. \A x \in Elements(cluster_allocs) : Own(req'[x]) = Own(req[x])
    BY <1>14, <1>17, SamePartIs
  <2>2. ~NewL2
    BY DEF NewL2
  <2>3. QED BY <2>1, <2>2, <1>1, <1>8, <1>16, CountsKept
<1>20. ASSUME NEW x \in Sectors, ok, Covers(r, x) PROVE Reading(x) = r
  <2>1. x \in Nat /\ x >= req[r].rg[1] /\ x < req[r].rg[1] + req[r].rg[2]
    BY <1>20, SectorFacts DEF Covers
  <2>2. req[r].pos + req[r].n = req[r].rg[1] + req[r].rg[2]
    BY <1>1, <1>2, <1>20, ReqFields DEF InRange
  <2>3. x \in req[r].rg[1]..req[r].pos - 1 \/ x \in Part(req[r])
    BY <2>1, <2>2, <1>1, <1>2, DoneOrPart
  <2>4. QED BY <2>3, <1>1, <1>2, <1>4, <1>20, PartRead DEF DoneOK
<1>21. ReadsOK'
  <2> SUFFICES ASSUME NEW x \in Sectors PROVE Reading(x) \in may'[x]
    BY <1>16 DEF ReadsOK
  <2>1. Reading(x) \in may[x]
    BY <1>1 DEF ReadsOK
  <2>2. QED BY <2>1, <1>9, <1>20
<1>22. \A x \in Reqs : Outstanding(x)' => Outstanding(x) /\ x # r /\ req'[x].rg = req[x].rg /\ req'[x].pos = req[x].pos
  BY <1>5 DEF Outstanding
<1>23. OverlapsOK'
  <2> SUFFICES ASSUME NEW y \in Reqs, Outstanding(y)'
               PROVE  /\ \A x \in Sectors : Covers(y, x)' => y \in may'[x]
                      /\ \A z \in Reqs \ {y} : Outstanding(z)' =>
                           \A x \in Sectors : ~(Covers(y, x)' /\ Covers(z, x)')
    BY DEF OverlapsOK
  <2>1. Outstanding(y) /\ y # r /\ \A x : Covers(y, x)' <=> Covers(y, x)
    BY <1>22, CoversIs
  <2>2. ASSUME NEW x \in Sectors, Covers(y, x) PROVE y \in may'[x]
    <3>1. ~Covers(r, x) /\ y \in may[x]
      BY <2>1, <2>2, <1>1, <1>2 DEF OverlapsOK
    <3>2. QED BY <3>1, <1>9
  <2>3. ASSUME NEW z \in Reqs \ {y}, Outstanding(z)', NEW x \in Sectors
        PROVE  ~(Covers(y, x)' /\ Covers(z, x)')
    <3>1. Outstanding(z) /\ (Covers(z, x)' <=> Covers(z, x))
      BY <2>3, <1>22, CoversIs
    <3>2. QED BY <3>1, <2>1, <2>3, <1>1 DEF OverlapsOK
  <2>4. QED BY <2>1, <2>2, <2>3
<1>24. DoneOK'
  BY <1>1, <1>16, <1>22, DoneKept
<1>25. ~NewL2 /\ ~NewL2' /\ thr'.st \notin {"alloc", "link", "free", "deps"}
  BY <1>7 DEF NewL2
<1>26. \A x \in Reqs : req'[x].st = "landed" => req[x].st = "landed"
  BY <1>5
<1>27. QED BY <1>8, <1>10, <1>11, <1>12, <1>13, <1>14, <1>15, <1>18, <1>19, <1>21, <1>23, <1>24, <1>25,
              <1>26, RequestStep

\* The request goes on with its next part.
LEMMA AdvanceKeeps ==
  ASSUME QcowInv, env' = env, thr.st = "cont", Continue,
         NEW r, r = Head(thr.todo), ~(r = thr.r /\ ~thr.ok), req[r].left # req[r].n
  PROVE  QcowInv'
<1>1. /\ Qcow2Typed /\ ThreadOK /\ WaitingOK /\ TablesOK /\ AllocsOK /\ CountsOK /\ PartsOK
      /\ ReadsOK /\ OverlapsOK /\ DoneOK /\ LandedOK
  BY InvIs
<1>2. /\ r \in Reqs /\ r \in Elements(thr.todo) /\ r \notin Elements(cluster_allocs) /\ Outstanding(r)
      /\ r = thr.todo[1] /\ (r = thr.r <=> Len(thr.todo) = 1) /\ thr.todo \in Seq(Reqs)
      /\ Len(thr.todo) \in Nat /\ Len(thr.todo) >= 1
      /\ \/ req[r].st \in {"run", "wait"} /\ req[r].n = 0 /\ req[r].left > 0
         \/ r = thr.r /\ Back(1)
  BY GoesOn DEF Going
<1>3. req[r].n = 0 \/ (req[r].st = "landed" /\ Linked(r))
  <2>1. CASE r = thr.r /\ Back(1)
    <3>1. thr.ok
      BY <2>1
    <3>2. req[r].st = "landed"
      BY <3>1, <2>1 DEF Back
    <3>3. QED BY <3>1, <3>2, <2>1 DEF Linked
  <2>2. QED BY <2>1, <1>2
<1>4. PICK q : q = req[r]
  OBVIOUS
<1>5. PICK p : p = [q EXCEPT !.st = "run", !.pos = q.pos + q.n, !.left = q.left - q.n, !.n = 0]
  OBVIOUS
<1>6. q \in ReqTypes /\ InRange(q) /\ req \in [Reqs -> ReqTypes] /\ q.n \in Nat /\ q.left \in Nat
      /\ q.pos \in Nat /\ q.n < q.left /\ q.rg[1] \in Nat /\ q.rg[2] \in Nat
  <2>1. /\ q \in ReqTypes /\ InRange(q) /\ q.n \in Nat /\ q.left \in Nat
        /\ q.pos \in Nat /\ q.rg[1] \in Nat /\ q.rg[2] \in Nat
    BY <1>1, <1>2, <1>4, ReqFields
  <2>2. q.n <= q.left /\ q.n # q.left
    BY <2>1, <1>4 DEF InRange
  <2>3. QED BY <2>1, <2>2, <1>1 DEF Qcow2Typed, RequestsTyped
<1>7. req' = [req EXCEPT ![r].st = "run", ![r].pos = @ + q.n, ![r].left = @ - q.n, ![r].n = 0]
      /\ thr' = [thr EXCEPT !.st = "table"] /\ UNCHANGED <<queues, ghosts, bounds, image, memory>>
  BY <1>4 DEF Continue
<1>8. req' = [req EXCEPT ![r] = p]
  <2>1. req' = [req EXCEPT ![r] = [req[r] EXCEPT !.st = "run", !.pos = @ + q.n, !.left = @ - q.n, !.n = 0]]
    BY <1>6, <1>7
  <2>2. p = [req[r] EXCEPT !.st = "run", !.pos = @ + q.n, !.left = @ - q.n, !.n = 0]
    BY <1>4, <1>5, <1>6 DEF ReqTypes
  <2>3. QED BY <2>1, <2>2
<1>9. p.st = "run" /\ p.rg = q.rg /\ p.pos = q.pos + q.n /\ p.left = q.left - q.n /\ p.n = 0
  BY <1>5, <1>6 DEF ReqTypes
<1>10. p \in ReqTypes
  <2>1. PICK a \in Nat, b \in Nat : a = q.pos + q.n /\ b = q.left - q.n
    BY <1>6
  <2>2. p = [q EXCEPT !.st = "run", !.pos = a, !.left = b, !.n = 0]
    BY <2>1, <1>5
  <2>3. QED BY <2>2, <1>6 DEF ReqTypes, ReqStates
<1>11. InRange(p)
  <2>1. /\ q.pos + q.left = q.rg[1] + q.rg[2] /\ q.rg[1] <= q.pos /\ q.rg[1] + q.rg[2] <= GC * CS
    BY <1>6 DEF InRange
  <2>2. QED BY <2>1, <1>6, <1>9 DEF InRange
<1>12. req' \in [Reqs -> ReqTypes] /\ req'[r] = p /\ \A x \in Reqs \ {r} : req'[x] = req[x]
  BY <1>2, <1>6, <1>8, <1>10
<1>13. /\ thr' \in ThrTypes /\ thr'.st = "table" /\ thr'.r = thr.r /\ thr'.ok = thr.ok /\ thr'.todo = thr.todo
  BY <1>1, <1>7, ThrWith DEF ThrStates
<1>14. UNCHANGED <<refcount, blk, disk_l1, snap, l1_table, l2_cache, free_cluster_index,
                   cluster_allocs, dependent_requests, may>>
  BY <1>7 DEF image, memory, queues, ghosts
<1>15. RequestsTyped'
  BY <1>1, <1>12, <1>13, <1>14 DEF Qcow2Typed, RequestsTyped
<1>16. \A x \in Reqs : InRange(req'[x])
  BY <1>1, <1>11, <1>12 DEF Qcow2Typed
<1>17. ThreadOK'
  <2>1. thr.r # 0 /\ thr.todo # <<>> /\ NoRepeat(thr.todo) /\ thr.todo[Len(thr.todo)] = thr.r
        /\ (thr.ok \/ env.fails # {})
    BY <1>1 DEF ThreadOK, Going
  <2>2. ASSUME NEW i \in 1..Len(thr.todo)
        PROVE  req'[thr.todo[i]].st \in {"run", "wait"} \/ Back(i)'
    <3>1. CASE thr.todo[i] = r
      BY <3>1, <1>9, <1>12
    <3>2. CASE thr.todo[i] # r
      <4>1. thr.todo[i] \in Reqs
        BY <1>2, ListType
      <4>2. req'[thr.todo[i]] = req[thr.todo[i]]
        BY <4>1, <3>2, <1>12
      <4>3. req[thr.todo[i]].st \in {"run", "wait"} \/ Back(i)
        BY <1>1 DEF ThreadOK, Going
      <4>4. CASE Back(i)
        <5>1. thr.r = thr.todo[i]
          BY <4>4, <2>1 DEF Back
        <5>2. QED BY <4>2, <4>4, <5>1, <1>13, <1>14 DEF Back
      <4>5. QED BY <4>2, <4>3, <4>4
    <3>3. QED BY <3>1, <3>2
  <2>3. req'[thr.todo[1]].st = "run"
    BY <1>2, <1>9, <1>12
  <2>4. QED BY <2>1, <2>2, <2>3, <1>13 DEF ThreadOK, Going
<1>18. WaitingOK'
  <2>1. \A x \in Reqs : \A y \in Elements(dependent_requests[x]) : y \in Reqs /\ y # r /\ req[y].st = "wait"
    BY <1>1, <1>2, ListType DEF WaitingOK, Qcow2Typed, RequestsTyped
  <2>2. \A x \in Reqs : \A y \in Elements(dependent_requests[x]) : req'[y].st = "wait"
    BY <2>1, <1>12
  <2>3. QED BY <2>2, <1>1, <1>13, <1>14 DEF WaitingOK
<1>19. \A x \in Reqs : Written(req'[x]) =>
         Written(req[x]) /\ SamePart(req[x], req'[x]) /\ (Linked(x)' <=> Linked(x)) /\ x # r
  <2> SUFFICES ASSUME NEW x \in Reqs, Written(req'[x])
               PROVE  Written(req[x]) /\ SamePart(req[x], req'[x]) /\ (Linked(x)' <=> Linked(x)) /\ x # r
    OBVIOUS
  <2>1. x # r /\ req'[x] = req[x]
    BY <1>9, <1>12 DEF Written
  <2>2. QED BY <2>1, <1>13 DEF SamePart, Linked
<1>20. T' = T /\ \A x : Reading(x)' = Reading(x)
  BY <1>14, TableSame
<1>21. \A x \in Elements(cluster_allocs) : x \in Reqs /\ req[x].st \in {"io", "landed", "gone"} /\ req'[x] = req[x]
  BY <1>1, <1>2, <1>12, ListType DEF AllocsOK, Qcow2Typed, RequestsTyped
<1>22. AllocsOK'
  <2>1. \A x \in Elements(cluster_allocs) : SamePart(req[x], req'[x])
    BY <1>21 DEF SamePart
  <2>2. \A x \in Elements(cluster_allocs) : Unfinished(x)' => Unfinished(x)
    BY DEF Unfinished
  <2>3. \A x \in Reqs : Written(req'[x]) /\ req'[x].nb > 0 /\ thr'.r # x => x \in Elements(cluster_allocs)
    BY <1>1, <1>12, <1>13, <1>19 DEF AllocsOK
  <2>4. QED BY <1>1, <1>14, <1>20, <1>21, <2>1, <2>2, <2>3, AllocsKept
<1>23. CountsOK'
  <2>1. ~NewL2
    BY DEF NewL2
  <2>2. QED BY <2>1, <1>1, <1>14, <1>20, <1>21, CountsKept
<1>24. \A x \in Reqs : Outstanding(x)' => Outstanding(x) /\ req'[x].rg = req[x].rg
  BY <1>2, <1>4, <1>9, <1>12 DEF Outstanding
<1>25. ReadsOK' /\ OverlapsOK'
  BY <1>1, <1>14, <1>20, <1>24, ReadsKept, OverlapsKept
<1>26. DoneOK'
  <2> SUFFICES ASSUME NEW y \in Reqs, Outstanding(y)', NEW x \in req'[y].rg[1]..req'[y].pos - 1
               PROVE  Reading(x) = y
    BY <1>20 DEF DoneOK
  <2>1. CASE y = r
    <3>1. x \in q.rg[1]..q.pos + q.n - 1
      <4>1. req'[y].rg = q.rg /\ req'[y].pos = q.pos + q.n
        BY <2>1, <1>9, <1>12
      <4>2. PICK e \in Nat, f \in Nat : e = q.pos + q.n /\ f = q.rg[1]
        BY <1>6
      <4>3. req'[y].pos = e /\ req'[y].rg[1] = f
        BY <4>1, <4>2
      <4>4. x \in f..e - 1
        BY <4>3
      <4>5. q.rg[1]..q.pos + q.n - 1 = f..e - 1
        BY <4>2, <1>6
      <4>6. QED BY <4>4, <4>5
    <3>2. x \in Nat /\ x >= q.rg[1] /\ x < q.pos + q.n
      BY <3>1, <1>6
    <3>3. x \in q.rg[1]..q.pos - 1 \/ x \in Part(q)
      BY <3>2, <1>1, <1>2, <1>4, DoneOrPart
    <3>4. CASE x \in q.rg[1]..q.pos - 1
      BY <3>4, <2>1, <1>1, <1>2, <1>4 DEF DoneOK
    <3>5. CASE x \in Part(q)
      <4>1. q.n # 0
        BY <3>5, <1>6 DEF Part
      <4>2. QED BY <4>1, <3>5, <2>1, <1>1, <1>2, <1>3, <1>4, PartRead
    <3>6. QED BY <3>3, <3>4, <3>5
  <2>2. CASE y # r
    <3>1. Outstanding(y) /\ req'[y] = req[y]
      BY <2>2, <1>12, <1>24
    <3>2. QED BY <3>1, <1>1 DEF DoneOK
  <2>3. QED BY <2>1, <2>2
<1>27. ~NewL2 /\ ~NewL2' /\ thr'.st \notin {"alloc", "link", "free", "deps"}
  BY <1>13 DEF NewL2
<1>28. \A x \in Reqs : req'[x].st = "landed" => req[x].st = "landed"
  BY <1>9, <1>12
<1>29. QED BY <1>14, <1>15, <1>16, <1>17, <1>18, <1>19, <1>22, <1>23, <1>25, <1>26, <1>27, <1>28,
              RequestStep

LEMMA ContinueKeeps ==
  ASSUME QcowInv, env' = env, Continue
  PROVE  QcowInv'
<1>1. PICK r : r = Head(thr.todo)
  OBVIOUS
<1>2. thr.st = "cont" /\ UNCHANGED <<image, memory>>
  BY DEF Continue
<1>3. CASE (r = thr.r /\ ~thr.ok) \/ req[r].left = req[r].n
  <2>1. PICK ok \in BOOLEAN : ok = ~(r = thr.r /\ ~thr.ok)
    OBVIOUS
  <2>2. Finish(r, ~(r = thr.r /\ ~thr.ok))
    BY <1>1, <1>3 DEF Continue
  <2>3. Finish(r, ok)
    BY <2>1, <2>2
  <2>4. QED BY <1>1, <1>2, <1>3, <2>1, <2>3, FinishKeeps
<1>4. CASE ~((r = thr.r /\ ~thr.ok) \/ req[r].left = req[r].n)
  BY <1>1, <1>2, <1>4, AdvanceKeeps
<1>5. QED BY <1>3, <1>4

-----------------------------------------------------------------------------
(***************************************************************************)
(* Data reaches the image.                                                 *)
(***************************************************************************)

\* Where the sectors of a part go.
Cells(q) == {<<Host(q, x), x % CS>> : x \in Part(q)}

LEMMA CellsAre ==
  ASSUME Qcow2Typed, NEW r \in Reqs
  PROVE  {Place(r, k) : k \in 0..req[r].n - 1} = Cells(req[r])
<1>1. PICK q : q = req[r]
  OBVIOUS
<1>2. PICK m \in Nat, n \in Nat : m = q.pos /\ n = q.n
  BY <1>1, ReqFields
<1>3. Part(q) = m..m + n - 1
  BY <1>2 DEF Part
<1>4. ASSUME NEW k \in 0..n - 1
      PROVE  Place(r, k) \in Cells(q)
  <2>1. k \in Nat /\ m + k \in Part(q)
    BY <1>2, <1>3
  <2>2. Place(r, k) = <<Host(q, m + k), (m + k) % CS>>
    BY <2>1, <1>1, <1>2, PlaceIs
  <2>3. QED BY <2>1, <2>2 DEF Cells
<1>5. ASSUME NEW x \in Part(q)
      PROVE  \E k \in 0..n - 1 : <<Host(q, x), x % CS>> = Place(r, k)
  <2>1. PICK k : k = x - m
    OBVIOUS
  <2>2. k \in 0..n - 1 /\ k \in Nat /\ m + k = x
    BY <2>1, <1>2, <1>3
  <2>3. Place(r, k) = <<Host(q, m + k), (m + k) % CS>>
    BY <2>2, <1>1, <1>2, PlaceIs
  <2>4. QED BY <2>2, <2>3
<1>6. QED BY <1>1, <1>2, <1>4, <1>5 DEF Cells

LEMMA HostOwn ==
  ASSUME NEW q \in ReqTypes, q.aoff = q.pos, NEW x \in Nat, x \div CS \in Mine(q)
  PROVE  Host(q, x) \in Own(q)
<1>1. PICK d \in Nat, p \in Nat : d = x \div CS /\ p = q.pos \div CS
  BY DivMod DEF ReqTypes
<1>2. PICK o \in Nat, n \in Nat : o = q.off /\ n = q.nb
  BY DEF ReqTypes
<1>3. d \in p..p + n - 1
  BY <1>1, <1>2 DEF Mine
<1>4. o + d - p \in o..o + n - 1
  BY <1>3
<1>5. QED BY <1>1, <1>2, <1>4 DEF Host, Own

\* Where the data of a request goes is a counted cluster that is no table.
LEMMA HostFacts ==
  ASSUME QcowInv, NEW r \in Reqs, Written(req[r]), NEW x \in Part(req[r])
  PROVE  /\ Host(req[r], x) \in H /\ Host(req[r], x) # l1_table.off
         /\ Linked(r) => T[x \div CS].off = Host(req[r], x)
         /\ ~Linked(r) => /\ Host(req[r], x) \in Own(req[r])
                          /\ \A g \in G : T[g].off # Host(req[r], x)
<1>1. Qcow2Typed /\ TablesOK /\ PartsOK
  BY InvIs
<1>2. x \in Nat /\ x \div CS \in G
  BY <1>1, PartFacts
<1>3. CASE Linked(r)
  <2>1. T[x \div CS].off = Host(req[r], x) /\ Host(req[r], x) \in H
    BY <1>1, <1>3 DEF PartsOK, InPlace
  <2>2. T[x \div CS].off # 0
    BY <2>1, ImageConstants
  <2>3. QED BY <2>1, <2>2, <1>1, <1>2, <1>3, TableFacts
<1>4. CASE ~Linked(r)
  <2>1. FreshPart(req[r])
    BY <1>1, <1>4 DEF PartsOK
  <2>2. x \div CS \in Mine(req[r]) /\ req[r].aoff = req[r].pos /\ req[r] \in ReqTypes
    BY <2>1, <1>1, ReqFields DEF FreshPart
  <2>3. Host(req[r], x) \in Own(req[r])
    BY <2>2, <1>2, HostOwn
  <2>4. QED BY <2>1, <2>3, <1>4 DEF FreshPart
<1>5. QED BY <1>3, <1>4

\* Sectors with the same remainder, in the same cluster, are the same.
LEMMA SameSector ==
  ASSUME NEW x \in Nat, NEW y \in Nat, x \div CS = y \div CS, x % CS = y % CS
  PROVE  x = y
BY DivMod

\* No two requests write to one place.
LEMMA CellsApart ==
  ASSUME QcowInv, NEW r \in Reqs, NEW q \in Reqs, r # q, Written(req[r]), Written(req[q]),
         NEW x \in Part(req[r]), NEW y \in Part(req[q]), Host(req[r], x) = Host(req[q], y)
  PROVE  x % CS # y % CS
<1>1. Qcow2Typed /\ TablesOK /\ PartsOK /\ OverlapsOK
  BY InvIs
<1>2. PICK h : h = Host(req[r], x) /\ h = Host(req[q], y)
  OBVIOUS
<1>3. /\ h \in H
      /\ Linked(r) => T[x \div CS].off = h
      /\ ~Linked(r) => h \in Own(req[r]) /\ \A g \in G : T[g].off # h
  BY <1>2, HostFacts
<1>4. /\ Linked(q) => T[y \div CS].off = h
      /\ ~Linked(q) => h \in Own(req[q]) /\ \A g \in G : T[g].off # h
  BY <1>2, HostFacts
<1>5. /\ x \in Nat /\ x \div CS \in G /\ x \in Sectors /\ Covers(r, x)
      /\ y \in Nat /\ y \div CS \in G /\ y \in Sectors /\ Covers(q, y)
  BY <1>1, PartFacts
<1>6. ~(~Linked(r) /\ ~Linked(q))
  BY <1>1, <1>3, <1>4 DEF PartsOK
<1>7. Linked(r) /\ Linked(q)
  BY <1>3, <1>4, <1>5, <1>6
<1>8. x \div CS = y \div CS
  <2>1. T[x \div CS].off = T[y \div CS].off /\ T[x \div CS].off # 0
    BY <1>3, <1>4, <1>7, ImageConstants
  <2>2. QED BY <2>1, <1>1, <1>5 DEF TablesOK
<1>9. x # y
  <2>1. Outstanding(r) /\ Outstanding(q)
    BY DEF Outstanding, Written
  <2>2. QED BY <2>1, <1>1, <1>5 DEF OverlapsOK
<1>10. QED BY <1>5, <1>8, <1>9, SameSector

LEMMA DataLandsKeeps ==
  ASSUME QcowInv, env' = env, NEW r \in Reqs, DataLands(r)
  PROVE  QcowInv'
<1>1. /\ Qcow2Typed /\ ThreadOK /\ WaitingOK /\ TablesOK /\ NewL2OK /\ PartsOK /\ AllocsOK /\ CountsOK
      /\ ReadsOK /\ OverlapsOK /\ DoneOK /\ LandedOK /\ LinkOK /\ LinkedOK
  BY InvIs
<1>2. /\ req' \in [Reqs -> ReqTypes] /\ \A x \in Reqs \ {r} : req'[x] = req[x]
      /\ req'[r].st = "landed" /\ SamePart(req[r], req'[r]) /\ req'[r].left = req[r].left
  BY <1>1, ReqWith DEF DataLands, ReqStates
<1>3. req[r].st = "io" /\ Written(req[r]) /\ Outstanding(r)
  BY DEF DataLands, Written, Outstanding
<1>4. UNCHANGED <<refcount, disk_l1, snap, l1_table, l2_cache, free_cluster_index,
                  cluster_allocs, dependent_requests, thr, may>>
  BY DEF DataLands, memory, queues, ghosts
<1>5. PICK q : q = req[r]
  OBVIOUS
<1>6. PICK at : at = Cells(q)
  OBVIOUS
<1>7. blk' = [h \in H |-> IF \A p \in at : p[1] # h THEN blk[h]
                          ELSE [t |-> NewTable,
                                d |-> [i \in 0..CS - 1 |-> IF <<h, i>> \in at THEN r ELSE blk[h].d[i]]]]
  BY <1>1, <1>5, <1>6, CellsAre DEF DataLands
<1>8. ASSUME NEW x \in Part(q)
      PROVE  /\ Host(q, x) \in H /\ Host(q, x) # l1_table.off /\ x \in Nat /\ x \in Sectors
             /\ x \div CS \in G /\ x % CS \in 0..CS - 1 /\ Covers(r, x)
             /\ Linked(r) => T[x \div CS].off = Host(q, x)
             /\ ~Linked(r) => Host(q, x) \in Own(q) /\ \A g \in G : T[g].off # Host(q, x)
  BY <1>1, <1>3, <1>5, HostFacts, PartFacts
<1>9. ASSUME NEW p \in at PROVE \E x \in Part(q) : p = <<Host(q, x), x % CS>>
  BY <1>6 DEF Cells
<1>10. ASSUME NEW h \in H, NEW i \in 0..CS - 1, <<h, i>> \in at
       PROVE  \E x \in Part(q) : h = Host(q, x) /\ i = x % CS
  BY <1>9, <1>10
<1>11. ASSUME NEW x \in Part(q) PROVE <<Host(q, x), x % CS>> \in at
  BY <1>6 DEF Cells
<1>12. blk \in [H -> Clusters] /\ r \in Nat
  BY <1>1, ImageConstants DEF Qcow2Typed, ImageTyped
<1>13. ASSUME NEW h \in H
       PROVE  /\ blk'[h] \in Clusters
              /\ \A i \in 0..CS - 1 : blk'[h].d[i] = IF <<h, i>> \in at THEN r ELSE blk[h].d[i]
              /\ (\A p \in at : p[1] # h) => blk'[h] = blk[h]
  <2>1. blk[h] \in Clusters /\ blk[h].d \in [0..CS - 1 -> Nat]
    BY <1>12 DEF Clusters
  <2>2. CASE \A p \in at : p[1] # h
    <3>1. blk'[h] = blk[h]
      BY <2>2, <1>7
    <3>2. \A i \in 0..CS - 1 : <<h, i>> \notin at
      BY <2>2
    <3>3. QED BY <3>1, <3>2, <2>1
  <2>3. CASE ~ \A p \in at : p[1] # h
    <3>1. PICK e : e = [i \in 0..CS - 1 |-> IF <<h, i>> \in at THEN r ELSE blk[h].d[i]]
      OBVIOUS
    <3>2. blk'[h] = [t |-> NewTable, d |-> e]
      BY <2>3, <3>1, <1>7
    <3>3. e \in [0..CS - 1 -> Nat]
      BY <3>1, <2>1, <1>12
    <3>4. blk'[h] \in Clusters /\ blk'[h].d = e
      BY <3>2, <3>3, NewTableTyped DEF Clusters
    <3>5. QED BY <2>3, <3>1, <3>4
  <2>4. QED BY <2>2, <2>3
<1>14. blk' \in [H -> Clusters]
  <2>1. DOMAIN blk' = H /\ blk' = [h \in H |-> blk'[h]]
    BY <1>7
  <2>2. QED BY <2>1, <1>13
<1>15. l1_table.off # 0 /\ l1_table.off \in H
  BY <1>1, <1>3, TableFacts DEF NewL2OK
<1>16. T' = T
  <2>1. \A p \in at : p[1] # l1_table.off
    BY <1>8, <1>9
  <2>2. blk'[l1_table.off] = blk[l1_table.off]
    BY <2>1, <1>13, <1>15
  <2>3. QED BY <2>2, <1>4, <1>15 DEF T
<1>17. ~NewL2
  BY <1>1, <1>15 DEF NewL2OK, NewL2
<1>18. \A x \in Reqs : SamePart(req[x], req'[x])
  BY <1>2 DEF SamePart
<1>19. \A x \in Reqs : /\ Written(req'[x]) <=> Written(req[x])
                       /\ Outstanding(x)' <=> Outstanding(x)
                       /\ Linked(x)' <=> Linked(x)
  <2> SUFFICES ASSUME NEW x \in Reqs
               PROVE  /\ Written(req'[x]) <=> Written(req[x])
                      /\ Outstanding(x)' <=> Outstanding(x)
                      /\ Linked(x)' <=> Linked(x)
    OBVIOUS
  <2>1. req'[x].nb = req[x].nb
    BY <1>18 DEF SamePart
  <2>2. QED BY <2>1, <1>2, <1>3, <1>4 DEF Written, Outstanding, Linked
<1>20. Qcow2Typed'
  <2>1. \A x \in Reqs : InRange(req'[x])
    BY <1>1, <1>2, <1>3, RangeSame DEF Qcow2Typed
  <2>2. QED BY <2>1, <1>1, <1>2, <1>4, <1>14 DEF Qcow2Typed, ImageTyped, RequestsTyped
<1>21. ThreadOK'
  <2>1. \A x \in Reqs : req[x].st \in {"run", "wait"} => req'[x].st = req[x].st
    BY <1>2, <1>3
  <2>2. \A x \in Reqs : (req[x].st = "landed" => req'[x].st = "landed") /\ req'[x].nb = req[x].nb
    BY <1>2, <1>18 DEF SamePart
  <2>3. thr.r \in Reqs \cup {0} /\ thr.todo \in Seq(Reqs)
    BY <1>1, ThrFields
  <2>4. \A i \in 1..Len(thr.todo) : thr.todo[i] \in Reqs
    BY <2>3, ListType
  <2>5. thr.r # 0 => \A i : Back(i) => Back(i)'
    BY <2>2, <2>3, <1>4, <1>19 DEF Back
  <2>6. thr.st \in Going =>
       /\ thr.r # 0 /\ thr.todo # <<>> /\ NoRepeat(thr.todo) /\ thr.todo[Len(thr.todo)] = thr.r
       /\ \A i \in 1..Len(thr.todo) : req'[thr.todo[i]].st \in {"run", "wait"} \/ Back(i)'
    BY <2>1, <2>4, <2>5, <1>1 DEF ThreadOK
  <2>7. thr.st \in Going \ {"cont"} => req'[thr.todo[1]].st = "run"
    <3> SUFFICES ASSUME thr.st \in Going \ {"cont"} PROVE req'[thr.todo[1]].st = "run"
      OBVIOUS
    <3>1. thr.todo[1] \in Reqs
      BY <2>3, <2>6, ListType
    <3>2. QED BY <3>1, <2>1, <1>1 DEF ThreadOK
  <2>8. thr.st \in {"copy", "link", "free"} =>
          thr.ok /\ req'[thr.r].st = "landed" /\ req'[thr.r].nb > 0
    BY <2>2, <2>3, <1>1 DEF ThreadOK
  <2>9. thr.st \in {"copy", "link", "free", "deps"} =>
       /\ Written(req'[thr.r]) /\ (thr.ok => req'[thr.r].st = "landed")
       /\ req'[thr.r].nb > 0 => thr.r \in Elements(cluster_allocs)
    BY <2>2, <2>3, <1>1, <1>19 DEF ThreadOK
  <2>10. QED BY <2>6, <2>7, <2>8, <2>9, <1>1, <1>4 DEF ThreadOK
<1>22. WaitingOK'
  <2>1. \A x \in Reqs : \A y \in Elements(dependent_requests[x]) : y \in Reqs /\ req[y].st = "wait"
    BY <1>1, ListType DEF WaitingOK, Qcow2Typed, RequestsTyped
  <2>2. \A x \in Reqs : \A y \in Elements(dependent_requests[x]) : req'[y].st = "wait"
    BY <2>1, <1>2, <1>3
  <2>3. QED BY <2>2, <1>1, <1>4 DEF WaitingOK
<1>23. NoneFreed
  BY <1>4 DEF NoneFreed
<1>24. TablesOK'
  BY <1>1, <1>4, <1>16, <1>23, TablesKept DEF TablesOK
<1>25. NewL2OK'
  BY <1>1, <1>4, <1>15, <1>16, <1>17 DEF NewL2OK, NewL2
<1>26. PartsOK'
  BY <1>1, <1>4, <1>16, <1>17, <1>18, <1>19, <1>23, PartsKept DEF NewL2
<1>27. \A x \in Elements(cluster_allocs) : x \in Reqs /\ req[x].st \in {"io", "landed", "gone"}
  BY <1>1, ListType DEF AllocsOK, Qcow2Typed, RequestsTyped
<1>28. AllocsOK'
  <2>1. \A x \in Elements(cluster_allocs) : req'[x].st \in {"io", "landed", "gone"}
    BY <1>27, <1>2
  <2>2. \A x \in Elements(cluster_allocs) : Unfinished(x)' => Unfinished(x)
    BY <1>4 DEF Unfinished
  <2>3. \A x \in Reqs : Written(req'[x]) /\ req'[x].nb > 0 /\ thr'.r # x => x \in Elements(cluster_allocs)
    BY <1>1, <1>4, <1>18, <1>19 DEF AllocsOK, SamePart
  <2>4. QED BY <1>1, <1>4, <1>16, <1>18, <1>27, <2>1, <2>2, <2>3, AllocsKept
<1>29. CountsOK'
  <2>1. \A x \in Elements(cluster_allocs) : Own(req'[x]) = Own(req[x])
    BY <1>18, <1>27, SamePartIs
  <2>2. QED BY <2>1, <1>1, <1>4, <1>16, <1>17, CountsKept
<1>30. LinkedOK'
  <2> SUFFICES ASSUME thr.st \in {"free", "deps"}, thr.ok, NEW g \in Mine(req'[thr.r])
               PROVE  g \in G /\ T[g].off = req'[thr.r].off + g - (req'[thr.r].aoff \div CS)
    BY <1>4, <1>16 DEF LinkedOK
  <2>1. thr.r \in Reqs
    BY <1>1, ThrFields DEF ThreadOK
  <2>2. Mine(req'[thr.r]) = Mine(req[thr.r]) /\ req'[thr.r].off = req[thr.r].off
        /\ req'[thr.r].aoff = req[thr.r].aoff
    BY <2>1, <1>18, SamePartIs DEF SamePart
  <2>3. QED BY <2>2, <1>1 DEF LinkedOK
<1>31. ASSUME NEW x \in Sectors
       PROVE  Reading(x)' = Reading(x) \/ (x \in Part(q) /\ Reading(x)' = r)
  <2>1. x \div CS \in G /\ x % CS \in 0..CS - 1 /\ x \in Nat
    BY SectorFacts
  <2>2. CASE T[x \div CS].off = 0
    BY <2>2, <1>16 DEF Reading
  <2>3. CASE T[x \div CS].off # 0
    <3>1. PICK h : h = T[x \div CS].off
      OBVIOUS
    <3>2. h \in H
      BY <2>1, <2>3, <3>1, <1>1, TableFacts
    <3>3. Reading(x)' = blk'[h].d[x % CS] /\ Reading(x) = blk[h].d[x % CS]
      BY <2>3, <3>1, <1>16 DEF Reading
    <3>4. CASE <<h, x % CS>> \notin at
      BY <3>2, <3>3, <3>4, <2>1, <1>13
    <3>5. CASE <<h, x % CS>> \in at
      <4>1. PICK y \in Part(q) : h = Host(q, y) /\ x % CS = y % CS
        BY <3>2, <3>5, <2>1, <1>10
      <4>2. T[y \div CS].off = h /\ y \div CS \in G /\ y \in Nat
        BY <4>1, <3>1, <2>1, <1>8
      <4>3. x \div CS = y \div CS
        BY <4>2, <3>1, <2>1, <2>3, <1>1 DEF TablesOK
      <4>4. x = y
        BY <4>1, <4>2, <4>3, <2>1, SameSector
      <4>5. Reading(x)' = r
        BY <3>2, <3>3, <3>5, <2>1, <1>13
      <4>6. QED BY <4>4, <4>5
    <3>6. QED BY <3>4, <3>5
  <2>4. QED BY <2>2, <2>3
<1>32. ReadsOK'
  <2> SUFFICES ASSUME NEW x \in Sectors PROVE Reading(x)' \in may[x]
    BY <1>4 DEF ReadsOK
  <2>1. Reading(x) \in may[x]
    BY <1>1 DEF ReadsOK
  <2>2. x \in Part(q) => r \in may[x]
    BY <1>1, <1>3, <1>8 DEF OverlapsOK
  <2>3. QED BY <2>1, <2>2, <1>31
<1>33. OverlapsOK'
  <2>1. \A x \in Reqs : Outstanding(x)' => Outstanding(x) /\ req'[x].rg = req[x].rg
    BY <1>18, <1>19 DEF SamePart
  <2>2. QED BY <2>1, <1>1, <1>4, OverlapsKept
<1>34. DoneOK'
  <2> SUFFICES ASSUME NEW y \in Reqs, Outstanding(y)', NEW x \in req'[y].rg[1]..req'[y].pos - 1
               PROVE  Reading(x)' = y
    BY DEF DoneOK
  <2>1. Outstanding(y) /\ x \in req[y].rg[1]..req[y].pos - 1
    BY <1>18, <1>19 DEF SamePart
  <2>2. x \in Sectors /\ Covers(y, x) /\ Reading(x) = y
    BY <2>1, <1>1, DoneSectors DEF DoneOK
  <2>3. CASE x \in Part(q) /\ Reading(x)' = r
    <3>1. Covers(r, x)
      BY <2>3, <1>8
    <3>2. y = r
      BY <3>1, <2>1, <2>2, <1>1, <1>3 DEF OverlapsOK
    <3>3. QED BY <3>2, <2>3
  <2>4. QED BY <2>2, <2>3, <1>31
<1>35. LandedOK'
  <2> SUFFICES ASSUME NEW y \in Reqs, req'[y].st = "landed", NEW x \in Part(req'[y])
               PROVE  blk'[Host(req'[y], x)].d[x % CS] = y
    BY DEF LandedOK
  <2>1. Written(req[y]) /\ x \in Part(req[y]) /\ Host(req'[y], x) = Host(req[y], x)
    BY <1>18, <1>19, SamePartIs DEF Written
  <2>2. PICK h : h = Host(req[y], x)
    OBVIOUS
  <2>3. h \in H /\ x % CS \in 0..CS - 1
    BY <2>1, <2>2, <1>1, HostFacts, PartFacts
  <2>4. CASE y = r
    <3>1. <<h, x % CS>> \in at
      BY <2>1, <2>2, <2>4, <1>5, <1>11
    <3>2. QED BY <3>1, <2>1, <2>2, <2>3, <2>4, <1>13
  <2>5. CASE y # r
    <3>1. <<h, x % CS>> \notin at
      <4> SUFFICES ASSUME <<h, x % CS>> \in at PROVE FALSE
        OBVIOUS
      <4>1. PICK z \in Part(q) : h = Host(q, z) /\ x % CS = z % CS
        BY <2>3, <1>10
      <4>2. QED BY <4>1, <2>1, <2>2, <2>5, <1>3, <1>5, CellsApart
    <3>2. blk[h].d[x % CS] = y
      BY <2>1, <2>2, <2>5, <1>1, <1>2 DEF LandedOK
    <3>3. QED BY <3>1, <3>2, <2>1, <2>2, <2>3, <1>13
  <2>6. QED BY <2>4, <2>5
<1>36. LinkOK'
  <2> SUFFICES ASSUME thr.st = "link", NEW x \in Sectors \ Part(req'[thr.r]),
                      x \div CS \in Mine(req'[thr.r])
               PROVE  blk'[Host(req'[thr.r], x)].d[x % CS] = 0
    BY <1>4 DEF LinkOK
  <2>1. PICK y : y = thr.r
    OBVIOUS
  <2>2. y \in Reqs /\ req[y].st = "landed" /\ y # r /\ req'[y] = req[y] /\ Written(req[y]) /\ req[y].nb > 0
    BY <2>1, <1>1, <1>2, <1>3, ThrFields DEF ThreadOK, Written
  <2>3. ~Linked(y)
    BY <2>1, <2>2, <1>1, ReqFields DEF Linked
  <2>4. FreshPart(req[y])
    BY <2>2, <2>3, <1>1 DEF PartsOK
  <2>5. PICK h : h = Host(req[y], x)
    OBVIOUS
  <2>6. x \in Nat /\ x % CS \in 0..CS - 1
    BY SectorFacts
  <2>7. h \in Own(req[y]) /\ h \in H
    BY <2>1, <2>2, <2>4, <2>5, <2>6, <1>1, HostOwn, ReqFields DEF FreshPart
  <2>8. <<h, x % CS>> \notin at
    <3> SUFFICES ASSUME <<h, x % CS>> \in at PROVE FALSE
      OBVIOUS
    <3>1. PICK z \in Part(q) : h = Host(q, z)
      BY <2>6, <2>7, <1>10
    <3>2. CASE Linked(r)
      BY <3>1, <3>2, <2>4, <2>7, <1>8 DEF FreshPart
    <3>3. CASE ~Linked(r)
      <4>1. h \in Own(req[r])
        BY <3>1, <3>3, <1>5, <1>8
      <4>2. QED BY <4>1, <3>3, <2>2, <2>3, <2>7, <1>1, <1>3 DEF PartsOK
    <3>4. QED BY <3>2, <3>3
  <2>9. blk[h].d[x % CS] = 0
    BY <2>1, <2>2, <2>5, <1>1 DEF LinkOK
  <2>10. QED BY <2>1, <2>2, <2>5, <2>6, <2>7, <2>8, <2>9, <1>13
<1>37. QED BY <1>20, <1>21, <1>22, <1>24, <1>25, <1>26, <1>28, <1>29, <1>30, <1>32, <1>33, <1>34,
              <1>35, <1>36 DEF QcowInv, DataOK

-----------------------------------------------------------------------------
(***************************************************************************)
(* The clusters are filled and linked.                                     *)
(***************************************************************************)

\* The sector that is kept in a place of the new clusters.
LEMMA SlotSector ==
  ASSUME NEW q \in ReqTypes, q.aoff = q.pos, Mine(q) \subseteq G, NEW h \in Own(q),
         NEW i \in 0..CS - 1, NEW x, x = q.aoff - (q.aoff % CS) + (h - q.off) * CS + i
  PROVE  /\ x \in Sectors /\ x \div CS \in Mine(q) /\ x % CS = i /\ Host(q, x) = h
         /\ ((h - q.off) * CS + i < q.aoff % CS \/ (h - q.off) * CS + i >= (q.aoff % CS) + q.n)
              <=> x \notin Part(q)
<1>1. PICK a \in Nat, o \in Nat, b \in Nat, n \in Nat : a = q.aoff /\ o = q.off /\ b = q.nb /\ n = q.n
  BY DEF ReqTypes
<1>2. PICK v \in Nat, m \in 0..CS - 1 : v = a \div CS /\ m = a % CS /\ a = CS * v + m
  BY DivMod
<1>3. h \in o..o + b - 1
  BY <1>1 DEF Own
<1>4. PICK k \in Nat : k = h - o /\ k < b
  BY <1>3
<1>5. CS * (v + k) = CS * v + CS * k /\ CS * v \in Nat /\ CS * k \in Nat /\ k * CS = CS * k
  BY ImageConstants
<1>6. PICK u \in Nat, w \in Nat, z \in Nat : u = CS * v /\ w = CS * k /\ z = CS * (v + k) /\ z = u + w
      /\ k * CS = w
  BY <1>5
<1>7. x = a - m + w + i
  BY <1>1, <1>2, <1>4, <1>6
<1>8. i \in Nat /\ m \in Nat
  BY ImageConstants
<1>9. a = u + m
  BY <1>2, <1>6
<1>10. x = z + i
  BY <1>6, <1>7, <1>8, <1>9
<1>11. x \in Nat /\ v + k \in Nat
  BY <1>8, <1>10
<1>12. x \div CS = v + k /\ x % CS = i
  BY <1>6, <1>10, <1>11, DivIs
<1>13. v + k \in Mine(q)
  <2>1. v + k \in v..v + b - 1
    BY <1>4
  <2>2. QED BY <2>1, <1>1, <1>2 DEF Mine
<1>14. x \in Sectors
  BY <1>11, <1>12, <1>13, SectorCluster
<1>15. Host(q, x) = h
  <2>1. Host(q, x) = o + (v + k) - v
    BY <1>1, <1>2, <1>12 DEF Host
  <2>2. QED BY <2>1, <1>3, <1>4
<1>16. (w + i < m \/ w + i >= m + n) <=> x \notin a..a + n - 1
  BY <1>6, <1>8, <1>9, <1>10
<1>17. Part(q) = a..a + n - 1
  BY <1>1 DEF Part
<1>18. (h - q.off) * CS = w
  BY <1>1, <1>4, <1>6
<1>19. QED BY <1>1, <1>2, <1>12, <1>13, <1>14, <1>15, <1>16, <1>17, <1>18

\* A sector of the new clusters is kept in one place.
LEMMA SectorSlot ==
  ASSUME NEW q \in ReqTypes, q.aoff = q.pos, NEW x \in Nat, x \div CS \in Mine(q)
  PROVE  /\ Host(q, x) \in Own(q)
         /\ x = q.aoff - (q.aoff % CS) + (Host(q, x) - q.off) * CS + (x % CS)
<1>1. PICK a \in Nat, o \in Nat, b \in Nat : a = q.aoff /\ o = q.off /\ b = q.nb
  BY DEF ReqTypes
<1>2. PICK v \in Nat, m \in 0..CS - 1 : v = a \div CS /\ m = a % CS /\ a = CS * v + m
  BY DivMod
<1>3. PICK d \in Nat, i \in 0..CS - 1 : d = x \div CS /\ i = x % CS /\ x = CS * d + i
  BY DivMod
<1>4. d \in v..v + b - 1
  BY <1>1, <1>2, <1>3 DEF Mine
<1>5. PICK k \in Nat : k = d - v /\ d = v + k
  BY <1>4
<1>6. Host(q, x) = o + d - v
  BY <1>1, <1>2, <1>3 DEF Host
<1>7. Host(q, x) - o = k
  BY <1>5, <1>6
<1>8. CS * (v + k) = CS * v + CS * k /\ CS * v \in Nat /\ CS * k \in Nat /\ k * CS = CS * k
  BY ImageConstants
<1>9. PICK u \in Nat, w \in Nat : u = CS * v /\ w = k * CS /\ CS * (v + k) = u + w
  BY <1>8
<1>10. x = u + w + i /\ a = u + m
  BY <1>2, <1>3, <1>5, <1>9
<1>11. i \in Nat /\ m \in Nat
  BY ImageConstants
<1>12. x = a - m + w + i
  BY <1>10, <1>11
<1>13. QED BY <1>1, <1>2, <1>3, <1>7, <1>9, <1>12, HostOwn

LEMMA CopyKeeps ==
  ASSUME QcowInv, env' = env, CopySectors
  PROVE  QcowInv'
<1>1. /\ Qcow2Typed /\ ThreadOK /\ WaitingOK /\ TablesOK /\ NewL2OK /\ PartsOK /\ AllocsOK /\ CountsOK
      /\ ReadsOK /\ OverlapsOK /\ DoneOK /\ LandedOK
  BY InvIs
<1>2. PICK r, q : r = thr.r /\ q = req[r]
  OBVIOUS
<1>3. thr.st = "copy" /\ thr.ok /\ r \in Reqs /\ q.st = "landed" /\ q.nb > 0 /\ Written(q)
      /\ r \in Elements(cluster_allocs)
  BY <1>1, <1>2, ThrFields DEF CopySectors, ThreadOK, Written
<1>4. ~Linked(r)
  BY <1>1, <1>2, <1>3, ReqFields DEF Linked
<1>5. FreshPart(q) /\ q.aoff = q.pos /\ q \in ReqTypes /\ Own(q) \subseteq H
  BY <1>1, <1>2, <1>3, <1>4, ReqFields DEF PartsOK, FreshPart
<1>6. Mine(q) \subseteq G /\ \A g \in Mine(q) : T[g] = NoEntry
  BY <1>1, <1>2, <1>3 DEF AllocsOK
<1>7. UNCHANGED <<refcount, disk_l1, snap, l1_table, l2_cache, free_cluster_index, req,
                  cluster_allocs, dependent_requests, may>>
  BY DEF CopySectors, memory, queues, ghosts
<1>8. /\ thr' \in ThrTypes /\ thr'.st = "link" /\ thr'.r = thr.r /\ thr'.ok = thr.ok
      /\ thr'.todo = thr.todo
  BY <1>1, ThrWith DEF CopySectors, ThrStates
<1> DEFINE Sec(h, i) == q.aoff - (q.aoff % CS) + (h - q.off) * CS + i
           Old(h, i) == (h - q.off) * CS + i < q.aoff % CS \/ (h - q.off) * CS + i >= (q.aoff % CS) + q.n
<1>9. blk' = [h \in H |->
          IF h \notin Own(q) THEN blk[h]
          ELSE [blk[h] EXCEPT !.d = [i \in 0..CS - 1 |-> IF Old(h, i) THEN qcow_read(Sec(h, i)) ELSE @[i]]]]
  BY <1>2 DEF CopySectors, Own
<1>10. ASSUME NEW h \in Own(q), NEW i \in 0..CS - 1
       PROVE  /\ Sec(h, i) \in Sectors /\ Sec(h, i) \div CS \in Mine(q) /\ Sec(h, i) % CS = i
              /\ Host(q, Sec(h, i)) = h /\ (Old(h, i) <=> Sec(h, i) \notin Part(q))
  BY <1>5, <1>6, SlotSector
<1>11. ASSUME NEW h \in Own(q), NEW i \in 0..CS - 1
       PROVE  qcow_read(Sec(h, i)) = 0
  <2>1. PICK x : x = Sec(h, i)
    OBVIOUS
  <2>2. x \in Sectors /\ x \div CS \in Mine(q)
    BY <2>1, <1>10
  <2>3. T[x \div CS].off = 0
    BY <2>2, <1>6, NewTableTyped
  <2>4. qcow_read(x) = 0
    BY <2>2, <2>3, <1>1, ReadIs DEF Reading
  <2>5. QED BY <2>1, <2>4
<1>12. ASSUME NEW x \in Nat, x \div CS \in Mine(q)
       PROVE  Host(q, x) \in Own(q) /\ x = Sec(Host(q, x), x % CS)
  BY <1>5, <1>12, SectorSlot
<1> HIDE DEF Sec, Old
<1>13. ASSUME NEW h \in H, h \notin Own(q) PROVE blk'[h] = blk[h]
  BY <1>9, <1>13
<1>14. ASSUME NEW h \in Own(q)
       PROVE  /\ blk'[h] \in Clusters
              /\ \A i \in 0..CS - 1 : blk'[h].d[i] = IF Sec(h, i) \in Part(q) THEN blk[h].d[i] ELSE 0
  <2>1. h \in H /\ blk[h] \in Clusters /\ blk[h].d \in [0..CS - 1 -> Nat]
    BY <1>1, <1>5 DEF Qcow2Typed, ImageTyped, Clusters
  <2>2. PICK e : e = [i \in 0..CS - 1 |-> IF Sec(h, i) \in Part(q) THEN blk[h].d[i] ELSE 0]
    OBVIOUS
  <2>3. [i \in 0..CS - 1 |-> IF Old(h, i) THEN qcow_read(Sec(h, i)) ELSE blk[h].d[i]] = e
    BY <2>2, <1>10, <1>11
  <2>4. blk'[h] = [blk[h] EXCEPT !.d = e]
    BY <2>1, <2>3, <1>9
  <2>5. e \in [0..CS - 1 -> Nat]
    BY <2>1, <2>2
  <2>6. blk'[h] \in Clusters /\ blk'[h].d = e
    BY <2>1, <2>4, <2>5 DEF Clusters
  <2>7. QED BY <2>2, <2>6
<1>15. blk' \in [H -> Clusters]
  <2>1. \A h \in H : blk'[h] \in Clusters
    BY <1>1, <1>13, <1>14 DEF Qcow2Typed, ImageTyped
  <2>2. DOMAIN blk' = H /\ blk' = [h \in H |-> blk'[h]]
    BY <1>9
  <2>3. QED BY <2>1, <2>2
<1>16. T' = T
  <2>1. l1_table.off # 0 => l1_table.off \in H /\ l1_table.off \notin Own(q)
    BY <1>1, <1>5, TableFacts DEF FreshPart
  <2>2. QED BY <2>1, <1>7, <1>13 DEF T
<1>17. \A x \in Sectors : Reading(x)' = Reading(x)
  <2> SUFFICES ASSUME NEW x \in Sectors, T[x \div CS].off # 0
               PROVE  blk'[T[x \div CS].off] = blk[T[x \div CS].off]
    BY <1>16 DEF Reading
  <2>1. x \div CS \in G
    BY SectorFacts
  <2>2. T[x \div CS].off \in H /\ T[x \div CS].off \notin Own(q)
    BY <2>1, <1>1, <1>5, TableFacts DEF FreshPart
  <2>3. QED BY <2>2, <1>13
<1>18. \A x \in Reqs : SamePart(req[x], req'[x]) /\ (Linked(x)' <=> Linked(x))
                       /\ (Outstanding(x)' <=> Outstanding(x))
  BY <1>3, <1>7, <1>8 DEF SamePart, Linked, Outstanding
<1>19. ~NewL2 /\ ~NewL2' /\ NoneFreed
  BY <1>3, <1>7, <1>8 DEF NewL2, NoneFreed
<1>20. Qcow2Typed'
  BY <1>1, <1>7, <1>8, <1>15 DEF Qcow2Typed, ImageTyped, RequestsTyped
<1>21. ThreadOK' /\ WaitingOK'
  BY <1>1, <1>3, <1>7, <1>8 DEF ThreadOK, Going, WaitingOK
<1>22. TablesOK'
  BY <1>1, <1>7, <1>16, <1>19, TablesKept DEF TablesOK
<1>23. NewL2OK'
  BY <1>1, <1>7, <1>8, <1>16, <1>19 DEF NewL2OK, NewL2
<1>24. PartsOK'
  BY <1>1, <1>7, <1>16, <1>18, <1>19, PartsKept
<1>25. \A x \in Elements(cluster_allocs) : x \in Reqs /\ req[x].st \in {"io", "landed", "gone"}
  BY <1>1, ListType DEF AllocsOK, Qcow2Typed, RequestsTyped
<1>26. AllocsOK'
  <2>1. \A x \in Elements(cluster_allocs) : Unfinished(x)' => Unfinished(x)
    BY <1>3 DEF Unfinished
  <2>2. \A x \in Reqs : Written(req'[x]) /\ req'[x].nb > 0 /\ thr'.r # x => x \in Elements(cluster_allocs)
    BY <1>1, <1>7, <1>8 DEF AllocsOK
  <2>3. QED BY <1>1, <1>7, <1>16, <1>18, <1>25, <2>1, <2>2, AllocsKept
<1>27. CountsOK'
  BY <1>1, <1>7, <1>16, <1>19, CountsKept
<1>28. LinkedOK'
  BY <1>8 DEF LinkedOK
<1>29. ReadsOK' /\ OverlapsOK' /\ DoneOK'
  BY <1>1, <1>7, <1>17, <1>18, ReadsKept, OverlapsKept, DoneKept
<1>30. LandedOK'
  <2> SUFFICES ASSUME NEW y \in Reqs, req[y].st = "landed", NEW x \in Part(req[y])
               PROVE  blk'[Host(req[y], x)].d[x % CS] = y
    BY <1>7 DEF LandedOK
  <2>1. PICK h : h = Host(req[y], x)
    OBVIOUS
  <2>2. blk[h].d[x % CS] = y /\ h \in H /\ x \in Nat /\ x % CS \in 0..CS - 1
    BY <2>1, <1>1, HostFacts, PartFacts DEF LandedOK, Written
  <2>3. CASE y = r
    <3>1. x \div CS \in Mine(q)
      BY <2>3, <1>2, <1>5 DEF FreshPart
    <3>2. h \in Own(q) /\ x = Sec(h, x % CS)
      BY <3>1, <2>1, <2>2, <2>3, <1>2, <1>12
    <3>3. blk'[h].d[x % CS] = blk[h].d[x % CS]
      BY <3>2, <2>2, <2>3, <1>2, <1>14
    <3>4. QED BY <3>3, <2>1, <2>2
  <2>4. CASE y # r
    <3>1. h \notin Own(q)
      <4>1. /\ Linked(y) => T[x \div CS].off = h
            /\ ~Linked(y) => h \in Own(req[y])
        BY <2>1, HostFacts DEF Written
      <4>2. CASE Linked(y)
        <5>1. x \div CS \in G
          BY <1>1, PartFacts
        <5>2. QED BY <5>1, <4>1, <4>2, <1>5 DEF FreshPart
      <4>3. CASE ~Linked(y)
        BY <4>1, <4>3, <2>4, <1>1, <1>2, <1>3, <1>4 DEF PartsOK, Written
      <4>4. QED BY <4>2, <4>3
    <3>2. QED BY <3>1, <2>1, <2>2, <1>13
  <2>5. QED BY <2>3, <2>4
<1>31. LinkOK'
  <2> SUFFICES ASSUME NEW x \in Sectors \ Part(q), x \div CS \in Mine(q)
               PROVE  blk'[Host(q, x)].d[x % CS] = 0
    BY <1>2, <1>7, <1>8 DEF LinkOK
  <2>1. x \in Nat /\ x % CS \in 0..CS - 1
    BY SectorFacts
  <2>2. PICK h : h = Host(q, x)
    OBVIOUS
  <2>3. h \in Own(q) /\ x = Sec(h, x % CS)
    BY <2>1, <2>2, <1>12
  <2>4. QED BY <2>1, <2>2, <2>3, <1>14
<1>32. QED BY <1>20, <1>21, <1>22, <1>23, <1>24, <1>26, <1>27, <1>28, <1>29, <1>30, <1>31
            DEF QcowInv, DataOK

LEMMA LinkKeeps ==
  ASSUME QcowInv, env' = env, WriteL2Entries
  PROVE  QcowInv'
<1>1. /\ Qcow2Typed /\ ThreadOK /\ WaitingOK /\ TablesOK /\ NewL2OK /\ PartsOK /\ AllocsOK /\ CountsOK
      /\ ReadsOK /\ OverlapsOK /\ DoneOK /\ LandedOK /\ LinkOK
  BY InvIs
<1>2. PICK r, q : r = thr.r /\ q = req[r]
  OBVIOUS
<1>3. thr.st = "link" /\ thr.ok /\ r \in Reqs /\ q.st = "landed" /\ q.nb > 0 /\ Written(q)
      /\ r \in Elements(cluster_allocs) /\ l1_table.copied /\ r # 0 /\ thr.todo = <<>>
  BY <1>1, <1>2, ThrFields, ImageConstants DEF WriteL2Entries, ThreadOK, Written, Going
<1>4. ~Linked(r)
  BY <1>1, <1>2, <1>3, ReqFields DEF Linked
<1>5. FreshPart(q) /\ q.aoff = q.pos /\ q \in ReqTypes /\ Own(q) \subseteq H
  BY <1>1, <1>2, <1>3, <1>4, ReqFields DEF PartsOK, FreshPart
<1>6. Mine(q) \subseteq G /\ \A g \in Mine(q) : T[g] = NoEntry
  BY <1>1, <1>2, <1>3 DEF AllocsOK
<1>7. PICK o : o = l1_table.off
  OBVIOUS
<1>8. o # 0 /\ o \in H /\ T = blk[o].t /\ T \in Tables
  <2>1. l1_table # NoEntry
    BY <1>3 DEF NoEntry
  <2>2. o # 0
    BY <2>1, <1>1, <1>7, TableFacts
  <2>3. QED BY <2>2, <1>1, <1>7, TableFacts
<1>9. L2Of(l2_cache, l1_table.off) = T
  BY <1>1, <1>7, <1>8 DEF TablesOK, L2Of
<1>10. PICK v \in Nat, f \in Nat, b \in Nat : v = q.aoff \div CS /\ f = q.off /\ b = q.nb
  BY <1>1, <1>2, <1>3, ReqFields, DivMod
<1>11. Mine(q) = v..v + b - 1 /\ Own(q) = f..f + b - 1
  BY <1>10 DEF Mine, Own
<1>12. PICK new : new = [g \in G |-> IF g \in Mine(q) THEN [off |-> f + g - v, copied |-> TRUE] ELSE T[g]]
  OBVIOUS
<1>13. /\ l2_cache' = [l2_cache EXCEPT ![o] = new]
       /\ blk' = [blk EXCEPT ![o] = Table(new)]
       /\ thr' = [thr EXCEPT !.st = "free", !.olds = {T[g].off : g \in Mine(q)} \ {0}]
  BY <1>2, <1>7, <1>9, <1>10, <1>11, <1>12 DEF WriteL2Entries
<1>14. ASSUME NEW g \in Mine(q)
       PROVE  f + g - v \in Own(q) /\ f + g - v \in H /\ f + g - v \in 0..HC /\ g \in Nat /\ g >= v
  <2>1. f + g - v \in Own(q) /\ g \in Nat /\ g >= v
    BY <1>11
  <2>2. QED BY <2>1, <1>5, ImageConstants
<1>15. new \in Tables
  <2>1. ASSUME NEW g \in G
        PROVE  (IF g \in Mine(q) THEN [off |-> f + g - v, copied |-> TRUE] ELSE T[g]) \in Entries
    <3>1. CASE g \in Mine(q)
      BY <3>1, <1>14 DEF Entries
    <3>2. CASE g \notin Mine(q)
      BY <3>2, <1>8 DEF Tables
    <3>3. QED BY <3>1, <3>2
  <2>2. QED BY <2>1, <1>12 DEF Tables
<1>16. {T[g].off : g \in Mine(q)} \ {0} = {}
  BY <1>6, NewTableTyped
<1>17. /\ thr' \in ThrTypes /\ thr'.st = "free" /\ thr'.r = thr.r /\ thr'.ok = thr.ok
       /\ thr'.todo = thr.todo /\ thr'.olds = {}
  BY <1>1, <1>13, <1>16 DEF Qcow2Typed, RequestsTyped, ThrTypes, ThrStates
<1>18. UNCHANGED <<refcount, disk_l1, snap, l1_table, free_cluster_index, req,
                   cluster_allocs, dependent_requests, may>>
  BY DEF WriteL2Entries, queues, ghosts
<1>19. blk \in [H -> Clusters] /\ l2_cache \in [H -> Tables \cup {NoTable}]
  BY <1>1 DEF Qcow2Typed, ImageTyped
<1>20. Table(new) \in Clusters /\ Table(new).t = new
  <2>1. [i \in 0..CS - 1 |-> Junk] \in [0..CS - 1 -> Nat]
    BY DEF Junk
  <2>2. QED BY <2>1, <1>15 DEF Table, Clusters
<1>21. /\ blk' \in [H -> Clusters] /\ blk'[o].t = new /\ \A h \in H \ {o} : blk'[h] = blk[h]
  <2>1. blk'[o] = Table(new)
    BY <1>8, <1>13, <1>19
  <2>2. QED BY <2>1, <1>8, <1>13, <1>19, <1>20
<1>22. l2_cache' \in [H -> Tables \cup {NoTable}] /\ l2_cache'[o] = new
  BY <1>8, <1>13, <1>15, <1>19
<1>23. T' = new
  BY <1>7, <1>8, <1>18, <1>21 DEF T
<1>24. ASSUME NEW g \in G
       PROVE  /\ g \in Mine(q) => /\ T'[g].off = f + g - v /\ T'[g].copied /\ T[g] = NoEntry /\ T[g].off = 0
                                  /\ f + g - v \in Own(q)
              /\ g \notin Mine(q) => T'[g] = T[g]
  BY <1>6, <1>12, <1>14, <1>23, NewTableTyped
<1>25. \A h \in Own(q) : h # o /\ refcount[h] = 1 /\ h \in H /\ \A g \in G : T[g].off # h
  BY <1>5, <1>7 DEF FreshPart
<1>26. \A x \in Reqs : SamePart(req[x], req'[x]) /\ (Outstanding(x)' <=> Outstanding(x))
                       /\ (x # r => (Linked(x)' <=> Linked(x)))
  BY <1>2, <1>17, <1>18 DEF SamePart, Linked, Outstanding
<1>27. Linked(r)'
  BY <1>2, <1>3, <1>17 DEF Linked
<1>28. ~NewL2 /\ ~NewL2'
  BY <1>3, <1>17 DEF NewL2
<1>29. Qcow2Typed'
  BY <1>1, <1>17, <1>18, <1>21, <1>22 DEF Qcow2Typed, ImageTyped, RequestsTyped
<1>30. ThreadOK' /\ WaitingOK'
  BY <1>1, <1>3, <1>17, <1>18 DEF ThreadOK, Going, WaitingOK
<1>31. TablesOK'
  <2>1. /\ l1_table' # NoEntry => l1_table'.off \in H /\ l1_table'.copied /\ refcount'[l1_table'.off] = 1
        /\ disk_l1' \in {l1_table', NoEntry} /\ ("l1" \notin env'.fails => disk_l1' = l1_table')
    BY <1>1, <1>18 DEF TablesOK
  <2>2. l2_cache'[l1_table'.off] \in {NoTable, T'}
    BY <1>7, <1>18, <1>22, <1>23
  <2>3. ASSUME NEW g \in G, T'[g] # NoEntry
        PROVE  T'[g].off \in H /\ T'[g].copied /\ T'[g].off # o /\ refcount[T'[g].off] = 1
    <3>1. CASE g \in Mine(q)
      BY <3>1, <1>24, <1>25
    <3>2. CASE g \notin Mine(q)
      BY <3>2, <2>3, <1>1, <1>7, <1>24 DEF TablesOK
    <3>3. QED BY <3>1, <3>2
  <2>4. ASSUME NEW g \in G, NEW k \in G, T'[g].off = T'[k].off, T'[g].off # 0
        PROVE  g = k
    <3>1. CASE g \in Mine(q) /\ k \in Mine(q)
      BY <3>1, <2>4, <1>14, <1>24
    <3>2. CASE g \in Mine(q) /\ k \notin Mine(q)
      BY <3>2, <2>4, <1>24, <1>25
    <3>3. CASE g \notin Mine(q) /\ k \in Mine(q)
      BY <3>3, <2>4, <1>24, <1>25
    <3>4. CASE g \notin Mine(q) /\ k \notin Mine(q)
      BY <3>4, <2>4, <1>1, <1>24 DEF TablesOK
    <3>5. QED BY <3>1, <3>2, <3>3, <3>4
  <2>5. QED BY <2>1, <2>2, <2>3, <2>4, <1>7, <1>18 DEF TablesOK
<1>32. NewL2OK'
  BY <1>1, <1>17, <1>18, <1>28 DEF NewL2OK, NewL2
<1>33. PartsOK'
  <2>1. ASSUME NEW y \in Reqs, Written(req[y])
        PROVE  IF Linked(y)' THEN InPlace(req[y])' ELSE FreshPart(req[y])'
    <3>1. CASE y = r
      <4>1. ASSUME NEW x \in Part(q) PROVE T'[x \div CS].off = Host(q, x) /\ Host(q, x) \in H
        <5>1. x \div CS \in Mine(q) /\ x \div CS \in G
          BY <1>5, <1>6 DEF FreshPart
        <5>2. Host(q, x) = f + (x \div CS) - v
          BY <1>5, <1>10 DEF Host
        <5>3. QED BY <5>1, <5>2, <1>14, <1>24
      <4>2. InPlace(req[y])'
        BY <4>1, <3>1, <1>2, <1>18 DEF InPlace
      <4>3. QED BY <4>2, <3>1, <1>27
    <3>2. CASE y # r /\ Linked(y)
      <4>1. ASSUME NEW x \in Part(req[y])
            PROVE  T'[x \div CS].off = Host(req[y], x) /\ Host(req[y], x) \in H
        <5>1. T[x \div CS].off = Host(req[y], x) /\ Host(req[y], x) \in H /\ x \div CS \in G
          BY <3>2, <2>1, <1>1, PartFacts DEF PartsOK, InPlace
        <5>2. x \div CS \notin Mine(q)
          BY <5>1, <1>24, ImageConstants
        <5>3. QED BY <5>1, <5>2, <1>24
      <4>2. InPlace(req[y])'
        BY <4>1, <1>18 DEF InPlace
      <4>3. QED BY <4>2, <3>2, <1>26
    <3>3. CASE y # r /\ ~Linked(y)
      <4>1. FreshPart(req[y]) /\ Own(req[y]) \cap Own(q) = {}
        BY <3>3, <2>1, <1>1, <1>2, <1>3, <1>4 DEF PartsOK
      <4>2. ASSUME NEW h \in Own(req[y])
            PROVE  /\ refcount'[h] = 1 /\ h # l1_table'.off /\ \A g \in G : T'[g].off # h
        BY <4>1, <1>18, <1>24 DEF FreshPart
      <4>3. /\ req[y].nb > 0 /\ req[y].aoff = req[y].pos /\ Own(req[y]) \subseteq H
            /\ \A x \in Part(req[y]) : x \div CS \in Mine(req[y])
        BY <4>1 DEF FreshPart
      <4>4. FreshPart(req[y])'
        BY <4>2, <4>3, <1>18, <1>28 DEF FreshPart, NewL2
      <4>5. QED BY <4>4, <3>3, <1>26
    <3>4. QED BY <3>1, <3>2, <3>3
  <2>2. ASSUME NEW y \in Reqs, NEW z \in Reqs, y # z, Written(req[y]), Written(req[z]),
               ~Linked(y)', ~Linked(z)'
        PROVE  Own(req[y]) \cap Own(req[z]) = {}
    <3>1. ~Linked(y) /\ ~Linked(z)
      BY <2>2, <1>26, <1>27
    <3>2. QED BY <3>1, <2>2, <1>1 DEF PartsOK
  <2>3. QED BY <2>1, <2>2, <1>18 DEF PartsOK
<1>34. \A x \in Elements(cluster_allocs) : x \in Reqs /\ req[x].st \in {"io", "landed", "gone"}
  BY <1>1, ListType DEF AllocsOK, Qcow2Typed, RequestsTyped
<1>35. AllocsOK'
  <2>1. ASSUME NEW x \in Elements(cluster_allocs), Unfinished(x)'
        PROVE  Unfinished(x) /\ \A g \in Mine(req[x]) : T[g] = NoEntry => T'[g] = NoEntry
    <3>1. x # r
      BY <2>1, <1>2, <1>17 DEF Unfinished
    <3>2. Mine(req[x]) \cap Mine(q) = {} /\ Mine(req[x]) \subseteq G
      BY <3>1, <1>1, <1>2, <1>3 DEF AllocsOK
    <3>3. QED BY <3>2, <1>3, <1>24 DEF Unfinished
  <2>2. \A x \in Reqs : Written(req'[x]) /\ req'[x].nb > 0 /\ thr'.r # x => x \in Elements(cluster_allocs)
    BY <1>1, <1>17, <1>18 DEF AllocsOK
  <2>3. QED BY <1>1, <1>18, <1>26, <1>34, <2>1, <2>2, AllocsKept
<1>36. CountsOK'
  <2> SUFFICES ASSUME Calm', NEW h \in H, refcount'[h] = 1
               PROVE  \/ h = l1_table'.off
                      \/ \E g \in G : T'[g].off = h
                      \/ \E x \in Elements(cluster_allocs') : h \in Own(req'[x])
    BY DEF CountsOK
  <2>1. Calm
    BY DEF Calm
  <2>2. \/ h = l1_table.off
        \/ \E g \in G : T[g].off = h
        \/ \E x \in Elements(cluster_allocs) : h \in Own(req[x])
    BY <2>1, <1>1, <1>3, <1>18 DEF CountsOK
  <2>3. CASE \E g \in G : T[g].off = h
    <3>1. PICK g \in G : T[g].off = h
      BY <2>3
    <3>2. h # 0
      BY ImageConstants
    <3>3. T'[g].off = h
      BY <3>1, <3>2, <1>24
    <3>4. QED BY <3>3
  <2>4. QED BY <2>2, <2>3, <1>18
<1>37. LinkedOK'
  <2>1. \A g \in Mine(q) : g \in G /\ T'[g].off = q.off + g - (q.aoff \div CS)
    BY <1>6, <1>10, <1>24
  <2>2. QED BY <2>1, <1>2, <1>17, <1>18 DEF LinkedOK
<1>38. ASSUME NEW x \in Sectors
       PROVE  Reading(x)' = Reading(x) \/ (x \in Part(q) /\ Reading(x)' = r)
  <2>1. x \div CS \in G /\ x \in Nat
    BY SectorFacts
  <2>2. CASE x \div CS \in Mine(q)
    <3>1. PICK h : h = Host(q, x)
      OBVIOUS
    <3>2. h = f + (x \div CS) - v
      BY <3>1, <1>5, <1>10 DEF Host
    <3>3. T'[x \div CS].off = h /\ h \in Own(q) /\ T[x \div CS].off = 0
      BY <3>2, <2>1, <2>2, <1>24
    <3>4. h \in H /\ h # o /\ h # 0
      BY <3>3, <1>25, ImageConstants
    <3>5. Reading(x)' = blk[h].d[x % CS] /\ Reading(x) = 0
      BY <3>3, <3>4, <1>21 DEF Reading
    <3>6. CASE x \in Part(q)
      BY <3>1, <3>5, <3>6, <1>1, <1>2, <1>3 DEF LandedOK
    <3>7. CASE x \notin Part(q)
      BY <3>1, <3>5, <3>7, <2>2, <1>1, <1>2, <1>3 DEF LinkOK
    <3>8. QED BY <3>6, <3>7
  <2>3. CASE x \div CS \notin Mine(q)
    <3>1. T'[x \div CS] = T[x \div CS]
      BY <2>1, <2>3, <1>24
    <3>2. T[x \div CS].off # 0 => T[x \div CS].off \in H \ {o}
      BY <2>1, <1>1, <1>7, TableFacts
    <3>3. QED BY <3>1, <3>2, <1>21 DEF Reading
  <2>4. QED BY <2>2, <2>3
<1>39. ASSUME NEW x \in Part(q) PROVE Covers(r, x) /\ x \in Sectors
  BY <1>1, <1>2, <1>3, PartFacts
<1>40. Outstanding(r)
  BY <1>2, <1>3 DEF Outstanding
<1>41. ReadsOK'
  <2> SUFFICES ASSUME NEW x \in Sectors PROVE Reading(x)' \in may[x]
    BY <1>18 DEF ReadsOK
  <2>1. Reading(x) \in may[x]
    BY <1>1 DEF ReadsOK
  <2>2. x \in Part(q) => r \in may[x]
    BY <1>1, <1>3, <1>39, <1>40 DEF OverlapsOK
  <2>3. QED BY <2>1, <2>2, <1>38
<1>42. OverlapsOK'
  BY <1>1, <1>18, <1>26, OverlapsKept
<1>43. DoneOK'
  <2> SUFFICES ASSUME NEW y \in Reqs, Outstanding(y), NEW x \in req[y].rg[1]..req[y].pos - 1
               PROVE  Reading(x)' = y
    BY <1>18, <1>26 DEF DoneOK
  <2>1. x \in Sectors /\ Covers(y, x) /\ Reading(x) = y
    BY <1>1, DoneSectors DEF DoneOK
  <2>2. CASE x \in Part(q) /\ Reading(x)' = r
    <3>1. y = r
      BY <2>1, <2>2, <1>1, <1>3, <1>39, <1>40 DEF OverlapsOK
    <3>2. QED BY <3>1, <2>2
  <2>3. QED BY <2>1, <2>2, <1>38
<1>44. LandedOK'
  <2> SUFFICES ASSUME NEW y \in Reqs, req[y].st = "landed", NEW x \in Part(req[y])
               PROVE  blk'[Host(req[y], x)].d[x % CS] = y
    BY <1>18 DEF LandedOK
  <2>1. blk[Host(req[y], x)].d[x % CS] = y /\ Host(req[y], x) \in H \ {o}
    BY <1>1, <1>7, HostFacts DEF LandedOK, Written
  <2>2. QED BY <2>1, <1>21
<1>45. LinkOK'
  BY <1>17 DEF LinkOK
<1>46. QED BY <1>29, <1>30, <1>31, <1>32, <1>33, <1>35, <1>36, <1>37, <1>41, <1>42, <1>43, <1>44, <1>45
            DEF QcowInv, DataOK

-----------------------------------------------------------------------------
(***************************************************************************)
(* A new L2 table.                                                         *)
(***************************************************************************)
LEMMA AllocFacts ==
  ASSUME Qcow2Typed, NEW n \in Nat, NEW h \in H, qcow2_alloc_clusters(n, h)
  PROVE  /\ h..h + n - 1 \subseteq H /\ \A k \in h..h + n - 1 : refcount[k] = 0
         /\ refcount' \in [H -> {0, 1}]
         /\ \A k \in H : refcount'[k] = IF k \in h..h + n - 1 THEN 1 ELSE refcount[k]
         /\ NoneFreed /\ free_cluster_index' \in Nat \ {0}
<1>1. h \in Nat /\ h >= 1 /\ HC \in Nat
  BY ImageConstants
<1>2. h \in free_cluster_index..HC - n + 1 /\ \A k \in 0..n - 1 : refcount[h + k] = 0
  BY DEF qcow2_alloc_clusters, alloc_clusters_noref, FreeRuns
<1>3. free_cluster_index \in Nat /\ refcount \in [H -> {0, 1}]
  BY DEF Qcow2Typed, ImageTyped
<1>4. ASSUME NEW k \in h..h + n - 1 PROVE k \in H /\ refcount[k] = 0
  <2>1. k \in Nat /\ k >= 1 /\ k <= HC /\ k - h \in 0..n - 1 /\ h + (k - h) = k
    BY <1>1, <1>2, <1>3
  <2>2. k \in H
    BY <2>1, ImageConstants
  <2>3. PICK i \in 0..n - 1 : i = k - h /\ h + i = k
    BY <2>1
  <2>4. QED BY <2>2, <2>3, <1>2
<1>5. refcount' = [k \in H |-> IF k \in h..h + n - 1 THEN refcount[k] + 1 ELSE refcount[k]]
  BY DEF qcow2_alloc_clusters, update_refcount
<1>6. \A k \in H : refcount'[k] = IF k \in h..h + n - 1 THEN 1 ELSE refcount[k]
  BY <1>4, <1>5
<1>7. refcount' \in [H -> {0, 1}]
  <2>1. \A k \in H : refcount'[k] \in {0, 1}
    BY <1>3, <1>6
  <2>2. DOMAIN refcount' = H /\ refcount' = [k \in H |-> refcount'[k]]
    BY <1>5
  <2>3. QED BY <2>1, <2>2
<1>8. NoneFreed
  BY <1>4, <1>6 DEF NoneFreed
<1>9. free_cluster_index' \in Nat \ {0}
  BY <1>1 DEF qcow2_alloc_clusters
<1>10. QED BY <1>4, <1>6, <1>7, <1>8, <1>9

\* Without a table no data is on its way.
LEMMA NoTableYet ==
  ASSUME QcowInv, l1_table.off = 0
  PROVE  /\ \A r \in Reqs : ~Written(req[r]) /\ req[r].st # "landed"
         /\ T = NewTable /\ l1_table = NoEntry /\ disk_l1 = NoEntry
         /\ \A x \in Sectors : Reading(x) = 0
<1>1. Qcow2Typed /\ TablesOK /\ NewL2OK
  BY InvIs
<1>2. \A r \in Reqs : ~Written(req[r])
  BY <1>1 DEF NewL2OK
<1>3. T = NewTable /\ l1_table = NoEntry
  BY <1>1, TableFacts
<1>4. disk_l1 = NoEntry
  BY <1>1, <1>3 DEF TablesOK
<1>5. \A x \in Sectors : Reading(x) = 0
  BY <1>3, NewTableTyped, SectorFacts DEF Reading
<1>6. QED BY <1>2, <1>3, <1>4, <1>5 DEF Written

LEMMA AllocL2Keeps ==
  ASSUME QcowInv, env' = env, AllocL2
  PROVE  QcowInv'
<1>1. /\ Qcow2Typed /\ ThreadOK /\ WaitingOK /\ TablesOK /\ NewL2OK /\ PartsOK /\ AllocsOK /\ CountsOK
      /\ ReadsOK /\ OverlapsOK /\ DoneOK /\ LandedOK
  BY InvIs
<1>2. thr.st = "table" /\ l1_table.off = 0
  BY <1>1 DEF AllocL2, NeedsL2, ThreadOK
<1>3. PICK h \in H : qcow2_alloc_clusters(1, h) /\ thr' = [thr EXCEPT !.st = "l2write", !.new = h]
  BY DEF AllocL2
<1>4. /\ thr' \in ThrTypes /\ thr'.st = "l2write" /\ thr'.r = thr.r /\ thr'.ok = thr.ok
      /\ thr'.todo = thr.todo /\ thr'.new = h
  <2>1. h \in 0..HC
    BY ImageConstants
  <2>2. QED BY <2>1, <1>1, <1>3 DEF Qcow2Typed, RequestsTyped, ThrTypes, ThrStates
<1>5. UNCHANGED <<blk, disk_l1, snap, l1_table, l2_cache, req, cluster_allocs, dependent_requests, may>>
  BY DEF AllocL2, queues, ghosts
<1>6. h \in h..h + 1 - 1 /\ \A k \in h..h + 1 - 1 : k = h
  BY ImageConstants
<1>7. /\ refcount' \in [H -> {0, 1}] /\ refcount'[h] = 1 /\ \A k \in H \ {h} : refcount'[k] = refcount[k]
      /\ NoneFreed /\ free_cluster_index' \in Nat \ {0}
  BY <1>1, <1>3, <1>6, AllocFacts
<1>8. T' = T /\ \A x : Reading(x)' = Reading(x)
  BY <1>5, TableSame
<1>9. \A r \in Reqs : ~Written(req[r]) /\ req[r].st # "landed"
  BY <1>2, NoTableYet
<1>10. Qcow2Typed'
  BY <1>1, <1>4, <1>5, <1>7 DEF Qcow2Typed, ImageTyped, RequestsTyped
<1>11. ThreadOK'
  <2>1. \A i : Back(i)' <=> Back(i)
    BY <1>4, <1>5 DEF Back
  <2>2. QED BY <1>1, <1>2, <1>4, <1>5, <2>1 DEF ThreadOK, Going
<1>12. WaitingOK'
  BY <1>1, <1>4, <1>5 DEF WaitingOK
<1>13. TablesOK'
  BY <1>1, <1>5, <1>7, <1>8, TablesKept DEF TablesOK
<1>14. NewL2OK'
  BY <1>2, <1>4, <1>5, <1>7, <1>9 DEF NewL2OK
<1>15. PartsOK' /\ LandedOK' /\ LinkOK' /\ LinkedOK'
  BY <1>4, <1>5, <1>9 DEF PartsOK, LandedOK, LinkOK, LinkedOK
<1>16. AllocsOK'
  <2>1. \A x \in Elements(cluster_allocs) : x \in Reqs /\ req[x].st \in {"io", "landed", "gone"}
    BY <1>1, ListType DEF AllocsOK, Qcow2Typed, RequestsTyped
  <2>2. \A x \in Elements(cluster_allocs) : Unfinished(x) /\ SamePart(req[x], req'[x])
    BY <1>2, <1>5 DEF Unfinished, SamePart
  <2>3. QED BY <1>1, <1>5, <1>8, <1>9, <2>1, <2>2, AllocsKept
<1>17. CountsOK'
  <2> SUFFICES ASSUME Calm', NEW k \in H, refcount'[k] = 1
               PROVE  \/ k = l1_table'.off
                      \/ \E g \in G : T'[g].off = k
                      \/ \E x \in Elements(cluster_allocs') : k \in Own(req'[x])
                      \/ k = h
    BY <1>4 DEF CountsOK
  <2>1. Calm
    BY DEF Calm
  <2>2. CASE k # h
    BY <2>1, <2>2, <1>1, <1>2, <1>5, <1>7, <1>8 DEF CountsOK
  <2>3. QED BY <2>2
<1>18. \A x \in Reqs : Outstanding(x)' <=> Outstanding(x)
  BY <1>5 DEF Outstanding
<1>19. ReadsOK' /\ OverlapsOK' /\ DoneOK'
  BY <1>1, <1>5, <1>8, <1>18, ReadsKept, OverlapsKept, DoneKept
<1>20. QED BY <1>10, <1>11, <1>12, <1>13, <1>14, <1>15, <1>16, <1>17, <1>19 DEF QcowInv, DataOK

LEMMA WriteL2Keeps ==
  ASSUME QcowInv, env' = env, WriteL2
  PROVE  QcowInv'
<1>1. /\ Qcow2Typed /\ ThreadOK /\ WaitingOK /\ TablesOK /\ NewL2OK /\ PartsOK /\ AllocsOK /\ CountsOK
      /\ ReadsOK /\ OverlapsOK /\ DoneOK /\ LandedOK
  BY InvIs
<1>2. thr.st = "l2write" /\ l1_table.off = 0 /\ thr.new \in H /\ refcount[thr.new] = 1
  BY <1>1 DEF WriteL2, NewL2OK
<1>3. PICK h \in H : h = thr.new
  BY <1>2
<1>4. blk' = [blk EXCEPT ![h] = Table(NewTable)]
  BY <1>2, <1>3 DEF WriteL2
<1>5. /\ thr' \in ThrTypes /\ thr'.st = "l1write" /\ thr'.r = thr.r /\ thr'.ok = thr.ok
      /\ thr'.todo = thr.todo /\ thr'.new = thr.new
  BY <1>1, ThrWith DEF WriteL2, ThrStates
<1>6. UNCHANGED <<refcount, disk_l1, snap, l1_table, l2_cache, free_cluster_index, req,
                  cluster_allocs, dependent_requests, may>>
  BY DEF WriteL2, memory, queues, ghosts
<1>7. blk' \in [H -> Clusters] /\ blk'[h].t = NewTable
  <2>1. [i \in 0..CS - 1 |-> Junk] \in [0..CS - 1 -> Nat]
    BY DEF Junk
  <2>2. Table(NewTable) \in Clusters /\ Table(NewTable).t = NewTable
    BY <2>1, NewTableTyped DEF Table, Clusters
  <2>3. blk \in [H -> Clusters]
    BY <1>1 DEF Qcow2Typed, ImageTyped
  <2>4. QED BY <2>2, <2>3, <1>4
<1>8. T' = T /\ T = NewTable
  BY <1>2, <1>6 DEF T
<1>9. \A x \in Sectors : Reading(x)' = Reading(x)
  BY <1>8, NewTableTyped, SectorFacts DEF Reading
<1>10. \A r \in Reqs : ~Written(req[r]) /\ req[r].st # "landed"
  BY <1>2, NoTableYet
<1>11. Qcow2Typed'
  BY <1>1, <1>5, <1>6, <1>7 DEF Qcow2Typed, ImageTyped, RequestsTyped
<1>12. ThreadOK'
  <2>1. \A i : Back(i)' <=> Back(i)
    BY <1>5, <1>6 DEF Back
  <2>2. QED BY <1>1, <1>2, <1>5, <1>6, <2>1 DEF ThreadOK, Going
<1>13. WaitingOK'
  BY <1>1, <1>5, <1>6 DEF WaitingOK
<1>14. NoneFreed
  BY <1>6 DEF NoneFreed
<1>15. TablesOK'
  BY <1>1, <1>6, <1>8, <1>14, TablesKept DEF TablesOK
<1>16. NewL2OK'
  BY <1>2, <1>3, <1>5, <1>6, <1>7, <1>10 DEF NewL2OK
<1>17. PartsOK' /\ LandedOK' /\ LinkOK' /\ LinkedOK'
  BY <1>5, <1>6, <1>10 DEF PartsOK, LandedOK, LinkOK, LinkedOK
<1>18. AllocsOK'
  <2>1. \A x \in Elements(cluster_allocs) : x \in Reqs /\ req[x].st \in {"io", "landed", "gone"}
    BY <1>1, ListType DEF AllocsOK, Qcow2Typed, RequestsTyped
  <2>2. \A x \in Elements(cluster_allocs) : Unfinished(x) /\ SamePart(req[x], req'[x])
    BY <1>2, <1>6 DEF Unfinished, SamePart
  <2>3. QED BY <1>1, <1>6, <1>8, <1>10, <2>1, <2>2, AllocsKept
<1>19. CountsOK'
  BY <1>1, <1>5, <1>6, <1>8, CountsKept DEF NewL2
<1>20. \A x \in Reqs : Outstanding(x)' <=> Outstanding(x)
  BY <1>6 DEF Outstanding
<1>21. ReadsOK' /\ OverlapsOK' /\ DoneOK'
  BY <1>1, <1>6, <1>9, <1>20, ReadsKept, OverlapsKept, DoneKept
<1>22. QED BY <1>11, <1>12, <1>13, <1>15, <1>16, <1>17, <1>18, <1>19, <1>21 DEF QcowInv, DataOK

\* The new table becomes the one in use, in memory at least.
LEMMA NewTableInUse ==
  ASSUME QcowInv, env' = env, thr.st = "l1write", l1_table' = [off |-> thr.new, copied |-> TRUE],
         UNCHANGED <<refcount, blk, cluster_allocs>>,
         l2_cache' \in [H -> Tables \cup {NoTable}], l2_cache'[thr.new] \in {NoTable, NewTable},
         disk_l1' = l1_table' \/ (disk_l1' = disk_l1 /\ "l1" \in env.fails)
  PROVE  /\ TablesOK' /\ T' = T /\ T' = NewTable /\ l1_table' \in Entries /\ disk_l1' \in Entries
         /\ l1_table'.off = thr.new /\ thr.new # 0
         /\ \A x \in Sectors : Reading(x)' = Reading(x)
<1>1. Qcow2Typed /\ NewL2OK
  BY InvIs
<1>2. /\ l1_table.off = 0 /\ thr.new \in H /\ refcount[thr.new] = 1 /\ blk[thr.new].t = NewTable
  BY <1>1 DEF NewL2OK
<1>3. T = NewTable /\ disk_l1 = NoEntry
  BY <1>2, NoTableYet
<1>4. l1_table'.off = thr.new /\ l1_table'.copied /\ thr.new # 0
  BY <1>2, ImageConstants
<1>5. T' = NewTable
  BY <1>2, <1>4 DEF T
<1>6. l1_table' \in Entries /\ disk_l1' \in Entries
  <2>1. thr.new \in 0..HC
    BY <1>2, ImageConstants
  <2>2. l1_table' \in Entries
    BY <2>1 DEF Entries
  <2>3. QED BY <2>2, <1>3, NewTableTyped
<1>7. TablesOK'
  BY <1>2, <1>3, <1>4, <1>5, NewTableTyped DEF TablesOK
<1>8. \A x \in Sectors : Reading(x)' = Reading(x)
  BY <1>3, <1>5, NewTableTyped, SectorFacts DEF Reading
<1>9. QED BY <1>3, <1>4, <1>5, <1>6, <1>7, <1>8

LEMMA WriteL1Keeps ==
  ASSUME QcowInv, env' = env, WriteL1
  PROVE  QcowInv'
<1>1. /\ Qcow2Typed /\ ThreadOK /\ WaitingOK /\ TablesOK /\ NewL2OK /\ PartsOK /\ AllocsOK /\ CountsOK
      /\ ReadsOK /\ OverlapsOK /\ DoneOK /\ LandedOK
  BY InvIs
<1>2. thr.st = "l1write" /\ l1_table.off = 0 /\ thr.new \in H /\ blk[thr.new].t = NewTable
  BY <1>1 DEF WriteL1, NewL2OK
<1>3. /\ l1_table' = [off |-> thr.new, copied |-> TRUE] /\ disk_l1' = l1_table'
      /\ l2_cache' = [l2_cache EXCEPT ![thr.new] = NewTable]
  BY <1>2 DEF WriteL1
<1>4. l2_cache' \in [H -> Tables \cup {NoTable}] /\ l2_cache'[thr.new] = NewTable
  BY <1>1, <1>2, <1>3, NewTableTyped DEF Qcow2Typed, ImageTyped
<1>5. /\ thr' \in ThrTypes /\ thr'.st = "alloc" /\ thr'.r = thr.r /\ thr'.ok = thr.ok
      /\ thr'.todo = thr.todo
  BY <1>1, ThrWith DEF WriteL1, ThrStates
<1>6. UNCHANGED <<refcount, blk, snap, free_cluster_index, req, cluster_allocs, dependent_requests, may>>
  BY DEF WriteL1, queues, ghosts
<1>7. /\ TablesOK' /\ T' = T /\ T' = NewTable /\ l1_table' \in Entries /\ disk_l1' \in Entries
      /\ l1_table'.off = thr.new /\ thr.new # 0
      /\ \A x \in Sectors : Reading(x)' = Reading(x)
  BY <1>2, <1>3, <1>4, <1>6, NewTableInUse
<1>8. \A r \in Reqs : ~Written(req[r]) /\ req[r].st # "landed"
  BY <1>2, NoTableYet
<1>9. Qcow2Typed'
  BY <1>1, <1>4, <1>5, <1>6, <1>7 DEF Qcow2Typed, ImageTyped, RequestsTyped
<1>10. ThreadOK'
  <2>1. \A i : Back(i)' <=> Back(i)
    BY <1>5, <1>6 DEF Back
  <2>2. QED BY <1>1, <1>2, <1>5, <1>6, <2>1 DEF ThreadOK, Going
<1>11. WaitingOK'
  BY <1>1, <1>5, <1>6 DEF WaitingOK
<1>12. NewL2OK'
  BY <1>4, <1>5, <1>6, <1>7, <1>8 DEF NewL2OK
<1>13. PartsOK' /\ LandedOK' /\ LinkOK' /\ LinkedOK'
  BY <1>5, <1>6, <1>8 DEF PartsOK, LandedOK, LinkOK, LinkedOK
<1>14. AllocsOK'
  <2>1. \A x \in Elements(cluster_allocs) : x \in Reqs /\ req[x].st \in {"io", "landed", "gone"}
    BY <1>1, ListType DEF AllocsOK, Qcow2Typed, RequestsTyped
  <2>2. \A x \in Elements(cluster_allocs) : Unfinished(x) /\ SamePart(req[x], req'[x])
    BY <1>2, <1>6 DEF Unfinished, SamePart
  <2>3. QED BY <1>1, <1>6, <1>7, <1>8, <2>1, <2>2, AllocsKept
<1>15. CountsOK'
  <2> SUFFICES ASSUME Calm', NEW k \in H, refcount'[k] = 1
               PROVE  \/ k = thr.new
                      \/ \E g \in G : T'[g].off = k
                      \/ \E x \in Elements(cluster_allocs') : k \in Own(req'[x])
    BY <1>7 DEF CountsOK
  <2>1. Calm
    BY DEF Calm
  <2>2. k # l1_table.off
    BY <1>2, ImageConstants
  <2>3. QED BY <2>1, <2>2, <1>1, <1>2, <1>6, <1>7 DEF CountsOK
<1>16. \A x \in Reqs : Outstanding(x)' <=> Outstanding(x)
  BY <1>6 DEF Outstanding
<1>17. ReadsOK' /\ OverlapsOK' /\ DoneOK'
  BY <1>1, <1>6, <1>7, <1>16, ReadsKept, OverlapsKept, DoneKept
<1>18. QED BY <1>7, <1>9, <1>10, <1>11, <1>12, <1>13, <1>14, <1>15, <1>17 DEF QcowInv, DataOK

-----------------------------------------------------------------------------
(***************************************************************************)
(* The thread goes on to the next request.                                 *)
(***************************************************************************)
LEMMA ReturnFacts ==
  ASSUME QcowInv, env' = env, thr.st \in Going, thr' = Return, NEW r, r = Head(thr.todo),
         \A x \in Reqs \ {r} : req'[x].st = req[x].st,
         \A x \in Elements(cluster_allocs') : x \in Elements(cluster_allocs) \/ x = r
  PROVE  /\ thr' \in ThrTypes /\ ThreadOK' /\ thr'.st \in {"idle", "cont"}
         /\ \A x \in Elements(thr'.todo) : x \in Elements(thr.todo) /\ x # r
         /\ \A x \in Reqs \ {r} : (thr'.r = x <=> thr.r = x) /\ (thr.r = x => thr'.ok = thr.ok)
         /\ thr'.r # r
<1>1. Qcow2Typed /\ ThreadOK
  BY InvIs
<1>2. /\ r \in Reqs /\ r = thr.todo[1] /\ r \in Elements(thr.todo) /\ thr.r \in Reqs
      /\ Len(thr.todo) \in Nat /\ Len(thr.todo) >= 1 /\ thr.todo \in Seq(Reqs)
      /\ r = thr.r <=> Len(thr.todo) = 1
  BY GoesOn
<1>3. \A x \in Reqs : x # 0
  BY ImageConstants
<1>4. CASE Len(thr.todo) = 1
  <2>1. thr' = IdleThread
    BY <1>4 DEF Return
  <2>2. thr' \in ThrTypes /\ thr'.st = "idle" /\ thr'.r = 0 /\ thr'.ok /\ thr'.todo = <<>>
    BY <2>1, IdleTyped DEF IdleThread
  <2>3. ThreadOK'
    BY <2>2 DEF ThreadOK, Going
  <2>4. Elements(thr'.todo) = {}
    BY <2>2 DEF Elements
  <2>5. QED BY <2>2, <2>3, <2>4, <1>2, <1>3, <1>4
<1>5. CASE Len(thr.todo) # 1
  <2>1. PICK l, t : l = thr.todo /\ t = Tail(l)
    OBVIOUS
  <2>2. thr' = [thr EXCEPT !.st = "cont", !.todo = t, !.new = 0]
    BY <1>5, <2>1 DEF Return
  <2>3. l \in Seq(Reqs) /\ l # <<>> /\ NoRepeat(l) /\ l[Len(l)] = thr.r
    BY <1>1, <1>2, <2>1 DEF ThreadOK
  <2>4. /\ t \in Seq(Reqs) /\ NoRepeat(t) /\ Elements(t) = Elements(l) \ {r} /\ Len(t) = Len(l) - 1
    BY <2>1, <2>3, Tails
  <2>5. \A i \in 1..Len(l) - 1 : t[i] = l[i + 1]
    BY <2>1, <2>3, HeadTailProperties
  <2>6. Len(l) \in Nat /\ Len(l) >= 2 /\ r # thr.r
    <3>1. r # thr.r
      BY <1>2, <1>5
    <3>2. PICK n \in Nat : n = Len(l) /\ n >= 1 /\ n # 1
      BY <1>2, <1>5, <2>1
    <3>3. QED BY <3>1, <3>2
  <2>7. 0 \in 0..HC
    BY ImageConstants
  <2>8. /\ thr' \in ThrTypes /\ thr'.st = "cont" /\ thr'.r = thr.r /\ thr'.ok = thr.ok /\ thr'.todo = t
    BY <2>2, <2>4, <2>7, <1>1 DEF Qcow2Typed, RequestsTyped, ThrTypes, ThrStates
  <2>9. t # <<>> /\ t[Len(t)] = thr.r
    <3>1. Len(t) \in 1..Len(l) - 1 /\ Len(t) + 1 = Len(l)
      BY <2>4, <2>6
    <3>2. t[Len(t)] = l[Len(l)]
      BY <3>1, <2>5
    <3>3. QED BY <3>1, <3>2, <2>3, <2>4, ListType
  <2>10. ASSUME NEW i \in 1..Len(t)
         PROVE  req'[t[i]].st \in {"run", "wait"} \/ Back(i)'
    <3>1. PICK j \in 1..Len(l) : j = i + 1
      BY <2>4, <2>6
    <3>2. t[i] = l[j]
      BY <3>1, <2>4, <2>5, <2>6
    <3>3. t[i] \in Reqs /\ t[i] # r
      <4>1. t[i] \in Elements(t)
        BY <2>4, ListType DEF Elements
      <4>2. QED BY <4>1, <2>4, ListType
    <3>4. req[l[j]].st \in {"run", "wait"} \/ Back(j)
      BY <1>1, <2>1, <3>1 DEF ThreadOK
    <3>5. CASE Back(j)
      <4>1. j = Len(l) /\ thr.r \notin Elements(cluster_allocs) /\ Written(req[thr.r])
            /\ (thr.ok => req[thr.r].st = "landed")
        BY <3>5, <2>1 DEF Back
      <4>2. i = Len(t)
        <5>1. PICK n \in Nat : n = Len(l)
          BY <2>6
        <5>2. Len(t) = n - 1 /\ i + 1 = n /\ i \in 1..n - 1
          BY <5>1, <4>1, <3>1, <2>4
        <5>3. QED BY <5>2
      <4>3. thr.r \notin Elements(cluster_allocs')
        BY <4>1, <2>6
      <4>4. req'[thr.r].st = req[thr.r].st
        BY <1>2, <2>6
      <4>5. QED BY <4>1, <4>2, <4>3, <4>4, <2>8 DEF Back, Written
    <3>6. CASE req[l[j]].st \in {"run", "wait"}
      BY <3>2, <3>3, <3>6
    <3>7. QED BY <3>4, <3>5, <3>6
  <2>11. ThreadOK'
    <3>1. thr.r # 0 /\ (thr.ok \/ env.fails # {})
      BY <1>1 DEF ThreadOK
    <3>2. QED BY <3>1, <2>4, <2>8, <2>9, <2>10 DEF ThreadOK, Going
  <2>12. QED BY <2>1, <2>4, <2>6, <2>8, <2>11
<1>6. QED BY <1>4, <1>5

\* What the queues say of the others holds when r stops waiting.
LEMMA ReturnWaiting ==
  ASSUME QcowInv, dependent_requests' = dependent_requests, NEW r \in Elements(thr.todo),
         \A x \in Reqs \ {r} : req'[x].st = req[x].st,
         \A x \in Elements(thr'.todo) : x \in Elements(thr.todo)
  PROVE  WaitingOK'
<1>1. Qcow2Typed /\ WaitingOK
  BY InvIs
<1>2. \A x \in Reqs : \A y \in Elements(dependent_requests[x]) :
        y \in Reqs /\ req[y].st = "wait" /\ y \notin Elements(thr.todo)
  BY <1>1, ListType DEF WaitingOK, Qcow2Typed, RequestsTyped
<1>3. \A x \in Reqs : \A y \in Elements(dependent_requests[x]) :
        req'[y].st = "wait" /\ y \notin Elements(thr'.todo)
  BY <1>2
<1>4. QED BY <1>1, <1>3 DEF WaitingOK

LEMMA L2FailedKeeps ==
  ASSUME QcowInv, env' = env, L2AllocateFailed
  PROVE  QcowInv'
<1>1. /\ Qcow2Typed /\ ThreadOK /\ WaitingOK /\ TablesOK /\ NewL2OK /\ PartsOK /\ AllocsOK /\ CountsOK
      /\ ReadsOK /\ OverlapsOK /\ DoneOK /\ LandedOK
  BY InvIs
<1>2. thr.st \in {"l2write", "l1write"} /\ env.fails # {} /\ thr.st \in Going
  BY DEF L2AllocateFailed, Going
<1>3. PICK r : r = Head(thr.todo)
  OBVIOUS
<1>4. Finish(r, FALSE) /\ UNCHANGED <<refcount, blk, disk_l1, snap, free_cluster_index>>
      /\ l2_cache' = NoL2Cache
  BY <1>3 DEF L2AllocateFailed, image
<1>5. r \in Reqs /\ r \in Elements(thr.todo) /\ r \notin Elements(cluster_allocs)
  BY <1>2, <1>3, GoesOn
<1>6. /\ req' \in [Reqs -> ReqTypes] /\ \A x \in Reqs \ {r} : req'[x] = req[x]
      /\ req'[r].st = "done" /\ SamePart(req[r], req'[r]) /\ req'[r].left = req[r].left
  BY <1>1, <1>4, <1>5, ReqWith DEF Finish, ReqStates
<1>7. UNCHANGED <<cluster_allocs, dependent_requests>> /\ thr' = Return
  BY <1>4 DEF Finish, queues
<1>8. may' = may
  <2>1. may' = [x \in Sectors |-> may[x]]
    BY <1>4 DEF Finish
  <2>2. may \in [Sectors -> SUBSET Nat]
    BY <1>1 DEF Qcow2Typed, RequestsTyped
  <2>3. QED BY <2>1, <2>2
<1>9. /\ thr' \in ThrTypes /\ ThreadOK' /\ thr'.st \in {"idle", "cont"}
      /\ \A x \in Elements(thr'.todo) : x \in Elements(thr.todo) /\ x # r
  BY <1>2, <1>3, <1>6, <1>7, ReturnFacts
<1>10. l1_table.off = 0
  BY <1>1, <1>2 DEF NewL2OK
<1>11. \A x \in Reqs : ~Written(req[x]) /\ req[x].st # "landed"
  BY <1>10, NoTableYet
<1>12. \A x \in Reqs : ~Written(req'[x]) /\ req'[x].st # "landed"
  BY <1>6, <1>11 DEF Written
<1>13. NoL2Cache \in [H -> Tables \cup {NoTable}] /\ \A h \in H : NoL2Cache[h] = NoTable
  BY DEF NoL2Cache
<1>14. /\ TablesOK' /\ T' = T /\ l1_table' \in Entries
       /\ \A x \in Sectors : Reading(x)' = Reading(x)
  <2>1. CASE l1_table' = l1_table
    <3>1. T' = T /\ \A x : Reading(x)' = Reading(x)
      BY <2>1, <1>4, TableSame
    <3>2. NoneFreed
      BY <1>4 DEF NoneFreed
    <3>3. TablesOK'
      BY <2>1, <3>1, <3>2, <1>1, <1>4, <1>10, TablesKept
    <3>4. QED BY <2>1, <3>1, <3>3, <1>1 DEF Qcow2Typed, ImageTyped
  <2>2. CASE l1_table' # l1_table
    <3>1. "l1" \in env.fails /\ thr.st = "l1write" /\ l1_table' = [off |-> thr.new, copied |-> TRUE]
      BY <2>2 DEF L2AllocateFailed
    <3>2. thr.new \in H
      BY <1>1, <3>1 DEF NewL2OK
    <3>3. QED BY <3>1, <3>2, <1>4, <1>7, <1>13, NewTableInUse
  <2>3. QED BY <2>1, <2>2
<1>15. Qcow2Typed'
  <2>1. \A x \in Reqs : InRange(req'[x])
    <3>1. InRange(req'[r])
      BY <1>1, <1>5, <1>6 DEF Qcow2Typed, InRange, SamePart
    <3>2. QED BY <3>1, <1>1, <1>6 DEF Qcow2Typed
  <2>2. QED BY <2>1, <1>1, <1>4, <1>6, <1>7, <1>8, <1>9, <1>13, <1>14
             DEF Qcow2Typed, ImageTyped, RequestsTyped
<1>16. WaitingOK'
  BY <1>5, <1>6, <1>7, <1>9, ReturnWaiting
<1>17. NewL2OK'
  BY <1>9, <1>12 DEF NewL2OK
<1>18. PartsOK' /\ LandedOK' /\ LinkOK' /\ LinkedOK'
  BY <1>9, <1>12 DEF PartsOK, LandedOK, LinkOK, LinkedOK
<1>19. AllocsOK'
  <2>1. \A x \in Elements(cluster_allocs) : x \in Reqs /\ req[x].st \in {"io", "landed", "gone"} /\ x # r
    BY <1>1, <1>5, ListType DEF AllocsOK, Qcow2Typed, RequestsTyped
  <2>2. \A x \in Elements(cluster_allocs) : Unfinished(x) /\ SamePart(req[x], req'[x])
                                            /\ req'[x].st \in {"io", "landed", "gone"}
    BY <2>1, <1>2, <1>6 DEF Unfinished, SamePart
  <2>3. QED BY <1>1, <1>7, <1>12, <1>14, <2>2, AllocsKept
<1>20. CountsOK'
  BY <1>2 DEF CountsOK, Calm
<1>21. \A x \in Reqs : Outstanding(x)' => Outstanding(x) /\ req'[x].rg = req[x].rg /\ req'[x].pos = req[x].pos
  BY <1>6 DEF Outstanding
<1>22. ReadsOK' /\ OverlapsOK' /\ DoneOK'
  BY <1>1, <1>8, <1>14, <1>21, ReadsKept, OverlapsKept, DoneKept
<1>23. QED BY <1>9, <1>14, <1>15, <1>16, <1>17, <1>18, <1>19, <1>20, <1>22 DEF QcowInv, DataOK

-----------------------------------------------------------------------------
(***************************************************************************)
(* Crashes.                                                                *)
(***************************************************************************)
LEMMA CrashKeeps ==
  ASSUME QcowInv, env' = env, Plain, Crash
  PROVE  QcowInv'
<1>1. /\ Qcow2Typed /\ ThreadOK /\ WaitingOK /\ TablesOK /\ NewL2OK /\ PartsOK /\ AllocsOK /\ CountsOK
      /\ ReadsOK /\ OverlapsOK /\ DoneOK /\ LandedOK
  BY InvIs
<1>2. env.crash /\ disk_l1 = l1_table
  BY <1>1 DEF Plain, Crash, TablesOK
<1>3. /\ UNCHANGED <<refcount, blk, disk_l1, snap, l1_table, may>>
      /\ l2_cache' = NoL2Cache /\ free_cluster_index' = 1
      /\ cluster_allocs' = <<>> /\ dependent_requests' = [r \in Reqs |-> <<>>] /\ thr' = IdleThread
      /\ req' = [r \in Reqs |-> IF Outstanding(r) THEN [req[r] EXCEPT !.st = "done"] ELSE req[r]]
  BY <1>2 DEF Crash, image, ghosts
<1>4. T' = T /\ \A x : Reading(x)' = Reading(x)
  BY <1>3, TableSame
<1>5. ASSUME NEW r \in Reqs
      PROVE  /\ req'[r] \in ReqTypes /\ InRange(req'[r]) /\ req'[r].st \in {"new", "done", "gone"}
  <2>1. PICK q : q = req[r]
    OBVIOUS
  <2>2. q \in ReqTypes /\ q.st \in ReqStates /\ InRange(q)
    BY <1>1, <2>1, ReqFields
  <2>3. CASE Outstanding(r)
    <3>1. PICK p : p = [q EXCEPT !.st = "done"]
      OBVIOUS
    <3>2. req'[r] = p
      BY <2>1, <2>3, <3>1, <1>3
    <3>3. p \in ReqTypes
      BY <2>2, <3>1 DEF ReqTypes, ReqStates
    <3>4. p.st = "done" /\ p.n = q.n /\ p.left = q.left /\ p.pos = q.pos /\ p.rg = q.rg
      BY <2>2, <3>1 DEF ReqTypes
    <3>5. InRange(p)
      BY <2>2, <3>4 DEF InRange
    <3>6. QED BY <3>2, <3>3, <3>4, <3>5
  <2>4. CASE ~Outstanding(r)
    <3>1. req'[r] = q
      BY <2>1, <2>4, <1>3
    <3>2. q.st \in {"new", "done", "gone"}
      BY <2>1, <2>2, <2>4 DEF Outstanding, ReqStates
    <3>3. QED BY <3>1, <3>2, <2>2
  <2>5. QED BY <2>3, <2>4
<1>6. req' \in [Reqs -> ReqTypes]
  <2>1. DOMAIN req' = Reqs /\ req' = [r \in Reqs |-> req'[r]]
    BY <1>3
  <2>2. QED BY <2>1, <1>5
<1>7. thr' \in ThrTypes /\ thr'.st = "idle" /\ thr'.r = 0 /\ thr'.ok /\ thr'.todo = <<>>
  BY <1>3, IdleTyped DEF IdleThread
<1>8. Elements(<<>>) = {} /\ NoRepeat(<<>>) /\ <<>> \in Seq(Reqs)
  BY DEF Elements, NoRepeat
<1>9. Qcow2Typed'
  <2>1. NoL2Cache \in [H -> Tables \cup {NoTable}]
    BY DEF NoL2Cache
  <2>2. dependent_requests' \in [Reqs -> Seq(Reqs)]
    BY <1>3, <1>8
  <2>3. QED BY <2>1, <2>2, <1>1, <1>3, <1>5, <1>6, <1>7, <1>8 DEF Qcow2Typed, ImageTyped, RequestsTyped
<1>10. ThreadOK'
  BY <1>7 DEF ThreadOK, Going
<1>11. \A r \in Reqs : dependent_requests'[r] = <<>>
  BY <1>3
<1>12. WaitingOK'
  BY <1>8, <1>11 DEF WaitingOK
<1>13. NoneFreed
  BY <1>3 DEF NoneFreed
<1>14. TablesOK'
  <2>1. l1_table.off # 0 => l2_cache'[l1_table.off] = NoTable
    BY <1>1, <1>3, TableFacts DEF NoL2Cache
  <2>2. QED BY <2>1, <1>1, <1>3, <1>4, <1>13, TablesKept
<1>15. \A r \in Reqs : ~Written(req'[r]) /\ req'[r].st # "landed" /\ ~Outstanding(r)'
  BY <1>5 DEF Written, Outstanding
<1>16. NewL2OK'
  BY <1>7, <1>15 DEF NewL2OK
<1>17. PartsOK' /\ LandedOK' /\ LinkOK' /\ LinkedOK' /\ OverlapsOK' /\ DoneOK'
  BY <1>7, <1>15 DEF PartsOK, LandedOK, LinkOK, LinkedOK, OverlapsOK, DoneOK
<1>18. AllocsOK'
  BY <1>3, <1>8, <1>15 DEF AllocsOK
<1>19. CountsOK'
  BY <1>2 DEF CountsOK, Calm
<1>20. ReadsOK'
  BY <1>1, <1>3, <1>4, ReadsKept
<1>21. QED BY <1>9, <1>10, <1>12, <1>14, <1>16, <1>17, <1>18, <1>19, <1>20 DEF QcowInv, DataOK

-----------------------------------------------------------------------------
(***************************************************************************)
(* How much is allocated.                                                  *)
(***************************************************************************)

\* nb clusters at pos do not touch the allocation of o.
Clear(pos, nb, o) == pos + nb * CS <= o.aoff \/ pos > o.aoff + o.nb * CS

LEMMA ClearApart ==
  ASSUME NEW pos \in Nat, NEW nb \in Nat, NEW o \in ReqTypes, Clear(pos, nb, o)
  PROVE  ((pos \div CS)..(pos \div CS) + nb - 1) \cap Mine(o) = {}
<1>1. PICK a \in Nat, b \in Nat : a = o.aoff /\ b = o.nb
  BY DEF ReqTypes
<1>2. PICK v \in Nat, w \in Nat : v = pos \div CS /\ w = a \div CS
  BY DivMod
<1>3. (pos + nb * CS) \div CS = v + nb /\ (a + b * CS) \div CS = w + b
  BY <1>2, DivWhole
<1>4. pos + nb * CS \in Nat /\ a + b * CS \in Nat
  BY ImageConstants
<1>5. v + nb <= w \/ w + b <= v
  <2>1. CASE pos + nb * CS <= a
    BY <2>1, <1>2, <1>3, <1>4, DivOrder
  <2>2. CASE pos > a + b * CS
    <3>1. a + b * CS <= pos
      BY <2>2, <1>4
    <3>2. QED BY <3>1, <1>2, <1>3, <1>4, DivOrder
  <2>3. QED BY <2>1, <2>2, <1>1 DEF Clear
<1>6. Mine(o) = w..w + b - 1
  BY <1>1, <1>2 DEF Mine
<1>7. (v..v + nb - 1) \cap (w..w + b - 1) = {}
  BY <1>5
<1>8. QED BY <1>2, <1>6, <1>7

\* What the first k allocations leave of nb0 clusters at pos.
CutOK(c, pos, nb0, k) ==
  /\ c.nb \in 0..nb0
  /\ c.nb = 0 => c.on \in Elements(cluster_allocs)
  /\ c.nb > 0 => c.on = 0 /\ \A j \in 1..k : Clear(pos, c.nb, req[cluster_allocs[j]])

LEMMA CutStep ==
  ASSUME Qcow2Typed, NEW pos \in Nat, NEW nb0 \in Nat, NEW k \in Nat, k + 1 <= Len(cluster_allocs),
         NEW c, CutOK(c, pos, nb0, k)
  PROVE  CutOK(CutShort(c, pos, cluster_allocs[k + 1]), pos, nb0, k + 1)
<1>1. cluster_allocs \in Seq(Reqs)
  BY DEF Qcow2Typed, RequestsTyped
<1>2. PICK r : r = cluster_allocs[k + 1]
  OBVIOUS
<1>3. r \in Reqs /\ r \in Elements(cluster_allocs)
  <2>1. k + 1 \in 1..Len(cluster_allocs)
    BY <1>1, ListType
  <2>2. QED BY <2>1, <1>1, <1>2, ListType DEF Elements
<1>4. PICK a \in Nat, b \in Nat : a = req[r].aoff /\ b = req[r].nb
  BY <1>3, ReqFields
<1>5. PICK n \in Nat : n = c.nb /\ n <= nb0
  BY DEF CutOK
<1>6. PICK w \in Nat, z \in Nat : w = n * CS /\ w = CS * n /\ z = b * CS
  BY ImageConstants
<1>7. PICK e \in Nat : e = IF pos < a THEN (a - pos) \div CS ELSE 0
  <2>1. CASE pos < a
    <3>1. a - pos \in Nat
      BY <2>1
    <3>2. QED BY <3>1, <2>1, DivMod
  <2>2. QED BY <2>1
<1>8. CutShort(c, pos, r) = IF n = 0 \/ pos + w < a \/ pos > a + z THEN c
                            ELSE [nb |-> e, on |-> IF e = 0 THEN r ELSE 0]
  BY <1>4, <1>5, <1>6, <1>7 DEF CutShort
<1>9. PICK d : d = CutShort(c, pos, r)
  OBVIOUS
<1>10. \A j \in 1..k + 1 : j \in 1..k \/ j = k + 1
  OBVIOUS
<1>11. CASE n = 0
  <2>1. d = c
    BY <1>8, <1>9, <1>11
  <2>2. c.nb = 0 /\ c.nb \in 0..nb0 /\ ~(c.nb > 0)
    BY <1>5, <1>11
  <2>3. c.on \in Elements(cluster_allocs)
    BY <2>2 DEF CutOK
  <2>4. CutOK(c, pos, nb0, k + 1)
    BY <2>2, <2>3 DEF CutOK
  <2>5. QED BY <2>1, <2>4, <1>2, <1>9
<1>12. CASE n # 0 /\ (pos + w < a \/ pos > a + z)
  <2>1. Clear(pos, n, req[r])
    BY <1>4, <1>6, <1>12 DEF Clear
  <2>2. \A j \in 1..k + 1 : Clear(pos, n, req[cluster_allocs[j]])
    BY <2>1, <1>2, <1>5, <1>10, <1>12 DEF CutOK
  <2>3. QED BY <2>2, <1>2, <1>5, <1>8, <1>12 DEF CutOK
<1>13. CASE n # 0 /\ ~(pos + w < a \/ pos > a + z)
  <2>1. d = [nb |-> e, on |-> IF e = 0 THEN r ELSE 0]
    BY <1>8, <1>9, <1>13
  <2>2. PICK u \in Nat : u = CS * e /\ u = e * CS
    BY ImageConstants
  <2>3. pos < a => u <= a - pos
    <3> SUFFICES ASSUME pos < a PROVE u <= a - pos
      OBVIOUS
    <3>1. a - pos \in Nat
      OBVIOUS
    <3>2. a - pos = CS * e + ((a - pos) % CS) /\ (a - pos) % CS \in 0..CS - 1
      BY <3>1, <1>7, DivMod
    <3>3. QED BY <3>2, <2>2, ImageConstants
  <2>4. e <= n
    <3>1. CASE pos < a
      <4> SUFFICES ASSUME n < e PROVE FALSE
        OBVIOUS
      <4>1. CS * n + CS <= CS * e
        BY Product, ImageConstants
      <4>2. w + CS <= u /\ u <= a - pos /\ pos + w >= a
        <5>1. w + CS <= u
          BY <4>1, <2>2, <1>6
        <5>2. u <= a - pos /\ pos + w >= a
          BY <3>1, <2>3, <1>13
        <5>3. QED BY <5>1, <5>2
      <4>3. QED BY <4>2, ImageConstants
    <3>2. QED BY <3>1, <1>7
  <2>5. CASE e = 0
    <3>1. d.nb = 0 /\ d.on = r
      BY <2>1, <2>5
    <3>2. QED BY <3>1, <1>2, <1>3, <1>9 DEF CutOK
  <2>6. CASE e > 0
    <3>1. d.nb = e /\ d.on = 0
      BY <2>1, <2>6
    <3>2. pos < a
      BY <2>6, <1>7
    <3>3. Clear(pos, e, req[r])
      BY <3>2, <2>2, <2>3, <1>4 DEF Clear
    <3>4. u <= w
      BY <2>2, <2>4, <1>6, Product, ImageConstants
    <3>5. ASSUME NEW j \in 1..k PROVE Clear(pos, e, req[cluster_allocs[j]])
      <4>1. PICK o : o = req[cluster_allocs[j]]
        OBVIOUS
      <4>2. Clear(pos, n, o)
        BY <4>1, <1>5, <1>13 DEF CutOK
      <4>3. o.aoff \in Nat
        <5>1. j \in 1..Len(cluster_allocs)
          BY <1>1, ListType
        <5>2. cluster_allocs[j] \in Reqs
          BY <5>1, <1>1, ListType
        <5>3. QED BY <5>2, <4>1, ReqFields
      <4>4. pos + w <= o.aoff => pos + u <= o.aoff
        BY <3>4, <4>3
      <4>5. QED BY <4>1, <4>2, <4>4, <2>2, <1>6 DEF Clear
    <3>6. \A j \in 1..k + 1 : Clear(pos, e, req[cluster_allocs[j]])
      BY <3>3, <3>5, <1>2, <1>10
    <3>7. e \in 0..nb0
      BY <2>4, <1>5
    <3>8. QED BY <3>1, <3>6, <3>7, <2>6, <1>2, <1>9 DEF CutOK
  <2>7. QED BY <2>5, <2>6
<1>14. QED BY <1>11, <1>12, <1>13

\* The first n values of the recursive function of Conflict.
CutTable(g, pos, nb0, n) ==
  /\ g = [k \in 0..n |-> g[k]] /\ g[0] = [nb |-> nb0, on |-> 0]
  /\ \A k \in 1..n : g[k] = CutShort(g[k - 1], pos, cluster_allocs[k])

LEMMA CutTableExists ==
  ASSUME NEW pos, NEW nb0
  PROVE  \A n \in Nat : \E g : CutTable(g, pos, nb0, n)
<1> DEFINE S == {n \in Nat : ~ \E g : CutTable(g, pos, nb0, n)}
<1> SUFFICES ASSUME S # {} PROVE FALSE
  OBVIOUS
<1>1. PICK n \in S : \A m \in S : n <= m
  BY LeastOf
<1>2. n # 0
  <2> DEFINE g == [k \in 0..0 |-> [nb |-> nb0, on |-> 0]]
  <2>1. CutTable(g, pos, nb0, 0)
    BY DEF CutTable
  <2>2. QED BY <2>1
<1>3. n - 1 \in Nat /\ n - 1 \notin S
  BY <1>1, <1>2
<1>4. PICK g : CutTable(g, pos, nb0, n - 1)
  BY <1>3
<1>5. PICK x : x = CutShort(g[n - 1], pos, cluster_allocs[n])
  OBVIOUS
<1> DEFINE h == [k \in 0..n |-> IF k = n THEN x ELSE g[k]]
<1>6. h = [k \in 0..n |-> h[k]] /\ h[0] = [nb |-> nb0, on |-> 0]
  BY <1>2, <1>3, <1>4 DEF CutTable
<1>7. ASSUME NEW k \in 1..n PROVE h[k] = CutShort(h[k - 1], pos, cluster_allocs[k])
  <2>1. CASE k = n
    <3>1. h[k] = x /\ h[k - 1] = g[n - 1]
      BY <2>1, <1>3
    <3>2. QED BY <2>1, <3>1, <1>5
  <2>2. CASE k # n
    <3>1. h[k] = g[k] /\ h[k - 1] = g[k - 1] /\ k \in 1..n - 1
      BY <2>2, <1>3
    <3>2. QED BY <3>1, <1>4 DEF CutTable
  <2>3. QED BY <2>1, <2>2
<1> HIDE DEF h
<1>8. CutTable(h, pos, nb0, n)
  BY <1>6, <1>7 DEF CutTable
<1>9. QED BY <1>8

LEMMA ConflictFacts ==
  ASSUME Qcow2Typed, NEW pos \in Nat, NEW nb0 \in Nat, nb0 >= 1, NEW c, c = Conflict(pos, nb0)
  PROVE  /\ c.nb \in 0..nb0
         /\ c.on # 0 => c.on \in Elements(cluster_allocs) /\ c.on \in Reqs
         /\ c.on = 0 => c.nb >= 1 /\ \A x \in Elements(cluster_allocs) : Clear(pos, c.nb, req[x])
<1> DEFINE n == Len(cluster_allocs)
           E(f) == [i \in 0..Len(cluster_allocs) |->
                      IF i = 0 THEN [nb |-> nb0, on |-> 0] ELSE CutShort(f[i - 1], pos, cluster_allocs[i])]
           F == CHOOSE f : f = E(f)
<1>1. cluster_allocs \in Seq(Reqs) /\ n \in Nat
  BY ListType DEF Qcow2Typed, RequestsTyped
<1>2. PICK g : CutTable(g, pos, nb0, n)
  BY <1>1, CutTableExists
<1>3. g = E(g)
  <2>1. g = [k \in 0..n |-> g[k]] /\ g[0] = [nb |-> nb0, on |-> 0]
    BY <1>2 DEF CutTable
  <2>2. \A k \in 0..n : k # 0 => k \in 1..n
    BY <1>1
  <2>3. \A k \in 0..n : g[k] = IF k = 0 THEN [nb |-> nb0, on |-> 0]
                               ELSE CutShort(g[k - 1], pos, cluster_allocs[k])
    BY <2>1, <2>2, <1>2 DEF CutTable
  <2>4. QED BY <2>1, <2>3
<1>4. F = E(F)
  <2> HIDE DEF E
  <2>1. QED BY <1>3
<1>5. c = F[n]
  BY DEF Conflict
<1>6. F[0] = [nb |-> nb0, on |-> 0] /\ \A k \in 1..n : F[k] = CutShort(F[k - 1], pos, cluster_allocs[k])
  <2> DEFINE e == E(F)
  <2>1. e[0] = [nb |-> nb0, on |-> 0]
    BY <1>1
  <2>2. \A k \in 1..n : e[k] = CutShort(F[k - 1], pos, cluster_allocs[k])
    BY <1>1
  <2>3. F = e
    BY <1>4
  <2> HIDE DEF e
  <2>4. QED BY ONLY <2>1, <2>2, <2>3
<1> HIDE DEF F
<1> DEFINE S == {k \in Nat : k \in 0..n /\ ~CutOK(F[k], pos, nb0, k)}
<1>7. S = {}
  <2> SUFFICES ASSUME S # {} PROVE FALSE
    OBVIOUS
  <2>1. PICK k \in S : \A m \in S : k <= m
    BY LeastOf
  <2>2. CASE k = 0
    <3>1. F[0].nb = nb0 /\ F[0].on = 0 /\ nb0 \in 0..nb0 /\ nb0 # 0
      BY <1>6
    <3>2. \A j \in 1..0 : FALSE
      OBVIOUS
    <3>3. CutOK(F[0], pos, nb0, 0)
      BY <3>1, <3>2 DEF CutOK
    <3>4. QED BY <3>3, <2>1, <2>2
  <2>3. CASE k # 0
    <3>1. PICK j : j = k - 1
      OBVIOUS
    <3>2. j \in Nat /\ j + 1 = k /\ j + 1 <= Len(cluster_allocs) /\ j \in 0..n /\ j \notin S /\ k \in 1..n
      BY <3>1, <2>1, <2>3, <1>1
    <3>3. CutOK(F[j], pos, nb0, j)
      BY <3>2
    <3>4. F[k] = CutShort(F[j], pos, cluster_allocs[j + 1])
      BY <3>1, <3>2, <1>6
    <3>5. CutOK(CutShort(F[j], pos, cluster_allocs[j + 1]), pos, nb0, j + 1)
      BY <3>2, <3>3, CutStep
    <3>6. QED BY <3>2, <3>4, <3>5, <2>1
  <2>4. QED BY <2>2, <2>3
<1>8. CutOK(c, pos, nb0, n)
  <2>1. n \in 0..n
    BY <1>1
  <2>2. QED BY <2>1, <1>1, <1>5, <1>7
<1>9. c.nb \in Nat /\ c.nb \in 0..nb0
  BY <1>8 DEF CutOK
<1>10. Elements(cluster_allocs) \subseteq Reqs /\ 0 \notin Reqs
  BY <1>1, ListType, ImageConstants
<1>11. c.on # 0 => c.on \in Elements(cluster_allocs)
  BY <1>8, <1>9 DEF CutOK
<1>12. ASSUME c.on = 0 PROVE c.nb >= 1 /\ \A x \in Elements(cluster_allocs) : Clear(pos, c.nb, req[x])
  <2>1. c.nb > 0
    BY <1>8, <1>9, <1>10, <1>12 DEF CutOK
  <2>2. \A j \in 1..n : Clear(pos, c.nb, req[cluster_allocs[j]])
    BY <2>1, <1>8 DEF CutOK
  <2>3. \A x \in Elements(cluster_allocs) : \E j \in 1..n : x = cluster_allocs[j]
    BY <1>1, ListType DEF Elements
  <2>4. QED BY <2>1, <2>2, <2>3, <1>9
<1>13. QED BY <1>9, <1>10, <1>11, <1>12
-----------------------------------------------------------------------------
(***************************************************************************)
(* The allocation of clusters.                                             *)
(***************************************************************************)

\* What every outcome has in common, p being what the request r becomes.
LEMMA PlacedKeeps ==
  ASSUME QcowInv, env' = env, thr.st = "alloc", NEW r, r = Head(thr.todo), thr' = Return,
         NEW p \in ReqTypes, InRange(p), p.st \in {"io", "wait"}, p.rg = req[r].rg, p.pos = req[r].pos,
         req' = [req EXCEPT ![r] = p],
         UNCHANGED <<blk, disk_l1, snap, l1_table, l2_cache, may>>,
         refcount' \in [H -> {0, 1}], NoneFreed, free_cluster_index' \in Nat \ {0},
         \A h \in H : refcount'[h] = 1 => refcount[h] = 1 \/ (p.nb > 0 /\ h \in Own(p)),
         cluster_allocs' \in Seq(Reqs), NoRepeat(cluster_allocs'),
         Elements(cluster_allocs') = Elements(cluster_allocs) \cup (IF p.nb > 0 THEN {r} ELSE {}),
         dependent_requests' \in [Reqs -> Seq(Reqs)], WaitingOK',
         p.st = "wait" => p.nb = 0,
         p.st = "io" /\ p.nb = 0 => InPlace(p),
         p.nb > 0 =>
           /\ p.aoff = p.pos /\ Own(p) \subseteq H
           /\ \A x \in Part(p) : x \div CS \in Mine(p)
           /\ \A h \in Own(p) : refcount[h] = 0 /\ refcount'[h] = 1
           /\ Mine(p) \subseteq G /\ \A g \in Mine(p) : T[g] = NoEntry
           /\ \A x \in Elements(cluster_allocs) : Mine(p) \cap Mine(req[x]) = {}
  PROVE  QcowInv'
<1>1. /\ Qcow2Typed /\ ThreadOK /\ WaitingOK /\ TablesOK /\ NewL2OK /\ PartsOK /\ AllocsOK /\ CountsOK
      /\ ReadsOK /\ OverlapsOK /\ DoneOK /\ LandedOK
  BY InvIs
<1>2. /\ r \in Reqs /\ r \in Elements(thr.todo) /\ r \notin Elements(cluster_allocs) /\ Outstanding(r)
  BY GoesOn DEF Going
<1>3. req' \in [Reqs -> ReqTypes] /\ req'[r] = p /\ \A x \in Reqs \ {r} : req'[x] = req[x]
  BY <1>1, <1>2 DEF Qcow2Typed, RequestsTyped
<1>4. \A x \in Elements(cluster_allocs') : x \in Elements(cluster_allocs) \/ x = r
  OBVIOUS
<1>5. /\ thr' \in ThrTypes /\ ThreadOK' /\ thr'.st \in {"idle", "cont"} /\ thr'.r # r
      /\ \A x \in Reqs \ {r} : (thr'.r = x <=> thr.r = x) /\ (thr.r = x => thr'.ok = thr.ok)
  <2>1. \A x \in Reqs \ {r} : req'[x].st = req[x].st
    BY <1>3
  <2>2. thr.st \in Going
    BY DEF Going
  <2>3. QED BY <2>1, <2>2, <1>4, ReturnFacts
<1>6. Qcow2Typed'
  <2>1. \A x \in Reqs : InRange(req'[x])
    BY <1>1, <1>3 DEF Qcow2Typed
  <2>2. QED BY <2>1, <1>1, <1>3, <1>5 DEF Qcow2Typed, ImageTyped, RequestsTyped
<1>7. T' = T /\ \A x : Reading(x)' = Reading(x)
  BY TableSame
<1>8. TablesOK'
  BY <1>1, <1>7, TablesKept DEF TablesOK
<1>9. NewL2OK'
  <2>1. l1_table.off # 0
    BY <1>1 DEF NewL2OK
  <2>2. QED BY <2>1, <1>5 DEF NewL2OK
<1>10. /\ Linked(r)' <=> p.nb = 0
       /\ \A x \in Reqs \ {r} : Linked(x)' <=> Linked(x)
  <2>1. Linked(r)' <=> p.nb = 0
    BY <1>3, <1>5 DEF Linked
  <2>2. ASSUME NEW x \in Reqs \ {r} PROVE Linked(x)' <=> Linked(x)
    <3>1. req'[x] = req[x] /\ (thr'.r = x <=> thr.r = x) /\ (thr.r = x => thr'.ok = thr.ok)
      BY <1>3, <1>5
    <3>2. QED BY <3>1, <1>5 DEF Linked
  <2>3. QED BY <2>1, <2>2
<1>11. PartsOK'
  <2>1. \A h \in H : refcount[h] = 0 => h # l1_table.off /\ \A g \in G : T[g].off # h
    <3>1. \A g \in G : T[g].off # 0 => refcount[T[g].off] = 1
      BY <1>1, TableFacts
    <3>2. l1_table.off # 0 => refcount[l1_table.off] = 1
      BY <1>1, NewTableTyped DEF TablesOK
    <3>3. 0 \notin H
      BY ImageConstants
    <3>4. QED BY <3>1, <3>2, <3>3
  <2>2. ASSUME NEW x \in Reqs, Written(req'[x])
        PROVE  (IF Linked(x) THEN InPlace(req[x]) ELSE FreshPart(req[x]))'
    <3>1. CASE x = r
      <4>1. p.st = "io" /\ req'[x] = p
        BY <2>2, <3>1, <1>3 DEF Written
      <4>2. CASE p.nb = 0
        <5>1. InPlace(p)
          BY <4>1, <4>2
        <5>2. QED BY <4>1, <4>2, <5>1, <3>1, <1>7, <1>10 DEF InPlace
      <4>3. CASE p.nb # 0
        <5>1. p.nb > 0
          BY <4>3 DEF ReqTypes
        <5>2. \A h \in Own(p) : h \in H /\ refcount'[h] = 1 /\ h # l1_table.off /\ \A g \in G : T[g].off # h
          BY <5>1, <2>1
        <5>3. thr'.st \notin {"l2write", "l1write"}
          BY <1>5
        <5>4. QED BY <4>1, <4>3, <5>1, <5>2, <5>3, <3>1, <1>7, <1>10 DEF FreshPart
      <4>4. QED BY <4>2, <4>3
    <3>2. CASE x # r
      <4>1. req'[x] = req[x] /\ Written(req[x]) /\ (Linked(x)' <=> Linked(x))
        BY <2>2, <3>2, <1>3, <1>10
      <4>2. CASE Linked(x)
        <5>1. InPlace(req[x])
          BY <4>1, <4>2, <1>1 DEF PartsOK
        <5>2. QED BY <4>1, <4>2, <5>1, <1>7 DEF InPlace
      <4>3. CASE ~Linked(x)
        <5>1. FreshPart(req[x])
          BY <4>1, <4>3, <1>1 DEF PartsOK
        <5>2. FreshPart(req[x])'
          BY <5>1, <4>1, <1>5, <1>7 DEF FreshPart, NoneFreed
        <5>3. QED BY <4>1, <4>3, <5>2
      <4>4. QED BY <4>2, <4>3
    <3>3. QED BY <3>1, <3>2
  <2>3. ASSUME NEW x \in Reqs, x # r, Written(req[x]), ~Linked(x), p.nb > 0
        PROVE  Own(p) \cap Own(req[x]) = {}
    <3>1. FreshPart(req[x])
      BY <2>3, <1>1 DEF PartsOK
    <3>2. \A h \in Own(req[x]) : refcount[h] = 1
      BY <3>1 DEF FreshPart
    <3>3. QED BY <2>3, <3>2
  <2>4. ASSUME NEW x \in Reqs, NEW y \in Reqs, x # y, Written(req'[x]), Written(req'[y]),
               ~Linked(x)', ~Linked(y)'
        PROVE  Own(req'[x]) \cap Own(req'[y]) = {}
    <3>1. p.nb \in Nat
      BY DEF ReqTypes
    <3>2. CASE x = r
      BY <2>3, <2>4, <3>1, <3>2, <1>3, <1>10
    <3>3. CASE y = r
      BY <2>3, <2>4, <3>1, <3>3, <1>3, <1>10
    <3>4. CASE x # r /\ y # r
      BY <2>4, <3>4, <1>1, <1>3, <1>10 DEF PartsOK
    <3>5. QED BY <3>2, <3>3, <3>4
  <2>5. QED BY <2>2, <2>4 DEF PartsOK
<1>12. \A x \in Elements(cluster_allocs) : x \in Reqs \ {r} /\ req'[x] = req[x]
  <2>1. Elements(cluster_allocs) \subseteq Reqs
    BY <1>1, ListType DEF Qcow2Typed, RequestsTyped
  <2>2. QED BY <2>1, <1>2, <1>3
<1>13. AllocsOK'
  <2>1. ASSUME NEW x \in Elements(cluster_allocs')
        PROVE  /\ req'[x].st \in {"io", "landed", "gone"} /\ req'[x].nb > 0 /\ Mine(req'[x]) \subseteq G
               /\ \A g \in Mine(req'[x]) : T'[g] = NoEntry
    <3>1. CASE x \in Elements(cluster_allocs)
      <4>1. /\ req[x].st \in {"io", "landed", "gone"} /\ req[x].nb > 0 /\ Mine(req[x]) \subseteq G
            /\ \A g \in Mine(req[x]) : T[g] = NoEntry
        BY <3>1, <1>1 DEF AllocsOK
      <4>2. QED BY <4>1, <3>1, <1>7, <1>12
    <3>2. CASE x \notin Elements(cluster_allocs)
      <4>1. x = r /\ p.nb > 0 /\ req'[x] = p
        BY <3>2, <1>3
      <4>2. p.st = "io"
        BY <4>1
      <4>3. QED BY <4>1, <4>2, <1>7
    <3>3. QED BY <3>1, <3>2
  <2>2. ASSUME NEW x \in Reqs, Written(req'[x]), req'[x].nb > 0, thr'.r # x
        PROVE  x \in Elements(cluster_allocs')
    <3>1. CASE x = r
      BY <2>2, <3>1, <1>3
    <3>2. CASE x # r
      BY <2>2, <3>2, <1>1, <1>3, <1>5 DEF AllocsOK
    <3>3. QED BY <3>1, <3>2
  <2>3. ASSUME NEW x \in Elements(cluster_allocs'), NEW y \in Elements(cluster_allocs'), x # y
        PROVE  Mine(req'[x]) \cap Mine(req'[y]) = {}
    <3>1. CASE x \in Elements(cluster_allocs) /\ y \in Elements(cluster_allocs)
      BY <2>3, <3>1, <1>1, <1>12 DEF AllocsOK
    <3>2. CASE x \notin Elements(cluster_allocs)
      <4>1. x = r /\ p.nb > 0 /\ req'[x] = p /\ y \in Elements(cluster_allocs)
        BY <2>3, <3>2, <1>3
      <4>2. QED BY <4>1, <1>12
    <3>3. CASE y \notin Elements(cluster_allocs)
      <4>1. y = r /\ p.nb > 0 /\ req'[y] = p /\ x \in Elements(cluster_allocs)
        BY <2>3, <3>3, <1>3
      <4>2. QED BY <4>1, <1>12
    <3>4. QED BY <3>1, <3>2, <3>3
  <2>4. QED BY <2>1, <2>2, <2>3 DEF AllocsOK
<1>14. CountsOK'
  <2> SUFFICES ASSUME Calm', NEW k \in H, refcount'[k] = 1
               PROVE  \/ k = l1_table'.off
                      \/ \E g \in G : T'[g].off = k
                      \/ \E x \in Elements(cluster_allocs') : k \in Own(req'[x])
    BY DEF CountsOK
  <2>1. Calm
    BY DEF Calm
  <2>2. CASE refcount[k] = 1
    <3>1. \/ k = l1_table.off
          \/ \E g \in G : T[g].off = k
          \/ \E x \in Elements(cluster_allocs) : k \in Own(req[x])
      BY <2>1, <2>2, <1>1 DEF CountsOK
    <3>2. QED BY <3>1, <1>7, <1>12
  <2>3. CASE p.nb > 0 /\ k \in Own(p)
    BY <2>3, <1>3
  <2>4. QED BY <2>2, <2>3
<1>15. \A x \in Reqs : Outstanding(x)' => Outstanding(x) /\ req'[x].rg = req[x].rg /\ req'[x].pos = req[x].pos
  BY <1>2, <1>3 DEF Outstanding
<1>16. ReadsOK' /\ OverlapsOK' /\ DoneOK'
  BY <1>1, <1>7, <1>15, ReadsKept, OverlapsKept, DoneKept
<1>17. LandedOK'
  <2>1. \A x \in Reqs : req'[x].st = "landed" => req[x].st = "landed" /\ SamePart(req[x], req'[x])
    BY <1>3 DEF SamePart
  <2>2. QED BY <2>1, <1>1, LandedKept
<1>18. LinkOK' /\ LinkedOK'
  BY <1>5 DEF LinkOK, LinkedOK
<1>19. QED BY <1>5, <1>6, <1>8, <1>9, <1>11, <1>13, <1>14, <1>16, <1>17, <1>18 DEF QcowInv, DataOK

\* Clusters treated alike are where the first one says, or all missing.
LEMMA AlikeIs ==
  ASSUME Qcow2Typed, TablesOK, NEW g \in G, NEW want \in Nat, want >= 1, g + want <= GC,
         NEW n, n = Alike(T, g, want)
  PROVE  /\ n \in 1..want
         /\ \A j \in 0..n - 1 : g + j \in G
         /\ T[g].copied => /\ T[g].off \in H
                           /\ \A j \in 0..n - 1 : T[g + j].off = T[g].off + j /\ T[g + j].off \in H
         /\ ~T[g].copied => \A j \in 0..n - 1 : T[g + j] = NoEntry
<1> DEFINE Same(j) == \/ T[g].off # 0 /\ T[g + j] = [T[g] EXCEPT !.off = @ + j]
                      \/ ~T[g].copied /\ T[g + j] = NoEntry
           ns == {m \in 1..want : \A j \in 0..m - 1 : Same(j)}
<1>1. n = CHOOSE m \in ns : \A k \in ns : k <= m
  BY DEF Alike
<1>2. T[g] \in Entries /\ T[g].off \in Nat /\ T[g] = [off |-> T[g].off, copied |-> T[g].copied]
      /\ (T[g].off = 0 => T[g] = NoEntry) /\ (T[g].off # 0 => T[g].off \in H /\ T[g].copied)
  BY TableFacts, EntryFields
<1>3. g \in Nat /\ g < GC /\ GC \in Nat
  BY ImageConstants
<1>4. 1 \in ns
  <2>1. Same(0)
    <3>1. g + 0 = g
      BY <1>3
    <3>2. CASE T[g].off = 0
      BY <3>1, <3>2, <1>2 DEF NoEntry
    <3>3. CASE T[g].off # 0
      <4>1. [T[g] EXCEPT !.off = @ + 0] = T[g]
        BY <1>2 DEF Entries
      <4>2. QED BY <3>1, <3>3, <4>1
    <3>4. QED BY <3>2, <3>3
  <2>2. \A j \in 0..1 - 1 : j = 0
    OBVIOUS
  <2>3. QED BY <2>1, <2>2
<1> HIDE DEF Same
<1>5. \E m \in ns : \A k \in ns : k <= m
  <2> DEFINE S == {want - m : m \in ns}
  <2>1. S \in SUBSET Nat /\ S # {}
    BY <1>4
  <2> HIDE DEF S
  <2>2. PICK y \in S : \A z \in S : y <= z
    BY <2>1, LeastOf
  <2>3. PICK m \in ns : y = want - m
    BY DEF S
  <2>4. \A k \in ns : want - k \in S /\ k \in Nat
    BY DEF S
  <2>5. ASSUME NEW k \in ns PROVE k <= m
    <3>1. y <= want - k /\ k \in Nat /\ m \in Nat
      BY <2>2, <2>4
    <3>2. QED BY <3>1, <2>3
  <2>6. QED BY <2>5
<1>6. n \in ns
  <2> HIDE DEF ns
  <2>1. QED BY <1>1, <1>5
<1>7. n \in 1..want /\ \A j \in 0..n - 1 : Same(j)
  BY <1>6
<1>8. ASSUME NEW j \in 0..n - 1
      PROVE  /\ g + j \in G /\ (~T[g].copied => T[g + j] = NoEntry)
             /\ T[g].copied => T[g + j].off = T[g].off + j /\ T[g + j].off \in H
  <2>1. g + j \in G
    BY <1>3, <1>7, ImageConstants
  <2>2. T[g + j] \in Entries /\ (T[g + j].off # 0 => T[g + j].off \in H)
    BY <2>1, TableFacts, EntryFields
  <2>3. ~T[g].copied => T[g + j] = NoEntry
    BY <1>2, <1>7 DEF Same
  <2>4. ASSUME T[g].copied PROVE T[g + j].off = T[g].off + j /\ T[g + j].off \in H
    <3>1. T[g + j] = [T[g] EXCEPT !.off = @ + j] /\ T[g].off # 0
      BY <2>4, <1>7 DEF Same
    <3>2. T[g + j].off = T[g].off + j
      BY <3>1, <1>2 DEF Entries
    <3>3. T[g + j].off # 0
      BY <3>1, <3>2, <1>2
    <3>4. QED BY <3>2, <3>3, <2>2
  <2>5. QED BY <2>1, <2>3, <2>4
<1>9. T[g].copied => T[g].off \in H
  BY <1>2 DEF NoEntry
<1>10. QED BY <1>7, <1>8, <1>9

\* The part that fits in k clusters.
LEMMA PartFits ==
  ASSUME NEW pos \in Nat, NEW left \in Nat, left > 0, NEW k \in Nat, k >= 1,
         NEW n, n = (IF k * CS < (pos % CS) + left THEN k * CS ELSE (pos % CS) + left) - (pos % CS)
  PROVE  /\ n \in Nat /\ n >= 1 /\ n <= left
         /\ \A x \in pos..pos + n - 1 : x \in Nat /\ x \div CS \in (pos \div CS)..(pos \div CS) + k - 1
<1>1. PICK d \in Nat, m \in 0..CS - 1 : d = pos \div CS /\ m = pos % CS /\ pos = CS * d + m
  BY DivMod
<1>2. PICK w \in Nat, u \in Nat : w = k * CS /\ w = CS * k /\ u = CS * d
  BY ImageConstants
<1>3. w >= CS
  <2>1. CS * 1 <= CS * k
    BY Product, ImageConstants
  <2>2. QED BY <2>1, <1>2, ImageConstants
<1>4. m \in Nat /\ m < w /\ pos = u + m
  <2>1. m \in Nat /\ m < CS /\ CS \in Nat
    BY ImageConstants
  <2>2. pos = u + m
    BY <1>1, <1>2
  <2>3. QED BY <2>1, <2>2, <1>3
<1>5. n = (IF w < m + left THEN w ELSE m + left) - m
  BY <1>1, <1>2
<1>6. n \in Nat /\ n >= 1 /\ n <= left /\ n <= w - m
  BY <1>4, <1>5
<1>7. ASSUME NEW x \in pos..pos + n - 1 PROVE x \in Nat /\ x \div CS \in d..d + k - 1
  <2>1. x \in Nat /\ pos <= x /\ x < u + w
    BY <1>4, <1>6
  <2>2. PICK e \in Nat, i \in 0..CS - 1 : e = x \div CS /\ i = x % CS /\ x = CS * e + i
    BY <2>1, DivMod
  <2>3. d <= e
    BY <2>1, <2>2, <1>1, DivOrder
  <2>4. e < d + k
    <3> SUFFICES ASSUME d + k <= e PROVE FALSE
      OBVIOUS
    <3>1. CS * (d + k) <= CS * e /\ CS * (d + k) = CS * d + CS * k
      BY Product, ImageConstants
    <3>2. PICK v \in Nat : v = CS * e
      BY ImageConstants
    <3>3. u + w <= v /\ x = v + i
      BY <3>1, <3>2, <2>2, <1>2
    <3>4. QED BY <3>3, <2>1, ImageConstants
  <2>5. QED BY <2>1, <2>2, <2>3, <2>4
<1>8. QED BY <1>1, <1>6, <1>7

\* The clusters looked at lie in the table.
LEMMA AheadIs ==
  ASSUME QcowInv, thr.st = "alloc", NEW r \in Reqs, req[r].st = "run", NEW q, q = req[r]
  PROVE  /\ q.pos \div CS \in G /\ q.pos \div CS \in Nat /\ q.pos \div CS < GC
         /\ \E want \in Nat : /\ want >= 1 /\ (q.pos \div CS) + want <= GC
                              /\ Ahead(q) = Alike(T, q.pos \div CS, want)
<1>1. Qcow2Typed /\ NewL2OK
  BY InvIs
<1>5. q \in ReqTypes /\ InRange(q) /\ q.rg[1] \in Nat /\ q.rg[2] \in Nat
  BY <1>1, ReqFields
<1>6. PICK pos \in Nat, left \in Nat : pos = q.pos /\ left = q.left
  BY <1>5 DEF ReqTypes
<1>7. /\ left > 0 /\ q.n = 0 /\ pos + left = q.rg[1] + q.rg[2] /\ q.rg[1] <= pos
      /\ q.rg[1] + q.rg[2] <= GC * CS
  BY <1>5, <1>6 DEF InRange
<1>8. PICK g : g = pos \div CS
  OBVIOUS
<1>9. g \in G /\ g \in Nat /\ g < GC
  <2>1. pos < GC * CS
    <3>1. PICK z \in Nat, a \in Nat : z = GC * CS /\ a = q.rg[1] + q.rg[2]
      <4>1. GC * CS \in Nat
        BY ImageConstants
      <4>2. q.rg[1] + q.rg[2] \in Nat
        BY <1>5
      <4>3. QED BY <4>1, <4>2
    <3>2. pos + left = a /\ a <= z
      BY <3>1, <1>7
    <3>3. QED BY <3>1, <3>2, <1>7
  <2>2. g \in Nat /\ g < GC
    BY <2>1, <1>8, SectorCluster, DivMod
  <2>3. QED BY <2>2, ImageConstants
<1>10. PICK most \in Nat : most = ((pos % CS) + left + CS - 1) \div CS /\ most >= 1
  <2>1. (pos % CS) \in Nat
    BY DivMod, ImageConstants
  <2>2. PICK y \in Nat : y = (pos % CS) + left + CS - 1 /\ CS <= y
    BY <2>1, <1>7, ImageConstants
  <2>3. CS \div CS = 1
    <3>1. CS = CS * 1 + 0 /\ 0 \in 0..CS - 1
      BY ImageConstants
    <3>2. QED BY <3>1, DivIs, ImageConstants
  <2>4. CS \div CS <= y \div CS
    BY <2>2, DivOrder, ImageConstants
  <2>5. PICK e \in Nat : e = y \div CS
    BY <2>2, DivMod
  <2>6. e >= 1
    BY <2>3, <2>4, <2>5
  <2>7. e = ((pos % CS) + left + CS - 1) \div CS
    BY <2>2, <2>5
  <2>8. QED BY <2>6, <2>7
<1>11. PICK want \in Nat : want = (IF most > GC - g THEN GC - g ELSE most) /\ want >= 1 /\ g + want <= GC
  BY <1>9, <1>10, ImageConstants
<1>12. l2_cache[l1_table.off] = T
  BY <1>1 DEF NewL2OK
<1>13. Ahead(q) = Alike(T, g, want)
  BY <1>6, <1>8, <1>10, <1>11, <1>12 DEF Ahead
<1>14. QED BY <1>6, <1>8, <1>9, <1>11, <1>13

LEMMA AllocKeeps ==
  ASSUME QcowInv, env' = env, AllocClusters
  PROVE  QcowInv'
<1>1. Qcow2Typed /\ ThreadOK /\ WaitingOK /\ TablesOK /\ NewL2OK /\ AllocsOK
  BY InvIs
<1>2. PICK r : r = Head(thr.todo)
  OBVIOUS
<1>3. /\ r \in Reqs /\ r \in Elements(thr.todo) /\ r \notin Elements(cluster_allocs)
      /\ thr.st = "alloc" /\ thr.st \in Going /\ r = thr.todo[1] /\ req[r].st = "run"
  <2>1. thr.st = "alloc" /\ thr.st \in Going
    BY DEF AllocClusters, Going
  <2>2. r \in Reqs /\ r \in Elements(thr.todo) /\ r \notin Elements(cluster_allocs) /\ r = thr.todo[1]
    BY <2>1, <1>2, GoesOn
  <2>3. QED BY <2>1, <2>2, <1>1 DEF ThreadOK
<1>4. PICK q : q = req[r]
  OBVIOUS
<1>5. q \in ReqTypes /\ InRange(q) /\ req \in [Reqs -> ReqTypes] /\ q.rg[1] \in Nat /\ q.rg[2] \in Nat
  BY <1>1, <1>3, <1>4, ReqFields DEF Qcow2Typed, RequestsTyped
<1>6. PICK pos \in Nat, left \in Nat : pos = q.pos /\ left = q.left
  BY <1>5 DEF ReqTypes
<1>7. /\ left > 0 /\ q.n = 0 /\ pos + left = q.rg[1] + q.rg[2] /\ q.rg[1] <= pos
      /\ q.rg[1] + q.rg[2] <= GC * CS
  BY <1>3, <1>4, <1>5, <1>6 DEF InRange
<1>8. PICK g : g = pos \div CS
  OBVIOUS
<1>9. g \in G /\ g \in Nat /\ g < GC
  BY <1>3, <1>4, <1>6, <1>8, AheadIs
<1>11. PICK want \in Nat : want >= 1 /\ g + want <= GC /\ Ahead(q) = Alike(T, g, want)
  BY <1>3, <1>4, <1>6, <1>8, AheadIs
<1>12. PICK nb : nb = Alike(T, g, want)
  OBVIOUS
<1>13. /\ nb \in 1..want /\ \A j \in 0..nb - 1 : g + j \in G
       /\ T[g].copied => /\ T[g].off \in H
                         /\ \A j \in 0..nb - 1 : T[g + j].off = T[g].off + j /\ T[g + j].off \in H
       /\ ~T[g].copied => \A j \in 0..nb - 1 : T[g + j] = NoEntry
  BY <1>1, <1>9, <1>11, <1>12, AlikeIs
<1>14. nb \in Nat /\ nb >= 1
  BY <1>13
<1>15. PICK c : c = Conflict(pos, nb)
  OBVIOUS
<1>16. /\ c.nb \in 0..nb
       /\ c.on # 0 => c.on \in Elements(cluster_allocs) /\ c.on \in Reqs
       /\ c.on = 0 => c.nb >= 1 /\ \A x \in Elements(cluster_allocs) : Clear(pos, c.nb, req[x])
  BY <1>1, <1>14, <1>15, ConflictFacts
<1> DEFINE Avail(k) == (IF k * CS < (pos % CS) + left THEN k * CS ELSE (pos % CS) + left) - (pos % CS)
<1>17. \A k \in Nat : k >= 1 =>
         /\ Avail(k) \in Nat /\ Avail(k) >= 1 /\ Avail(k) <= left
         /\ \A x \in pos..pos + Avail(k) - 1 : x \in Nat /\ x \div CS \in g..g + k - 1
  BY <1>7, <1>8, PartFits
<1>18. l2_cache[l1_table.off] = T
  BY <1>1, <1>3 DEF NewL2OK
<1>a. Ahead(q) = nb
  BY <1>11, <1>12
<1>19. /\ \/ /\ T[g].copied
             /\ req' = [req EXCEPT ![r].st = "io", ![r].n = Avail(nb), ![r].nb = 0, ![r].off = T[g].off]
             /\ UNCHANGED <<refcount, free_cluster_index, queues>>
          \/ /\ ~T[g].copied /\ c.on # 0
             /\ req' = [req EXCEPT ![r].st = "wait", ![r].n = 0, ![r].nb = 0]
             /\ dependent_requests' = [dependent_requests EXCEPT ![c.on] = <<r>> \o @]
             /\ UNCHANGED <<refcount, free_cluster_index, cluster_allocs>>
          \/ /\ ~T[g].copied /\ c.on = 0
             /\ \E h \in H :
                  /\ qcow2_alloc_clusters(c.nb, h)
                  /\ req' = [req EXCEPT ![r].st = "io", ![r].n = Avail(c.nb), ![r].nb = c.nb,
                                        ![r].off = h, ![r].aoff = pos]
             /\ cluster_allocs' = <<r>> \o cluster_allocs
             /\ UNCHANGED dependent_requests
       /\ thr' = Return
       /\ UNCHANGED <<blk, disk_l1, snap, l1_table, l2_cache, ghosts, bounds>>
  BY <1>2, <1>4, <1>6, <1>8, <1>15, <1>18, <1>a DEF AllocClusters
<1>20. UNCHANGED <<blk, disk_l1, snap, l1_table, l2_cache, may>> /\ thr' = Return
  BY <1>19 DEF ghosts
<1> HIDE DEF Avail
<1>21. cluster_allocs \in Seq(Reqs) /\ NoRepeat(cluster_allocs) /\ refcount \in [H -> {0, 1}]
       /\ free_cluster_index \in Nat \ {0} /\ dependent_requests \in [Reqs -> Seq(Reqs)]
  BY <1>1 DEF Qcow2Typed, ImageTyped, RequestsTyped, AllocsOK
<1>22. ASSUME NEW p \in ReqTypes, p.n \in Nat, p.n <= left, p.pos = q.pos, p.left = q.left, p.rg = q.rg,
              (p.st = "wait" /\ p.n = 0) \/ (p.st = "io" /\ p.n >= 1)
       PROVE  InRange(p)
  BY <1>22, <1>5, <1>6, <1>7 DEF InRange
<1>23. \A x \in Reqs \ {r} : req'[x] = req[x]
  BY <1>19, <1>5
<1>24. \A x \in Elements(thr'.todo) : x \in Elements(thr.todo) /\ x # r
  <2>1. \A x \in Reqs \ {r} : req'[x].st = req[x].st
    BY <1>23
  <2>2. Elements(<<r>> \o cluster_allocs) = Elements(cluster_allocs) \cup {r}
    BY <1>3, <1>21, Prepended
  <2>3. \A x \in Elements(cluster_allocs') : x \in Elements(cluster_allocs) \/ x = r
    BY <2>2, <1>19 DEF queues
  <2>4. QED BY <2>1, <2>3, <1>2, <1>3, <1>20, ReturnFacts
<1>25. CASE T[g].copied
  <2>1. req' = [req EXCEPT ![r].st = "io", ![r].n = Avail(nb), ![r].nb = 0, ![r].off = T[g].off]
        /\ UNCHANGED <<refcount, free_cluster_index, cluster_allocs, dependent_requests>>
    BY <1>19, <1>25 DEF queues
  <2>2. PICK n \in Nat, o \in Nat : n = Avail(nb) /\ o = T[g].off /\ n >= 1 /\ n <= left
    <3>1. T[g].off \in Nat
      BY <1>13, <1>25, ImageConstants
    <3>2. Avail(nb) \in Nat /\ Avail(nb) >= 1 /\ Avail(nb) <= left
      BY <1>14, <1>17
    <3>3. QED BY <3>1, <3>2
  <2>3. PICK p : p = [q EXCEPT !.st = "io", !.n = n, !.nb = 0, !.off = o]
    OBVIOUS
  <2>4. p \in ReqTypes
    BY <2>2, <2>3, <1>5 DEF ReqTypes, ReqStates
  <2>5. p.st = "io" /\ p.n = n /\ p.nb = 0 /\ p.off = o /\ p.pos = q.pos /\ p.left = q.left /\ p.rg = q.rg
    BY <2>3, <1>5 DEF ReqTypes
  <2>6. req' = [req EXCEPT ![r] = p]
    <3>1. req' = [req EXCEPT ![r] = [req[r] EXCEPT !.st = "io", !.n = n, !.nb = 0, !.off = o]]
      BY <2>1, <2>2, <1>5
    <3>2. QED BY <3>1, <2>3, <1>4
  <2>7. InPlace(p)
    <3> SUFFICES ASSUME NEW x \in Part(p) PROVE T[x \div CS].off = Host(p, x) /\ Host(p, x) \in H
      BY DEF InPlace
    <3>1. x \in pos..pos + n - 1
      BY <2>5, <1>6 DEF Part
    <3>2. x \in Nat /\ x \div CS \in g..g + nb - 1
      BY <3>1, <2>2, <1>14, <1>17
    <3>3. PICK j \in 0..nb - 1 : x \div CS = g + j
      <4>1. PICK e : e = x \div CS
        OBVIOUS
      <4>2. e - g \in 0..nb - 1 /\ e = g + (e - g)
        BY <3>2, <4>1, <1>9, <1>14
      <4>3. QED BY <4>1, <4>2
    <3>4. T[g + j].off = o + j /\ T[g + j].off \in H
      BY <3>3, <2>2, <1>13, <1>25
    <3>5. Host(p, x) = o + j
      <4>1. Host(p, x) = o + (g + j) - g
        BY <3>3, <2>5, <1>6, <1>8 DEF Host
      <4>2. QED BY <4>1, <2>2, <1>9
    <3>6. QED BY <3>3, <3>4, <3>5
  <2>8. InRange(p)
    BY <2>2, <2>4, <2>5, <1>22
  <2>9. WaitingOK'
    BY <2>1, <1>3, <1>23, <1>24, ReturnWaiting
  <2>10. NoneFreed
    BY <2>1 DEF NoneFreed
  <2>11. ~(p.nb > 0) /\ p.st \in {"io", "wait"} /\ p.rg = req[r].rg /\ p.pos = req[r].pos
         /\ (p.st = "wait" => p.nb = 0)
    BY <2>5, <1>4
  <2>12. Elements(cluster_allocs') = Elements(cluster_allocs) \cup (IF p.nb > 0 THEN {r} ELSE {})
    BY <2>1, <2>11
  <2>13. /\ refcount' \in [H -> {0, 1}] /\ free_cluster_index' \in Nat \ {0}
         /\ cluster_allocs' \in Seq(Reqs) /\ NoRepeat(cluster_allocs')
         /\ dependent_requests' \in [Reqs -> Seq(Reqs)] /\ \A h \in H : refcount'[h] = 1 => refcount[h] = 1
    BY <2>1, <1>21
  <2>14. QED BY ONLY QcowInv, env' = env, <2>4, <2>6, <2>7, <2>8, <2>9, <2>10, <2>11, <2>12, <2>13,
                     <1>2, <1>3, <1>20, PlacedKeeps
<1>26. CASE ~T[g].copied /\ c.on # 0
  <2>1. req' = [req EXCEPT ![r].st = "wait", ![r].n = 0, ![r].nb = 0]
        /\ UNCHANGED <<refcount, free_cluster_index, cluster_allocs>>
        /\ dependent_requests' = [dependent_requests EXCEPT ![c.on] = <<r>> \o dependent_requests[c.on]]
    BY <1>19, <1>26
  <2>2. PICK p : p = [q EXCEPT !.st = "wait", !.n = 0, !.nb = 0]
    OBVIOUS
  <2>3. p \in ReqTypes
    BY <2>2, <1>5 DEF ReqTypes, ReqStates
  <2>4. p.st = "wait" /\ p.n = 0 /\ p.nb = 0 /\ p.pos = q.pos /\ p.left = q.left /\ p.rg = q.rg
    BY <2>2, <1>5 DEF ReqTypes
  <2>5. req' = [req EXCEPT ![r] = p]
    <3>1. req' = [req EXCEPT ![r] = [req[r] EXCEPT !.st = "wait", !.n = 0, !.nb = 0]]
      BY <2>1, <1>5
    <3>2. QED BY <3>1, <2>2, <1>4
  <2>6. InRange(p)
    BY <2>3, <2>4, <1>22
  <2>7. PICK on \in Reqs : on = c.on
    BY <1>16, <1>26
  <2>8. PICK s \in Seq(Reqs) : s = dependent_requests[on] /\ NoRepeat(s) /\ r \notin Elements(s)
    BY <1>1, <1>3, <1>21 DEF WaitingOK
  <2>9. PICK u \in Seq(Reqs) : u = <<r>> \o s /\ NoRepeat(u) /\ Elements(u) = Elements(s) \cup {r}
    <3>1. <<r>> \o s \in Seq(Reqs) /\ NoRepeat(<<r>> \o s) /\ Elements(<<r>> \o s) = Elements(s) \cup {r}
      BY <2>8, <1>3, Prepended
    <3>2. QED BY <3>1
  <2>10. dependent_requests' = [dependent_requests EXCEPT ![on] = u]
    BY <2>1, <2>7, <2>8, <2>9
  <2>11. dependent_requests' \in [Reqs -> Seq(Reqs)] /\ dependent_requests'[on] = u
         /\ \A x \in Reqs \ {on} : dependent_requests'[x] = dependent_requests[x]
    BY <2>9, <2>10, <1>21
  <2>12. \A x \in Reqs : \A y \in Elements(dependent_requests[x]) : y \in Reqs \ {r} /\ req[y].st = "wait"
                                                                   /\ y \notin Elements(thr.todo)
    BY <1>1, <1>3, <1>21, ListType DEF WaitingOK
  <2>13. \A x \in Reqs : \A y \in Elements(dependent_requests'[x]) :
           y \in Elements(dependent_requests[x]) \/ (x = on /\ y = r)
    BY <2>8, <2>9, <2>11
  <2>14. WaitingOK'
    <3>1. \A x \in Reqs : NoRepeat(dependent_requests'[x])
      BY <2>9, <2>11, <1>1 DEF WaitingOK
    <3>2. req'[r].st = "wait" /\ \A y \in Reqs \ {r} : req'[y] = req[y]
      BY <2>4, <2>5, <1>3, <1>5, <1>23
    <3>3. \A x \in Reqs : \A y \in Elements(dependent_requests'[x]) :
            req'[y].st = "wait" /\ y \notin Elements(thr'.todo)
      BY <2>12, <2>13, <3>2, <1>24
    <3>4. \A x, z \in Reqs : \A y \in Elements(dependent_requests'[x]) :
            y \in Elements(dependent_requests'[z]) => x = z
      BY <2>12, <2>13, <1>1 DEF WaitingOK
    <3>5. QED BY <3>1, <3>3, <3>4 DEF WaitingOK
  <2>15. NoneFreed
    BY <2>1 DEF NoneFreed
  <2>16. /\ ~(p.nb > 0) /\ p.st \in {"io", "wait"} /\ p.st # "io" /\ p.rg = req[r].rg
         /\ p.pos = req[r].pos /\ p.nb = 0
    BY <2>4, <1>4
  <2>17. Elements(cluster_allocs') = Elements(cluster_allocs) \cup (IF p.nb > 0 THEN {r} ELSE {})
    BY <2>1, <2>16
  <2>18. /\ refcount' \in [H -> {0, 1}] /\ free_cluster_index' \in Nat \ {0}
         /\ cluster_allocs' \in Seq(Reqs) /\ NoRepeat(cluster_allocs')
         /\ dependent_requests' \in [Reqs -> Seq(Reqs)] /\ \A h \in H : refcount'[h] = 1 => refcount[h] = 1
    BY <2>1, <2>11, <1>21
  <2>19. QED BY ONLY QcowInv, env' = env, <2>3, <2>5, <2>6, <2>14, <2>15, <2>16, <2>17, <2>18,
                     <1>2, <1>3, <1>20, PlacedKeeps
<1>27. CASE ~T[g].copied /\ c.on = 0
  <2>1. PICK h \in H :
          /\ qcow2_alloc_clusters(c.nb, h)
          /\ req' = [req EXCEPT ![r].st = "io", ![r].n = Avail(c.nb), ![r].nb = c.nb,
                                ![r].off = h, ![r].aoff = pos]
    BY <1>19, <1>27
  <2>2. cluster_allocs' = <<r>> \o cluster_allocs /\ dependent_requests' = dependent_requests
    BY <1>19, <1>27
  <2>3. PICK k \in Nat : k = c.nb /\ k >= 1 /\ k <= nb
    BY <1>14, <1>16, <1>27
  <2>4. PICK n \in Nat : n = Avail(k) /\ n >= 1 /\ n <= left
    BY <2>3, <1>17
  <2>5. h \in Nat
    BY ImageConstants
  <2>6. PICK p : p = [q EXCEPT !.st = "io", !.n = n, !.nb = k, !.off = h, !.aoff = pos]
    OBVIOUS
  <2>7. p \in ReqTypes
    BY <2>5, <2>6, <1>5 DEF ReqTypes, ReqStates
  <2>8. /\ p.st = "io" /\ p.n = n /\ p.nb = k /\ p.off = h /\ p.aoff = pos /\ p.pos = q.pos
        /\ p.left = q.left /\ p.rg = q.rg
    BY <2>6, <1>5 DEF ReqTypes
  <2>9. req' = [req EXCEPT ![r] = p]
    <3>1. req' = [req EXCEPT ![r] = [req[r] EXCEPT !.st = "io", !.n = n, !.nb = k, !.off = h, !.aoff = pos]]
      BY <2>1, <2>3, <2>4, <1>5
    <3>2. QED BY <3>1, <2>6, <1>4
  <2>10. InRange(p)
    BY <2>4, <2>7, <2>8, <1>22
  <2>11. WaitingOK'
    BY <2>2, <1>3, <1>23, <1>24, ReturnWaiting
  <2>12. Own(p) = h..h + k - 1 /\ Mine(p) = g..g + k - 1 /\ Part(p) = pos..pos + n - 1
    BY <2>8, <1>6, <1>8 DEF Own, Mine, Part
  <2>13. /\ Own(p) \subseteq H /\ \A i \in Own(p) : refcount[i] = 0
         /\ refcount' \in [H -> {0, 1}]
         /\ \A i \in H : refcount'[i] = IF i \in Own(p) THEN 1 ELSE refcount[i]
         /\ NoneFreed /\ free_cluster_index' \in Nat \ {0}
    BY <2>1, <2>3, <2>12, <1>1, AllocFacts
  <2>14. cluster_allocs' \in Seq(Reqs) /\ NoRepeat(cluster_allocs')
         /\ Elements(cluster_allocs') = Elements(cluster_allocs) \cup {r}
    BY <2>2, <1>3, <1>21, Prepended
  <2>15. \A x \in Part(p) : x \div CS \in Mine(p)
    BY <2>3, <2>4, <2>12, <1>17
  <2>16. Mine(p) \subseteq G /\ \A i \in Mine(p) : T[i] = NoEntry
    <3> SUFFICES ASSUME NEW i \in Mine(p) PROVE i \in G /\ T[i] = NoEntry
      OBVIOUS
    <3>1. i - g \in 0..nb - 1 /\ i = g + (i - g)
      <4>1. g \in Nat /\ nb \in Nat /\ i \in g..g + k - 1 /\ k <= nb
        BY <2>3, <2>12, <1>9, <1>14
      <4>2. QED BY <4>1
    <3>2. PICK j \in 0..nb - 1 : i = g + j
      BY <3>1
    <3>3. QED BY <3>2, <1>13, <1>27
  <2>17. \A x \in Elements(cluster_allocs) : Mine(p) \cap Mine(req[x]) = {}
    <3> SUFFICES ASSUME NEW x \in Elements(cluster_allocs) PROVE Mine(p) \cap Mine(req[x]) = {}
      OBVIOUS
    <3>1. x \in Reqs
      BY <1>21, ListType
    <3>2. req[x] \in ReqTypes /\ Clear(pos, k, req[x])
      BY <3>1, <2>3, <1>5, <1>16, <1>27
    <3>3. QED BY <3>2, <2>3, <2>12, <1>8, ClearApart
  <2>18. /\ p.nb > 0 /\ p.nb # 0 /\ p.st \in {"io", "wait"} /\ p.st # "wait" /\ p.rg = req[r].rg
         /\ p.pos = req[r].pos /\ p.aoff = p.pos
    BY <2>3, <2>8, <1>4, <1>6
  <2>19. Elements(cluster_allocs') = Elements(cluster_allocs) \cup (IF p.nb > 0 THEN {r} ELSE {})
    BY <2>14, <2>18
  <2>20. /\ dependent_requests' \in [Reqs -> Seq(Reqs)]
         /\ \A i \in H : refcount'[i] = 1 => refcount[i] = 1 \/ (p.nb > 0 /\ i \in Own(p))
         /\ \A i \in Own(p) : refcount[i] = 0 /\ refcount'[i] = 1
    BY <2>2, <2>13, <2>18, <1>21
  <2>21. QED BY ONLY QcowInv, env' = env, <2>7, <2>9, <2>10, <2>11, <2>13, <2>14, <2>15, <2>16, <2>17,
                     <2>18, <2>19, <2>20, <1>2, <1>3, <1>20, PlacedKeeps
<1>28. QED BY <1>19, <1>25, <1>26, <1>27

\* Counts that stay after a failure are of clusters nothing refers to.
LEMMA CountingFailsFacts ==
  ASSUME Qcow2Typed, NEW n \in Nat, NEW h \in H, CountingFails(n, h)
  PROVE  refcount' \in [H -> {0, 1}] /\ NoneFreed /\ free_cluster_index' \in Nat \ {0}
<1>1. CASE qcow2_alloc_clusters(n, h)
  BY <1>1, AllocFacts
<1>2. CASE free_cluster_index' \in {h, h + n} /\ UNCHANGED refcount
  <2>1. h \in Nat /\ h >= 1
    BY ImageConstants
  <2>2. QED BY <1>2, <2>1 DEF NoneFreed, Qcow2Typed, ImageTyped
<1>3. QED BY <1>1, <1>2 DEF CountingFails

LEMMA AllocFailedKeeps ==
  ASSUME QcowInv, env' = env, AllocFailed
  PROVE  QcowInv'
<1>1. /\ Qcow2Typed /\ ThreadOK /\ WaitingOK /\ TablesOK /\ NewL2OK /\ PartsOK /\ AllocsOK /\ CountsOK
      /\ ReadsOK /\ OverlapsOK /\ DoneOK /\ LandedOK
  BY InvIs
<1>2. thr.st \in {"table", "alloc"} /\ env.fails # {} /\ thr.st \in Going
  BY <1>1 DEF AllocFailed, NeedsL2, ThreadOK, Going
<1>3. PICK r : r = Head(thr.todo)
  OBVIOUS
<1>4. Finish(r, FALSE) /\ UNCHANGED <<blk, disk_l1, snap, l1_table, l2_cache>>
  BY <1>3 DEF AllocFailed
<1>5. r \in Reqs /\ r \in Elements(thr.todo) /\ r \notin Elements(cluster_allocs) /\ req[r].st = "run"
  <2>1. r \in Reqs /\ r \in Elements(thr.todo) /\ r \notin Elements(cluster_allocs) /\ r = thr.todo[1]
    BY <1>2, <1>3, GoesOn
  <2>2. thr.st \in Going \ {"cont"}
    BY <1>2
  <2>3. QED BY <2>1, <2>2, <1>1 DEF ThreadOK
<1>6. refcount' \in [H -> {0, 1}] /\ NoneFreed /\ free_cluster_index' \in Nat \ {0}
  <2>1. PICK n \in Nat, h \in H : CountingFails(n, h)
    <3>1. CASE NeedsL2 /\ \E h \in H : CountingFails(1, h)
      BY <3>1
    <3>2. CASE ~(NeedsL2 /\ \E h \in H : CountingFails(1, h))
      <4>1. PICK q, c : q = req[r] /\ c = Conflict(q.pos, Ahead(q))
        OBVIOUS
      <4>2. thr.st = "alloc" /\ \E h \in H : CountingFails(c.nb, h)
        BY <3>2, <4>1, <1>3 DEF AllocFailed
      <4>3. q.pos \div CS \in G /\ q.pos \in Nat
            /\ \E want \in Nat : /\ want >= 1 /\ (q.pos \div CS) + want <= GC
                                 /\ Ahead(q) = Alike(T, q.pos \div CS, want)
        BY <4>1, <4>2, <1>1, <1>5, AheadIs, ReqFields DEF ReqTypes
      <4>4. Ahead(q) \in Nat /\ Ahead(q) >= 1
        BY <4>3, <1>1, AlikeIs
      <4>5. c.nb \in Nat
        BY <4>1, <4>3, <4>4, <1>1, ConflictFacts
      <4>6. QED BY <4>2, <4>5
    <3>3. QED BY <3>1, <3>2
  <2>2. QED BY <2>1, <1>1, CountingFailsFacts
<1>7. /\ req' \in [Reqs -> ReqTypes] /\ \A x \in Reqs \ {r} : req'[x] = req[x]
      /\ req'[r].st = "done" /\ SamePart(req[r], req'[r]) /\ req'[r].left = req[r].left
  BY <1>1, <1>4, <1>5, ReqWith DEF Finish, ReqStates
<1>8. UNCHANGED <<cluster_allocs, dependent_requests>> /\ thr' = Return
  BY <1>4 DEF Finish, queues
<1>9. may' = may
  <2>1. may' = [x \in Sectors |-> may[x]]
    BY <1>4 DEF Finish
  <2>2. may \in [Sectors -> SUBSET Nat]
    BY <1>1 DEF Qcow2Typed, RequestsTyped
  <2>3. QED BY <2>1, <2>2
<1>10. /\ thr' \in ThrTypes /\ ThreadOK' /\ thr'.st \in {"idle", "cont"}
       /\ \A x \in Elements(thr'.todo) : x \in Elements(thr.todo) /\ x # r
       /\ \A x \in Reqs \ {r} : (thr'.r = x <=> thr.r = x) /\ (thr.r = x => thr'.ok = thr.ok)
  <2>1. \A x \in Reqs \ {r} : req'[x].st = req[x].st
    BY <1>7
  <2>2. QED BY <2>1, <1>2, <1>3, <1>8, ReturnFacts
<1>11. T' = T /\ \A x : Reading(x)' = Reading(x)
  BY <1>4, TableSame
<1>12. TablesOK'
  BY <1>1, <1>4, <1>6, <1>11, TablesKept DEF TablesOK
<1>13. Qcow2Typed'
  <2>1. \A x \in Reqs : InRange(req'[x])
    <3>1. InRange(req'[r])
      BY <1>1, <1>5, <1>7 DEF Qcow2Typed, InRange, SamePart
    <3>2. QED BY <3>1, <1>1, <1>7 DEF Qcow2Typed
  <2>2. QED BY <2>1, <1>1, <1>4, <1>6, <1>7, <1>8, <1>9, <1>10 DEF Qcow2Typed, ImageTyped, RequestsTyped
<1>14. WaitingOK'
  <2>1. \A x \in Reqs \ {r} : req'[x].st = req[x].st
    BY <1>7
  <2>2. QED BY <2>1, <1>5, <1>8, <1>10, ReturnWaiting
<1>15. \A x \in Reqs : Written(req'[x]) => x # r /\ req'[x] = req[x] /\ (Linked(x)' <=> Linked(x))
  <2> SUFFICES ASSUME NEW x \in Reqs, Written(req'[x])
               PROVE  x # r /\ req'[x] = req[x] /\ (Linked(x)' <=> Linked(x))
    OBVIOUS
  <2>1. x # r /\ req'[x] = req[x]
    BY <1>7 DEF Written
  <2>2. (thr'.r = x <=> thr.r = x) /\ (thr.r = x => thr'.ok = thr.ok)
    BY <2>1, <1>10
  <2>3. QED BY <2>1, <2>2, <1>2, <1>10 DEF Linked
<1>16. NewL2OK'
  BY <1>1, <1>4, <1>10, <1>15 DEF NewL2OK
<1>17. PartsOK'
  <2>1. \A x \in Reqs : Written(req'[x]) =>
          Written(req[x]) /\ SamePart(req[x], req'[x]) /\ (Linked(x)' <=> Linked(x))
    BY <1>15 DEF SamePart
  <2>2. ~NewL2'
    BY <1>10 DEF NewL2
  <2>3. QED BY <2>1, <2>2, <1>1, <1>4, <1>6, <1>11, PartsKept
<1>18. LandedOK'
  <2>1. \A x \in Reqs : req'[x].st = "landed" => req[x].st = "landed" /\ SamePart(req[x], req'[x])
    BY <1>15 DEF Written, SamePart
  <2>2. QED BY <2>1, <1>1, <1>4, LandedKept
<1>19. LinkOK' /\ LinkedOK'
  BY <1>10 DEF LinkOK, LinkedOK
<1>20. AllocsOK'
  <2>1. \A x \in Elements(cluster_allocs) : x \in Reqs /\ req[x].st \in {"io", "landed", "gone"} /\ x # r
    BY <1>1, <1>5, ListType DEF AllocsOK, Qcow2Typed, RequestsTyped
  <2>2. \A x \in Elements(cluster_allocs) : Unfinished(x) /\ SamePart(req[x], req'[x])
                                            /\ req'[x].st \in {"io", "landed", "gone"}
    BY <2>1, <1>2, <1>7 DEF Unfinished, SamePart
  <2>3. \A x \in Reqs : Written(req'[x]) /\ req'[x].nb > 0 /\ thr'.r # x => x \in Elements(cluster_allocs)
    BY <1>1, <1>10, <1>15 DEF AllocsOK
  <2>4. QED BY <1>1, <1>8, <1>11, <2>2, <2>3, AllocsKept
<1>21. CountsOK'
  BY <1>2 DEF CountsOK, Calm
<1>22. \A x \in Reqs : Outstanding(x)' => Outstanding(x) /\ req'[x].rg = req[x].rg /\ req'[x].pos = req[x].pos
  BY <1>7 DEF Outstanding
<1>23. ReadsOK' /\ OverlapsOK' /\ DoneOK'
  BY <1>1, <1>9, <1>11, <1>22, ReadsKept, OverlapsKept, DoneKept
<1>24. QED BY <1>10, <1>12, <1>13, <1>14, <1>16, <1>17, <1>18, <1>19, <1>20, <1>21, <1>23 DEF QcowInv, DataOK

-----------------------------------------------------------------------------
(***************************************************************************)
(* The images to start with.                                               *)
(***************************************************************************)
Below(m, g) == {k \in m : k < g}
Rank(m, g) == Cardinality(Below(m, g))

\* The mapped clusters are numbered in their order, from 0 on, without gaps.
LEMMA RankFacts ==
  ASSUME NEW m \in SUBSET G
  PROVE  /\ Cardinality(m) \in Nat /\ (m # {} => Cardinality(m) >= 1)
         /\ \A g \in m : Rank(m, g) \in Nat /\ Rank(m, g) < Cardinality(m)
         /\ \A g, k \in m : g < k => Rank(m, g) < Rank(m, k)
         /\ \A i \in Nat : i < Cardinality(m) => \E g \in m : Rank(m, g) = i
<1>1. IsFiniteSet(m) /\ m \subseteq Nat
  <2>1. IsFiniteSet(G) /\ G \subseteq Nat
    BY FS_Interval, ImageConstants
  <2>2. QED BY <2>1, FS_Subset
<1>2. Cardinality(m) \in Nat /\ (m # {} => Cardinality(m) >= 1)
  <2>1. Cardinality(m) \in Nat /\ (Cardinality(m) = 0 <=> m = {})
    BY <1>1, FS_CardinalityType, FS_EmptySet
  <2>2. QED BY <2>1
<1>3. \A g : IsFiniteSet(Below(m, g)) /\ Rank(m, g) \in Nat
  <2> SUFFICES ASSUME NEW g PROVE IsFiniteSet(Below(m, g)) /\ Rank(m, g) \in Nat
    OBVIOUS
  <2>1. Below(m, g) \in SUBSET m
    BY DEF Below
  <2>2. QED BY <2>1, <1>1, FS_Subset, FS_CardinalityType DEF Rank
<1>4. ASSUME NEW g \in m
      PROVE  IsFiniteSet(Below(m, g) \cup {g}) /\ Cardinality(Below(m, g) \cup {g}) = Rank(m, g) + 1
  <2>1. g \notin Below(m, g)
    BY <1>1 DEF Below
  <2>2. QED BY <2>1, <1>3, FS_AddElement DEF Rank
<1>5. ASSUME NEW g \in m, NEW S, IsFiniteSet(S), Below(m, g) \cup {g} \subseteq S
      PROVE  Rank(m, g) < Cardinality(S)
  <2>1. Cardinality(Below(m, g) \cup {g}) <= Cardinality(S) /\ Cardinality(S) \in Nat
    BY <1>5, FS_Subset, FS_CardinalityType
  <2>2. PICK a \in Nat, b \in Nat : a = Rank(m, g) /\ b = Cardinality(S)
    BY <2>1, <1>3
  <2>3. a + 1 <= b
    BY <2>1, <2>2, <1>4
  <2>4. QED BY <2>2, <2>3
<1>6. \A g \in m : Rank(m, g) < Cardinality(m)
  <2> SUFFICES ASSUME NEW g \in m PROVE Rank(m, g) < Cardinality(m)
    OBVIOUS
  <2>1. Below(m, g) \cup {g} \subseteq m
    BY DEF Below
  <2>2. QED BY <2>1, <1>1, <1>5
<1>7. ASSUME NEW g \in m, NEW k \in m, g < k PROVE Rank(m, g) < Rank(m, k)
  <2>1. Below(m, g) \cup {g} \subseteq Below(m, k)
    <3>1. g \in Nat /\ k \in Nat
      BY <1>1
    <3>2. \A x \in m : x \in Nat /\ (x < g => x < k)
      BY <3>1, <1>1, <1>7
    <3>3. QED BY <3>2, <1>7 DEF Below
  <2>2. QED BY <2>1, <1>3, <1>5 DEF Rank
<1> DEFINE S == {i \in Nat : i < Cardinality(m) /\ \A g \in m : Rank(m, g) # i}
<1>8. S = {}
  <2> SUFFICES ASSUME S # {} PROVE FALSE
    OBVIOUS
  <2>1. PICK i \in S : \A j \in S : i <= j
    BY LeastOf
  <2>2. CASE i = 0
    <3>1. m # {}
      <4>1. Cardinality(m) # 0
        BY <2>1, <2>2, <1>2
      <4>2. QED BY <4>1, FS_EmptySet
    <3>2. PICK g \in m : \A k \in m : g <= k
      BY <3>1, <1>1, LeastOf
    <3>3. Below(m, g) = {}
      <4>1. g \in Nat /\ \A k \in m : k \in Nat /\ g <= k
        BY <3>2, <1>1
      <4>2. \A k \in m : ~(k < g)
        BY <4>1
      <4>3. QED BY <4>2 DEF Below
    <3>4. Rank(m, g) = 0
      BY <3>3, FS_EmptySet DEF Rank
    <3>5. QED BY <3>4, <2>1, <2>2
  <2>3. CASE i # 0
    <3>1. i - 1 \in Nat /\ i - 1 \notin S /\ i - 1 < Cardinality(m) /\ i \in Nat /\ i < Cardinality(m)
      BY <2>1, <2>3, <1>2
    <3>2. PICK g \in m : Rank(m, g) = i - 1
      BY <3>1
    <3> DEFINE A == {k \in m : g < k}
    <3>3. A # {}
      <4> SUFFICES ASSUME A = {} PROVE FALSE
        OBVIOUS
      <4>1. m = Below(m, g) \cup {g}
        <5>1. \A x \in m : x \in Nat /\ ~(g < x)
          BY <1>1
        <5>2. \A x \in m : x < g \/ x = g
          BY <5>1, <1>1
        <5>3. QED BY <5>2 DEF Below
      <4>2. Cardinality(m) = i
        BY <4>1, <3>1, <3>2, <1>4
      <4>3. QED BY <4>2, <3>1
    <3>4. PICK k \in A : \A x \in A : k <= x
      BY <3>3, <1>1, LeastOf
    <3>5. Below(m, k) = Below(m, g) \cup {g}
      <4>1. \A x \in m : x \in Nat /\ (x < k <=> x < g \/ x = g)
        BY <3>4, <1>1
      <4>2. QED BY <4>1 DEF Below
    <3>6. Rank(m, k) = i
      <4>1. Rank(m, k) = Rank(m, g) + 1
        BY <3>5, <1>4 DEF Rank
      <4>2. QED BY <4>1, <3>1, <3>2
    <3>7. QED BY <3>4, <3>6, <2>1
  <2>4. QED BY <2>2, <2>3
<1>9. QED BY <1>2, <1>3, <1>6, <1>7, <1>8

LEMMA EntryMade ==
  ASSUME NEW o \in 0..HC
  PROVE  [off |-> o, copied |-> TRUE] \in Entries
<1>1. TRUE \in BOOLEAN
  OBVIOUS
<1>2. QED BY <1>1 DEF Entries

LEMMA InitHolds ==
  ASSUME Qcow2Init
  PROVE  QcowInv
<1>1. PICK m \in Layouts :
        /\ refcount = [h \in H |-> IF m # {} /\ h <= Cardinality(m) + 1 THEN 1 ELSE 0]
        /\ disk_l1 = IF m = {} THEN NoEntry ELSE [off |-> 1, copied |-> TRUE]
        /\ blk = [h \in H |-> [t |-> IF h # 1 THEN NewTable
                                      ELSE [g \in G |-> IF g \notin m THEN NoEntry
                                             ELSE [off |-> 2 + Rank(m, g), copied |-> TRUE]],
                               d |-> [i \in 0..CS - 1 |-> 0]]]
  BY DEF Qcow2Init, Rank, Below
<1>2. /\ l1_table = disk_l1 /\ l2_cache = NoL2Cache /\ free_cluster_index = 1 /\ snap = NoSnap
      /\ req = [r \in Reqs |-> [st |-> "new", rg |-> <<0, 0>>, pos |-> 0, left |-> 0, n |-> 0,
                                nb |-> 0, off |-> 0, aoff |-> 0]]
      /\ cluster_allocs = <<>> /\ dependent_requests = [r \in Reqs |-> <<>>] /\ thr = IdleThread
      /\ may = [sec \in Sectors |-> {0}]
  BY DEF Qcow2Init
<1>3. m \in SUBSET G /\ Cardinality(m) \in Nat /\ Cardinality(m) < HC
  <2>1. m \in SUBSET G /\ Cardinality(m) < HC
    BY Qcow2Assumption
  <2>2. QED BY <2>1, RankFacts
<1>4. PICK c \in Nat : c = Cardinality(m) /\ c + 1 <= HC
  BY <1>3, ImageConstants
<1>5. /\ m # {} => c >= 1
      /\ \A g \in m : Rank(m, g) \in Nat /\ Rank(m, g) < c
      /\ \A g, k \in m : g < k => Rank(m, g) < Rank(m, k)
      /\ \A i \in Nat : i < c => \E g \in m : Rank(m, g) = i
  BY <1>3, <1>4, RankFacts
<1>6. \A g \in m : 2 + Rank(m, g) \in 2..c + 1 /\ 2 + Rank(m, g) \in H
  <2> SUFFICES ASSUME NEW g \in m PROVE 2 + Rank(m, g) \in 2..c + 1 /\ 2 + Rank(m, g) \in H
    OBVIOUS
  <2>1. PICK i \in Nat : i = Rank(m, g) /\ i < c
    BY <1>5
  <2>2. 2 + i \in 2..c + 1 /\ 2 + i <= HC
    BY <2>1, <1>4, ImageConstants
  <2>3. QED BY <2>1, <2>2, ImageConstants
<1>7. \A h \in H : refcount[h] \in {0, 1} /\ (refcount[h] = 1 <=> m # {} /\ h <= c + 1)
  BY <1>1, <1>4
<1> DEFINE t1 == [g \in G |-> IF g \notin m THEN NoEntry ELSE [off |-> 2 + Rank(m, g), copied |-> TRUE]]
<1>8. t1 \in Tables
  <2>1. ASSUME NEW g \in G PROVE t1[g] \in Entries
    <3>1. CASE g \notin m
      BY <3>1, NewTableTyped
    <3>2. CASE g \in m
      <4>1. PICK o \in 0..HC : o = 2 + Rank(m, g)
        BY <3>2, <1>6, ImageConstants
      <4>2. t1[g] = [off |-> o, copied |-> TRUE]
        BY <3>2, <4>1
      <4>3. QED BY <4>1, <4>2, EntryMade
    <3>3. QED BY <3>1, <3>2
  <2>2. QED BY <2>1 DEF Tables
<1>9. \A g \in G : t1[g] = IF g \notin m THEN NoEntry ELSE [off |-> 2 + Rank(m, g), copied |-> TRUE]
  OBVIOUS
<1>10. blk = [h \in H |-> [t |-> IF h # 1 THEN NewTable ELSE t1, d |-> [i \in 0..CS - 1 |-> 0]]]
  BY <1>1
<1> HIDE DEF t1
<1>11. blk \in [H -> Clusters] /\ \A h \in H : \A i \in 0..CS - 1 : blk[h].d[i] = 0
  <2>1. PICK z : z = [i \in 0..CS - 1 |-> 0]
    OBVIOUS
  <2>2. z \in [0..CS - 1 -> Nat] /\ \A i \in 0..CS - 1 : z[i] = 0
    BY <2>1
  <2>3. blk = [h \in H |-> [t |-> IF h # 1 THEN NewTable ELSE t1, d |-> z]]
    BY <2>1, <1>10
  <2>4. blk \in [H -> Clusters] /\ \A h \in H : blk[h].d = z
    BY <2>2, <2>3, <1>8, NewTableTyped DEF Clusters
  <2>5. QED BY <2>2, <2>4
<1>12. /\ m = {} => l1_table = NoEntry /\ l1_table.off = 0 /\ T = NewTable
       /\ m # {} => l1_table = [off |-> 1, copied |-> TRUE] /\ l1_table.off = 1 /\ 1 \in H /\ T = t1
  <2>1. m # {} => 1 \in H
    BY <1>4, <1>5, ImageConstants
  <2>2. 1 \in H => blk[1].t = t1
    BY <1>10
  <2>3. QED BY <2>1, <2>2, <1>1, <1>2 DEF T, NoEntry
<1>13. \A g \in G : IF g \in m THEN /\ T[g] = [off |-> 2 + Rank(m, g), copied |-> TRUE]
                                   /\ T[g].off = 2 + Rank(m, g) /\ T[g].copied
                    ELSE T[g] = NoEntry /\ T[g].off = 0
  BY <1>9, <1>12, NewTableTyped
<1>14. l1_table \in Entries
  <2>1. 1 \in H => 1 \in 0..HC
    BY ImageConstants
  <2>2. m # {} => l1_table \in Entries
    BY <2>1, <1>12, EntryMade
  <2>3. QED BY <2>2, <1>12, NewTableTyped
<1>15. refcount \in [H -> {0, 1}]
  BY <1>1
<1>16. ImageTyped
  <2>1. NoL2Cache \in [H -> Tables \cup {NoTable}]
    BY DEF NoL2Cache
  <2>2. QED BY <2>1, <1>2, <1>11, <1>14, <1>15 DEF ImageTyped
<1>17. ASSUME NEW r \in Reqs PROVE req[r] \in ReqTypes /\ InRange(req[r]) /\ req[r].st = "new"
  <2>1. PICK q : q = req[r]
    OBVIOUS
  <2>2. q = [st |-> "new", rg |-> <<0, 0>>, pos |-> 0, left |-> 0, n |-> 0, nb |-> 0, off |-> 0, aoff |-> 0]
    BY <2>1, <1>2
  <2>3. q \in ReqTypes
    BY <2>2 DEF ReqTypes, ReqStates
  <2>4. q.st = "new" /\ q.rg[1] = 0 /\ q.rg[2] = 0 /\ q.pos = 0 /\ q.left = 0 /\ q.n = 0
    BY <2>2
  <2>5. 0 <= GC * CS
    BY ImageConstants
  <2>6. InRange(q)
    BY <2>4, <2>5 DEF InRange
  <2>7. QED BY <2>1, <2>3, <2>4, <2>6
<1>18. req \in [Reqs -> ReqTypes]
  <2>1. req = [r \in Reqs |-> req[r]]
    BY <1>2
  <2>2. QED BY <2>1, <1>17
<1>19. Elements(<<>>) = {} /\ NoRepeat(<<>>) /\ <<>> \in Seq(Reqs)
  BY DEF Elements, NoRepeat
<1>20. thr \in ThrTypes /\ thr.st = "idle" /\ thr.r = 0 /\ thr.ok /\ thr.todo = <<>>
  BY <1>2, IdleTyped DEF IdleThread
<1>21. Qcow2Typed
  BY <1>2, <1>16, <1>17, <1>18, <1>19, <1>20 DEF Qcow2Typed, RequestsTyped
<1>22. ThreadOK
  BY <1>20 DEF ThreadOK, Going
<1>23. WaitingOK
  BY <1>2, <1>19 DEF WaitingOK
<1>24. TablesOK
  <2>1. l1_table # NoEntry => l1_table.off \in H /\ l1_table.copied /\ refcount[l1_table.off] = 1
    <3>1. m # {} => refcount[1] = 1
      BY <1>7, <1>12, <1>4
    <3>2. QED BY <3>1, <1>12
  <2>2. disk_l1 = l1_table /\ l2_cache = NoL2Cache
    BY <1>2
  <2>3. l1_table.off # 0 => l2_cache[l1_table.off] = NoTable
    BY <2>2, <1>12 DEF NoL2Cache
  <2>4. \A g \in G : T[g] # NoEntry =>
          T[g].off \in H /\ T[g].copied /\ T[g].off # l1_table.off /\ refcount[T[g].off] = 1
    <3> SUFFICES ASSUME NEW g \in G, T[g] # NoEntry
                 PROVE  T[g].off \in H /\ T[g].copied /\ T[g].off # l1_table.off /\ refcount[T[g].off] = 1
      OBVIOUS
    <3>1. g \in m /\ T[g].off = 2 + Rank(m, g) /\ T[g].copied
      BY <1>13
    <3>2. PICK o \in H : o = T[g].off /\ o \in 2..c + 1
      BY <3>1, <1>6
    <3>3. refcount[o] = 1 /\ o # 1
      BY <3>1, <3>2, <1>4, <1>7
    <3>4. QED BY <3>1, <3>2, <3>3, <1>12
  <2>5. \A g, k \in G : T[g].off = T[k].off /\ T[g].off # 0 => g = k
    <3> SUFFICES ASSUME NEW g \in G, NEW k \in G, T[g].off = T[k].off, T[g].off # 0 PROVE g = k
      OBVIOUS
    <3>1. g \in m /\ k \in m /\ 2 + Rank(m, g) = 2 + Rank(m, k)
      BY <1>13
    <3>2. Rank(m, g) = Rank(m, k)
      BY <3>1, <1>5
    <3>3. ~(g < k) /\ ~(k < g)
      BY <3>1, <3>2, <1>5
    <3>4. QED BY <3>3, ImageConstants
  <2>6. QED BY <2>1, <2>2, <2>3, <2>4, <2>5 DEF TablesOK
<1>25. \A r \in Reqs : ~Written(req[r]) /\ req[r].st # "landed" /\ ~Outstanding(r)
  BY <1>17 DEF Written, Outstanding
<1>26. NewL2OK
  BY <1>20, <1>25 DEF NewL2OK
<1>27. PartsOK /\ LandedOK /\ LinkOK /\ LinkedOK /\ OverlapsOK /\ DoneOK
  BY <1>20, <1>25 DEF PartsOK, LandedOK, LinkOK, LinkedOK, OverlapsOK, DoneOK
<1>28. AllocsOK
  BY <1>2, <1>19, <1>25 DEF AllocsOK
<1>29. ReadsOK
  <2> SUFFICES ASSUME NEW x \in Sectors PROVE Reading(x) = 0
    BY <1>2 DEF ReadsOK
  <2>1. x \div CS \in G /\ x % CS \in 0..CS - 1
    BY SectorFacts
  <2>2. T[x \div CS].off # 0 => T[x \div CS].off \in H
    BY <2>1, <1>21, <1>24, TableFacts
  <2>3. QED BY <2>1, <2>2, <1>11 DEF Reading
<1>30. CountsOK
  <2> SUFFICES ASSUME NEW h \in H, refcount[h] = 1 PROVE h = l1_table.off \/ \E g \in G : T[g].off = h
    BY DEF CountsOK
  <2>1. m # {} /\ h <= c + 1 /\ h \in Nat /\ h >= 1 /\ l1_table.off = 1
    BY <1>7, <1>12, ImageConstants
  <2>2. CASE h # 1
    <3>1. PICK i \in Nat : i = h - 2 /\ i < c
      BY <2>1, <2>2
    <3>2. PICK g \in m : Rank(m, g) = i
      BY <3>1, <1>5
    <3>3. g \in G /\ T[g].off = 2 + i
      BY <3>2, <1>3, <1>13
    <3>4. 2 + i = h
      BY <3>1, <2>1
    <3>5. QED BY <3>3, <3>4
  <2>3. QED BY <2>1, <2>2
<1>31. QED BY <1>21, <1>22, <1>23, <1>24, <1>26, <1>27, <1>28, <1>29, <1>30 DEF QcowInv, DataOK

-----------------------------------------------------------------------------
(***************************************************************************)
(* Every step.                                                             *)
(***************************************************************************)

\* Only what a device cancels is forgotten.
GoneOK == \A r \in Reqs : req[r].st = "gone" => env.cancels # {}

LEMMA StillKeeps ==
  ASSUME QcowInv, GoneOK, UNCHANGED <<qvars, env>>
  PROVE  QcowInv' /\ GoneOK'
<1>1. UNCHANGED <<refcount, blk, disk_l1, snap, l1_table, l2_cache, free_cluster_index, req, cluster_allocs,
                  dependent_requests, thr, may, env>>
  BY DEF qvars, image, memory, queues, ghosts
<1>2. /\ Qcow2Typed /\ ThreadOK /\ WaitingOK /\ TablesOK /\ NewL2OK /\ PartsOK /\ AllocsOK /\ CountsOK
      /\ ReadsOK /\ OverlapsOK /\ DoneOK /\ LandedOK /\ LinkOK /\ LinkedOK
  BY InvIs
<1>3. T' = T /\ \A x : Reading(x)' = Reading(x)
  BY <1>1, TableSame
<1>4. Qcow2Typed'
  BY <1>1, <1>2 DEF Qcow2Typed, ImageTyped, RequestsTyped
<1>5. ThreadOK'
  <2>1. \A i : Back(i)' <=> Back(i)
    BY <1>1 DEF Back
  <2>2. QED BY <1>1, <1>2, <2>1 DEF ThreadOK, Going
<1>6. WaitingOK'
  BY <1>1, <1>2 DEF WaitingOK
<1>7. NoneFreed
  BY <1>1 DEF NoneFreed
<1>8. TablesOK'
  BY <1>1, <1>2, <1>3, <1>7, TablesKept DEF TablesOK
<1>9. NewL2OK'
  BY <1>1, <1>2, <1>3 DEF NewL2OK
<1>10. \A r \in Reqs : SamePart(req[r], req'[r]) /\ (Linked(r)' <=> Linked(r)) /\ (Outstanding(r)' <=> Outstanding(r))
                       /\ (Unfinished(r)' <=> Unfinished(r))
  BY <1>1 DEF SamePart, Linked, Outstanding, Unfinished
<1>11. PartsOK'
  <2>1. NewL2' => NewL2 /\ thr'.new = thr.new
    BY <1>1 DEF NewL2
  <2>2. \A r \in Reqs : Written(req'[r]) => Written(req[r])
    BY <1>1
  <2>3. QED BY <2>1, <2>2, <1>1, <1>2, <1>3, <1>7, <1>10, PartsKept
<1>12. Elements(cluster_allocs) \subseteq Reqs
  BY <1>2, ListType DEF Qcow2Typed, RequestsTyped
<1>13. AllocsOK'
  <2>1. \A r \in Elements(cluster_allocs) : req'[r].st \in {"io", "landed", "gone"}
    BY <1>1, <1>2 DEF AllocsOK
  <2>2. \A r \in Reqs : Written(req'[r]) /\ req'[r].nb > 0 /\ thr'.r # r => r \in Elements(cluster_allocs)
    BY <1>1, <1>2 DEF AllocsOK
  <2>3. QED BY <2>1, <2>2, <1>1, <1>2, <1>3, <1>10, <1>12, AllocsKept
<1>14. CountsOK'
  <2>1. NewL2 => NewL2' /\ thr'.new = thr.new
    BY <1>1 DEF NewL2
  <2>2. QED BY <2>1, <1>1, <1>2, <1>3, CountsKept
<1>15. ReadsOK' /\ OverlapsOK' /\ DoneOK'
  BY <1>1, <1>2, <1>3, <1>10, ReadsKept, OverlapsKept, DoneKept
<1>16. LandedOK'
  BY <1>1, <1>2, <1>10, LandedKept
<1>17. LinkOK' /\ LinkedOK'
  BY <1>1, <1>2, <1>3 DEF LinkOK, LinkedOK
<1>18. GoneOK'
  BY <1>1 DEF GoneOK
<1>19. QED BY <1>4, <1>5, <1>6, <1>8, <1>9, <1>11, <1>13, <1>14, <1>15, <1>16, <1>17, <1>18
           DEF QcowInv, DataOK

\* A request whose state changes gets one of these.
LEMMA GoneOnlyCancelled ==
  ASSUME Qcow2Typed, GoneOK, Qcow2Next, env' = env, Plain
  PROVE  GoneOK'
<1> DEFINE P == \A x \in Reqs : req'[x].st = "gone" => req[x].st = "gone" \/ env.cancels # {}
<1> SUFFICES P
  BY DEF GoneOK
<1>1. req \in [Reqs -> ReqTypes] /\ \A x \in Reqs : req[x] \in ReqTypes
  BY DEF Qcow2Typed, RequestsTyped
<1>2. ASSUME NEW r, NEW s, s # "gone", req' = [req EXCEPT ![r].st = s] PROVE P
  <2>1. \A x \in Reqs : req'[x] = req[x] \/ req'[x] = [req[x] EXCEPT !.st = s]
    BY <1>1, <1>2
  <2>2. \A x \in Reqs : req'[x].st = req[x].st \/ req'[x].st = s
    BY <2>1, <1>1 DEF ReqTypes
  <2>3. QED BY <2>2, <1>2
<1>3. CASE req' = req
  BY <1>3
<1>4. ASSUME NEW r \in Reqs, NEW rg \in Ranges, qcow_aio_writev(r, rg) PROVE P
  <2>1. req' = [req EXCEPT ![r] = [req[r] EXCEPT !.st = "run", !.rg = rg, !.pos = rg[1], !.left = rg[2]]]
    BY <1>1, <1>4 DEF qcow_aio_writev
  <2>2. req'[r].st = "run" /\ \A x \in Reqs \ {r} : req'[x] = req[x]
    BY <2>1, <1>1 DEF ReqTypes
  <2>3. QED BY <2>2
<1>5. ASSUME NEW r \in Reqs, DataLands(r) PROVE P
  BY <1>2, <1>5 DEF DataLands
<1>6. ASSUME NEW r \in Reqs, qcow_aio_cancel(r) PROVE P
  BY <1>6 DEF qcow_aio_cancel, Plain
<1>7. CASE Continue
  <2>1. PICK r, q : r = Head(thr.todo) /\ q = req[r]
    OBVIOUS
  <2>2. CASE req' = [req EXCEPT ![r].st = "done"]
    BY <2>2, <1>2
  <2>3. CASE req' = [req EXCEPT ![r].st = "run", ![r].pos = @ + q.n, ![r].left = @ - q.n, ![r].n = 0]
    <3>1. req' = [req EXCEPT ![r] = [req[r] EXCEPT !.st = "run", !.pos = @ + q.n, !.left = @ - q.n, !.n = 0]]
      BY <2>3, <1>1
    <3>2. \A x \in Reqs : req'[x] = req[x] \/ req'[x] = [req[x] EXCEPT !.st = "run", !.pos = @ + q.n, !.left = @ - q.n, !.n = 0]
      BY <3>1, <1>1
    <3>3. \A x \in Reqs : req'[x].st = req[x].st \/ req'[x].st = "run"
      BY <3>2, <1>1 DEF ReqTypes
    <3>4. QED BY <3>3
  <2>4. QED BY <2>1, <2>2, <2>3, <1>7 DEF Continue, Finish
<1>8. CASE L2AllocateFailed \/ AllocFailed
  BY <1>2, <1>8 DEF L2AllocateFailed, AllocFailed, Finish
<1>9. CASE AllocClusters
  <2>1. PICK r : r = Head(thr.todo)
    OBVIOUS
  <2>2. ASSUME NEW a, NEW b, NEW c, NEW d,
               req' = [req EXCEPT ![r].st = "io", ![r].n = a, ![r].nb = b, ![r].off = c, ![r].aoff = d] PROVE P
    <3>1. req' = [req EXCEPT ![r] = [req[r] EXCEPT !.st = "io", !.n = a, !.nb = b, !.off = c, !.aoff = d]]
      BY <2>2, <1>1
    <3>2. \A x \in Reqs : req'[x] = req[x] \/ req'[x] = [req[x] EXCEPT !.st = "io", !.n = a, !.nb = b, !.off = c, !.aoff = d]
      BY <3>1, <1>1
    <3>3. \A x \in Reqs : req'[x].st = req[x].st \/ req'[x].st = "io"
      BY <3>2, <1>1 DEF ReqTypes
    <3>4. QED BY <3>3
  <2>3. ASSUME NEW a, NEW b, NEW c,
               req' = [req EXCEPT ![r].st = "io", ![r].n = a, ![r].nb = b, ![r].off = c] PROVE P
    <3>1. req' = [req EXCEPT ![r] = [req[r] EXCEPT !.st = "io", !.n = a, !.nb = b, !.off = c]]
      BY <2>3, <1>1
    <3>2. \A x \in Reqs : req'[x] = req[x] \/ req'[x] = [req[x] EXCEPT !.st = "io", !.n = a, !.nb = b, !.off = c]
      BY <3>1, <1>1
    <3>3. \A x \in Reqs : req'[x].st = req[x].st \/ req'[x].st = "io"
      BY <3>2, <1>1 DEF ReqTypes
    <3>4. QED BY <3>3
  <2>4. ASSUME NEW a, NEW b, req' = [req EXCEPT ![r].st = "wait", ![r].n = a, ![r].nb = b] PROVE P
    <3>1. req' = [req EXCEPT ![r] = [req[r] EXCEPT !.st = "wait", !.n = a, !.nb = b]]
      BY <2>4, <1>1
    <3>2. \A x \in Reqs : req'[x] = req[x] \/ req'[x] = [req[x] EXCEPT !.st = "wait", !.n = a, !.nb = b]
      BY <3>1, <1>1
    <3>3. \A x \in Reqs : req'[x].st = req[x].st \/ req'[x].st = "wait"
      BY <3>2, <1>1 DEF ReqTypes
    <3>4. QED BY <3>3
  <2> HIDE DEF P
  <2>5. PICK q, m, e, g, t : /\ q = req[r] /\ m = q.pos % CS /\ e = m + q.left /\ g = q.pos \div CS
                             /\ t = l2_cache[l1_table.off]
    OBVIOUS
  <2>6. PICK nb, c : nb = Ahead(q) /\ c = Conflict(q.pos, nb)
    OBVIOUS
  <2>7. PICK n, k : /\ n = (IF nb * CS < e THEN nb * CS ELSE e) - m
                    /\ k = (IF c.nb * CS < e THEN c.nb * CS ELSE e) - m
    OBVIOUS
  <2>8. \/ req' = [req EXCEPT ![r].st = "io", ![r].n = n, ![r].nb = 0, ![r].off = t[g].off]
        \/ req' = [req EXCEPT ![r].st = "wait", ![r].n = 0, ![r].nb = 0]
        \/ \E h \in H : req' = [req EXCEPT ![r].st = "io", ![r].n = k, ![r].nb = c.nb,
                                              ![r].off = h, ![r].aoff = q.pos]
    BY <2>1, <2>5, <2>6, <2>7, <1>9 DEF AllocClusters
  <2>9. CASE req' = [req EXCEPT ![r].st = "io", ![r].n = n, ![r].nb = 0, ![r].off = t[g].off]
    BY <2>3, <2>9
  <2>10. CASE req' = [req EXCEPT ![r].st = "wait", ![r].n = 0, ![r].nb = 0]
    BY <2>4, <2>10
  <2>11. ASSUME NEW h \in H, req' = [req EXCEPT ![r].st = "io", ![r].n = k, ![r].nb = c.nb,
                                              ![r].off = h, ![r].aoff = q.pos]
        PROVE  P
    BY <2>2, <2>11
  <2>12. QED BY <2>8, <2>9, <2>10, <2>11
<1>10. CASE Crash
  <2>1. \A x \in Reqs : req'[x] = req[x] \/ req'[x] = [req[x] EXCEPT !.st = "done"]
    BY <1>10 DEF Crash
  <2>2. QED BY <2>1, <1>1 DEF ReqTypes
<1>11. ~savevm /\ ~loadvm /\ ~delvm
  BY DEF savevm, loadvm, delvm, Command, Plain
<1>12. Step => AllocClusters \/ Continue \/ req' = req
  BY DEF Step, CopySectors, WriteL2Entries, FreeOld, run_dependent_requests, l2_load, FreeSharedL2, AllocL2,
         WriteL2, WriteL1
<1>13. (LinkFailed => req' = req) /\ \A r \in Reqs : WriteDone(r) \/ WriteFailed(r) => req' = req
  BY DEF LinkFailed, WriteDone, WriteFailed
<1> HIDE DEF P
<1>14. QED BY <1>3, <1>4, <1>5, <1>6, <1>7, <1>8, <1>9, <1>10, <1>11, <1>12, <1>13 DEF Qcow2Next

LEMMA NextKeeps ==
  ASSUME QcowInv, GoneOK, Qcow2Next, env' = env, Plain
  PROVE  QcowInv' /\ GoneOK'
<1>1. Qcow2Typed /\ TablesOK /\ ThreadOK
  BY InvIs
<1>2. GoneOK'
  BY <1>1, GoneOnlyCancelled
<1>3. ASSUME NEW r \in Reqs,
             \/ \E rg \in Ranges : qcow_aio_writev(r, rg)
             \/ DataLands(r) \/ WriteDone(r) \/ WriteFailed(r) \/ qcow_aio_cancel(r)
      PROVE  QcowInv'
  BY <1>3, WritevKeeps, DataLandsKeeps, WriteDoneKeeps, WriteFailedKeeps, CancelKeeps
<1>4. CASE Step
  <2>1. ~FreeSharedL2
    BY <1>1, TableFacts DEF FreeSharedL2
  <2>2. QED BY <1>2, <1>4, <2>1, CopyKeeps, LinkKeeps, FreeOldKeeps, RunDependentKeeps, ContinueKeeps, LoadKeeps,
               AllocL2Keeps, WriteL2Keeps, WriteL1Keeps, AllocKeeps DEF Step
<1>5. CASE LinkFailed \/ L2AllocateFailed \/ AllocFailed \/ Crash
  BY <1>2, <1>5, LinkFailedKeeps, L2FailedKeeps, AllocFailedKeeps, CrashKeeps
<1>6. ~savevm /\ ~loadvm /\ ~delvm
  BY DEF savevm, loadvm, delvm, Command, Plain
<1>7. QED BY <1>2, <1>3, <1>4, <1>5, <1>6 DEF Qcow2Next

-----------------------------------------------------------------------------
(***************************************************************************)
(* The references to a cluster.                                            *)
(***************************************************************************)
LEMMA ReferencesAre ==
  ASSUME QcowInv, NEW h \in H
  PROVE  References(h) = IF disk_l1.off # 0 /\ (h = l1_table.off \/ \E g \in G : T[g].off = h) THEN 1 ELSE 0
<1>1. Qcow2Typed /\ TablesOK /\ snap = NoSnap /\ ~snap.is
  BY InvIs DEF Qcow2Typed, ImageTyped, NoSnap
<1>2. PICK e : e = <<"disk", disk_l1>>
  OBVIOUS
<1>3. e[2] = disk_l1
  BY <1>2
<1> DEFINE used == {x \in {e} : x[2].off # 0}
           A == {x \in used : x[2].off = h}
           B == {y \in used \X G : blk[y[1][2].off].t[y[2]].off = h}
<1>4. References(h) = Cardinality(A) + Cardinality(B)
  <2>1. {<<"disk", disk_l1>>} \cup (IF snap.is THEN {<<"snap", snap.l1>>} ELSE {}) = {e}
    BY <1>1, <1>2
  <2>2. QED BY <2>1 DEF References
<1>5. CASE disk_l1.off = 0
  <2>1. A = {} /\ B = {}
    BY <1>3, <1>5
  <2>2. Cardinality(A) = 0 /\ Cardinality(B) = 0
    BY <2>1, FS_EmptySet
  <2> HIDE DEF A, B
  <2>3. References(h) = 0
    BY <2>2, <1>4
  <2>4. QED BY <2>3, <1>5
<1>6. CASE disk_l1.off # 0
  <2>1. disk_l1 = l1_table /\ l1_table.off # 0 /\ T = blk[l1_table.off].t
    BY <1>1, <1>6, TableFacts DEF TablesOK, NoEntry
  <2>2. A = IF h = l1_table.off THEN {e} ELSE {}
    BY <2>1, <1>3, <1>6
  <2>3. used = {e}
    BY <1>3, <1>6
  <2>4. \A g \in G : T[g].off = h => B = {<<e, g>>}
    <3> SUFFICES ASSUME NEW g \in G, T[g].off = h PROVE B = {<<e, g>>}
      OBVIOUS
    <3>1. \A k \in G : T[k].off = h <=> k = g
      <4>1. h # 0
        BY ImageConstants
      <4>2. QED BY <4>1, <1>1 DEF TablesOK
    <3>2. B = {y \in {e} \X G : T[y[2]].off = h}
      <4>1. \A y \in {e} \X G : blk[y[1][2].off].t = T
        BY <2>1, <1>3
      <4>2. QED BY <4>1, <2>3
    <3>3. QED BY <3>1, <3>2
  <2>5. (\A g \in G : T[g].off # h) => B = {}
    BY <2>1, <2>3, <1>3
  <2>6. T \in Tables /\ \A g \in G : T[g].off # l1_table.off
    BY <2>1, <1>1, TableFacts
  <2> HIDE DEF A, B, used
  <2>7. Cardinality(A) = IF h = l1_table.off THEN 1 ELSE 0
    BY <2>2, FS_EmptySet, FS_Singleton
  <2>8. Cardinality(B) = IF \E g \in G : T[g].off = h THEN 1 ELSE 0
    BY <2>4, <2>5, FS_EmptySet, FS_Singleton
  <2>9. QED BY <2>6, <2>7, <2>8, <1>4, <1>6
<1>7. QED BY <1>5, <1>6

LEMMA CountsRight ==
  ASSUME QcowInv, GoneOK
  PROVE  RefsCovered /\ RefsExact
<1>1. Qcow2Typed /\ TablesOK /\ ThreadOK /\ PartsOK /\ AllocsOK /\ CountsOK
  BY InvIs
<1>2. \A h \in H : refcount[h] \in {0, 1}
  BY <1>1 DEF Qcow2Typed, ImageTyped
<1>3. ASSUME NEW h \in H, References(h) # 0
      PROVE  References(h) = 1 /\ refcount[h] = 1 /\ (h = l1_table.off \/ \E g \in G : T[g].off = h)
  <2>1. References(h) = 1 /\ (h = l1_table.off \/ \E g \in G : T[g].off = h)
    BY <1>3, ReferencesAre
  <2>2. h # 0
    BY ImageConstants
  <2>3. refcount[h] = 1
    BY <2>1, <2>2, <1>1, TableFacts, NewTableTyped DEF TablesOK
  <2>4. QED BY <2>1, <2>3
<1>4. RefsCovered
  <2> SUFFICES ASSUME NEW h \in H PROVE refcount[h] >= References(h)
    BY DEF RefsCovered
  <2>1. CASE References(h) = 0
    BY <2>1, <1>2
  <2>2. CASE References(h) # 0
    BY <2>2, <1>3
  <2>3. QED BY <2>1, <2>2
<1>5. RefsExact
  <2> SUFFICES ASSUME thr.st = "idle", env.fails = {}, env.cancels = {}, ~env.crash, NEW h \in H
               PROVE  refcount[h] = References(h) + (IF Unlinked(h) THEN 1 ELSE 0)
    BY DEF RefsExact
  <2>1. Calm /\ disk_l1 = l1_table
    BY <1>1 DEF Calm, TablesOK
  <2>2. \A r \in Elements(cluster_allocs) : r \in Reqs
    BY <1>1, ListType DEF Qcow2Typed, RequestsTyped
  <2>3. Unlinked(h) <=> \E r \in Elements(cluster_allocs) : h \in Own(req[r])
    BY <2>2 DEF Unlinked, Own
  <2>4. ASSUME Unlinked(h) PROVE refcount[h] = 1 /\ References(h) = 0
    <3>1. PICK r \in Elements(cluster_allocs) : h \in Own(req[r])
      BY <2>3, <2>4
    <3>2. r \in Reqs /\ req[r].nb > 0 /\ Written(req[r])
      BY <2>2, <1>1 DEF AllocsOK, GoneOK, Written
    <3>3. ~Linked(r)
      <4>1. thr.r = 0 /\ r # 0
        BY <3>2, <1>1, ImageConstants DEF ThreadOK
      <4>2. req[r].nb # 0
        BY <3>2
      <4>3. QED BY <4>1, <4>2 DEF Linked
    <3>4. FreshPart(req[r])
      BY <3>2, <3>3, <1>1 DEF PartsOK
    <3>5. refcount[h] = 1 /\ h # l1_table.off /\ \A g \in G : T[g].off # h
      BY <3>1, <3>4 DEF FreshPart
    <3>6. QED BY <3>5, <1>3
  <2>5. ASSUME ~Unlinked(h), refcount[h] = 1 PROVE References(h) = 1
    <3>1. h = l1_table.off \/ \E g \in G : T[g].off = h
      BY <2>1, <2>3, <2>5, <1>1 DEF CountsOK
    <3>2. disk_l1.off # 0
      <4>1. h # 0
        BY ImageConstants
      <4>2. l1_table.off = 0 => \A g \in G : T[g].off = 0
        BY <1>1, TableFacts, NewTableTyped
      <4>3. QED BY <4>1, <4>2, <3>1, <2>1
    <3>3. QED BY <3>1, <3>2, ReferencesAre
  <2>6. CASE Unlinked(h)
    BY <2>4, <2>6
  <2>7. CASE ~Unlinked(h) /\ refcount[h] = 1
    BY <2>5, <2>7
  <2>8. CASE ~Unlinked(h) /\ refcount[h] = 0
    <3>1. References(h) = 0
      BY <2>8, <1>3
    <3>2. QED BY <3>1, <2>8
  <2>9. QED BY <2>6, <2>7, <2>8, <1>2
<1>6. QED BY <1>4, <1>5

LEMMA TypesRight ==
  ASSUME QcowInv
  PROVE  Qcow2TypeOK /\ AllocsDisjoint
<1>1. Qcow2Typed /\ TablesOK /\ AllocsOK
  BY InvIs
<1>2. cluster_allocs \in Seq(Reqs)
  BY <1>1 DEF Qcow2Typed, RequestsTyped
<1>3. \A i \in 1..Len(cluster_allocs) : cluster_allocs[i] \in Elements(cluster_allocs)
  BY <1>2, ListType DEF Elements
<1>4. \A i \in 1..Len(cluster_allocs) : req[cluster_allocs[i]].nb > 0
  BY <1>1, <1>3 DEF AllocsOK
<1>5. ASSUME NEW r \in Reqs
      PROVE  /\ req[r].st \in ReqStates
             /\ req[r].n \in 0..req[r].left /\ req[r].pos + req[r].left = req[r].rg[1] + req[r].rg[2]
             /\ req[r].st = "io" => req[r].n > 0 /\ Place(r, req[r].n - 1)[1] \in H
  <2>1. /\ req[r].st \in ReqStates /\ req[r].n \in Nat /\ req[r].left \in Nat /\ req[r].pos \in Nat
        /\ InRange(req[r])
    BY <1>1, ReqFields
  <2>2. ASSUME req[r].st = "io" PROVE req[r].n > 0 /\ Place(r, req[r].n - 1)[1] \in H
    <3>1. req[r].n > 0
      BY <2>1, <2>2 DEF InRange
    <3>2. PICK k \in Nat : k = req[r].n - 1
      BY <3>1, <2>1
    <3>3. PICK x : x = req[r].pos + k
      OBVIOUS
    <3>4. x \in Part(req[r])
      BY <3>2, <3>3, <2>1 DEF Part
    <3>5. Host(req[r], x) \in H
      BY <3>4, <2>2, HostFacts DEF Written
    <3>6. Place(r, k)[1] = Host(req[r], x)
      BY <3>3, <1>1, PlaceIs
    <3>7. QED BY <3>1, <3>2, <3>5, <3>6
  <2>3. QED BY <2>1, <2>2 DEF InRange
<1>6. \A h \in H : blk[h].t \in [G -> Entries] /\ l2_cache[h] \in [G -> Entries] \cup {NoTable}
  BY <1>1 DEF Qcow2Typed, ImageTyped, Clusters, Tables
<1>7. snap \in [l1 : Entries, is : BOOLEAN]
  <2>1. FALSE \in BOOLEAN /\ NoEntry \in Entries
    BY NewTableTyped
  <2>2. NoSnap \in [l1 : Entries, is : BOOLEAN]
    BY <2>1 DEF NoSnap
  <2>3. QED BY <2>2, <1>1 DEF Qcow2Typed, ImageTyped
<1>8. refcount \in [H -> Nat] /\ disk_l1 \in Entries /\ l1_table \in Entries
  BY <1>1 DEF Qcow2Typed, ImageTyped
<1>9. Qcow2TypeOK
  BY <1>4, <1>5, <1>6, <1>7, <1>8 DEF Qcow2TypeOK, ReqStates
<1>10. AllocsDisjoint
  <2> SUFFICES ASSUME NEW i \in 1..Len(cluster_allocs), NEW j \in 1..Len(cluster_allocs), i # j
               PROVE  Mine(req[cluster_allocs[i]]) \cap Mine(req[cluster_allocs[j]]) = {}
    BY DEF AllocsDisjoint, Mine
  <2>1. cluster_allocs[i] # cluster_allocs[j]
    BY <1>1, <1>2, ListType DEF AllocsOK, NoRepeat
  <2>2. QED BY <2>1, <1>1, <1>3 DEF AllocsOK
<1>11. QED BY <1>9, <1>10

-----------------------------------------------------------------------------
(***************************************************************************)
(* Theorems.                                                               *)
(***************************************************************************)
LEMMA Qcow2Inv ==
  Qcow2Spec => [](Plain => QcowInv /\ GoneOK)
<1>1. Qcow2Init => (Plain => QcowInv /\ GoneOK)
  <2>1. Qcow2Init => \A r \in Reqs : req[r].st = "new"
    BY DEF Qcow2Init
  <2>2. QED BY <2>1, InitHolds DEF GoneOK
<1>2. (Plain => QcowInv /\ GoneOK) /\ [Qcow2Next /\ UNCHANGED env]_<<qvars, env>> => (Plain => QcowInv /\ GoneOK)'
  <2> SUFFICES ASSUME Plain => QcowInv /\ GoneOK, [Qcow2Next /\ UNCHANGED env]_<<qvars, env>>, Plain'
               PROVE  QcowInv' /\ GoneOK'
    OBVIOUS
  <2>1. env' = env /\ Plain
    BY DEF Plain
  <2>2. CASE Qcow2Next
    BY <2>1, <2>2, NextKeeps
  <2>3. CASE UNCHANGED <<qvars, env>>
    BY <2>1, <2>3, StillKeeps
  <2>4. QED BY <2>2, <2>3
<1>3. QED BY <1>1, <1>2, PTL DEF Qcow2Spec

\* Whatever writes overlap in their clusters, wait for each other, fail, find no
\* clusters, are cancelled once they are in the image file or lost in a crash, the
\* guest of an image without snapshots reads what it was last told is written, or
\* what an unfinished or failed write wanted (qcow_read, qcow_aio_write_cb,
\* qcow2_alloc_cluster_link_l2).  A write that is cancelled while it waits is made
\* all the same, and the theorem leaves it out.
THEOREM Qcow2Reads ==
  Qcow2Spec => [](Plain => GuestReads)
<1>1. QcowInv => GuestReads
  BY InvIs, ReadIs DEF GuestReads, ReadsOK
<1>2. (Plain => QcowInv /\ GoneOK) => (Plain => GuestReads)
  BY <1>1
<1>3. QED BY <1>2, Qcow2Inv, PTL

\* So does a guest that starts from what is on disk at any moment: the new clusters
\* are filled before the L2 table refers to them, and the table is written before
\* the L1 entry (qcow2_alloc_cluster_link_l2, l2_allocate).
THEOREM Qcow2Image ==
  Qcow2Spec => [](Plain => ImageReads)
<1>1. QcowInv => ImageReads
  <2> SUFFICES ASSUME QcowInv PROVE Durable /\ SnapshotIntact
    BY DEF ImageReads
  <2>1. Qcow2Typed /\ TablesOK /\ ReadsOK
    BY InvIs
  <2>2. ~snap.is
    BY <2>1 DEF Qcow2Typed, ImageTyped, NoSnap
  <2>3. "l1" \notin env.fails => disk_l1 = l1_table
    BY <2>1 DEF TablesOK
  <2>4. Durable
    BY <2>1, <2>3, DiskReadIs DEF Durable, ReadsOK
  <2>5. QED BY <2>2, <2>4 DEF SnapshotIntact
<1>2. (Plain => QcowInv /\ GoneOK) => (Plain => ImageReads)
  BY <1>1
<1>3. QED BY <1>2, Qcow2Inv, PTL

\* No cluster the image refers to is counted free, none is leaked between callbacks
\* when writes are left alone, and no two writes allocate for one guest cluster
\* (qcow2_alloc_cluster_offset, qcow2_alloc_clusters, update_refcount).
THEOREM Qcow2Refs ==
  Qcow2Spec => [](Plain => RefsRight)
<1>1. QcowInv /\ GoneOK => RefsRight
  BY TypesRight, CountsRight DEF RefsRight
<1>2. (Plain => QcowInv /\ GoneOK) => (Plain => RefsRight)
  BY <1>1
<1>3. QED BY <1>2, Qcow2Inv, PTL
==============================================================================
