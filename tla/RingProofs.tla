----------------------------- MODULE RingProofs -----------------------------
(***************************************************************************)
(* Theorems about the two byte rings: the receive FIFO of the UART (Uart,  *)
(* UartGuest) and the rings of the shared memory (OneDram).                *)
(***************************************************************************)
EXTENDS UartGuest, OneDram, SequenceTheorems, TLAPS

-----------------------------------------------------------------------------
(***************************************************************************)
(* The ring buffer.                                                        *)
(***************************************************************************)

\* The constants: the array has room for two bytes at least.
LEMMA Sizes ==
  /\ QUEUE_SIZE \in Nat /\ QUEUE_SIZE >= 2
  /\ Size \in Nat /\ Size >= 2 /\ Size <= QUEUE_SIZE
BY UartAssumption

\* One turn around the array is one subtraction.
LEMMA Wrap ==
  ASSUME NEW n \in Nat, n > 0, NEW x \in 0 .. 2 * n - 1
  PROVE  x % n = IF x < n THEN x ELSE x - n
OBVIOUS

\* The number of bytes between two indices, and its inverse.
LEMMA Count ==
  ASSUME NEW s \in 0 .. QUEUE_SIZE - 1, NEW t \in 0 .. QUEUE_SIZE - 1
  PROVE  /\ ElemCount(s, t) \in 0 .. QUEUE_SIZE - 1
         /\ ElemCount(s, t) = 0 <=> s = t
         /\ t = (s + ElemCount(s, t)) % QUEUE_SIZE
<1>1. ElemCount(s, t) \in 0 .. QUEUE_SIZE - 1 /\ (ElemCount(s, t) = 0 <=> s = t)
  BY Sizes DEF ElemCount
<1>2. s + ElemCount(s, t) \in 0 .. 2 * QUEUE_SIZE - 1
  BY <1>1, Sizes
<1>3. QED BY <1>1, <1>2, Sizes, Wrap DEF ElemCount

\* n more bytes, as long as there is room for them.
LEMMA CountPlus ==
  ASSUME NEW s \in 0 .. QUEUE_SIZE - 1, NEW t \in 0 .. QUEUE_SIZE - 1,
         NEW n \in Nat, ElemCount(s, t) + n < QUEUE_SIZE
  PROVE  /\ (t + n) % QUEUE_SIZE \in 0 .. QUEUE_SIZE - 1
         /\ ElemCount(s, (t + n) % QUEUE_SIZE) = ElemCount(s, t) + n
<1>1. ElemCount(s, t) \in 0 .. QUEUE_SIZE - 1
  BY Count
<1>2. t + n \in 0 .. 2 * QUEUE_SIZE - 1
  BY <1>1, Sizes
<1>3. (t + n) % QUEUE_SIZE = IF t + n < QUEUE_SIZE THEN t + n ELSE t + n - QUEUE_SIZE
  BY <1>2, Sizes, Wrap
<1>4. QED BY <1>1, <1>2, <1>3, Sizes DEF ElemCount

\* One byte fewer.
LEMMA CountMinus ==
  ASSUME NEW s \in 0 .. QUEUE_SIZE - 1, NEW t \in 0 .. QUEUE_SIZE - 1, s # t
  PROVE  /\ QI(s) \in 0 .. QUEUE_SIZE - 1
         /\ ElemCount(QI(s), t) = ElemCount(s, t) - 1
<1>1. s + 1 \in 0 .. 2 * QUEUE_SIZE - 1
  BY Sizes
<1>2. QI(s) = IF s + 1 < QUEUE_SIZE THEN s + 1 ELSE s + 1 - QUEUE_SIZE
  BY <1>1, Sizes, Wrap DEF QI
<1>3. QED BY <1>2, Sizes DEF ElemCount

\* A buffer as fd_chr_read hands it over.
LEMMA Buffers ==
  ASSUME NEW n \in Nat, NEW bs \in BoundedSeq(Bytes, n)
  PROVE  bs \in Seq(Bytes) /\ Len(bs) \in 0 .. n /\ DOMAIN bs = 1 .. Len(bs)
<1>1. PICK m \in 0 .. n : bs \in [1 .. m -> Bytes]
  BY DEF BoundedSeq, SeqOf
<1>2. bs \in Seq(Bytes)
  BY <1>1, SeqDef
<1>3. QED BY <1>1, <1>2, LenProperties

\* And back.
LEMMA Bounded ==
  ASSUME NEW n \in Nat, NEW bs \in Seq(Bytes), Len(bs) <= n
  PROVE  bs \in BoundedSeq(Bytes, n)
<1>1. Len(bs) \in 0 .. n /\ bs \in [1 .. Len(bs) -> Bytes]
  BY LenProperties
<1>2. QED BY <1>1 DEF BoundedSeq, SeqOf

\* The array of a queue.
Array == [0 .. QUEUE_SIZE - 1 -> Bytes \cup {Nothing}]

\* queue_push of a buffer there is room for: the bytes join the queue at its
\* end, in their order, and none of those in it is overwritten.
LEMMA PushAppends ==
  ASSUME queue \in Array, qs \in 0 .. QUEUE_SIZE - 1, qt \in 0 .. QUEUE_SIZE - 1,
         NEW bs \in Seq(Bytes), queue_elem_count + Len(bs) < QUEUE_SIZE,
         Pushed(bs)
  PROVE  /\ queue' \in Array /\ qs' = qs /\ qt' \in 0 .. QUEUE_SIZE - 1
         /\ queue_elem_count' = queue_elem_count + Len(bs)
         /\ Contents' = Contents \o bs
<1> DEFINE n == queue_elem_count
           at(k) == (qt + k - 1) % QUEUE_SIZE
           B == Bytes \cup {Nothing}
<1>1. n \in 0 .. QUEUE_SIZE - 1 /\ qt = (qs + n) % QUEUE_SIZE
  BY Count DEF queue_elem_count
<1>0. n + Len(bs) < QUEUE_SIZE
  OBVIOUS
<1>2. Len(bs) \in Nat /\ DOMAIN bs = 1 .. Len(bs) /\ \A k \in 1 .. Len(bs) : bs[k] \in Bytes
  BY LenProperties
<1>3. qs' = qs /\ qt' = (qt + Len(bs)) % QUEUE_SIZE
  BY DEF Pushed
<1>4. qt' \in 0 .. QUEUE_SIZE - 1 /\ queue_elem_count' = n + Len(bs)
  BY <1>2, <1>3, CountPlus DEF queue_elem_count
<1>5. \A k \in 1 .. Len(bs) :
        at(k) = IF qt + k - 1 < QUEUE_SIZE THEN qt + k - 1 ELSE qt + k - 1 - QUEUE_SIZE
  <2> TAKE k \in 1 .. Len(bs)
  <2>1. qt + k - 1 \in 0 .. 2 * QUEUE_SIZE - 1
    BY <1>1, <1>2, Sizes
  <2>2. QED BY <2>1, Sizes, Wrap
<1> HIDE DEF n, at
<1>6. \A k, j \in 1 .. Len(bs) : at(k) = at(j) => k = j
  BY <1>0, <1>1, <1>2, <1>5, Sizes
<1>7. \A k \in 1 .. Len(bs) : at(k) \in 0 .. QUEUE_SIZE - 1 /\ queue'[at(k)] = bs[k]
  <2> TAKE k \in 1 .. Len(bs)
  <2>1. at(k) \in 0 .. QUEUE_SIZE - 1
    BY <1>0, <1>1, <1>2, <1>5, Sizes
  <2>2. (CHOOSE j \in DOMAIN bs : at(j) = at(k)) = k
    BY <1>2, <1>6
  <2>3. QED BY <2>1, <2>2, <1>2 DEF Pushed, at
<1>8. \A i \in 0 .. QUEUE_SIZE - 1 :
        (\A k \in 1 .. Len(bs) : at(k) # i) => queue'[i] = queue[i]
  BY <1>2 DEF Pushed, at
<1>9. queue' \in Array
  <2>1. \A i \in 0 .. QUEUE_SIZE - 1 : queue'[i] \in B
    BY <1>2, <1>7, <1>8 DEF Array
  <2>2. QED BY <2>1 DEF Pushed, Array
<1>10. Contents \in Seq(B) /\ Len(Contents) = n
  <2>1. \A i \in 1 .. n : (qs + i - 1) % QUEUE_SIZE \in 0 .. QUEUE_SIZE - 1
    BY <1>1, Sizes
  <2>2. \A i \in 1 .. n : queue[(qs + i - 1) % QUEUE_SIZE] \in B
    BY <2>1 DEF Array
  <2>3. Contents \in [1 .. n -> B]
    BY <2>2 DEF Contents, n
  <2>4. QED BY <2>3, <1>1, SeqDef
<1>11. Contents' \in Seq(B) /\ Len(Contents') = n + Len(bs)
  <2>1. \A i \in 1 .. n + Len(bs) : (qs + i - 1) % QUEUE_SIZE \in 0 .. QUEUE_SIZE - 1
    BY <1>1, <1>2, Sizes
  <2>2. \A i \in 1 .. n + Len(bs) : queue'[(qs + i - 1) % QUEUE_SIZE] \in B
    BY <2>1, <1>9 DEF Array
  <2>3. Contents' \in [1 .. n + Len(bs) -> B]
    BY <2>2, <1>3, <1>4 DEF Contents
  <2>4. QED BY <2>3, <1>1, <1>2, SeqDef
<1>12. bs \in Seq(B) /\ Contents \o bs \in Seq(B) /\ Len(Contents \o bs) = n + Len(bs)
  <2>1. bs \in Seq(B)
    BY SeqMonotonic
  <2>2. QED BY <2>1, <1>10, ConcatProperties
<1>13. \A i \in 1 .. n + Len(bs) : Contents'[i] = (Contents \o bs)[i]
  <2> TAKE i \in 1 .. n + Len(bs)
  <2> DEFINE p == (qs + i - 1) % QUEUE_SIZE
  <2>1. Contents'[i] = queue'[p]
    BY <1>3, <1>4 DEF Contents
  <2>2. (Contents \o bs)[i] = IF i <= n THEN Contents[i] ELSE bs[i - n]
    BY <1>10, <1>12, ConcatProperties
  <2>3. qs + i - 1 \in 0 .. 2 * QUEUE_SIZE - 1
    BY <1>0, <1>1, <1>2, Sizes
  <2>4. p = IF qs + i - 1 < QUEUE_SIZE THEN qs + i - 1 ELSE qs + i - 1 - QUEUE_SIZE
    BY <2>3, Sizes, Wrap
  <2>5. qt = IF qs + n < QUEUE_SIZE THEN qs + n ELSE qs + n - QUEUE_SIZE
    <3>1. qs + n \in 0 .. 2 * QUEUE_SIZE - 1
      BY <1>1, Sizes
    <3>2. QED BY <3>1, <1>1, Sizes, Wrap
  <2> HIDE DEF p
  <2>6. CASE i <= n
    <3>1. \A k \in 1 .. Len(bs) : at(k) # p
      BY <1>0, <1>1, <1>2, <1>5, <2>4, <2>5, <2>6, Sizes
    <3>2. p \in 0 .. QUEUE_SIZE - 1
      BY <2>3, <2>4, Sizes
    <3>3. i \in 1 .. n
      BY <2>6, <1>1, <1>2
    <3>4. Contents[i] = queue[p]
      BY <3>3 DEF Contents, n, p
    <3>5. QED BY <3>1, <3>2, <3>4, <2>1, <2>2, <2>6, <1>8
  <2>7. CASE i > n
    <3>1. i - n \in 1 .. Len(bs) /\ ~(i <= n)
      BY <2>7, <1>1, <1>2
    <3>2. at(i - n) = p
      BY <3>1, <1>0, <1>5, <2>4, <2>5, <1>1, <1>2, Sizes
    <3>3. QED BY <3>1, <3>2, <1>7, <2>1, <2>2
  <2>8. i <= n \/ i > n
    BY <1>1, <1>2
  <2>9. QED BY <2>6, <2>7, <2>8, Zenon
<1>14. QED BY <1>3, <1>4, <1>9, <1>11, <1>12, <1>13, <1>10, SeqEqual DEF n

\* A read of URXH takes the oldest byte of the queue.
LEMMA ReadTakesHead ==
  ASSUME queue \in Array, qs \in 0 .. QUEUE_SIZE - 1, qt \in 0 .. QUEUE_SIZE - 1,
         qs # qt, qs' = QI(qs), qt' = qt, queue' = queue
  PROVE  /\ qs' \in 0 .. QUEUE_SIZE - 1
         /\ queue_elem_count' = queue_elem_count - 1
         /\ Contents # <<>>
         /\ queue[qs] = Head(Contents) /\ Contents' = Tail(Contents)
<1> DEFINE n == queue_elem_count
           B == Bytes \cup {Nothing}
<1>1. n \in 1 .. QUEUE_SIZE - 1
  BY Count DEF queue_elem_count
<1>2. qs' \in 0 .. QUEUE_SIZE - 1 /\ queue_elem_count' = n - 1
  BY CountMinus DEF queue_elem_count
<1>3. qs' = (qs + 1) % QUEUE_SIZE
  BY DEF QI
<1> HIDE DEF n
<1>4. Contents \in Seq(B) /\ Len(Contents) = n
      /\ \A i \in 1 .. n : Contents[i] = queue[(qs + i - 1) % QUEUE_SIZE]
  <2>1. \A i \in 1 .. n : (qs + i - 1) % QUEUE_SIZE \in 0 .. QUEUE_SIZE - 1
    BY <1>1, Sizes
  <2>2. \A i \in 1 .. n : queue[(qs + i - 1) % QUEUE_SIZE] \in B
    BY <2>1 DEF Array
  <2>3. Contents = [i \in 1 .. n |-> queue[(qs + i - 1) % QUEUE_SIZE]]
    BY DEF Contents, n
  <2>4. Contents \in [1 .. n -> B]
    BY <2>2, <2>3
  <2>5. Contents \in Seq(B) /\ Len(Contents) = n
    BY <2>4, <1>1, SeqDef
  <2>6. QED BY <2>3, <2>5
<1>5. Contents' \in Seq(B) /\ Len(Contents') = n - 1
      /\ \A i \in 1 .. n - 1 : Contents'[i] = queue[(qs' + i - 1) % QUEUE_SIZE]
  <2>1. \A i \in 1 .. n - 1 : (qs' + i - 1) % QUEUE_SIZE \in 0 .. QUEUE_SIZE - 1
    BY <1>1, <1>2, Sizes
  <2>2. \A i \in 1 .. n - 1 : queue[(qs' + i - 1) % QUEUE_SIZE] \in B
    BY <2>1 DEF Array
  <2>3. Contents' = [i \in 1 .. n - 1 |-> queue[(qs' + i - 1) % QUEUE_SIZE]]
    BY <1>2 DEF Contents
  <2>4. Contents' \in [1 .. n - 1 -> B]
    BY <2>2, <2>3
  <2>5. n - 1 \in Nat
    BY <1>1
  <2>6. QED BY <2>3, <2>4, <2>5, SeqDef
<1>6. Contents # <<>> /\ Head(Contents) = Contents[1]
  <2>1. Contents # <<>>
    BY <1>1, <1>4, EmptySeq
  <2>2. QED BY <2>1, <1>4
<1>7. (qs + 1 - 1) % QUEUE_SIZE = qs
  <2>1. qs \in 0 .. 2 * QUEUE_SIZE - 1 /\ qs + 1 - 1 = qs
    BY Sizes
  <2>2. QED BY <2>1, Sizes, Wrap
<1>8. Tail(Contents) \in Seq(B) /\ Len(Tail(Contents)) = n - 1
      /\ \A i \in 1 .. n - 1 : Tail(Contents)[i] = Contents[i + 1]
  BY <1>1, <1>4, <1>6, HeadTailProperties
<1>9. \A i \in 1 .. n - 1 : Contents'[i] = Tail(Contents)[i]
  <2> TAKE i \in 1 .. n - 1
  <2>1. qs + i \in 0 .. 2 * QUEUE_SIZE - 1 /\ qs + 1 \in 0 .. 2 * QUEUE_SIZE - 1
        /\ qs' + i - 1 \in 0 .. 2 * QUEUE_SIZE - 1 /\ qs + (i + 1) - 1 = qs + i
        /\ i + 1 \in 1 .. n
    BY <1>1, <1>2, Sizes
  <2>2. (qs' + i - 1) % QUEUE_SIZE = (qs + i) % QUEUE_SIZE
    <3>1. qs' = IF qs + 1 < QUEUE_SIZE THEN qs + 1 ELSE qs + 1 - QUEUE_SIZE
      BY <2>1, <1>3, Sizes, Wrap
    <3>2. (qs + i) % QUEUE_SIZE = IF qs + i < QUEUE_SIZE THEN qs + i ELSE qs + i - QUEUE_SIZE
      BY <2>1, Sizes, Wrap
    <3>3. (qs' + i - 1) % QUEUE_SIZE = IF qs' + i - 1 < QUEUE_SIZE THEN qs' + i - 1 ELSE qs' + i - 1 - QUEUE_SIZE
      BY <2>1, <1>2, Sizes, Wrap
    <3>4. QED BY <3>1, <3>2, <3>3, <1>1, Sizes
  <2>3. Contents[i + 1] = queue[(qs + i) % QUEUE_SIZE]
    BY <2>1, <1>4
  <2>4. QED BY <2>2, <2>3, <1>5, <1>8
<1>10. Contents' = Tail(Contents)
  BY <1>5, <1>8, <1>9, SeqEqual
<1>11. QED BY <1>1, <1>2, <1>4, <1>6, <1>7, <1>10 DEF n

-----------------------------------------------------------------------------
(***************************************************************************)
(* The inductive invariant.  Room for what was promised (RoomStays) is     *)
(* what keeps the queue below rx.size when the bytes come, so neither it   *)
(* nor TypeOK can be shown without the other.                              *)
(***************************************************************************)

\* The registers TypeOK leaves out.
Regs ==
  /\ got \in Bytes \cup {Nothing} /\ urxh \in Bytes \cup {Nothing}
  /\ ready \in BOOLEAN /\ polled \in BOOLEAN

UartInv == TypeOK /\ Regs /\ RoomStays /\ LineFollowsStatus

\* Every handler that ends in s5pc1xx_uart_update leaves the line right.
LEMMA UpdateRight ==
  ASSUME NEW fc, NEW sp \in SUBSET Ints, NEW m \in SUBSET Ints, Update(fc, sp, m)
  PROVE  LineFollowsStatus' /\ uintsp' \subseteq Ints /\ uintm' \subseteq Ints
BY DEF Update, LineFollowsStatus, Ints

\* What does not touch the queue, nor the promise, keeps the invariant.
LEMMA QueueUntouched ==
  ASSUME UartInv, UNCHANGED <<rx, max_size, polled>>,
         ufcon' \subseteq UfconBits, uintsp' \subseteq Ints, uintm' \subseteq Ints,
         LineFollowsStatus', Regs'
  PROVE  UartInv'
BY DEF UartInv, TypeOK, RoomStays, rx, queue_elem_count, queue_empty_count

\* The fill of the queue, and the room left in it.
LEMMA QueueRoom ==
  ASSUME UartInv
  PROVE  /\ queue_elem_count \in Nat
         /\ queue_empty_count \in 0 .. Size - 1
         /\ queue_elem_count = Size - 1 - queue_empty_count
<1>1. queue_elem_count \in Nat /\ queue_elem_count < Size
  BY Count DEF queue_elem_count, UartInv, TypeOK
<1>2. QED BY <1>1, Sizes DEF queue_empty_count

LEMMA ReadUrxhKeeps == UartInv /\ ReadUrxh => UartInv'
<1> SUFFICES ASSUME UartInv, ReadUrxh PROVE UartInv'
  OBVIOUS
<1>0. queue \in Array /\ qs \in 0 .. QUEUE_SIZE - 1 /\ qt \in 0 .. QUEUE_SIZE - 1
  BY DEF UartInv, TypeOK, Array
<1>1. CASE "fifo" \in ufcon /\ qs # qt
  <2>1. /\ qs' = QI(qs) /\ queue' = queue /\ qt' = qt /\ got' = queue[qs]
        /\ ready' \in BOOLEAN
        /\ UNCHANGED <<ufcon, uintsp, uintp, uintm, irq, urxh, max_size, polled>>
    BY <1>1 DEF ReadUrxh, ints, chr
  <2>2. qs' \in 0 .. QUEUE_SIZE - 1 /\ queue_elem_count' = queue_elem_count - 1
    BY <1>0, <1>1, <2>1, ReadTakesHead
  <2>3. queue_elem_count \in Int
    BY <1>0, Count DEF queue_elem_count
  <2>4. TypeOK' /\ RoomStays'
    BY <2>1, <2>2, <2>3, Sizes DEF UartInv, TypeOK, RoomStays, queue_empty_count
  <2>5. Regs'
    BY <2>1, <1>0 DEF UartInv, Regs, Array
  <2>6. LineFollowsStatus'
    BY <2>1 DEF UartInv, LineFollowsStatus
  <2>7. QED BY <2>4, <2>5, <2>6 DEF UartInv
<1>2. CASE "fifo" \in ufcon /\ qs = qt
  <2>1. /\ UNCHANGED <<rx, max_size, polled, ufcon, ready, urxh>> /\ got' = Nothing
        /\ Update(ufcon, uintsp \cup {"ERROR"}, uintm)
    BY <1>2 DEF ReadUrxh, chr, rx
  <2>2. LineFollowsStatus' /\ uintsp' \subseteq Ints /\ uintm' \subseteq Ints
    BY <2>1, UpdateRight DEF UartInv, TypeOK, Ints
  <2>3. Regs' /\ ufcon' \subseteq UfconBits
    BY <2>1 DEF UartInv, TypeOK, Regs
  <2>4. QED BY <2>1, <2>2, <2>3, QueueUntouched
<1>3. CASE ~("fifo" \in ufcon)
  <2>1. /\ UNCHANGED <<rx, max_size, polled, ufcon, urxh, uintsp, uintp, uintm, irq>>
        /\ got' = urxh /\ ready' = FALSE
    BY <1>3 DEF ReadUrxh, chr, rx, ints
  <2>2. LineFollowsStatus' /\ uintsp' \subseteq Ints /\ uintm' \subseteq Ints
    BY <2>1 DEF UartInv, TypeOK, LineFollowsStatus
  <2>3. Regs' /\ ufcon' \subseteq UfconBits
    BY <2>1 DEF UartInv, TypeOK, Regs
  <2>4. QED BY <2>1, <2>2, <2>3, QueueUntouched
<1>4. QED BY <1>1, <1>2, <1>3

LEMMA WriteUfconKeeps ==
  ASSUME UartInv, NEW val \in SUBSET UfconBits, WriteUfcon(val)
  PROVE  UartInv'
<1>1. LineFollowsStatus' /\ uintsp' \subseteq Ints /\ uintm' \subseteq Ints
  BY UpdateRight DEF WriteUfcon, UartInv, TypeOK
<1>2. Regs' /\ ufcon' \subseteq UfconBits
  BY DEF WriteUfcon, UartInv, Regs, chr
<1>3. CASE "rxreset" \in val
  <2>1. qs' = 0 /\ qt' = 0 /\ queue' = queue /\ UNCHANGED <<max_size, polled>>
    BY <1>3 DEF WriteUfcon, chr
  <2>2. queue_elem_count' = 0 /\ queue_elem_count \in Nat
    BY <2>1, Count DEF queue_elem_count, ElemCount, UartInv, TypeOK
  <2>3. QED BY <2>1, <2>2, <1>1, <1>2, Sizes DEF UartInv, TypeOK, RoomStays, queue_empty_count
<1>4. CASE "rxreset" \notin val
  <2>1. UNCHANGED <<rx, max_size, polled>>
    BY <1>4 DEF WriteUfcon, chr, rx
  <2>2. QED BY <2>1, <1>1, <1>2, QueueUntouched
<1>5. QED BY <1>3, <1>4

LEMMA IntWritesKeep ==
  ASSUME UartInv, NEW val \in SUBSET Ints,
         WriteUtxh \/ WriteUintp(val) \/ WriteUintsp(val) \/ WriteUintm(val)
  PROVE  UartInv'
<1>1. UNCHANGED <<rx, max_size, polled, ufcon>> /\ Regs'
  BY DEF WriteUtxh, WriteUintp, WriteUintsp, WriteUintm, chr, UartInv, Regs
<1>2. \E sp, m \in SUBSET Ints : Update(ufcon, sp, m)
  BY DEF WriteUtxh, WriteUintp, WriteUintsp, WriteUintm, UartInv, TypeOK, Ints
<1>3. LineFollowsStatus' /\ uintsp' \subseteq Ints /\ uintm' \subseteq Ints
  BY <1>2, UpdateRight
<1>4. ufcon' \subseteq UfconBits
  BY <1>1 DEF UartInv, TypeOK
<1>5. QED BY <1>1, <1>3, <1>4, QueueUntouched

LEMMA PollKeeps == UartInv /\ (fd_chr_read_poll \/ SelectTimeout) => UartInv'
<1> SUFFICES ASSUME UartInv, fd_chr_read_poll \/ SelectTimeout PROVE UartInv'
  OBVIOUS
<1>1. UNCHANGED <<rx, ufcon, ready, urxh, uintsp, uintp, uintm, irq, got>>
  BY DEF fd_chr_read_poll, SelectTimeout, ints
<1>3. queue_elem_count' = queue_elem_count /\ queue_empty_count' = queue_empty_count
  BY <1>1 DEF rx, queue_elem_count, queue_empty_count
<1>4. LineFollowsStatus'
  BY <1>1 DEF UartInv, LineFollowsStatus
<1>5. CASE fd_chr_read_poll
  <2>1. max_size' = queue_empty_count
    BY <1>5 DEF fd_chr_read_poll
  <2>2. max_size' \in 0 .. Size
    BY <2>1, QueueRoom, Sizes
  <2>3. polled' \in BOOLEAN
    BY <2>2, <1>5 DEF fd_chr_read_poll
  <2>4. TypeOK'
    BY <2>2, <1>1, <1>3 DEF UartInv, TypeOK, rx
  <2>5. RoomStays'
    BY <2>1, <1>3, QueueRoom, Sizes DEF RoomStays
  <2>6. Regs'
    BY <1>1, <2>3 DEF UartInv, Regs
  <2>7. QED BY <2>4, <2>5, <2>6, <1>4 DEF UartInv
<1>6. CASE SelectTimeout
  <2>1. max_size' = max_size /\ polled' = FALSE
    BY <1>6 DEF SelectTimeout
  <2>2. QED BY <2>1, <1>1, <1>3, <1>4 DEF UartInv, TypeOK, RoomStays, Regs, rx
<1>7. QED BY <1>5, <1>6

\* s5pc1xx_uart_receive after a promise that still stands takes its bytes
\* whole: into the FIFO, or into URXH when that is off.
LEMMA ReceiveFits ==
  ASSUME UartInv, polled, NEW bs \in Seq(Bytes), Len(bs) \in 1 .. max_size,
         s5pc1xx_uart_receive(bs)
  PROVE  /\ Len(bs) <= queue_empty_count
         /\ IF "fifo" \in ufcon THEN Pushed(bs) /\ UNCHANGED urxh
                                ELSE urxh' = bs[1] /\ UNCHANGED rx
<1>1. max_size <= queue_empty_count /\ max_size \in Nat
  BY Sizes DEF UartInv, RoomStays, TypeOK
<1>2. queue_empty_count \in Int
  BY QueueRoom
<1>3. Len(bs) <= queue_empty_count /\ ~(queue_empty_count < Len(bs))
  BY <1>1, <1>2
<1>4. QED BY <1>3 DEF s5pc1xx_uart_receive

LEMMA ReadKeeps == UartInv /\ fd_chr_read => UartInv'
<1> SUFFICES ASSUME UartInv, fd_chr_read PROVE UartInv'
  OBVIOUS
<1>1. PICK bs \in BoundedSeq(Bytes, Size) :
        Len(bs) \in 1 .. max_size /\ buf' = bs /\ s5pc1xx_uart_receive(bs)
  BY DEF fd_chr_read
<1>2. bs \in Seq(Bytes) /\ Len(bs) \in Nat \ {0} /\ bs[1] \in Bytes
  BY <1>1, Buffers, Sizes, LenProperties
<1>3. polled /\ polled' = FALSE /\ UNCHANGED <<ufcon, max_size, got>>
  BY DEF fd_chr_read
<1>4. /\ Len(bs) <= queue_empty_count
      /\ IF "fifo" \in ufcon THEN Pushed(bs) /\ UNCHANGED urxh
                             ELSE urxh' = bs[1] /\ UNCHANGED rx
  BY <1>1, <1>2, <1>3, ReceiveFits
<1>5. LineFollowsStatus' /\ uintsp' \subseteq Ints /\ uintm' \subseteq Ints
  <2>1. uintsp \cup {"RXD"} \in SUBSET Ints /\ uintm \in SUBSET Ints
        /\ uintsp \cup s5pc1xx_uart_trigger_level \in SUBSET Ints
    BY DEF UartInv, TypeOK, Ints, s5pc1xx_uart_trigger_level
  <2>2. Update(ufcon, uintsp \cup s5pc1xx_uart_trigger_level, uintm)
        \/ Update(ufcon, uintsp \cup {"RXD"}, uintm)
    BY <1>1 DEF s5pc1xx_uart_receive
  <2>3. QED BY <2>1, <2>2, UpdateRight
<1>6. Regs'
  BY <1>1, <1>2, <1>3, <1>4 DEF UartInv, Regs, s5pc1xx_uart_receive
<1>7. queue \in Array /\ queue_elem_count \in Nat
      /\ queue_elem_count + Len(bs) < Size /\ Size <= QUEUE_SIZE
  <2>1. queue \in Array
    BY DEF UartInv, TypeOK, Array
  <2>2. QED BY <2>1, <1>2, <1>4, QueueRoom, Sizes
<1>8. queue' \in Array /\ qs' \in 0 .. QUEUE_SIZE - 1 /\ qt' \in 0 .. QUEUE_SIZE - 1
      /\ queue_elem_count' < Size
  <2>1. CASE "fifo" \in ufcon
    <3>1. queue_elem_count + Len(bs) < QUEUE_SIZE
      BY <1>2, <1>7, Sizes
    <3>2. qs \in 0 .. QUEUE_SIZE - 1 /\ qt \in 0 .. QUEUE_SIZE - 1
      BY DEF UartInv, TypeOK
    <3>3. queue' \in Array /\ qs' = qs /\ qt' \in 0 .. QUEUE_SIZE - 1
          /\ queue_elem_count' = queue_elem_count + Len(bs)
      BY <3>1, <3>2, <2>1, <1>2, <1>4, <1>7, PushAppends
    <3>4. QED BY <3>2, <3>3, <1>7
  <2>2. CASE "fifo" \notin ufcon
    BY <2>2, <1>4, <1>7 DEF UartInv, TypeOK, rx, queue_elem_count
  <2>3. QED BY <2>1, <2>2
<1>9. TypeOK' /\ RoomStays'
  BY <1>3, <1>5, <1>8 DEF TypeOK, RoomStays, UartInv, Array
<1>10. QED BY <1>5, <1>6, <1>9 DEF UartInv

LEMMA InitHolds == Init => UartInv
<1> SUFFICES ASSUME Init PROVE UartInv
  OBVIOUS
<1>1. queue_elem_count = 0
  BY DEF Init, queue_elem_count, ElemCount
<1>2. TypeOK
  BY <1>1, Sizes DEF Init, TypeOK
<1>3. Regs /\ RoomStays
  BY DEF Init, Regs, RoomStays
<1>4. LineFollowsStatus
  BY DEF Init, LineFollowsStatus
<1>5. QED BY <1>2, <1>3, <1>4 DEF UartInv

LEMMA StutterKeeps == UartInv /\ UNCHANGED vars => UartInv'
<1> SUFFICES ASSUME UartInv, UNCHANGED vars PROVE UartInv'
  OBVIOUS
<1>1. UNCHANGED <<rx, max_size, polled, ufcon>> /\ Regs' /\ LineFollowsStatus'
  BY DEF vars, chr, ints, UartInv, Regs, LineFollowsStatus
<1>2. ufcon' \subseteq UfconBits /\ uintsp' \subseteq Ints /\ uintm' \subseteq Ints
  BY DEF vars, ints, UartInv, TypeOK
<1>3. QED BY <1>1, <1>2, QueueUntouched

LEMMA StepKeeps == UartInv /\ [Next]_vars => UartInv'
<1> SUFFICES ASSUME UartInv, [Next]_vars PROVE UartInv'
  OBVIOUS
<1>1. CASE Host
  BY <1>1, PollKeeps, ReadKeeps DEF Host
<1>2. CASE ReadUrxh
  BY <1>2, ReadUrxhKeeps
<1>3. CASE WriteUtxh
  BY <1>3, IntWritesKeep
<1>4. CASE \E val \in UfconWrites : WriteUfcon(val)
  BY <1>4, WriteUfconKeeps, UartAssumption
<1>5. CASE \E val \in IntWrites : WriteUintp(val) \/ WriteUintsp(val) \/ WriteUintm(val)
  BY <1>5, IntWritesKeep, UartAssumption
<1>6. CASE UNCHANGED vars
  BY <1>6, StutterKeeps
<1>7. QED BY <1>1, <1>2, <1>3, <1>4, <1>5, <1>6 DEF Next

\* QueueRoom promised to the character device before select is still there when
\* its bytes are delivered (fd_chr_read_poll, fd_chr_read), whatever the guest
\* does with the registers in between, and for every size of the queue.
THEOREM RoomKept == Spec => []RoomStays
<1>1. Init => UartInv
  BY InitHolds
<1>2. UartInv /\ [Next]_vars => UartInv'
  BY StepKeeps
<1>3. UartInv => RoomStays
  BY DEF UartInv
<1>4. QED BY <1>1, <1>2, <1>3, PTL DEF Spec

-----------------------------------------------------------------------------
(***************************************************************************)
(* The driver.                                                             *)
(***************************************************************************)

\* The driver turns the FIFO on before it reads, never turns it off, and
\* nothing is in the queue before it does.
DriverInv ==
  guest = "driver" =>
    /\ gpc = "reset" => "fifo" \notin ufcon /\ qs = qt
    /\ gpc # "reset" => "fifo" \in ufcon
    /\ qs # qt => ready

GuestInv == UartInv /\ DriverInv

LEMMA GuestInitHolds == GuestInit => GuestInv
BY InitHolds DEF GuestInit, GuestInv, DriverInv, Init

LEMMA DriverKeeps ==
  ASSUME GuestInv, guest = "driver", UNCHANGED guest,
         \/ Reset \/ Mask \/ Interrupt \/ Ack \/ Drain \/ Flush
         \/ Host /\ UNCHANGED gpc
  PROVE  GuestInv'
<1> USE DEF GuestInv
<1>1. CASE Reset
  <2>1. {"fifo", "rxreset"} \in SUBSET UfconBits
    BY DEF UfconBits
  <2>2. UartInv'
    BY <1>1, <2>1, WriteUfconKeeps DEF Reset
  <2>3. gpc' = "mask" /\ qs' = 0 /\ qt' = 0 /\ "fifo" \in ufcon'
    BY <1>1 DEF Reset, WriteUfcon
  <2>4. QED BY <2>2, <2>3 DEF DriverInv
<1>2. CASE Flush
  <2>1. {"fifo", "rxreset", "level"} \in SUBSET UfconBits
    BY DEF UfconBits
  <2>2. UartInv'
    BY <1>2, <2>1, WriteUfconKeeps DEF Flush
  <2>3. gpc' = "idle" /\ qs' = 0 /\ qt' = 0 /\ "fifo" \in ufcon'
    BY <1>2 DEF Flush, WriteUfcon
  <2>4. QED BY <2>2, <2>3 DEF DriverInv
<1>3. CASE Mask \/ Ack
  <2>1. Ints \ {"RXD"} \in SUBSET Ints /\ {"RXD"} \in SUBSET Ints
    BY DEF Ints
  <2>2. UartInv'
    BY <1>3, <2>1, IntWritesKeep DEF Mask, Ack
  <2>3. UNCHANGED <<rx, ufcon, ready>> /\ gpc # "reset" /\ gpc' # "reset"
    BY <1>3 DEF Mask, Ack, WriteUintm, WriteUintp
  <2>4. QED BY <2>2, <2>3 DEF DriverInv, rx
<1>4. CASE Interrupt
  <2>1. UNCHANGED vars /\ gpc # "reset" /\ gpc' # "reset"
    BY <1>4 DEF Interrupt
  <2>2. QED BY <2>1, StutterKeeps DEF DriverInv, vars, rx
<1>5. CASE Drain
  <2>1. gpc = "drain"
    BY <1>5 DEF Drain
  <2>2. CASE queue_elem_count # 0
    <3>1. ReadUrxh /\ UNCHANGED gpc
      BY <1>5, <2>2 DEF Drain
    <3>2. "fifo" \in ufcon /\ qs # qt
      BY <2>1, <2>2, Count DEF DriverInv, queue_elem_count, UartInv, TypeOK
    <3>3. qt' = qt /\ ready' = (qs' # qt) /\ UNCHANGED ufcon
      BY <3>1, <3>2 DEF ReadUrxh
    <3>4. QED BY <2>1, <3>1, <3>2, <3>3, ReadUrxhKeeps DEF DriverInv
  <2>3. CASE queue_elem_count = 0
    <3>1. UNCHANGED vars /\ gpc' = "idle"
      BY <1>5, <2>3 DEF Drain
    <3>2. QED BY <2>1, <3>1, StutterKeeps DEF DriverInv, vars, rx
  <2>4. QED BY <2>2, <2>3
<1>6. CASE Host /\ UNCHANGED gpc
  <2>1. UartInv'
    BY <1>6, PollKeeps, ReadKeeps DEF Host
  <2>2. CASE fd_chr_read_poll \/ SelectTimeout
    BY <1>6, <2>1, <2>2 DEF DriverInv, fd_chr_read_poll, SelectTimeout, rx
  <2>3. CASE fd_chr_read
    <3>1. ready' = TRUE /\ UNCHANGED ufcon /\ ("fifo" \notin ufcon => UNCHANGED rx)
      BY <2>3 DEF fd_chr_read, s5pc1xx_uart_receive
    <3>2. QED BY <1>6, <2>1, <3>1 DEF DriverInv, rx
  <2>4. QED BY <1>6, <2>2, <2>3 DEF Host
<1>7. QED BY <1>1, <1>2, <1>3, <1>4, <1>5, <1>6

LEMMA GuestStepKeeps == GuestInv /\ [GuestNext]_gvars => GuestInv'
<1> SUFFICES ASSUME GuestInv, [GuestNext]_gvars PROVE GuestInv'
  OBVIOUS
<1>1. CASE guest = "driver" /\ UNCHANGED guest /\ (Driver \/ Flush \/ (Host /\ UNCHANGED gpc))
  BY <1>1, DriverKeeps DEF Driver
<1>2. CASE guest = "any" /\ UNCHANGED guest /\ Next
  BY <1>2, StepKeeps DEF GuestInv, DriverInv
<1>3. CASE UNCHANGED gvars
  <2>1. UNCHANGED vars /\ UNCHANGED <<qs, qt, ufcon, ready, guest, gpc>>
    BY <1>3 DEF gvars, vars, rx
  <2>2. UartInv'
    BY <2>1, StutterKeeps DEF GuestInv
  <2>3. DriverInv'
    <3>1. qs' = qs /\ qt' = qt /\ ufcon' = ufcon /\ ready' = ready /\ guest' = guest /\ gpc' = gpc
      BY <2>1
    <3>2. QED BY <3>1, Zenon DEF GuestInv, DriverInv
  <2>4. QED BY <2>2, <2>3 DEF GuestInv
<1>4. CASE GuestNext
  <2>1. CASE Driver \/ (guest = "driver" /\ (Flush \/ (Host /\ UNCHANGED gpc)))
    BY <1>1, <1>4, <2>1 DEF GuestNext, Driver
  <2>2. QED BY <1>2, <1>4, <2>1, Zenon DEF GuestNext
<1>5. QED BY <1>3, <1>4

\* UINTP is always the pending bits that are not masked, the line says whether
\* there are any, and a driver that never switches the FIFO off finds
\* DATA_READY set as long as a byte is in it, with bytes arriving at every
\* point of its interrupt handler (s5pc1xx_uart_update, s5pc1xx_uart_mm_read).
THEOREM StatusRight == GuestSpec => []StatusShown
<1>1. GuestInv => StatusShown
  BY DEF GuestInv, UartInv, DriverInv, StatusShown, DataReadyShown
<1>2. QED BY GuestInitHolds, GuestStepKeeps, <1>1, PTL DEF GuestSpec

-----------------------------------------------------------------------------
(***************************************************************************)
(* The FIFO implements the byte channel.                                   *)
(***************************************************************************)

\* The variables of the channel, as the UART shows them.
cvars == <<"fifo" \in ufcon, buf, Contents, got>>

\* A function on no indices is the empty sequence.
LEMMA NoBytes ==
  ASSUME NEW f \in [1 .. 0 -> {}]
  PROVE  f = <<>>
<1>1. f \in Seq({}) /\ Len(f) = 0
  BY SeqDef
<1>2. QED BY <1>1, EmptySeq

\* A delivery by the character device: Send.
LEMMA ReadIsSend == UartInv /\ fd_chr_read => Channel!Send
<1> SUFFICES ASSUME UartInv, fd_chr_read PROVE Channel!Send
  OBVIOUS
<1>1. PICK bs \in BoundedSeq(Bytes, Size) :
        Len(bs) \in 1 .. max_size /\ buf' = bs /\ s5pc1xx_uart_receive(bs)
  BY DEF fd_chr_read
<1>2. bs \in Seq(Bytes) /\ Len(bs) \in Nat
  BY <1>1, Buffers, Sizes
<1>3. polled /\ UNCHANGED <<ufcon, got>>
  BY DEF fd_chr_read
<1>4. /\ Len(bs) <= queue_empty_count
      /\ IF "fifo" \in ufcon THEN Pushed(bs) ELSE UNCHANGED rx
  BY <1>1, <1>2, <1>3, ReceiveFits
<1>5. buf' \in BoundedSeq(Bytes, Size - 1)
  <2>1. Size - 1 \in Nat /\ Len(bs) <= Size - 1
    BY <1>2, <1>4, QueueRoom, Sizes
  <2>2. QED BY <2>1, <1>1, <1>2, Bounded
<1>6. queue \in Array /\ qs \in 0 .. QUEUE_SIZE - 1 /\ qt \in 0 .. QUEUE_SIZE - 1
  BY DEF UartInv, TypeOK, Array
<1>7. Contents' = IF "fifo" \in ufcon THEN Contents \o buf' ELSE Contents
  <2>1. CASE "fifo" \in ufcon
    <3>1. queue_elem_count + Len(bs) < QUEUE_SIZE
      BY <1>2, <1>4, QueueRoom, Sizes
    <3>2. Contents' = Contents \o bs
      BY <3>1, <2>1, <1>2, <1>4, <1>6, PushAppends
    <3>3. QED BY <3>2, <2>1, <1>1
  <2>2. CASE "fifo" \notin ufcon
    BY <2>2, <1>4 DEF rx, Contents, queue_elem_count
  <2>3. QED BY <2>1, <2>2
<1>8. Len(Contents') <= Size - 1
  <2>1. UartInv'
    BY ReadKeeps
  <2>2. queue_elem_count' \in Nat /\ queue_elem_count' < Size
    <3>1. qs' \in 0 .. QUEUE_SIZE - 1 /\ qt' \in 0 .. QUEUE_SIZE - 1 /\ queue_elem_count' < Size
      BY <2>1 DEF UartInv, TypeOK
    <3>2. QED BY <3>1, Count DEF queue_elem_count
  <2>3. Len(Contents') = queue_elem_count'
    <3>1. DOMAIN Contents' = 1 .. queue_elem_count'
      BY DEF Contents
    <3>2. \A i \in 1 .. queue_elem_count' : Contents'[i] \in {Contents'[j] : j \in 1 .. queue_elem_count'}
      OBVIOUS
    <3>3. Contents' \in [1 .. queue_elem_count' -> {Contents'[j] : j \in 1 .. queue_elem_count'}]
      BY <3>2 DEF Contents
    <3>4. QED BY <3>3, <2>2, SeqDef
  <2>4. QED BY <2>2, <2>3, Sizes
<1>9. QED BY <1>3, <1>5, <1>7, <1>8 DEF Channel!Send, Channel!BoundedSeq, Channel!SeqOf, BoundedSeq, SeqOf

\* A read of URXH: Receive.
LEMMA ReadUrxhIsReceive == UartInv /\ ReadUrxh => Channel!Receive
<1> SUFFICES ASSUME UartInv, ReadUrxh PROVE Channel!Receive
  OBVIOUS
<1>1. queue \in Array /\ qs \in 0 .. QUEUE_SIZE - 1 /\ qt \in 0 .. QUEUE_SIZE - 1
  BY DEF UartInv, TypeOK, Array
<1>2. UNCHANGED <<ufcon, buf, queue, qt>>
  BY DEF ReadUrxh, chr
<1>3. CASE "fifo" \in ufcon /\ qs # qt
  <2>1. qs' = QI(qs) /\ got' = queue[qs]
    BY <1>3 DEF ReadUrxh
  <2>2. Contents # <<>> /\ got' = Head(Contents) /\ Contents' = Tail(Contents)
    BY <2>1, <1>1, <1>2, <1>3, ReadTakesHead
  <2>3. QED BY <2>2, <1>2, <1>3 DEF Channel!Receive
<1>4. CASE "fifo" \in ufcon /\ qs = qt
  <2>1. got' = Nothing /\ qs' = qs
    BY <1>4 DEF ReadUrxh
  <2>2. Contents' = Contents
    BY <2>1, <1>2 DEF Contents, queue_elem_count
  <2>3. Contents = <<>>
    <3>1. queue_elem_count = 0
      BY <1>1, <1>4, Count DEF queue_elem_count
    <3>2. Contents \in [1 .. 0 -> {}]
      BY <3>1 DEF Contents
    <3>3. QED BY <3>2, NoBytes
  <2>4. QED BY <2>1, <2>2, <2>3, <1>2, <1>4 DEF Channel!Receive
<1>5. CASE "fifo" \notin ufcon
  <2>1. got' = urxh /\ qs' = qs
    BY <1>5 DEF ReadUrxh
  <2>2. Contents' = Contents
    BY <2>1, <1>2 DEF Contents, queue_elem_count
  <2>3. got' \in Bytes \cup {Nothing}
    BY <2>1 DEF UartInv, Regs
  <2>4. QED BY <2>2, <2>3, <1>2, <1>5 DEF Channel!Receive
<1>6. QED BY <1>3, <1>4, <1>5

\* A write of UFCON: Control.
LEMMA UfconIsControl ==
  ASSUME NEW val, WriteUfcon(val)
  PROVE  Channel!Control
<1>1. UNCHANGED <<buf, got, queue>>
  BY DEF WriteUfcon, chr
<1>2. Contents' \in {Contents, <<>>}
  <2>1. CASE "rxreset" \in val
    <3>1. qs' = 0 /\ qt' = 0
      BY <2>1 DEF WriteUfcon
    <3>2. queue_elem_count' = 0
      BY <3>1 DEF queue_elem_count, ElemCount
    <3>3. Contents' \in [1 .. 0 -> {}]
      BY <3>2 DEF Contents
    <3>4. QED BY <3>3, NoBytes
  <2>2. CASE "rxreset" \notin val
    BY <2>2, <1>1 DEF WriteUfcon, Contents, queue_elem_count
  <2>3. QED BY <2>1, <2>2
<1>3. QED BY <1>1, <1>2 DEF Channel!Control

\* The other registers, and a select that finds nothing: no step.
LEMMA RestIsStutter ==
  ASSUME NEW val,
         \/ WriteUtxh \/ WriteUintp(val) \/ WriteUintsp(val) \/ WriteUintm(val)
         \/ fd_chr_read_poll \/ SelectTimeout \/ UNCHANGED vars
  PROVE  UNCHANGED cvars
<1>1. UNCHANGED <<queue, qs, qt, ufcon, buf, got>>
  BY DEF WriteUtxh, WriteUintp, WriteUintsp, WriteUintm, fd_chr_read_poll, SelectTimeout,
         vars, rx, chr
<1>2. QED BY <1>1 DEF cvars, Contents, queue_elem_count

LEMMA NextIsChannel == UartInv /\ [Next]_vars => [Channel!Next]_cvars
<1> SUFFICES ASSUME UartInv, [Next]_vars PROVE Channel!Next \/ UNCHANGED cvars
  OBVIOUS
<1>1. CASE fd_chr_read
  BY <1>1, ReadIsSend DEF Channel!Next
<1>2. CASE ReadUrxh
  BY <1>2, ReadUrxhIsReceive DEF Channel!Next
<1>3. CASE \E val \in UfconWrites : WriteUfcon(val)
  BY <1>3, UfconIsControl DEF Channel!Next
<1>4. CASE \E val : \/ WriteUtxh \/ WriteUintp(val) \/ WriteUintsp(val) \/ WriteUintm(val)
                    \/ fd_chr_read_poll \/ SelectTimeout \/ UNCHANGED vars
  BY <1>4, RestIsStutter
<1>5. QED BY <1>1, <1>2, <1>3, <1>4 DEF Next, Host

LEMMA InitIsChannel == Init => Channel!Init
<1> SUFFICES ASSUME Init PROVE Channel!Init
  OBVIOUS
<1>1. queue_elem_count = 0
  BY DEF Init, queue_elem_count, ElemCount
<1>2. Contents \in [1 .. 0 -> {}]
  BY <1>1 DEF Contents
<1>3. Contents = <<>>
  BY <1>2, NoBytes
<1>4. QED BY <1>3 DEF Init, Channel!Init

\* The receiver is a byte channel (ByteChannel): while its FIFO is on, what the
\* character device reads from its descriptor is read by the guest once, in
\* order and whole, unless the guest resets the FIFO; for every size of the
\* array and of the queue, and every guest.
THEOREM UartImplementsChannel == Spec => FifoIsChannel
<1>1. Init => Channel!Init
  BY InitIsChannel
<1>2. UartInv /\ [Next]_vars => [Channel!Next]_cvars
  BY NextIsChannel
<1>3. QED
  BY InitHolds, StepKeeps, <1>1, <1>2, PTL DEF Spec, FifoIsChannel, Channel!Spec, cvars

\* A step of the driver is a step of the channel too.
LEMMA GuestIsChannel == UartInv /\ [GuestNext]_gvars => [Channel!Next]_cvars
<1> SUFFICES ASSUME UartInv, [GuestNext]_gvars PROVE Channel!Next \/ UNCHANGED cvars
  OBVIOUS
<1>1. CASE Reset \/ Flush
  BY <1>1, UfconIsControl DEF Reset, Flush, Channel!Next
<1>2. CASE Mask \/ Ack \/ Interrupt \/ UNCHANGED gvars
  BY <1>2, RestIsStutter DEF Mask, Ack, Interrupt, gvars
<1>3. CASE Drain
  BY <1>3, ReadUrxhIsReceive, RestIsStutter DEF Drain, Channel!Next
<1>4. CASE Host \/ Next
  BY <1>4, NextIsChannel DEF Next
<1>5. QED BY <1>1, <1>2, <1>3, <1>4 DEF GuestNext, Driver

\* The same with the interrupt-driven driver or any other guest at work: what
\* the run checks on one size.
THEOREM GuestSeesChannel == GuestSpec => FifoIsChannel
<1>1. GuestInit => Channel!Init
  BY InitIsChannel DEF GuestInit
<1>2. UartInv /\ [GuestNext]_gvars => [Channel!Next]_cvars
  BY GuestIsChannel
<1>3. GuestInv => UartInv
  BY DEF GuestInv
<1>4. QED
  BY GuestInitHolds, GuestStepKeeps, <1>1, <1>2, <1>3, PTL
     DEF GuestSpec, FifoIsChannel, Channel!Spec, cvars

-----------------------------------------------------------------------------
(***************************************************************************)
(* The rings of the shared memory.                                         *)
(***************************************************************************)

LEMMA RingSizes ==
  /\ FmtSize \in Nat /\ FmtSize >= 2 /\ SocketMax \in Nat /\ SocketMax >= 1 /\ Burst \in Nat
  /\ MaxOut \in Nat /\ MaxIn \in Nat /\ Retry \in Nat
BY OneDramAssumption

LEMMA RingWrap ==
  ASSUME NEW x \in 0 .. 2 * FmtSize - 1
  PROVE  x % FmtSize = IF x < FmtSize THEN x ELSE x - FmtSize
<1>1. FmtSize \in Nat /\ FmtSize > 0
  BY RingSizes
<1>2. QED BY <1>1, Wrap

\* The bytes between a tail and a head.
Filled(h, t) == IF h >= t THEN h - t ELSE h - t + FmtSize

LEMMA FilledCounts ==
  ASSUME NEW h \in Index, NEW t \in Index
  PROVE  /\ Filled(h, t) \in Index /\ Filled(h, t) \in Nat
         /\ Filled(h, t) = 0 <=> h = t
         /\ (h - t + FmtSize) % FmtSize = Filled(h, t)
<1>1. h - t + FmtSize \in 0 .. 2 * FmtSize - 1
  BY RingSizes DEF Index
<1>2. (h - t + FmtSize) % FmtSize =
        IF h - t + FmtSize < FmtSize THEN h - t + FmtSize ELSE h - t + FmtSize - FmtSize
  BY <1>1, RingWrap, RingSizes DEF Index
<1>3. QED BY <1>2, RingSizes DEF Filled, Index

\* The memory of a ring of bytes from S.
Bufs(S) == [Index -> S]

\* The index of a ring's i-th byte.
Place(t, i) == IF t + i - 1 < FmtSize THEN t + i - 1 ELSE t + i - 1 - FmtSize

LEMMA PlaceWraps ==
  ASSUME NEW t \in Index, NEW i \in 1 .. FmtSize
  PROVE  (t + i - 1) % FmtSize = Place(t, i) /\ Place(t, i) \in Index
<1>1. t + i - 1 \in 0 .. 2 * FmtSize - 1
  BY RingSizes DEF Index
<1>2. (t + i - 1) % FmtSize = IF t + i - 1 < FmtSize THEN t + i - 1 ELSE t + i - 1 - FmtSize
  BY <1>1, RingWrap, RingSizes DEF Index
<1>3. QED BY <1>1, <1>2, RingSizes DEF Place, Index

\* A ring as a sequence of the bytes from the tail on.
LEMMA RingIsSeq ==
  ASSUME NEW S, NEW b \in Bufs(S), NEW h \in Index, NEW t \in Index
  PROVE  /\ Ring(b, h, t) \in Seq(S)
         /\ Len(Ring(b, h, t)) = Filled(h, t)
         /\ \A i \in 1 .. Filled(h, t) : Ring(b, h, t)[i] = b[Place(t, i)]
<1> DEFINE n == Filled(h, t)
<1>1. n \in Index /\ (h - t + FmtSize) % FmtSize = n
  BY FilledCounts
<1> HIDE DEF n
<1>2. n \in Nat /\ \A i \in 1 .. n : i \in 1 .. FmtSize
  BY <1>1, RingSizes DEF Index
<1>3. \A i \in 1 .. n : (t + i - 1) % FmtSize = Place(t, i) /\ Place(t, i) \in Index
  BY <1>2, PlaceWraps
<1>4. Ring(b, h, t) = [i \in 1 .. n |-> b[(t + i - 1) % FmtSize]]
  BY <1>1 DEF Ring
<1>5. Ring(b, h, t) = [i \in 1 .. n |-> b[Place(t, i)]]
  BY <1>3, <1>4
<1>6. Ring(b, h, t) \in [1 .. n -> S]
  BY <1>3, <1>5 DEF Bufs
<1>7. Ring(b, h, t) \in Seq(S) /\ Len(Ring(b, h, t)) = n
  BY <1>2, <1>6, SeqDef, LenProperties
<1>8. \A i \in 1 .. n : Ring(b, h, t)[i] = b[Place(t, i)]
  BY <1>5
<1>9. QED BY <1>7, <1>8 DEF n

LEMMA RingByte ==
  ASSUME NEW S, NEW b \in Bufs(S), NEW h \in Index, NEW t \in Index,
         NEW i \in 1 .. Filled(h, t)
  PROVE  Ring(b, h, t)[i] = b[Place(t, i)]
BY RingIsSeq

LEMMA EmptyRing ==
  ASSUME NEW S, NEW b \in Bufs(S), NEW h \in Index, NEW t \in Index
  PROVE  Ring(b, h, t) = <<>> <=> h = t
<1>1. Ring(b, h, t) \in Seq(S) /\ Len(Ring(b, h, t)) = Filled(h, t)
  BY RingIsSeq
<1>2. QED BY <1>1, EmptySeq, FilledCounts

\* The head after n more bytes.
LEMMA HeadAdvances ==
  ASSUME NEW h \in Index, NEW t \in Index, NEW n \in Nat, Filled(h, t) + n < FmtSize
  PROVE  /\ (h + n) % FmtSize \in Index
         /\ Filled((h + n) % FmtSize, t) = Filled(h, t) + n
<1>1. h + n \in 0 .. 2 * FmtSize - 1
  BY RingSizes, FilledCounts DEF Index
<1>2. (h + n) % FmtSize = IF h + n < FmtSize THEN h + n ELSE h + n - FmtSize
  BY <1>1, RingWrap, RingSizes DEF Index
<1>3. QED BY <1>1, <1>2, RingSizes DEF Index, Filled

\* A sequence is another one and the bytes bs after it.
Joins(r, s, bs) == r = s \o bs

\* Bytes written from the head on there is room for join the ring at its end,
\* and none of those in it is overwritten.
LEMMA PutJoins ==
  ASSUME NEW S, NEW b \in Bufs(S), NEW h \in Index, NEW t \in Index,
         NEW bs \in Seq(S), Filled(h, t) + Len(bs) < FmtSize
  PROVE  /\ Put(b, h, bs) \in Bufs(S)
         /\ Joins(Ring(Put(b, h, bs), (h + Len(bs)) % FmtSize, t), Ring(b, h, t), bs)
<1> DEFINE m == Len(bs)
           n == Filled(h, t)
           g == (h + m) % FmtSize
<1>0. PICK c : c = Put(b, h, bs)
  OBVIOUS
<1>1. m \in Nat /\ DOMAIN bs = 1 .. m /\ \A k \in 1 .. m : bs[k] \in S
  BY LenProperties
<1>2. n \in Index /\ n + m < FmtSize
  BY FilledCounts
<1>3. g \in Index /\ Filled(g, t) = n + m
  BY <1>1, <1>2, HeadAdvances
<1>4. \A i \in Index : (i - h + FmtSize) % FmtSize = Filled(i, h) /\ Filled(i, h) \in Index
  BY FilledCounts
<1> HIDE DEF m
<1>5. c = [i \in Index |-> IF Filled(i, h) < m THEN bs[Filled(i, h) + 1] ELSE b[i]]
  BY <1>0, <1>4 DEF Put, m
<1>6. \A k \in Index : k < m => k + 1 \in 1 .. m
  BY <1>1, RingSizes DEF Index
<1>7. c \in Bufs(S)
  BY <1>1, <1>4, <1>5, <1>6 DEF Bufs
<1> HIDE DEF n, g
<1>8. /\ Ring(b, h, t) \in Seq(S) /\ Len(Ring(b, h, t)) = n
      /\ \A i \in 1 .. n : Ring(b, h, t)[i] = b[Place(t, i)]
  BY RingIsSeq DEF n
<1>9. /\ Ring(c, g, t) \in Seq(S) /\ Len(Ring(c, g, t)) = n + m
      /\ \A i \in 1 .. n + m : Ring(c, g, t)[i] = c[Place(t, i)]
  <2>1. Ring(c, g, t) \in Seq(S) /\ Len(Ring(c, g, t)) = Filled(g, t)
    BY <1>3, <1>7, RingIsSeq
  <2>2. \A i \in 1 .. Filled(g, t) : Ring(c, g, t)[i] = c[Place(t, i)]
    BY <1>3, <1>7, RingByte
  <2>3. QED BY <2>1, <2>2, <1>3
<1>10. /\ Ring(b, h, t) \o bs \in Seq(S) /\ Len(Ring(b, h, t) \o bs) = n + m
       /\ \A i \in 1 .. n + m : (Ring(b, h, t) \o bs)[i] = IF i <= n THEN Ring(b, h, t)[i] ELSE bs[i - n]
  BY <1>8, ConcatProperties DEF m
<1>11. \A i \in 1 .. n + m : /\ Place(t, i) \in Index
                             /\ i <= n => ~(Filled(Place(t, i), h) < m)
                             /\ i > n => Filled(Place(t, i), h) = i - n - 1 /\ Filled(Place(t, i), h) < m
  <2> TAKE i \in 1 .. n + m
  <2>1. Place(t, i) \in Index
    BY <1>1, <1>2, RingSizes DEF Index, Place
  <2>2. i <= n => ~(Filled(Place(t, i), h) < m)
    BY <1>1, <1>2, RingSizes DEF Index, Filled, Place, n
  <2>3. i > n => Filled(Place(t, i), h) = i - n - 1 /\ Filled(Place(t, i), h) < m
    BY <1>1, <1>2, RingSizes DEF Index, Filled, Place, n
  <2>4. QED BY <2>1, <2>2, <2>3
<1>12. \A i \in 1 .. n + m : Ring(c, g, t)[i] = (Ring(b, h, t) \o bs)[i]
  <2> TAKE i \in 1 .. n + m
  <2>1. CASE i <= n
    <3>1. i \in 1 .. n
      BY <2>1, <1>1, <1>2, RingSizes DEF Index
    <3>2. c[Place(t, i)] = b[Place(t, i)]
      BY <2>1, <1>5, <1>11
    <3>3. QED BY <2>1, <3>1, <3>2, <1>8, <1>9, <1>10
  <2>2. CASE i > n
    <3>1. ~(i <= n) /\ (i - n - 1) + 1 = i - n
      BY <2>2, <1>1, <1>2, RingSizes DEF Index
    <3>2. c[Place(t, i)] = bs[i - n]
      BY <2>2, <3>1, <1>5, <1>11
    <3>3. QED BY <3>1, <3>2, <1>9, <1>10
  <2>3. i <= n \/ i > n
    BY <1>1, <1>2, RingSizes DEF Index
  <2>4. QED BY <2>1, <2>2, <2>3, Zenon
<1>13. Ring(c, g, t) = Ring(b, h, t) \o bs
  BY <1>9, <1>10, <1>12, SeqEqual
<1>14. QED BY <1>0, <1>7, <1>13 DEF g, m, Joins

\* One byte the AP writes at the head.
LEMMA PutOne ==
  ASSUME NEW S, NEW b \in Bufs(S), NEW h \in Index, NEW x \in S
  PROVE  [b EXCEPT ![h] = x] = Put(b, h, <<x>>)
<1>1. \A i \in Index : (i - h + FmtSize) % FmtSize = Filled(i, h) /\ Filled(i, h) \in Index
  BY FilledCounts
<1>2. \A i \in Index : Filled(i, h) < 1 <=> i = h
  <2> TAKE i \in Index
  <2>1. Filled(i, h) = 0 <=> i = h
    BY FilledCounts
  <2>2. Filled(i, h) \in Nat
    BY <1>1, RingSizes DEF Index
  <2>3. QED BY <2>1, <2>2
<1>3. Put(b, h, <<x>>) = [i \in Index |-> IF Filled(i, h) < 1 THEN <<x>>[Filled(i, h) + 1] ELSE b[i]]
  BY <1>1 DEF Put
<1>4. Filled(h, h) = 0
  BY FilledCounts
<1>5. \A i \in Index : (IF Filled(i, h) < 1 THEN <<x>>[Filled(i, h) + 1] ELSE b[i])
                         = IF i = h THEN x ELSE b[i]
  <2> TAKE i \in Index
  <2>1. CASE i = h
    BY <2>1, <1>2, <1>4
  <2>2. CASE i # h
    BY <2>2, <1>2
  <2>3. QED BY <2>1, <2>2
<1>6. Put(b, h, <<x>>) = [i \in Index |-> IF i = h THEN x ELSE b[i]]
  BY <1>3, <1>5, Zenon
<1>7. QED BY <1>6 DEF Bufs

\* onedram_fmt_send_cmd takes the ring in one chunk or two, and all of it when
\* the socket buffer has room for all of it.
LEMMA TakesAll ==
  ASSUME oh \in Index, ot \in Index, Filled(oh, ot) <= SocketMax
  PROVE  /\ Taken.n = Filled(oh, ot) /\ Taken.rest = Filled(oh, ot)
         /\ (ot + Taken.rest) % FmtSize = oh
<1> DEFINE c1 == Chunk(oh, ot)
           c2 == Chunk(oh, (ot + c1) % FmtSize)
           f == Filled(oh, ot)
<1>1. c1 \in 0 .. FmtSize /\ ot + c1 \in 0 .. 2 * FmtSize - 1
  BY RingSizes DEF Chunk, Index
<1>2. (ot + c1) % FmtSize = IF ot + c1 < FmtSize THEN ot + c1 ELSE ot + c1 - FmtSize
  BY <1>1, RingWrap, RingSizes DEF Index
<1>3. c2 \in Nat /\ c1 + c2 = f
  BY <1>1, <1>2, RingSizes DEF Chunk, Index, Filled
<1>4. c1 >= SocketMax => c1 = SocketMax /\ f = SocketMax
  BY <1>1, <1>3, RingSizes
<1>5. f <= SocketMax
  OBVIOUS
<1>6. ot + f \in 0 .. 2 * FmtSize - 1 /\ (ot + f = oh \/ ot + f = oh + FmtSize)
  BY RingSizes DEF Index, Filled
<1>7. (ot + f) % FmtSize = oh
  BY <1>6, RingWrap, RingSizes DEF Index
<1>8. Taken = CASE c1 >= SocketMax -> [n |-> SocketMax, rest |-> c1]
       [] c1 < SocketMax /\ c1 + c2 >= SocketMax -> [n |-> SocketMax, rest |-> c1 + c2]
       [] OTHER -> [n |-> c1 + c2, rest |-> c1 + c2]
  BY DEF Taken
<1> HIDE DEF c1, c2, f
<1>9. Taken.n = f /\ Taken.rest = f
  BY <1>1, <1>3, <1>4, <1>5, <1>8, RingSizes
<1>10. QED BY <1>7, <1>9 DEF f

-----------------------------------------------------------------------------
(***************************************************************************)
(* The inductive invariant.                                                *)
(***************************************************************************)

\* The AP leaves no more in its ring than the socket buffer takes.
SocketTakesAll == Least(Burst, FmtSize - 1) <= SocketMax

\* The state of each direction, with the bytes at its ends.
OutType ==
  outbuf \in Bufs(0 .. MaxOut) /\ oh \in Index /\ ot \in Index /\ apSent \in 0 .. MaxOut

OutOK ==
  /\ OutType
  /\ cpGot \in Seq(0 .. MaxOut)
  /\ Filled(oh, ot) <= Least(Burst, FmtSize - 1)
  /\ OutStream

OutSide == OutType /\ (SocketTakesAll => OutOK)

InOK ==
  /\ inbuf \in Bufs(0 .. MaxIn) /\ ih \in Index /\ it \in Index
  /\ lost \in Seq(0 .. MaxIn) /\ apGot \in Seq(0 .. MaxIn) /\ cpSent \in 0 .. MaxIn
  /\ InStream

ControlOK ==
  /\ sem \in {0, 1} /\ mbx_ab \in Words /\ check_ab \in BOOLEAN
  /\ sem_timer \in BOOLEAN /\ sem_retry \in 0 .. 2 * Retry
  /\ bootup_timer \in BOOLEAN /\ connected \in BOOLEAN /\ bootup \in BOOLEAN
  /\ ap \in {"off", "loading", "loaded", "up"} /\ apTold \in BOOLEAN

\* The boot: onedram_bootup's timer is not armed again once PHONE_START has
\* been sent.
Booting ==
  /\ ~connected => ~bootup_timer /\ ~bootup
  /\ ~bootup => ap = "off" /\ mbx_ab \notin {"READY_FOR_LOADING", "PHONE_START"}
  /\ bootup_timer => ap # "up" /\ mbx_ab # "PHONE_START"

\* Until the AP is up it has neither written nor taken anything: the reset of
\* the four indices in onedram_bootup drops at most what the modem has written.
Quiet ==
  ap # "up" => ~sem_timer /\ oh = ot /\ apSent = 0 /\ apGot = <<>> /\ cpGot = <<>>

OneDramInv == ControlOK /\ Booting /\ Quiet /\ OutSide /\ InOK /\ Announced

-----------------------------------------------------------------------------
(***************************************************************************)
(* The ring from the AP.                                                   *)
(***************************************************************************)
LEMMA OutFacts ==
  ASSUME OutType
  PROVE  /\ OutRing \in Seq(0 .. MaxOut) /\ Len(OutRing) = Filled(oh, ot)
         /\ OutRing = <<>> <=> oh = ot
<1>1. outbuf \in Bufs(0 .. MaxOut) /\ oh \in Index /\ ot \in Index
  BY DEF OutOK, OutType
<1>2. OutRing \in Seq(0 .. MaxOut) /\ Len(OutRing) = Filled(oh, ot)
  BY <1>1, RingIsSeq DEF OutRing
<1>3. OutRing = <<>> <=> oh = ot
  BY <1>1, EmptyRing DEF OutRing
<1>4. QED BY <1>2, <1>3

LEMMA OutSame ==
  ASSUME OutOK, UNCHANGED <<outbuf, oh, ot, cpGot, apSent>>
  PROVE  OutOK'
BY DEF OutOK, OutType, OutStream, OutRing

\* An empty ring after everything has come out of it.
LEMMA OutEmpty ==
  ASSUME OutOK, cpGot' = cpGot \o OutRing, ot' = oh', oh' \in Index,
         UNCHANGED <<outbuf, apSent>>
  PROVE  OutOK'
<1>1. OutRing \in Seq(0 .. MaxOut) /\ cpGot \in Seq(0 .. MaxOut)
  BY OutFacts DEF OutOK
<1>2. cpGot' \in Seq(0 .. MaxOut)
  BY <1>1, ConcatProperties
<1>3. outbuf' \in Bufs(0 .. MaxOut)
  BY DEF OutOK, OutType
<1>4. Ring(outbuf', oh', ot') = <<>>
  BY <1>3, EmptyRing
<1>5. cpGot' \o OutRing' = cpGot \o OutRing
  BY <1>2, <1>4, ConcatEmptySeq DEF OutRing
<1>6. OutStream'
  BY <1>5 DEF OutOK, OutType, OutStream
<1>7. Filled(oh', ot') = 0
  BY FilledCounts
<1>8. 0 <= Least(Burst, FmtSize - 1)
  BY RingSizes DEF Least
<1>9. Filled(oh', ot') <= Least(Burst, FmtSize - 1)
  BY <1>7, <1>8
<1>10. QED BY <1>2, <1>3, <1>6, <1>9 DEF OutOK, OutType

LEMMA OutSend ==
  ASSUME OutOK, SocketTakesAll, onedram_fmt_send_cmd, UNCHANGED <<outbuf, oh, apSent>>
  PROVE  OutOK' /\ ot' = oh
<1>1. OutRing \in Seq(0 .. MaxOut) /\ Len(OutRing) = Filled(oh, ot)
  BY OutFacts DEF OutOK
<1>2. oh \in Index /\ ot \in Index
  BY DEF OutOK, OutType
<1>3. Filled(oh, ot) <= SocketMax
  <2>1. Filled(oh, ot) \in Nat /\ Least(Burst, FmtSize - 1) \in Nat
    BY <1>2, FilledCounts, RingSizes DEF Index, Least
  <2>2. QED BY <2>1, RingSizes DEF OutOK, OutType, SocketTakesAll
<1>4. Taken.n = Filled(oh, ot) /\ (ot + Taken.rest) % FmtSize = oh
  BY <1>2, <1>3, TakesAll
<1>5. SubSeq(OutRing, 1, Len(OutRing)) = OutRing
  BY <1>1, SubSeqFull
<1>6. cpGot' = cpGot \o OutRing /\ ot' = oh
  BY <1>1, <1>4, <1>5 DEF onedram_fmt_send_cmd
<1>7. QED BY <1>2, <1>6, OutEmpty

\* The AP writes the next byte.
LEMMA OutWrite ==
  ASSUME OutOK, ApWrite
  PROVE  OutOK'
<1> DEFINE D == 0 .. MaxOut
           x == apSent + 1
<1>1. OutRing \in Seq(D) /\ Len(OutRing) = Filled(oh, ot)
  BY OutFacts DEF OutOK
<1>2. outbuf \in Bufs(D) /\ oh \in Index /\ ot \in Index /\ cpGot \in Seq(D) /\ apSent \in D
  BY DEF OutOK, OutType
<1>3. x \in D /\ apSent' = x /\ ot' = ot /\ cpGot' = cpGot /\ oh' = (oh + 1) % FmtSize
  BY <1>2, RingSizes DEF ApWrite
<1>4. Filled(oh, ot) \in Nat
  BY <1>2, FilledCounts
<1>5. Filled(oh, ot) + 1 <= Least(Burst, FmtSize - 1) /\ Filled(oh, ot) + 1 < FmtSize
  BY <1>1, <1>4, RingSizes DEF ApWrite, Least
<1>6. oh' \in Index /\ Filled(oh', ot') = Filled(oh, ot) + 1
  BY <1>2, <1>3, <1>5, HeadAdvances
<1>7. outbuf' = [outbuf EXCEPT ![oh] = x]
  BY DEF ApWrite
<1> HIDE DEF D, x
<1>16. [outbuf EXCEPT ![oh] = x] = Put(outbuf, oh, <<x>>)
  BY <1>2, <1>3, PutOne
<1>8. <<x>> \in Seq(D) /\ Len(<<x>>) = 1
  BY <1>3
<1>9. Put(outbuf, oh, <<x>>) \in Bufs(D)
      /\ Ring(Put(outbuf, oh, <<x>>), (oh + 1) % FmtSize, ot) = Ring(outbuf, oh, ot) \o <<x>>
  <2>1. PICK bs \in Seq(D) : bs = <<x>>
    BY <1>8
  <2>2. Len(bs) = 1 /\ Filled(oh, ot) + Len(bs) < FmtSize
    BY <1>5, <1>8, <2>1
  <2>3. Put(outbuf, oh, bs) \in Bufs(D)
        /\ Joins(Ring(Put(outbuf, oh, bs), (oh + Len(bs)) % FmtSize, ot), Ring(outbuf, oh, ot), bs)
    BY <1>2, <2>2, PutJoins
  <2>4. QED BY <2>1, <2>2, <2>3 DEF Joins
<1>10. outbuf' \in Bufs(D) /\ OutRing' = OutRing \o <<x>>
  BY <1>3, <1>7, <1>9, <1>16 DEF OutRing
<1>11. cpGot' \o OutRing' = (cpGot \o OutRing) \o <<x>>
  BY <1>1, <1>2, <1>3, <1>8, <1>10, ConcatAssociative
<1>12. cpGot \o OutRing = [i \in 1 .. apSent |-> i]
  BY DEF OutOK, OutType, OutStream
<1>13. [i \in 1 .. apSent |-> i] \o <<x>> = [i \in 1 .. x |-> i]
  BY <1>2 DEF x, D
<1>14. OutStream'
  BY <1>3, <1>11, <1>12, <1>13 DEF OutStream
<1>15. QED BY <1>2, <1>3, <1>5, <1>6, <1>10, <1>14 DEF OutOK, OutType, D

\* The same for any size of the socket buffer, where only the types are kept
\* when it is too small.
LEMMA SideSame ==
  ASSUME OutSide, UNCHANGED <<outbuf, oh, ot, cpGot, apSent>>
  PROVE  OutSide'
<1>1. OutType'
  BY DEF OutSide, OutType
<1>2. SocketTakesAll => OutOK'
  BY OutSame DEF OutSide
<1>3. QED BY <1>1, <1>2 DEF OutSide, SocketTakesAll

LEMMA SideEmpty ==
  ASSUME OutSide, cpGot' = cpGot \o OutRing, ot' = oh', oh' \in Index,
         UNCHANGED <<outbuf, apSent>>
  PROVE  OutSide'
<1>1. OutType'
  BY DEF OutSide, OutType
<1>2. SocketTakesAll => OutOK'
  BY OutEmpty DEF OutSide
<1>3. QED BY <1>1, <1>2 DEF OutSide, SocketTakesAll

LEMMA SideSend ==
  ASSUME OutSide, onedram_fmt_send_cmd, UNCHANGED <<outbuf, oh, apSent>>
  PROVE  OutSide'
<1>1. \A x \in Nat : (ot + x) % FmtSize \in Index
  BY RingSizes DEF OutSide, OutType, Index
<1>2. Taken.rest \in Nat
  <2> DEFINE c1 == Chunk(oh, ot)
             c2 == Chunk(oh, (ot + c1) % FmtSize)
  <2>1. c1 \in Nat
    BY RingSizes DEF OutSide, OutType, Index, Chunk
  <2>2. (ot + c1) % FmtSize \in Index /\ oh \in Index
    BY <1>1, <2>1 DEF OutSide, OutType
  <2>3. \A t \in Index : Chunk(oh, t) \in Nat
    BY <2>2, RingSizes DEF Index, Chunk
  <2>4. c2 \in Nat
    BY <2>2, <2>3
  <2>5. Taken = CASE c1 >= SocketMax -> [n |-> SocketMax, rest |-> c1]
       [] c1 < SocketMax /\ c1 + c2 >= SocketMax -> [n |-> SocketMax, rest |-> c1 + c2]
       [] OTHER -> [n |-> c1 + c2, rest |-> c1 + c2]
    BY DEF Taken
  <2> HIDE DEF c1, c2
  <2>6. QED BY <2>1, <2>4, <2>5, RingSizes
<1>3. OutType'
  BY <1>1, <1>2 DEF OutSide, OutType, onedram_fmt_send_cmd
<1>4. SocketTakesAll => OutOK'
  BY OutSend DEF OutSide
<1>5. QED BY <1>3, <1>4 DEF OutSide, SocketTakesAll

LEMMA SideWrite ==
  ASSUME OutSide, ApWrite
  PROVE  OutSide'
<1>1. SocketTakesAll => OutOK'
  BY OutWrite DEF OutSide
<1>2. outbuf' \in Bufs(0 .. MaxOut) /\ apSent' \in 0 .. MaxOut
  BY RingSizes DEF OutSide, OutType, ApWrite, Bufs
<1>3. (oh + 1) % FmtSize \in Index
  BY RingSizes DEF OutSide, OutType, Index
<1>4. OutType'
  BY <1>2, <1>3 DEF OutSide, OutType, ApWrite
<1>5. QED BY <1>1, <1>4 DEF OutSide, SocketTakesAll

-----------------------------------------------------------------------------
(***************************************************************************)
(* The ring to the AP.                                                     *)
(***************************************************************************)
LEMMA InFacts ==
  ASSUME InOK
  PROVE  /\ InRing \in Seq(0 .. MaxIn) /\ Len(InRing) = Filled(ih, it)
         /\ InRing = <<>> <=> ih = it
<1>1. inbuf \in Bufs(0 .. MaxIn) /\ ih \in Index /\ it \in Index
  BY DEF InOK
<1>2. InRing \in Seq(0 .. MaxIn) /\ Len(InRing) = Filled(ih, it)
  BY <1>1, RingIsSeq DEF InRing
<1>3. InRing = <<>> <=> ih = it
  BY <1>1, EmptyRing DEF InRing
<1>4. QED BY <1>2, <1>3

LEMMA InSame ==
  ASSUME InOK, UNCHANGED <<inbuf, ih, it, apGot, cpSent, written, lost>>
  PROVE  InOK' /\ InRing' = InRing
BY DEF InOK, InStream, InRing, Gone

\* What has left the ring is a sequence of its bytes.
LEMMA GoneType == ASSUME InOK PROVE Gone \in Seq(0 .. MaxIn)
BY ConcatProperties DEF InOK, Gone

\* An empty ring after everything has come out of it.
LEMMA InEmpty ==
  ASSUME InOK, it' = ih', ih' \in Index,
         \/ apGot' = apGot \o InRing /\ lost' = lost
         \/ lost' = lost \o InRing /\ apGot = <<>> /\ apGot' = <<>>,
         UNCHANGED <<inbuf, cpSent, written>>
  PROVE  InOK' /\ InRing' = <<>>
<1>1. /\ InRing \in Seq(0 .. MaxIn) /\ apGot \in Seq(0 .. MaxIn) /\ lost \in Seq(0 .. MaxIn)
      /\ Gone \in Seq(0 .. MaxIn)
  BY InFacts, GoneType DEF InOK
<1>2. /\ apGot' \in Seq(0 .. MaxIn) /\ lost' \in Seq(0 .. MaxIn)
      /\ Gone' = Gone \o InRing
  <2>1. CASE apGot' = apGot \o InRing /\ lost' = lost
    <3>1. (lost \o apGot) \o InRing = lost \o (apGot \o InRing)
      <4> DEFINE D == 0 .. MaxIn
      <4>1. lost \in Seq(D) /\ apGot \in Seq(D) /\ InRing \in Seq(D)
        BY <1>1
      <4> HIDE DEF D
      <4>2. \A x, y, z \in Seq(D) : (x \o y) \o z = x \o (y \o z)
        BY ConcatAssociative
      <4>3. QED BY <4>1, <4>2
    <3>2. apGot \o InRing \in Seq(0 .. MaxIn)
      BY <1>1, ConcatProperties
    <3>3. QED BY <1>1, <2>1, <3>1, <3>2 DEF Gone
  <2>2. CASE lost' = lost \o InRing /\ apGot = <<>> /\ apGot' = <<>>
    <3>1. lost \o InRing \in Seq(0 .. MaxIn)
      BY <1>1, ConcatProperties
    <3>2. (lost \o InRing) \o <<>> = lost \o InRing /\ lost \o <<>> = lost
      BY <1>1, <3>1, ConcatEmptySeq
    <3>3. QED BY <1>1, <2>2, <3>1, <3>2 DEF Gone
  <2>3. QED BY <2>1, <2>2
<1>3. inbuf' \in Bufs(0 .. MaxIn)
  BY DEF InOK
<1>4. Ring(inbuf', ih', it') = <<>>
  BY <1>3, EmptyRing
<1>5. Gone' \o InRing' = Gone \o InRing
  <2>1. Gone' \in Seq(0 .. MaxIn)
    BY <1>1, <1>2, ConcatProperties
  <2>2. QED BY <2>1, <1>2, <1>4, ConcatEmptySeq DEF InRing
<1>6. InStream'
  BY <1>5 DEF InOK, InStream
<1>7. QED BY <1>2, <1>3, <1>4, <1>6 DEF InOK, InRing

\* The room onedram_write_fmt computes with the authority is what is left of
\* the ring less the byte that tells full from empty.
LEMMA RoomLeft ==
  ASSUME ih \in Index, it \in Index, sem = 0
  PROVE  Room = FmtSize - 1 - Filled(ih, it)
BY RingSizes DEF Room, InHead, InTail, Filled, Index

\* onedram_write_fmt: what it writes joins the ring at its end.
LEMMA InWrite ==
  ASSUME InOK, sem \in {0, 1}, NEW len \in 1 .. MaxIn, cpSent + len <= MaxIn,
         onedram_write_fmt(len), cpSent' = cpSent + len, UNCHANGED <<it, apGot, lost>>
  PROVE  /\ InOK'
         /\ \/ InRing' = InRing
            \/ \E w \in DataWords : onedram_send_cmd_to_pda(w)
<1> DEFINE D == 0 .. MaxIn
           ret == Least(len, Room)
<1>1. InRing \in Seq(D) /\ inbuf \in Bufs(D) /\ ih \in Index /\ it \in Index
      /\ Gone \in Seq(D) /\ apGot \in Seq(D) /\ lost \in Seq(D) /\ cpSent \in D
  BY InFacts, GoneType DEF InOK
<1>2. cpSent' \in D
  BY <1>1, RingSizes
<1>3. CASE sem = 1
  <2>1. UNCHANGED <<inbuf, ih, written>>
    BY <1>3 DEF onedram_write_fmt
  <2>2. QED BY <2>1, <1>1, <1>2 DEF InOK, InStream, InRing, Gone
<1>4. CASE sem = 0
  <2>0. PICK bs : bs = [i \in 1 .. ret |-> cpSent + i]
    OBVIOUS
  <2>1. inbuf' = Put(inbuf, ih, bs) /\ ih' = (ih + ret) % FmtSize /\ written' = written \o bs
    BY <1>4, <2>0 DEF onedram_write_fmt
  <2>2. Filled(ih, it) \in Nat /\ Filled(ih, it) \in Index /\ Room = FmtSize - 1 - Filled(ih, it)
    BY <1>1, <1>4, FilledCounts, RoomLeft
  <2>3. ret \in Nat /\ ret <= len /\ Filled(ih, it) + ret < FmtSize
    BY <2>2, RingSizes DEF Least, Index
  <2> HIDE DEF ret
  <2>4. \A i \in 1 .. ret : cpSent + i \in D
    BY <1>1, <2>3, RingSizes
  <2> HIDE DEF D
  <2>5. bs \in [1 .. ret -> D]
    BY <2>0, <2>4
  <2>6. bs \in Seq(D) /\ Len(bs) = ret
    BY <2>3, <2>5, SeqDef, LenProperties
  <2>7. Filled(ih, it) + Len(bs) < FmtSize
    BY <2>3, <2>6
  <2>8. Put(inbuf, ih, bs) \in Bufs(D)
        /\ Joins(Ring(Put(inbuf, ih, bs), (ih + Len(bs)) % FmtSize, it), Ring(inbuf, ih, it), bs)
    BY <1>1, <2>6, <2>7, PutJoins
  <2>9. ih' \in Index
    BY <1>1, <2>1, <2>3, HeadAdvances
  <2>10. inbuf' \in Bufs(D) /\ InRing' = InRing \o bs
    BY <2>1, <2>6, <2>8 DEF InRing, Joins
  <2>11. Gone' \o InRing' = (Gone \o InRing) \o bs
    <3>1. Gone' = Gone
      BY DEF Gone
    <3>2. (Gone \o InRing) \o bs = Gone \o (InRing \o bs)
      <4> HIDE DEF D
      <4>1. Gone \in Seq(D) /\ InRing \in Seq(D) /\ bs \in Seq(D)
        BY <1>1, <2>6
      <4>2. \A x, y, z \in Seq(D) : (x \o y) \o z = x \o (y \o z)
        BY ConcatAssociative
      <4>3. QED BY <4>1, <4>2
    <3>3. QED BY <3>1, <3>2, <2>10
  <2>12. InStream'
    BY <2>1, <2>11 DEF InOK, InStream
  <2>13. InOK'
    BY <1>1, <1>2, <2>9, <2>10, <2>12 DEF InOK, D
  <2>14. CASE ret = 0
    <3>1. bs = <<>>
      BY <2>6, <2>14, EmptySeq
    <3>2. InRing \o <<>> = InRing
      BY <1>1, ConcatEmptySeq
    <3>3. QED BY <2>10, <2>13, <3>1, <3>2
  <2>15. CASE ret > 0
    <3>1. DataWord(ret, len) \in DataWords
      BY <2>3, <2>15 DEF DataWord, DataWords
    <3>2. sem' = 1 /\ onedram_send_cmd_to_pda(DataWord(ret, len))
      BY DEF onedram_write_fmt, ret
    <3>3. QED BY <2>13, <3>1, <3>2
  <2>16. QED BY <2>3, <2>14, <2>15
<1>5. QED BY <1>3, <1>4

-----------------------------------------------------------------------------
(***************************************************************************)
(* The steps.                                                              *)
(***************************************************************************)
LEMMA OneDramInitInv == OneDramInit => OneDramInv
<1> SUFFICES ASSUME OneDramInit PROVE OneDramInv
  OBVIOUS
<1>1. ControlOK
  <2>1. sem \in {0, 1} /\ mbx_ab \in Words /\ sem_retry \in 0 .. 2 * Retry
        /\ ap \in {"off", "loading", "loaded", "up"}
    BY RingSizes DEF OneDramInit, Words
  <2>2. check_ab \in BOOLEAN /\ sem_timer \in BOOLEAN
        /\ bootup_timer \in BOOLEAN /\ connected \in BOOLEAN /\ bootup \in BOOLEAN
        /\ apTold \in BOOLEAN
    BY Zenon DEF OneDramInit
  <2>3. QED BY <2>1, <2>2 DEF ControlOK
<1>2. Booting /\ Quiet
  BY DEF OneDramInit, Booting, Quiet
<1>3. 0 \in Index /\ 0 \in 0 .. MaxIn /\ 0 \in 0 .. MaxOut
  BY RingSizes DEF Index
<1>4. inbuf \in Bufs(0 .. MaxIn) /\ outbuf \in Bufs(0 .. MaxOut)
  BY <1>3 DEF OneDramInit, Bufs
<1>5. InRing = <<>> /\ OutRing = <<>>
  BY <1>3, <1>4, EmptyRing DEF OneDramInit, InRing, OutRing
<1>6. InStream
  BY <1>5 DEF OneDramInit, InStream, Gone
<1>7. OutStream
  BY <1>5 DEF OneDramInit, OutStream
<1>8. Filled(oh, ot) <= Least(Burst, FmtSize - 1)
  <2>1. Filled(oh, ot) = 0
    BY <1>3, FilledCounts DEF OneDramInit
  <2>2. QED BY <2>1, RingSizes DEF Least
<1>9. InOK /\ Announced
  BY <1>3, <1>4, <1>5, <1>6 DEF OneDramInit, InOK, Announced
<1>10. OutSide
  BY <1>3, <1>4, <1>7, <1>8 DEF OneDramInit, OutSide, OutOK, OutType
<1>11. QED BY <1>1, <1>2, <1>9, <1>10 DEF OneDramInv

\* onedram_send_cmd_to_pda leaves a word of the two there could be.
LEMMA WordSent ==
  ASSUME ControlOK, NEW w \in Words, onedram_send_cmd_to_pda(w)
  PROVE  /\ mbx_ab' \in Words /\ check_ab' \in BOOLEAN
         /\ (mbx_ab' = mbx_ab \/ mbx_ab' = w)
         /\ (check_ab => UNCHANGED <<mbx_ab, check_ab>>)
         /\ (~check_ab => mbx_ab' = w /\ check_ab' = TRUE)
<1>1. CASE check_ab
  <2>1. UNCHANGED mail
    BY <1>1 DEF onedram_send_cmd_to_pda
  <2>2. QED BY <1>1, <2>1 DEF mail, ControlOK
<1>2. CASE ~check_ab
  <2>1. mbx_ab' = w /\ check_ab' = TRUE
    BY <1>2 DEF onedram_send_cmd_to_pda, WriteMbxAb
  <2>2. QED BY <1>2, <2>1
<1>3. QED BY <1>1, <1>2

\* A try to send: the ring from the AP stays or is taken, and the wait for the
\* semaphore keeps its type.
LEMMA Tried ==
  ASSUME OneDramInv, ap = "up",
         onedram_fmt_try_send_cmd \/ NotTried, UNCHANGED <<outbuf, oh, apSent>>
  PROVE  OutSide' /\ sem_timer' \in BOOLEAN /\ sem_retry' \in 0 .. 2 * Retry
<1>1. ASSUME NotTried PROVE OutSide' /\ sem_timer' \in BOOLEAN /\ sem_retry' \in 0 .. 2 * Retry
  <2>1. UNCHANGED <<cpGot, ot, sem_timer, sem_retry>>
    BY <1>1 DEF NotTried, NothingSent, wait
  <2>2. OutSide'
    BY <2>1, SideSame DEF OneDramInv
  <2>3. sem_timer' \in BOOLEAN /\ sem_retry' \in 0 .. 2 * Retry
    BY <2>1 DEF OneDramInv, ControlOK
  <2>4. QED BY <2>2, <2>3
<1>2. ASSUME onedram_fmt_try_send_cmd, sem = 1
      PROVE  OutSide' /\ sem_timer' \in BOOLEAN /\ sem_retry' \in 0 .. 2 * Retry
  <2>1. UNCHANGED <<cpGot, ot, sem_retry>> /\ sem_timer' = TRUE
    BY <1>2 DEF onedram_fmt_try_send_cmd, NothingSent
  <2>2. OutSide'
    BY <2>1, SideSame DEF OneDramInv
  <2>3. sem_timer' \in BOOLEAN
    BY <2>1
  <2>4. sem_retry' \in 0 .. 2 * Retry
    BY <2>1 DEF OneDramInv, ControlOK
  <2>5. QED BY <2>2, <2>3, <2>4
<1>3. ASSUME onedram_fmt_try_send_cmd, sem # 1
      PROVE  OutSide' /\ sem_timer' \in BOOLEAN /\ sem_retry' \in 0 .. 2 * Retry
  <2>1. onedram_fmt_send_cmd /\ UNCHANGED <<sem_timer, sem_retry>>
    BY <1>3 DEF onedram_fmt_try_send_cmd, wait
  <2>2. OutSide'
    BY <2>1, SideSend DEF OneDramInv
  <2>3. sem_timer' \in BOOLEAN /\ sem_retry' \in 0 .. 2 * Retry
    BY <2>1 DEF OneDramInv, ControlOK
  <2>4. QED BY <2>2, <2>3
<1>4. QED BY <1>1, <1>2, <1>3

\* Steps that add nothing to the ring, and leave an unread word alone.
LEMMA StillAnnounced ==
  ASSUME Announced, InRing' = InRing \/ InRing' = <<>>, UNCHANGED promptAp,
         promptAp /\ check_ab => UNCHANGED <<mbx_ab, check_ab>>,
         apTold => apTold' = TRUE
  PROVE  Announced'
BY DEF Announced

LEMMA OneDramStep ==
  ASSUME OneDramInv, OneDramNext, UNCHANGED promptAp
  PROVE  OneDramInv'
<1>0. ControlOK /\ Booting /\ Quiet /\ OutSide /\ InOK /\ Announced
  BY DEF OneDramInv
<1>1. CASE onedram_wait_semaphore
  <2>1. UNCHANGED <<sem, mail, inring, outbuf, oh, boot, ap, apTold, apSent, apGot, cpSent,
                       written, lost>>
        /\ sem_timer
    BY <1>1 DEF onedram_wait_semaphore
  <2>2. ap = "up"
    BY <1>0, <2>1 DEF Quiet
  <2>3. InOK' /\ Announced'
    BY <1>0, <2>1, InSame, StillAnnounced DEF inring, mail
  <2>4. OutSide' /\ sem_timer' \in BOOLEAN /\ sem_retry' \in 0 .. 2 * Retry
    <3>1. CASE sem_retry = 0
      <4>1. sem_timer' = FALSE /\ sem_retry' = 2 * Retry /\ UNCHANGED <<cpGot, ot>>
        BY <1>1, <3>1 DEF onedram_wait_semaphore, NothingSent
      <4>2. OutSide'
        BY <1>0, <2>1, <4>1, SideSame
      <4>3. sem_timer' \in BOOLEAN
        BY <4>1, Zenon
      <4>4. sem_retry' \in 0 .. 2 * Retry
        BY <4>1, RingSizes
      <4>5. QED BY <4>2, <4>3, <4>4
    <3>2. CASE sem_retry > 0 /\ sem = 1
      <4>1. sem_retry' = sem_retry - 1 /\ UNCHANGED <<cpGot, ot, sem_timer>>
        BY <1>1, <3>2 DEF onedram_wait_semaphore, NothingSent
      <4>2. OutSide'
        BY <1>0, <2>1, <4>1, SideSame
      <4>3. sem_retry' \in 0 .. 2 * Retry
        BY <1>0, <3>2, <4>1, RingSizes DEF ControlOK
      <4>4. QED BY <1>0, <4>1, <4>2, <4>3 DEF ControlOK
    <3>3. CASE sem_retry # 0 /\ ~(sem_retry > 0 /\ sem = 1)
      <4>1. sem_timer' = FALSE /\ sem_retry' = 2 * Retry /\ onedram_fmt_send_cmd
        BY <1>1, <3>3 DEF onedram_wait_semaphore
      <4>2. OutSide'
        BY <1>0, <2>1, <4>1, SideSend
      <4>3. sem_timer' \in BOOLEAN
        BY <4>1, Zenon
      <4>4. sem_retry' \in 0 .. 2 * Retry
        BY <4>1, RingSizes
      <4>5. QED BY <4>2, <4>3, <4>4
    <3>4. QED BY <3>1, <3>2, <3>3, Zenon
  <2>5. ControlOK'
    BY <1>0, <2>1, <2>4 DEF ControlOK, mail, boot
  <2>6. Booting' /\ Quiet'
    BY <1>0, <2>1, <2>2 DEF Booting, Quiet, mail, boot
  <2>7. QED BY <2>3, <2>4, <2>5, <2>6 DEF OneDramInv
<1>2. CASE onedram_bootup
  <2>1. bootup_timer /\ bootup_timer' = FALSE /\ (promptAp => ~check_ab)
        /\ UNCHANGED <<inbuf, outbuf, connected, wait, ap, apTold, apSent, apGot, cpSent, cpGot,
                       written>>
    BY <1>2 DEF onedram_bootup, CpTurn
  <2>2. ap # "up" /\ oh = ot /\ cpGot = <<>> /\ apGot = <<>> /\ connected
    BY <1>0, <2>1 DEF Quiet, Booting
  <2>3. 0 \in Index
    BY RingSizes DEF Index
  <2>4. \/ UNCHANGED <<ih, it, oh, ot, lost>>
        \/ ih' = 0 /\ it' = 0 /\ oh' = 0 /\ ot' = 0 /\ lost' = lost \o InRing
    BY <1>2 DEF onedram_bootup
  <2>5. oh' \in Index /\ ot' = oh' /\ cpGot' = cpGot \o OutRing
    <3>1. OutRing = <<>>
      BY <1>0, <2>2, OutFacts DEF OutSide
    <3>2. QED BY <1>0, <2>1, <2>2, <2>3, <2>4, <3>1 DEF OutSide, OutType
  <2>6. InOK' /\ (InRing' = InRing \/ InRing' = <<>>)
    <3>1. CASE UNCHANGED <<ih, it, oh, ot, lost>>
      BY <1>0, <2>1, <3>1, InSame
    <3>2. CASE ih' = 0 /\ it' = 0 /\ oh' = 0 /\ ot' = 0 /\ lost' = lost \o InRing
      BY <1>0, <2>1, <2>2, <2>3, <3>2, InEmpty
    <3>3. QED BY <2>4, <3>1, <3>2
  <2>7. OutSide' /\ Announced'
    <3>1. OutSide'
      BY <1>0, <2>1, <2>5, SideEmpty
    <3>2. QED BY <1>0, <2>1, <2>6, <3>1, StillAnnounced
  <2>8. /\ sem' \in {0, 1} /\ mbx_ab' \in Words /\ check_ab' \in BOOLEAN /\ bootup' = TRUE
    <3>1. CASE ~bootup
      <4>1. bootup' = TRUE /\ mbx_ab' = "READY_FOR_LOADING" /\ check_ab' = TRUE /\ sem' = sem
        BY <1>2, <3>1 DEF onedram_bootup, WriteMbxAb
      <4>2. QED BY <1>0, <4>1 DEF ControlOK, Words
    <3>2. CASE bootup
      <4>1. bootup' = bootup /\ sem' = 1 /\ onedram_send_cmd_to_pda("PHONE_START")
        BY <1>2, <3>2 DEF onedram_bootup
      <4>2. "PHONE_START" \in Words
        BY DEF Words
      <4>3. mbx_ab' \in Words /\ check_ab' \in BOOLEAN
        BY <1>0, <4>1, <4>2, WordSent
      <4>4. bootup' = TRUE
        BY <1>0, <3>2, <4>1 DEF ControlOK
      <4>5. QED BY <4>1, <4>3, <4>4
    <3>3. QED BY <3>1, <3>2
  <2>9. ControlOK'
    <3>1. sem_timer' \in BOOLEAN /\ sem_retry' \in 0 .. 2 * Retry /\ connected' \in BOOLEAN
          /\ ap' \in {"off", "loading", "loaded", "up"} /\ apTold' \in BOOLEAN
      BY <1>0, <2>1 DEF ControlOK, wait
    <3>2. bootup_timer' \in BOOLEAN /\ bootup' \in BOOLEAN
      BY <2>1, <2>8, Zenon
    <3>3. QED BY <2>8, <3>1, <3>2 DEF ControlOK
  <2>10. Booting'
    BY <2>1, <2>2, <2>8 DEF Booting
  <2>11. Quiet'
    BY <1>0, <2>1, <2>2, <2>5 DEF Quiet, wait
  <2>12. QED BY <2>6, <2>7, <2>9, <2>10, <2>11 DEF OneDramInv
<1>3. CASE TcpConnect
  <2>1. ~connected /\ connected' = TRUE /\ sem' = 1 /\ bootup_timer' = TRUE
        /\ UNCHANGED <<mail, inring, outring, bootup, wait, ends>>
    BY <1>3 DEF TcpConnect
  <2>2. InOK' /\ OutSide' /\ Announced'
    BY <1>0, <2>1, InSame, SideSame, StillAnnounced DEF inring, outring, ends, mail
  <2>3. ControlOK'
    <3>1. connected' \in BOOLEAN /\ bootup_timer' \in BOOLEAN
      BY <2>1, Zenon
    <3>2. sem' \in {0, 1}
      BY <2>1
    <3>3. QED BY <1>0, <2>1, <3>1, <3>2 DEF ControlOK, mail, wait, ends
  <2>4. Booting'
    BY <1>0, <2>1 DEF Booting, mail, ends
  <2>5. Quiet'
    BY <1>0, <2>1 DEF Quiet, inring, outring, wait, ends
  <2>6. QED BY <2>2, <2>3, <2>4, <2>5 DEF OneDramInv
<1>4. ASSUME NEW len \in 1 .. MaxIn, onedram_tcp_read(len) PROVE OneDramInv'
  <2>1. connected /\ (promptAp => ~check_ab) /\ cpSent + len <= MaxIn /\ onedram_write_fmt(len)
        /\ cpSent' = cpSent + len
        /\ UNCHANGED <<it, outring, boot, wait, ap, apTold, apSent, apGot, cpGot, lost>>
    BY <1>4 DEF onedram_tcp_read, CpTurn
  <2>2. OutSide'
    BY <1>0, <2>1, SideSame DEF outring
  <2>3. sem \in {0, 1}
    BY <1>0 DEF ControlOK
  <2>4. InOK' /\ Announced'
    <3>1. InOK' /\ (InRing' = InRing \/ \E w \in DataWords : onedram_send_cmd_to_pda(w))
      BY <1>0, <2>1, <2>3, InWrite
    <3>2. CASE InRing' = InRing
      BY <1>0, <2>1, <3>1, <3>2, StillAnnounced
    <3>3. CASE \E w \in DataWords : onedram_send_cmd_to_pda(w)
      <4>1. PICK w \in DataWords : onedram_send_cmd_to_pda(w)
        BY <3>3
      <4>2. w \in Words
        BY <4>1 DEF DataWords, Words
      <4>3. promptAp => mbx_ab' = w /\ check_ab' = TRUE
        BY <1>0, <2>1, <4>1, <4>2, WordSent
      <4>4. Announced'
        BY <4>1, <4>3 DEF Announced
      <4>5. QED BY <3>1, <4>4
    <3>4. QED BY <3>1, <3>2, <3>3
  <2>5. PICK w \in Words \ {"READY_FOR_LOADING", "PHONE_START"} :
          sem' = 1 /\ onedram_send_cmd_to_pda(w)
    <3>1. \A r, l : DataWord(r, l) \in Words \ {"READY_FOR_LOADING", "PHONE_START"}
      BY DEF DataWord, Words
    <3>2. QED BY <2>1, <3>1 DEF onedram_write_fmt
  <2>6. mbx_ab' \in Words /\ check_ab' \in BOOLEAN /\ (mbx_ab' = mbx_ab \/ mbx_ab' = w)
    BY <1>0, <2>5, WordSent
  <2>7. ControlOK'
    BY <1>0, <2>1, <2>5, <2>6 DEF ControlOK, boot, wait
  <2>8. Booting' /\ Quiet'
    <3>1. Quiet'
      BY <1>0, <2>1 DEF Quiet, outring, wait
    <3>2. Booting'
      BY <1>0, <2>1, <2>5, <2>6 DEF Booting, boot
    <3>3. QED BY <3>1, <3>2
  <2>9. QED BY <2>2, <2>4, <2>7, <2>8 DEF OneDramInv
<1>5. CASE ApSendFmt
  <2>1. ap = "up" /\ onedram_fmt_try_send_cmd
        /\ UNCHANGED <<sem, mail, inring, outbuf, oh, boot, ap, apTold, apSent, apGot, cpSent,
                       written, lost>>
    BY <1>5 DEF ApSendFmt
  <2>2. OutSide' /\ sem_timer' \in BOOLEAN /\ sem_retry' \in 0 .. 2 * Retry
    BY <2>1, Tried
  <2>3. InOK' /\ Announced'
    BY <1>0, <2>1, InSame, StillAnnounced DEF inring, mail
  <2>4. ControlOK'
    BY <1>0, <2>1, <2>2 DEF ControlOK, mail, boot
  <2>5. Booting' /\ Quiet'
    BY <1>0, <2>1 DEF Booting, Quiet, mail, boot
  <2>6. QED BY <2>2, <2>3, <2>4, <2>5 DEF OneDramInv
<1>6. CASE ApSmpReq \/ ApReqActive
  <2>1. PICK w \in Words \ {"PHONE_START"} :
          /\ ap = "up" /\ Autonomous /\ (sem' = 1 \/ sem' = sem)
          /\ onedram_send_cmd_to_pda(w)
          /\ UNCHANGED <<inring, outbuf, oh, boot, ap, apTold, apSent, apGot, cpSent,
                       written, lost>>
    <3>1. {"SMP_REP", "RES_ACTIVE"} \subseteq Words \ {"PHONE_START"}
      BY DEF Words
    <3>2. QED BY <1>6, <3>1 DEF ApSmpReq, ApReqActive
  <2>2. onedram_fmt_try_send_cmd \/ NotTried
    BY <2>1 DEF Autonomous
  <2>3. OutSide' /\ sem_timer' \in BOOLEAN /\ sem_retry' \in 0 .. 2 * Retry
    BY <2>1, <2>2, Tried
  <2>4. InOK' /\ InRing' = InRing
    BY <1>0, <2>1, InSame DEF inring
  <2>5. mbx_ab' \in Words /\ check_ab' \in BOOLEAN /\ (mbx_ab' = mbx_ab \/ mbx_ab' = w)
        /\ (check_ab => UNCHANGED <<mbx_ab, check_ab>>)
    BY <1>0, <2>1, WordSent
  <2>6. ControlOK'
    BY <1>0, <2>1, <2>3, <2>5 DEF ControlOK, boot
  <2>7. Booting' /\ Quiet'
    BY <1>0, <2>1, <2>5 DEF Booting, Quiet, boot
  <2>8. Announced'
    BY <1>0, <2>1, <2>4, <2>5, StillAnnounced
  <2>9. QED BY <2>3, <2>4, <2>6, <2>7, <2>8 DEF OneDramInv
<1>7. CASE ApImageLoaded
  <2>1. ap = "loading" /\ ap' = "loaded" /\ mbx_ab' = "READY" /\ check_ab' = TRUE
        /\ bootup_timer' = TRUE /\ (promptAp => ~check_ab)
        /\ UNCHANGED <<sem, inring, outring, connected, bootup, wait, apTold, apSent, apGot,
                       cpSent, cpGot, written, lost>>
    BY <1>7 DEF ApImageLoaded, WriteMbxAb, CpTurn
  <2>2. InOK' /\ OutSide' /\ Announced'
    BY <1>0, <2>1, InSame, SideSame, StillAnnounced DEF inring, outring
  <2>3. ControlOK'
    <3>1. check_ab' \in BOOLEAN /\ bootup_timer' \in BOOLEAN
      BY <2>1, Zenon
    <3>2. mbx_ab' \in Words /\ ap' \in {"off", "loading", "loaded", "up"}
      BY <2>1 DEF Words
    <3>3. QED BY <1>0, <2>1, <3>1, <3>2 DEF ControlOK, wait
  <2>4. Booting'
    BY <1>0, <2>1 DEF Booting
  <2>5. Quiet'
    BY <1>0, <2>1 DEF Quiet, inring, outring, wait
  <2>6. QED BY <2>2, <2>3, <2>4, <2>5 DEF OneDramInv
<1>8. CASE ApRead
  <2>1. check_ab' = FALSE
        /\ apTold' = (apTold \/ mbx_ab \in DataWords)
        /\ UNCHANGED <<sem, mbx_ab, inring, outring, boot, wait, apSent, apGot, cpSent, cpGot,
                       written, lost>>
    BY <1>8 DEF ApRead
  <2>2. \/ ap' = "loading" /\ ap = "off" /\ mbx_ab = "READY_FOR_LOADING"
        \/ ap' = "up" /\ ap = "loaded" /\ mbx_ab = "PHONE_START"
        \/ ap' = ap
    BY <1>8 DEF ApRead
  <2>3. InOK' /\ OutSide' /\ InRing' = InRing
    BY <1>0, <2>1, InSame, SideSame DEF inring, outring
  <2>4. ControlOK'
    <3>1. check_ab' \in BOOLEAN /\ apTold' \in BOOLEAN
      BY <2>1, Zenon
    <3>2. ap' \in {"off", "loading", "loaded", "up"}
      BY <1>0, <2>2 DEF ControlOK
    <3>3. QED BY <1>0, <2>1, <3>1, <3>2 DEF ControlOK, boot, wait
  <2>5. Booting'
    BY <1>0, <2>1, <2>2 DEF Booting, boot
  <2>6. Quiet'
    BY <1>0, <2>1, <2>2 DEF Quiet, inring, outring, wait
  <2>7. Announced'
    BY <1>0, <2>1, <2>3, Zenon DEF Announced
  <2>8. QED BY <2>3, <2>4, <2>5, <2>6, <2>7 DEF OneDramInv
<1>9. CASE ApYield
  <2>1. sem' = 0 /\ UNCHANGED <<mail, inring, outring, boot, wait, ends>>
    BY <1>9 DEF ApYield
  <2>2. InOK' /\ OutSide' /\ Announced'
    BY <1>0, <2>1, InSame, SideSame, StillAnnounced DEF inring, outring, ends, mail
  <2>3. ControlOK'
    BY <1>0, <2>1 DEF ControlOK, mail, boot, wait, ends
  <2>4. Booting' /\ Quiet'
    BY <1>0, <2>1 DEF Booting, Quiet, mail, inring, outring, boot, wait, ends
  <2>5. QED BY <2>2, <2>3, <2>4 DEF OneDramInv
<1>10. CASE ApWrite
  <2>1. ap = "up" /\ UNCHANGED <<sem, mail, inring, boot, wait, ap, apTold, apGot, cpSent,
                                  written, lost>>
    BY <1>10 DEF ApWrite
  <2>2. OutSide'
    BY <1>0, <1>10, SideWrite
  <2>3. InOK' /\ Announced'
    BY <1>0, <2>1, InSame, StillAnnounced DEF inring, mail
  <2>4. ControlOK'
    BY <1>0, <2>1 DEF ControlOK, mail, boot, wait
  <2>5. Booting' /\ Quiet'
    BY <1>0, <2>1 DEF Booting, Quiet, mail, boot
  <2>6. QED BY <2>2, <2>3, <2>4, <2>5 DEF OneDramInv
<1>11. CASE ApTake
  <2>1. ap = "up" /\ apGot' = apGot \o InRing /\ it' = ih /\ apTold' = FALSE
        /\ UNCHANGED <<sem, mail, inbuf, ih, outring, boot, wait, ap, apSent, cpSent, cpGot,
                       written, lost>>
    BY <1>11 DEF ApTake
  <2>2. InOK' /\ Announced'
    <3>1. it' = ih' /\ ih' \in Index
      BY <1>0, <2>1 DEF InOK
    <3>2. InOK' /\ InRing' = <<>>
      BY <1>0, <2>1, <3>1, InEmpty
    <3>3. QED BY <3>2 DEF Announced
  <2>3. OutSide'
    BY <1>0, <2>1, SideSame DEF outring
  <2>4. ControlOK'
    <3>1. apTold' \in BOOLEAN
      BY <2>1, Zenon
    <3>2. QED BY <1>0, <2>1, <3>1 DEF ControlOK, mail, boot, wait
  <2>5. Booting' /\ Quiet'
    BY <1>0, <2>1 DEF Booting, Quiet, mail, boot
  <2>6. QED BY <2>2, <2>3, <2>4, <2>5 DEF OneDramInv
<1>12. QED BY <1>1, <1>2, <1>3, <1>4, <1>5, <1>6, <1>7, <1>8, <1>9, <1>10, <1>11 DEF OneDramNext

LEMMA OneDramStutter ==
  ASSUME OneDramInv, UNCHANGED <<odvars, promptAp>>
  PROVE  OneDramInv'
<1>1. UNCHANGED <<sem, mail, inring, outring, boot, wait, ends>>
  BY DEF odvars
<1>2. InOK' /\ OutSide' /\ Announced'
  BY <1>1, InSame, SideSame, StillAnnounced DEF OneDramInv, inring, outring, ends, mail
<1>3. ControlOK' /\ Booting' /\ Quiet'
  BY <1>1 DEF OneDramInv, ControlOK, Booting, Quiet, mail, inring, outring, boot, wait, ends
<1>4. QED BY <1>2, <1>3 DEF OneDramInv

LEMMA OneDramInvKept == OneDramSpec => []OneDramInv
<1>1. OneDramInv /\ [OneDramNext /\ UNCHANGED promptAp]_<<odvars, promptAp>> => OneDramInv'
  BY OneDramStep, OneDramStutter
<1>2. QED BY <1>1, OneDramInitInv, PTL DEF OneDramSpec

\* The rings of hw/s5pc1xx_onedram.c, for rings of any size: as long as the AP
\* leaves no more in its ring than the socket buffer takes, each byte it writes
\* reaches the socket once and in order (onedram_fmt_send_cmd, at once or after
\* onedram_wait_semaphore).  Each byte onedram_write_fmt has put in the other
\* ring is dropped there by the reset of onedram_bootup or reaches the AP, once
\* and in order, and an AP that reads its words in time knows of it.
THEOREM OneDramStreams == OneDramSpec => [](SocketTakesAll => StreamsKept)
<1>1. OneDramInv => (SocketTakesAll => StreamsKept)
  <2> SUFFICES ASSUME OneDramInv, SocketTakesAll PROVE StreamsKept
    OBVIOUS
  <2>1. ControlOK /\ OutOK /\ InOK /\ OutType /\ Announced
    BY DEF OneDramInv, OutSide
  <2>2. OneDramTypeOK
    BY <2>1 DEF ControlOK, OutType, InOK, OneDramTypeOK, Bufs
  <2>3. QED BY <2>1, <2>2 DEF OutOK, InOK, StreamsKept
<1>2. QED BY <1>1, OneDramInvKept, PTL

\* The ring to the AP needs no such bound, whatever the AP leaves in its own
\* ring (onedram_write_fmt).
THEOREM OneDramToAp == OneDramSpec => [](OneDramTypeOK /\ InStream /\ Announced)
<1>1. OneDramInv => OneDramTypeOK /\ InStream /\ Announced
  BY DEF OneDramInv, ControlOK, OutSide, OutType, InOK, OneDramTypeOK, Bufs
<1>2. QED BY <1>1, OneDramInvKept, PTL

\* Once the AP has heard of PHONE_START nothing the modem puts in the ring is
\* dropped any more, and no byte of the AP ever is: the boot timer cannot expire
\* a second time (onedram_bootup).
ResetOnlyBoots == [][/\ ap = "up" => UNCHANGED lost
                     /\ onedram_bootup => ap # "up" /\ OutRing = <<>>]_odvars

\* onedram_bootup's reset, as above, for every interleaving of the connection,
\* the boot words and the modem's data, with a driver that uses the rings only
\* after PHONE_START.
THEOREM OneDramReset == OneDramSpec => ResetOnlyBoots
<1> DEFINE A == /\ ap = "up" => UNCHANGED lost
                /\ onedram_bootup => ap # "up" /\ OutRing = <<>>
<1>1. OneDramInv /\ [OneDramNext /\ UNCHANGED promptAp]_<<odvars, promptAp>> => [A]_odvars
  <2> SUFFICES ASSUME OneDramInv, OneDramNext PROVE A
    BY DEF odvars
  <2>1. ASSUME onedram_bootup PROVE ap # "up" /\ OutRing = <<>>
    <3>1. ap # "up" /\ oh = ot
      BY <2>1 DEF OneDramInv, onedram_bootup, Booting, Quiet
    <3>2. QED BY <3>1, OutFacts DEF OneDramInv, OutSide
  <2>2. ASSUME ~onedram_bootup PROVE UNCHANGED lost
    BY <2>2 DEF OneDramNext, onedram_wait_semaphore, TcpConnect, onedram_tcp_read, ApSendFmt,
         ApSmpReq, ApReqActive, ApImageLoaded, ApRead, ApYield, ApWrite, ApTake, ends
  <2>3. QED BY <2>1, <2>2
<1>2. QED BY <1>1, OneDramInvKept, PTL DEF OneDramSpec, ResetOnlyBoots
=============================================================================
