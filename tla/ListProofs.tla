----------------------------- MODULE ListProofs -----------------------------
(***************************************************************************)
(* What the operations on lists do to the objects on them.                 *)
(***************************************************************************)
EXTENDS Lists, Integers, SequenceTheorems, NaturalsInduction, WellFoundedInduction, TLAPS

LEMMA ListType ==
  ASSUME NEW A, NEW s \in Seq(A)
  PROVE  /\ Len(s) \in Nat /\ DOMAIN s = 1 .. Len(s)
         /\ \A n \in 1 .. Len(s) : s[n] \in A
         /\ Elements(s) \subseteq A
         /\ s = <<>> <=> Len(s) = 0
         /\ s = <<>> <=> Elements(s) = {}
<1>1. Len(s) \in Nat /\ DOMAIN s = 1 .. Len(s) /\ \A n \in 1 .. Len(s) : s[n] \in A
  BY LenProperties
<1>2. Elements(s) \subseteq A
  BY <1>1 DEF Elements
<1>3. s = <<>> <=> Len(s) = 0
  BY EmptySeq
<1>4. Len(s) = 0 <=> Elements(s) = {}
  <2>1. ASSUME Len(s) = 0 PROVE Elements(s) = {}
    BY <2>1, <1>1 DEF Elements
  <2>2. ASSUME Len(s) # 0 PROVE Elements(s) # {}
    <3>1. 1 \in 1 .. Len(s)
      BY <2>2, <1>1
    <3>2. QED BY <3>1, <1>1 DEF Elements
  <2>3. QED BY <2>1, <2>2
<1>5. QED BY <1>1, <1>2, <1>3, <1>4

LEMMA Prepended ==
  ASSUME NEW A, NEW s \in Seq(A), NEW a \in A, a \notin Elements(s), NoRepeat(s)
  PROVE  /\ <<a>> \o s \in Seq(A) /\ NoRepeat(<<a>> \o s)
         /\ Elements(<<a>> \o s) = Elements(s) \cup {a}
<1> DEFINE t == <<a>> \o s
<1>1. <<a>> \in Seq(A) /\ Len(<<a>>) = 1 /\ <<a>>[1] = a
  OBVIOUS
<1>2. Len(s) \in Nat /\ DOMAIN s = 1 .. Len(s)
  BY ListType
<1>3. /\ t \in Seq(A) /\ Len(t) = 1 + Len(s)
      /\ \A i \in 1 .. 1 + Len(s) : t[i] = IF i <= 1 THEN <<a>>[i] ELSE s[i - 1]
  BY <1>1, ConcatProperties
<1>4. DOMAIN t = 1 .. 1 + Len(s)
  BY <1>3, ListType
<1> HIDE DEF t
<1>5. t[1] = a /\ \A i \in 2 .. 1 + Len(s) : t[i] = s[i - 1] /\ i - 1 \in 1 .. Len(s)
  BY <1>1, <1>2, <1>3
<1>6. \A i \in 1 .. Len(s) : s[i] = t[i + 1] /\ i + 1 \in 2 .. 1 + Len(s)
  <2> TAKE i \in 1 .. Len(s)
  <2>1. i + 1 \in 2 .. 1 + Len(s) /\ (i + 1) - 1 = i
    BY <1>2
  <2>2. QED BY <2>1, <1>5
<1>7. \A x : x \in Elements(t) <=> x \in Elements(s) \/ x = a
  <2>1. \A x : x \in Elements(t) => x \in Elements(s) \/ x = a
    BY <1>2, <1>4, <1>5 DEF Elements
  <2>2. a \in Elements(t)
    BY <1>2, <1>4, <1>5 DEF Elements
  <2>3. \A x : x \in Elements(s) => x \in Elements(t)
    BY <1>2, <1>4, <1>6 DEF Elements
  <2>4. QED BY <2>1, <2>2, <2>3
<1>8. \A i \in 1 .. Len(s) : s[i] # a
  BY <1>2 DEF Elements
<1>9. NoRepeat(t)
  BY <1>2, <1>4, <1>5, <1>8 DEF NoRepeat
<1>10. QED BY <1>3, <1>7, <1>9 DEF t

LEMMA Appends ==
  ASSUME NEW A, NEW s \in Seq(A), NEW a \in A, a \notin Elements(s), NoRepeat(s)
  PROVE  /\ Append(s, a) \in Seq(A) /\ NoRepeat(Append(s, a))
         /\ Elements(Append(s, a)) = Elements(s) \cup {a}
         /\ Len(Append(s, a)) = Len(s) + 1
<1> DEFINE t == Append(s, a)
<1>1. Len(s) \in Nat /\ DOMAIN s = 1 .. Len(s)
  BY ListType
<1>2. /\ t \in Seq(A) /\ Len(t) = Len(s) + 1
      /\ \A i \in 1 .. Len(s) : t[i] = s[i]
      /\ t[Len(s) + 1] = a
  BY AppendProperties
<1>3. DOMAIN t = 1 .. Len(s) + 1
  BY <1>2, ListType
<1> HIDE DEF t
<1>4. \A i \in 1 .. Len(s) : s[i] # a
  BY <1>1 DEF Elements
<1>5. \A x : x \in Elements(t) <=> x \in Elements(s) \/ x = a
  <2>1. \A i \in 1 .. Len(s) + 1 : i \in 1 .. Len(s) \/ i = Len(s) + 1
    BY <1>1
  <2>2. \A i \in 1 .. Len(s) : i \in 1 .. Len(s) + 1
    BY <1>1
  <2>3. Len(s) + 1 \in 1 .. Len(s) + 1
    BY <1>1
  <2>4. QED BY <1>1, <1>2, <1>3, <2>1, <2>2, <2>3 DEF Elements
<1>6. NoRepeat(t)
  BY <1>1, <1>2, <1>3, <1>4 DEF NoRepeat
<1>7. QED BY <1>2, <1>5, <1>6 DEF t

LEMMA Tails ==
  ASSUME NEW A, NEW s \in Seq(A), s # <<>>, NoRepeat(s)
  PROVE  /\ Head(s) \in Elements(s) /\ Head(s) \in A
         /\ Tail(s) \in Seq(A) /\ NoRepeat(Tail(s))
         /\ Elements(Tail(s)) = Elements(s) \ {Head(s)}
         /\ Len(Tail(s)) = Len(s) - 1
<1> DEFINE t == Tail(s)
           h == Head(s)
<1>1. Len(s) \in Nat /\ DOMAIN s = 1 .. Len(s) /\ Len(s) >= 1
  BY ListType
<1>2. h = s[1]
  OBVIOUS
<1>3. /\ t \in Seq(A) /\ Len(t) = Len(s) - 1
      /\ \A i \in 1 .. Len(t) : t[i] = s[i + 1]
  BY HeadTailProperties
<1>4. DOMAIN t = 1 .. Len(s) - 1
  BY <1>3, ListType
<1> HIDE DEF t, h
<1>5. \A i \in 2 .. Len(s) : s[i] = t[i - 1] /\ i - 1 \in 1 .. Len(s) - 1 /\ s[i] # h
  BY <1>1, <1>2, <1>3 DEF NoRepeat
<1>6. h \in Elements(s) /\ h \in A
  BY <1>1, <1>2, ListType DEF Elements
<1>7. \A x : x \in Elements(t) <=> x \in Elements(s) /\ x # h
  <2>1. \A i \in 1 .. Len(s) - 1 : i + 1 \in 2 .. Len(s) /\ t[i] = s[i + 1] /\ i + 1 \in 1 .. Len(s)
    BY <1>1, <1>3
  <2>2. \A x : x \in Elements(t) => x \in Elements(s) /\ x # h
    BY <2>1, <1>1, <1>4, <1>5 DEF Elements
  <2>3. \A i \in 1 .. Len(s) : i = 1 \/ i \in 2 .. Len(s)
    BY <1>1
  <2>4. \A x : x \in Elements(s) /\ x # h => x \in Elements(t)
    BY <2>3, <1>1, <1>2, <1>4, <1>5 DEF Elements
  <2>5. QED BY <2>2, <2>4
<1>8. NoRepeat(t)
  <2>1. \A i \in DOMAIN t : i \in Int /\ i + 1 \in DOMAIN s /\ t[i] = s[i + 1]
    BY <1>1, <1>3, <1>4
  <2>2. \A i, j \in DOMAIN t : t[i] = t[j] => i + 1 = j + 1
    BY <2>1 DEF NoRepeat
  <2>3. \A i, j \in DOMAIN t : i + 1 = j + 1 => i = j
    BY <2>1
  <2>4. QED BY <2>2, <2>3 DEF NoRepeat
<1>9. QED BY <1>3, <1>6, <1>7, <1>8 DEF t, h

\* An object is taken out.
LEMMA Removed ==
  ASSUME NEW A, NEW s \in Seq(A), NEW a, NoRepeat(s)
  PROVE  /\ Without(s, a) \in Seq(A) /\ NoRepeat(Without(s, a))
         /\ Elements(Without(s, a)) = Elements(s) \ {a}
         /\ Len(Without(s, a)) <= Len(s)
<1> DEFINE t == Without(s, a)
<1>1. Len(s) \in Nat /\ DOMAIN s = 1 .. Len(s) /\ \A n \in 1 .. Len(s) : s[n] \in A
  BY ListType
<1>2. CASE a \notin Elements(s)
  BY <1>1, <1>2 DEF Without
<1>3. CASE a \in Elements(s)
  <2> DEFINE P(n) == s[n] = a /\ \A m \in 1 .. n - 1 : s[m] # a
             at == CHOOSE n \in DOMAIN s : P(n)
  <2>1. \E n \in DOMAIN s : P(n)
    <3>1. PICK n \in DOMAIN s : s[n] = a
      BY <1>3 DEF Elements
    <3>2. \A m \in 1 .. n - 1 : m \in DOMAIN s /\ m # n
      BY <1>1
    <3>3. \A m \in 1 .. n - 1 : s[m] # a
      BY <3>1, <3>2 DEF NoRepeat
    <3>4. QED BY <3>1, <3>3
  <2>2. at \in 1 .. Len(s) /\ s[at] = a
    BY <2>1, <1>1
  <2>3. t = [n \in 1 .. Len(s) - 1 |-> IF n < at THEN s[n] ELSE s[n + 1]]
    BY <1>3 DEF Without
  <2> HIDE DEF at
  <2>4. t \in [1 .. Len(s) - 1 -> A]
    BY <2>2, <2>3, <1>1
  <2>5. Len(s) - 1 \in Nat
    BY <2>2, <1>1
  <2>6. t \in Seq(A) /\ Len(t) = Len(s) - 1
    BY <2>4, <2>5, SeqDef
  <2>7. DOMAIN t = 1 .. Len(s) - 1
    BY <2>4
  <2>8. \A i \in 1 .. Len(s) - 1 : t[i] = IF i < at THEN s[i] ELSE s[i + 1]
    BY <2>3
  <2> HIDE DEF t
  <2>9. NoRepeat(t)
    <3> DEFINE ix(i) == IF i < at THEN i ELSE i + 1
    <3>1. \A i \in DOMAIN t : ix(i) \in DOMAIN s /\ t[i] = s[ix(i)]
      BY <2>2, <2>7, <2>8, <1>1
    <3>2. \A i, j \in DOMAIN t : ix(i) = ix(j) => i = j
      BY <2>2, <2>7, <1>1
    <3> HIDE DEF ix
    <3>3. QED BY <3>1, <3>2 DEF NoRepeat
  <2>10. \A x : x \in Elements(t) => x \in Elements(s) /\ x # a
    <3>1. \A i \in 1 .. Len(s) - 1 : i < at => i \in 1 .. Len(s) /\ i # at
      BY <2>2, <1>1
    <3>2. \A i \in 1 .. Len(s) - 1 : ~(i < at) => i + 1 \in 1 .. Len(s) /\ i + 1 # at
      BY <2>2, <1>1
    <3>3. \A i \in 1 .. Len(s) - 1 : \E j \in 1 .. Len(s) : j # at /\ t[i] = s[j]
      BY <3>1, <3>2, <2>8
    <3>4. QED BY <3>3, <2>2, <2>7, <1>1 DEF Elements, NoRepeat
  <2>11. \A x : x \in Elements(s) /\ x # a => x \in Elements(t)
    <3>1. \A j \in 1 .. Len(s) : j < at => j \in 1 .. Len(s) - 1 /\ t[j] = s[j]
      BY <2>2, <2>8, <1>1
    <3>2. \A j \in 1 .. Len(s) : j > at => j - 1 \in 1 .. Len(s) - 1 /\ t[j - 1] = s[j]
      <4> TAKE j \in 1 .. Len(s)
      <4> HAVE j > at
      <4>1. j - 1 \in 1 .. Len(s) - 1 /\ ~(j - 1 < at) /\ (j - 1) + 1 = j
        BY <2>2, <1>1
      <4>2. QED BY <4>1, <2>8
    <3>3. \A j \in 1 .. Len(s) : j < at \/ j > at \/ s[j] = a
      BY <2>2, <1>1
    <3>4. QED BY <3>1, <3>2, <3>3, <2>7, <1>1 DEF Elements
  <2>12. QED BY <2>6, <2>9, <2>10, <2>11, <1>1 DEF t
<1>4. QED BY <1>2, <1>3

\* A set of natural numbers that holds one holds a least one.
LEMMA LeastOf ==
  ASSUME NEW S \in SUBSET Nat, S # {}
  PROVE  \E x \in S : \A y \in S : x <= y
<1> DEFINE R == {ss \in Nat \X Nat : ss[1] < ss[2]}
<1>1. IsWellFoundedOn(R, Nat)
  BY NatLessThanWellFounded, Zenon DEF OpToRel
<1> HIDE DEF R
<1>2. PICK x \in S : \A y \in S : <<y, x>> \notin R
  BY <1>1, WFMin
<1>3. \A y \in S : x <= y
  <2> SUFFICES ASSUME NEW y \in S, y < x PROVE FALSE
    BY SMT
  <2>1. <<y, x>> \in Nat \X Nat /\ <<y, x>>[1] < <<y, x>>[2]
    BY SMT
  <2>2. <<y, x>> \in R
    BY <2>1, Zenon DEF R
  <2>3. QED BY <1>2, <2>2, Zenon
<1>4. QED BY <1>3

-----------------------------------------------------------------------------
(***************************************************************************)
(* Lists kept in order.                                                    *)
(***************************************************************************)

\* t holds some of the objects of s, in the same order.
Sublist(t, s) ==
  \E f \in [1 .. Len(t) -> 1 .. Len(s)] :
    /\ \A i \in 1 .. Len(t) : t[i] = s[f[i]]
    /\ \A i, j \in 1 .. Len(t) : i < j => f[i] < f[j]

\* The objects of s come in the order of x.
InOrder(s, x) == \A i, j \in DOMAIN s : i < j => x[s[i]] <= x[s[j]]

LEMMA SublistInOrder ==
  ASSUME NEW A, NEW s \in Seq(A), NEW t \in Seq(A), NEW x, \A b \in A : x[b] \in Int,
         Sublist(t, s), InOrder(s, x)
  PROVE  /\ InOrder(t, x)
         /\ t # <<>> => s # <<>> /\ x[s[1]] <= x[t[1]]
<1>1. /\ Len(s) \in Nat /\ DOMAIN s = 1 .. Len(s) /\ \A n \in 1 .. Len(s) : s[n] \in A
      /\ Len(t) \in Nat /\ DOMAIN t = 1 .. Len(t)
      /\ (s = <<>> <=> Len(s) = 0) /\ (t = <<>> <=> Len(t) = 0)
  BY ListType
<1>2. PICK f \in [1 .. Len(t) -> 1 .. Len(s)] :
        /\ \A i \in 1 .. Len(t) : t[i] = s[f[i]]
        /\ \A i, j \in 1 .. Len(t) : i < j => f[i] < f[j]
  BY DEF Sublist
<1>3. InOrder(t, x)
  BY <1>1, <1>2 DEF InOrder
<1>4. ASSUME t # <<>> PROVE s # <<>> /\ x[s[1]] <= x[t[1]]
  <2>1. 1 \in 1 .. Len(t) /\ f[1] \in 1 .. Len(s) /\ t[1] = s[f[1]]
    BY <1>1, <1>2, <1>4
  <2>2. 1 \in 1 .. Len(s) /\ Len(s) # 0
    BY <2>1, <1>1
  <2>3. CASE f[1] = 1
    BY <2>1, <2>2, <2>3, <1>1
  <2>4. CASE f[1] # 1
    <3>1. 1 < f[1]
      BY <2>1, <2>4, <1>1
    <3>2. QED BY <3>1, <2>1, <2>2, <1>1 DEF InOrder
  <2>5. QED BY <2>3, <2>4
<1>5. QED BY <1>3, <1>4

LEMMA TailIsSublist ==
  ASSUME NEW A, NEW s \in Seq(A), s # <<>>
  PROVE  Sublist(Tail(s), s)
<1>1. Len(s) \in Nat /\ Len(s) >= 1
  BY ListType
<1>2. Len(Tail(s)) = Len(s) - 1 /\ \A i \in 1 .. Len(s) - 1 : Tail(s)[i] = s[i + 1]
  BY HeadTailProperties, <1>1
<1> DEFINE f == [i \in 1 .. Len(s) - 1 |-> i + 1]
<1>3. f \in [1 .. Len(s) - 1 -> 1 .. Len(s)]
  BY <1>1
<1>4. \A i \in 1 .. Len(s) - 1 : Tail(s)[i] = s[f[i]]
  BY <1>2
<1>5. \A i, j \in 1 .. Len(s) - 1 : i < j => f[i] < f[j]
  BY <1>1
<1> DEFINE t == Tail(s)
<1> HIDE DEF f, t
<1>6. Sublist(t, s)
  BY <1>2, <1>3, <1>4, <1>5 DEF Sublist, t
<1>7. QED BY <1>6 DEF t

LEMMA WithoutIsSublist ==
  ASSUME NEW A, NEW s \in Seq(A), NEW a, NoRepeat(s)
  PROVE  Sublist(Without(s, a), s)
<1>1. Len(s) \in Nat /\ DOMAIN s = 1 .. Len(s) /\ \A n \in 1 .. Len(s) : s[n] \in A
  BY ListType
<1>2. CASE a \notin Elements(s)
  <2> DEFINE f == [i \in 1 .. Len(s) |-> i]
  <2>1. f \in [1 .. Len(s) -> 1 .. Len(s)]
    BY <1>1
  <2>2. QED BY <1>1, <1>2, <2>1 DEF Without, Sublist
<1>3. CASE a \in Elements(s)
  <2> DEFINE P(n) == s[n] = a /\ \A m \in 1 .. n - 1 : s[m] # a
             at == CHOOSE n \in DOMAIN s : P(n)
             t == Without(s, a)
             f == [n \in 1 .. Len(s) - 1 |-> IF n < at THEN n ELSE n + 1]
  <2>1. \E n \in DOMAIN s : P(n)
    <3>1. PICK n \in DOMAIN s : s[n] = a
      BY <1>3 DEF Elements
    <3>2. \A m \in 1 .. n - 1 : m \in DOMAIN s /\ m # n
      BY <1>1
    <3>3. \A m \in 1 .. n - 1 : s[m] # a
      BY <3>1, <3>2 DEF NoRepeat
    <3>4. QED BY <3>1, <3>3
  <2>2. at \in 1 .. Len(s)
    BY <2>1, <1>1
  <2>3. t = [n \in 1 .. Len(s) - 1 |-> IF n < at THEN s[n] ELSE s[n + 1]]
    BY <1>3 DEF Without
  <2> HIDE DEF at
  <2>4. Len(s) - 1 \in Nat /\ t \in [1 .. Len(s) - 1 -> A]
    BY <2>2, <2>3, <1>1
  <2>5. Len(t) = Len(s) - 1
    BY <2>4, SeqDef
  <2>6. f \in [1 .. Len(s) - 1 -> 1 .. Len(s)]
    BY <2>2, <1>1
  <2>7. \A i \in 1 .. Len(s) - 1 : t[i] = s[f[i]]
    BY <2>3
  <2>8. \A i, j \in 1 .. Len(s) - 1 : i < j => f[i] < f[j]
    BY <2>2, <1>1
  <2> HIDE DEF t, f
  <2>9. Sublist(t, s)
    BY <2>5, <2>6, <2>7, <2>8 DEF Sublist
  <2>10. QED BY <2>9 DEF t
<1>4. QED BY <1>2, <1>3

\* A list in order has a place for an object due at e: after those due no later.
LEMMA PlaceFound ==
  ASSUME NEW A, NEW s \in Seq(A), NEW x, \A b \in A : x[b] \in Int, NEW e \in Int
  PROVE  \E n \in 0 .. Len(s) : /\ \A i \in 1 .. n : x[s[i]] <= e
                                /\ n < Len(s) => x[s[n + 1]] > e
<1>1. Len(s) \in Nat /\ \A n \in 1 .. Len(s) : s[n] \in A /\ x[s[n]] \in Int
  BY ListType
<1> DEFINE S == {n \in 0 .. Len(s) : n < Len(s) => x[s[n + 1]] > e}
<1>2. S \in SUBSET Nat /\ Len(s) \in S
  BY <1>1
<1>3. PICK n \in S : \A m \in S : n <= m
  BY <1>2, LeastOf
<1>4. ASSUME NEW i \in 1 .. n PROVE x[s[i]] <= e
  <2>1. i - 1 \in 0 .. Len(s) /\ i - 1 < n /\ i - 1 < Len(s) /\ (i - 1) + 1 = i /\ i \in 1 .. Len(s)
    BY <1>1, <1>3
  <2>2. i - 1 \notin S
    BY <2>1, <1>1, <1>3
  <2>3. ~(x[s[i]] > e)
    BY <2>1, <2>2
  <2>4. QED BY <2>1, <2>3, <1>1
<1>5. QED BY <1>3, <1>4

LEMMA InsertedAt ==
  ASSUME NEW A, NEW s \in Seq(A), NEW a \in A, NEW n \in 0 .. Len(s)
  PROVE  /\ Inserted(s, n, a) \in Seq(A) /\ Len(Inserted(s, n, a)) = Len(s) + 1
         /\ \A i \in 1 .. n : Inserted(s, n, a)[i] = s[i]
         /\ Inserted(s, n, a)[n + 1] = a
         /\ \A i \in n + 2 .. Len(s) + 1 : Inserted(s, n, a)[i] = s[i - 1]
<1> DEFINE l == Len(s)
           u == SubSeq(s, 1, n)
           v == SubSeq(s, n + 1, l)
           t == u \o <<a>> \o v
<1>1. l \in Nat /\ s \in Seq(A) /\ n \in 0 .. l
  BY ListType
<1>2. u \in Seq(A) /\ Len(u) = n /\ \A i \in 1 .. n : u[i] = s[i]
  BY <1>1
<1>3. v \in Seq(A) /\ Len(v) = l - n /\ \A i \in 1 .. l - n : v[i] = s[n + i]
  BY <1>1
<1> HIDE DEF u, v, l
<1>4. /\ u \o <<a>> \in Seq(A) /\ Len(u \o <<a>>) = n + 1
      /\ \A i \in 1 .. n : (u \o <<a>>)[i] = s[i]
      /\ (u \o <<a>>)[n + 1] = a
  BY <1>1, <1>2
<1> DEFINE w == u \o <<a>>
<1> HIDE DEF w
<1>5. /\ w \o v \in Seq(A) /\ Len(w \o v) = (n + 1) + (l - n)
      /\ \A i \in 1 .. n + 1 : (w \o v)[i] = w[i]
      /\ \A i \in 1 .. l - n : (w \o v)[n + 1 + i] = v[i]
  <2>1. w \in Seq(A) /\ Len(w) = n + 1 /\ v \in Seq(A) /\ Len(v) = l - n
    BY <1>3, <1>4 DEF w
  <2>2. /\ w \o v \in Seq(A) /\ Len(w \o v) = Len(w) + Len(v)
        /\ \A i \in 1 .. Len(w) + Len(v) :
             (w \o v)[i] = IF i <= Len(w) THEN w[i] ELSE v[i - Len(w)]
    BY <2>1, ConcatProperties
  <2>3. \A i \in 1 .. n + 1 : i \in 1 .. (n + 1) + (l - n) /\ i <= n + 1
    BY <1>1
  <2>4. \A i \in 1 .. l - n : /\ n + 1 + i \in 1 .. (n + 1) + (l - n)
                             /\ ~(n + 1 + i <= n + 1) /\ (n + 1 + i) - (n + 1) = i
    BY <1>1
  <2>5. QED BY <2>1, <2>2, <2>3, <2>4
<1>6. \A i \in n + 2 .. l + 1 : (w \o v)[i] = s[i - 1]
  <2> TAKE i \in n + 2 .. l + 1
  <2>1. i - (n + 1) \in 1 .. l - n /\ n + 1 + (i - (n + 1)) = i /\ n + (i - (n + 1)) = i - 1
    BY <1>1
  <2>2. QED BY <2>1, <1>3, <1>5
<1>7. n + 1 \in 1 .. n + 1 /\ (\A i \in 1 .. n : i \in 1 .. n + 1) /\ (n + 1) + (l - n) = l + 1
  BY <1>1
<1>8. t = w \o v
  BY DEF w
<1>9. /\ t \in Seq(A) /\ Len(t) = l + 1
      /\ \A i \in 1 .. n : t[i] = s[i]
      /\ t[n + 1] = a
      /\ \A i \in n + 2 .. l + 1 : t[i] = s[i - 1]
  BY <1>4, <1>5, <1>6, <1>7, <1>8 DEF w
<1>10. QED BY <1>9 DEF t, u, v, l, Inserted

LEMMA InsertedInOrder ==
  ASSUME NEW A, NEW s \in Seq(A), NoRepeat(s), NEW a \in A, a \notin Elements(s),
         NEW x, \A b \in A : x[b] \in Int, InOrder(s, x),
         NEW e \in Int, NEW y, y[a] = e, \A b \in A \ {a} : y[b] = x[b],
         NEW n \in 0 .. Len(s), \A i \in 1 .. n : x[s[i]] <= e,
         n < Len(s) => x[s[n + 1]] > e
  PROVE  /\ Inserted(s, n, a) \in Seq(A) /\ NoRepeat(Inserted(s, n, a))
         /\ InOrder(Inserted(s, n, a), y)
         /\ Inserted(s, n, a) # <<>> /\ (n # 0 => s # <<>> /\ Inserted(s, n, a)[1] = s[1])
<1> DEFINE l == Len(s)
           t == Inserted(s, n, a)
<1>1. /\ l \in Nat /\ DOMAIN s = 1 .. l /\ \A i \in 1 .. l : s[i] \in A
      /\ s = <<>> <=> l = 0
  BY ListType
<1>2. /\ t \in Seq(A) /\ Len(t) = l + 1
      /\ \A i \in 1 .. n : t[i] = s[i]
      /\ t[n + 1] = a
      /\ \A i \in n + 2 .. l + 1 : t[i] = s[i - 1]
  <2>1. Inserted(s, n, a) \in Seq(A) 
    BY InsertedAt
  <2>2. Len(Inserted(s, n, a)) = Len(s) + 1
    BY InsertedAt
  <2>3. \A i \in 1 .. n : Inserted(s, n, a)[i] = s[i]
    BY InsertedAt
  <2>4. Inserted(s, n, a)[n + 1] = a
    BY InsertedAt
  <2>5. \A i \in n + 2 .. Len(s) + 1 : Inserted(s, n, a)[i] = s[i - 1]
    BY InsertedAt
  <2>6. QED BY <2>1, <2>2, <2>3, <2>4, <2>5
<1> HIDE DEF t
<1>3. DOMAIN t = 1 .. l + 1 /\ (t = <<>> <=> Len(t) = 0)
  BY <1>2, ListType
<1>4. n \in 0 .. l /\ (n < l => x[s[n + 1]] > e)
  OBVIOUS
<1> HIDE DEF l
<1>5. \A i \in 1 .. l : s[i] \in A \ {a}
  BY <1>1 DEF Elements
<1>6. \A i \in 1 .. l + 1 :
        \/ i \in 1 .. n /\ i \in 1 .. l
        \/ i = n + 1
        \/ i \in n + 2 .. l + 1 /\ i - 1 \in 1 .. l /\ i - 1 >= n + 1
  BY <1>1, <1>4
<1>7. NoRepeat(t)
  <2> SUFFICES ASSUME NEW i \in 1 .. l + 1, NEW j \in 1 .. l + 1, t[i] = t[j], i # j
               PROVE  FALSE
    BY <1>3 DEF NoRepeat
  <2> DEFINE ix(k) == IF k \in 1 .. n THEN k ELSE k - 1
  <2>1. \A k \in 1 .. l + 1 : k # n + 1 => ix(k) \in 1 .. l /\ t[k] = s[ix(k)]
    BY <1>6, <1>2, <1>4, <1>1
  <2>2. i = n + 1 \/ j = n + 1 => FALSE
    BY <2>1, <1>2, <1>5
  <2>3. i # n + 1 /\ j # n + 1 => ix(i) # ix(j)
    BY <1>1, <1>4, <1>6
  <2> HIDE DEF ix
  <2>4. QED BY <2>1, <2>2, <2>3, <1>1 DEF NoRepeat
<1>8. \A i \in n + 1 .. l : x[s[i]] > e
  <2> SUFFICES ASSUME NEW i \in n + 1 .. l PROVE x[s[i]] > e
    OBVIOUS
  <2>1. n + 1 \in 1 .. l /\ i \in 1 .. l /\ n < l
    BY <1>1, <1>4
  <2>2. n + 1 = i \/ n + 1 < i
    BY <1>1, <1>4
  <2>3. x[s[n + 1]] > e /\ x[s[n + 1]] <= x[s[i]]
    BY <2>1, <2>2, <1>1, <1>4 DEF InOrder
  <2>4. QED BY <2>1, <2>3, <1>1
<1>9. InOrder(t, y)
  <2> SUFFICES ASSUME NEW i \in 1 .. l + 1, NEW j \in 1 .. l + 1, i < j
               PROVE  y[t[i]] <= y[t[j]]
    BY <1>3 DEF InOrder
  <2>1. \A k \in 1 .. n : y[t[k]] = x[s[k]] /\ k \in 1 .. l /\ x[s[k]] <= e /\ x[s[k]] \in Int
    BY <1>1, <1>2, <1>4, <1>5
  <2>2. y[t[n + 1]] = e
    BY <1>2
  <2>3. \A k \in n + 2 .. l + 1 : /\ y[t[k]] = x[s[k - 1]] /\ k - 1 \in 1 .. l
                                  /\ x[s[k - 1]] > e /\ x[s[k - 1]] \in Int
    <3> TAKE k \in n + 2 .. l + 1
    <3>1. k - 1 \in n + 1 .. l /\ k - 1 \in 1 .. l
      BY <1>1, <1>4
    <3>2. QED BY <3>1, <1>1, <1>2, <1>5, <1>8
  <2>4. CASE i \in 1 .. n /\ j \in 1 .. n
    BY <2>1, <2>4, <1>1 DEF InOrder
  <2>5. CASE i \in 1 .. n /\ j = n + 1
    BY <2>1, <2>2, <2>5
  <2>6. CASE i \in 1 .. n /\ j \in n + 2 .. l + 1
    <3>1. i \in 1 .. l /\ j - 1 \in 1 .. l /\ i < j - 1
      BY <2>6, <1>1, <1>4
    <3>2. QED BY <3>1, <2>1, <2>3, <2>6, <1>1 DEF InOrder
  <2>7. CASE i = n + 1 /\ j \in n + 2 .. l + 1
    BY <2>2, <2>3, <2>7
  <2>8. CASE i \in n + 2 .. l + 1 /\ j \in n + 2 .. l + 1
    <3>1. i - 1 \in 1 .. l /\ j - 1 \in 1 .. l /\ i - 1 < j - 1
      BY <2>8, <1>1, <1>4
    <3>2. x[s[i - 1]] <= x[s[j - 1]]
      BY <3>1, <1>1 DEF InOrder
    <3>3. QED BY <3>2, <2>3, <2>8
  <2>9. QED BY <2>4, <2>5, <2>6, <2>7, <2>8, <1>1, <1>4
<1>10. t # <<>> /\ (n # 0 => s # <<>> /\ t[1] = s[1])
  BY <1>1, <1>2, <1>3, <1>4
<1>11. QED BY <1>2, <1>7, <1>9, <1>10 DEF t

-----------------------------------------------------------------------------
(***************************************************************************)
(* Filtered, by the table of its intermediate results.                     *)
(***************************************************************************)
Step1(u, x, S) == IF x \in S THEN Append(u, x) ELSE u

SweepTable(g, s, S, n) ==
  /\ g \in [0 .. n -> Seq(Elements(s))] /\ g[0] = <<>>
  /\ \A i \in 1 .. n : g[i] = Step1(g[i - 1], s[i], S)

LEMMA TableExists ==
  ASSUME NEW A, NEW s \in Seq(A), NEW S
  PROVE  \A n \in Nat : n <= Len(s) => \E g : SweepTable(g, s, S, n)
<1> DEFINE T == {n \in Nat : n <= Len(s) /\ ~ \E g : SweepTable(g, s, S, n)}
<1> SUFFICES ASSUME T # {} PROVE FALSE
  OBVIOUS
<1>1. PICK n \in T : \A m \in T : n <= m
  BY LeastOf
<1>2. Len(s) \in Nat /\ DOMAIN s = 1 .. Len(s)
  BY ListType
<1>3. n # 0
  <2>1. SweepTable([i \in 0 .. 0 |-> <<>>], s, S, 0)
    BY DEF SweepTable
  <2>2. QED BY <2>1
<1>4. n - 1 \in Nat /\ n - 1 \notin T /\ n \in 1 .. Len(s)
  BY <1>1, <1>2, <1>3
<1>5. PICK g : SweepTable(g, s, S, n - 1)
  BY <1>1, <1>2, <1>4
<1> DEFINE x == Step1(g[n - 1], s[n], S)
           h == [i \in 0 .. n |-> IF i = n THEN x ELSE g[i]]
<1>6. x \in Seq(Elements(s))
  <2>1. s[n] \in Elements(s)
    BY <1>2, <1>4 DEF Elements
  <2>2. g[n - 1] \in Seq(Elements(s))
    BY <1>4, <1>5 DEF SweepTable
  <2>3. QED BY <2>1, <2>2 DEF Step1
<1> HIDE DEF x
<1>7. h \in [0 .. n -> Seq(Elements(s))] /\ h[0] = <<>>
  BY <1>3, <1>4, <1>5, <1>6 DEF SweepTable
<1>8. ASSUME NEW i \in 1 .. n PROVE h[i] = Step1(h[i - 1], s[i], S)
  <2>1. CASE i = n
    <3>1. h[i] = x /\ h[i - 1] = g[n - 1]
      BY <2>1, <1>4
    <3>2. QED BY <2>1, <3>1 DEF x
  <2>2. CASE i # n
    <3>1. h[i] = g[i] /\ h[i - 1] = g[i - 1] /\ i \in 1 .. n - 1
      BY <2>2, <1>4
    <3>2. QED BY <3>1, <1>5 DEF SweepTable
  <2>3. QED BY <2>1, <2>2
<1> HIDE DEF h
<1>9. SweepTable(h, s, S, n)
  BY <1>7, <1>8 DEF SweepTable
<1>10. QED BY <1>9

\* The first n objects, and what the list holds of them.
Firsts(s, n) == {s[i] : i \in 1 .. n}

LEMMA TableHolds ==
  ASSUME NEW A, NEW s \in Seq(A), NoRepeat(s), NEW S, NEW g, SweepTable(g, s, S, Len(s))
  PROVE  \A n \in Nat : n <= Len(s) =>
           /\ g[n] \in Seq(Elements(s)) /\ NoRepeat(g[n])
           /\ Elements(g[n]) = Firsts(s, n) \cap S
<1> DEFINE P(n) == /\ g[n] \in Seq(Elements(s)) /\ NoRepeat(g[n])
                   /\ Elements(g[n]) = Firsts(s, n) \cap S
           T == {n \in Nat : n <= Len(s) /\ ~P(n)}
<1> SUFFICES ASSUME T # {} PROVE FALSE
  OBVIOUS
<1>1. PICK n \in T : \A m \in T : n <= m
  BY LeastOf
<1>2. Len(s) \in Nat /\ DOMAIN s = 1 .. Len(s)
  BY ListType
<1>3. n # 0
  <2>1. g[0] = <<>>
    BY DEF SweepTable
  <2>2. NoRepeat(<<>>) /\ Elements(<<>>) = {} /\ <<>> \in Seq(Elements(s))
    BY DEF NoRepeat, Elements
  <2>3. Firsts(s, 0) = {}
    BY DEF Firsts
  <2>4. P(0)
    BY <2>1, <2>2, <2>3
  <2>5. QED BY <2>4
<1> HIDE DEF P
<1>4. n - 1 \in Nat /\ n - 1 \notin T /\ n \in 1 .. Len(s) /\ n - 1 <= Len(s)
  BY <1>1, <1>2, <1>3
<1>5. P(n - 1)
  BY <1>4
<1> USE DEF P
<1> DEFINE u == g[n - 1]
           x == s[n]
<1>6. g[n] = Step1(u, x, S)
  BY <1>4 DEF SweepTable
<1>7. Firsts(s, n) = Firsts(s, n - 1) \cup {x}
  <2>1. 1 .. n = (1 .. n - 1) \cup {n}
    BY <1>4
  <2>2. QED BY <2>1 DEF Firsts
<1>8. x \in Elements(s)
  BY <1>2, <1>4 DEF Elements
<1>9. CASE x \in S
  <2>1. x \notin Elements(u)
    <3>1. \A i \in 1 .. n - 1 : i \in DOMAIN s /\ i # n /\ n \in DOMAIN s
      BY <1>2, <1>4
    <3>2. x \notin Firsts(s, n - 1)
      BY <3>1 DEF NoRepeat, Firsts
    <3>3. QED BY <3>2, <1>5
  <2>2. g[n] = Append(u, x)
    BY <1>6, <1>9 DEF Step1
  <2>3. u \in Seq(Elements(s)) /\ NoRepeat(u) /\ Elements(u) = Firsts(s, n - 1) \cap S
    BY <1>5
  <2> HIDE DEF u, x
  <2>4. /\ Append(u, x) \in Seq(Elements(s)) /\ NoRepeat(Append(u, x))
        /\ Elements(Append(u, x)) = Elements(u) \cup {x}
    BY <2>1, <2>3, <1>8, Appends
  <2>5. Elements(g[n]) = Firsts(s, n) \cap S
    BY <2>2, <2>3, <2>4, <1>7, <1>9
  <2>6. P(n)
    BY <2>2, <2>4, <2>5
  <2>7. QED BY <2>6
<1>10. CASE x \notin S
  <2>1. g[n] = u
    BY <1>6, <1>10 DEF Step1
  <2>2. P(n)
    BY <2>1, <1>5, <1>7, <1>10
  <2>3. QED BY <2>2
<1>11. QED BY <1>9, <1>10

LEMMA FilteredParts ==
  ASSUME NEW A, NEW s \in Seq(A), NoRepeat(s), NEW S
  PROVE  /\ Filtered(s, S) \in Seq(A) /\ NoRepeat(Filtered(s, S))
         /\ Elements(Filtered(s, S)) = Elements(s) \cap S
<1> DEFINE l == Len(s)
           E(f) == [n \in 0 .. Len(s) |-> IF n = 0 THEN <<>>
                      ELSE IF s[n] \in S THEN Append(f[n - 1], s[n]) ELSE f[n - 1]]
           F == CHOOSE f : f = E(f)
<1>1. l \in Nat /\ DOMAIN s = 1 .. l /\ Elements(s) \subseteq A
  BY ListType
<1>2. PICK g : SweepTable(g, s, S, l)
  <2>1. Len(s) \in Nat /\ Len(s) <= Len(s)
    BY <1>1
  <2>2. \A n \in Nat : n <= Len(s) => \E g : SweepTable(g, s, S, n)
    BY TableExists
  <2>3. QED BY <2>1, <2>2
<1>3. \A f : f = E(f) => SweepTable(f, s, S, l)
  <2> SUFFICES ASSUME NEW f, f = E(f) PROVE SweepTable(f, s, S, l)
    OBVIOUS
  <2>1. /\ DOMAIN f = 0 .. l /\ f = [n \in 0 .. l |-> f[n]]
        /\ f[0] = <<>>
        /\ \A n \in 1 .. l : f[n] = IF s[n] \in S THEN Append(f[n - 1], s[n]) ELSE f[n - 1]
    <3> DEFINE e == E(f)
    <3>1. DOMAIN e = 0 .. l /\ e = [n \in 0 .. l |-> e[n]]
      OBVIOUS
    <3>2. e[0] = <<>>
      BY <1>1
    <3>3. \A n \in 1 .. l : e[n] = IF s[n] \in S THEN Append(f[n - 1], s[n]) ELSE f[n - 1]
      BY <1>1
    <3>4. f = e
      OBVIOUS
    <3> HIDE DEF e
    <3>5. QED BY ONLY <3>1, <3>2, <3>3, <3>4
  <2>2. \A n \in Nat : n <= l => f[n] = g[n]
    <3> DEFINE T == {n \in Nat : n <= l /\ f[n] # g[n]}
    <3> SUFFICES ASSUME T # {} PROVE FALSE
      OBVIOUS
    <3>1. PICK n \in T : \A m \in T : n <= m
      BY LeastOf
    <3>2. n # 0
      BY <2>1, <1>2 DEF SweepTable
    <3>3. n - 1 \in Nat /\ n - 1 \notin T /\ n \in 1 .. l /\ n - 1 <= l
      BY <3>1, <3>2, <1>1
    <3>4. f[n - 1] = g[n - 1]
      BY <3>3
    <3>5. f[n] = g[n]
      BY <3>3, <3>4, <2>1, <1>2 DEF SweepTable, Step1
    <3>6. QED BY <3>1, <3>5
  <2>3. g = [n \in 0 .. l |-> g[n]]
    BY <1>2 DEF SweepTable
  <2>4. f = g
    BY <2>1, <2>2, <2>3, <1>1
  <2>5. QED BY <2>4, <1>2
<1>4. g = E(g)
  <2>1. g = [n \in 0 .. l |-> g[n]] /\ g[0] = <<>>
    BY <1>2 DEF SweepTable
  <2>2. \A n \in 0 .. l : n # 0 => n \in 1 .. l
    BY <1>1
  <2>3. \A n \in 0 .. l : g[n] = IF n = 0 THEN <<>>
          ELSE IF s[n] \in S THEN Append(g[n - 1], s[n]) ELSE g[n - 1]
    BY <2>1, <2>2, <1>2 DEF SweepTable, Step1
  <2>4. QED BY <2>1, <2>3
<1>5. F = E(F)
  <2> HIDE DEF E
  <2>1. QED BY <1>4
<1>6. Filtered(s, S) = F[l]
  BY DEF Filtered
<1> HIDE DEF F, E
<1>7. SweepTable(F, s, S, l)
  BY <1>3, <1>5
<1>8. /\ F[l] \in Seq(Elements(s)) /\ NoRepeat(F[l])
      /\ Elements(F[l]) = Firsts(s, l) \cap S
  <2>1. Len(s) \in Nat /\ Len(s) <= Len(s)
    BY <1>1
  <2>2. \A n \in Nat : n <= Len(s) =>
          /\ F[n] \in Seq(Elements(s)) /\ NoRepeat(F[n])
          /\ Elements(F[n]) = Firsts(s, n) \cap S
    BY <1>7, TableHolds
  <2>3. QED BY <2>1, <2>2
<1>9. F[l] \in Seq(A)
  <2>1. \A T, U : T \subseteq U => Seq(T) \subseteq Seq(U)
    OBVIOUS
  <2>2. QED BY <2>1, <1>1, <1>8
<1>10. Firsts(s, l) = Elements(s)
  BY <1>1 DEF Elements, Firsts
<1>11. QED BY <1>6, <1>8, <1>9, <1>10

-----------------------------------------------------------------------------
(***************************************************************************)
(* Stacks.                                                                 *)
(***************************************************************************)
LEMMA Extended ==
  ASSUME NEW A, NEW s \in Seq(A), NEW f \in A
  PROVE  /\ Append(s, f) \in Seq(A) /\ Len(Append(s, f)) = Len(s) + 1
         /\ \A n \in 1 .. Len(s) : Append(s, f)[n] = s[n]
         /\ Append(s, f)[Len(s) + 1] = f
         /\ Len(s) \in Nat /\ \A n \in 1 .. Len(s) : s[n] \in A
BY AppendProperties, LenProperties

LEMMA Fronts ==
  ASSUME NEW A, NEW s \in Seq(A), s # <<>>
  PROVE  /\ SubSeq(s, 1, Len(s) - 1) \in Seq(A) /\ Len(SubSeq(s, 1, Len(s) - 1)) = Len(s) - 1
         /\ \A n \in 1 .. Len(s) - 1 : SubSeq(s, 1, Len(s) - 1)[n] = s[n]
         /\ Len(s) \in Nat /\ Len(s) >= 1 /\ \A n \in 1 .. Len(s) : s[n] \in A
<1>1. Len(s) \in Nat /\ Len(s) >= 1 /\ \A n \in 1 .. Len(s) : s[n] \in A
  BY ListType
<1> DEFINE r == SubSeq(s, 1, Len(s) - 1)
           n == Len(s)
<1>2. \A i \in 1 .. Len(s) - 1 : s[i] \in A
  BY <1>1
<1>3. /\ r \in Seq(A)
      /\ Len(r) = IF 1 <= Len(s) - 1 THEN (Len(s) - 1) - 1 + 1 ELSE 0
      /\ \A i \in 1 .. (Len(s) - 1) - 1 + 1 : r[i] = s[1 + i - 1]
  BY <1>1, <1>2, SubSeqProperties
<1> HIDE DEF r
<1> DEFINE m == Len(r)
<1>4. n \in Nat /\ n >= 1 /\ m = (IF 1 <= n - 1 THEN (n - 1) - 1 + 1 ELSE 0)
      /\ \A i \in 1 .. (n - 1) - 1 + 1 : r[i] = s[1 + i - 1]
  BY <1>1, <1>3
<1> HIDE DEF n, m
<1>5. m = n - 1
  BY <1>4
<1>6. ASSUME NEW i \in 1 .. n - 1 PROVE r[i] = s[i]
  <2>1. i \in 1 .. (n - 1) - 1 + 1 /\ 1 + i - 1 = i
    BY <1>4
  <2>2. QED BY <2>1, <1>4
<1>7. QED BY <1>1, <1>3, <1>5, <1>6 DEF r, n, m
=============================================================================
