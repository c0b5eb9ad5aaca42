------------------------------- MODULE Lists -------------------------------
(***************************************************************************)
(* Linked lists of objects, as sequences: an object is on a list once.     *)
(***************************************************************************)
EXTENDS Naturals, Sequences

Elements(s) == {s[n] : n \in DOMAIN s}

NoRepeat(s) == \A m, n \in DOMAIN s : s[m] = s[n] => m = n

\* The list s without its first occurrence of a.
Without(s, a) ==
  IF a \notin Elements(s) THEN s
  ELSE LET at == CHOOSE n \in DOMAIN s : s[n] = a /\ \A m \in 1 .. n - 1 : s[m] # a
       IN [n \in 1 .. Len(s) - 1 |-> IF n < at THEN s[n] ELSE s[n + 1]]

\* The list s with a after its first n objects.
Inserted(s, n, a) == SubSeq(s, 1, n) \o <<a>> \o SubSeq(s, n + 1, Len(s))

\* The objects of s that are in S, in the same order.
Filtered(s, S) ==
  LET F[n \in 0 .. Len(s)] == IF n = 0 THEN <<>>
                              ELSE IF s[n] \in S THEN Append(F[n - 1], s[n]) ELSE F[n - 1]
  IN F[Len(s)]
=============================================================================
