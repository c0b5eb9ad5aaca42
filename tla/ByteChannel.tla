---------------------------- MODULE ByteChannel ----------------------------
(***************************************************************************)
(* What a serial receiver promises: while it is open, a bounded channel    *)
(* that delivers the bytes sent in order, each once, unless the reader     *)
(* flushes it.  Nothing is promised of reads while it is closed.           *)
(***************************************************************************)
EXTENDS Naturals, Sequences, SequencesExt

CONSTANTS
  Bytes,
  Nothing,    \* what a reader of an empty channel gets
  Capacity

VARIABLES
  open,
  sent,   \* the last buffer the sender handed over
  chan,   \* bytes on their way
  got     \* what the last read returned

Init == ~open /\ sent = <<>> /\ chan = <<>> /\ got = Nothing

Send ==
  /\ sent' \in BoundedSeq(Bytes, Capacity)
  /\ chan' = IF open THEN chan \o sent' ELSE chan
  /\ Len(chan') <= Capacity
  /\ UNCHANGED <<open, got>>

Receive ==
  /\ CASE ~open -> got' \in Bytes \cup {Nothing} /\ UNCHANGED chan
       [] open /\ chan = <<>> -> got' = Nothing /\ UNCHANGED chan
       [] OTHER -> got' = Head(chan) /\ chan' = Tail(chan)
  /\ UNCHANGED <<open, sent>>

\* The reader opens, closes or flushes the channel.
Control ==
  /\ open' \in BOOLEAN
  /\ chan' \in {chan, <<>>}
  /\ UNCHANGED <<sent, got>>

Next == Send \/ Receive \/ Control

Spec == Init /\ [][Next]_<<open, sent, chan, got>>
=============================================================================
