---------------------------- MODULE MCVirtioBlk ----------------------------
(***************************************************************************)
(* Small instances of VirtioBlk.                                           *)
(***************************************************************************)
EXTENDS VirtioBlk

Write(f, n) == [op |-> "write", first |-> f, n |-> n]
Other(o) == [op |-> o, first |-> 0, n |-> 0]

\* Writes that do not lie within each other, with a gap, touching,
\* overlapping; a read and a flush.
MixedShapes == {Write(0, 2), Write(1, 2), Write(3, 1), Other("read"), Other("flush")}
\* Writes that always form one part.
TouchingShapes == {Write(0, 2), Write(1, 2), Write(2, 1), Other("read"), Other("flush")}
\* Two parts.
ApartShapes == {Write(0, 1), Write(2, 1), Other("read")}

\* Merging, with the limit of the iovec reached; failing with the machine
\* stopped and continued, in batches of one part and of two; with every way to
\* fail, reported; and with parts refused, stopped, moved and continued.
MCSetups == {
  [n |-> 3, shapes |-> MixedShapes, batch |-> 3, iov |-> 3, policy |-> "report",
   failures |-> {}, fails |-> 0, migrates |-> FALSE],
  [n |-> 3, shapes |-> TouchingShapes, batch |-> 3, iov |-> 4, policy |-> "stop",
   failures |-> {"later"}, fails |-> 1, migrates |-> FALSE],
  [n |-> 3, shapes |-> ApartShapes, batch |-> 2, iov |-> 4, policy |-> "stop",
   failures |-> {"later"}, fails |-> 2, migrates |-> FALSE],
  [n |-> 2, shapes |-> TouchingShapes, batch |-> 1, iov |-> 4, policy |-> "report",
   failures |-> {"later", "null", "sync"}, fails |-> 2, migrates |-> FALSE],
  [n |-> 2, shapes |-> ApartShapes, batch |-> 2, iov |-> 4, policy |-> "stop",
   failures |-> {"later", "null"}, fails |-> 2, migrates |-> TRUE]}
=============================================================================
